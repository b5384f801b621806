------------------------------- MODULE AgentLoop --------------------------------
(***************************************************************************)
(* The agent loop (harness/src/agent_loop.rs) of the turns of one session, *)
(* over the sandbox and the MCP server of its runtime, which it keeps from *)
(* turn to turn.  Between turns the tools may be refreshed.                *)
(*                                                                         *)
(* A select! polls its branches in no fixed order, so whatever is ready    *)
(* may happen before a cancellation is seen.                               *)
(***************************************************************************)
EXTENDS Sandbox

CONSTANTS
  MaxIterations, \* MAX_ITERATIONS, the model calls of one turn
  MaxTurns,      \* bound: turns
  MaxBatch,      \* bound: tool calls in one answer of the model
  MaxRefreshes   \* bound: refreshes of the tools

ASSUME LoopAssumption ==
  {MaxIterations, MaxTurns, MaxBatch, MaxRefreshes} \subseteq Nat

VARIABLES
  stage,         \* "between" turns, "listing", "model", "calls", "execute"
  turns,         \* the turns begun
  refreshes,     \* the refreshes begun
  cancelled,     \* the token of the turn is cancelled
  listed,        \* the registry lists tools
  iteration,     \* of the loop
  batch, next,   \* how many calls the model made, and which is to be handled
  draft,         \* Seq(Message): the history as the turn has it
  history,       \* Seq(Message): the history that was committed
  bare           \* calls were committed though no tools were offered (history)

loopVars == <<stage, turns, refreshes, cancelled, listed, iteration, batch, next,
              draft, history, bare>>

vars == <<mcpVars, sandboxVars, loopVars>>

(* A message of the user or the model, the tool calls of the model and how *)
(* many, or the result of the call with that place among them.             *)
Message ==
  {<<"user", 0>>, <<"text", 0>>} \cup ({"calls", "tool"} \X (1 .. MaxBatch))

TypeOK ==
  /\ McpTypeOK
  /\ SandboxTypeOK
  /\ stage \in {"between", "listing", "model", "calls", "execute"}
  /\ turns \in 0 .. MaxTurns
  /\ refreshes \in 0 .. MaxRefreshes
  /\ cancelled \in BOOLEAN
  /\ listed \in BOOLEAN
  /\ iteration \in 0 .. MaxIterations
  /\ batch \in 0 .. MaxBatch
  /\ next \in 0 .. MaxBatch + 1
  /\ draft \in Seq(Message)
  /\ history \in Seq(Message)
  /\ bare \in BOOLEAN

Init ==
  /\ McpInit
  /\ SandboxInit
  /\ stage = "between"
  /\ turns = 0
  /\ refreshes = 0
  /\ cancelled = FALSE
  /\ listed = TRUE
  /\ iteration = 0
  /\ batch = 0
  /\ next = 0
  /\ draft = << >>
  /\ history = << >>
  /\ bare = FALSE

-----------------------------------------------------------------------------
(* Between turns.                                                          *)

(* refresh_tools empties the listing and asks the server for another.      *)
RefreshBegins ==
  /\ stage = "between" /\ refreshes < MaxRefreshes
  /\ refreshes' = refreshes + 1
  /\ listed' = FALSE
  /\ SendRequest(NoCall)
  /\ stage' = "listing"
  /\ UNCHANGED <<sandboxVars, turns, cancelled, iteration, batch, next, draft,
                 history, bare>>

(* The server has tools, or has none, or answers with an error. *)
RefreshAnswered ==
  /\ stage = "listing" /\ RightAnswer
  /\ ReadLine
  /\ listed' \in BOOLEAN
  /\ stage' = "between"
  /\ UNCHANGED <<sandboxVars, turns, refreshes, cancelled, iteration, batch, next,
                 draft, history, bare>>

RefreshFails ==
  /\ stage = "listing"
  /\ (WrongAnswer /\ ReadLine) \/ DropRequest
  /\ stage' = "between"
  /\ UNCHANGED <<sandboxVars, turns, refreshes, cancelled, listed, iteration,
                 batch, next, draft, history, bare>>

TurnBegins ==
  /\ stage = "between" /\ turns < MaxTurns
  /\ turns' = turns + 1
  /\ cancelled' = FALSE
  /\ iteration' = 0
  /\ draft' = Append(history, <<"user", 0>>)
  /\ stage' = "model"
  /\ UNCHANGED <<mcpVars, sandboxVars, refreshes, listed, batch, next, history,
                 bare>>

-----------------------------------------------------------------------------
(* A turn.                                                                 *)

TurnOver ==
  /\ stage' = "between"
  /\ draft' = << >>
  /\ batch' = 0
  /\ next' = 0
  /\ UNCHANGED <<turns, refreshes, cancelled, listed, iteration>>

(* The turn fails, or is cancelled: nothing of it is kept. *)
TurnFails == TurnOver /\ UNCHANGED <<history, bare>>

Commit(h) == TurnOver /\ history' = h

ModelFails ==
  /\ stage = "model"
  /\ TurnFails
  /\ UNCHANGED <<mcpVars, sandboxVars>>

ModelAnswers ==
  /\ stage = "model"
  /\ Commit(Append(draft, <<"text", 0>>))
  /\ UNCHANGED <<mcpVars, sandboxVars, bare>>

(* The model calls n tools that it was offered. *)
ModelCalls(n) ==
  /\ stage = "model" /\ listed
  /\ draft' = Append(draft, <<"calls", n>>)
  /\ batch' = n
  /\ next' = 1
  /\ stage' = "calls"
  /\ UNCHANGED <<mcpVars, sandboxVars, turns, refreshes, cancelled, listed,
                 iteration, history, bare>>

(* It calls n tools though none were offered: its text, if there is one,   *)
(* ends the turn.                                                          *)
ModelCallsUnoffered(n) ==
  /\ stage = "model" /\ ~listed
  /\ \/ /\ Commit(draft \o <<<<"calls", n>>, <<"text", 0>>>>)
        /\ bare' = TRUE
     \/ TurnFails
  /\ UNCHANGED <<mcpVars, sandboxVars>>

PushResult == draft' = Append(draft, <<"tool", next>>)

(* The result of the call goes into the history, whatever came of it; then *)
(* it is the turn of the next call, or again of the model.                 *)
ToNextCall ==
  /\ UNCHANGED <<turns, refreshes, cancelled, listed, history, bare>>
  /\ \/ /\ next < batch
        /\ next' = next + 1
        /\ stage' = "calls"
        /\ UNCHANGED <<iteration, batch>>
     \/ /\ next = batch /\ iteration + 1 < MaxIterations
        /\ iteration' = iteration + 1
        /\ stage' = "model"
        /\ batch' = 0
        /\ next' = 0

(* The loop is over before the model has an answer. *)
IterationsExceeded == next = batch /\ iteration + 1 = MaxIterations /\ TurnFails

(* A call that is handled at once: discover, a tool that is not known,     *)
(* arguments or code that are refused, a sandbox that does not start.      *)
CallHandled ==
  /\ stage = "calls"
  /\ (PushResult /\ ToNextCall) \/ IterationsExceeded
  /\ UNCHANGED <<mcpVars, sandboxVars>>

ExecuteBegins ==
  /\ stage = "calls"
  /\ StartExecution
  /\ stage' = "execute"
  /\ UNCHANGED <<turns, refreshes, cancelled, listed, iteration, batch, next,
                 draft, history, bare>>

ExecuteEnds ==
  /\ stage = "execute"
  /\ Reap
  /\ (PushResult /\ ToNextCall) \/ IterationsExceeded

(* The token of the turn is cancelled. *)
CancelTurn ==
  /\ stage \in {"model", "calls", "execute"} /\ ~cancelled
  /\ cancelled' = TRUE
  /\ UNCHANGED <<mcpVars, sandboxVars, stage, turns, refreshes, listed, iteration,
                 batch, next, draft, history, bare>>

(* The loop sees it, and drops what it was waiting for. *)
TurnCancelled ==
  /\ stage \in {"model", "calls", "execute"} /\ cancelled
  /\ TurnFails
  /\ IF run = "off" THEN UNCHANGED <<mcpVars, sandboxVars>> ELSE DropExecution

-----------------------------------------------------------------------------

(* Steps of execute, which answer or stop the child. *)
Executes ==
  \/ ExecutionFails \/ CallRefused \/ CallForwarded \/ CallAnswered \/ CallFails
  \/ ExecutionTimesOut \/ ExecutionDone

Child == ChildCalls \/ ChildAnswered \/ ChildDone \/ ChildLingers \/ ChildExits

Server == ServerAnswers \/ ServerDies

TurnSteps ==
  \/ ModelFails \/ ModelAnswers
  \/ \E n \in 1 .. MaxBatch : ModelCalls(n) \/ ModelCallsUnoffered(n)
  \/ CallHandled \/ ExecuteBegins \/ ExecuteEnds \/ TurnCancelled

Next ==
  \/ (Executes \/ Child) /\ UNCHANGED loopVars
  \/ Server /\ UNCHANGED <<sandboxVars, loopVars>>
  \/ RefreshBegins \/ RefreshAnswered \/ RefreshFails
  \/ TurnBegins \/ TurnSteps \/ CancelTurn

Spec == Init /\ [][Next]_vars

(* The model answers or times out, and execute has its deadline.  A child  *)
(* that is done computes, under a limit on its CPU time, until it exits or *)
(* waits for its pipes; one that waits uses no time, and nothing ends it.  *)
(* The program and the server may stop at any point.                       *)
FairSpec ==
  /\ Spec
  /\ WF_vars(TurnSteps)
  /\ WF_vars(RefreshAnswered \/ RefreshFails)
  /\ WF_vars(ExecutionTimesOut /\ UNCHANGED loopVars)
  /\ WF_vars(child = "ends" /\ ChildExits /\ UNCHANGED loopVars)

-----------------------------------------------------------------------------

(* Whatever was dropped, timed out or answered late before, the line the   *)
(* runner takes for the result of its call is the result of that call or   *)
(* an error, and there is one line for each call.  A call made after the   *)
(* program was done gets none.                                             *)
ResultsMatch ==
  /\ child = "asks" =>
       Len(replies) <= 1 /\ \A i \in DOMAIN replies : replies[i] \in {calls, Failed}
  /\ child \in {"runs", "late"} => replies = << >>

(* A child lives only as long as the execution it belongs to: none is left *)
(* behind by a turn that fails, is cancelled, or goes on to the next call. *)
ChildOwned ==
  child # "none" <=> run # "off" /\ stage = "execute"

(* Of the messages of h at these places, tool calls are followed by the    *)
(* result of each of them, in order, and there are no results but these.   *)
WellFormed(h, places) ==
  \A i \in places :
    /\ h[i][1] = "calls" =>
         \A k \in 1 .. h[i][2] : i + k \in places /\ h[i + k] = <<"tool", k>>
    /\ h[i][1] = "tool" =>
         /\ i - h[i][2] \in places
         /\ h[i - h[i][2]][1] = "calls" /\ h[i - h[i][2]][2] >= h[i][2]

(* Mutant: the calls of earlier turns are always told. *)
AllMessages(h) == DOMAIN h

(* build_messages, by the places of the messages it takes from h: with no  *)
(* tools on offer the calls and results of earlier turns are left out.     *)
Told(h) == {i \in DOMAIN h : listed \/ h[i][1] \in {"user", "text"}}

(* What the model is sent is a history it accepts: a turn that fails half  *)
(* way leaves no open call behind.  Only an answer that calls tools though *)
(* none are on offer is kept with its calls open, and it spoils every      *)
(* later turn that has tools.                                              *)
RequestsWellFormed ==
  stage = "model" => WellFormed(draft, Told(draft)) \/ (bare /\ listed)

(* Every turn ends, whatever program, server and client do, unless what a  *)
(* program leaves behind waits for its pipes after the program is done:    *)
(* execute waits for it without a deadline, and the turn ends only if it   *)
(* is cancelled.                                                           *)
TurnEnds == stage = "model" ~> stage = "between" \/ (child = "late" /\ ~cancelled)

-----------------------------------------------------------------------------

(* What the README of the harness says of the sandbox, which has           *)
(* "execution timeouts": an execution ends, however long the program would *)
(* like to go on.  The code does otherwise; see TurnEnds.                  *)
ExecutionEnds == run = "read" ~> run = "off"

================================================================================
