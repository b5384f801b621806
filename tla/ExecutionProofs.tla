---------------------------- MODULE ExecutionProofs -----------------------------
(***************************************************************************)
(* The agent loop, its sandbox and its tool server, for every value of the *)
(* constants: their types, the child that belongs to its execution, the    *)
(* results that belong to their calls, the histories a model is sent, and  *)
(* the length of a turn.                                                   *)
(***************************************************************************)
EXTENDS AgentLoop, SequenceTheorems, TLAPS

-----------------------------------------------------------------------------
(* Types.  The call a turn is at is one that the model made.               *)

Counted == stage \in {"calls", "execute"} => next \in 1 .. batch

LoopTypeOK ==
  /\ stage \in {"between", "listing", "model", "calls", "execute"}
  /\ turns \in 0 .. MaxTurns
  /\ refreshes \in 0 .. MaxRefreshes
  /\ cancelled \in BOOLEAN
  /\ listed \in BOOLEAN
  /\ iteration \in 0 .. MaxIterations
  /\ batch \in 0 .. MaxBatch
  /\ next \in 0 .. MaxBatch + 1
  /\ draft \in Seq(Message)
  /\ history \in Seq(Message)
  /\ bare \in BOOLEAN

TypeInv == McpTypeOK /\ SandboxTypeOK /\ LoopTypeOK /\ Counted

LEMMA TypesOK == TypeInv => TypeOK
BY DEF TypeInv, LoopTypeOK, TypeOK

LEMMA ConstantFacts ==
  /\ MaxCalls \in Nat /\ MaxToolCalls \in Nat
  /\ MaxIterations \in Nat /\ MaxTurns \in Nat /\ MaxBatch \in Nat /\ MaxRefreshes \in Nat
BY MaxCallsAssumption, MaxToolCallsAssumption, LoopAssumption

LEMMA TailTypes ==
  ASSUME NEW S, NEW q \in Seq(S), q # << >>
  PROVE  Head(q) \in S /\ Tail(q) \in Seq(S)
BY HeadTailProperties

LEMMA SendRequestTypes ==
  ASSUME McpTypeOK, NEW c \in Call \cup {NoCall}, SendRequest(c)
  PROVE  McpTypeOK'
BY DEF McpTypeOK, SendRequest

LEMMA ReadLineTypes ==
  ASSUME McpTypeOK, ReadLine
  PROVE  McpTypeOK'
<1>1. pipe' \in Seq(Nat \X (Call \cup {NoCall}))
  BY TailTypes DEF McpTypeOK, ReadLine
<1> QED BY <1>1 DEF McpTypeOK, ReadLine

LEMMA DropRequestTypes ==
  ASSUME McpTypeOK, DropRequest
  PROVE  McpTypeOK'
<1> DEFINE Line == Nat \X (Call \cup {NoCall})
<1>1. Rest \in Line
  BY DEF Rest
<1>2. <<Rest>> \in Seq(Line)
  BY <1>1
<1>3. pipe' \in Seq(Line)
  <2>1. CASE pipe # << >> /\ pipe' = <<Rest>> \o Tail(pipe)
    <3>1. Tail(pipe) \in Seq(Line)
      BY <2>1, TailTypes DEF McpTypeOK
    <3> QED BY <2>1, <3>1, <1>2, ConcatProperties
  <2> QED BY <2>1 DEF McpTypeOK, DropRequest
<1> QED BY <1>3 DEF McpTypeOK, DropRequest

LEMMA ServerTypes ==
  ASSUME McpTypeOK, Server
  PROVE  McpTypeOK'
<1>1. CASE ServerAnswers
  BY <1>1, AppendProperties DEF McpTypeOK, ServerAnswers
<1>2. CASE ServerDies
  BY <1>2 DEF McpTypeOK, ServerDies
<1> QED BY <1>1, <1>2 DEF Server

LEMMA McpSame ==
  ASSUME McpTypeOK, UNCHANGED mcpVars
  PROVE  McpTypeOK'
BY DEF McpTypeOK, mcpVars

LEMMA SandboxSame ==
  ASSUME SandboxTypeOK, UNCHANGED sandboxVars
  PROVE  SandboxTypeOK'
BY DEF SandboxTypeOK, sandboxVars

LEMMA LoopSame ==
  ASSUME LoopTypeOK, Counted, UNCHANGED loopVars
  PROVE  LoopTypeOK' /\ Counted'
BY DEF LoopTypeOK, Counted, loopVars

LEMMA StopTypes ==
  ASSUME SandboxTypeOK, StopExecution
  PROVE  SandboxTypeOK'
BY DEF SandboxTypeOK, StopExecution

LEMMA ReplyTypes ==
  ASSUME SandboxTypeOK, NEW x \in Call \cup {Failed}, Reply(x)
  PROVE  SandboxTypeOK'
<1>1. replies' \in Seq(Call \cup {Failed})
  BY AppendProperties DEF SandboxTypeOK, Reply
<1> QED BY <1>1 DEF SandboxTypeOK, Reply

LEMMA VacateTypes ==
  ASSUME SandboxTypeOK, Vacate
  PROVE  SandboxTypeOK'
BY ConstantFacts DEF SandboxTypeOK, Vacate

(* The line that is a call names one. *)
LEMMA CallReadType ==
  ASSUME SandboxTypeOK, CallRead
  PROVE  Head(ipc) \in Call /\ Tail(ipc) \in Seq(Call \cup {Done})
<1>1. Head(ipc) \in Call \cup {Done} /\ Tail(ipc) \in Seq(Call \cup {Done})
  BY TailTypes DEF SandboxTypeOK, CallRead, LineRead
<1> QED BY <1>1 DEF CallRead

LEMMA ExecutesTypes ==
  ASSUME McpTypeOK, SandboxTypeOK, Executes
  PROVE  McpTypeOK' /\ SandboxTypeOK'
<1>1. CASE ExecutionFails
  BY <1>1, McpSame, StopTypes DEF ExecutionFails
<1>2. CASE CallRefused
  <2>1. /\ Tail(ipc) \in Seq(Call \cup {Done}) /\ Append(replies, Failed) \in Seq(Call \cup {Failed})
        /\ seen + 1 \in 0 .. MaxToolCalls
    BY <1>2, CallReadType, AppendProperties, ConstantFacts
       DEF CallRefused, Overdrawn, SandboxTypeOK
  <2> QED BY <1>2, <2>1, McpSame DEF CallRefused, SandboxTypeOK
<1>3. CASE CallForwarded
  <2>1. /\ Head(ipc) \in Call /\ Tail(ipc) \in Seq(Call \cup {Done})
        /\ seen + 1 \in 0 .. MaxToolCalls
    BY <1>3, CallReadType, ConstantFacts DEF CallForwarded, Overdrawn, SandboxTypeOK
  <2>2. McpTypeOK'
    BY <1>3, <2>1, SendRequestTypes DEF CallForwarded
  <2> QED BY <1>3, <2>1, <2>2 DEF CallForwarded, SandboxTypeOK
<1>4. CASE CallAnswered
  <2>1. Head(pipe)[2] \in Call \cup {Failed}
    BY <1>4, TailTypes DEF CallAnswered, RightAnswer, McpTypeOK, NoCall, Failed
  <2>2. Failed \in Call \cup {Failed}
    OBVIOUS
  <2> QED BY <1>4, <2>1, <2>2, ReadLineTypes, ReplyTypes DEF CallAnswered
<1>5. CASE CallFails
  BY <1>5, ReadLineTypes, ReplyTypes DEF CallFails
<1>6. CASE ExecutionTimesOut
  BY <1>6, StopTypes, DropRequestTypes, McpSame DEF ExecutionTimesOut
<1>7. CASE ExecutionDone
  BY <1>7, McpSame DEF ExecutionDone, SandboxTypeOK
<1> QED BY <1>1, <1>2, <1>3, <1>4, <1>5, <1>6, <1>7 DEF Executes

LEMMA ChildTypes ==
  ASSUME McpTypeOK, SandboxTypeOK, Child
  PROVE  McpTypeOK' /\ SandboxTypeOK'
<1>1. UNCHANGED mcpVars
  BY DEF Child, ChildCalls, ChildAnswered, ChildDone, ChildLingers, ChildExits
<1>2. CASE ChildCalls
  <2>1. calls + 1 \in Call /\ calls' = calls + 1 /\ calls' \in 0 .. MaxCalls
    BY <1>2, ConstantFacts DEF ChildCalls, SandboxTypeOK, Call
  <2>2. ipc' \in Seq(Call \cup {Done})
    BY <1>2, <2>1, AppendProperties DEF ChildCalls, SandboxTypeOK
  <2> QED BY <1>1, <1>2, <2>1, <2>2, McpSame DEF ChildCalls, SandboxTypeOK
<1>3. CASE ChildAnswered
  BY <1>1, <1>3, McpSame, TailTypes DEF ChildAnswered, SandboxTypeOK
<1>4. CASE ChildDone
  <2>1. ipc' \in Seq(Call \cup {Done})
    BY <1>4, AppendProperties DEF ChildDone, SandboxTypeOK
  <2> QED BY <1>1, <1>4, <2>1, McpSame DEF ChildDone, SandboxTypeOK
<1>5. CASE ChildExits
  BY <1>1, <1>5, McpSame DEF ChildExits, SandboxTypeOK
<1>6. CASE ChildLingers
  <2>1. CASE calls < MaxCalls /\ calls' = calls + 1 /\ ipc' = Append(ipc, calls')
    <3>1. calls' \in Call /\ calls' \in 0 .. MaxCalls
      BY <2>1, ConstantFacts DEF SandboxTypeOK, Call
    <3>2. ipc' \in Seq(Call \cup {Done})
      BY <2>1, <3>1, AppendProperties DEF SandboxTypeOK
    <3> QED BY <1>1, <1>6, <3>1, <3>2, McpSame DEF ChildLingers, SandboxTypeOK
  <2>2. CASE UNCHANGED <<calls, ipc>>
    BY <1>1, <1>6, <2>2, McpSame DEF ChildLingers, SandboxTypeOK
  <2> QED BY <1>6, <2>1, <2>2 DEF ChildLingers
<1> QED BY <1>2, <1>3, <1>4, <1>5, <1>6 DEF Child

LEMMA RefreshTypes ==
  ASSUME TypeInv, RefreshBegins \/ RefreshAnswered \/ RefreshFails
  PROVE  TypeInv'
<1>1. McpTypeOK'
  <2>1. NoCall \in Call \cup {NoCall}
    OBVIOUS
  <2> QED BY <2>1, SendRequestTypes, ReadLineTypes, DropRequestTypes
          DEF RefreshBegins, RefreshAnswered, RefreshFails, TypeInv
<1>2. SandboxTypeOK'
  BY SandboxSame DEF RefreshBegins, RefreshAnswered, RefreshFails, TypeInv
<1>3. LoopTypeOK' /\ Counted'
  <2>1. CASE RefreshBegins
    <3>1. refreshes + 1 \in 0 .. MaxRefreshes
      BY <2>1, ConstantFacts DEF RefreshBegins, TypeInv, LoopTypeOK
    <3> QED BY <2>1, <3>1 DEF RefreshBegins, TypeInv, LoopTypeOK, Counted
  <2>2. CASE RefreshAnswered
    BY <2>2 DEF RefreshAnswered, TypeInv, LoopTypeOK, Counted
  <2>3. CASE RefreshFails
    BY <2>3 DEF RefreshFails, TypeInv, LoopTypeOK, Counted
  <2> QED BY <2>1, <2>2, <2>3
<1> QED BY <1>1, <1>2, <1>3 DEF TypeInv

LEMMA CommitTypes ==
  ASSUME LoopTypeOK, TurnOver, history' \in Seq(Message), bare' \in BOOLEAN
  PROVE  LoopTypeOK' /\ Counted'
BY ConstantFacts DEF LoopTypeOK, Counted, TurnOver

LEMMA TurnFailsTypes ==
  ASSUME LoopTypeOK, TurnFails
  PROVE  LoopTypeOK' /\ Counted'
BY CommitTypes DEF LoopTypeOK, TurnFails

LEMMA MessageTypes ==
  /\ <<"user", 0>> \in Message /\ <<"text", 0>> \in Message
  /\ \A n \in 1 .. MaxBatch : <<"calls", n>> \in Message /\ <<"tool", n>> \in Message
BY DEF Message

LEMMA PairSeq ==
  ASSUME NEW S, NEW a \in S, NEW b \in S
  PROVE  <<a, b>> \in Seq(S)
OBVIOUS

LEMMA NextCallTypes ==
  ASSUME LoopTypeOK, Counted, stage \in {"calls", "execute"},
         (PushResult /\ ToNextCall) \/ IterationsExceeded
  PROVE  LoopTypeOK' /\ Counted'
<1>1. CASE IterationsExceeded
  BY <1>1, TurnFailsTypes DEF IterationsExceeded
<1>2. CASE PushResult /\ ToNextCall
  <2>1. next \in 1 .. MaxBatch /\ next \in 1 .. batch /\ batch \in 0 .. MaxBatch
    BY ConstantFacts DEF LoopTypeOK, Counted
  <2>2. draft' \in Seq(Message)
    BY <1>2, <2>1, MessageTypes, AppendProperties DEF PushResult, LoopTypeOK
  <2>3. CASE next < batch /\ next' = next + 1 /\ stage' = "calls"
             /\ UNCHANGED <<iteration, batch>>
    BY <1>2, <2>1, <2>2, <2>3, ConstantFacts DEF ToNextCall, LoopTypeOK, Counted
  <2>4. CASE iteration + 1 < MaxIterations /\ iteration' = iteration + 1
             /\ stage' = "model" /\ batch' = 0 /\ next' = 0
    BY <1>2, <2>2, <2>4, ConstantFacts DEF ToNextCall, LoopTypeOK, Counted
  <2> QED BY <1>2, <2>3, <2>4 DEF ToNextCall
<1> QED BY <1>1, <1>2

LEMMA DropTypes ==
  ASSUME McpTypeOK, SandboxTypeOK, DropExecution
  PROVE  McpTypeOK' /\ SandboxTypeOK'
BY VacateTypes, DropRequestTypes, McpSame DEF DropExecution

LEMMA TurnTypes ==
  ASSUME TypeInv, TurnBegins \/ TurnSteps \/ CancelTurn
  PROVE  TypeInv'
<1> USE DEF TypeInv
<1>1. CASE TurnBegins
  <2>1. draft' \in Seq(Message)
    BY <1>1, MessageTypes, AppendProperties DEF TurnBegins, LoopTypeOK
  <2>2. turns + 1 \in 0 .. MaxTurns /\ 0 \in 0 .. MaxIterations
    BY <1>1, ConstantFacts DEF TurnBegins, LoopTypeOK
  <2>3. LoopTypeOK' /\ Counted'
    BY <1>1, <2>1, <2>2 DEF TurnBegins, LoopTypeOK, Counted
  <2> QED BY <1>1, <2>3, McpSame, SandboxSame DEF TurnBegins
<1>2. CASE ModelFails
  BY <1>2, TurnFailsTypes, McpSame, SandboxSame DEF ModelFails
<1>3. CASE ModelAnswers
  <2>1. history' \in Seq(Message)
    BY <1>3, MessageTypes, AppendProperties DEF ModelAnswers, Commit, LoopTypeOK
  <2> QED BY <1>3, <2>1, CommitTypes, McpSame, SandboxSame
          DEF ModelAnswers, Commit, LoopTypeOK
<1>4. ASSUME NEW n \in 1 .. MaxBatch, ModelCalls(n)
      PROVE  TypeInv'
  <2>1. draft' \in Seq(Message)
    BY <1>4, MessageTypes, AppendProperties DEF ModelCalls, LoopTypeOK
  <2> QED BY <1>4, <2>1, McpSame, SandboxSame, ConstantFacts
          DEF ModelCalls, LoopTypeOK, Counted
<1>5. ASSUME NEW n \in 1 .. MaxBatch, ModelCallsUnoffered(n)
      PROVE  TypeInv'
  <2>1. <<<<"calls", n>>, <<"text", 0>>>> \in Seq(Message)
    BY MessageTypes, PairSeq
  <2>2. draft \o <<<<"calls", n>>, <<"text", 0>>>> \in Seq(Message)
    BY <2>1, ConcatProperties DEF LoopTypeOK
  <2>3. LoopTypeOK' /\ Counted'
    BY <1>5, <2>2, CommitTypes, TurnFailsTypes DEF ModelCallsUnoffered, Commit
  <2> QED BY <1>5, <2>3, McpSame, SandboxSame DEF ModelCallsUnoffered
<1>6. CASE CallHandled
  BY <1>6, NextCallTypes, McpSame, SandboxSame DEF CallHandled
<1>7. CASE ExecuteBegins
  <2>1. SandboxTypeOK' /\ UNCHANGED mcpVars
    BY <1>7, ConstantFacts DEF ExecuteBegins, StartExecution, SandboxTypeOK
  <2> QED BY <1>7, <2>1, McpSame DEF ExecuteBegins, LoopTypeOK, Counted
<1>8. CASE ExecuteEnds
  BY <1>8, NextCallTypes, VacateTypes, McpSame DEF ExecuteEnds, Reap
<1>9. CASE TurnCancelled
  BY <1>9, TurnFailsTypes, DropTypes, McpSame, SandboxSame DEF TurnCancelled
<1>10. CASE CancelTurn
  BY <1>10, McpSame, SandboxSame DEF CancelTurn, LoopTypeOK, Counted
<1> QED BY <1>1, <1>2, <1>3, <1>4, <1>5, <1>6, <1>7, <1>8, <1>9, <1>10 DEF TurnSteps

LEMMA StepTypes == TypeInv /\ [Next]_vars => TypeInv'
<1> SUFFICES ASSUME TypeInv, [Next]_vars PROVE TypeInv'
  OBVIOUS
<1>1. CASE (Executes \/ Child) /\ UNCHANGED loopVars
  BY <1>1, ExecutesTypes, ChildTypes, LoopSame DEF TypeInv
<1>2. CASE Server /\ UNCHANGED <<sandboxVars, loopVars>>
  BY <1>2, ServerTypes, SandboxSame, LoopSame DEF TypeInv
<1>3. CASE UNCHANGED vars
  BY <1>3, McpSame, SandboxSame, LoopSame DEF TypeInv, vars
<1> QED BY <1>1, <1>2, <1>3, RefreshTypes, TurnTypes DEF Next

LEMMA TypeInvariant == Spec => []TypeInv
<1>1. Init => TypeInv
  <2> SUFFICES ASSUME Init PROVE TypeInv
    OBVIOUS
  <2>1. McpTypeOK
    <3>1. pipe \in Seq(Nat \X (Call \cup {NoCall}))
      BY EmptySeq DEF Init, McpInit
    <3>2. server \subseteq Nat \X (Call \cup {NoCall})
      BY DEF Init, McpInit
    <3>3. nextId \in Nat /\ awaited \in Nat /\ serving \in BOOLEAN
      BY DEF Init, McpInit
    <3> QED BY <3>1, <3>2, <3>3 DEF McpTypeOK
  <2>2. SandboxTypeOK
    BY ConstantFacts DEF Init, SandboxInit, SandboxTypeOK
  <2>3. LoopTypeOK /\ Counted
    <3>1. draft \in Seq(Message) /\ history \in Seq(Message)
      BY EmptySeq DEF Init
    <3>2. /\ turns \in 0 .. MaxTurns /\ refreshes \in 0 .. MaxRefreshes
          /\ iteration \in 0 .. MaxIterations
          /\ batch \in 0 .. MaxBatch /\ next \in 0 .. MaxBatch + 1
      BY ConstantFacts DEF Init
    <3>3. cancelled \in BOOLEAN /\ listed \in BOOLEAN /\ bare \in BOOLEAN
      BY DEF Init
    <3> QED BY <3>1, <3>2, <3>3 DEF Init, LoopTypeOK, Counted
  <2> QED BY <2>1, <2>2, <2>3 DEF TypeInv
<1> QED BY <1>1, StepTypes, PTL DEF Spec

(* The types, the limit on the calls of one execution among them. *)
THEOREM TypeCorrect == Spec => []TypeOK
BY TypesOK, TypeInvariant, PTL

-----------------------------------------------------------------------------
(* The child of an execution.  It is there as long as the execution is,    *)
(* and the execution as long as the turn waits for it.                     *)

Owned ==
  /\ run = "off" <=> child = "none"
  /\ run # "off" <=> stage = "execute"

LEMMA OwnedMatches == Owned => ChildOwned
BY DEF Owned, ChildOwned

LEMMA TurnSame ==
  ASSUME Owned, UNCHANGED <<run, child>>, stage # "execute", stage' # "execute"
  PROVE  Owned'
BY DEF Owned

(* The steps of an execution, and of its child. *)
LEMMA ExecutesOwned ==
  ASSUME TypeInv, Owned, Executes \/ Child, UNCHANGED loopVars
  PROVE  Owned'
<1>1. run # "off" /\ run' # "off" /\ child' # "none"
  <2>1. CASE Executes
    <3>1. run \in {"read", "call"} /\ run' # "off"
      BY <2>1
         DEF Executes, ExecutionFails, CallRefused, CallForwarded, CallAnswered,
             CallFails, ExecutionTimesOut, ExecutionDone, Reply, StopExecution
    <3>2. child' = child \/ child' = "gone"
      BY <2>1
         DEF Executes, ExecutionFails, CallRefused, CallForwarded, CallAnswered,
             CallFails, ExecutionTimesOut, ExecutionDone, Reply, StopExecution
    <3> QED BY <3>1, <3>2 DEF Owned
  <2>2. CASE Child
    BY <2>2 DEF Child, ChildCalls, ChildAnswered, ChildDone, ChildLingers, ChildExits, Owned
  <2> QED BY <2>1, <2>2
<1> QED BY <1>1 DEF Owned, loopVars

LEMMA StepOwned == TypeInv /\ Owned /\ [Next]_vars => Owned'
<1> SUFFICES ASSUME TypeInv, Owned, [Next]_vars PROVE Owned'
  OBVIOUS
<1>1. CASE (Executes \/ Child) /\ UNCHANGED loopVars
  BY <1>1, ExecutesOwned
<1>2. CASE Server /\ UNCHANGED <<sandboxVars, loopVars>>
  BY <1>2 DEF Owned, sandboxVars, loopVars
<1>3. CASE UNCHANGED vars
  BY <1>3 DEF Owned, vars, sandboxVars, loopVars
<1>4. CASE RefreshBegins \/ RefreshAnswered \/ RefreshFails \/ TurnBegins
  BY <1>4, TurnSame
     DEF RefreshBegins, RefreshAnswered, RefreshFails, TurnBegins, sandboxVars
<1>5. CASE CancelTurn
  BY <1>5 DEF CancelTurn, Owned, sandboxVars
<1>6. CASE ModelFails \/ ModelAnswers \/ CallHandled
  BY <1>6, TurnSame
     DEF ModelFails, ModelAnswers, CallHandled, TurnFails, TurnOver, Commit, ToNextCall,
         IterationsExceeded, sandboxVars
<1>7. ASSUME NEW n, ModelCalls(n) \/ ModelCallsUnoffered(n)
      PROVE  Owned'
  BY <1>7, TurnSame
     DEF ModelCalls, ModelCallsUnoffered, TurnFails, TurnOver, Commit, sandboxVars
<1>8. CASE ExecuteBegins
  BY <1>8 DEF ExecuteBegins, StartExecution, Owned
<1>9. CASE ExecuteEnds
  <2>1. run' = "off" /\ child' = "none" /\ stage' # "execute"
    BY <1>9
       DEF ExecuteEnds, Reap, Vacate, ToNextCall, IterationsExceeded, TurnFails, TurnOver
  <2> QED BY <2>1 DEF Owned
<1>10. CASE TurnCancelled
  <2>1. stage' = "between"
    BY <1>10 DEF TurnCancelled, TurnFails, TurnOver
  <2>2. CASE run = "off"
    BY <1>10, <2>1, <2>2 DEF TurnCancelled, Owned, sandboxVars
  <2>3. CASE run # "off"
    BY <1>10, <2>1, <2>3 DEF TurnCancelled, DropExecution, Vacate, Owned
  <2> QED BY <2>2, <2>3
<1> QED BY <1>1, <1>2, <1>3, <1>4, <1>5, <1>6, <1>7, <1>8, <1>9, <1>10
        DEF Next, TurnSteps

LEMMA OwnedInvariant == Spec => []Owned
<1>1. Init => Owned
  BY DEF Init, SandboxInit, Owned
<1> QED BY <1>1, StepOwned, TypeInvariant, PTL DEF Spec

(* No turn leaves a child behind, whichever way it ends. *)
THEOREM NoChildLeft == Spec => []ChildOwned
BY OwnedMatches, OwnedInvariant, PTL

-----------------------------------------------------------------------------
(* The results of the calls.  Ids are given out once, so whatever carries  *)
(* the id that is awaited is about the call that was sent last, and that   *)
(* is the call the child waits for, if it still does.                      *)

Numbered ==
  /\ 0 < nextId
  /\ \A q \in server : q[1] < nextId
  /\ \A i \in 1 .. Len(pipe) : pipe[i][1] < nextId

Awaits ==
  run = "call" =>
    /\ awaited \in 1 .. nextId - 1
    /\ \A q \in server : q[1] = awaited => q[2] = calls
    /\ \A i \in 1 .. Len(pipe) : pipe[i][1] = awaited => pipe[i][2] = calls

(* What child and execution have said to each other. *)
Asking ==
  /\ calls \in Call
  /\ \/ run = "read" /\ ipc = <<calls>> /\ replies = << >>
     \/ run = "read" /\ ipc = << >> /\ \E x \in {calls, Failed} : replies = <<x>>
     \/ run = "call" /\ ipc = << >> /\ replies = << >>

(* What is left to be read, of a child that does nothing more. *)
Remains == {<< >>, <<calls>>, <<Done>>, <<Done, calls>>}

Speaks ==
  /\ child = "none" => ipc = << >> /\ replies = << >>
  /\ child = "runs" => run = "read" /\ ipc = << >> /\ replies = << >>
  /\ child = "asks" => Asking
  /\ child = "ends" => run \in {"read", "reap"} /\ ipc = <<Done>> /\ replies = << >>
  /\ child = "late" =>
       run \in {"read", "reap"} /\ ipc \in {<<Done>>, <<Done, calls>>} /\ replies = << >>
  /\ child = "gone" =>
       /\ ipc \in Remains
       /\ run = "call" => ipc = << >>

ResultsInv == Numbered /\ Awaits /\ Speaks

LEMMA SpeaksMatch == Speaks => ResultsMatch
<1> SUFFICES ASSUME Speaks PROVE ResultsMatch
  OBVIOUS
<1>1. ASSUME child = "asks"
      PROVE  Len(replies) <= 1 /\ \A i \in DOMAIN replies : replies[i] \in {calls, Failed}
  <2>1. CASE replies = << >>
    BY <2>1
  <2>2. ASSUME NEW x \in {calls, Failed}, replies = <<x>>
        PROVE  Len(replies) <= 1 /\ \A i \in DOMAIN replies : replies[i] \in {calls, Failed}
    BY <2>2
  <2> QED BY <1>1, <2>1, <2>2 DEF Speaks, Asking
<1>2. child \in {"runs", "late"} => replies = << >>
  BY DEF Speaks
<1> QED BY <1>1, <1>2 DEF ResultsMatch

(* A line that is taken from the pipe leaves the others. *)
LEMMA LinesLeft ==
  ASSUME McpTypeOK, pipe # << >>
  PROVE  /\ Len(pipe) \in Nat /\ 1 \in 1 .. Len(pipe) /\ Head(pipe) = pipe[1]
         /\ Len(Tail(pipe)) = Len(pipe) - 1
         /\ \A i \in 1 .. Len(Tail(pipe)) :
              Tail(pipe)[i] = pipe[i + 1] /\ i + 1 \in 1 .. Len(pipe)
<1>1. pipe \in Seq(Nat \X (Call \cup {NoCall}))
  BY DEF McpTypeOK
<1>2. Len(pipe) \in Nat /\ Len(pipe) # 0
  BY <1>1, EmptySeq, LenProperties
<1>3. Len(Tail(pipe)) = Len(pipe) - 1
  BY <1>1, HeadTailProperties
<1>4. \A i \in 1 .. Len(Tail(pipe)) : Tail(pipe)[i] = pipe[i + 1]
  BY <1>1, HeadTailProperties
<1> QED BY <1>2, <1>3, <1>4

LEMMA ReadLineNumbered ==
  ASSUME McpTypeOK, Numbered, ReadLine
  PROVE  Numbered'
BY LinesLeft DEF Numbered, ReadLine

LEMMA DropRequestNumbered ==
  ASSUME McpTypeOK, Numbered, DropRequest
  PROVE  Numbered'
<1>1. CASE UNCHANGED pipe
  BY <1>1 DEF Numbered, DropRequest
<1>2. CASE pipe # << >> /\ pipe' = <<Rest>> \o Tail(pipe)
  <2> DEFINE Line == Nat \X (Call \cup {NoCall})
  <2>1. Rest \in Line /\ <<Rest>> \in Seq(Line) /\ Len(<<Rest>>) = 1 /\ <<Rest>>[1] = Rest
    BY DEF Rest
  <2>2. Tail(pipe) \in Seq(Line)
    BY <1>2, TailTypes DEF McpTypeOK
  <2>3. /\ Len(pipe') = 1 + Len(Tail(pipe))
        /\ \A i \in 1 .. Len(pipe') :
             pipe'[i] = IF i <= 1 THEN <<Rest>>[i] ELSE Tail(pipe)[i - 1]
    BY <1>2, <2>1, <2>2, ConcatProperties
  <2>4. ASSUME NEW i \in 1 .. Len(pipe')
        PROVE  pipe'[i][1] < nextId
    <3>1. CASE i = 1
      BY <2>1, <2>3, <3>1 DEF Numbered, Rest
    <3>2. CASE i # 1
      <4>1. i - 1 \in 1 .. Len(Tail(pipe)) /\ pipe'[i] = Tail(pipe)[i - 1]
        BY <2>2, <2>3, <3>2, LenProperties
      <4> QED BY <1>2, <4>1, LinesLeft DEF Numbered
    <3> QED BY <3>1, <3>2
  <2> QED BY <2>4 DEF Numbered, DropRequest
<1> QED BY <1>1, <1>2 DEF DropRequest

LEMMA SendRequestNumbered ==
  ASSUME McpTypeOK, Numbered, NEW c, SendRequest(c)
  PROVE  /\ Numbered' /\ awaited' \in 1 .. nextId' - 1
         /\ \A q \in server' : q[1] = awaited' => q[2] = c
         /\ \A i \in 1 .. Len(pipe') : pipe'[i][1] # awaited'
<1>1. nextId \in Nat /\ nextId' = nextId + 1 /\ awaited' = nextId /\ pipe' = pipe
  BY DEF McpTypeOK, SendRequest
<1>2. \A q \in server : q \in Nat \X (Call \cup {NoCall})
  BY DEF McpTypeOK
<1>3. \A i \in 1 .. Len(pipe) : pipe[i][1] \in Nat
  BY LenProperties DEF McpTypeOK
<1>4. \A q \in server' : q \in server \/ q = <<nextId, c>>
  BY DEF SendRequest
<1>5. /\ \A q \in server' : q[1] < nextId'
      /\ \A q \in server' : q[1] = awaited' => q[2] = c
  BY <1>1, <1>2, <1>4 DEF Numbered
<1>6. \A i \in 1 .. Len(pipe') : pipe'[i][1] < nextId' /\ pipe'[i][1] # awaited'
  BY <1>1, <1>3 DEF Numbered
<1> QED BY <1>1, <1>5, <1>6 DEF Numbered

(* The server answers, or dies. *)
LEMMA ServerResults ==
  ASSUME TypeInv, ResultsInv, Server, UNCHANGED sandboxVars
  PROVE  ResultsInv'
<1>1. Speaks'
  BY DEF ResultsInv, Speaks, Asking, Remains, sandboxVars
<1>2. /\ server' \subseteq server /\ UNCHANGED <<nextId, awaited>>
  BY DEF Server, ServerAnswers, ServerDies
<1>3. CASE ServerDies
  BY <1>1, <1>2, <1>3 DEF ResultsInv, Numbered, Awaits, ServerDies, sandboxVars
<1>4. CASE ServerAnswers
  <2>1. PICK q \in server : pipe' = Append(pipe, q)
    BY <1>4 DEF ServerAnswers
  <2>2. /\ Len(pipe) \in Nat /\ Len(pipe') = Len(pipe) + 1
        /\ \A i \in 1 .. Len(pipe) : pipe'[i] = pipe[i]
        /\ pipe'[Len(pipe) + 1] = q
    BY <2>1, AppendProperties DEF TypeInv, McpTypeOK
  <2>3. \A i \in 1 .. Len(pipe') : i \in 1 .. Len(pipe) \/ pipe'[i] = q
    BY <2>2
  <2>4. Numbered'
    BY <1>2, <2>2, <2>3 DEF ResultsInv, Numbered
  <2>5. Awaits'
    BY <1>2, <2>2, <2>3 DEF ResultsInv, Awaits, sandboxVars
  <2> QED BY <1>1, <2>4, <2>5 DEF ResultsInv
<1> QED BY <1>3, <1>4 DEF Server

(* A step that leaves the requests alone, and awaits no answer. *)
LEMMA SpeaksAlone ==
  ASSUME ResultsInv, UNCHANGED mcpVars, Speaks', run' # "call"
  PROVE  ResultsInv'
BY DEF ResultsInv, Numbered, Awaits, mcpVars

LEMMA ChildResults ==
  ASSUME TypeInv, ResultsInv, Owned, Child
  PROVE  ResultsInv'
<1>1. UNCHANGED <<mcpVars, run>>
  BY DEF Child, ChildCalls, ChildAnswered, ChildDone, ChildLingers, ChildExits
<1>2. CASE ChildCalls
  <2>1. /\ run = "read" /\ replies' = << >> /\ child' = "asks"
        /\ calls' \in Call /\ ipc' = <<calls'>>
    BY <1>2, ConstantFacts
       DEF ChildCalls, ResultsInv, Speaks, TypeInv, SandboxTypeOK, Call
  <2>2. Speaks'
    BY <1>1, <2>1 DEF Speaks, Asking
  <2> QED BY <1>1, <2>1, <2>2, SpeaksAlone
<1>3. CASE ChildAnswered
  <2>1. /\ run = "read" /\ ipc = << >> /\ \E x : replies = <<x>>
    BY <1>3 DEF ChildAnswered, ResultsInv, Speaks, Asking
  <2>2. ipc' = << >> /\ replies' = << >> /\ child' = "runs" /\ run' = "read"
    BY <1>1, <1>3, <2>1 DEF ChildAnswered
  <2>3. Speaks'
    BY <2>2 DEF Speaks
  <2> QED BY <1>1, <2>2, <2>3, SpeaksAlone
<1>4. CASE ChildDone
  <2>1. run = "read" /\ ipc' = <<Done>> /\ child' = "ends" /\ replies' = << >>
    BY <1>4 DEF ChildDone, ResultsInv, Speaks
  <2>2. Speaks'
    BY <1>1, <2>1 DEF Speaks
  <2> QED BY <1>1, <2>1, <2>2, SpeaksAlone
<1>5. CASE ChildExits
  <2>1. child' = "gone" /\ UNCHANGED <<calls, ipc, replies>>
    BY <1>5 DEF ChildExits
  <2>2. ipc \in Remains /\ (run = "call" => ipc = << >>)
    BY <1>5 DEF ChildExits, ResultsInv, Speaks, Asking, Remains
  <2>3. Speaks'
    BY <1>1, <2>1, <2>2 DEF Speaks, Remains
  <2> QED BY <1>1, <2>1, <2>3 DEF ResultsInv, Numbered, Awaits, mcpVars
<1>6. CASE ChildLingers
  <2>1. /\ run \in {"read", "reap"} /\ ipc = <<Done>> /\ replies' = << >>
        /\ child' = "late"
    BY <1>6 DEF ChildLingers, ResultsInv, Speaks
  <2>2. ipc' \in {<<Done>>, <<Done, calls'>>}
    BY <1>6, <2>1 DEF ChildLingers
  <2>3. Speaks'
    BY <1>1, <2>1, <2>2 DEF Speaks
  <2> QED BY <1>1, <2>1, <2>3, SpeaksAlone
<1> QED BY <1>2, <1>3, <1>4, <1>5, <1>6 DEF Child

(* The child that called is waiting, or gone. *)
LEMMA CallReadFrom ==
  ASSUME TypeInv, ResultsInv, run = "read", CallRead
  PROVE  /\ Head(ipc) = calls /\ Tail(ipc) = << >>
         /\ child = "gone" \/ (child = "asks" /\ calls \in Call /\ replies = << >>)
<1>1. ipc \notin {<< >>, <<Done>>, <<Done, calls>>}
  BY DEF CallRead, LineRead
<1>2. child \in {"asks", "gone"} /\ ipc = <<calls>>
  BY <1>1 DEF ResultsInv, Speaks, Asking, Remains, TypeInv, SandboxTypeOK
<1>3. child = "asks" => calls \in Call /\ replies = << >>
  BY <1>1 DEF ResultsInv, Speaks, Asking
<1> QED BY <1>2, <1>3

LEMMA ReplyResults ==
  ASSUME TypeInv, ResultsInv, Owned, run = "call", ReadLine,
         NEW x \in {calls, Failed}, Reply(x)
  PROVE  ResultsInv'
<1>1. run' = "read" /\ UNCHANGED <<child, calls, ipc>> /\ replies' = Append(replies, x)
  BY DEF Reply
<1>2. child = "gone" \/ (child = "asks" /\ calls \in Call /\ replies = << >>)
  BY DEF ResultsInv, Speaks, Asking, Owned, TypeInv, SandboxTypeOK
<1>3. ipc = << >>
  BY <1>2 DEF ResultsInv, Speaks, Asking
<1>4. Speaks'
  <2>1. CASE child = "gone"
    BY <1>1, <1>3, <2>1 DEF Speaks, Remains
  <2>2. CASE child = "asks" /\ calls \in Call /\ replies = << >>
    <3>1. replies' = <<x>>
      BY <1>1, <2>2
    <3> QED BY <1>1, <1>3, <2>2, <3>1 DEF Speaks, Asking
  <2> QED BY <1>2, <2>1, <2>2
<1>5. Numbered'
  BY ReadLineNumbered DEF ResultsInv, TypeInv
<1> QED BY <1>1, <1>4, <1>5 DEF ResultsInv, Awaits

(* Nobody is left to be answered. *)
LEMMA GoneResults ==
  ASSUME TypeInv, ResultsInv, Numbered', run' # "call", child' = "gone",
         child # "none", UNCHANGED <<calls, ipc>>
  PROVE  ResultsInv'
<1>1. ipc \in Remains
  BY DEF TypeInv, SandboxTypeOK, ResultsInv, Speaks, Asking, Remains
<1> QED BY <1>1 DEF ResultsInv, Speaks, Remains, Awaits

LEMMA ExecutesResults ==
  ASSUME TypeInv, ResultsInv, Owned, Executes
  PROVE  ResultsInv'
<1>1. child # "none" /\ run \in {"read", "call"}
  BY DEF Owned, Executes, ExecutionFails, CallRefused, CallForwarded, CallAnswered,
         CallFails, ExecutionTimesOut, ExecutionDone
<1>2. CASE ExecutionFails \/ ExecutionTimesOut
  <2>1. child' = "gone" /\ run' = "reap" /\ UNCHANGED <<calls, ipc>>
    BY <1>2 DEF ExecutionFails, ExecutionTimesOut, StopExecution
  <2>2. Numbered'
    <3>1. CASE UNCHANGED mcpVars
      BY <3>1 DEF ResultsInv, Numbered, mcpVars
    <3>2. CASE DropRequest
      BY <3>2, DropRequestNumbered DEF ResultsInv, TypeInv
    <3> QED BY <1>2, <3>1, <3>2 DEF ExecutionFails, ExecutionTimesOut
  <2> QED BY <1>1, <2>1, <2>2, GoneResults
<1>3. CASE CallRefused
  <2>1. /\ run = "read" /\ run' = run /\ child' = child /\ calls' = calls /\ ipc' = << >>
        /\ replies' = Append(replies, Failed) /\ UNCHANGED mcpVars
    BY <1>3, CallReadFrom DEF CallRefused
  <2>2. child = "gone" \/ (child = "asks" /\ calls \in Call /\ replies' = <<Failed>>)
    <3>1. child = "gone" \/ (child = "asks" /\ calls \in Call /\ replies = << >>)
      BY <1>3, CallReadFrom DEF CallRefused
    <3>2. replies = << >> => replies' = <<Failed>>
      BY <2>1
    <3> QED BY <3>1, <3>2
  <2>3. Speaks'
    <3>1. CASE child = "gone"
      BY <2>1, <3>1 DEF Speaks, Remains
    <3>2. CASE child = "asks" /\ calls \in Call /\ replies' = <<Failed>>
      <4>1. Asking'
        BY <2>1, <3>2 DEF Asking
      <4> QED BY <2>1, <3>2, <4>1 DEF Speaks
    <3> QED BY <2>2, <3>1, <3>2
  <2> QED BY <2>1, <2>3, SpeaksAlone
<1>4. CASE CallForwarded
  <2>1. /\ Head(ipc) = calls /\ ipc' = << >> /\ UNCHANGED <<child, calls, replies>>
        /\ run' = "call" /\ SendRequest(calls)
        /\ child = "gone" \/ (child = "asks" /\ calls \in Call /\ replies = << >>)
    BY <1>4, CallReadFrom DEF CallForwarded
  <2>2. Speaks'
    BY <2>1 DEF Speaks, Asking, Remains
  <2>3. Numbered' /\ Awaits'
    BY <2>1, SendRequestNumbered DEF ResultsInv, TypeInv, Awaits
  <2> QED BY <2>2, <2>3 DEF ResultsInv
<1>5. CASE CallAnswered
  <2>1. pipe # << >> /\ Head(pipe)[1] = awaited /\ run = "call" /\ ReadLine
    BY <1>5 DEF CallAnswered, RightAnswer
  <2>2. Head(pipe)[2] = calls
    BY <2>1, LinesLeft DEF ResultsInv, Awaits, TypeInv
  <2>3. \E x \in {calls, Failed} : Reply(x)
    BY <1>5, <2>2 DEF CallAnswered
  <2> QED BY <2>1, <2>3, ReplyResults
<1>6. CASE CallFails
  BY <1>6, ReplyResults DEF CallFails
<1>7. CASE ExecutionDone
  <2>1. /\ run = "read" /\ ipc # << >> /\ Head(ipc) = Done /\ run' = "reap"
        /\ UNCHANGED <<mcpVars, child, calls, ipc, replies>>
    BY <1>7 DEF ExecutionDone, LineRead
  <2>2. child \notin {"runs", "asks"}
    <3>1. calls \in Call => calls # Done
      BY DEF Call, Done
    <3>2. ipc = <<calls>> => Head(ipc) = calls
      OBVIOUS
    <3> QED BY <2>1, <3>1, <3>2 DEF ResultsInv, Speaks, Asking
  <2>3. Speaks'
    BY <1>1, <2>1, <2>2 DEF ResultsInv, Speaks, Remains
  <2> QED BY <2>1, <2>3, SpeaksAlone
<1> QED BY <1>2, <1>3, <1>4, <1>5, <1>6, <1>7 DEF Executes

(* No execution is under way, and none of a child is left. *)
LEMMA VacantResults ==
  ASSUME Numbered', run' = "off", child' = "none", ipc' = << >>, replies' = << >>
  PROVE  ResultsInv'
BY DEF ResultsInv, Speaks, Awaits

LEMMA VacantSame ==
  ASSUME ResultsInv, run = "off", child = "none", Numbered', UNCHANGED sandboxVars
  PROVE  ResultsInv'
BY VacantResults DEF ResultsInv, Speaks, sandboxVars

LEMMA StepResults == TypeInv /\ Owned /\ ResultsInv /\ [Next]_vars => ResultsInv'
<1> SUFFICES ASSUME TypeInv, Owned, ResultsInv, [Next]_vars PROVE ResultsInv'
  OBVIOUS
<1>1. CASE UNCHANGED <<mcpVars, sandboxVars>>
  BY <1>1 DEF ResultsInv, Numbered, Awaits, Speaks, Asking, Remains, mcpVars, sandboxVars
<1>2. CASE (Executes \/ Child) /\ UNCHANGED loopVars
  BY <1>2, ExecutesResults, ChildResults
<1>3. CASE Server /\ UNCHANGED <<sandboxVars, loopVars>>
  BY <1>3, ServerResults
<1>4. CASE RefreshBegins \/ RefreshAnswered \/ RefreshFails
  <2>1. run = "off" /\ child = "none" /\ UNCHANGED sandboxVars
    BY <1>4 DEF RefreshBegins, RefreshAnswered, RefreshFails, Owned
  <2>2. Numbered'
    BY <1>4, SendRequestNumbered, ReadLineNumbered, DropRequestNumbered
       DEF RefreshBegins, RefreshAnswered, RefreshFails, ResultsInv, TypeInv
  <2> QED BY <2>1, <2>2, VacantSame
<1>5. CASE ExecuteBegins
  <2>1. run = "off" /\ child = "none"
    BY <1>5 DEF ExecuteBegins, Owned
  <2>2. /\ run' = "read" /\ child' = "runs" /\ ipc' = << >> /\ replies' = << >>
        /\ UNCHANGED mcpVars
    BY <1>5, <2>1 DEF ExecuteBegins, StartExecution, ResultsInv, Speaks
  <2>3. Speaks'
    BY <2>2 DEF Speaks
  <2> QED BY <2>2, <2>3, SpeaksAlone
<1>6. CASE ExecuteEnds
  <2>1. Numbered'
    BY <1>6 DEF ExecuteEnds, Reap, ResultsInv, Numbered, mcpVars
  <2> QED BY <1>6, <2>1, VacantResults DEF ExecuteEnds, Reap, Vacate
<1>7. CASE TurnCancelled
  <2>1. CASE run = "off"
    BY <1>1, <1>7, <2>1 DEF TurnCancelled
  <2>2. CASE run # "off"
    <3>1. Vacate /\ (DropRequest \/ UNCHANGED mcpVars)
      BY <1>7, <2>2 DEF TurnCancelled, DropExecution
    <3>2. Numbered'
      BY <3>1, DropRequestNumbered DEF ResultsInv, TypeInv, Numbered, mcpVars
    <3> QED BY <3>1, <3>2, VacantResults DEF Vacate
  <2> QED BY <2>1, <2>2
<1>8. CASE \/ TurnBegins \/ CancelTurn \/ ModelFails \/ ModelAnswers \/ CallHandled
           \/ \E n \in 1 .. MaxBatch : ModelCalls(n) \/ ModelCallsUnoffered(n)
  BY <1>1, <1>8
     DEF TurnBegins, CancelTurn, ModelFails, ModelAnswers, CallHandled, ModelCalls,
         ModelCallsUnoffered
<1> QED BY <1>1, <1>2, <1>3, <1>4, <1>5, <1>6, <1>7, <1>8 DEF Next, TurnSteps, vars

LEMMA ResultsInvariant == Spec => []ResultsInv
<1>1. Init => ResultsInv
  BY DEF Init, McpInit, SandboxInit, ResultsInv, Numbered, Awaits, Speaks
<1> QED BY <1>1, StepResults, TypeInvariant, OwnedInvariant, PTL DEF Spec

(* The line a program takes for the result of its call is the result of    *)
(* that call, or an error, however many answers came late before.          *)
THEOREM ResultsOfTheirCalls == Spec => []ResultsMatch
BY SpeaksMatch, ResultsInvariant, PTL DEF ResultsInv

-----------------------------------------------------------------------------
(* The histories.  What a turn has of its history is closed: each call in  *)
(* it has its results; but for the calls the turn is at, which follow what *)
(* is closed, and have the results of those that were handled.             *)

Closed(h) == WellFormed(h, 1 .. Len(h))

Open(h, n, k) ==
  \E p \in Nat :
    /\ Len(h) = p + k
    /\ WellFormed(h, 1 .. p)
    /\ h[p + 1] = <<"calls", n>>
    /\ \A i \in 1 .. k - 1 : h[p + 1 + i] = <<"tool", i>>

HistoriesInv ==
  ~bare =>
    /\ Closed(history)
    /\ stage = "model" => Closed(draft)
    /\ stage \in {"calls", "execute"} => Open(draft, batch, next)

LEMMA AppendFacts ==
  ASSUME NEW h \in Seq(Message), NEW m \in Message
  PROVE  /\ Len(h) \in Nat /\ Len(Append(h, m)) = Len(h) + 1
         /\ \A i \in 1 .. Len(h) : Append(h, m)[i] = h[i]
         /\ Append(h, m)[Len(h) + 1] = m
BY AppendProperties

LEMMA MessageFacts ==
  ASSUME NEW m \in Message
  PROVE  /\ m[1] \in {"user", "text", "calls", "tool"} /\ m[2] \in Nat
         /\ m[1] \in {"calls", "tool"} => m[2] \in 1 .. MaxBatch
BY ConstantFacts DEF Message

(* What is closed does not depend on what follows it. *)
LEMMA ClosedBelow ==
  ASSUME NEW h \in Seq(Message), NEW g \in Seq(Message), NEW p \in Nat, p <= Len(h),
         \A i \in 1 .. p : g[i] = h[i], WellFormed(h, 1 .. p)
  PROVE  WellFormed(g, 1 .. p)
<1> SUFFICES ASSUME NEW i \in 1 .. p
             PROVE  /\ g[i][1] = "calls" =>
                         \A k \in 1 .. g[i][2] : i + k \in 1 .. p /\ g[i + k] = <<"tool", k>>
                    /\ g[i][1] = "tool" =>
                         /\ i - g[i][2] \in 1 .. p
                         /\ g[i - g[i][2]][1] = "calls" /\ g[i - g[i][2]][2] >= g[i][2]
  BY DEF WellFormed
<1>1. g[i] = h[i]
  OBVIOUS
<1>2. ASSUME h[i][1] = "calls", NEW k \in 1 .. h[i][2]
      PROVE  i + k \in 1 .. p /\ g[i + k] = <<"tool", k>>
  <2>1. i + k \in 1 .. p /\ h[i + k] = <<"tool", k>>
    BY <1>2 DEF WellFormed
  <2> QED BY <2>1
<1>3. ASSUME h[i][1] = "tool"
      PROVE  /\ i - h[i][2] \in 1 .. p
             /\ g[i - h[i][2]][1] = "calls" /\ g[i - h[i][2]][2] >= h[i][2]
  <2>1. /\ i - h[i][2] \in 1 .. p
        /\ h[i - h[i][2]][1] = "calls" /\ h[i - h[i][2]][2] >= h[i][2]
    BY <1>3 DEF WellFormed
  <2> QED BY <2>1
<1> QED BY <1>1, <1>2, <1>3

(* A message of the user or the model may follow what is closed. *)
LEMMA ClosedSays ==
  ASSUME NEW h \in Seq(Message), Closed(h), NEW m \in Message, m[1] \in {"user", "text"}
  PROVE  Closed(Append(h, m))
<1> DEFINE g == Append(h, m)
           n == Len(h)
<1>1. /\ n \in Nat /\ Len(g) = n + 1 /\ g \in Seq(Message)
      /\ \A i \in 1 .. n : g[i] = h[i]
      /\ g[n + 1] = m
  BY AppendFacts, AppendProperties
<1>2. n <= Len(h) /\ WellFormed(h, 1 .. n)
  BY <1>1 DEF Closed
<1> HIDE DEF g, n
<1>b. WellFormed(g, 1 .. n)
  BY <1>1, <1>2, ClosedBelow
<1>3. WellFormed(g, 1 .. n + 1)
  <2>1. ASSUME NEW i \in 1 .. n + 1, g[i][1] = "calls", NEW k \in 1 .. g[i][2]
        PROVE  i + k \in 1 .. n + 1 /\ g[i + k] = <<"tool", k>>
    <3>1. i \in 1 .. n
      BY <1>1, <2>1
    <3>2. i + k \in 1 .. n /\ g[i + k] = <<"tool", k>>
      BY <1>b, <2>1, <3>1 DEF WellFormed
    <3> QED BY <1>1, <3>2
  <2>2. ASSUME NEW i \in 1 .. n + 1, g[i][1] = "tool"
        PROVE  /\ i - g[i][2] \in 1 .. n + 1
               /\ g[i - g[i][2]][1] = "calls" /\ g[i - g[i][2]][2] >= g[i][2]
    <3>1. i \in 1 .. n
      BY <1>1, <2>2
    <3>2. /\ i - g[i][2] \in 1 .. n
          /\ g[i - g[i][2]][1] = "calls" /\ g[i - g[i][2]][2] >= g[i][2]
      BY <1>b, <2>2, <3>1 DEF WellFormed
    <3> QED BY <1>1, <3>2
  <2> QED BY <2>1, <2>2 DEF WellFormed
<1> QED BY <1>1, <1>3 DEF Closed, g

(* The model makes calls. *)
LEMMA ClosedOpens ==
  ASSUME NEW h \in Seq(Message), Closed(h), NEW n \in 1 .. MaxBatch
  PROVE  Open(Append(h, <<"calls", n>>), n, 1)
<1> DEFINE g == Append(h, <<"calls", n>>)
<1>1. /\ Len(h) \in Nat /\ Len(g) = Len(h) + 1 /\ g \in Seq(Message)
      /\ \A i \in 1 .. Len(h) : g[i] = h[i]
      /\ g[Len(h) + 1] = <<"calls", n>>
  <2> DEFINE m == <<"calls", n>>
  <2>1. m \in Message
    BY MessageTypes
  <2> HIDE DEF m
  <2>2. Append(h, m) \in Seq(Message)
    BY <2>1, AppendProperties
  <2>3. /\ Len(h) \in Nat /\ Len(Append(h, m)) = Len(h) + 1
        /\ \A i \in 1 .. Len(h) : Append(h, m)[i] = h[i]
        /\ Append(h, m)[Len(h) + 1] = m
    BY <2>1, AppendFacts, Zenon
  <2> QED BY <2>2, <2>3, Zenon DEF m
<1>2. Len(h) <= Len(h) /\ WellFormed(h, 1 .. Len(h))
  BY <1>1 DEF Closed
<1> HIDE DEF g
<1>3. WellFormed(g, 1 .. Len(h))
  BY <1>1, <1>2, ClosedBelow
<1>4. \A i \in 1 .. 1 - 1 : g[Len(h) + 1 + i] = <<"tool", i>>
  OBVIOUS
<1> QED BY <1>1, <1>3, <1>4 DEF Open, g

(* A result is pushed, and calls are left. *)
LEMMA OpenGoesOn ==
  ASSUME NEW h \in Seq(Message), NEW n \in Nat, NEW k \in 1 .. MaxBatch, Open(h, n, k)
  PROVE  Open(Append(h, <<"tool", k>>), n, k + 1)
<1> DEFINE g == Append(h, <<"tool", k>>)
<1>1. /\ Len(h) \in Nat /\ Len(g) = Len(h) + 1 /\ g \in Seq(Message)
      /\ \A i \in 1 .. Len(h) : g[i] = h[i]
      /\ g[Len(h) + 1] = <<"tool", k>>
  <2> DEFINE m == <<"tool", k>>
  <2>1. m \in Message
    BY MessageTypes
  <2> HIDE DEF m
  <2>2. Append(h, m) \in Seq(Message)
    BY <2>1, AppendProperties
  <2>3. /\ Len(h) \in Nat /\ Len(Append(h, m)) = Len(h) + 1
        /\ \A i \in 1 .. Len(h) : Append(h, m)[i] = h[i]
        /\ Append(h, m)[Len(h) + 1] = m
    BY <2>1, AppendFacts, Zenon
  <2> QED BY <2>2, <2>3, Zenon DEF m
<1>2. PICK p \in Nat : /\ Len(h) = p + k
                       /\ WellFormed(h, 1 .. p)
                       /\ h[p + 1] = <<"calls", n>>
                       /\ \A i \in 1 .. k - 1 : h[p + 1 + i] = <<"tool", i>>
  BY DEF Open
<1> HIDE DEF g
<1>b. p <= Len(h) /\ \A i \in 1 .. p : g[i] = h[i]
  BY <1>1, <1>2, ConstantFacts
<1>3. WellFormed(g, 1 .. p)
  BY <1>1, <1>2, <1>b, ClosedBelow
<1>4. Len(g) = p + (k + 1) /\ g[p + 1] = <<"calls", n>>
  <2>1. k \in Nat /\ k >= 1
    BY ConstantFacts
  <2>2. Len(g) = p + (k + 1) /\ p + 1 \in 1 .. Len(h)
    BY <1>1, <1>2, <2>1
  <2>3. g[p + 1] = h[p + 1]
    BY <1>1, <2>2, Zenon
  <2> QED BY <1>2, <2>2, <2>3
<1>5. ASSUME NEW i \in 1 .. (k + 1) - 1
      PROVE  g[p + 1 + i] = <<"tool", i>>
  <2>1. CASE i = k
    <3>1. p + 1 + i = Len(h) + 1
      BY <1>2, <2>1, ConstantFacts
    <3> QED BY <1>1, <2>1, <3>1
  <2>2. CASE i # k
    <3>1. i \in 1 .. k - 1 /\ p + 1 + i \in 1 .. Len(h)
      BY <1>2, <2>2, ConstantFacts
    <3> QED BY <1>1, <1>2, <3>1
  <2> QED BY <2>1, <2>2
<1> QED BY <1>3, <1>4, <1>5 DEF Open, g

(* The result of the last call closes the history. *)
LEMMA OpenCloses ==
  ASSUME NEW h \in Seq(Message), NEW n \in 1 .. MaxBatch, Open(h, n, n)
  PROVE  Closed(Append(h, <<"tool", n>>))
<1> DEFINE g == Append(h, <<"tool", n>>)
<1>1. g \in Seq(Message) /\ Open(g, n, n + 1) /\ n \in Nat
  <2>1. n \in Nat
    BY ConstantFacts
  <2>2. <<"tool", n>> \in Message
    BY MessageTypes
  <2>3. g \in Seq(Message)
    BY <2>2, AppendProperties
  <2> QED BY <2>1, <2>3, OpenGoesOn
<1> HIDE DEF g
<1>2. PICK p \in Nat : /\ Len(g) = p + (n + 1)
                       /\ WellFormed(g, 1 .. p)
                       /\ g[p + 1] = <<"calls", n>>
                       /\ \A i \in 1 .. (n + 1) - 1 : g[p + 1 + i] = <<"tool", i>>
  BY <1>1 DEF Open
<1>3. \A i \in 1 .. n : g[p + 1 + i] = <<"tool", i>>
  BY <1>1, <1>2
<1>4. ASSUME NEW i \in 1 .. Len(g)
      PROVE  i \in 1 .. p \/ i = p + 1 \/ \E j \in 1 .. n : i = p + 1 + j
  <2>1. i > p + 1 => i - (p + 1) \in 1 .. n /\ i = p + 1 + (i - (p + 1))
    BY <1>1, <1>2
  <2> QED BY <2>1
<1>5. ASSUME NEW i \in 1 .. Len(g), g[i][1] = "calls", NEW k \in 1 .. g[i][2]
      PROVE  i + k \in 1 .. Len(g) /\ g[i + k] = <<"tool", k>>
  <2>1. CASE i \in 1 .. p
    <3>1. i + k \in 1 .. p /\ g[i + k] = <<"tool", k>>
      BY <1>2, <1>5, <2>1 DEF WellFormed
    <3> QED BY <1>1, <1>2, <3>1
  <2>2. CASE i = p + 1
    <3>1. g[i][2] = n
      BY <1>2, <2>2
    <3>2. k \in 1 .. n /\ i + k = p + 1 + k /\ i + k \in 1 .. Len(g)
      BY <1>1, <1>2, <1>5, <2>2, <3>1
    <3> QED BY <1>3, <3>2
  <2>3. ASSUME NEW j \in 1 .. n, i = p + 1 + j
        PROVE  FALSE
    <3>1. g[i] = <<"tool", j>>
      BY <1>3, <2>3
    <3>2. g[i][1] = "tool"
      BY <3>1
    <3> QED BY <1>5, <3>2
  <2> QED BY <1>4, <2>1, <2>2, <2>3
<1>6. ASSUME NEW i \in 1 .. Len(g), g[i][1] = "tool"
      PROVE  /\ i - g[i][2] \in 1 .. Len(g)
             /\ g[i - g[i][2]][1] = "calls" /\ g[i - g[i][2]][2] >= g[i][2]
  <2>1. CASE i \in 1 .. p
    <3>1. /\ i - g[i][2] \in 1 .. p
          /\ g[i - g[i][2]][1] = "calls" /\ g[i - g[i][2]][2] >= g[i][2]
      BY <1>2, <1>6, <2>1 DEF WellFormed
    <3> QED BY <1>1, <1>2, <3>1
  <2>2. CASE i = p + 1
    BY <1>2, <1>6, <2>2
  <2>3. ASSUME NEW j \in 1 .. n, i = p + 1 + j
        PROVE  /\ i - g[i][2] \in 1 .. Len(g)
               /\ g[i - g[i][2]][1] = "calls" /\ g[i - g[i][2]][2] >= g[i][2]
    <3>1. g[i][2] = j
      BY <1>3, <2>3
    <3>2. i - g[i][2] = p + 1
      BY <1>1, <2>3, <3>1
    <3>3. g[p + 1][1] = "calls" /\ g[p + 1][2] = n
      BY <1>2
    <3> QED BY <1>1, <1>2, <3>1, <3>2, <3>3
  <2> QED BY <1>4, <2>1, <2>2, <2>3
<1> QED BY <1>5, <1>6 DEF Closed, WellFormed, g

LEMMA HistoriesWellFormed ==
  ASSUME TypeInv, HistoriesInv
  PROVE  RequestsWellFormed
<1> SUFFICES ASSUME stage = "model", ~(bare /\ listed)
             PROVE  WellFormed(draft, Told(draft))
  BY DEF RequestsWellFormed
<1>1. draft \in Seq(Message) /\ DOMAIN draft = 1 .. Len(draft)
  BY DEF TypeInv, LoopTypeOK
<1>2. CASE listed
  <2>1. Told(draft) = 1 .. Len(draft)
    BY <1>1, <1>2 DEF Told
  <2> QED BY <1>2, <2>1 DEF HistoriesInv, Closed
<1>3. CASE ~listed
  <2>1. \A i \in Told(draft) : draft[i][1] \in {"user", "text"}
    BY <1>3 DEF Told
  <2> QED BY <2>1 DEF WellFormed
<1> QED BY <1>2, <1>3

(* Nothing of a turn that fails is kept. *)
LEMMA FailsHistories ==
  ASSUME HistoriesInv, TurnFails
  PROVE  HistoriesInv'
BY DEF HistoriesInv, TurnFails, TurnOver

LEMMA NextCallHistories ==
  ASSUME TypeInv, HistoriesInv, stage \in {"calls", "execute"},
         (PushResult /\ ToNextCall) \/ IterationsExceeded
  PROVE  HistoriesInv'
<1>1. CASE IterationsExceeded
  BY <1>1, FailsHistories DEF IterationsExceeded
<1>2. CASE PushResult /\ ToNextCall
  <2> SUFFICES ASSUME ~bare
               PROVE  /\ Closed(history)
                      /\ stage' = "model" => Closed(draft')
                      /\ stage' \in {"calls", "execute"} => Open(draft', batch', next')
    BY <1>2 DEF HistoriesInv, ToNextCall
  <2>1. /\ next \in 1 .. batch /\ next \in 1 .. MaxBatch /\ batch \in 1 .. MaxBatch
        /\ draft \in Seq(Message) /\ next \in Nat /\ batch \in Nat
    BY ConstantFacts DEF TypeInv, LoopTypeOK, Counted
  <2>2. Closed(history) /\ Open(draft, batch, next)
    BY DEF HistoriesInv
  <2>3. draft' = Append(draft, <<"tool", next>>)
    BY <1>2 DEF PushResult
  <2>4. CASE next' = next + 1 /\ stage' = "calls" /\ UNCHANGED batch
    BY <2>1, <2>2, <2>3, <2>4, OpenGoesOn
  <2>5. CASE next = batch /\ stage' = "model"
    BY <2>1, <2>2, <2>3, <2>5, OpenCloses
  <2> QED BY <1>2, <2>4, <2>5 DEF ToNextCall
<1> QED BY <1>1, <1>2

LEMMA StepHistories == TypeInv /\ HistoriesInv /\ [Next]_vars => HistoriesInv'
<1> SUFFICES ASSUME TypeInv, HistoriesInv, [Next]_vars PROVE HistoriesInv'
  OBVIOUS
<1>1. CASE UNCHANGED loopVars
  BY <1>1 DEF HistoriesInv, loopVars
<1>2. CASE RefreshBegins \/ RefreshAnswered \/ RefreshFails
  BY <1>2 DEF RefreshBegins, RefreshAnswered, RefreshFails, HistoriesInv
<1>3. CASE TurnBegins
  <2>1. ~bare => Closed(draft')
    BY <1>3, ClosedSays, MessageTypes
       DEF TurnBegins, HistoriesInv, TypeInv, LoopTypeOK
  <2> QED BY <1>3, <2>1 DEF TurnBegins, HistoriesInv
<1>4. CASE ModelFails
  BY <1>4, FailsHistories DEF ModelFails
<1>5. CASE ModelAnswers
  <2>1. ~bare => Closed(history')
    BY <1>5, ClosedSays, MessageTypes
       DEF ModelAnswers, Commit, HistoriesInv, TypeInv, LoopTypeOK
  <2> QED BY <1>5, <2>1 DEF ModelAnswers, Commit, TurnOver, HistoriesInv
<1>6. ASSUME NEW n \in 1 .. MaxBatch, ModelCalls(n)
      PROVE  HistoriesInv'
  <2>1. ~bare => Open(draft', batch', next')
    BY <1>6, ClosedOpens DEF ModelCalls, HistoriesInv, TypeInv, LoopTypeOK
  <2> QED BY <1>6, <2>1 DEF ModelCalls, HistoriesInv
<1>7. ASSUME NEW n \in 1 .. MaxBatch, ModelCallsUnoffered(n)
      PROVE  HistoriesInv'
  <2>1. CASE TurnFails
    BY <2>1, FailsHistories
  <2>2. CASE bare' = TRUE
    BY <2>2 DEF HistoriesInv
  <2> QED BY <1>7, <2>1, <2>2 DEF ModelCallsUnoffered
<1>8. CASE CallHandled \/ ExecuteEnds
  BY <1>8, NextCallHistories DEF CallHandled, ExecuteEnds
<1>9. CASE ExecuteBegins \/ CancelTurn
  BY <1>9 DEF ExecuteBegins, CancelTurn, HistoriesInv
<1>10. CASE TurnCancelled
  BY <1>10, FailsHistories DEF TurnCancelled
<1> QED BY <1>1, <1>2, <1>3, <1>4, <1>5, <1>6, <1>7, <1>8, <1>9, <1>10
        DEF Next, TurnSteps, vars

LEMMA HistoriesInvariant == Spec => []HistoriesInv
<1>1. Init => HistoriesInv
  BY DEF Init, HistoriesInv, Closed, WellFormed
<1> QED BY <1>1, StepHistories, TypeInvariant, PTL DEF Spec

(* The model is sent histories it accepts, whichever way earlier turns     *)
(* ended, until one is kept that calls tools which were not offered.       *)
THEOREM HistoriesAreAccepted == Spec => []RequestsWellFormed
BY HistoriesWellFormed, HistoriesInvariant, TypeInvariant, PTL


-----------------------------------------------------------------------------
(* The length of a turn.  What it has before it, by the most that the      *)
(* limits leave it: model calls, places in the batch of calls, and within  *)
(* an execution the calls of its program.                                  *)

InTurn == stage \in {"model", "calls", "execute"}

CallsLeft ==
  IF stage = "model" THEN 2 * MaxBatch + 1
  ELSE 2 * (batch - next) + IF stage = "calls" THEN 2 ELSE 1

ExecutionLeft ==
  IF run \in {"read", "call"}
  THEN 2 * (MaxToolCalls - seen) + IF run = "call" THEN 2 ELSE 1
  ELSE 0

Nearer ==
  \/ iteration' > iteration
  \/ iteration' = iteration /\ CallsLeft' < CallsLeft
  \/ /\ iteration' = iteration /\ CallsLeft' = CallsLeft
     /\ ExecutionLeft' < ExecutionLeft

Own == TurnSteps \/ Executes

LeftBounded ==
  InTurn => /\ iteration \in 0 .. MaxIterations
            /\ CallsLeft \in 0 .. 2 * MaxBatch + 1
            /\ ExecutionLeft \in 0 .. 2 * MaxToolCalls + 2

(* Each step of a turn or its execution ends the turn or brings its end    *)
(* nearer, and no step of the child, the server or the client takes it     *)
(* further off.                                                            *)
TurnNears ==
  [][InTurn =>
       \/ stage' = "between"
       \/ Nearer
       \/ UNCHANGED <<iteration, CallsLeft, ExecutionLeft>> /\ ~Own]_vars

LEMMA LeftIsBounded == TypeInv => LeftBounded
<1> SUFFICES ASSUME TypeInv, InTurn
             PROVE  /\ iteration \in 0 .. MaxIterations
                    /\ CallsLeft \in 0 .. 2 * MaxBatch + 1
                    /\ ExecutionLeft \in 0 .. 2 * MaxToolCalls + 2
  BY DEF LeftBounded
<1>1. /\ iteration \in 0 .. MaxIterations
      /\ batch \in 0 .. MaxBatch /\ next \in 0 .. MaxBatch + 1
      /\ stage \in {"calls", "execute"} => next \in 1 .. batch
      /\ seen \in 0 .. MaxToolCalls
  BY DEF TypeInv, LoopTypeOK, SandboxTypeOK, Counted
<1>2. CallsLeft \in 0 .. 2 * MaxBatch + 1
  BY <1>1, ConstantFacts DEF CallsLeft, InTurn
<1>3. ExecutionLeft \in 0 .. 2 * MaxToolCalls + 2
  BY <1>1, ConstantFacts DEF ExecutionLeft
<1> QED BY <1>1, <1>2, <1>3

(* Every step of an execution uses up a call, answers one, or is the last. *)
LEMMA ExecutesNear ==
  ASSUME TypeInv, Executes
  PROVE  ExecutionLeft' < ExecutionLeft
<1>1. seen \in 0 .. MaxToolCalls /\ MaxToolCalls \in Nat
  BY ConstantFacts DEF TypeInv, SandboxTypeOK
<1>2. CASE ExecutionFails \/ ExecutionTimesOut \/ ExecutionDone
  <2>1. run \in {"read", "call"} /\ run' = "reap"
    BY <1>2 DEF ExecutionFails, ExecutionTimesOut, ExecutionDone, StopExecution
  <2> QED BY <1>1, <2>1 DEF ExecutionLeft
<1>3. CASE CallRefused \/ CallForwarded
  <2>1. /\ run = "read" /\ run' \in {"read", "call"} /\ seen' = seen + 1
        /\ seen + 1 <= MaxToolCalls
    BY <1>1, <1>3 DEF CallRefused, CallForwarded, Overdrawn
  <2> QED BY <1>1, <2>1 DEF ExecutionLeft
<1>4. CASE CallAnswered \/ CallFails
  <2>1. run = "call" /\ run' = "read" /\ seen' = seen
    BY <1>4 DEF CallAnswered, CallFails, Reply
  <2> QED BY <1>1, <2>1 DEF ExecutionLeft
<1> QED BY <1>2, <1>3, <1>4 DEF Executes

(* The result of a call: there is a call less to handle, or a new answer   *)
(* of the model to wait for, or the turn is over.                          *)
LEMMA NextCallNear ==
  ASSUME TypeInv, stage \in {"calls", "execute"}, ToNextCall \/ IterationsExceeded
  PROVE  stage' = "between" \/ Nearer
<1>1. /\ iteration \in Nat /\ batch \in Nat /\ next \in Nat
  BY ConstantFacts DEF TypeInv, LoopTypeOK
<1>2. CASE IterationsExceeded
  BY <1>2 DEF IterationsExceeded, TurnFails, TurnOver
<1>3. CASE ToNextCall /\ next = batch
  BY <1>1, <1>3 DEF ToNextCall, Nearer
<1>4. CASE ToNextCall /\ next # batch
  <2>1. next' = next + 1 /\ stage' = "calls" /\ iteration' = iteration /\ batch' = batch
    BY <1>4 DEF ToNextCall
  <2>2. CallsLeft' < CallsLeft
    BY <1>1, <2>1 DEF CallsLeft
  <2> QED BY <2>1, <2>2 DEF Nearer
<1> QED BY <1>2, <1>3, <1>4

LEMMA TurnStepsNear ==
  ASSUME TypeInv, TurnSteps
  PROVE  stage' = "between" \/ Nearer
<1>1. CASE ModelFails \/ ModelAnswers \/ TurnCancelled
  BY <1>1 DEF ModelFails, ModelAnswers, TurnCancelled, TurnFails, Commit, TurnOver
<1>2. ASSUME NEW n \in 1 .. MaxBatch, ModelCallsUnoffered(n)
      PROVE  stage' = "between"
  BY <1>2 DEF ModelCallsUnoffered, TurnFails, Commit, TurnOver
<1>3. ASSUME NEW n \in 1 .. MaxBatch, ModelCalls(n)
      PROVE  Nearer
  <2>1. /\ stage = "model" /\ stage' = "calls" /\ batch' = n /\ next' = 1
        /\ iteration' = iteration
    BY <1>3 DEF ModelCalls
  <2>2. CallsLeft' < CallsLeft
    BY <2>1, ConstantFacts DEF CallsLeft
  <2> QED BY <2>1, <2>2 DEF Nearer
<1>4. CASE CallHandled \/ ExecuteEnds
  BY <1>4, NextCallNear DEF CallHandled, ExecuteEnds
<1>5. CASE ExecuteBegins
  <2>1. /\ stage = "calls" /\ stage' = "execute" /\ UNCHANGED <<batch, next, iteration>>
    BY <1>5 DEF ExecuteBegins
  <2>2. batch \in Nat /\ next \in Nat
    BY ConstantFacts DEF TypeInv, LoopTypeOK
  <2>3. CallsLeft' < CallsLeft
    BY <2>1, <2>2 DEF CallsLeft
  <2> QED BY <2>1, <2>3 DEF Nearer
<1> QED BY <1>1, <1>2, <1>3, <1>4, <1>5 DEF TurnSteps

LEMMA StepNears ==
  ASSUME TypeInv, Next, InTurn
  PROVE  \/ stage' = "between"
         \/ Nearer
         \/ UNCHANGED <<iteration, CallsLeft, ExecutionLeft>> /\ ~Own
<1>1. TurnSteps => stage' = "between" \/ Nearer
  BY TurnStepsNear
<1>2. CASE \/ (Executes \/ Child) /\ UNCHANGED loopVars
           \/ Server /\ UNCHANGED <<sandboxVars, loopVars>>
           \/ CancelTurn
  <2>1. UNCHANGED <<stage, iteration, batch, next>>
    BY <1>2 DEF loopVars, CancelTurn
  <2>2. iteration' = iteration /\ CallsLeft' = CallsLeft
    BY <2>1 DEF CallsLeft
  <2>3. CASE Executes
    BY <2>2, <2>3, ExecutesNear DEF Nearer
  <2>4. CASE ~Executes
    <3>1. UNCHANGED <<run, seen>>
      BY <1>2, <2>4
         DEF Child, ChildCalls, ChildAnswered, ChildDone, ChildLingers, ChildExits, CancelTurn,
             sandboxVars
    <3>2. ExecutionLeft' = ExecutionLeft
      BY <3>1 DEF ExecutionLeft
    <3> QED BY <1>1, <2>2, <2>4, <3>2 DEF Own
  <2> QED BY <2>3, <2>4
<1>3. CASE RefreshBegins \/ RefreshAnswered \/ RefreshFails \/ TurnBegins
  BY <1>3 DEF InTurn, RefreshBegins, RefreshAnswered, RefreshFails, TurnBegins
<1> QED BY <1>1, <1>2, <1>3 DEF Next

(* A turn is bounded by the limits on model calls, on the calls of an      *)
(* answer and on those of a program: every step of it ends it or brings    *)
(* its end nearer, whatever model, program, server and client do.          *)
THEOREM TurnsAreBounded == Spec => []LeftBounded /\ TurnNears
<1>1. TypeInv /\ [Next]_vars =>
        [InTurn =>
           \/ stage' = "between"
           \/ Nearer
           \/ UNCHANGED <<iteration, CallsLeft, ExecutionLeft>> /\ ~Own]_vars
  BY StepNears
<1> QED BY <1>1, LeftIsBounded, TypeInvariant, PTL DEF Spec, TurnNears

================================================================================
