-------------------------------- MODULE Sandbox ---------------------------------
(***************************************************************************)
(* One execution of a program in the sandbox: execute of                   *)
(* harness/src/sandbox.rs on one side of two pipes, and the bridge of      *)
(* harness/sandbox/runner.py on the other.  The program itself may do      *)
(* anything that the bridge lets it do.                                    *)
(***************************************************************************)
EXTENDS McpClient

CONSTANTS
  MaxToolCalls   \* MAX_TOOL_CALLS, the calls of one execution

ASSUME MaxToolCallsAssumption == MaxToolCalls \in Nat

VARIABLES
  run,           \* "off", "read", "call" or "reap": where execute is
  child,         \* "none", "runs", "asks", "ends", "late" or "gone": the process
  calls,         \* the tool() calls made so far, by any program
  ipc,           \* Seq of what the child wrote, a call or Done
  replies,       \* Seq of what it was answered, a call's result or Failed
  seen           \* tool_calls_seen

sandboxVars == <<run, child, calls, ipc, replies, seen>>

Done == 0
Failed == 0

SandboxTypeOK ==
  /\ run \in {"off", "read", "call", "reap"}
  /\ child \in {"none", "runs", "asks", "ends", "late", "gone"}
  /\ calls \in 0 .. MaxCalls
  /\ ipc \in Seq(Call \cup {Done})
  /\ replies \in Seq(Call \cup {Failed})
  /\ seen \in 0 .. MaxToolCalls

SandboxInit ==
  /\ run = "off"
  /\ child = "none"
  /\ calls = 0
  /\ ipc = << >>
  /\ replies = << >>
  /\ seen = 0

-----------------------------------------------------------------------------
(* The child.                                                              *)

(* _ToolBridge writes the call and waits for a line. *)
ChildCalls ==
  /\ child = "runs" /\ calls < MaxCalls
  /\ calls' = calls + 1
  /\ ipc' = Append(ipc, calls')
  /\ child' = "asks"
  /\ UNCHANGED <<mcpVars, run, replies, seen>>

(* The line is taken for the answer, without a look at its id. *)
ChildAnswered ==
  /\ child = "asks" /\ replies # << >>
  /\ replies' = Tail(replies)
  /\ child' = "runs"
  /\ UNCHANGED <<mcpVars, run, calls, ipc, seen>>

(* The program is over, with or without an exception. *)
ChildDone ==
  /\ child = "runs"
  /\ ipc' = Append(ipc, Done)
  /\ child' = "ends"
  /\ UNCHANGED <<mcpVars, run, calls, replies, seen>>

(* What the program leaves behind (a finalizer, a suspended generator) may *)
(* run as the interpreter shuts down.  It then waits for its pipes, which  *)
(* execute still holds: for the answer to one more call, or, by printing,  *)
(* for room in a pipe that nobody reads any more.                          *)
ChildLingers ==
  /\ child = "ends"
  /\ \/ calls < MaxCalls /\ calls' = calls + 1 /\ ipc' = Append(ipc, calls')
     \/ UNCHANGED <<calls, ipc>>
  /\ child' = "late"
  /\ UNCHANGED <<mcpVars, run, replies, seen>>

(* The process ends after that, or is ended by one of its limits. *)
ChildExits ==
  /\ child \in {"runs", "asks", "ends", "late"}
  /\ child' = "gone"
  /\ UNCHANGED <<mcpVars, run, calls, ipc, replies, seen>>

-----------------------------------------------------------------------------
(* execute.                                                                *)

(* The child is spawned and sent its code. *)
StartExecution ==
  /\ run' = "read"
  /\ child' = "runs"
  /\ seen' = 0
  /\ UNCHANGED <<mcpVars, calls, ipc, replies>>

(* Mutant: an execution that failed is only waited for. *)
LeaveExecution ==
  /\ run' = "reap"
  /\ UNCHANGED <<child, calls, ipc, replies, seen>>

(* The child is killed and then waited for. *)
StopExecution ==
  /\ run' = "reap"
  /\ child' = "gone"
  /\ UNCHANGED <<calls, ipc, replies, seen>>

(* Mutant: the call is counted after the comparison. *)
OverdrawnLate == seen > MaxToolCalls

Overdrawn == seen + 1 > MaxToolCalls

(* The child has written a line, or none and has closed its end. *)
LineRead == ipc # << >>
EndRead == ipc = << >> /\ child = "gone"

CallRead == LineRead /\ Head(ipc) # Done

(* Too many calls; a line that is too long or no message; the end of them. *)
ExecutionFails ==
  /\ run = "read"
  /\ LineRead \/ EndRead
  /\ StopExecution
  /\ UNCHANGED mcpVars

(* A call with a bad key, too large, or denied by the policy. *)
CallRefused ==
  /\ run = "read" /\ CallRead /\ ~Overdrawn
  /\ seen' = seen + 1
  /\ ipc' = Tail(ipc)
  /\ replies' = Append(replies, Failed)
  /\ UNCHANGED <<mcpVars, run, child, calls>>

CallForwarded ==
  /\ run = "read" /\ CallRead /\ ~Overdrawn
  /\ seen' = seen + 1
  /\ SendRequest(Head(ipc))
  /\ run' = "call"
  /\ ipc' = Tail(ipc)
  /\ UNCHANGED <<child, calls, replies>>

Reply(x) ==
  /\ run' = "read"
  /\ replies' = Append(replies, x)
  /\ UNCHANGED <<child, calls, ipc, seen>>

(* The result goes to the child, or the error the server answers with.     *)
CallAnswered ==
  /\ run = "call" /\ RightAnswer
  /\ ReadLine
  /\ Reply(Head(pipe)[2]) \/ Reply(Failed)

CallFails ==
  /\ run = "call" /\ WrongAnswer
  /\ ReadLine
  /\ Reply(Failed)

(* The time of the execution is over, which main.rs gives half as long as  *)
(* the client waits for its server.                                        *)
ExecutionTimesOut ==
  /\ run \in {"read", "call"}
  /\ StopExecution
  /\ IF run = "call" THEN DropRequest ELSE UNCHANGED mcpVars

(* The deadline does not cover the wait for the child that follows, and    *)
(* the child is not killed.                                                *)
ExecutionDone ==
  /\ run = "read" /\ LineRead /\ Head(ipc) = Done
  /\ run' = "reap"
  /\ UNCHANGED <<mcpVars, child, calls, ipc, replies, seen>>

(* Nothing is left of an execution that is over or dropped: the child is   *)
(* killed with it (kill_on_drop), and its pipes close.                     *)
Vacate ==
  /\ run' = "off"
  /\ child' = "none"
  /\ ipc' = << >>
  /\ replies' = << >>
  /\ seen' = 0
  /\ UNCHANGED calls

Reap ==
  /\ run = "reap" /\ child = "gone"
  /\ Vacate
  /\ UNCHANGED mcpVars

(* Mutant: the command is spawned without kill_on_drop. *)
AbandonExecution ==
  /\ run # "off"
  /\ run' = "off"
  /\ UNCHANGED <<child, calls, ipc, replies, seen>>
  /\ IF run = "call" THEN DropRequest ELSE UNCHANGED mcpVars

DropExecution ==
  /\ run # "off"
  /\ Vacate
  /\ IF run = "call" THEN DropRequest ELSE UNCHANGED mcpVars

================================================================================
