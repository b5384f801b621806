---------------------------- MODULE HarnessSessions ----------------------------
(***************************************************************************)
(* The harness's requests: HarnessAgent (harness/src/agent.rs) over        *)
(* SessionManager (session_manager.rs), the session store and the tool     *)
(* runtimes.                                                               *)
(*                                                                         *)
(* The harness runs on one thread, and a lock that is free is taken        *)
(* without yielding.  So a handler is atomic up to its next real await:    *)
(* building a runtime, the tools lock, the agent loop, the acknowledgement *)
(* of a notification, the update lock of a session.  The agent loop itself *)
(* is the module AgentLoop; here it ends in one of the ways it can end.    *)
(***************************************************************************)
EXTENDS SessionStore, ToolRuntimes, FiniteSets

CONSTANT
  Workload       \* [Session -> the kinds of request a run makes of it]

ASSUME WorkloadAssumption ==
  Workload \in [Session -> SUBSET {"prompt", "mode", "model", "load"}]

VARIABLES
  pc,            \* [Task -> Stage]
  ask,           \* [Task -> Request]
  copy,          \* [Task -> SessionData]: the session as the request has it
  previous,      \* [Task -> SessionData]: as it was when a change began
  runtime,       \* [Task -> Runtime or Nil]: the runtime it uses or refreshes
  todo,          \* [Task -> SUBSET Runtime]: what a refresh has still to visit
  active,        \* [Session -> Task or Nil]: active_turns
  cancelled,     \* the prompts whose token is cancelled
  updating,      \* [Session -> Seq(Task)]: the update lock, its holder first
  raced,         \* sessions with a turn committed in a mode change (history)
  moved,         \* sessions given a directory in a mode change (history)
  overtaken      \* sessions closed over a build (history)

turnVars == <<runtime, todo, active, cancelled, updating>>

ghostVars == <<raced, moved, overtaken>>

vars == <<storeVars, runtimeVars, pc, ask, copy, previous, turnVars, ghostVars>>

(* A prompt that was answered with end_turn, a load that was answered, or  *)
(* any request that is over: done, cancelled or refused.                   *)
Finished == {"end_turn", "loaded", "over"}

Stage ==
  {"idle", "build", "tools", "loop", "message",
   "queued", "swap", "note", "option", "undo",
   "walk", "wait", "list"} \cup Finished

Request ==
  [op : {"none", "refresh"}, of : {Nil}, value : {Nil}]
    \cup [op : {"prompt", "load"}, of : Session, value : {Nil}]
    \cup [op : {"mode"}, of : Session, value : Mode \cup {Nil}]
    \cup [op : {"model"}, of : Session, value : Model \cup {Nil}]

(* A mode or a model the harness does not have is asked for as Nil. *)
Asked(op, s, v) == [op |-> op, of |-> s, value |-> v]

NoRequest == Asked("none", Nil, Nil)

TypeOK ==
  /\ StoreTypeOK
  /\ RuntimesTypeOK
  /\ pc \in [Task -> Stage]
  /\ ask \in [Task -> Request]
  /\ copy \in [Task -> SessionData]
  /\ previous \in [Task -> SessionData]
  /\ runtime \in [Task -> Runtime \cup {Nil}]
  /\ todo \in [Task -> SUBSET Runtime]
  /\ active \in [Session -> Task \cup {Nil}]
  /\ cancelled \subseteq Task
  /\ updating \in [Session -> Seq(Task)]
  /\ raced \subseteq Session
  /\ moved \subseteq Session
  /\ overtaken \subseteq Session

Init ==
  /\ StoreInit
  /\ RuntimesInit
  /\ pc = [t \in Task |-> "idle"]
  /\ ask = [t \in Task |-> NoRequest]
  /\ copy = [t \in Task |-> Blank]
  /\ previous = [t \in Task |-> Blank]
  /\ runtime = [t \in Task |-> Nil]
  /\ todo = [t \in Task |-> {}]
  /\ active = [s \in Session |-> Nil]
  /\ cancelled = {}
  /\ updating = [s \in Session |-> << >>]
  /\ raced = {}
  /\ moved = {}
  /\ overtaken = {}

Of(t) == ask[t].of

Goes(t, stage) == pc' = [pc EXCEPT ![t] = stage]

(* t is answered: what it had of the session is dropped. *)
Dropped(t) ==
  /\ copy' = [copy EXCEPT ![t] = Blank]
  /\ previous' = [previous EXCEPT ![t] = Blank]

Over(t) ==
  /\ Goes(t, "over")
  /\ ask' = [ask EXCEPT ![t] = NoRequest]
  /\ Dropped(t)

(* t is the next request to arrive; it asks for q. *)
IsNext(t) == pc[t] = "idle" /\ \A u \in Task : u < t => pc[u] # "idle"

Arrives(t, q) ==
  /\ IsNext(t)
  /\ ask' = [ask EXCEPT ![t] = q]

(* t is building a runtime, for a turn or for a mode. *)
Building(t) == pc[t] \in {"build", "swap", "undo"}

(* A change of mode of s awaits its runtime, with a copy of the session.   *)
InModeChange(s) == \E c \in Task : pc[c] \in {"swap", "undo"} /\ Of(c) = s

-----------------------------------------------------------------------------
(* Requests without an await.                                              *)

NewSession(s) == Unissued(s) /\ Create(s, Blank)

OpenSession(s) ==
  /\ NewSession(s)
  /\ UNCHANGED <<runtimeVars, pc, ask, copy, previous, turnVars, ghostVars>>

(* The fork has all that the session has, but for prompts under way, in a  *)
(* directory of its own.                                                   *)
ForkOf(s, u) == Unissued(s) /\ u \in known /\ Create(s, WithCwd(data[u], Nil))

ForkSession(s, u) ==
  /\ ForkOf(s, u)
  /\ UNCHANGED <<runtimeVars, pc, ask, copy, previous, turnVars, ghostVars>>

(* The session is given the directory of the request, if there is one.     *)
LoadWithCwd(t, s) == Save(s, WithCwd(data[s], t))

(* session/load, or session/resume, which does the same. *)
LoadSession(t, s) ==
  /\ IsNext(t)
  /\ LoadWithCwd(t, s)
  /\ \/ /\ s \in known
        /\ ask' = [ask EXCEPT ![t] = Asked("load", s, Nil)]
        /\ Goes(t, "loaded")
        /\ UNCHANGED <<copy, previous>>
     \/ s \notin known /\ Over(t)
  /\ moved' = IF s \in known /\ InModeChange(s) THEN moved \cup {s} ELSE moved
  /\ UNCHANGED <<runtimeVars, turnVars, raced, overtaken>>

(* The token of the turn under way is cancelled, its mark stays. *)
CancelTurn(s) == cancelled' = cancelled \cup ({active[s]} \ {Nil})

CancelSession(s) ==
  /\ CancelTurn(s)
  /\ UNCHANGED <<storeVars, runtimeVars, pc, ask, copy, previous, runtime, todo,
                 active, updating, ghostVars>>

(* Closing a session the store does not have fails, but cancels its turn   *)
(* and removes its runtime all the same.                                   *)
Close(s) == CancelTurn(s) /\ Remove(s) /\ Delete(s)

CloseSession(s) ==
  /\ Close(s)
  /\ overtaken' = IF \E t \in Task : Building(t) /\ Of(t) = s
                    THEN overtaken \cup {s} ELSE overtaken
  /\ UNCHANGED <<pc, ask, copy, previous, runtime, todo, active, updating, raced,
                 moved>>

-----------------------------------------------------------------------------
(* A prompt.                                                               *)

(* begin_turn: the session has no turn under way. *)
MayBegin(s) == s \in known /\ active[s] = Nil

(* A prompt without a text is refused whatever the session does. *)
PromptUnreadable(t) ==
  /\ IsNext(t)
  /\ Over(t)
  /\ UNCHANGED <<storeVars, runtimeVars, turnVars, ghostVars>>

PromptRefused(t, s) ==
  /\ IsNext(t)
  /\ ~MayBegin(s)
  /\ Over(t)
  /\ UNCHANGED <<storeVars, runtimeVars, turnVars, ghostVars>>

(* begin_prompt: the turn is marked and gets a copy of the session; then   *)
(* it queues for the tools of its runtime, or builds one.                  *)
PromptBegins(t, s) ==
  /\ Arrives(t, Asked("prompt", s, Nil))
  /\ MayBegin(s)
  /\ active' = [active EXCEPT ![s] = t]
  /\ copy' = [copy EXCEPT ![t] = data[s]]
  /\ \/ /\ Reusable(s, data[s].mode)
        /\ runtime' = [runtime EXCEPT ![t] = table[s]]
        /\ Queue(t, table[s])
        /\ Goes(t, "tools")
     \/ /\ ~Reusable(s, data[s].mode)
        /\ Goes(t, "build")
        /\ UNCHANGED <<runtime, lock>>
  /\ UNCHANGED <<storeVars, table, sources, listed, previous, todo, cancelled,
                 updating, ghostVars>>

(* The runtime goes into the table, whatever became of the session.        *)
PromptBuilt(t) ==
  /\ pc[t] = "build"
  /\ Install(Of(t), <<t, 1>>, copy[t].mode)
  /\ runtime' = [runtime EXCEPT ![t] = <<t, 1>>]
  /\ Queue(t, <<t, 1>>)
  /\ Goes(t, "tools")
  /\ UNCHANGED <<storeVars, ask, copy, previous, todo, active, cancelled,
                 updating, ghostVars>>

(* finish_prompt: mark and token go. *)
Unmark(t) ==
  /\ active' = [active EXCEPT ![Of(t)] = Nil]
  /\ cancelled' = cancelled \ {t}

(* Mutant: the error path returns without finish_prompt. *)
PromptBuildFailsMarked(t) ==
  /\ pc[t] = "build"
  /\ Over(t)
  /\ UNCHANGED <<storeVars, runtimeVars, turnVars, ghostVars>>

PromptBuildFails(t) ==
  /\ pc[t] = "build"
  /\ Unmark(t)
  /\ Over(t)
  /\ UNCHANGED <<storeVars, runtimeVars, runtime, todo, updating, ghostVars>>

(* The loop is over, the tools are free again, and so is the session. *)
LoopEnds(t) ==
  /\ Release(runtime[t])
  /\ runtime' = [runtime EXCEPT ![t] = Nil]
  /\ Unmark(t)
  /\ UNCHANGED <<table, sources, listed, todo, updating, moved, overtaken>>

(* A token cancelled before the loop begins ends it at its first await. *)
ToolsGranted(t) ==
  /\ pc[t] = "tools" /\ HasTools(t, runtime[t])
  /\ \/ /\ t \notin cancelled
        /\ Goes(t, "loop")
        /\ UNCHANGED <<runtimeVars, ask, copy, previous, turnVars, ghostVars>>
     \/ /\ t \in cancelled
        /\ LoopEnds(t)
        /\ Over(t)
        /\ UNCHANGED raced
  /\ UNCHANGED storeVars

(* The loop stops for an error, or because its token is cancelled. *)
LoopFails(t) ==
  /\ pc[t] = "loop"
  /\ LoopEnds(t)
  /\ Over(t)
  /\ UNCHANGED <<storeVars, raced>>

(* Mutant: the tools stay locked while the client acknowledges. *)
LoopAnswersLocked(t) ==
  /\ pc[t] = "loop"
  /\ Goes(t, "message")
  /\ Unmark(t)
  /\ UNCHANGED <<storeVars, runtimeVars, ask, copy, previous, runtime, todo,
                 updating, ghostVars>>

(* The loop ends with a message, which goes to the client first. *)
LoopAnswers(t) ==
  /\ pc[t] = "loop"
  /\ LoopEnds(t)
  /\ Goes(t, "message")
  /\ UNCHANGED <<storeVars, copy, previous, ask, raced>>

(* The answer of a turn that was committed, or could not be. *)
EndsTurn(t) ==
  \/ Of(t) \in known /\ Goes(t, "end_turn") /\ Dropped(t) /\ UNCHANGED ask
  \/ Of(t) \notin known /\ Over(t)

(* Mutant: the turn's own copy of the session is saved. *)
CommitCopy(t) ==
  /\ Save(Of(t), WithTurn(copy[t], t))
  /\ EndsTurn(t)
  /\ UNCHANGED raced

(* commit_prompt: what the turn added is appended to the session as it is  *)
(* by now.                                                                 *)
Commit(t) ==
  /\ Save(Of(t), WithTurn(data[Of(t)], t))
  /\ EndsTurn(t)
  /\ raced' = IF InModeChange(Of(t)) THEN raced \cup {Of(t)} ELSE raced

(* An empty message is not sent. *)
LoopAnswersNothing(t) ==
  /\ pc[t] = "loop"
  /\ LoopEnds(t)
  /\ Commit(t)

MessageSent(t) ==
  /\ pc[t] = "message"
  /\ Commit(t)
  /\ UNCHANGED <<runtimeVars, turnVars, moved, overtaken>>

MessageFails(t) ==
  /\ pc[t] = "message"
  /\ Over(t)
  /\ UNCHANGED <<storeVars, runtimeVars, turnVars, ghostVars>>

-----------------------------------------------------------------------------
(* A change of mode or model, by its own method or as a config option.     *)

ChangeArrives(t, op, s, v) ==
  /\ Arrives(t, Asked(op, s, v))
  /\ updating' = [updating EXCEPT ![s] = Append(@, t)]
  /\ Goes(t, "queued")
  /\ UNCHANGED <<storeVars, runtimeVars, copy, previous, runtime, todo, active,
                 cancelled, ghostVars>>

(* Mutant: changes of one session are not serialized. *)
AwaitsUpdate(t) == \E i \in 1 .. Len(updating[Of(t)]) : updating[Of(t)][i] = t

MayUpdate(t) == Head(updating[Of(t)]) = t

(* The session is known and has no turn under way. *)
Changeable(s) == s \in known /\ active[s] = Nil

(* The harness has the mode or the model. *)
Supported(t) == ask[t].value # Nil


(* The request is answered and the update lock given back. *)
Finish(t) ==
  /\ Over(t)
  /\ updating' = [updating EXCEPT ![Of(t)] = Tail(@)]

ChangeRefused(t) ==
  /\ pc[t] = "queued" /\ MayUpdate(t)
  /\ ~(Changeable(Of(t)) /\ Supported(t))
  /\ Finish(t)
  /\ UNCHANGED <<storeVars, runtimeVars, runtime, todo, active, cancelled,
                 ghostVars>>

SetModel(s, m) == Changeable(s) /\ Save(s, WithModel(data[s], m))

ModelChanges(t) ==
  /\ pc[t] = "queued" /\ ask[t].op = "model" /\ MayUpdate(t) /\ Supported(t)
  /\ previous' = [previous EXCEPT ![t] = data[Of(t)]]
  /\ SetModel(Of(t), ask[t].value)
  /\ Goes(t, "option")
  /\ UNCHANGED <<runtimeVars, ask, copy, turnVars, ghostVars>>

(* set_mode reads the session before it builds the new runtime ...         *)
ReadsForMode(t, m) ==
  /\ Changeable(Of(t))
  /\ copy' = [copy EXCEPT ![t] = WithMode(data[Of(t)], m)]

(* ... and saves what it read after.                                       *)
SetsMode(t, r) == Install(Of(t), r, copy[t].mode) /\ Save(Of(t), copy[t])

ModeChangeStarts(t) ==
  /\ pc[t] = "queued" /\ ask[t].op = "mode" /\ MayUpdate(t) /\ Supported(t)
  /\ previous' = [previous EXCEPT ![t] = data[Of(t)]]
  /\ ReadsForMode(t, ask[t].value)
  /\ Goes(t, "swap")
  /\ UNCHANGED <<storeVars, runtimeVars, ask, turnVars, ghostVars>>

ModeSwapped(t) ==
  /\ pc[t] = "swap"
  /\ SetsMode(t, <<t, 1>>)
  /\ \/ /\ Of(t) \in known
        /\ Goes(t, "note")
        /\ UNCHANGED <<ask, copy, previous, updating>>
     \/ Of(t) \notin known /\ Finish(t)
  /\ UNCHANGED <<lock, runtime, todo, active, cancelled, ghostVars>>

ModeSwapFails(t) ==
  /\ pc[t] = "swap"
  /\ Finish(t)
  /\ UNCHANGED <<storeVars, runtimeVars, runtime, todo, active, cancelled,
                 ghostVars>>

(* The client has the current_mode_update. *)
ModeNoted(t) ==
  /\ pc[t] = "note"
  /\ Goes(t, "option")
  /\ UNCHANGED <<storeVars, runtimeVars, ask, copy, previous, turnVars,
                 ghostVars>>

(* The client has the config_option_update. *)
OptionSent(t) ==
  /\ pc[t] = "option"
  /\ Finish(t)
  /\ UNCHANGED <<storeVars, runtimeVars, runtime, todo, active, cancelled,
                 ghostVars>>

(* Either notification fails, and so does taking back the change. *)
RollbackRefused(t) ==
  /\ pc[t] \in {"note", "option"}
  /\ ~Changeable(Of(t))
  /\ Finish(t)
  /\ UNCHANGED <<storeVars, runtimeVars, runtime, todo, active, cancelled,
                 ghostVars>>

(* Mutant: the session is put back as it was. *)
RestoreModel(t) == Changeable(Of(t)) /\ Save(Of(t), previous[t])

(* set_model, with the model as it was. *)
ResetModel(t) == SetModel(Of(t), previous[t].model)

ModelRollsBack(t) ==
  /\ pc[t] = "option" /\ ask[t].op = "model"
  /\ ResetModel(t)
  /\ Finish(t)
  /\ UNCHANGED <<runtimeVars, runtime, todo, active, cancelled, ghostVars>>

(* set_mode, with the mode as it was. *)
ModeRollsBack(t) ==
  /\ pc[t] \in {"note", "option"} /\ ask[t].op = "mode"
  /\ ReadsForMode(t, previous[t].mode)
  /\ Goes(t, "undo")
  /\ UNCHANGED <<storeVars, runtimeVars, ask, previous, turnVars, ghostVars>>

ModeUndone(t) ==
  /\ pc[t] = "undo"
  /\ SetsMode(t, <<t, 2>>)
  /\ Finish(t)
  /\ UNCHANGED <<lock, runtime, todo, active, cancelled, ghostVars>>

ModeUndoFails(t) ==
  /\ pc[t] = "undo"
  /\ Finish(t)
  /\ UNCHANGED <<storeVars, runtimeVars, runtime, todo, active, cancelled,
                 ghostVars>>

-----------------------------------------------------------------------------
(* harness/refresh_tools: one runtime after the other, each under its lock. *)

RefreshArrives(t) ==
  /\ Arrives(t, Asked("refresh", Nil, Nil))
  /\ todo' = [todo EXCEPT ![t] = {table[s] : s \in Session} \ {Nil}]
  /\ Goes(t, "walk")
  /\ UNCHANGED <<storeVars, runtimeVars, copy, previous, runtime, active,
                 cancelled, updating, ghostVars>>

RefreshQueues(t, r) ==
  /\ pc[t] = "walk" /\ r \in todo[t]
  /\ todo' = [todo EXCEPT ![t] = @ \ {r}]
  /\ runtime' = [runtime EXCEPT ![t] = r]
  /\ Queue(t, r)
  /\ Goes(t, "wait")
  /\ UNCHANGED <<storeVars, table, sources, listed, ask, copy, previous, active,
                 cancelled, updating, ghostVars>>

RefreshDone(t) ==
  /\ pc[t] = "walk" /\ todo[t] = {}
  /\ Over(t)
  /\ UNCHANGED <<storeVars, runtimeVars, turnVars, ghostVars>>

(* The cache is emptied before the sources are asked. *)
RefreshStarts(t) ==
  /\ pc[t] = "wait" /\ HasTools(t, runtime[t])
  /\ ClearTools(runtime[t])
  /\ Goes(t, "list")
  /\ UNCHANGED <<storeVars, table, sources, lock, ask, copy, previous, turnVars,
                 ghostVars>>

(* All its tools are there; or a source fails, and with it the refresh.    *)
RefreshLists(t) ==
  /\ pc[t] = "list"
  /\ Release(runtime[t])
  /\ runtime' = [runtime EXCEPT ![t] = Nil]
  /\ \/ /\ ListTools(runtime[t])
        /\ Goes(t, "walk")
        /\ UNCHANGED <<ask, copy, previous, todo>>
     \/ /\ UNCHANGED listed
        /\ Over(t)
        /\ todo' = [todo EXCEPT ![t] = {}]
  /\ UNCHANGED <<storeVars, table, sources, active, cancelled, updating,
                 ghostVars>>

-----------------------------------------------------------------------------

(* Requests the harness takes at any time, for sessions it has issued.     *)
Client ==
  \/ \E s \in Session : OpenSession(s) \/ \E u \in Session : ForkSession(s, u)
  \/ \E s \in issued : CancelSession(s) \/ CloseSession(s)
  \/ \E t \in Task :
       \/ RefreshArrives(t) \/ PromptUnreadable(t)
       \/ \E s \in issued :
            \/ "prompt" \in Workload[s] /\ (PromptRefused(t, s) \/ PromptBegins(t, s))
            \/ "load" \in Workload[s] /\ LoadSession(t, s)
            \/ "mode" \in Workload[s] /\ \E v \in Mode \cup {Nil} : ChangeArrives(t, "mode", s, v)
            \/ "model" \in Workload[s] /\ \E v \in Model \cup {Nil} : ChangeArrives(t, "model", s, v)

(* What a request that has arrived does next. *)
Proceeds(t) ==
  \/ PromptBuilt(t) \/ PromptBuildFails(t) \/ ToolsGranted(t)
  \/ LoopFails(t) \/ LoopAnswers(t) \/ LoopAnswersNothing(t)
  \/ MessageSent(t) \/ MessageFails(t)
  \/ ChangeRefused(t) \/ ModelChanges(t) \/ ModeChangeStarts(t)
  \/ ModeSwapped(t) \/ ModeSwapFails(t) \/ ModeNoted(t) \/ OptionSent(t)
  \/ RollbackRefused(t) \/ ModelRollsBack(t) \/ ModeRollsBack(t)
  \/ ModeUndone(t) \/ ModeUndoFails(t)
  \/ \E r \in Runtime : RefreshQueues(t, r)
  \/ RefreshDone(t) \/ RefreshStarts(t) \/ RefreshLists(t)

Next == Client \/ \E t \in Task : Proceeds(t)

Spec == Init /\ [][Next]_vars

(* Tool servers, the model and the client answer, if only with an error. *)
FairSpec == Spec /\ \A t \in Task : WF_vars(Proceeds(t))

-----------------------------------------------------------------------------

InTurn(t) == pc[t] \in {"build", "tools", "loop"}

(* A session is marked as being prompted exactly while one prompt of it is *)
(* between begin_prompt and finish_prompt: at most one runs, whatever      *)
(* fails on the way, and no mark is left behind to refuse later requests.  *)
TurnMarked ==
  \A s \in Session, t \in Task :
    active[s] = t <=> InTurn(t) /\ Of(t) = s

Times(t, h) == Cardinality({i \in DOMAIN h : h[i] = t})

(* A turn that was answered with end_turn is in the history of its session *)
(* once, although its mark went before it was committed and later turns    *)
(* and changes read the session without it; only a change of mode that     *)
(* built its tools meanwhile writes the session back without the turn.     *)
AnsweredTurnsKept ==
  \A t \in Task :
    pc[t] = "end_turn" /\ Of(t) \in known =>
      Times(t, data[Of(t)].history) = 1 \/ Of(t) \in raced

(* A session that was loaded or resumed stays in the directory it was      *)
(* given, or is in that of a later load, whatever turns and changes write  *)
(* it back; only a change of mode that built its tools meanwhile takes it  *)
(* back to the directory it had read.                                      *)
DirectoryKept ==
  \A t \in Task :
    pc[t] = "loaded" /\ Of(t) \in known =>
      LET cwd == data[Of(t)].cwd
      IN (cwd \in Task /\ cwd >= t) \/ Of(t) \in moved

(* A turn works with the tool sources of the mode it was begun in, however *)
(* the mode changes meanwhile, and a runtime outlives its session only if  *)
(* the session was closed while it was being built.                        *)
RuntimeFits ==
  /\ \A t \in Task :
       pc[t] \in {"tools", "loop"} => sources[runtime[t]] = SourcesOf[copy[t].mode]
  /\ \A s \in Session : table[s] # Nil => s \in known \cup overtaken

(* While a client is told of a change the session has it, and the other    *)
(* setting is as it was when the change began: changes do not mix.         *)
NotesMatchStore ==
  \A t \in Task :
    pc[t] \in {"note", "option"} /\ Of(t) \in known =>
      LET now == data[Of(t)]
      IN \/ /\ ask[t].op = "mode"
            /\ now.mode = ask[t].value /\ now.model = previous[t].model
         \/ /\ ask[t].op = "model"
            /\ now.model = ask[t].value /\ now.mode = previous[t].mode

(* The queue q holds the handlers of P, each of them once. *)
QueueOf(q, P) ==
  /\ {q[i] : i \in DOMAIN q} = P
  /\ \A i, j \in DOMAIN q : q[i] = q[j] => i = j

(* Those that have or await the tools of r, the update lock of s. *)
AtTools(r) ==
  {t \in Task : pc[t] \in {"tools", "loop", "wait", "list"} /\ runtime[t] = r}

AtUpdate(s) ==
  {t \in Task : pc[t] \in {"queued", "swap", "note", "option", "undo"} /\ Of(t) = s}

(* Every lock is held and awaited by exactly the handlers at a stage that  *)
(* needs it: none is left to a request that is over, whatever failed in    *)
(* it, none is taken twice by one request, and a request never has one     *)
(* lock while it awaits another.                                           *)
LocksServed ==
  /\ \A r \in Runtime : QueueOf(lock[r], AtTools(r))
  /\ \A s \in Session : QueueOf(updating[s], AtUpdate(s))

(* No refresh takes the tools from under a loop that runs. *)
ToolsStable ==
  [][\A t \in Task :
       pc[t] = "loop" /\ pc'[t] = "loop" =>
         (runtime[t] \in listed <=> runtime[t] \in listed')]_vars

(* The sessions are conversations. *)
C == INSTANCE Conversation WITH
       Turn <- Task,
       open <- known, ended <- issued \ known,
       log <- [s \in Session |-> data[s].history],
       said <- {t \in Task : pc[t] = "end_turn"}

(* Committing, forking, closing, and writing back a session that was read  *)
(* before an await never do more to a history than what a conversation     *)
(* allows: whole turns, once each, none before those already there.        *)
ImplementsConversation == C!Spec


================================================================================
