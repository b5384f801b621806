------------------------------- MODULE Gateway -------------------------------
(***************************************************************************)
(* The gateway as a whole: the request handlers of GatewayAgent            *)
(* (gateway/acp-gateway/src/gateway.rs) running concurrently over the      *)
(* AgentPool, the backend processes with their supervisors, and the        *)
(* maintenance task of main.rs.                                            *)
(*                                                                         *)
(* Each request runs in a task of its own on one thread, so a handler is   *)
(* atomic from one await to the next.  A task that awaits a backend's      *)
(* answer is a record naming the await (pc); Reply or BackendEnds          *)
(* completes the awaited future, and one of the After... actions is the    *)
(* scheduler polling the task again, at any later time.                    *)
(***************************************************************************)
EXTENDS Spawn

CONSTANTS
  Task,       \* request handlers that may run at the same time
  Workload    \* the operations and faults of a run, see Activities

Activities == {"init", "new", "load", "prompt", "relay", "fork", "close",
               "crash", "idle", "shutdown", "spawnfail"}

ASSUME WorkloadAssumption == Workload \subseteq Activities

ASSUME TaskNilAssumption == Nil \notin Task

VARIABLES
  task,       \* [Task -> Handler]
  stopped,    \* shutdown has run
  issued,     \* [Ext -> the backend sid it was minted for, or Nil] (history)
  owner       \* [Ext -> the process that created or last reloaded it] (history)

history == <<issued, owner>>

vars == <<poolVars, spawnVars, task, stopped, history>>

(* A suspended handler.  bk is the process whose answer it awaits, slot    *)
(* the slot index it selected; bsid is the backend session it reloads, or  *)
(* the one a create or fork was answered with.                             *)
Handler ==
  [pc   : {"idle", "init", "create", "reload", "prompt", "fork", "close"},
   op   : {"none", "new", "load", "prompt", "fork", "close"},
   ext  : Ext \cup {Nil},
   fe   : Frontend \cup {Nil},
   slot : Slot \cup {Nil},
   bk   : Backend \cup {Nil},
   bsid : BSid \cup {Nil},
   res  : {"none", "ok", "err"}]

NoHandler == [pc |-> "idle", op |-> "none", ext |-> Nil, fe |-> Nil,
              slot |-> Nil, bk |-> Nil, bsid |-> Nil, res |-> "none"]

TypeOK ==
  /\ PoolTypeOK
  /\ SpawnTypeOK
  /\ task \in [Task -> Handler]
  /\ stopped \in BOOLEAN
  /\ issued \in [Ext -> BSid \cup {Nil}]
  /\ owner \in [Ext -> Backend \cup {Nil}]

Init ==
  /\ PoolInit
  /\ SpawnInit
  /\ task = [t \in Task |-> NoHandler]
  /\ stopped = FALSE
  /\ issued = [e \in Ext |-> Nil]
  /\ owner = [e \in Ext |-> Nil]

Running(t) == task[t].pc # "idle"

(* The task carries the entry it took from the evicted table. *)
Reloads(t, e) ==
  /\ task[t].op \in {"load", "prompt"}
  /\ task[t].pc \in {"init", "reload"}
  /\ task[t].ext = e

(* A prompt handler of e is running, so its PromptGuard is alive. *)
Guards(t, e) == Running(t) /\ task[t].op = "prompt" /\ task[t].ext = e

Suspend(t, h) == task' = [task EXCEPT ![t] = h]
Finish(t)     == task' = [task EXCEPT ![t] = NoHandler]

(* Mutant: an id is taken to be free when no session is mapped under it. *)
UnmappedExt(e) == ~Active(e)

(* External ids are fresh UUIDs; agents are taken to mint fresh sids.      *)
FreshExt(e) == issued[e] = Nil
FreshBSid(b) == /\ \A e \in Ext : issued[e] # b
                /\ \A t \in Task : task[t].bsid # b

(* The bound on sessions: every pending new or fork can still be given a   *)
(* fresh external id.                                                      *)
SessionsLeft ==
  Cardinality({t \in Task : task[t].op \in {"new", "fork"}})
    < Cardinality({e \in Ext : FreshExt(e)})

-----------------------------------------------------------------------------
(* Requests arriving: the part of a handler before its first await.        *)

(* select_slot, then spawn_dedicated_backend if the slot is empty: the     *)
(* handler h goes on to await either its own call or, first, the replayed  *)
(* initialize.  Sets task, slots, backend, initialized.                    *)
Acquire(t, h) ==
  \E s \in Slot :
    /\ SelectSlot(s)
    /\ \/ /\ Populated(s)
          /\ Suspend(t, [h EXCEPT !.slot = s, !.bk = slots[s].bk])
          /\ UNCHANGED <<slots, backend, initialized>>
       \/ /\ ~Populated(s)
          /\ \E b \in Backend :
               /\ SpawnDedicated(s, b)
               /\ Suspend(t, [h EXCEPT !.slot = s, !.bk = b,
                                       !.pc = IF initRequest THEN "init" ELSE @])

(* The pool is exhausted, or the process cannot be spawned. *)
AcquireFails ==
  \/ PoolExhausted
  \/ /\ "spawnfail" \in Workload
     /\ \E s \in Slot : SelectSlot(s) /\ ~Populated(s)

(* initialize: store the request, then send it to every live backend, or   *)
(* to a first Dedicated one.  No state depends on the answers.             *)
Initialize ==
  /\ "init" \in Workload
  /\ initRequest' = TRUE
  /\ LET live == {s \in Slot : Alive(s)} IN
     \/ /\ live # {}
        /\ initialized' = initialized \cup {slots[s].bk : s \in live}
        /\ UNCHANGED <<slots, backend>>
     \/ /\ live = {} /\ Strategy = "Dedicated"
        /\ \E b \in Backend :
             /\ IsUnborn(b)
             /\ InsertSlot(0, b)
             /\ backend' = [backend EXCEPT ![b] = Born(0)]
             /\ initialized' = initialized \cup {b}
     \/ /\ live = {}
        /\ Strategy = "LeastConnections" \/ "spawnfail" \in Workload
        /\ UNCHANGED <<slots, backend, initialized>>
  /\ UNCHANGED <<sessions, reverse, evicted, inFlight, promptSenders,
                 task, stopped, history>>

NewSession(t, f) ==
  /\ "new" \in Workload /\ ~Running(t)
  /\ SessionsLeft
  /\ Acquire(t, [NoHandler EXCEPT !.pc = "create", !.op = "new", !.fe = f])
  /\ UNCHANGED <<sessions, reverse, evicted, inFlight, promptSenders,
                 initRequest, stopped, history>>

(* Mutant: the entry taken is whichever comes first in the table. *)
TakeSomeEvicted(t, h) ==
  /\ ~Resolves(h.ext) /\ IsEvicted(h.ext)
  /\ TakeEvicted(h.ext)
  /\ \E d \in Ext :
       /\ IsEvicted(d)
       /\ Acquire(t, [h EXCEPT !.pc = "reload", !.bsid = evicted[d].bsid])

(* take_evicted for the handler h: from here on the entry exists only in   *)
(* the task.  When no slot can be had, or its process cannot be spawned,   *)
(* the handler returns and the entry is dropped with it.  Sets evicted,    *)
(* task, slots, backend, initialized.                                      *)
TakeForReload(t, h) ==
  /\ ~Resolves(h.ext) /\ IsEvicted(h.ext)
  /\ TakeEvicted(h.ext)
  /\ Acquire(t, [h EXCEPT !.pc = "reload", !.bsid = evicted[h.ext].bsid])

LoseOnReload(e) ==
  /\ ~Resolves(e) /\ IsEvicted(e)
  /\ TakeEvicted(e)
  /\ AcquireFails

(* load_session and resume_session of an evicted session; of a mapped one  *)
(* they are a Relay.                                                       *)
LoadSession(t, e, f) ==
  /\ "load" \in Workload /\ ~Running(t)
  /\ \/ TakeForReload(t, [NoHandler EXCEPT !.op = "load", !.ext = e, !.fe = f])
     \/ LoseOnReload(e) /\ UNCHANGED <<task, slots, backend, initialized>>
  /\ UNCHANGED <<sessions, reverse, inFlight, promptSenders,
                 initRequest, stopped, history>>

(* prompt of a session that resolves: forwarded at once. *)
PromptActive(t, e, f) ==
  /\ "prompt" \in Workload /\ ~Running(t)
  /\ e \notin inFlight
  /\ Resolves(e)
  /\ BeginPrompt(e, f)
  /\ StampSession(e, f)
  /\ Suspend(t, [NoHandler EXCEPT !.pc = "prompt", !.op = "prompt", !.ext = e,
                                  !.fe = f, !.slot = sessions[e].slot,
                                  !.bk = slots[sessions[e].slot].bk])
  /\ UNCHANGED <<slots, reverse, evicted, spawnVars, stopped, history>>

(* prompt of an evicted session: reload first.  On the early error returns *)
(* the guard is dropped again, which leaves no trace of the flag.          *)
PromptEvicted(t, e, f) ==
  /\ "prompt" \in Workload /\ ~Running(t)
  /\ e \notin inFlight
  /\ \/ /\ TakeForReload(t, [NoHandler EXCEPT !.op = "prompt", !.ext = e, !.fe = f])
        /\ BeginPrompt(e, f)
     \/ /\ LoseOnReload(e)
        /\ UNCHANGED <<task, slots, backend, initialized, inFlight, promptSenders>>
  /\ UNCHANGED <<sessions, reverse, initRequest, stopped, history>>

(* What every other request that names a session leaves behind: cancel,    *)
(* set_session_mode, set_session_model, set_session_config_option, load or *)
(* resume of a mapped session, and a prompt, fork or close that is refused *)
(* (prompt in flight, slot dead) after record_sender.                      *)
Relay(e, f) ==
  /\ "relay" \in Workload
  /\ RecordSender(e, f)
  /\ UNCHANGED <<slots, reverse, inFlight, promptSenders, spawnVars,
                 task, stopped, history>>

(* fork_session and close_session up to their await. *)
CallOnSession(t, e, f, op) ==
  /\ op \in Workload /\ ~Running(t)
  /\ Resolves(e)
  /\ RecordSender(e, f)
  /\ Suspend(t, [NoHandler EXCEPT !.pc = op, !.op = op, !.ext = e, !.fe = f,
                                  !.slot = sessions[e].slot,
                                  !.bk = slots[sessions[e].slot].bk])
  /\ UNCHANGED <<slots, reverse, inFlight, promptSenders, spawnVars,
                 stopped, history>>

ForkSession(t, e, f)  == SessionsLeft /\ CallOnSession(t, e, f, "fork")
CloseSession(t, e, f) == CallOnSession(t, e, f, "close")

-----------------------------------------------------------------------------
(* Answers, and handlers resuming after an await.                          *)

(* The awaited process answers; a create or fork is answered with the sid  *)
(* of a new session.                                                       *)
Reply(t) ==
  /\ Running(t) /\ task[t].res = "none"
  /\ Up(task[t].bk)
  /\ \/ Suspend(t, [task[t] EXCEPT !.res = "err"])
     \/ /\ task[t].pc \notin {"create", "fork"}
        /\ Suspend(t, [task[t] EXCEPT !.res = "ok"])
     \/ /\ task[t].pc \in {"create", "fork"}
        /\ \E b \in BSid :
             /\ FreshBSid(b)
             /\ Suspend(t, [task[t] EXCEPT !.res = "ok", !.bsid = b])
  /\ UNCHANGED <<poolVars, spawnVars, stopped, history>>

Polled(t, pc) == task[t].pc = pc /\ task[t].res # "none"

(* Mutant: the guard is forgotten, not dropped. *)
ReturnForgettingGuard(t) == Finish(t) /\ UNCHANGED <<inFlight, promptSenders>>

(* The handler returns; a prompt drops its PromptGuard, which clears the   *)
(* flag of the session whoever set it.  Sets task, inFlight, promptSenders. *)
Return(t) ==
  /\ Finish(t)
  /\ IF task[t].op = "prompt" THEN EndPrompt(task[t].ext)
     ELSE UNCHANGED <<inFlight, promptSenders>>

(* After replay_init the handler looks its slot up again: whichever        *)
(* process is in it by now gets the call.                                  *)
AfterInit(t) ==
  /\ Polled(t, "init")
  /\ IF task[t].res = "ok" /\ Alive(task[t].slot)
     THEN /\ Suspend(t, [task[t] EXCEPT
                !.pc = IF task[t].op = "new" THEN "create" ELSE "reload",
                !.bk = slots[task[t].slot].bk, !.res = "none"])
          /\ UNCHANGED <<inFlight, promptSenders>>
     ELSE Return(t)
  /\ UNCHANGED <<slots, sessions, reverse, evicted, spawnVars, stopped, history>>

(* new_session or fork_session registers the new session on the slot index *)
(* it noted before the call.                                               *)
AfterCreate(t) ==
  /\ Polled(t, "create") \/ Polled(t, "fork")
  /\ \/ /\ task[t].res = "ok"
        /\ \E e \in Ext :
             /\ FreshExt(e)
             /\ RegisterSession(e, task[t].bsid, task[t].slot, task[t].fe)
             /\ issued' = [issued EXCEPT ![e] = task[t].bsid]
             /\ owner' = [owner EXCEPT ![e] = task[t].bk]
     \/ /\ task[t].res = "err"
        /\ UNCHANGED <<sessions, reverse, slots, history>>
  /\ Finish(t)
  /\ UNCHANGED <<evicted, inFlight, promptSenders, spawnVars, stopped>>

(* The connection reference a handler kept across an await is the address  *)
(* of the slot's entry: it reaches the process now in the slot, or, the    *)
(* slot being empty (a dangling reference), the old process or nothing.    *)
Reaches(s, old) ==
  IF Populated(s) THEN {slots[s].bk} ELSE {old, Nil}

(* Mutant: a refused load is sent again, for ever. *)
AfterReloadRetrying(t) ==
  /\ Polled(t, "reload")
  /\ Suspend(t, IF task[t].res = "err" /\ Up(task[t].bk)
                THEN [task[t] EXCEPT !.res = "none"]
                ELSE NoHandler)
  /\ UNCHANGED <<poolVars, spawnVars, stopped, history>>

(* The awaited load_session has been answered: the session is mapped       *)
(* again, and a prompt goes on to its own call.                            *)
AfterReload(t) ==
  /\ Polled(t, "reload")
  /\ \/ /\ task[t].res = "ok"
        /\ RegisterSession(task[t].ext, task[t].bsid, task[t].slot, task[t].fe)
        /\ owner' = [owner EXCEPT ![task[t].ext] = task[t].bk]
        /\ \/ /\ task[t].op = "load"
              /\ Return(t)
           \/ /\ task[t].op = "prompt"
              /\ \E b \in Reaches(task[t].slot, task[t].bk) :
                   IF b # Nil /\ Up(b)
                   THEN /\ Suspend(t, [task[t] EXCEPT !.pc = "prompt", !.bk = b,
                                                      !.bsid = Nil, !.res = "none"])
                        /\ UNCHANGED <<inFlight, promptSenders>>
                   ELSE Return(t)
     \/ /\ task[t].res = "err"
        /\ Return(t)
        /\ UNCHANGED <<sessions, reverse, slots, owner>>
  /\ UNCHANGED <<evicted, spawnVars, stopped, issued>>

AfterPrompt(t) ==
  /\ Polled(t, "prompt")
  /\ Return(t)
  /\ UNCHANGED <<slots, sessions, reverse, evicted, spawnVars, stopped, history>>

AfterClose(t) ==
  /\ Polled(t, "close")
  /\ Finish(t)
  /\ IF task[t].res = "ok" THEN RemoveSession(task[t].ext)
     ELSE UNCHANGED <<slots, sessions, reverse, inFlight, promptSenders>>
  /\ UNCHANGED <<evicted, spawnVars, stopped, history>>

Resume(t) ==
  AfterInit(t) \/ AfterCreate(t) \/ AfterReload(t) \/ AfterPrompt(t) \/ AfterClose(t)

-----------------------------------------------------------------------------
(* Processes, time and shutdown. *)

(* No slot holds b: it was dropped, and killed, or is being shut down.     *)
Discarded(b) == stopped \/ \A s \in Slot : Populated(s) => slots[s].bk # b

(* The I/O task of b ends: the calls it still owed fail, and the           *)
(* supervisor reports the death of b's slot.                               *)
BackendEnds(b) ==
  /\ Up(b)
  /\ "crash" \in Workload \/ Discarded(b)
  /\ ConnectionEnds(b)
  /\ HandleBackendDeath(backend[b].slot)
  /\ task' = [t \in Task |->
                IF Running(t) /\ task[t].bk = b /\ task[t].res = "none"
                THEN [task[t] EXCEPT !.res = "err"] ELSE task[t]]
  /\ UNCHANGED <<initRequest, initialized, stopped, history>>

(* The respawn loop of p goes on. *)
Supervise(p) ==
  /\ \/ Respawn(p)
     \/ "spawnfail" \in Workload /\ RespawnFails(p)
     \/ InitAnswered(p)
     \/ InitReplayed(p)
  /\ UNCHANGED <<task, stopped, history>>

(* The last activity of e is now longer ago than the idle timeout. *)
GrowIdle(e) ==
  /\ "idle" \in Workload
  /\ Active(e)
  /\ sessions' = [sessions EXCEPT ![e].idle = TRUE]
  /\ UNCHANGED <<slots, reverse, evicted, inFlight, promptSenders, spawnVars,
                 task, stopped, history>>

(* A tick of the maintenance task. *)
MaintenanceTick ==
  /\ "idle" \in Workload
  /\ EvictAndPurge(IdleSessions)
  /\ UNCHANGED <<spawnVars, task, stopped, history>>

Shutdown ==
  /\ "shutdown" \in Workload
  /\ stopped' = TRUE
  /\ MarkAllDead
  /\ UNCHANGED <<sessions, reverse, evicted, inFlight, promptSenders, spawnVars,
                 task, history>>

Request(t) ==
  \/ \E f \in Frontend : NewSession(t, f)
  \/ \E e \in Ext, f \in Frontend :
       \/ LoadSession(t, e, f)
       \/ PromptActive(t, e, f)
       \/ PromptEvicted(t, e, f)
       \/ ForkSession(t, e, f)
       \/ CloseSession(t, e, f)

Next ==
  \/ Initialize
  \/ \E t \in Task : Request(t) \/ Reply(t) \/ Resume(t)
  \/ \E e \in Ext, f \in Frontend : Relay(e, f)
  \/ \E b \in Backend : BackendEnds(b) \/ Supervise(b)
  \/ \E e \in Ext : GrowIdle(e)
  \/ MaintenanceTick
  \/ Shutdown

Spec == Init /\ [][Next]_vars

(* The runtime polls a handler or supervisor that can go on, and an agent  *)
(* answers a request unless its process ends.                              *)
Fairness ==
  /\ \A t \in Task : WF_vars(Resume(t)) /\ WF_vars(Reply(t))
  /\ \A b \in Backend : WF_vars(Supervise(b))

FairSpec == Spec /\ Fairness

-----------------------------------------------------------------------------
(* What the gateway keeps through every interleaving, fault and eviction.  *)

(* The reverse map is the inverse of the session map: a callback of the    *)
(* agent finds exactly the session a request would be translated for, with *)
(* registrations, removals, evictions, deaths and reloads interleaved.     *)
DirectoryConsistent ==
  \A e \in Ext, b \in BSid :
    reverse[b] = e <=> Active(e) /\ sessions[e].bsid = b

(* A session is mapped, or evicted, or in the hands of one reloading       *)
(* handler, never in two of those places: two requests that find it        *)
(* evicted cannot both reload it, and no reload overwrites a mapping.      *)
OnePlace ==
  \A e \in Ext :
    /\ ~(Active(e) /\ IsEvicted(e))
    /\ \A t \in Task : Reloads(t, e) => ~Active(e) /\ ~IsEvicted(e)
    /\ \A t, u \in Task : Reloads(t, e) /\ Reloads(u, e) => t = u

(* Wherever a session is, it still names the backend session it was issued *)
(* for: eviction, death and reload on another process never swap two.      *)
BackendSidStable ==
  \A e \in Ext :
    /\ Active(e) => sessions[e].bsid = issued[e]
    /\ IsEvicted(e) => evicted[e].bsid = issued[e]
    /\ \A t \in Task : Reloads(t, e) => task[t].bsid = issued[e]

(* A prompt flag is never leaked: while it is set some prompt handler of   *)
(* the session is running, whose guard will clear it, and the sender       *)
(* pinned for callbacks is the frontend of such a handler.  (A leaked flag *)
(* would refuse every later prompt of the session.)                        *)
PromptFlagOwned ==
  \A e \in Ext :
    /\ e \in inFlight => \E t \in Task : Guards(t, e)
    /\ promptSenders[e] # Nil =>
         /\ e \in inFlight
         /\ \E t \in Task : Guards(t, e) /\ task[t].fe = promptSenders[e]

(* A slot never counts more sessions than are mapped to it.  (A count that *)
(* stays too high keeps a Dedicated slot from ever being idle or freed,    *)
(* and a LeastConnections one from being chosen.)                          *)
NeverOvercount ==
  \A s \in Slot : Populated(s) => slots[s].count <= Cardinality(SessionsOn(s))

(* A live slot holds a process whose connection is still running, so       *)
(* backend_conn never hands out a connection that has already ended.       *)
LiveSlotHasProcess ==
  \A s \in Slot : Alive(s) => Up(slots[s].bk) /\ backend[slots[s].bk].slot = s

(* No handler and no respawn loop awaits an answer from a process whose    *)
(* connection is gone: whatever ended it also failed the call.             *)
NoOneWaitsOnTheDead ==
  /\ \A t \in Task : Running(t) /\ task[t].res = "none" => Up(task[t].bk)
  /\ \A p \in Backend : backend[p].loop = "init" /\ backend[p].res = "none"
                           => Up(backend[p].next)

(* Once a client has initialized, every live backend has been sent an      *)
(* initialize, whether it was live then, respawned or spawned later, and   *)
(* however that interleaved with the request.                              *)
InitReachesEveryBackend ==
  initRequest => \A s \in Slot : Alive(s) => slots[s].bk \in initialized

(* Until shutdown, a dead LeastConnections slot has a respawn loop due to  *)
(* make its next attempt, or one that gave up after MAX_RETRIES: no        *)
(* overlap of two loops over one slot, nor a late death report, leaves it  *)
(* dead and unattended.                                                    *)
DeadSlotAttended ==
  Strategy = "LeastConnections" /\ ~stopped =>
    \A s \in Slot : ~Alive(s) =>
      \E p \in Backend : /\ backend[p].slot = s
                          /\ backend[p].loop \in {"backoff", "gaveup"}

(* At most one prompt of a session is with the agents at a time.  Holds    *)
(* while no process dies; see GatewayClaims for what a death does to it.   *)
OnePromptPerSession ==
  \A t, u \in Task :
    /\ task[t].pc = "prompt" /\ task[t].res = "none"
    /\ task[u].pc = "prompt" /\ task[u].res = "none"
    /\ task[t].ext = task[u].ext
    => t = u

(* While the agent works on a prompt and a frontend is pinned for the      *)
(* session, callbacks go to the frontend that sent the prompt, whoever     *)
(* else touches the session meanwhile.  Eviction and close unpin; holds    *)
(* while no process dies.                                                  *)
PinnedCallbacks ==
  \A t \in Task :
    task[t].pc = "prompt" /\ task[t].res = "none" /\ promptSenders[task[t].ext] # Nil
      => RouteFrontend(task[t].ext) = task[t].fe

(* A request for a mapped session goes to the process that created the     *)
(* session or last reloaded it.  Holds while no process dies.              *)
SessionReachesItsProcess ==
  \A e \in Ext : Resolves(e) => slots[sessions[e].slot].bk = owner[e]

(* Every prompt flag is eventually cleared. *)
PromptFlagClears ==
  \A e \in Ext : e \in inFlight ~> e \notin inFlight

(* A dead LeastConnections slot is live again some time, unless a respawn  *)
(* loop for it has given up or the gateway was shut down.                  *)
DeadSlotRecovers ==
  \A s \in Slot :
    (Strategy = "LeastConnections" /\ ~Alive(s)) ~>
      (stopped \/ Alive(s)
         \/ \E p \in Backend : backend[p].slot = s /\ backend[p].loop = "gaveup")

=============================================================================
