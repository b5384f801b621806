--------------------------- MODULE GatewayProcesses ---------------------------
(***************************************************************************)
(* Slots, processes and those who wait on them, for every number of each:  *)
(* a live slot holds a running process, nobody waits on one that is gone,  *)
(* every live process was sent the initialize, and a dead LeastConnections *)
(* slot is attended by a respawn loop.                                     *)
(*                                                                         *)
(* The strengthening is ProcessShape: a process that was never spawned is  *)
(* in its initial state, and the supervisor of a running one only watches  *)
(* it.  Without it a respawn could take the process it replaces.           *)
(*                                                                         *)
(* The last part is about the sessions: while no process ends, they reach  *)
(* the process that created or reloaded them.                              *)
(***************************************************************************)
EXTENDS GatewayTypes

ProcessShape ==
  \A b \in Backend :
    /\ IsUnborn(b) => backend[b] = Unborn
    /\ Up(b) => backend[b].loop = "watch"
    /\ backend[b].loop = "init" => backend[b].next \in Backend

ProcessInv ==
  /\ ProcessShape
  /\ LiveSlotHasProcess
  /\ NoOneWaitsOnTheDead
  /\ InitReachesEveryBackend
  /\ DeadSlotAttended

-----------------------------------------------------------------------------
LEMMA BornFields ==
  ASSUME NEW s
  PROVE  /\ Born(s).io = "up" /\ Born(s).slot = s /\ Born(s).loop = "watch"
         /\ Unborn.io = "unborn" /\ Unborn.loop = "done"
BY DEF Born, Unborn

(* Steps that only count, free or empty slots. *)
SlotsKept ==
  \A s \in Slot :
    /\ Alive(s)' => Alive(s) /\ slots'[s].bk = slots[s].bk
    /\ Strategy = "LeastConnections" /\ Alive(s) => Alive(s)'

HandlersWaitOnLive ==
  \A t \in Task : task[t].pc # "idle" /\ task[t].res = "none" => Up(task[t].bk)

LEMMA KeepProcesses ==
  ASSUME TypeInv, ProcessInv, SlotsKept, HandlersWaitOnLive', UNCHANGED <<spawnVars, stopped>>
  PROVE  ProcessInv'
<1>1. ProcessShape'
  BY DEF ProcessInv, ProcessShape, spawnVars, IsUnborn, Up
<1>2. LiveSlotHasProcess'
  BY DEF ProcessInv, LiveSlotHasProcess, SlotsKept, spawnVars, Up
<1>3. NoOneWaitsOnTheDead'
  BY DEF ProcessInv, NoOneWaitsOnTheDead, HandlersWaitOnLive, Running, spawnVars, Up
<1>4. InitReachesEveryBackend'
  BY DEF ProcessInv, InitReachesEveryBackend, SlotsKept, spawnVars
<1>5. DeadSlotAttended'
  BY DEF ProcessInv, DeadSlotAttended, SlotsKept, spawnVars
<1> QED BY <1>1, <1>2, <1>3, <1>4, <1>5 DEF ProcessInv

LEMMA SameSlotsKept ==
  ASSUME UNCHANGED slots PROVE SlotsKept
BY DEF SlotsKept, Alive, Populated

(* A process spawned by a request or an initialize. *)
LEMMA SpawnProcesses ==
  ASSUME TypeInv, ProcessInv, NEW s \in Slot, NEW b \in Backend, IsUnborn(b),
         InsertSlot(s, b), backend' = [backend EXCEPT ![b] = Born(s)],
         initRequest => initRequest',
         initRequest' => b \in initialized', initialized \subseteq initialized',
         initRequest \/ ~initRequest' \/ \A r \in Slot : ~Alive(r),
         UNCHANGED stopped,
         \A t \in Task : \/ task'[t] = task[t]
                         \/ task'[t].bk = b
  PROVE  ProcessInv'
<1>1. \A c \in Backend : c # b => backend'[c] = backend[c]
  BY DEF TypeInv, TypeOK, SpawnTypeOK
<1>2. backend'[b] = Born(s) /\ Up(b)' /\ ~IsUnborn(b)' /\ ~Up(b)
  BY BornFields DEF TypeInv, TypeOK, SpawnTypeOK, Up, IsUnborn
<1>3. \A r \in Slot : r # s => slots'[r] = slots[r]
  BY DEF InsertSlot, TypeInv, TypeOK, PoolTypeOK
<1>4. slots'[s].bk = b /\ Alive(s)'
  <2>1. slots'[s] = [bk |-> b, count |-> 0, alive |-> TRUE]
    BY DEF InsertSlot, TypeInv, TypeOK, PoolTypeOK
  <2>2. slots'[s] \in BackendSlot
    BY <2>1 DEF BackendSlot
  <2>3. slots'[s].alive = TRUE /\ slots'[s].bk = b
    BY <2>1
  <2>4. slots'[s] # Nil
    BY <2>2, NilFacts
  <2> QED BY <2>3, <2>4 DEF Alive, Populated
<1>5. ProcessShape'
  BY <1>1, <1>2, BornFields DEF ProcessInv, ProcessShape, Up, IsUnborn
<1>6. LiveSlotHasProcess'
  <2>1. ASSUME NEW r \in Slot, Alive(r)'
        PROVE  /\ backend'[slots'[r].bk].io = "up"
               /\ backend'[slots'[r].bk].slot = r
    <3>1. CASE r = s
      BY <1>2, <1>4, <3>1, BornFields
    <3>2. CASE r # s
      <4>1. Alive(r) /\ Up(slots[r].bk) /\ backend[slots[r].bk].slot = r
        BY <1>3, <2>1, <3>2 DEF ProcessInv, LiveSlotHasProcess, Alive, Populated
      <4>2. slots[r].bk \in Backend /\ slots[r].bk # b
        BY <1>2, <4>1, EntryTypes DEF TypeInv, TypeOK, Alive, BackendSlot
      <4> QED BY <1>1, <1>3, <3>2, <4>1, <4>2 DEF Up
    <3> QED BY <3>1, <3>2
  <2> QED BY <2>1 DEF LiveSlotHasProcess, Up
<1>7. NoOneWaitsOnTheDead'
  <2>1. ASSUME NEW t \in Task, Running(t)', task'[t].res = "none"
        PROVE  backend'[task'[t].bk].io = "up"
    <3>1. CASE task'[t].bk = b
      BY <1>2, <3>1, BornFields
    <3>2. CASE task'[t] = task[t] /\ task[t].bk # b
      <4>1. Running(t) /\ Up(task[t].bk)
        BY <2>1, <3>2 DEF ProcessInv, NoOneWaitsOnTheDead, Running
      <4>2. task[t].bk \in Backend
        BY <4>1 DEF TypeInv, Handlers, Shape, Running
      <4> QED BY <1>1, <3>2, <4>1, <4>2 DEF Up
    <3> QED BY <3>1, <3>2
  <2>2. ASSUME NEW p \in Backend, backend'[p].loop = "init", backend'[p].res = "none"
        PROVE  backend'[backend'[p].next].io = "up"
    <3>1. p # b
      BY <1>2, <2>2, BornFields
    <3>2. backend[p].next \in Backend /\ Up(backend[p].next) /\ backend[p].next # b
      BY <1>1, <1>2, <2>2, <3>1 DEF ProcessInv, ProcessShape, NoOneWaitsOnTheDead
    <3> QED BY <1>1, <3>1, <3>2 DEF Up
  <2> QED BY <2>1, <2>2 DEF NoOneWaitsOnTheDead, Up
<1>8. InitReachesEveryBackend'
  <2>1. ASSUME NEW r \in Slot, initRequest', Alive(r)' PROVE slots'[r].bk \in initialized'
    BY <1>3, <1>4, <2>1 DEF ProcessInv, InitReachesEveryBackend, Alive, Populated
  <2> QED BY <2>1 DEF InitReachesEveryBackend
<1>9. DeadSlotAttended'
  <2>1. ASSUME Strategy = "LeastConnections", ~stopped', NEW r \in Slot, ~Alive(r)'
        PROVE  \E p \in Backend : /\ backend'[p].slot = r
                                  /\ backend'[p].loop \in {"backoff", "gaveup"}
    <3>1. r # s /\ ~Alive(r)
      BY <1>3, <1>4, <2>1 DEF Alive, Populated
    <3>2. PICK p \in Backend : /\ backend[p].slot = r
                               /\ backend[p].loop \in {"backoff", "gaveup"}
      BY <2>1, <3>1 DEF ProcessInv, DeadSlotAttended
    <3>3. p # b
      BY <3>2, BornFields DEF ProcessInv, ProcessShape
    <3> QED BY <1>1, <3>2, <3>3
  <2> QED BY <2>1 DEF DeadSlotAttended
<1> QED BY <1>5, <1>6, <1>7, <1>8, <1>9 DEF ProcessInv

-----------------------------------------------------------------------------
(* The actions. *)

LEMMA InitProcesses == Init => ProcessInv
<1> SUFFICES ASSUME Init PROVE ProcessInv
  OBVIOUS
<1>0. \A t \in Task : ~Running(t)
  BY DEF Init, Running, NoHandler
<1>1. CASE Strategy = "Dedicated"
  <2>1. /\ \A s \in Slot : ~Alive(s)
        /\ \A b \in Backend : backend[b] = Unborn
        /\ initRequest = FALSE
    BY <1>1 DEF Init, SpawnInit, Alive, Populated
  <2> QED BY <1>0, <1>1, <2>1
          DEF ProcessInv, ProcessShape, LiveSlotHasProcess, NoOneWaitsOnTheDead,
              InitReachesEveryBackend, DeadSlotAttended, Unborn, Up
<1>2. CASE Strategy = "LeastConnections"
  <2>1. PICK boot \in [Slot -> Backend] :
          /\ \A r, s \in Slot : boot[r] = boot[s] => r = s
          /\ slots = [s \in Slot |-> [bk |-> boot[s], count |-> 0, alive |-> TRUE]]
          /\ backend = [b \in Backend |->
                          IF \E s \in Slot : boot[s] = b
                          THEN Born(CHOOSE s \in Slot : boot[s] = b)
                          ELSE Unborn]
    BY <1>2 DEF Init, SpawnInit
  <2>2. \A s \in Slot : (CHOOSE r \in Slot : boot[r] = boot[s]) = s
    BY <2>1
  <2>3. \A s \in Slot : slots[s].bk = boot[s] /\ backend[boot[s]] = Born(s)
    BY <2>1, <2>2
  <2>4. \A s \in Slot : Alive(s)
    <3>1. \A s \in Slot : slots[s] \in BackendSlot
      BY <2>1 DEF BackendSlot
    <3> QED BY <2>1, <3>1, NilFacts DEF Alive, Populated
  <2>5. ASSUME NEW b \in Backend
        PROVE  backend[b] = Unborn \/ \E s : backend[b] = Born(s)
    BY <2>1
  <2>6. ASSUME NEW b \in Backend
        PROVE  /\ IsUnborn(b) => backend[b] = Unborn
               /\ backend[b].loop \in {"watch", "done"}
               /\ Up(b) => backend[b].loop = "watch"
    BY <2>5, BornFields DEF IsUnborn, Up
  <2>7. ProcessShape
    BY <2>6 DEF ProcessShape
  <2>8. LiveSlotHasProcess /\ NoOneWaitsOnTheDead
    <3>1. ASSUME NEW s \in Slot PROVE Up(slots[s].bk) /\ backend[slots[s].bk].slot = s
      BY <2>3, BornFields DEF Up
    <3> QED BY <1>0, <2>6, <3>1 DEF LiveSlotHasProcess, NoOneWaitsOnTheDead
  <2>9. InitReachesEveryBackend /\ DeadSlotAttended
    BY <2>4 DEF Init, SpawnInit, InitReachesEveryBackend, DeadSlotAttended
  <2> QED BY <2>7, <2>8, <2>9 DEF ProcessInv
<1> QED BY <1>1, <1>2, PoolAssumption

LEMMA InitializeProcesses ==
  ASSUME TypeInv, ProcessInv, Initialize
  PROVE  ProcessInv'
<1>1. CASE \E b \in Backend :
             /\ IsUnborn(b) /\ InsertSlot(0, b)
             /\ backend' = [backend EXCEPT ![b] = Born(0)]
             /\ initialized' = initialized \cup {b}
             /\ \A s \in Slot : ~Alive(s)
  <2>1. 0 \in Slot
    BY PoolAssumption DEF Slot
  <2> QED BY <1>1, <2>1, SpawnProcesses DEF Initialize
<1>2. CASE /\ UNCHANGED <<slots, backend>>
           /\ \A s \in Slot : Alive(s) => slots[s].bk \in initialized'
  <2>1. UNCHANGED <<slots, backend, task, stopped>>
    BY <1>2 DEF Initialize
  <2>2. InitReachesEveryBackend'
    BY <1>2, <2>1 DEF InitReachesEveryBackend, Alive, Populated
  <2> QED BY <2>1, <2>2 DEF ProcessInv, ProcessShape, LiveSlotHasProcess,
                            NoOneWaitsOnTheDead, DeadSlotAttended, Alive, Populated, Up,
                            IsUnborn, Running
<1> QED BY <1>1, <1>2 DEF Initialize

(* The handler h ends up waiting on a live process. *)
LEMMA AcquireProcesses ==
  ASSUME TypeInv, ProcessInv, NEW t \in Task, NEW h, Ready(h), Acquire(t, h),
         UNCHANGED <<initRequest, stopped>>
  PROVE  ProcessInv'
<1>1. PICK s \in Slot :
        /\ SelectSlot(s)
        /\ \/ /\ Populated(s)
              /\ Suspend(t, [h EXCEPT !.slot = s, !.bk = slots[s].bk])
              /\ UNCHANGED <<slots, backend, initialized>>
           \/ /\ ~Populated(s)
              /\ \E b \in Backend :
                   /\ SpawnDedicated(s, b)
                   /\ Suspend(t, [h EXCEPT !.slot = s, !.bk = b,
                                           !.pc = IF initRequest THEN "init" ELSE @])
  BY DEF Acquire
<1>2. CASE Populated(s)
  <2>1. Up(slots[s].bk)
    BY <1>1, <1>2, SelectedAlive DEF TypeInv, TypeOK, ProcessInv, LiveSlotHasProcess
  <2>2. Suspend(t, [h EXCEPT !.slot = s, !.bk = slots[s].bk])
          /\ UNCHANGED <<slots, backend, initialized>>
    BY <1>1, <1>2
  <2>3. [h EXCEPT !.slot = s, !.bk = slots[s].bk].bk = slots[s].bk
    BY DEF Ready, Handler
  <2>4. HandlersWaitOnLive'
    BY <2>1, <2>2, <2>3 DEF HandlersWaitOnLive, Suspend, Up, TypeInv, Handlers,
                        ProcessInv, NoOneWaitsOnTheDead, Running
  <2> QED BY <2>2, <2>4, SameSlotsKept, KeepProcesses DEF spawnVars
<1>3. CASE ~Populated(s)
  <2>1. PICK b \in Backend :
          /\ SpawnDedicated(s, b)
          /\ Suspend(t, [h EXCEPT !.slot = s, !.bk = b,
                                  !.pc = IF initRequest THEN "init" ELSE @])
    BY <1>1, <1>3
  <2>2. [h EXCEPT !.slot = s, !.bk = b, !.pc = IF initRequest THEN "init" ELSE @].bk = b
    BY DEF Ready, Handler
  <2>3. \A u \in Task : task'[u] = task[u] \/ task'[u].bk = b
    BY <2>1, <2>2 DEF Suspend, TypeInv, Handlers
  <2> QED BY <2>1, <2>3, SpawnProcesses DEF SpawnDedicated, TypeInv, TypeOK, SpawnTypeOK
<1> QED BY <1>2, <1>3

(* A handler suspended at a call to a live process, or one that finished.  *)
LEMMA SuspendWaitsOnLive ==
  ASSUME TypeInv, ProcessInv, NEW t \in Task, NEW h, Suspend(t, h), UNCHANGED backend,
         h.pc = "idle" \/ h.res # "none" \/ Up(h.bk)
  PROVE  HandlersWaitOnLive'
BY DEF HandlersWaitOnLive, Suspend, Up, TypeInv, Handlers, ProcessInv,
       NoOneWaitsOnTheDead, Running

LEMMA FinishWaitsOnLive ==
  ASSUME TypeInv, ProcessInv, NEW t \in Task, Finish(t), UNCHANGED backend
  PROVE  HandlersWaitOnLive'
BY SuspendWaitsOnLive DEF Finish, Suspend, NoHandler

LEMMA SameHandlersWaitOnLive ==
  ASSUME ProcessInv, UNCHANGED <<task, backend>>
  PROVE  HandlersWaitOnLive'
BY DEF HandlersWaitOnLive, ProcessInv, NoOneWaitsOnTheDead, Running, Up

LEMMA ResolvedUp ==
  ASSUME TypeInv, ProcessInv, NEW e \in Ext, Resolves(e)
  PROVE  Up(slots[sessions[e].slot].bk)
BY ResolvedTypes DEF TypeInv, TypeOK, ProcessInv, LiveSlotHasProcess, Resolves

LEMMA RequestProcesses ==
  ASSUME TypeInv, ProcessInv, NEW t \in Task, Request(t)
  PROVE  ProcessInv'
<1>1. ASSUME NEW f \in Frontend, NewSession(t, f) PROVE ProcessInv'
  <2> DEFINE h == [NoHandler EXCEPT !.pc = "create", !.op = "new", !.fe = f]
  <2>1. Ready(h) /\ Acquire(t, h)
    BY <1>1 DEF Ready, NoHandler, Handler, NewSession
  <2> HIDE DEF h
  <2> QED BY <1>1, <2>1, AcquireProcesses DEF NewSession
<1>2. ASSUME NEW e \in Ext, NEW f \in Frontend, NEW op \in {"load", "prompt"},
             TakeForReload(t, [NoHandler EXCEPT !.op = op, !.ext = e, !.fe = f]),
             UNCHANGED <<initRequest, stopped>>
      PROVE  ProcessInv'
  <2> DEFINE g == [NoHandler EXCEPT !.op = op, !.ext = e, !.fe = f]
             h == [g EXCEPT !.pc = "reload", !.bsid = evicted[e].bsid]
  <2>1. g.ext = e
    BY DEF NoHandler
  <2>2. IsEvicted(e) /\ Acquire(t, h)
    BY <1>2, <2>1 DEF TakeForReload
  <2>3. evicted[e].bsid \in BSid
    BY <2>2, EntryTypes DEF TypeInv, TypeOK, EvictedSession
  <2>4. Ready(h)
    BY <2>3 DEF Ready, NoHandler, Handler
  <2> HIDE DEF h
  <2> QED BY <1>2, <2>2, <2>4, AcquireProcesses
<1>3. ASSUME UNCHANGED <<task, slots, backend, initialized, initRequest, stopped>>
      PROVE  ProcessInv'
  BY <1>3, SameSlotsKept, SameHandlersWaitOnLive, KeepProcesses DEF spawnVars
<1>4. ASSUME NEW e \in Ext, NEW f \in Frontend, LoadSession(t, e, f) PROVE ProcessInv'
  BY <1>2, <1>3, <1>4, Zenon DEF LoadSession
<1>5. ASSUME NEW e \in Ext, NEW f \in Frontend, PromptEvicted(t, e, f) PROVE ProcessInv'
  BY <1>2, <1>3, <1>5, Zenon DEF PromptEvicted
<1>6. ASSUME NEW e \in Ext, NEW f \in Frontend, PromptActive(t, e, f) PROVE ProcessInv'
  <2> DEFINE h == [NoHandler EXCEPT !.pc = "prompt", !.op = "prompt", !.ext = e,
                                    !.fe = f, !.slot = sessions[e].slot,
                                    !.bk = slots[sessions[e].slot].bk]
  <2>1. Suspend(t, h) /\ Up(h.bk)
    BY <1>6, ResolvedUp DEF PromptActive, NoHandler
  <2> HIDE DEF h
  <2> QED BY <1>6, <2>1, SuspendWaitsOnLive, SameSlotsKept, KeepProcesses
          DEF PromptActive, spawnVars
<1>7. ASSUME NEW e \in Ext, NEW f \in Frontend, NEW op, CallOnSession(t, e, f, op)
      PROVE  ProcessInv'
  <2> DEFINE h == [NoHandler EXCEPT !.pc = op, !.op = op, !.ext = e, !.fe = f,
                                    !.slot = sessions[e].slot,
                                    !.bk = slots[sessions[e].slot].bk]
  <2>1. Suspend(t, h) /\ Up(h.bk)
    BY <1>7, ResolvedUp DEF CallOnSession, NoHandler
  <2> HIDE DEF h
  <2> QED BY <1>7, <2>1, SuspendWaitsOnLive, SameSlotsKept, KeepProcesses
          DEF CallOnSession, spawnVars
<1> QED BY <1>1, <1>4, <1>5, <1>6, <1>7 DEF Request, ForkSession, CloseSession

LEMMA ReplyProcesses ==
  ASSUME TypeInv, ProcessInv, NEW t \in Task, Reply(t)
  PROVE  ProcessInv'
<1>1. task[t] \in Handler
  BY DEF TypeInv, Handlers
<1>2. \E h : Suspend(t, h) /\ h.res # "none"
  <2>1. \A b : /\ [task[t] EXCEPT !.res = "err"].res = "err"
               /\ [task[t] EXCEPT !.res = "ok"].res = "ok"
               /\ [task[t] EXCEPT !.res = "ok", !.bsid = b].res = "ok"
    BY <1>1 DEF Handler
  <2>2. CASE \E r \in {"ok", "err"} : Suspend(t, [task[t] EXCEPT !.res = r])
    BY <2>1, <2>2
  <2>3. CASE \E b : Suspend(t, [task[t] EXCEPT !.res = "ok", !.bsid = b])
    BY <2>1, <2>3
  <2> QED BY <2>2, <2>3 DEF Reply
<1> QED BY <1>2, SuspendWaitsOnLive, SameSlotsKept, KeepProcesses
        DEF Reply, poolVars, spawnVars

(* Registering a session only counts it. *)
LEMMA RegisterKeepsSlots ==
  ASSUME TypeInv, NEW e, NEW b, NEW s \in Slot, NEW f, RegisterSession(e, b, s, f)
  PROVE  SlotsKept
<1>1. CASE Populated(s)
  <2>1. slots[s] \in BackendSlot
    BY <1>1, EntryTypes DEF TypeInv, TypeOK
  <2>2. [slots[s] EXCEPT !.count = @ + 1] \in BackendSlot
    BY <2>1 DEF BackendSlot
  <2>3. slots' = [slots EXCEPT ![s] = [slots[s] EXCEPT !.count = @ + 1]]
    BY <1>1 DEF RegisterSession, TypeInv, TypeOK, PoolTypeOK
  <2> QED BY <2>1, <2>2, <2>3, NilFacts
          DEF SlotsKept, Alive, Populated, BackendSlot, TypeInv, TypeOK, PoolTypeOK
<1>2. CASE ~Populated(s)
  BY <1>2, SameSlotsKept DEF RegisterSession
<1> QED BY <1>1, <1>2

LEMMA ResumeProcesses ==
  ASSUME TypeInv, ProcessInv, NEW t \in Task, Resume(t)
  PROVE  ProcessInv'
<1>0. task[t] \in Handler /\ Shape(task[t])
  BY DEF TypeInv, Handlers
<1>1. CASE AfterInit(t)
  <2>1. HandlersWaitOnLive'
    <3>1. CASE task[t].res = "ok" /\ Alive(task[t].slot)
      <4> DEFINE h == [task[t] EXCEPT
                        !.pc = IF task[t].op = "new" THEN "create" ELSE "reload",
                        !.bk = slots[task[t].slot].bk, !.res = "none"]
      <4>1. Suspend(t, h) /\ h.bk = slots[task[t].slot].bk
        BY <1>0, <1>1, <3>1 DEF AfterInit, Handler
      <4>2. Up(h.bk)
        BY <1>0, <1>1, <3>1, <4>1 DEF AfterInit, Polled, Shape, ProcessInv, LiveSlotHasProcess
      <4> HIDE DEF h
      <4> QED BY <1>1, <4>1, <4>2, SuspendWaitsOnLive DEF AfterInit, spawnVars
    <3>2. CASE Return(t)
      BY <1>1, <3>2, FinishWaitsOnLive DEF AfterInit, Return, spawnVars
    <3> QED BY <1>1, <3>1, <3>2 DEF AfterInit
  <2> QED BY <1>1, <2>1, SameSlotsKept, KeepProcesses DEF AfterInit
<1>2. CASE AfterCreate(t)
  <2>1. SlotsKept
    <3>1. task[t].slot \in Slot
      BY <1>0, <1>2 DEF AfterCreate, Polled, Shape
    <3> QED BY <1>2, <3>1, RegisterKeepsSlots, SameSlotsKept DEF AfterCreate
  <2> QED BY <1>2, <2>1, FinishWaitsOnLive, KeepProcesses DEF AfterCreate, spawnVars
<1>3. CASE AfterReload(t)
  <2>1. SlotsKept
    <3>1. task[t].slot \in Slot
      BY <1>0, <1>3 DEF AfterReload, Polled, Shape
    <3> QED BY <1>3, <3>1, RegisterKeepsSlots, SameSlotsKept DEF AfterReload
  <2>2. HandlersWaitOnLive'
    <3>1. CASE Finish(t)
      BY <1>3, <3>1, FinishWaitsOnLive DEF AfterReload, spawnVars
    <3>2. CASE ~Finish(t)
      <4>1. PICK b : /\ Up(b)
                     /\ Suspend(t, [task[t] EXCEPT !.pc = "prompt", !.bk = b,
                                                   !.bsid = Nil, !.res = "none"])
        BY <1>3, <3>2 DEF AfterReload, Return
      <4>2. [task[t] EXCEPT !.pc = "prompt", !.bk = b, !.bsid = Nil, !.res = "none"].bk = b
        BY <1>0 DEF Handler
      <4> QED BY <1>3, <4>1, <4>2, SuspendWaitsOnLive DEF AfterReload, spawnVars
    <3> QED BY <3>1, <3>2
  <2> QED BY <1>3, <2>1, <2>2, KeepProcesses DEF AfterReload
<1>4. CASE AfterPrompt(t)
  BY <1>4, FinishWaitsOnLive, SameSlotsKept, KeepProcesses DEF AfterPrompt, Return, spawnVars
<1>5. CASE AfterClose(t)
  <2>1. SlotsKept
    <3>1. CASE RemoveSession(task[t].ext) /\ Active(task[t].ext)
      <4> DEFINE s == sessions[task[t].ext].slot
      <4>1. CASE Populated(s) /\ s \in Slot
        <5>1. slots[s] \in BackendSlot
          BY <4>1, EntryTypes DEF TypeInv, TypeOK
        <5>2. \/ SlotAfterRemove(s) = Nil /\ Strategy = "Dedicated"
              \/ /\ SlotAfterRemove(s) \in BackendSlot
                 /\ SlotAfterRemove(s).alive = slots[s].alive
                 /\ SlotAfterRemove(s).bk = slots[s].bk
          <6>1. ASSUME NEW n \in Nat
                PROVE  LET x == [slots[s] EXCEPT !.count = n]
                       IN  /\ x \in BackendSlot
                           /\ x.alive = slots[s].alive /\ x.bk = slots[s].bk
            BY <5>1 DEF BackendSlot
          <6>2. Saturating(slots[s].count, 1) \in Nat
            BY <5>1, SaturatingNat DEF BackendSlot
          <6> QED BY <6>1, <6>2, Zenon DEF SlotAfterRemove
        <5>3. slots' = [slots EXCEPT ![s] = SlotAfterRemove(s)]
          BY <3>1, <4>1 DEF RemoveSession
        <5> QED BY <5>1, <5>2, <5>3, NilFacts
                DEF SlotsKept, Alive, Populated, TypeInv, TypeOK, PoolTypeOK
      <4>2. CASE ~Populated(s)
        BY <3>1, <4>2, SameSlotsKept DEF RemoveSession
      <4>3. s \in Slot
        BY <1>0, <1>5, <3>1, EntryTypes
           DEF AfterClose, Polled, Shape, TypeInv, TypeOK, SessionEntry
      <4> QED BY <4>1, <4>2, <4>3
    <3>2. CASE UNCHANGED slots
      BY <3>2, SameSlotsKept
    <3> QED BY <1>5, <3>1, <3>2 DEF AfterClose, RemoveSession
  <2> QED BY <1>5, <2>1, FinishWaitsOnLive, KeepProcesses DEF AfterClose, spawnVars
<1> QED BY <1>1, <1>2, <1>3, <1>4, <1>5 DEF Resume

(* The end of b frees no other slot, and fails every call b still owed. *)
LEMMA BackendEndsProcesses ==
  ASSUME TypeInv, ProcessInv, NEW b \in Backend, BackendEnds(b)
  PROVE  ProcessInv'
<1>0. PICK r : r = backend[b].slot
  OBVIOUS
<1>1. Up(b) /\ backend[b].loop = "watch" /\ backend[b] \in Process
  BY DEF BackendEnds, ProcessInv, ProcessShape, TypeInv, TypeOK, SpawnTypeOK
<1>2. /\ backend'[b].io = "down" /\ backend'[b].slot = r
      /\ backend'[b].loop = IF Strategy = "LeastConnections" THEN "backoff" ELSE "done"
  BY <1>0, <1>1 DEF BackendEnds, ConnectionEnds, Process
<1>3. ASSUME NEW c \in Backend, c # b
      PROVE  /\ backend'[c].io = backend[c].io /\ backend'[c].slot = backend[c].slot
             /\ backend'[c].loop = backend[c].loop /\ backend'[c].next = backend[c].next
             /\ backend[c].loop # "init" => backend'[c] = backend[c]
             /\ backend'[c].res = "none" => backend[c].res = "none"
             /\ backend[c].loop = "init" /\ backend'[c].res = "none" => backend[c].next # b
  <2>1. backend[c] \in Process
    BY DEF TypeInv, TypeOK, SpawnTypeOK
  <2>2. backend'[c] = IF /\ backend[c].loop = "init" /\ backend[c].next = b
                         /\ backend[c].res = "none"
                      THEN [backend[c] EXCEPT !.res = "err"] ELSE backend[c]
    BY <1>3 DEF BackendEnds, ConnectionEnds
  <2> QED BY <2>1, <2>2 DEF Process
<1>4. \A s \in Slot : IF s = r THEN ~Alive(s)' ELSE slots'[s] = slots[s]
  <2>1. ASSUME NEW s \in Slot, s # r PROVE slots'[s] = slots[s]
    BY <1>0, <2>1 DEF BackendEnds, HandleBackendDeath, TypeInv, TypeOK, PoolTypeOK
  <2>2. ASSUME r \in Slot PROVE ~Alive(r)'
    <3>1. CASE Strategy = "Dedicated" \/ ~Populated(r)
      BY <1>0, <2>2, <3>1 DEF BackendEnds, HandleBackendDeath, TypeInv, TypeOK, PoolTypeOK,
                        Alive, Populated
    <3>2. CASE ~(Strategy = "Dedicated" \/ ~Populated(r))
      <4>1. slots[r] \in BackendSlot
        BY <2>2, <3>2, EntryTypes DEF TypeInv, TypeOK
      <4>2. slots'[r] = [slots[r] EXCEPT !.alive = FALSE, !.count = 0]
        BY <1>0, <2>2, <3>2 DEF BackendEnds, HandleBackendDeath, TypeInv, TypeOK, PoolTypeOK
      <4>3. slots'[r].alive = FALSE
        BY <4>1, <4>2 DEF BackendSlot
      <4> QED BY <4>3 DEF Alive
    <3> QED BY <3>1, <3>2
  <2> QED BY <2>1, <2>2
<1>5. ProcessShape'
  BY <1>0, <1>1, <1>2, <1>3, BornFields DEF ProcessInv, ProcessShape, IsUnborn, Up
<1>6. LiveSlotHasProcess'
  <2>1. ASSUME NEW s \in Slot, Alive(s)'
        PROVE  backend'[slots'[s].bk].io = "up" /\ backend'[slots'[s].bk].slot = s
    <3>1. s # r /\ slots'[s] = slots[s] /\ Alive(s)
      BY <1>4, <2>1 DEF Alive, Populated
    <3>2. slots[s].bk \in Backend /\ Up(slots[s].bk) /\ backend[slots[s].bk].slot = s
      BY <3>1, EntryTypes DEF ProcessInv, LiveSlotHasProcess, TypeInv, TypeOK, Alive,
                              BackendSlot
    <3> QED BY <1>0, <1>3, <3>1, <3>2 DEF Up
  <2> QED BY <2>1 DEF LiveSlotHasProcess, Up
<1>7. NoOneWaitsOnTheDead'
  <2>1. ASSUME NEW t \in Task, Running(t)', task'[t].res = "none"
        PROVE  backend'[task'[t].bk].io = "up"
    <3>1. task[t] \in Handler /\ Shape(task[t])
      BY DEF TypeInv, Handlers
    <3>2. task'[t] = IF Running(t) /\ task[t].bk = b /\ task[t].res = "none"
                     THEN [task[t] EXCEPT !.res = "err"] ELSE task[t]
      BY DEF BackendEnds
    <3>3. task'[t] = task[t] /\ Running(t) /\ task[t].bk # b
      BY <2>1, <3>1, <3>2 DEF Handler, Running
    <3>4. task[t].bk \in Backend /\ Up(task[t].bk)
      BY <2>1, <3>1, <3>3 DEF Shape, Running, ProcessInv, NoOneWaitsOnTheDead
    <3> QED BY <1>3, <3>3, <3>4 DEF Up
  <2>2. ASSUME NEW p \in Backend, backend'[p].loop = "init", backend'[p].res = "none"
        PROVE  backend'[backend'[p].next].io = "up"
    <3>1. p # b
      BY <1>2, <2>2
    <3>2. backend[p].next \in Backend /\ Up(backend[p].next) /\ backend[p].next # b
      BY <1>3, <2>2, <3>1 DEF ProcessInv, ProcessShape, NoOneWaitsOnTheDead
    <3> QED BY <1>3, <3>1, <3>2 DEF Up
  <2> QED BY <2>1, <2>2 DEF NoOneWaitsOnTheDead, Up
<1>8. InitReachesEveryBackend'
  BY <1>4 DEF BackendEnds, ProcessInv, InitReachesEveryBackend, Alive, Populated
<1>9. DeadSlotAttended'
  <2>1. ASSUME Strategy = "LeastConnections", ~stopped', NEW s \in Slot, ~Alive(s)'
        PROVE  \E p \in Backend : /\ backend'[p].slot = s
                                  /\ backend'[p].loop \in {"backoff", "gaveup"}
    <3>1. CASE s = r
      BY <1>2, <2>1, <3>1
    <3>2. CASE s # r
      <4>1. ~Alive(s) /\ ~stopped
        BY <1>4, <2>1, <3>2 DEF Alive, Populated, BackendEnds
      <4>2. PICK p \in Backend : /\ backend[p].slot = s
                                 /\ backend[p].loop \in {"backoff", "gaveup"}
        BY <2>1, <4>1 DEF ProcessInv, DeadSlotAttended
      <4>3. p # b
        BY <1>1, <4>2
      <4> QED BY <1>3, <4>2, <4>3
    <3> QED BY <3>1, <3>2
  <2> QED BY <2>1 DEF DeadSlotAttended
<1> QED BY <1>5, <1>6, <1>7, <1>8, <1>9 DEF ProcessInv

(* A round of p's respawn loop that spawns no process. *)
LEMMA RetryProcesses ==
  ASSUME TypeInv, ProcessInv, NEW p \in Backend, NEW q \in Process,
         backend' = [backend EXCEPT ![p] = q],
         UNCHANGED <<slots, task, initRequest, initialized, stopped>>,
         backend[p].loop \in {"backoff", "init"},
         q.io = backend[p].io, q.slot = backend[p].slot,
         backend[p].loop = "backoff" => q.loop \in {"backoff", "gaveup"},
         backend[p].loop = "init" => q.loop \in {"init", "done", "backoff", "gaveup"},
         q.loop = "init" => q.next = backend[p].next /\ q.res # "none"
  PROVE  ProcessInv'
<1>1. \A c \in Backend : backend'[c] = IF c = p THEN q ELSE backend[c]
  BY DEF TypeInv, TypeOK, SpawnTypeOK
<1>2. ~Up(p) /\ ~IsUnborn(p)
  BY BornFields DEF ProcessInv, ProcessShape
<1>3. ProcessShape'
  BY <1>1, <1>2 DEF ProcessInv, ProcessShape, IsUnborn, Up
<1>4. \A c \in Backend : Up(c) => backend'[c] = backend[c]
  BY <1>1, <1>2
<1>5. LiveSlotHasProcess'
  <2>1. \A s \in Slot : Alive(s) => slots[s].bk \in Backend
    BY EntryTypes DEF TypeInv, TypeOK, Alive, BackendSlot
  <2> QED BY <1>4, <2>1 DEF ProcessInv, LiveSlotHasProcess, Alive, Populated, Up
<1>6. NoOneWaitsOnTheDead'
  <2>1. \A t \in Task : Running(t) => task[t].bk \in Backend
    BY DEF TypeInv, Handlers, Shape, Running
  <2>2. \A c \in Backend : backend'[c].loop = "init" /\ backend'[c].res = "none"
          => c # p /\ backend[c].next \in Backend /\ Up(backend[c].next)
    BY <1>1 DEF ProcessInv, ProcessShape, NoOneWaitsOnTheDead
  <2> QED BY <1>1, <1>4, <2>1, <2>2 DEF ProcessInv, NoOneWaitsOnTheDead, Running, Up
<1>7. InitReachesEveryBackend'
  BY DEF ProcessInv, InitReachesEveryBackend, Alive, Populated
<1>8. DeadSlotAttended'
  BY <1>1 DEF ProcessInv, DeadSlotAttended, Alive, Populated
<1> QED BY <1>3, <1>5, <1>6, <1>7, <1>8 DEF ProcessInv

(* A respawn brings a new process to the slot and leaves its loop. *)
LEMMA RespawnProcesses ==
  ASSUME TypeInv, ProcessInv, NEW p \in Backend, Respawn(p), UNCHANGED <<task, stopped>>
  PROVE  ProcessInv'
<1>s. PICK s : s = backend[p].slot
  OBVIOUS
<1>0. backend[p] \in Process /\ backend[p].loop = "backoff"
  BY DEF Respawn, TypeInv, TypeOK, SpawnTypeOK
<1>1. PICK b \in Backend :
        /\ IsUnborn(b)
        /\ InsertSlot(s, b)
        /\ backend' = [backend EXCEPT
             ![b] = Born(s),
             ![p] = IF initRequest
                    THEN [@ EXCEPT !.loop = "init", !.next = b]
                    ELSE [@ EXCEPT !.loop = "done"]]
        /\ initialized' = IF initRequest THEN initialized \cup {b} ELSE initialized
  BY <1>s DEF Respawn
<1>2. b # p /\ ~Up(p) /\ ~IsUnborn(p) /\ ~Up(b)
  BY <1>0, <1>1, BornFields DEF ProcessInv, ProcessShape, Up, IsUnborn
<1>3. backend'[b] = Born(s)
  BY <1>1, <1>2 DEF TypeInv, TypeOK, SpawnTypeOK
<1>4. \A c \in Backend : c # b /\ c # p => backend'[c] = backend[c]
  BY <1>1 DEF TypeInv, TypeOK, SpawnTypeOK
<1>5. backend'[p] = IF initRequest
                    THEN [backend[p] EXCEPT !.loop = "init", !.next = b]
                    ELSE [backend[p] EXCEPT !.loop = "done"]
  BY <1>1, <1>2 DEF TypeInv, TypeOK, SpawnTypeOK
<1>6. /\ backend'[p].io = backend[p].io
      /\ backend'[p].loop = IF initRequest THEN "init" ELSE "done"
      /\ initRequest => backend'[p].next = b
  BY <1>0, <1>5 DEF Process
<1>7. \A c \in Backend : Up(c) => c # b /\ c # p /\ backend'[c] = backend[c]
  BY <1>2, <1>4
<1>8. \A r \in Slot : /\ r # s => slots'[r] = slots[r]
                      /\ r = s => Alive(r)' /\ slots'[r].bk = b
  <2>1. \A r \in Slot : r # s => slots'[r] = slots[r]
    BY <1>1 DEF InsertSlot, TypeInv, TypeOK, PoolTypeOK
  <2>2. ASSUME s \in Slot PROVE Alive(s)' /\ slots'[s].bk = b
    <3>1. slots'[s] = [bk |-> b, count |-> 0, alive |-> TRUE]
      BY <1>1, <2>2 DEF InsertSlot, TypeInv, TypeOK, PoolTypeOK
    <3>2. slots'[s] \in BackendSlot
      BY <3>1 DEF BackendSlot
    <3>3. slots'[s].alive = TRUE /\ slots'[s].bk = b
      BY <3>1
    <3>4. slots'[s] # Nil
      BY <3>2, NilFacts
    <3> QED BY <3>3, <3>4 DEF Alive, Populated
  <2> QED BY <2>1, <2>2
<1>9. ProcessShape'
  <2>1. ASSUME NEW c \in Backend
        PROVE  /\ backend'[c].io = "unborn" => backend'[c] = Unborn
               /\ backend'[c].io = "up" => backend'[c].loop = "watch"
               /\ backend'[c].loop = "init" => backend'[c].next \in Backend
    <3>1. CASE c = b
      BY <1>3, <3>1, BornFields
    <3>2. CASE c = p
      BY <1>2, <1>6, <3>2 DEF Up, IsUnborn
    <3>3. CASE c # b /\ c # p
      BY <1>4, <3>3 DEF ProcessInv, ProcessShape, IsUnborn, Up
    <3> QED BY <3>1, <3>2, <3>3
  <2> QED BY <2>1 DEF ProcessShape, IsUnborn, Up
<1>10. LiveSlotHasProcess'
  <2>1. ASSUME NEW r \in Slot, Alive(r)'
        PROVE  backend'[slots'[r].bk].io = "up" /\ backend'[slots'[r].bk].slot = r
    <3>1. CASE r = s
      BY <1>3, <1>8, <3>1, BornFields
    <3>2. CASE r # s
      <4>1. Alive(r) /\ slots'[r] = slots[r]
        BY <1>8, <2>1, <3>2 DEF Alive, Populated
      <4>2. slots[r].bk \in Backend /\ Up(slots[r].bk) /\ backend[slots[r].bk].slot = r
        BY <4>1, EntryTypes DEF ProcessInv, LiveSlotHasProcess, TypeInv, TypeOK, Alive,
                                BackendSlot
      <4> QED BY <1>7, <4>1, <4>2 DEF Up
    <3> QED BY <3>1, <3>2
  <2> QED BY <2>1 DEF LiveSlotHasProcess, Up
<1>11. NoOneWaitsOnTheDead'
  <2>1. ASSUME NEW t \in Task, Running(t)', task'[t].res = "none"
        PROVE  backend'[task'[t].bk].io = "up"
    <3>1. task[t].bk \in Backend /\ Up(task[t].bk) /\ task'[t] = task[t]
      BY <2>1 DEF TypeInv, Handlers, Shape, Running, ProcessInv, NoOneWaitsOnTheDead
    <3> QED BY <1>7, <3>1 DEF Up
  <2>2. ASSUME NEW c \in Backend, backend'[c].loop = "init", backend'[c].res = "none"
        PROVE  backend'[backend'[c].next].io = "up"
    <3>1. CASE c = p
      BY <1>3, <1>6, <2>2, <3>1, BornFields
    <3>2. CASE c # p
      <4>1. c # b /\ backend'[c] = backend[c]
        BY <1>3, <1>4, <2>2, <3>2, BornFields
      <4>2. backend[c].next \in Backend /\ Up(backend[c].next)
        BY <2>2, <4>1 DEF ProcessInv, ProcessShape, NoOneWaitsOnTheDead
      <4> QED BY <1>7, <4>1, <4>2 DEF Up
    <3> QED BY <3>1, <3>2
  <2> QED BY <2>1, <2>2 DEF NoOneWaitsOnTheDead, Up
<1>12. InitReachesEveryBackend'
  <2>1. ASSUME NEW r \in Slot, initRequest', Alive(r)' PROVE slots'[r].bk \in initialized'
    <3>1. initRequest
      BY <2>1 DEF Respawn
    <3> QED BY <1>1, <1>8, <2>1, <3>1
            DEF ProcessInv, InitReachesEveryBackend, Alive, Populated
  <2> QED BY <2>1 DEF InitReachesEveryBackend
<1>13. DeadSlotAttended'
  <2>1. ASSUME Strategy = "LeastConnections", ~stopped', NEW r \in Slot, ~Alive(r)'
        PROVE  \E c \in Backend : /\ backend'[c].slot = r
                                  /\ backend'[c].loop \in {"backoff", "gaveup"}
    <3>1. r # s /\ ~Alive(r) /\ ~stopped
      BY <1>8, <2>1 DEF Alive, Populated
    <3>2. PICK c \in Backend : /\ backend[c].slot = r
                               /\ backend[c].loop \in {"backoff", "gaveup"}
      BY <2>1, <3>1 DEF ProcessInv, DeadSlotAttended
    <3>3. c # p /\ c # b
      BY <1>1, <1>s, <3>1, <3>2, BornFields DEF ProcessInv, ProcessShape
    <3> QED BY <1>4, <3>2, <3>3
  <2> QED BY <2>1 DEF DeadSlotAttended
<1> QED BY <1>9, <1>10, <1>11, <1>12, <1>13 DEF ProcessInv

LEMMA SuperviseProcesses ==
  ASSUME TypeInv, ProcessInv, NEW p \in Backend, Supervise(p)
  PROVE  ProcessInv'
<1>0. backend[p] \in Process
  BY DEF TypeInv, TypeOK, SpawnTypeOK
<1>1. /\ NextAttempt(backend[p]) \in Process
      /\ NextAttempt(backend[p]).io = backend[p].io
      /\ NextAttempt(backend[p]).slot = backend[p].slot
      /\ NextAttempt(backend[p]).loop \in {"backoff", "gaveup"}
  <2>1. NextAttempt(backend[p]) \in Process
    BY <1>0, NextAttemptType
  <2>2. \A n : LET q == [backend[p] EXCEPT !.next = Nil, !.res = "none",
                                           !.loop = "backoff", !.attempt = n]
                   g == [backend[p] EXCEPT !.next = Nil, !.res = "none",
                                           !.loop = "gaveup"]
               IN  /\ q.io = backend[p].io /\ q.slot = backend[p].slot /\ q.loop = "backoff"
                   /\ g.io = backend[p].io /\ g.slot = backend[p].slot /\ g.loop = "gaveup"
    BY <1>0 DEF Process
  <2> QED BY <2>1, <2>2 DEF NextAttempt
<1>2. CASE Respawn(p)
  BY <1>2, RespawnProcesses DEF Supervise
<1>3. CASE RespawnFails(p)
  BY <1>1, <1>3, RetryProcesses DEF RespawnFails, Supervise, poolVars
<1>4. CASE InitAnswered(p)
  <2>1. PICK r \in {"ok", "err"} : backend' = [backend EXCEPT ![p].res = r]
    BY <1>4 DEF InitAnswered
  <2> DEFINE q == [backend[p] EXCEPT !.res = r]
  <2>2. /\ q \in Process /\ q.io = backend[p].io /\ q.slot = backend[p].slot
        /\ q.loop = "init" /\ q.next = backend[p].next /\ q.res # "none"
    BY <1>0, <1>4 DEF Process, InitAnswered
  <2>3. backend' = [backend EXCEPT ![p] = q]
    BY <2>1
  <2> HIDE DEF q
  <2> QED BY <1>4, <2>2, <2>3, RetryProcesses DEF InitAnswered, Supervise, poolVars
<1>5. CASE InitReplayed(p)
  <2> DEFINE q == IF backend[p].res = "ok"
                  THEN [backend[p] EXCEPT !.loop = "done", !.next = Nil, !.res = "none"]
                  ELSE NextAttempt(backend[p])
  <2>1. /\ q \in Process /\ q.io = backend[p].io /\ q.slot = backend[p].slot
        /\ q.loop \in {"done", "backoff", "gaveup"}
    <3>1. LET d == [backend[p] EXCEPT !.loop = "done", !.next = Nil, !.res = "none"]
          IN  /\ d \in Process /\ d.io = backend[p].io /\ d.slot = backend[p].slot
              /\ d.loop = "done"
      BY <1>0 DEF Process
    <3> QED BY <1>1, <3>1
  <2>2. backend' = [backend EXCEPT ![p] = q]
    BY <1>5 DEF InitReplayed
  <2> HIDE DEF q
  <2> QED BY <1>5, <2>1, <2>2, RetryProcesses DEF InitReplayed, Supervise, poolVars
<1> QED BY <1>2, <1>3, <1>4, <1>5 DEF Supervise

LEMMA MaintenanceTickProcesses ==
  ASSUME TypeInv, ProcessInv, MaintenanceTick
  PROVE  ProcessInv'
<1> DEFINE S == IdleSessions
<1>1. ASSUME NEW s \in Slot
      PROVE  /\ Alive(s)' => Alive(s) /\ slots'[s].bk = slots[s].bk
             /\ Strategy = "LeastConnections" /\ Alive(s) => Alive(s)'
  <2>1. slots'[s] = SlotAfterEvict(s, S)
    BY DEF MaintenanceTick, EvictAndPurge
  <2>2. CASE ~Populated(s)
    BY <2>1, <2>2 DEF SlotAfterEvict, Alive, Populated
  <2>3. CASE Populated(s)
    <3>1. slots[s] \in BackendSlot
      BY <2>3, EntryTypes DEF TypeInv, TypeOK
    <3> DEFINE n == Saturating(slots[s].count, Cardinality(S \cap SessionsOn(s)))
               x == [slots[s] EXCEPT !.count = n]
    <3>2. /\ S \cap SessionsOn(s) \subseteq Ext
      BY DEF SessionsOn
    <3>3. n \in Nat
      <4>1. IsFiniteSet(S \cap SessionsOn(s))
        BY <3>2, PoolAssumption, FS_Subset
      <4> QED BY <3>1, <4>1, FS_CardinalityType, SaturatingNat DEF BackendSlot
    <3> HIDE DEF n
    <3>4. x \in BackendSlot /\ x.alive = slots[s].alive /\ x.bk = slots[s].bk
      BY <3>1, <3>3 DEF BackendSlot
    <3>5. \/ slots'[s] = x
          \/ Strategy = "Dedicated" /\ slots'[s] \in {slots[s], Nil}
      BY <2>1, <2>3 DEF SlotAfterEvict, n
    <3> QED BY <3>1, <3>4, <3>5, NilFacts DEF Alive, Populated
  <2> QED BY <2>2, <2>3
<1>2. SlotsKept
  BY <1>1 DEF SlotsKept
<1> QED BY <1>2, SameHandlersWaitOnLive, KeepProcesses DEF MaintenanceTick, spawnVars

LEMMA ShutdownProcesses ==
  ASSUME TypeInv, ProcessInv, Shutdown
  PROVE  ProcessInv'
<1>1. \A s \in Slot : ~Alive(s)'
  <2>1. ASSUME NEW s \in Slot PROVE ~Alive(s)'
    <3>1. CASE Populated(s)
      <4>1. slots[s] \in BackendSlot /\ slots'[s] = [slots[s] EXCEPT !.alive = FALSE]
        BY <3>1, EntryTypes DEF Shutdown, MarkAllDead, TypeInv, TypeOK
      <4>2. slots'[s].alive = FALSE
        BY <4>1 DEF BackendSlot
      <4> QED BY <4>2 DEF Alive
    <3>2. CASE ~Populated(s)
      BY <3>2 DEF Shutdown, MarkAllDead, Alive, Populated
    <3> QED BY <3>1, <3>2
  <2> QED BY <2>1
<1>2. ProcessShape' /\ NoOneWaitsOnTheDead'
  BY DEF Shutdown, ProcessInv, ProcessShape, NoOneWaitsOnTheDead, Running, IsUnborn, Up,
         spawnVars
<1> QED BY <1>1, <1>2
        DEF Shutdown, ProcessInv, LiveSlotHasProcess, InitReachesEveryBackend,
            DeadSlotAttended

LEMMA NextProcesses == TypeInv /\ ProcessInv /\ [Next]_vars => ProcessInv'
<1> SUFFICES ASSUME TypeInv, ProcessInv, [Next]_vars PROVE ProcessInv'
  OBVIOUS
<1>1. CASE Initialize
  BY <1>1, InitializeProcesses
<1>2. CASE \E t \in Task : Request(t) \/ Reply(t) \/ Resume(t)
  BY <1>2, RequestProcesses, ReplyProcesses, ResumeProcesses
<1>3. CASE \E b \in Backend : BackendEnds(b) \/ Supervise(b)
  BY <1>3, BackendEndsProcesses, SuperviseProcesses
<1>4. CASE \/ \E e \in Ext, f \in Frontend : Relay(e, f)
           \/ \E e \in Ext : GrowIdle(e)
           \/ UNCHANGED vars
  <2>1. UNCHANGED <<slots, task, spawnVars, stopped>>
    BY <1>4 DEF Relay, GrowIdle, vars, poolVars
  <2> QED BY <2>1, SameSlotsKept, SameHandlersWaitOnLive, KeepProcesses DEF spawnVars
<1>5. CASE MaintenanceTick
  BY <1>5, MaintenanceTickProcesses
<1>6. CASE Shutdown
  BY <1>6, ShutdownProcesses
<1> QED BY <1>1, <1>2, <1>3, <1>4, <1>5, <1>6 DEF Next

LEMMA ProcessInvariant == Spec => []ProcessInv
BY InitProcesses, NextProcesses, TypeInvariant, PTL DEF Spec

(* backend_conn never hands out a connection that has ended.               *)
THEOREM LiveSlotsRun == Spec => []LiveSlotHasProcess
BY ProcessInvariant, PTL DEF ProcessInv

(* Whatever ends a process, a respawn over it included, also fails every   *)
(* call that awaited its answer.                                           *)
THEOREM NobodyWaitsOnTheDead == Spec => []NoOneWaitsOnTheDead
BY ProcessInvariant, PTL DEF ProcessInv

(* No overlap of an initialize with spawns and respawns leaves a live      *)
(* process that was not sent it.                                           *)
THEOREM InitializeIsReplayed == Spec => []InitReachesEveryBackend
BY ProcessInvariant, PTL DEF ProcessInv

(* A dead LeastConnections slot always has a respawn loop due to try again *)
(* or one that gave up.                                                    *)
THEOREM DeadSlotsAttended == Spec => []DeadSlotAttended
BY ProcessInvariant, PTL DEF ProcessInv

-----------------------------------------------------------------------------
(* Which process a session reaches, while no process ends.  A              *)
(* LeastConnections slot then keeps its first process: no supervisor ever  *)
(* leaves its watch, and no removal or eviction empties the slot.  The     *)
(* process a handler noted before its await is therefore still the one in  *)
(* the slot index it registers under afterwards.                           *)

(* The process of a slot is the process awaited by those who noted the     *)
(* slot, and the owner of the sessions mapped to it.                       *)
HandlerSettled(h) ==
  \/ h.pc \in {"idle", "prompt", "close"}
  \/ h.pc # "init" /\ h.bk = slots[h.slot].bk

MappingsSettled ==
  \A e \in Ext : Active(e) => slots[sessions[e].slot].bk = owner[e]

SettledInv ==
  /\ \A p \in Backend : backend[p].loop \in {"watch", "done"}
  /\ \A s \in Slot : Populated(s)
  /\ \A t \in Task : HandlerSettled(task[t])
  /\ MappingsSettled

(* Steps that leave every process in its slot. *)
ProcessesStay ==
  /\ UNCHANGED backend
  /\ \A s \in Slot : Populated(s)' /\ slots'[s].bk = slots[s].bk

(* Steps that map sessions to the process they name as the owner, if any.  *)
MappingsKept ==
  \A e \in Ext : Active(e)' =>
    \/ Active(e) /\ sessions'[e].slot = sessions[e].slot /\ owner'[e] = owner[e]
    \/ sessions'[e].slot \in Slot /\ slots[sessions'[e].slot].bk = owner'[e]

LEMMA KeepSettled ==
  ASSUME TypeInv, TypeInv', SettledInv, ProcessesStay, MappingsKept,
         \A t \in Task : HandlerSettled(task'[t])
  PROVE  SettledInv'
<1>1. \A t \in Task : HandlerSettled(task[t])'
  BY DEF ProcessesStay, HandlerSettled, TypeInv, Handlers, Shape
<1>2. MappingsSettled'
  BY EntryTypes DEF SettledInv, MappingsSettled, MappingsKept, ProcessesStay,
                    SessionEntry, TypeInv, TypeOK, Active
<1> QED BY <1>1, <1>2 DEF SettledInv, ProcessesStay

(* Entries of the slot table that differ in their counts and liveness only. *)
LEMMA RecountedStays ==
  ASSUME TypeInv, SettledInv, NEW s \in Slot, NEW x \in BackendSlot, x.bk = slots[s].bk,
         slots' = [slots EXCEPT ![s] = x], UNCHANGED backend
  PROVE  ProcessesStay
BY NilFacts DEF ProcessesStay, SettledInv, Populated, TypeInv, TypeOK, PoolTypeOK

LEMMA SameSlotsStay ==
  ASSUME SettledInv, UNCHANGED <<slots, backend>> PROVE ProcessesStay
BY DEF ProcessesStay, SettledInv, Populated

LEMMA SameMappings ==
  ASSUME UNCHANGED <<sessions, owner>> PROVE MappingsKept
BY DEF MappingsKept, Active

(* A handler suspends, finishes or stays as it is. *)
LEMMA SuspendSettled ==
  ASSUME TypeInv, SettledInv, NEW t \in Task, NEW h, Suspend(t, h), HandlerSettled(h)
  PROVE  \A u \in Task : HandlerSettled(task'[u])
BY DEF Suspend, SettledInv, TypeInv, Handlers

LEMMA FinishSettled ==
  ASSUME TypeInv, SettledInv, NEW t \in Task, Finish(t)
  PROVE  \A u \in Task : HandlerSettled(task'[u])
BY SuspendSettled DEF Finish, Suspend, NoHandler, HandlerSettled

(* Acquiring a process spawns none: every slot has its own. *)
LEMMA AcquireSettled ==
  ASSUME Strategy = "LeastConnections", TypeInv, SettledInv,
         NEW t \in Task, NEW h, Ready(h), Acquire(t, h)
  PROVE  ProcessesStay /\ \A u \in Task : HandlerSettled(task'[u])
<1>1. PICK s \in Slot : /\ Suspend(t, [h EXCEPT !.slot = s, !.bk = slots[s].bk])
                        /\ UNCHANGED <<slots, backend>>
  BY DEF Acquire, SettledInv
<1> DEFINE g == [h EXCEPT !.slot = s, !.bk = slots[s].bk]
<1>2. g.pc # "init" /\ g.bk = slots[g.slot].bk
  BY DEF Ready, Handler
<1>3. Suspend(t, g)
  BY <1>1
<1> HIDE DEF g
<1> QED BY <1>1, <1>2, <1>3, SuspendSettled, SameSlotsStay DEF HandlerSettled

(* What a request of a session leaves in its entry keeps its slot. *)
LEMMA StampMappings ==
  ASSUME TypeInv, NEW e \in Ext, NEW f \in Frontend, UNCHANGED owner,
         \/ RecordSender(e, f)
         \/ Active(e) /\ StampSession(e, f)
         \/ Active(e) /\ sessions' = [sessions EXCEPT ![e].idle = TRUE]
  PROVE  MappingsKept
<1>1. CASE UNCHANGED sessions
  BY <1>1, SameMappings
<1>2. CASE Active(e)
  <2>1. sessions[e] \in SessionEntry
    BY <1>2, EntryTypes DEF TypeInv, TypeOK
  <2>2. PICK x : x.slot = sessions[e].slot /\ sessions' = [sessions EXCEPT ![e] = x]
    <3>1. /\ [sessions[e] EXCEPT !.sender = f].slot = sessions[e].slot
          /\ [sessions[e] EXCEPT !.sender = f, !.idle = FALSE].slot = sessions[e].slot
          /\ [sessions[e] EXCEPT !.idle = TRUE].slot = sessions[e].slot
      BY <2>1 DEF SessionEntry
    <3>2. \/ sessions' = [sessions EXCEPT ![e] = [sessions[e] EXCEPT !.sender = f]]
          \/ sessions' = [sessions EXCEPT
                            ![e] = [sessions[e] EXCEPT !.sender = f, !.idle = FALSE]]
          \/ sessions' = [sessions EXCEPT ![e] = [sessions[e] EXCEPT !.idle = TRUE]]
      BY <1>2 DEF RecordSender, StampSession, TypeInv, TypeOK, PoolTypeOK
    <3> QED BY <3>1, <3>2
  <2> QED BY <1>2, <2>2 DEF MappingsKept, Active, TypeInv, TypeOK, PoolTypeOK
<1> QED BY <1>1, <1>2 DEF RecordSender

(* Sessions disappear from the map. *)
LEMMA UnmapMappings ==
  ASSUME NEW S, Unmap(S), UNCHANGED owner
  PROVE  MappingsKept
BY DEF Unmap, MappingsKept, Active

LEMMA RequestSettled ==
  ASSUME Strategy = "LeastConnections", TypeInv, SettledInv, NEW t \in Task, Request(t)
  PROVE  ProcessesStay /\ MappingsKept /\ \A u \in Task : HandlerSettled(task'[u])
<1> DEFINE Goal == ProcessesStay /\ MappingsKept /\ \A u \in Task : HandlerSettled(task'[u])
<1>1. ASSUME NEW f \in Frontend, NewSession(t, f) PROVE Goal
  <2> DEFINE h == [NoHandler EXCEPT !.pc = "create", !.op = "new", !.fe = f]
  <2>1. Ready(h) /\ Acquire(t, h)
    BY <1>1 DEF Ready, NoHandler, Handler, NewSession
  <2> HIDE DEF h
  <2> QED BY <1>1, <2>1, AcquireSettled, SameMappings DEF NewSession, history
<1>2. ASSUME NEW e \in Ext, NEW f \in Frontend, NEW op \in {"load", "prompt"},
             TakeForReload(t, [NoHandler EXCEPT !.op = op, !.ext = e, !.fe = f])
      PROVE  ProcessesStay /\ \A u \in Task : HandlerSettled(task'[u])
  <2> DEFINE g == [NoHandler EXCEPT !.op = op, !.ext = e, !.fe = f]
             h == [g EXCEPT !.pc = "reload", !.bsid = evicted[e].bsid]
  <2>1. g.ext = e
    BY DEF NoHandler
  <2>2. IsEvicted(e) /\ Acquire(t, h)
    BY <1>2, <2>1 DEF TakeForReload
  <2>3. evicted[e].bsid \in BSid
    BY <2>2, EntryTypes DEF TypeInv, TypeOK, EvictedSession
  <2>4. Ready(h)
    BY <2>3 DEF Ready, NoHandler, Handler
  <2> HIDE DEF h
  <2> QED BY <2>2, <2>4, AcquireSettled
<1>3. ASSUME UNCHANGED <<task, slots, backend>>
      PROVE  ProcessesStay /\ \A u \in Task : HandlerSettled(task'[u])
  BY <1>3, SameSlotsStay DEF SettledInv
<1>4. ASSUME NEW e \in Ext, NEW f \in Frontend, LoadSession(t, e, f) PROVE Goal
  BY <1>2, <1>3, <1>4, SameMappings, Zenon DEF LoadSession, history
<1>5. ASSUME NEW e \in Ext, NEW f \in Frontend, PromptEvicted(t, e, f) PROVE Goal
  BY <1>2, <1>3, <1>5, SameMappings, Zenon DEF PromptEvicted, history
<1>6. ASSUME NEW e \in Ext, NEW f \in Frontend, PromptActive(t, e, f) PROVE Goal
  <2> DEFINE h == [NoHandler EXCEPT !.pc = "prompt", !.op = "prompt", !.ext = e,
                                    !.fe = f, !.slot = sessions[e].slot,
                                    !.bk = slots[sessions[e].slot].bk]
  <2>1. HandlerSettled(h)
    BY DEF HandlerSettled, NoHandler
  <2>2. Suspend(t, h)
    BY <1>6 DEF PromptActive
  <2> HIDE DEF h
  <2>3. MappingsKept
    BY <1>6, StampMappings DEF PromptActive, Resolves, history
  <2> QED BY <1>6, <2>1, <2>2, <2>3, SuspendSettled, SameSlotsStay DEF PromptActive, spawnVars
<1>7. ASSUME NEW e \in Ext, NEW f \in Frontend, NEW op \in {"fork", "close"},
             CallOnSession(t, e, f, op)
      PROVE  Goal
  <2> DEFINE h == [NoHandler EXCEPT !.pc = op, !.op = op, !.ext = e, !.fe = f,
                                    !.slot = sessions[e].slot,
                                    !.bk = slots[sessions[e].slot].bk]
  <2>1. HandlerSettled(h)
    BY DEF HandlerSettled, NoHandler
  <2>2. Suspend(t, h)
    BY <1>7 DEF CallOnSession
  <2> HIDE DEF h
  <2>3. MappingsKept
    BY <1>7, StampMappings DEF CallOnSession, history
  <2> QED BY <1>7, <2>1, <2>2, <2>3, SuspendSettled, SameSlotsStay DEF CallOnSession, spawnVars
<1> QED BY <1>1, <1>4, <1>5, <1>6, <1>7 DEF Request, ForkSession, CloseSession

(* A registration counts one session more in its slot. *)
LEMMA RegisterSettled ==
  ASSUME TypeInv, SettledInv, NEW e \in Ext, NEW b, NEW s \in Slot, NEW f,
         RegisterSession(e, b, s, f), UNCHANGED backend,
         owner' = [owner EXCEPT ![e] = slots[s].bk]
  PROVE  ProcessesStay /\ MappingsKept
<1>1. Populated(s) /\ slots[s] \in BackendSlot
  BY EntryTypes DEF SettledInv, TypeInv, TypeOK
<1>2. LET x == [slots[s] EXCEPT !.count = @ + 1]
      IN  x \in BackendSlot /\ x.bk = slots[s].bk /\ slots' = [slots EXCEPT ![s] = x]
  BY <1>1 DEF BackendSlot, RegisterSession, TypeInv, TypeOK, PoolTypeOK
<1>3. ProcessesStay
  BY <1>2, RecountedStays
<1>4. ASSUME NEW d \in Ext, Active(d)'
      PROVE  \/ Active(d) /\ sessions'[d].slot = sessions[d].slot /\ owner'[d] = owner[d]
             \/ sessions'[d].slot \in Slot /\ slots[sessions'[d].slot].bk = owner'[d]
  BY <1>4 DEF RegisterSession, Active, TypeInv, TypeOK, PoolTypeOK
<1> QED BY <1>3, <1>4 DEF MappingsKept

LEMMA ResumeSettled ==
  ASSUME Strategy = "LeastConnections", TypeInv, SettledInv, NEW t \in Task, Resume(t)
  PROVE  ProcessesStay /\ MappingsKept /\ \A u \in Task : HandlerSettled(task'[u])
<1>0. task[t] \in Handler /\ Shape(task[t]) /\ HandlerSettled(task[t])
  BY DEF TypeInv, Handlers, SettledInv
<1>1. CASE AfterInit(t)
  BY <1>0, <1>1 DEF AfterInit, Polled, HandlerSettled
<1>2. CASE AfterCreate(t)
  <2>1. CASE task[t].res = "err"
    BY <1>2, <2>1, FinishSettled, SameSlotsStay, SameMappings DEF AfterCreate, history, spawnVars
  <2>2. CASE task[t].res # "err"
    <3>1. task[t].slot \in Slot /\ task[t].bk = slots[task[t].slot].bk
      BY <1>0, <1>2 DEF AfterCreate, Polled, Shape, HandlerSettled
    <3> QED BY <1>2, <2>2, <3>1, FinishSettled, RegisterSettled DEF AfterCreate, spawnVars
  <2> QED BY <2>1, <2>2
<1>3. CASE AfterReload(t)
  <2>1. \A u \in Task : HandlerSettled(task'[u])
    <3>1. CASE Return(t)
      BY <3>1, FinishSettled DEF Return
    <3>2. CASE ~Return(t)
      <4>1. PICK b : Suspend(t, [task[t] EXCEPT !.pc = "prompt", !.bk = b,
                                                !.bsid = Nil, !.res = "none"])
        BY <1>3, <3>2 DEF AfterReload
      <4> DEFINE h == [task[t] EXCEPT !.pc = "prompt", !.bk = b, !.bsid = Nil, !.res = "none"]
      <4>2. HandlerSettled(h)
        BY <1>0 DEF HandlerSettled, Handler
      <4>3. Suspend(t, h)
        BY <4>1
      <4> HIDE DEF h
      <4> QED BY <4>2, <4>3, SuspendSettled
    <3> QED BY <3>1, <3>2
  <2>2. CASE task[t].res = "err"
    BY <1>3, <2>1, <2>2, SameSlotsStay, SameMappings DEF AfterReload, spawnVars
  <2>3. CASE task[t].res # "err"
    <3>1. /\ task[t].slot \in Slot /\ task[t].bk = slots[task[t].slot].bk
          /\ task[t].ext \in Ext
      BY <1>0, <1>3 DEF AfterReload, Polled, Shape, HandlerSettled
    <3>2. /\ RegisterSession(task[t].ext, task[t].bsid, task[t].slot, task[t].fe)
          /\ owner' = [owner EXCEPT ![task[t].ext] = task[t].bk]
          /\ UNCHANGED backend
      BY <1>3, <2>3 DEF AfterReload, spawnVars
    <3> QED BY <2>1, <3>1, <3>2, RegisterSettled
  <2> QED BY <2>2, <2>3
<1>4. CASE AfterPrompt(t)
  BY <1>4, FinishSettled, SameSlotsStay, SameMappings DEF AfterPrompt, Return, history, spawnVars
<1>5. CASE AfterClose(t)
  <2>1. UNCHANGED <<backend, owner>> /\ \A u \in Task : HandlerSettled(task'[u])
    BY <1>5, FinishSettled DEF AfterClose, history, spawnVars
  <2>2. CASE UNCHANGED <<slots, sessions>>
    BY <2>1, <2>2, SameSlotsStay, SameMappings
  <2>3. CASE Active(task[t].ext) /\ RemoveSession(task[t].ext)
    <3>1. PICK e \in Ext : e = task[t].ext
      BY <1>0, <1>5 DEF AfterClose, Polled, Shape
    <3>2. PICK s \in Slot : s = sessions[e].slot
      BY <2>3, <3>1, EntryTypes DEF TypeInv, TypeOK, SessionEntry
    <3>3. Populated(s) /\ slots[s] \in BackendSlot
      BY EntryTypes DEF SettledInv, TypeInv, TypeOK
    <3>4. SlotAfterRemove(s) \in BackendSlot /\ SlotAfterRemove(s).bk = slots[s].bk
      BY <3>3, SaturatingNat DEF SlotAfterRemove, BackendSlot
    <3>5. slots' = [slots EXCEPT ![s] = SlotAfterRemove(s)] /\ Unmap({e})
      BY <2>3, <3>1, <3>2, <3>3 DEF RemoveSession
    <3> QED BY <2>1, <3>4, <3>5, RecountedStays, UnmapMappings
  <2> QED BY <1>5, <2>1, <2>2, <2>3 DEF AfterClose, RemoveSession
<1> QED BY <1>1, <1>2, <1>3, <1>4, <1>5 DEF Resume

LEMMA ReplySettled ==
  ASSUME TypeInv, SettledInv, NEW t \in Task, Reply(t)
  PROVE  ProcessesStay /\ MappingsKept /\ \A u \in Task : HandlerSettled(task'[u])
<1>1. task[t] \in Handler /\ HandlerSettled(task[t])
  BY DEF TypeInv, Handlers, SettledInv
<1>2. PICK r, b : Suspend(t, [task[t] EXCEPT !.res = r, !.bsid = b])
  <2>1. \A r : [task[t] EXCEPT !.res = r] = [task[t] EXCEPT !.res = r, !.bsid = task[t].bsid]
    BY <1>1 DEF Handler
  <2> QED BY <2>1 DEF Reply
<1> DEFINE h == [task[t] EXCEPT !.res = r, !.bsid = b]
<1>3. HandlerSettled(h)
  BY <1>1 DEF HandlerSettled, Handler
<1>4. Suspend(t, h)
  BY <1>2
<1> HIDE DEF h
<1> QED BY <1>3, <1>4, SuspendSettled, SameSlotsStay, SameMappings
        DEF Reply, poolVars, spawnVars, history

LEMMA MaintenanceTickSettled ==
  ASSUME Strategy = "LeastConnections", TypeInv, SettledInv, MaintenanceTick
  PROVE  ProcessesStay /\ MappingsKept /\ \A u \in Task : HandlerSettled(task'[u])
<1> DEFINE S == IdleSessions
<1>1. ASSUME NEW s \in Slot
      PROVE  Populated(s)' /\ slots'[s].bk = slots[s].bk
  <2>1. Populated(s) /\ slots[s] \in BackendSlot
    BY EntryTypes DEF SettledInv, TypeInv, TypeOK
  <2> DEFINE n == Saturating(slots[s].count, Cardinality(S \cap SessionsOn(s)))
             x == [slots[s] EXCEPT !.count = n]
  <2>2. n \in Nat
    <3>1. IsFiniteSet(S \cap SessionsOn(s))
      BY PoolAssumption, FS_Subset DEF SessionsOn
    <3> QED BY <2>1, <3>1, FS_CardinalityType, SaturatingNat DEF BackendSlot
  <2>3. slots'[s] = x
    BY <2>1 DEF MaintenanceTick, EvictAndPurge, SlotAfterEvict
  <2> HIDE DEF n
  <2>4. x \in BackendSlot /\ x.bk = slots[s].bk
    BY <2>1, <2>2 DEF BackendSlot
  <2> QED BY <2>3, <2>4, NilFacts DEF Populated
<1>2. ProcessesStay
  BY <1>1 DEF ProcessesStay, MaintenanceTick, spawnVars
<1>3. MappingsKept
  BY UnmapMappings DEF MaintenanceTick, EvictAndPurge, history
<1> QED BY <1>2, <1>3 DEF MaintenanceTick, SettledInv

LEMMA ShutdownSettled ==
  ASSUME TypeInv, SettledInv, Shutdown
  PROVE  ProcessesStay /\ MappingsKept /\ \A u \in Task : HandlerSettled(task'[u])
<1>1. ASSUME NEW s \in Slot
      PROVE  Populated(s)' /\ slots'[s].bk = slots[s].bk
  <2>1. Populated(s) /\ slots[s] \in BackendSlot
    BY EntryTypes DEF SettledInv, TypeInv, TypeOK
  <2>2. LET x == [slots[s] EXCEPT !.alive = FALSE]
        IN  x \in BackendSlot /\ x.bk = slots[s].bk /\ slots'[s] = x
    BY <2>1 DEF BackendSlot, Shutdown, MarkAllDead
  <2> QED BY <2>2, NilFacts DEF Populated
<1>2. ProcessesStay
  BY <1>1 DEF ProcessesStay, Shutdown, spawnVars
<1> QED BY <1>2, SameMappings DEF Shutdown, history, SettledInv

LEMMA NextSettled ==
  ASSUME Strategy = "LeastConnections", TypeInv, TypeInv', SettledInv,
         [Next]_vars, [\A b \in Backend : ~BackendEnds(b)]_vars
  PROVE  SettledInv'
<1>1. ASSUME UNCHANGED <<slots, backend, task>>, MappingsKept PROVE SettledInv'
  BY <1>1, SameSlotsStay, KeepSettled DEF SettledInv
<1>2. CASE Initialize \/ UNCHANGED vars \/ \E b \in Backend : BackendEnds(b)
  <2>1. UNCHANGED <<slots, backend, task, sessions, owner>>
    BY <1>2 DEF Initialize, vars, poolVars, spawnVars, history
  <2> QED BY <1>1, <2>1, SameMappings
<1>3. CASE \E t \in Task : Request(t)
  BY <1>3, RequestSettled, KeepSettled
<1>4. CASE \E t \in Task : Reply(t)
  BY <1>4, ReplySettled, KeepSettled
<1>5. CASE \E t \in Task : Resume(t)
  BY <1>5, ResumeSettled, KeepSettled
<1>6. CASE \/ \E e \in Ext, f \in Frontend : Relay(e, f)
           \/ \E e \in Ext : GrowIdle(e)
  <2>1. UNCHANGED <<slots, backend, task, owner>>
    BY <1>6 DEF Relay, GrowIdle, spawnVars, history
  <2>2. CASE \E e \in Ext, f \in Frontend : Relay(e, f)
    BY <1>1, <2>1, <2>2, StampMappings DEF Relay
  <2>3. CASE \E e \in Ext : GrowIdle(e)
    <3>1. PICK e \in Ext : Active(e) /\ sessions' = [sessions EXCEPT ![e].idle = TRUE]
      BY <2>3 DEF GrowIdle
    <3>2. sessions[e].sender \in Frontend
      BY <3>1, EntryTypes DEF TypeInv, TypeOK, SessionEntry
    <3> QED BY <1>1, <2>1, <3>1, <3>2, StampMappings
  <2> QED BY <1>6, <2>2, <2>3
<1>7. CASE \E p \in Backend : Supervise(p)
  BY <1>7 DEF Supervise, Respawn, RespawnFails, InitAnswered, InitReplayed, SettledInv
<1>8. CASE MaintenanceTick
  BY <1>8, MaintenanceTickSettled, KeepSettled
<1>9. CASE Shutdown
  BY <1>9, ShutdownSettled, KeepSettled
<1> QED BY <1>2, <1>3, <1>4, <1>5, <1>6, <1>7, <1>8, <1>9 DEF Next

LEMMA InitSettled ==
  ASSUME Strategy = "LeastConnections", Init
  PROVE  SettledInv
<1>1. \A p \in Backend : backend[p].loop \in {"watch", "done"}
  <2>1. \A p \in Backend : backend[p] = Unborn \/ \E s : backend[p] = Born(s)
    BY DEF Init, SpawnInit
  <2> QED BY <2>1, BornFields
<1>2. \A s \in Slot : Populated(s)
  <2>1. PICK boot \in [Slot -> Backend] :
          slots = [s \in Slot |-> [bk |-> boot[s], count |-> 0, alive |-> TRUE]]
    BY DEF Init, SpawnInit
  <2>2. \A s \in Slot : slots[s] \in BackendSlot
    BY <2>1 DEF BackendSlot
  <2> QED BY <2>2, NilFacts DEF Populated
<1>3. \A t \in Task : HandlerSettled(task[t])
  BY DEF Init, NoHandler, HandlerSettled
<1>4. MappingsSettled
  BY DEF Init, PoolInit, MappingsSettled, Active
<1> QED BY <1>1, <1>2, <1>3, <1>4 DEF SettledInv

(* Under LeastConnections, and while no process ends, a request for a      *)
(* mapped session goes to the process that created the session or last     *)
(* reloaded it, however creations, forks, reloads and evictions overlap.   *)
THEOREM SessionsKeepTheirProcess ==
  ASSUME Strategy = "LeastConnections"
  PROVE  Spec /\ NoBackendEnds => []SessionReachesItsProcess
<1>1. SettledInv => SessionReachesItsProcess
  BY DEF SettledInv, MappingsSettled, SessionReachesItsProcess, Resolves
<1>2. /\ TypeInv /\ TypeInv' /\ SettledInv
      /\ [Next]_vars /\ [\A b \in Backend : ~BackendEnds(b)]_vars
      => SettledInv'
  BY NextSettled
<1>3. Init => SettledInv
  BY InitSettled
<1> QED BY <1>1, <1>2, <1>3, TypeInvariant, PTL DEF Spec, NoBackendEnds

=============================================================================
