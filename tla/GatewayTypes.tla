----------------------------- MODULE GatewayTypes -----------------------------
(***************************************************************************)
(* Type correctness of the gateway, for every value of its constants.      *)
(* TypeOK alone is not inductive: what a resuming handler writes into the  *)
(* pool comes out of its own record, so the record's shape at each await   *)
(* has to be carried along.                                                *)
(***************************************************************************)
EXTENDS Gateway, FiniteSetTheorems, TLAPS

(* Which operation stands at which await, and the fields it has set there. *)
Shape(h) ==
  /\ h.pc = "idle" => h.op = "none"
  /\ h.pc # "idle" => h.fe \in Frontend /\ h.slot \in Slot /\ h.bk \in Backend
  /\ h.pc = "init" => h.op \in {"new", "load", "prompt"}
  /\ h.pc = "create" => h.op = "new"
  /\ h.pc = "reload" => h.op \in {"load", "prompt"}
  /\ h.pc \in {"prompt", "fork", "close"} => h.op = h.pc
  /\ h.op \in {"load", "prompt", "fork", "close"} => h.ext \in Ext
  /\ h.op \in {"load", "prompt"} /\ h.pc \in {"init", "reload"} => h.bsid \in BSid
  /\ h.pc \in {"create", "fork"} /\ h.res = "ok" => h.bsid \in BSid

Handlers ==
  /\ task \in [Task -> Handler]
  /\ \A t \in Task : Shape(task[t])

TypeInv == TypeOK /\ Handlers

(* The behaviours in which no I/O task of a backend ends, while which some *)
(* of the gateway's promises hold: no crash, and nobody discards a process *)
(* that then exits. *)
NoBackendEnds == [][\A b \in Backend : ~BackendEnds(b)]_vars

-----------------------------------------------------------------------------
(* The pool's operators keep the pool well typed. *)

LEMMA NilFacts ==
  /\ Nil \notin Ext /\ Nil \notin BSid /\ Nil \notin Frontend /\ Nil \notin Backend
  /\ Nil \notin BackendSlot /\ Nil \notin SessionEntry /\ Nil \notin EvictedSession
BY NilAssumption

(* A slot or session that is there has the type of its table's entries. *)
LEMMA EntryTypes ==
  ASSUME PoolTypeOK
  PROVE  /\ \A s \in Slot : Populated(s) => slots[s] \in BackendSlot
         /\ \A e \in Ext : Active(e) => sessions[e] \in SessionEntry
         /\ \A e \in Ext : IsEvicted(e) => evicted[e] \in EvictedSession
BY DEF PoolTypeOK, Populated, Active, IsEvicted

LEMMA SaturatingNat ==
  ASSUME NEW n \in Nat, NEW k \in Nat
  PROVE  /\ Saturating(n, k) \in Nat
         /\ Saturating(n, k) <= n
         /\ k <= n => Saturating(n, k) = n - k
BY DEF Saturating

(* What is chosen by select_slot is a slot whose process is live, or an    *)
(* empty one.                                                              *)
LEMMA SelectedAlive ==
  ASSUME PoolTypeOK, NEW s \in Slot, SelectSlot(s), Populated(s)
  PROVE  Alive(s) /\ slots[s] \in BackendSlot
BY EntryTypes DEF SelectSlot, Alive, Idle

LEMMA InsertSlotTypes ==
  ASSUME PoolTypeOK, NEW s, NEW b \in Backend, InsertSlot(s, b)
  PROVE  slots' \in [Slot -> BackendSlot \cup {Nil}]
BY DEF PoolTypeOK, InsertSlot, BackendSlot

LEMMA RegisterSessionTypes ==
  ASSUME PoolTypeOK, NEW e \in Ext, NEW b \in BSid, NEW s \in Slot, NEW f \in Frontend,
         RegisterSession(e, b, s, f)
  PROVE  /\ slots' \in [Slot -> BackendSlot \cup {Nil}]
         /\ sessions' \in [Ext -> SessionEntry \cup {Nil}]
         /\ reverse' \in [BSid -> Ext \cup {Nil}]
<1>1. sessions' \in [Ext -> SessionEntry \cup {Nil}]
  BY DEF PoolTypeOK, RegisterSession, SessionEntry
<1>2. reverse' \in [BSid -> Ext \cup {Nil}]
  BY DEF PoolTypeOK, RegisterSession
<1>3. slots' \in [Slot -> BackendSlot \cup {Nil}]
  <2>1. CASE Populated(s)
    BY <2>1, EntryTypes DEF PoolTypeOK, RegisterSession, BackendSlot
  <2>2. CASE ~Populated(s)
    BY <2>2 DEF PoolTypeOK, RegisterSession
  <2> QED BY <2>1, <2>2
<1> QED BY <1>1, <1>2, <1>3

LEMMA UnmapTypes ==
  ASSUME PoolTypeOK, NEW S, Unmap(S)
  PROVE  /\ sessions' \in [Ext -> SessionEntry \cup {Nil}]
         /\ reverse' \in [BSid -> Ext \cup {Nil}]
BY DEF PoolTypeOK, Unmap

LEMMA WithEvictedTypes ==
  ASSUME PoolTypeOK, NEW S \in SUBSET {e \in Ext : Active(e)}
  PROVE  WithEvicted(S) \in [Ext -> EvictedSession \cup {Nil}]
BY EntryTypes DEF PoolTypeOK, WithEvicted, SessionEntry, EvictedSession

LEMMA RemoveSessionTypes ==
  ASSUME PoolTypeOK, NEW e \in Ext, RemoveSession(e), UNCHANGED evicted
  PROVE  PoolTypeOK'
<1>1. CASE ~Active(e)
  BY <1>1 DEF RemoveSession, PoolTypeOK
<1>2. CASE Active(e)
  <2> DEFINE s == sessions[e].slot
  <2>1. s \in Slot
    BY <1>2, EntryTypes DEF SessionEntry
  <2>2. slots' \in [Slot -> BackendSlot \cup {Nil}]
    <3>1. CASE ~Populated(s)
      BY <1>2, <3>1 DEF RemoveSession, PoolTypeOK
    <3>2. CASE Populated(s)
      <4>1. slots[s] \in BackendSlot
        BY <2>1, <3>2, EntryTypes
      <4>2. SlotAfterRemove(s) \in BackendSlot \cup {Nil}
        BY <4>1, SaturatingNat DEF SlotAfterRemove, BackendSlot
      <4> QED BY <1>2, <3>2, <4>2 DEF RemoveSession, PoolTypeOK
    <3> QED BY <3>1, <3>2
  <2>3. Unmap({e}) /\ EndPrompt(e)
    BY <1>2 DEF RemoveSession
  <2> QED BY <2>2, <2>3, UnmapTypes DEF PoolTypeOK, EndPrompt
<1> QED BY <1>1, <1>2

(* An eviction counts sessions in the finite set of external ids. *)
LEMMA EvictAndPurgeTypes ==
  ASSUME PoolTypeOK, NEW S \in SUBSET {e \in Ext : Active(e)}, EvictAndPurge(S)
  PROVE  PoolTypeOK'
<1>1. \A s \in Slot : Cardinality(S \cap SessionsOn(s)) \in Nat
  <2>1. \A s \in Slot : IsFiniteSet(S \cap SessionsOn(s))
    BY PoolAssumption, FS_Subset DEF SessionsOn
  <2> QED BY <2>1, FS_CardinalityType
<1>2. ASSUME NEW s \in Slot
      PROVE  SlotAfterEvict(s, S) \in BackendSlot \cup {Nil}
  <2>1. CASE Populated(s)
    <3>1. slots[s] \in BackendSlot
      BY <2>1, EntryTypes
    <3>2. Saturating(slots[s].count, Cardinality(S \cap SessionsOn(s))) \in Nat
      BY <3>1, <1>1, SaturatingNat DEF BackendSlot
    <3> QED BY <3>1, <3>2, <2>1 DEF SlotAfterEvict, BackendSlot
  <2>2. CASE ~Populated(s)
    BY <2>2 DEF SlotAfterEvict, Populated
  <2> QED BY <2>1, <2>2
<1>3. slots' \in [Slot -> BackendSlot \cup {Nil}]
  BY <1>2 DEF EvictAndPurge
<1>4. evicted' \in [Ext -> EvictedSession \cup {Nil}]
  BY WithEvictedTypes DEF EvictAndPurge
<1> QED BY <1>3, <1>4, UnmapTypes DEF EvictAndPurge, ClearSenders, PoolTypeOK

LEMMA HandleBackendDeathTypes ==
  ASSUME PoolTypeOK, NEW s, HandleBackendDeath(s)
  PROVE  PoolTypeOK'
<1> DEFINE S == SessionsOn(s)
<1>1. S \in SUBSET {e \in Ext : Active(e)}
  BY DEF SessionsOn
<1>2. slots' \in [Slot -> BackendSlot \cup {Nil}]
  <2>1. CASE s \in Slot
    <3>1. [slots[s] EXCEPT !.alive = FALSE, !.count = 0] \in BackendSlot \/ ~Populated(s)
      <4>1. ASSUME NEW r \in BackendSlot
            PROVE  [r EXCEPT !.alive = FALSE, !.count = 0] \in BackendSlot
        BY DEF BackendSlot
      <4> QED BY <2>1, <4>1, EntryTypes
    <3>2. PICK r \in BackendSlot \cup {Nil} : slots' = [slots EXCEPT ![s] = r]
      BY <3>1 DEF HandleBackendDeath
    <3> QED BY <3>2 DEF PoolTypeOK
  <2>2. CASE s \notin Slot
    BY <2>2 DEF HandleBackendDeath, PoolTypeOK
  <2> QED BY <2>1, <2>2
<1>3. evicted' \in [Ext -> EvictedSession \cup {Nil}]
  BY <1>1, WithEvictedTypes DEF HandleBackendDeath
<1> QED BY <1>1, <1>2, <1>3, UnmapTypes DEF HandleBackendDeath, ClearSenders, PoolTypeOK

LEMMA MarkAllDeadTypes ==
  ASSUME PoolTypeOK, MarkAllDead
  PROVE  slots' \in [Slot -> BackendSlot \cup {Nil}]
BY EntryTypes DEF MarkAllDead, PoolTypeOK, BackendSlot

-----------------------------------------------------------------------------
(* Processes and supervisors. *)

LEMMA UnbornType == Unborn \in Process /\ \A s \in Slot : Born(s) \in Process
BY RetriesAssumption DEF Unborn, Born, Process

(* Processes are created once each at startup, one for every slot. *)
LEMMA SpawnInitTypes ==
  ASSUME SpawnInit
  PROVE  SpawnTypeOK /\ slots \in [Slot -> BackendSlot \cup {Nil}]
<1>1. CASE Strategy = "Dedicated"
  BY <1>1, UnbornType DEF SpawnInit, SpawnTypeOK
<1>2. CASE Strategy = "LeastConnections"
  <2>1. PICK boot \in [Slot -> Backend] :
          /\ slots = [s \in Slot |-> [bk |-> boot[s], count |-> 0, alive |-> TRUE]]
          /\ backend = [b \in Backend |->
                          IF \E s \in Slot : boot[s] = b
                          THEN Born(CHOOSE s \in Slot : boot[s] = b)
                          ELSE Unborn]
    BY <1>2 DEF SpawnInit
  <2>2. ASSUME NEW b \in Backend, \E s \in Slot : boot[s] = b
        PROVE  (CHOOSE s \in Slot : boot[s] = b) \in Slot
    BY <2>2
  <2>3. backend \in [Backend -> Process]
    BY <2>1, <2>2, UnbornType
  <2> QED BY <2>1, <2>3 DEF SpawnInit, SpawnTypeOK, BackendSlot
<1> QED BY <1>1, <1>2, PoolAssumption

LEMMA SpawnDedicatedTypes ==
  ASSUME SpawnTypeOK, NEW s \in Slot, NEW b \in Backend, SpawnDedicated(s, b)
  PROVE  backend' \in [Backend -> Process] /\ initialized' \subseteq Backend
BY UnbornType DEF SpawnTypeOK, SpawnDedicated

LEMMA NextAttemptType ==
  ASSUME NEW p \in Process PROVE NextAttempt(p) \in Process
<1>1. p.attempt + 1 < MaxRetries => p.attempt + 1 \in 0 .. MaxRetries
  BY RetriesAssumption DEF Process
<1> QED BY <1>1 DEF Process, NextAttempt



(* What the supervisor's steps write into its record keeps the type. *)
LEMMA ProcessUpdates ==
  ASSUME NEW q \in Process
  PROVE  /\ [q EXCEPT !.loop = "done"] \in Process
         /\ [q EXCEPT !.loop = "done", !.next = Nil, !.res = "none"] \in Process
         /\ \A b \in Backend : [q EXCEPT !.loop = "init", !.next = b] \in Process
         /\ \A r \in {"ok", "err"} : [q EXCEPT !.res = r] \in Process
         /\ [q EXCEPT !.io = "down", !.loop = "backoff"] \in Process
         /\ [q EXCEPT !.io = "down", !.loop = "done"] \in Process
<1>1. [q EXCEPT !.loop = "done"] \in Process
  BY DEF Process
<1>2. [q EXCEPT !.loop = "done", !.next = Nil, !.res = "none"] \in Process
  BY DEF Process
<1>3. ASSUME NEW b \in Backend PROVE [q EXCEPT !.loop = "init", !.next = b] \in Process
  BY DEF Process
<1>4. ASSUME NEW r \in {"ok", "err"} PROVE [q EXCEPT !.res = r] \in Process
  BY DEF Process
<1>5. [q EXCEPT !.io = "down", !.loop = "backoff"] \in Process
  BY DEF Process
<1>6. [q EXCEPT !.io = "down", !.loop = "done"] \in Process
  BY DEF Process
<1> QED BY <1>1, <1>2, <1>3, <1>4, <1>5, <1>6

LEMMA ConnectionEndsTypes ==
  ASSUME SpawnTypeOK, NEW b \in Backend, ConnectionEnds(b)
  PROVE  backend' \in [Backend -> Process]
<1>1. ASSUME NEW c \in Backend PROVE backend'[c] \in Process
  <2>1. backend[c] \in Process
    BY DEF SpawnTypeOK
  <2>2. CASE c = b
    <3>1. \/ backend'[c] = [backend[c] EXCEPT !.io = "down", !.loop = "backoff"]
          \/ backend'[c] = [backend[c] EXCEPT !.io = "down", !.loop = "done"]
      BY <2>2, Zenon DEF ConnectionEnds
    <3> QED BY <2>1, <3>1, ProcessUpdates, Zenon
  <2>3. CASE /\ c # b /\ backend[c].loop = "init"
             /\ backend[c].next = b /\ backend[c].res = "none"
    <3>1. backend'[c] = [backend[c] EXCEPT !.res = "err"]
      BY <2>3, Zenon DEF ConnectionEnds
    <3> QED BY <2>1, <3>1, ProcessUpdates, Zenon
  <2>4. CASE ~(\/ c = b
               \/ /\ c # b /\ backend[c].loop = "init"
                  /\ backend[c].next = b /\ backend[c].res = "none")
    BY <2>1, <2>4 DEF ConnectionEnds
  <2> QED BY <2>2, <2>3, <2>4
<1>2. backend' = [c \in Backend |-> backend'[c]]
  BY DEF ConnectionEnds
<1> QED BY <1>1, <1>2

(* Nothing the respawn loop does leaves the types. *)
LEMMA SuperviseTypes ==
  ASSUME TypeInv, NEW p \in Backend, Supervise(p)
  PROVE  TypeInv'
<1> USE DEF TypeInv, TypeOK, SpawnTypeOK
<1>1. CASE Respawn(p)
  <2>1. PICK b \in Backend :
          /\ InsertSlot(backend[p].slot, b)
          /\ backend' = [backend EXCEPT
                ![b] = Born(backend[p].slot),
                ![p] = IF initRequest
                       THEN [@ EXCEPT !.loop = "init", !.next = b]
                       ELSE [@ EXCEPT !.loop = "done"]]
          /\ initialized' = IF initRequest THEN initialized \cup {b} ELSE initialized
    BY <1>1 DEF Respawn
  <2>2. Born(backend[p].slot) \in Process
    BY RetriesAssumption DEF Born, Unborn, Process
  <2>3. backend' \in [Backend -> Process]
    <3>1. backend[p] \in Process
      OBVIOUS
    <3>2. /\ [backend[p] EXCEPT !.loop = "init", !.next = b] \in Process
          /\ [backend[p] EXCEPT !.loop = "done"] \in Process
      BY <3>1, ProcessUpdates, Zenon
    <3>3. PICK r \in Process :
            backend' = [backend EXCEPT ![b] = Born(backend[p].slot), ![p] = r]
      BY <2>1, <3>2
    <3>4. \A f \in [Backend -> Process], c, d \in Backend, q, r2 \in Process :
            [f EXCEPT ![c] = q, ![d] = r2] \in [Backend -> Process]
      OBVIOUS
    <3> QED BY <2>2, <3>3, <3>4
  <2>4. slots' \in [Slot -> BackendSlot \cup {Nil}]
    BY <2>1, InsertSlotTypes
  <2> QED BY <1>1, <2>1, <2>3, <2>4
          DEF Respawn, Supervise, PoolTypeOK, Handlers, history
<1>2. CASE RespawnFails(p)
  <2>1. backend' \in [Backend -> Process]
    BY <1>2, NextAttemptType DEF RespawnFails
  <2> QED BY <1>2, <2>1 DEF RespawnFails, Supervise, PoolTypeOK, Handlers, history, poolVars
<1>3. CASE InitAnswered(p)
  <2>1. backend' \in [Backend -> Process]
    <3>1. PICK r \in {"ok", "err"} :
            backend' = [backend EXCEPT ![p] = [backend[p] EXCEPT !.res = r]]
      BY <1>3, Zenon DEF InitAnswered
    <3>2. [backend[p] EXCEPT !.res = r] \in Process
      BY ProcessUpdates, Zenon
    <3> QED BY <3>1, <3>2
  <2> QED BY <1>3, <2>1 DEF InitAnswered, Supervise, PoolTypeOK, Handlers, history, poolVars
<1>4. CASE InitReplayed(p)
  <2>1. backend' \in [Backend -> Process]
    <3>1. PICK q \in Process : backend' = [backend EXCEPT ![p] = q]
      <4>1. backend[p] \in Process
        BY DEF SpawnTypeOK, TypeInv, TypeOK
      <4>2. NextAttempt(backend[p]) \in Process
        BY <4>1, NextAttemptType
      <4>3. [backend[p] EXCEPT !.loop = "done", !.next = Nil, !.res = "none"] \in Process
        BY <4>1, ProcessUpdates, Zenon
      <4> QED BY <1>4, <4>2, <4>3 DEF InitReplayed
    <3> QED BY <3>1 DEF SpawnTypeOK, TypeInv, TypeOK
  <2> QED BY <1>4, <2>1 DEF InitReplayed, Supervise, PoolTypeOK, Handlers, history, poolVars
<1> QED BY <1>1, <1>2, <1>3, <1>4 DEF Supervise

-----------------------------------------------------------------------------
(* Handlers. *)

LEMMA SuspendTypes ==
  ASSUME Handlers, NEW t \in Task, NEW h \in Handler, Shape(h), Suspend(t, h)
  PROVE  Handlers'
BY DEF Handlers, Suspend

LEMMA FinishTypes ==
  ASSUME Handlers, NEW t \in Task, Finish(t)
  PROVE  Handlers'
BY NilFacts DEF Handlers, Finish, NoHandler, Handler, Shape

(* A handler about to acquire a process. *)
Ready(h) ==
  /\ h \in Handler
  /\ h.fe \in Frontend
  /\ h.pc \in {"create", "reload"}
  /\ h.pc = "create" => h.op = "new"
  /\ h.pc = "reload" => h.op \in {"load", "prompt"} /\ h.ext \in Ext /\ h.bsid \in BSid
  /\ h.res = "none"

LEMMA AcquireTypes ==
  ASSUME TypeInv, NEW t \in Task, NEW h, Ready(h), Acquire(t, h)
  PROVE  /\ slots' \in [Slot -> BackendSlot \cup {Nil}]
         /\ backend' \in [Backend -> Process]
         /\ initialized' \subseteq Backend
         /\ Handlers'
<1> USE DEF TypeInv, TypeOK
<1>1. PICK s \in Slot :
        /\ SelectSlot(s)
        /\ \/ /\ Populated(s)
              /\ Suspend(t, [h EXCEPT !.slot = s, !.bk = slots[s].bk])
              /\ UNCHANGED <<slots, backend, initialized>>
           \/ /\ ~Populated(s)
              /\ \E b \in Backend :
                   /\ SpawnDedicated(s, b)
                   /\ Suspend(t, [h EXCEPT !.slot = s, !.bk = b,
                                           !.pc = IF initRequest THEN "init" ELSE @])
  BY DEF Acquire
<1>2. ASSUME NEW b \in Backend, NEW pc \in {h.pc, "init"}
      PROVE  LET g == [h EXCEPT !.slot = s, !.bk = b, !.pc = pc]
             IN  g \in Handler /\ Shape(g)
  BY <1>2 DEF Ready, Handler, Shape
<1>3. CASE Populated(s)
  <2>1. slots[s].bk \in Backend
    BY <1>1, <1>3, SelectedAlive DEF BackendSlot
  <2>2. [h EXCEPT !.slot = s, !.bk = slots[s].bk]
          = [h EXCEPT !.slot = s, !.bk = slots[s].bk, !.pc = h.pc]
    BY DEF Ready, Handler
  <2>3. Handlers'
    BY <1>1, <1>2, <1>3, <2>1, <2>2, SuspendTypes, Zenon
  <2> QED BY <1>1, <1>3, <2>3 DEF PoolTypeOK, SpawnTypeOK
<1>4. CASE ~Populated(s)
  <2>1. PICK b \in Backend :
          /\ SpawnDedicated(s, b)
          /\ Suspend(t, [h EXCEPT !.slot = s, !.bk = b,
                                  !.pc = IF initRequest THEN "init" ELSE h.pc])
    BY <1>1, <1>4 DEF Ready, Handler
  <2>2. (IF initRequest THEN "init" ELSE h.pc) \in {h.pc, "init"}
    OBVIOUS
  <2>3. Handlers'
    BY <1>2, <2>1, <2>2, SuspendTypes, Zenon
  <2>4. slots' \in [Slot -> BackendSlot \cup {Nil}]
    BY <2>1, InsertSlotTypes DEF SpawnDedicated
  <2> QED BY <2>1, <2>3, <2>4, SpawnDedicatedTypes
<1> QED BY <1>3, <1>4

-----------------------------------------------------------------------------
(* One lemma per group of actions; each action names what it changes, and  *)
(* the rest is unchanged.                                                  *)

LEMMA InitTypes == Init => TypeInv
<1> SUFFICES ASSUME Init PROVE TypeInv
  OBVIOUS
<1>1. SpawnTypeOK /\ slots \in [Slot -> BackendSlot \cup {Nil}]
  BY SpawnInitTypes DEF Init
<1>2. PoolTypeOK
  BY <1>1 DEF Init, PoolInit, PoolTypeOK
<1>3. NoHandler \in Handler /\ Shape(NoHandler)
  BY NilFacts DEF NoHandler, Handler, Shape
<1> QED BY <1>1, <1>2, <1>3 DEF Init, TypeInv, TypeOK, Handlers

LEMMA InitializeTypes ==
  ASSUME TypeInv, Initialize
  PROVE  TypeInv'
<1> USE DEF TypeInv, TypeOK
<1>0. Handlers'
  BY DEF Initialize, Handlers
<1>1. slots' \in [Slot -> BackendSlot \cup {Nil}]
  BY InsertSlotTypes DEF Initialize, PoolTypeOK
<1>2. backend' \in [Backend -> Process]
  <2>1. 0 \in Slot
    BY PoolAssumption DEF Slot
  <2> QED BY <2>1, UnbornType DEF Initialize, SpawnTypeOK
<1>3. initialized' \subseteq Backend
  <2>1. \A s \in Slot : Alive(s) => slots[s].bk \in Backend
    BY EntryTypes DEF Alive, BackendSlot
  <2> QED BY <2>1 DEF Initialize, SpawnTypeOK
<1> QED BY <1>0, <1>1, <1>2, <1>3 DEF Initialize, PoolTypeOK, SpawnTypeOK, history

LEMMA NewSessionTypes ==
  ASSUME TypeInv, NEW t \in Task, NEW f \in Frontend, NewSession(t, f)
  PROVE  TypeInv'
<1> DEFINE h == [NoHandler EXCEPT !.pc = "create", !.op = "new", !.fe = f]
<1>1. Ready(h)
  BY DEF Ready, NoHandler, Handler
<1>2. Acquire(t, h)
  BY DEF NewSession
<1> HIDE DEF h
<1> QED BY <1>1, <1>2, AcquireTypes
        DEF NewSession, TypeInv, TypeOK, PoolTypeOK, SpawnTypeOK, Handlers, history

(* What a reload takes and what it leaves when it fails at once. *)
LEMMA TakeForReloadTypes ==
  ASSUME TypeInv, NEW t \in Task, NEW e \in Ext, NEW f \in Frontend,
         NEW op \in {"load", "prompt"},
         TakeForReload(t, [NoHandler EXCEPT !.op = op, !.ext = e, !.fe = f])
  PROVE  /\ slots' \in [Slot -> BackendSlot \cup {Nil}]
         /\ backend' \in [Backend -> Process]
         /\ initialized' \subseteq Backend
         /\ evicted' \in [Ext -> EvictedSession \cup {Nil}]
         /\ Handlers'
<1> DEFINE g == [NoHandler EXCEPT !.op = op, !.ext = e, !.fe = f]
           h == [g EXCEPT !.pc = "reload", !.bsid = evicted[e].bsid]
<1>1. g.ext = e
  BY DEF NoHandler
<1>2. IsEvicted(e) /\ TakeEvicted(e) /\ Acquire(t, h)
  BY <1>1 DEF TakeForReload
<1>3. evicted[e].bsid \in BSid
  BY <1>2, EntryTypes DEF TypeInv, TypeOK, EvictedSession
<1>4. Ready(h)
  BY <1>3 DEF Ready, NoHandler, Handler
<1>5. evicted' \in [Ext -> EvictedSession \cup {Nil}]
  BY <1>2 DEF TakeEvicted, TypeInv, TypeOK, PoolTypeOK
<1> HIDE DEF h
<1> QED BY <1>2, <1>4, <1>5, AcquireTypes

LEMMA LoseOnReloadTypes ==
  ASSUME TypeInv, NEW e \in Ext, LoseOnReload(e)
  PROVE  evicted' \in [Ext -> EvictedSession \cup {Nil}]
BY DEF LoseOnReload, TakeEvicted, TypeInv, TypeOK, PoolTypeOK

LEMMA LoadSessionTypes ==
  ASSUME TypeInv, NEW t \in Task, NEW e \in Ext, NEW f \in Frontend,
         LoadSession(t, e, f)
  PROVE  TypeInv'
<1>1. CASE TakeForReload(t, [NoHandler EXCEPT !.op = "load", !.ext = e, !.fe = f])
  <2>1. /\ slots' \in [Slot -> BackendSlot \cup {Nil}]
        /\ backend' \in [Backend -> Process]
        /\ initialized' \subseteq Backend
        /\ evicted' \in [Ext -> EvictedSession \cup {Nil}]
        /\ Handlers'
    BY <1>1, TakeForReloadTypes, Zenon
  <2>2. UNCHANGED <<sessions, reverse, inFlight, promptSenders,
                    initRequest, stopped, history>>
    BY DEF LoadSession
  <2> QED BY <2>1, <2>2
          DEF TypeInv, TypeOK, PoolTypeOK, SpawnTypeOK, Handlers, history
<1>2. CASE LoseOnReload(e) /\ UNCHANGED <<task, slots, backend, initialized>>
  BY <1>2, LoseOnReloadTypes
     DEF LoadSession, TypeInv, TypeOK, PoolTypeOK, SpawnTypeOK, Handlers, history
<1> QED BY <1>1, <1>2 DEF LoadSession

LEMMA PromptEvictedTypes ==
  ASSUME TypeInv, NEW t \in Task, NEW e \in Ext, NEW f \in Frontend,
         PromptEvicted(t, e, f)
  PROVE  TypeInv'
<1>1. CASE /\ TakeForReload(t, [NoHandler EXCEPT !.op = "prompt", !.ext = e, !.fe = f])
           /\ BeginPrompt(e, f)
  <2>1. inFlight' \subseteq Ext /\ promptSenders' \in [Ext -> Frontend \cup {Nil}]
    BY <1>1 DEF BeginPrompt, TypeInv, TypeOK, PoolTypeOK
  <2>2. /\ slots' \in [Slot -> BackendSlot \cup {Nil}]
        /\ backend' \in [Backend -> Process]
        /\ initialized' \subseteq Backend
        /\ evicted' \in [Ext -> EvictedSession \cup {Nil}]
        /\ Handlers'
    BY <1>1, TakeForReloadTypes, Zenon
  <2>3. UNCHANGED <<sessions, reverse, initRequest, stopped, history>>
    BY DEF PromptEvicted
  <2> QED BY <2>1, <2>2, <2>3
             DEF TypeInv, TypeOK, PoolTypeOK, SpawnTypeOK, Handlers, history
<1>2. CASE /\ LoseOnReload(e)
           /\ UNCHANGED <<task, slots, backend, initialized, inFlight, promptSenders>>
  BY <1>2, LoseOnReloadTypes
     DEF PromptEvicted, TypeInv, TypeOK, PoolTypeOK, SpawnTypeOK, Handlers, history
<1> QED BY <1>1, <1>2 DEF PromptEvicted

LEMMA RecordSenderTypes ==
  ASSUME PoolTypeOK, NEW e \in Ext, NEW f \in Frontend, RecordSender(e, f)
  PROVE  /\ sessions' \in [Ext -> SessionEntry \cup {Nil}]
         /\ evicted' \in [Ext -> EvictedSession \cup {Nil}]
<1>1. sessions' \in [Ext -> SessionEntry \cup {Nil}]
  BY EntryTypes DEF RecordSender, PoolTypeOK, SessionEntry
<1>2. evicted' \in [Ext -> EvictedSession \cup {Nil}]
  BY EntryTypes DEF RecordSender, PoolTypeOK, EvictedSession
<1> QED BY <1>1, <1>2

(* A session that resolves leads to a slot and the process in it. *)
LEMMA ResolvedTypes ==
  ASSUME PoolTypeOK, NEW e \in Ext, Resolves(e)
  PROVE  /\ sessions[e] \in SessionEntry
         /\ sessions[e].slot \in Slot
         /\ slots[sessions[e].slot] \in BackendSlot
         /\ slots[sessions[e].slot].bk \in Backend
BY EntryTypes DEF Resolves, Alive, SessionEntry, BackendSlot

LEMMA PromptActiveTypes ==
  ASSUME TypeInv, NEW t \in Task, NEW e \in Ext, NEW f \in Frontend,
         PromptActive(t, e, f)
  PROVE  TypeInv'
<1> DEFINE h == [NoHandler EXCEPT !.pc = "prompt", !.op = "prompt", !.ext = e,
                                  !.fe = f, !.slot = sessions[e].slot,
                                  !.bk = slots[sessions[e].slot].bk]
<1>1. PoolTypeOK /\ Resolves(e)
  BY DEF TypeInv, TypeOK, PromptActive
<1>2. h \in Handler /\ Shape(h)
  BY <1>1, ResolvedTypes DEF NoHandler, Handler, Shape
<1>3. Suspend(t, h)
  BY DEF PromptActive
<1> HIDE DEF h
<1>4. Handlers'
  BY <1>2, <1>3, SuspendTypes DEF TypeInv
<1>5. sessions' \in [Ext -> SessionEntry \cup {Nil}]
  <2>1. \A r \in SessionEntry : [r EXCEPT !.sender = f, !.idle = FALSE] \in SessionEntry
    BY DEF SessionEntry
  <2>2. [sessions[e] EXCEPT !.sender = f, !.idle = FALSE] \in SessionEntry
    BY <1>1, <2>1, ResolvedTypes, Zenon
  <2>3. PICK r \in SessionEntry : sessions' = [sessions EXCEPT ![e] = r]
    BY <2>2 DEF PromptActive, StampSession
  <2> QED BY <1>1, <2>3 DEF PoolTypeOK
<1> QED BY <1>4, <1>5
        DEF PromptActive, BeginPrompt, TypeInv, TypeOK, PoolTypeOK, SpawnTypeOK, Handlers,
            spawnVars, history

LEMMA CallOnSessionTypes ==
  ASSUME TypeInv, NEW t \in Task, NEW e \in Ext, NEW f \in Frontend,
         NEW op \in {"fork", "close"}, CallOnSession(t, e, f, op)
  PROVE  TypeInv'
<1> DEFINE h == [NoHandler EXCEPT !.pc = op, !.op = op, !.ext = e, !.fe = f,
                                  !.slot = sessions[e].slot,
                                  !.bk = slots[sessions[e].slot].bk]
<1>1. PoolTypeOK /\ Resolves(e)
  BY DEF TypeInv, TypeOK, CallOnSession
<1>2. h \in Handler /\ Shape(h)
  BY <1>1, ResolvedTypes DEF NoHandler, Handler, Shape
<1>3. Suspend(t, h)
  BY DEF CallOnSession
<1> HIDE DEF h
<1>4. Handlers'
  BY <1>2, <1>3, SuspendTypes DEF TypeInv
<1> QED BY <1>1, <1>4, RecordSenderTypes
        DEF CallOnSession, TypeInv, TypeOK, PoolTypeOK, SpawnTypeOK, Handlers, spawnVars, history

LEMMA RelayTypes ==
  ASSUME TypeInv, NEW e \in Ext, NEW f \in Frontend, Relay(e, f)
  PROVE  TypeInv'
BY RecordSenderTypes
   DEF Relay, TypeInv, TypeOK, PoolTypeOK, SpawnTypeOK, Handlers, spawnVars, history

LEMMA RequestTypes ==
  ASSUME TypeInv, NEW t \in Task, Request(t)
  PROVE  TypeInv'
BY NewSessionTypes, LoadSessionTypes, PromptActiveTypes, PromptEvictedTypes,
   CallOnSessionTypes DEF Request, ForkSession, CloseSession

LEMMA ReplyTypes ==
  ASSUME TypeInv, NEW t \in Task, Reply(t)
  PROVE  TypeInv'
<1>1. task[t] \in Handler /\ Shape(task[t])
  BY DEF TypeInv, Handlers
<1>2. Handlers'
  <2>1. CASE Suspend(t, [task[t] EXCEPT !.res = "err"])
    <3>1. LET h == [task[t] EXCEPT !.res = "err"] IN h \in Handler /\ Shape(h)
      BY <1>1 DEF Handler, Shape
    <3> QED BY <2>1, <3>1, SuspendTypes DEF TypeInv
  <2>2. CASE /\ task[t].pc \notin {"create", "fork"}
             /\ Suspend(t, [task[t] EXCEPT !.res = "ok"])
    <3>1. LET h == [task[t] EXCEPT !.res = "ok"] IN h \in Handler /\ Shape(h)
      BY <1>1, <2>2 DEF Handler, Shape
    <3> QED BY <2>2, <3>1, SuspendTypes DEF TypeInv
  <2>3. CASE /\ task[t].pc \in {"create", "fork"}
             /\ \E b \in BSid : /\ FreshBSid(b)
                                /\ Suspend(t, [task[t] EXCEPT !.res = "ok", !.bsid = b])
    <3>1. PICK b \in BSid : Suspend(t, [task[t] EXCEPT !.res = "ok", !.bsid = b])
      BY <2>3
    <3>2. LET h == [task[t] EXCEPT !.res = "ok", !.bsid = b] IN h \in Handler /\ Shape(h)
      <4>1. ASSUME NEW g \in Handler, NEW c \in BSid, Shape(g), g.pc \in {"create", "fork"}
            PROVE  /\ [g EXCEPT !.res = "ok", !.bsid = c] \in Handler
                   /\ Shape([g EXCEPT !.res = "ok", !.bsid = c])
        BY <4>1 DEF Handler, Shape
      <4> QED BY <1>1, <2>3, <4>1, Zenon
    <3> QED BY <3>1, <3>2, SuspendTypes DEF TypeInv
  <2> QED BY <2>1, <2>2, <2>3 DEF Reply
<1> QED BY <1>2 DEF Reply, TypeInv, TypeOK, PoolTypeOK, SpawnTypeOK, Handlers,
                    poolVars, spawnVars, history

(* A prompt that returns drops its guard. *)
LEMMA ReturnTypes ==
  ASSUME TypeInv, NEW t \in Task, Return(t)
  PROVE  /\ Handlers'
         /\ inFlight' \subseteq Ext
         /\ promptSenders' \in [Ext -> Frontend \cup {Nil}]
<1>1. Handlers'
  BY FinishTypes DEF Return, TypeInv
<1> QED BY <1>1 DEF Return, EndPrompt, TypeInv, TypeOK, PoolTypeOK

LEMMA AfterInitTypes ==
  ASSUME TypeInv, NEW t \in Task, AfterInit(t)
  PROVE  TypeInv'
<1> DEFINE h == [task[t] EXCEPT
                  !.pc = IF task[t].op = "new" THEN "create" ELSE "reload",
                  !.bk = slots[task[t].slot].bk, !.res = "none"]
<1>1. Handlers' /\ inFlight' \subseteq Ext
        /\ promptSenders' \in [Ext -> Frontend \cup {Nil}]
  <2>1. CASE task[t].res = "ok" /\ Alive(task[t].slot)
    <3>1. task[t] \in Handler /\ Shape(task[t]) /\ task[t].pc = "init"
      BY DEF TypeInv, Handlers, AfterInit, Polled
    <3>2. slots[task[t].slot].bk \in Backend
      BY <2>1, <3>1, EntryTypes DEF TypeInv, TypeOK, Shape, Alive, BackendSlot
    <3>3. h \in Handler /\ Shape(h)
      <4>1. ASSUME NEW g \in Handler, NEW b \in Backend, NEW pc \in {"create", "reload"},
                   Shape(g), g.pc = "init",
                   pc = IF g.op = "new" THEN "create" ELSE "reload"
            PROVE  /\ [g EXCEPT !.pc = pc, !.bk = b, !.res = "none"] \in Handler
                   /\ Shape([g EXCEPT !.pc = pc, !.bk = b, !.res = "none"])
        BY <4>1 DEF Handler, Shape
      <4> QED BY <3>1, <3>2, <4>1, Zenon
    <3>4. Suspend(t, h) /\ UNCHANGED <<inFlight, promptSenders>>
      BY <2>1 DEF AfterInit
    <3> QED BY <3>3, <3>4, SuspendTypes DEF TypeInv, TypeOK, PoolTypeOK
  <2>2. CASE ~(task[t].res = "ok" /\ Alive(task[t].slot))
    BY <2>2, ReturnTypes DEF AfterInit
  <2> QED BY <2>1, <2>2
<1> QED BY <1>1 DEF AfterInit, TypeInv, TypeOK, PoolTypeOK, SpawnTypeOK, Handlers,
                    spawnVars, history

LEMMA AfterCreateTypes ==
  ASSUME TypeInv, NEW t \in Task, AfterCreate(t)
  PROVE  TypeInv'
<1>1. Handlers'
  BY FinishTypes DEF AfterCreate, TypeInv
<1>2. CASE task[t].res = "ok" /\ \E e \in Ext :
             /\ RegisterSession(e, task[t].bsid, task[t].slot, task[t].fe)
             /\ issued' = [issued EXCEPT ![e] = task[t].bsid]
             /\ owner' = [owner EXCEPT ![e] = task[t].bk]
  <2>1. task[t].fe \in Frontend /\ task[t].slot \in Slot
          /\ task[t].bk \in Backend /\ task[t].bsid \in BSid
    BY <1>2 DEF AfterCreate, Polled, TypeInv, Handlers, Shape
  <2>2. PICK e \in Ext :
             /\ RegisterSession(e, task[t].bsid, task[t].slot, task[t].fe)
             /\ issued' = [issued EXCEPT ![e] = task[t].bsid]
             /\ owner' = [owner EXCEPT ![e] = task[t].bk]
    BY <1>2
  <2>3. /\ slots' \in [Slot -> BackendSlot \cup {Nil}]
        /\ sessions' \in [Ext -> SessionEntry \cup {Nil}]
        /\ reverse' \in [BSid -> Ext \cup {Nil}]
    BY <2>1, <2>2, RegisterSessionTypes DEF TypeInv, TypeOK
  <2> QED BY <1>1, <2>1, <2>2, <2>3
             DEF AfterCreate, TypeInv, TypeOK, PoolTypeOK, SpawnTypeOK, Handlers, spawnVars
<1>3. CASE UNCHANGED <<sessions, reverse, slots, history>>
  BY <1>1, <1>3 DEF AfterCreate, TypeInv, TypeOK, PoolTypeOK, SpawnTypeOK, Handlers,
                    spawnVars, history
<1> QED BY <1>2, <1>3 DEF AfterCreate

LEMMA AfterReloadTypes ==
  ASSUME TypeInv, NEW t \in Task, AfterReload(t)
  PROVE  TypeInv'
<1>1. /\ task[t] \in Handler /\ Shape(task[t])
      /\ task[t].fe \in Frontend /\ task[t].slot \in Slot /\ task[t].bk \in Backend
      /\ task[t].bsid \in BSid /\ task[t].ext \in Ext
      /\ task[t].op \in {"load", "prompt"}
  BY DEF AfterReload, Polled, TypeInv, Handlers, Shape
<1>2. CASE task[t].res = "ok"
  <2>1. /\ RegisterSession(task[t].ext, task[t].bsid, task[t].slot, task[t].fe)
        /\ owner' = [owner EXCEPT ![task[t].ext] = task[t].bk]
    BY <1>2 DEF AfterReload
  <2>2. /\ slots' \in [Slot -> BackendSlot \cup {Nil}]
        /\ sessions' \in [Ext -> SessionEntry \cup {Nil}]
        /\ reverse' \in [BSid -> Ext \cup {Nil}]
    BY <1>1, <2>1, RegisterSessionTypes DEF TypeInv, TypeOK
  <2>3. /\ Handlers'
        /\ inFlight' \subseteq Ext
        /\ promptSenders' \in [Ext -> Frontend \cup {Nil}]
    <3>1. CASE Return(t)
      BY <3>1, ReturnTypes
    <3>2. CASE ~Return(t)
      <4>1. PICK b \in Reaches(task[t].slot, task[t].bk) :
              /\ b # Nil
              /\ Suspend(t, [task[t] EXCEPT !.pc = "prompt", !.bk = b,
                                            !.bsid = Nil, !.res = "none"])
              /\ UNCHANGED <<inFlight, promptSenders>>
              /\ task[t].op = "prompt"
        BY <1>2, <3>2 DEF AfterReload
      <4>2. b \in Backend
        BY <4>1, <1>1, EntryTypes DEF Reaches, TypeInv, TypeOK, BackendSlot
      <4>3. LET h == [task[t] EXCEPT !.pc = "prompt", !.bk = b,
                                     !.bsid = Nil, !.res = "none"]
            IN  h \in Handler /\ Shape(h)
        BY <1>1, <4>1, <4>2 DEF Handler, Shape
      <4> QED BY <4>1, <4>3, SuspendTypes DEF TypeInv, TypeOK, PoolTypeOK
    <3> QED BY <3>1, <3>2
  <2> QED BY <1>1, <2>1, <2>2, <2>3
             DEF AfterReload, TypeInv, TypeOK, PoolTypeOK, SpawnTypeOK, Handlers, spawnVars
<1>3. CASE task[t].res # "ok"
  <2>1. Return(t) /\ UNCHANGED <<sessions, reverse, slots, owner>>
    BY <1>3 DEF AfterReload
  <2> QED BY <2>1, ReturnTypes
             DEF AfterReload, TypeInv, TypeOK, PoolTypeOK, SpawnTypeOK, Handlers, spawnVars
<1> QED BY <1>2, <1>3

LEMMA AfterPromptTypes ==
  ASSUME TypeInv, NEW t \in Task, AfterPrompt(t)
  PROVE  TypeInv'
BY ReturnTypes DEF AfterPrompt, TypeInv, TypeOK, PoolTypeOK, SpawnTypeOK, Handlers,
                   spawnVars, history

LEMMA AfterCloseTypes ==
  ASSUME TypeInv, NEW t \in Task, AfterClose(t)
  PROVE  TypeInv'
<1>1. Handlers' /\ task[t].ext \in Ext
  BY FinishTypes DEF AfterClose, Polled, TypeInv, Handlers, Shape
<1>2. PoolTypeOK'
  <2>1. CASE task[t].res = "ok"
    BY <1>1, <2>1, RemoveSessionTypes DEF AfterClose, TypeInv, TypeOK
  <2>2. CASE task[t].res # "ok"
    BY <2>2 DEF AfterClose, TypeInv, TypeOK, PoolTypeOK
  <2> QED BY <2>1, <2>2
<1> QED BY <1>1, <1>2 DEF AfterClose, TypeInv, TypeOK, SpawnTypeOK, Handlers,
                          spawnVars, history

LEMMA BackendEndsTypes ==
  ASSUME TypeInv, NEW b \in Backend, BackendEnds(b)
  PROVE  TypeInv'
<1>1. PoolTypeOK'
  BY HandleBackendDeathTypes DEF BackendEnds, TypeInv, TypeOK
<1>2. backend' \in [Backend -> Process]
  BY ConnectionEndsTypes DEF BackendEnds, TypeInv, TypeOK
<1>3. Handlers'
  <2>1. ASSUME NEW t \in Task PROVE task'[t] \in Handler /\ Shape(task'[t])
    <3>1. task[t] \in Handler /\ Shape(task[t])
      BY DEF TypeInv, Handlers
    <3>2. [task[t] EXCEPT !.res = "err"] \in Handler
            /\ Shape([task[t] EXCEPT !.res = "err"])
      BY <3>1 DEF Handler, Shape
    <3> QED BY <3>1, <3>2 DEF BackendEnds
  <2>2. task' = [t \in Task |-> task'[t]]
    BY DEF BackendEnds
  <2> QED BY <2>1, <2>2 DEF Handlers
<1> QED BY <1>1, <1>2, <1>3 DEF BackendEnds, TypeInv, TypeOK, SpawnTypeOK, Handlers, history

LEMMA GrowIdleTypes ==
  ASSUME TypeInv, NEW e \in Ext, GrowIdle(e)
  PROVE  TypeInv'
<1>1. sessions' \in [Ext -> SessionEntry \cup {Nil}]
  <2>1. \A r \in SessionEntry : [r EXCEPT !.idle = TRUE] \in SessionEntry
    BY DEF SessionEntry
  <2>2. sessions[e] \in SessionEntry
    BY EntryTypes DEF GrowIdle, TypeInv, TypeOK
  <2>3. PICK r \in SessionEntry : sessions' = [sessions EXCEPT ![e] = r]
    BY <2>1, <2>2, Zenon DEF GrowIdle
  <2> QED BY <2>3 DEF TypeInv, TypeOK, PoolTypeOK
<1> QED BY <1>1 DEF GrowIdle, TypeInv, TypeOK, PoolTypeOK, SpawnTypeOK, Handlers,
                    spawnVars, history

LEMMA MaintenanceTickTypes ==
  ASSUME TypeInv, MaintenanceTick
  PROVE  TypeInv'
<1>1. IdleSessions \in SUBSET {e \in Ext : Active(e)}
  BY DEF IdleSessions
<1>2. PoolTypeOK'
  BY <1>1, EvictAndPurgeTypes DEF MaintenanceTick, TypeInv, TypeOK
<1> QED BY <1>2 DEF MaintenanceTick, TypeInv, TypeOK, SpawnTypeOK, Handlers,
                    spawnVars, history

LEMMA ShutdownTypes ==
  ASSUME TypeInv, Shutdown
  PROVE  TypeInv'
BY MarkAllDeadTypes DEF Shutdown, TypeInv, TypeOK, PoolTypeOK, SpawnTypeOK, Handlers,
                        spawnVars, history

LEMMA StutterTypes ==
  ASSUME TypeInv, UNCHANGED vars
  PROVE  TypeInv'
BY DEF vars, poolVars, spawnVars, history, TypeInv, TypeOK, PoolTypeOK, SpawnTypeOK,
       Handlers

LEMMA NextTypes == TypeInv /\ [Next]_vars => TypeInv'
<1> SUFFICES ASSUME TypeInv, [Next]_vars PROVE TypeInv'
  OBVIOUS
<1>1. CASE Initialize
  BY <1>1, InitializeTypes
<1>2. CASE \E t \in Task : Request(t)
  BY <1>2, RequestTypes
<1>3. CASE \E t \in Task : Reply(t)
  BY <1>3, ReplyTypes
<1>4. CASE \E t \in Task : Resume(t)
  BY <1>4, AfterInitTypes, AfterCreateTypes, AfterReloadTypes, AfterPromptTypes,
     AfterCloseTypes DEF Resume
<1>5. CASE \E e \in Ext, f \in Frontend : Relay(e, f)
  BY <1>5, RelayTypes
<1>6. CASE \E b \in Backend : BackendEnds(b)
  BY <1>6, BackendEndsTypes
<1>7. CASE \E b \in Backend : Supervise(b)
  BY <1>7, SuperviseTypes
<1>8. CASE \E e \in Ext : GrowIdle(e)
  BY <1>8, GrowIdleTypes
<1>9. CASE MaintenanceTick
  BY <1>9, MaintenanceTickTypes
<1>10. CASE Shutdown
  BY <1>10, ShutdownTypes
<1>11. CASE UNCHANGED vars
  BY <1>11, StutterTypes
<1> QED BY <1>1, <1>2, <1>3, <1>4, <1>5, <1>6, <1>7, <1>8, <1>9, <1>10, <1>11 DEF Next

-----------------------------------------------------------------------------
(* What whole groups of steps leave alone, one step per action.            *)

(* The respawn loop touches slots and processes only. *)
LEMMA SuperviseFrame ==
  ASSUME NEW b \in Backend, Supervise(b)
  PROVE  UNCHANGED <<sessions, reverse, evicted, inFlight, promptSenders,
                     initRequest, task, stopped, history>>
<1>1. UNCHANGED <<task, stopped, history>>
  BY DEF Supervise
<1>2. CASE Respawn(b)
  BY <1>1, <1>2 DEF Respawn
<1>3. CASE RespawnFails(b)
  BY <1>1, <1>3 DEF RespawnFails, poolVars
<1>4. CASE InitAnswered(b)
  BY <1>1, <1>4 DEF InitAnswered, poolVars
<1>5. CASE InitReplayed(b)
  BY <1>1, <1>5 DEF InitReplayed, poolVars
<1> QED BY <1>2, <1>3, <1>4, <1>5 DEF Supervise

(* Neither do initialize, shutdown and the respawn loop touch a session    *)
(* or a handler.                                                           *)
LEMMA BackendStepsFrame ==
  ASSUME Initialize \/ (\E b \in Backend : Supervise(b)) \/ Shutdown \/ UNCHANGED vars
  PROVE  UNCHANGED <<sessions, reverse, evicted, inFlight, promptSenders, task, history>>
<1>1. CASE Initialize
  BY <1>1 DEF Initialize
<1>2. CASE \E b \in Backend : Supervise(b)
  BY <1>2, SuperviseFrame
<1>3. CASE Shutdown
  BY <1>3 DEF Shutdown
<1>4. CASE UNCHANGED vars
  BY <1>4 DEF vars, poolVars
<1> QED BY <1>1, <1>2, <1>3, <1>4

(* Every handler holds, at every await, the fields its next step uses.     *)
LEMMA TypeInvariant == Spec => []TypeInv
BY InitTypes, NextTypes, PTL DEF Spec

(* The pool, the processes and the handlers are well typed in every        *)
(* reachable state: in particular no sequence of registrations, removals,  *)
(* evictions and deaths takes a session count below zero, and no handler   *)
(* resumes with a field unset that it writes into the pool.                *)
THEOREM TypeCorrect == Spec => []TypeOK
BY TypeInvariant, PTL DEF TypeInv

=============================================================================
