--------------------------- MODULE GatewayDirectory ---------------------------
(***************************************************************************)
(* The session directory of the gateway is never confused: its reverse map *)
(* is the inverse of its session map, a session is in one place at a time, *)
(* and it keeps the backend session it was issued for.                     *)
(*                                                                         *)
(* None of the three is inductive alone.  A registration keeps the maps    *)
(* inverse only if the id it registers is not mapped (OnePlace) and its    *)
(* backend sid belongs to no other session, which for a reload follows     *)
(* from BackendSidStable and the issued sids being distinct, and for a     *)
(* creation from the agent's answer being fresh until it is registered.    *)
(***************************************************************************)
EXTENDS GatewayTypes

(* A handler that was answered with a new backend session. *)
Minting(t) == task[t].pc \in {"create", "fork"} /\ task[t].res = "ok"

IssuedOnce ==
  \A d, e \in Ext : issued[d] # Nil /\ issued[d] = issued[e] => d = e

MintedFresh ==
  \A t \in Task : Minting(t) =>
    /\ \A e \in Ext : issued[e] # task[t].bsid
    /\ \A u \in Task : Minting(u) /\ task[u].bsid = task[t].bsid => u = t

DirectoryInv ==
  /\ DirectoryConsistent
  /\ OnePlace
  /\ BackendSidStable
  /\ IssuedOnce
  /\ MintedFresh

-----------------------------------------------------------------------------
(* How each kind of step acts on the directory, with the handlers' part    *)
(* stated apart: which of them still carry a reloading entry or an answer. *)

(* Steps that start no reload and no answered creation. *)
TasksKept ==
  \A t \in Task :
    /\ \A e \in Ext : Reloads(t, e)' => Reloads(t, e) /\ task'[t].bsid = task[t].bsid
    /\ Minting(t)' => Minting(t) /\ task'[t].bsid = task[t].bsid

(* Steps that leave the maps alone but for senders and idleness. *)
MapsKept ==
  /\ reverse' = reverse
  /\ issued' = issued
  /\ \A e \in Ext :
       /\ Active(e)' <=> Active(e)
       /\ Active(e) => sessions'[e].bsid = sessions[e].bsid
       /\ IsEvicted(e)' <=> IsEvicted(e)
       /\ IsEvicted(e) => evicted'[e].bsid = evicted[e].bsid

LEMMA KeepDirectory ==
  ASSUME DirectoryInv, TasksKept, MapsKept
  PROVE  DirectoryInv'
<1>1. DirectoryConsistent'
  BY DEF DirectoryInv, DirectoryConsistent, MapsKept
<1>2. OnePlace'
  BY DEF DirectoryInv, OnePlace, MapsKept, TasksKept
<1>3. BackendSidStable'
  BY DEF DirectoryInv, BackendSidStable, MapsKept, TasksKept
<1>4. IssuedOnce'
  BY DEF DirectoryInv, IssuedOnce, MapsKept
<1>5. MintedFresh'
  BY DEF DirectoryInv, MintedFresh, MapsKept, TasksKept
<1> QED BY <1>1, <1>2, <1>3, <1>4, <1>5 DEF DirectoryInv

(* Sessions S move to the evicted table, some entries of which are purged. *)
LEMMA UnloadDirectory ==
  ASSUME TypeInv, DirectoryInv, TasksKept,
         NEW S \in SUBSET {e \in Ext : Active(e)}, Unmap(S), UNCHANGED issued,
         \A e \in Ext : evicted'[e] \in {Nil, WithEvicted(S)[e]}
  PROVE  DirectoryInv'
<1>1. ASSUME NEW e \in Ext
      PROVE  /\ Active(e)' <=> Active(e) /\ e \notin S
             /\ Active(e)' => sessions'[e] = sessions[e]
             /\ IsEvicted(e)' => \/ e \in S /\ evicted'[e].bsid = sessions[e].bsid
                                 \/ e \notin S /\ IsEvicted(e) /\ evicted'[e] = evicted[e]
  BY DEF Unmap, Active, IsEvicted, WithEvicted
<1>2. DirectoryConsistent'
  <2>1. ASSUME NEW e \in Ext, NEW b \in BSid
        PROVE  reverse'[b] = e <=> Active(e)' /\ sessions'[e].bsid = b
    <3>1. reverse'[b] = IF \E d \in S : sessions[d].bsid = b THEN Nil ELSE reverse[b]
      BY DEF Unmap
    <3>2. reverse[b] = e <=> Active(e) /\ sessions[e].bsid = b
      BY DEF DirectoryInv, DirectoryConsistent
    <3>3. \A d \in S : sessions[d].bsid = b => reverse[b] = d
      BY DEF DirectoryInv, DirectoryConsistent
    <3> QED BY <1>1, <3>1, <3>2, <3>3, NilFacts
  <2> QED BY <2>1 DEF DirectoryConsistent
<1>3. OnePlace'
  BY <1>1 DEF DirectoryInv, OnePlace, TasksKept
<1>4. BackendSidStable'
  BY <1>1 DEF DirectoryInv, BackendSidStable, TasksKept
<1>5. IssuedOnce' /\ MintedFresh'
  BY DEF DirectoryInv, IssuedOnce, MintedFresh, TasksKept
<1> QED BY <1>2, <1>3, <1>4, <1>5 DEF DirectoryInv

(* A session leaves the map for good. *)
LEMMA RemoveDirectory ==
  ASSUME TypeInv, DirectoryInv, TasksKept, NEW e \in Ext, RemoveSession(e),
         UNCHANGED <<evicted, issued>>
  PROVE  DirectoryInv'
<1>1. CASE Active(e)
  <2>1. Unmap({e})
    BY <1>1 DEF RemoveSession
  <2>2. ASSUME NEW d \in Ext
        PROVE  /\ Active(d)' <=> Active(d) /\ d # e
               /\ Active(d)' => sessions'[d] = sessions[d]
    BY <2>1 DEF Unmap, Active
  <2>3. DirectoryConsistent'
    <3>1. ASSUME NEW d \in Ext, NEW b \in BSid
          PROVE  reverse'[b] = d <=> Active(d)' /\ sessions'[d].bsid = b
      <4>1. reverse'[b] = IF sessions[e].bsid = b THEN Nil ELSE reverse[b]
        BY <2>1 DEF Unmap
      <4>2. \A c \in Ext : reverse[b] = c <=> Active(c) /\ sessions[c].bsid = b
        BY DEF DirectoryInv, DirectoryConsistent
      <4> QED BY <1>1, <2>2, <4>1, <4>2, NilFacts
    <3> QED BY <3>1 DEF DirectoryConsistent
  <2>4. OnePlace' /\ BackendSidStable'
    BY <2>2 DEF DirectoryInv, OnePlace, BackendSidStable, TasksKept, IsEvicted
  <2>5. IssuedOnce' /\ MintedFresh'
    BY DEF DirectoryInv, IssuedOnce, MintedFresh, TasksKept
  <2> QED BY <2>3, <2>4, <2>5 DEF DirectoryInv
<1>2. CASE ~Active(e)
  BY <1>2, KeepDirectory DEF RemoveSession, MapsKept, Active, IsEvicted
<1> QED BY <1>1, <1>2

(* A session that no map holds is registered under a backend sid that is   *)
(* its own. *)
LEMMA RegisterDirectory ==
  ASSUME TypeInv, DirectoryInv, NEW e \in Ext, NEW b \in BSid, NEW s \in Slot,
         NEW f \in Frontend, RegisterSession(e, b, s, f), UNCHANGED evicted,
         ~Active(e), ~IsEvicted(e),
         issued'[e] = b, \A d \in Ext : d # e => issued'[d] = issued[d],
         \A d \in Ext : d # e => issued[d] # b
  PROVE  /\ DirectoryConsistent'
         /\ \A d \in Ext :
              /\ ~(Active(d) /\ IsEvicted(d))'
              /\ Active(d)' => (sessions[d].bsid = issued[d])'
              /\ IsEvicted(d)' => (evicted[d].bsid = issued[d])'
              /\ Active(d)' <=> Active(d) \/ d = e
              /\ IsEvicted(d)' <=> IsEvicted(d)
         /\ IssuedOnce'
<1> DEFINE entry == [slot |-> s, bsid |-> b, sender |-> f, idle |-> FALSE]
<1>0. entry # Nil /\ entry.bsid = b
  <2>1. entry \in SessionEntry
    BY DEF SessionEntry
  <2> QED BY <2>1, NilFacts
<1>1. ASSUME NEW d \in Ext
      PROVE  /\ Active(d)' <=> Active(d) \/ d = e
             /\ d # e => sessions'[d] = sessions[d]
             /\ sessions'[e].bsid = b
             /\ IsEvicted(d)' <=> IsEvicted(d)
  BY <1>0 DEF RegisterSession, Active, IsEvicted, TypeInv, TypeOK, PoolTypeOK
<1>2. DirectoryConsistent'
  <2>1. ASSUME NEW d \in Ext, NEW c \in BSid
        PROVE  reverse'[c] = d <=> Active(d)' /\ sessions'[d].bsid = c
    <3>1. reverse'[c] = IF c = b THEN e ELSE reverse[c]
      BY DEF RegisterSession, TypeInv, TypeOK, PoolTypeOK
    <3>2. reverse[c] = d <=> Active(d) /\ sessions[d].bsid = c
      BY DEF DirectoryInv, DirectoryConsistent
    <3>3. Active(d) => sessions[d].bsid = issued[d]
      BY DEF DirectoryInv, BackendSidStable
    <3> QED BY <1>1, <3>1, <3>2, <3>3
  <2> QED BY <2>1 DEF DirectoryConsistent
<1>3. IssuedOnce'
  BY DEF DirectoryInv, IssuedOnce
<1> QED BY <1>1, <1>2, <1>3 DEF DirectoryInv, OnePlace, BackendSidStable

-----------------------------------------------------------------------------
(* The actions. *)

LEMMA InitDirectory == Init => DirectoryInv
<1> SUFFICES ASSUME Init PROVE DirectoryInv
  OBVIOUS
<1>1. \A e \in Ext : ~Active(e) /\ ~IsEvicted(e) /\ issued[e] = Nil
  BY DEF Init, PoolInit, Active, IsEvicted
<1>2. \A t \in Task : ~Minting(t) /\ \A e \in Ext : ~Reloads(t, e)
  BY DEF Init, NoHandler, Minting, Reloads
<1>3. \A b \in BSid : reverse[b] = Nil
  BY DEF Init, PoolInit
<1> QED BY <1>1, <1>2, <1>3, NilFacts
        DEF DirectoryInv, DirectoryConsistent, OnePlace, BackendSidStable, IssuedOnce,
            MintedFresh

(* A handler suspended at a call of its own, or finished, carries neither. *)
LEMMA SuspendKeepsTasks ==
  ASSUME TypeInv, NEW t \in Task, NEW h \in Handler, Suspend(t, h),
         ~(h.pc \in {"create", "fork"} /\ h.res = "ok"),
         h.op \in {"load", "prompt"} /\ h.pc \in {"init", "reload"} =>
           Reloads(t, h.ext) /\ h.bsid = task[t].bsid
  PROVE  TasksKept
BY DEF TasksKept, Suspend, Reloads, Minting, TypeInv, Handlers

LEMMA FinishKeepsTasks ==
  ASSUME TypeInv, NEW t \in Task, Finish(t)
  PROVE  TasksKept
BY DEF TasksKept, Finish, NoHandler, Reloads, Minting, TypeInv, Handlers

LEMMA SameTasksKept ==
  ASSUME UNCHANGED task PROVE TasksKept
BY DEF TasksKept, Reloads, Minting

(* Acquiring a process for h. *)
LEMMA AcquireSuspends ==
  ASSUME TypeInv, NEW t \in Task, NEW h, Ready(h), Acquire(t, h)
  PROVE  \E g \in Handler :
           /\ Suspend(t, g)
           /\ g.pc \in {"init", h.pc} /\ g.op = h.op /\ g.ext = h.ext
           /\ g.bsid = h.bsid /\ g.fe = h.fe /\ g.res = "none"
<1>1. PICK s \in Slot :
        /\ SelectSlot(s)
        /\ \/ /\ Populated(s)
              /\ Suspend(t, [h EXCEPT !.slot = s, !.bk = slots[s].bk])
           \/ /\ ~Populated(s)
              /\ \E b \in Backend :
                   /\ SpawnDedicated(s, b)
                   /\ Suspend(t, [h EXCEPT !.slot = s, !.bk = b,
                                           !.pc = IF initRequest THEN "init" ELSE @])
  BY DEF Acquire
<1>2. CASE Populated(s) /\ Suspend(t, [h EXCEPT !.slot = s, !.bk = slots[s].bk])
  <2>1. slots[s].bk \in Backend
    BY <1>1, <1>2, SelectedAlive DEF TypeInv, TypeOK, BackendSlot
  <2>2. LET g == [h EXCEPT !.slot = s, !.bk = slots[s].bk] IN
          /\ g \in Handler
          /\ g.pc \in {"init", h.pc} /\ g.op = h.op /\ g.ext = h.ext
          /\ g.bsid = h.bsid /\ g.fe = h.fe /\ g.res = "none"
    BY <2>1 DEF Ready, Handler
  <2> QED BY <1>2, <2>2
<1>3. CASE \E b \in Backend : Suspend(t, [h EXCEPT !.slot = s, !.bk = b,
                                    !.pc = IF initRequest THEN "init" ELSE @])
  <2>1. PICK b \in Backend : Suspend(t, [h EXCEPT !.slot = s, !.bk = b,
                                    !.pc = IF initRequest THEN "init" ELSE @])
    BY <1>3
  <2>2. LET g == [h EXCEPT !.slot = s, !.bk = b,
                           !.pc = IF initRequest THEN "init" ELSE @] IN
          /\ g \in Handler
          /\ g.pc \in {"init", h.pc} /\ g.op = h.op /\ g.ext = h.ext
          /\ g.bsid = h.bsid /\ g.fe = h.fe /\ g.res = "none"
    BY <1>1 DEF Ready, Handler
  <2> QED BY <2>1, <2>2
<1> QED BY <1>1, <1>2, <1>3

LEMMA NewSessionDirectory ==
  ASSUME TypeInv, DirectoryInv, NEW t \in Task, NEW f \in Frontend, NewSession(t, f)
  PROVE  DirectoryInv'
<1> DEFINE h == [NoHandler EXCEPT !.pc = "create", !.op = "new", !.fe = f]
<1>1. Ready(h) /\ h.op = "new" /\ h.pc = "create" /\ h.res = "none"
  BY DEF Ready, NoHandler, Handler
<1>2. Acquire(t, h)
  BY DEF NewSession
<1> HIDE DEF h
<1>3. TasksKept
  BY <1>1, <1>2, AcquireSuspends, SuspendKeepsTasks
<1>4. MapsKept
  BY DEF NewSession, MapsKept, Active, IsEvicted, history
<1> QED BY <1>3, <1>4, KeepDirectory

(* The entry moves from the evicted table into the handler. *)
LEMMA TakeDirectory ==
  ASSUME TypeInv, DirectoryInv, NEW t \in Task, NEW e \in Ext, NEW f \in Frontend,
         NEW op \in {"load", "prompt"}, ~Running(t),
         TakeForReload(t, [NoHandler EXCEPT !.op = op, !.ext = e, !.fe = f]),
         UNCHANGED <<sessions, reverse, issued>>
  PROVE  DirectoryInv'
<1> DEFINE g == [NoHandler EXCEPT !.op = op, !.ext = e, !.fe = f]
           h == [g EXCEPT !.pc = "reload", !.bsid = evicted[e].bsid]
<1>1. g.ext = e
  BY DEF NoHandler
<1>2. IsEvicted(e) /\ TakeEvicted(e) /\ Acquire(t, h)
  BY <1>1 DEF TakeForReload
<1>3. evicted[e].bsid \in BSid
  BY <1>2, EntryTypes DEF TypeInv, TypeOK, EvictedSession
<1>4. /\ Ready(h) /\ h.op = op /\ h.pc = "reload" /\ h.ext = e
      /\ h.bsid = evicted[e].bsid
  BY <1>3 DEF Ready, NoHandler, Handler
<1> HIDE DEF h
<1>5. PICK k \in Handler :
        /\ Suspend(t, k)
        /\ k.pc \in {"init", "reload"} /\ k.op = op /\ k.ext = e
        /\ k.bsid = evicted[e].bsid /\ k.res = "none"
  BY <1>2, <1>4, AcquireSuspends
<1>6. \A d \in Ext : /\ Active(d)' <=> Active(d)
                     /\ IsEvicted(d)' <=> IsEvicted(d) /\ d # e
                     /\ d # e => evicted'[d] = evicted[d]
  BY <1>2 DEF Active, IsEvicted, TakeEvicted, TypeInv, TypeOK, PoolTypeOK
<1>7. \A u \in Task, d \in Ext :
         /\ Reloads(u, d)' <=> Reloads(u, d) \/ (u = t /\ d = e)
         /\ u # t => task'[u] = task[u]
         /\ task'[t].bsid = evicted[e].bsid
         /\ ~Reloads(t, d)
  BY <1>5 DEF Suspend, Reloads, Running, TypeInv, Handlers
<1>8. \A u \in Task : Minting(u)' <=> Minting(u) /\ u # t
  BY <1>5 DEF Suspend, Minting, TypeInv, Handlers
<1>9. DirectoryConsistent'
  BY <1>6 DEF DirectoryInv, DirectoryConsistent
<1>10. OnePlace'
  BY <1>2, <1>6, <1>7 DEF DirectoryInv, OnePlace
<1>11. BackendSidStable'
  BY <1>2, <1>6, <1>7 DEF DirectoryInv, BackendSidStable
<1>12. IssuedOnce' /\ MintedFresh'
  BY <1>7, <1>8 DEF DirectoryInv, IssuedOnce, MintedFresh
<1> QED BY <1>9, <1>10, <1>11, <1>12 DEF DirectoryInv

(* The entry is dropped. *)
LEMMA LoseDirectory ==
  ASSUME TypeInv, DirectoryInv, NEW e \in Ext, LoseOnReload(e),
         UNCHANGED <<task, sessions, reverse, issued>>
  PROVE  DirectoryInv'
<1>1. \A d \in Ext : /\ Active(d)' <=> Active(d)
                     /\ IsEvicted(d)' => IsEvicted(d) /\ evicted'[d] = evicted[d]
  BY DEF LoseOnReload, Active, IsEvicted, TakeEvicted, TypeInv, TypeOK, PoolTypeOK
<1>2. TasksKept
  BY SameTasksKept
<1>3. DirectoryConsistent'
  BY <1>1 DEF DirectoryInv, DirectoryConsistent
<1>4. OnePlace' /\ BackendSidStable'
  BY <1>1, <1>2 DEF DirectoryInv, OnePlace, BackendSidStable, TasksKept
<1>5. IssuedOnce' /\ MintedFresh'
  BY <1>2 DEF DirectoryInv, IssuedOnce, MintedFresh, TasksKept
<1> QED BY <1>3, <1>4, <1>5 DEF DirectoryInv

LEMMA StampKeepsMaps ==
  ASSUME TypeInv, NEW e \in Ext, NEW f \in Frontend,
         \/ RecordSender(e, f)
         \/ Active(e) /\ StampSession(e, f) /\ UNCHANGED evicted,
         UNCHANGED <<reverse, issued>>
  PROVE  MapsKept
<1>1. ASSUME NEW x \in SessionEntry
      PROVE  /\ [x EXCEPT !.sender = f].bsid = x.bsid
             /\ [x EXCEPT !.sender = f] # Nil
             /\ [x EXCEPT !.sender = f, !.idle = FALSE].bsid = x.bsid
             /\ [x EXCEPT !.sender = f, !.idle = FALSE] # Nil
  <2>1. /\ [x EXCEPT !.sender = f] \in SessionEntry
        /\ [x EXCEPT !.sender = f, !.idle = FALSE] \in SessionEntry
    BY DEF SessionEntry
  <2> QED BY <2>1, NilFacts DEF SessionEntry
<1>2. ASSUME NEW x \in EvictedSession
      PROVE  /\ [x EXCEPT !.sender = f].bsid = x.bsid
             /\ [x EXCEPT !.sender = f] # Nil
  <2>1. [x EXCEPT !.sender = f] \in EvictedSession
    BY DEF EvictedSession
  <2> QED BY <2>1, NilFacts DEF EvictedSession
<1>3. PoolTypeOK
  BY DEF TypeInv, TypeOK
<1>4. \A d \in Ext : /\ Active(d)' <=> Active(d)
                     /\ Active(d) => sessions'[d].bsid = sessions[d].bsid
  <2>1. CASE RecordSender(e, f)
    <3>1. CASE Active(e)
      <4>1. sessions' = [sessions EXCEPT ![e] = [sessions[e] EXCEPT !.sender = f]]
        BY <1>3, <2>1, <3>1 DEF RecordSender, PoolTypeOK
      <4> QED BY <1>1, <1>3, <3>1, <4>1, EntryTypes DEF Active, PoolTypeOK
    <3>2. CASE ~Active(e)
      BY <2>1, <3>2 DEF RecordSender, Active
    <3> QED BY <3>1, <3>2
  <2>2. CASE Active(e) /\ StampSession(e, f)
    <3>1. sessions' = [sessions EXCEPT
                         ![e] = [sessions[e] EXCEPT !.sender = f, !.idle = FALSE]]
      BY <1>3, <2>2 DEF StampSession, PoolTypeOK
    <3> QED BY <1>1, <1>3, <2>2, <3>1, EntryTypes DEF Active, PoolTypeOK
  <2> QED BY <2>1, <2>2
<1>5. \A d \in Ext : /\ IsEvicted(d)' <=> IsEvicted(d)
                     /\ IsEvicted(d) => evicted'[d].bsid = evicted[d].bsid
  <2>1. CASE UNCHANGED evicted
    BY <2>1 DEF IsEvicted
  <2>2. CASE IsEvicted(e) /\ evicted' = [evicted EXCEPT ![e].sender = f]
    <3>1. evicted' = [evicted EXCEPT ![e] = [evicted[e] EXCEPT !.sender = f]]
      BY <1>3, <2>2 DEF PoolTypeOK
    <3> QED BY <1>2, <1>3, <2>2, <3>1, EntryTypes DEF IsEvicted, PoolTypeOK
  <2> QED BY <2>1, <2>2 DEF RecordSender
<1> QED BY <1>4, <1>5 DEF MapsKept

LEMMA RequestDirectory ==
  ASSUME TypeInv, DirectoryInv, NEW t \in Task, Request(t)
  PROVE  DirectoryInv'
<1>1. ASSUME NEW f \in Frontend, NewSession(t, f) PROVE DirectoryInv'
  BY <1>1, NewSessionDirectory
<1>2. ASSUME NEW e \in Ext, NEW f \in Frontend, LoadSession(t, e, f) PROVE DirectoryInv'
  BY <1>2, TakeDirectory, LoseDirectory, Zenon DEF LoadSession, history
<1>3. ASSUME NEW e \in Ext, NEW f \in Frontend, PromptEvicted(t, e, f)
      PROVE  DirectoryInv'
  BY <1>3, TakeDirectory, LoseDirectory, Zenon DEF PromptEvicted, history
<1>4. ASSUME NEW e \in Ext, NEW f \in Frontend, PromptActive(t, e, f)
      PROVE  DirectoryInv'
  <2> DEFINE h == [NoHandler EXCEPT !.pc = "prompt", !.op = "prompt", !.ext = e,
                                    !.fe = f, !.slot = sessions[e].slot,
                                    !.bk = slots[sessions[e].slot].bk]
  <2>1. Suspend(t, h) /\ Resolves(e)
    BY <1>4 DEF PromptActive
  <2>2. h \in Handler /\ h.pc = "prompt"
    BY <2>1, ResolvedTypes DEF NoHandler, Handler, TypeInv, TypeOK
  <2> HIDE DEF h
  <2>3. TasksKept
    BY <2>1, <2>2, SuspendKeepsTasks
  <2>4. MapsKept
    BY <1>4, StampKeepsMaps DEF PromptActive, Resolves, history
  <2> QED BY <2>3, <2>4, KeepDirectory
<1>5. ASSUME NEW e \in Ext, NEW f \in Frontend, NEW op \in {"fork", "close"},
             CallOnSession(t, e, f, op)
      PROVE  DirectoryInv'
  <2> DEFINE h == [NoHandler EXCEPT !.pc = op, !.op = op, !.ext = e, !.fe = f,
                                    !.slot = sessions[e].slot,
                                    !.bk = slots[sessions[e].slot].bk]
  <2>1. Suspend(t, h) /\ Resolves(e)
    BY <1>5 DEF CallOnSession
  <2>2. h \in Handler /\ h.pc = op /\ h.res = "none"
    BY <2>1, ResolvedTypes DEF NoHandler, Handler, TypeInv, TypeOK
  <2> HIDE DEF h
  <2>3. TasksKept
    BY <2>1, <2>2, SuspendKeepsTasks
  <2>4. MapsKept
    BY <1>5, StampKeepsMaps DEF CallOnSession, history
  <2> QED BY <2>3, <2>4, KeepDirectory
<1> QED BY <1>1, <1>2, <1>3, <1>4, <1>5 DEF Request, ForkSession, CloseSession

LEMMA ReplyDirectory ==
  ASSUME TypeInv, DirectoryInv, NEW t \in Task, Reply(t)
  PROVE  DirectoryInv'
<1>1. task[t] \in Handler /\ task[t].res = "none"
  BY DEF TypeInv, Handlers, Reply
<1>2. MapsKept
  BY DEF Reply, MapsKept, Active, IsEvicted, poolVars, history
<1>3. CASE \E r \in {"ok", "err"} :
             /\ r = "err" \/ task[t].pc \notin {"create", "fork"}
             /\ Suspend(t, [task[t] EXCEPT !.res = r])
  <2>1. TasksKept
    BY <1>1, <1>3 DEF TasksKept, Suspend, Reloads, Minting, TypeInv, Handlers, Handler
  <2> QED BY <1>2, <2>1, KeepDirectory
<1>4. CASE /\ task[t].pc \in {"create", "fork"}
           /\ \E b \in BSid : /\ FreshBSid(b)
                              /\ Suspend(t, [task[t] EXCEPT !.res = "ok", !.bsid = b])
  <2>1. PICK b \in BSid : /\ FreshBSid(b)
                          /\ Suspend(t, [task[t] EXCEPT !.res = "ok", !.bsid = b])
    BY <1>4
  <2>2. \A u \in Task : \A e \in Ext :
          /\ Reloads(u, e)' <=> Reloads(u, e)
          /\ Reloads(u, e) => task'[u] = task[u]
    BY <1>1, <1>4, <2>1 DEF Suspend, Reloads, TypeInv, Handlers, Handler
  <2>3. \A u \in Task :
          /\ Minting(u)' <=> Minting(u) \/ u = t
          /\ u # t => task'[u] = task[u]
          /\ task'[t].bsid = b
    BY <1>1, <1>4, <2>1 DEF Suspend, Minting, TypeInv, Handlers, Handler
  <2>4. DirectoryConsistent' /\ IssuedOnce'
    BY <1>2 DEF DirectoryInv, DirectoryConsistent, IssuedOnce, MapsKept
  <2>5. OnePlace' /\ BackendSidStable'
    BY <1>2, <2>2 DEF DirectoryInv, OnePlace, BackendSidStable, MapsKept
  <2>6. MintedFresh'
    BY <1>2, <2>1, <2>3 DEF DirectoryInv, MintedFresh, MapsKept, FreshBSid
  <2> QED BY <2>4, <2>5, <2>6 DEF DirectoryInv
<1> QED BY <1>3, <1>4 DEF Reply

LEMMA AfterInitDirectory ==
  ASSUME TypeInv, DirectoryInv, NEW t \in Task, AfterInit(t)
  PROVE  DirectoryInv'
<1>1. MapsKept
  BY DEF AfterInit, MapsKept, Active, IsEvicted, history
<1>2. TasksKept
  <2>1. CASE Finish(t)
    BY <2>1, FinishKeepsTasks
  <2>2. CASE Suspend(t, [task[t] EXCEPT
               !.pc = IF task[t].op = "new" THEN "create" ELSE "reload",
               !.bk = slots[task[t].slot].bk, !.res = "none"])
    BY <2>2 DEF AfterInit, Polled, TasksKept, Suspend, Reloads, Minting, TypeInv,
                Handlers, Handler
  <2> QED BY <2>1, <2>2 DEF AfterInit, Return
<1> QED BY <1>1, <1>2, KeepDirectory

LEMMA AfterCreateDirectory ==
  ASSUME TypeInv, DirectoryInv, NEW t \in Task, AfterCreate(t)
  PROVE  DirectoryInv'
<1>1. CASE task[t].res = "err"
  BY <1>1, FinishKeepsTasks, KeepDirectory
     DEF AfterCreate, MapsKept, Active, IsEvicted, history
<1>2. CASE task[t].res = "ok"
  <2>1. PICK e \in Ext :
          /\ FreshExt(e)
          /\ RegisterSession(e, task[t].bsid, task[t].slot, task[t].fe)
          /\ issued' = [issued EXCEPT ![e] = task[t].bsid]
    BY <1>2 DEF AfterCreate
  <2>2. /\ Minting(t)
        /\ task[t].bsid \in BSid /\ task[t].slot \in Slot /\ task[t].fe \in Frontend
    BY <1>2 DEF AfterCreate, Polled, Minting, TypeInv, Handlers, Shape
  <2>3. \A d \in Ext : issued[d] # task[t].bsid
    BY <2>2 DEF DirectoryInv, MintedFresh
  <2>4. ~Active(e) /\ ~IsEvicted(e) /\ \A u \in Task : ~Reloads(u, e)
    <3>1. issued[e] = Nil
      BY <2>1 DEF FreshExt
    <3>2. /\ Active(e) => sessions[e].bsid \in BSid
          /\ IsEvicted(e) => evicted[e].bsid \in BSid
          /\ \A u \in Task : Reloads(u, e) => task[u].bsid \in BSid
      BY EntryTypes DEF TypeInv, TypeOK, Handlers, Shape, Reloads, SessionEntry,
                        EvictedSession
    <3> QED BY <3>1, <3>2, NilFacts DEF DirectoryInv, BackendSidStable
  <2>5. /\ issued'[e] = task[t].bsid
        /\ \A d \in Ext : d # e => issued'[d] = issued[d]
    BY <2>1 DEF TypeInv, TypeOK
  <2>6. TasksKept /\ ~Minting(t)' /\ UNCHANGED evicted
    BY FinishKeepsTasks
       DEF AfterCreate, Finish, NoHandler, Minting, TypeInv, Handlers
  <2>7. /\ DirectoryConsistent'
        /\ \A d \in Ext :
             /\ ~(Active(d) /\ IsEvicted(d))'
             /\ Active(d)' => (sessions[d].bsid = issued[d])'
             /\ IsEvicted(d)' => (evicted[d].bsid = issued[d])'
             /\ Active(d)' <=> Active(d) \/ d = e
             /\ IsEvicted(d)' <=> IsEvicted(d)
        /\ IssuedOnce'
    BY <2>1, <2>2, <2>3, <2>4, <2>5, <2>6, RegisterDirectory
  <2>8. OnePlace' /\ BackendSidStable'
    BY <2>4, <2>5, <2>6, <2>7 DEF DirectoryInv, OnePlace, BackendSidStable, TasksKept
  <2>9. MintedFresh'
    BY <2>2, <2>5, <2>6 DEF DirectoryInv, MintedFresh, TasksKept
  <2> QED BY <2>7, <2>8, <2>9 DEF DirectoryInv
<1> QED BY <1>1, <1>2 DEF AfterCreate

LEMMA AfterReloadDirectory ==
  ASSUME TypeInv, DirectoryInv, NEW t \in Task, AfterReload(t)
  PROVE  DirectoryInv'
<1>1. /\ task[t] \in Handler /\ task[t].fe \in Frontend /\ task[t].slot \in Slot
      /\ task[t].bsid \in BSid /\ task[t].ext \in Ext /\ Reloads(t, task[t].ext)
  BY DEF AfterReload, Polled, TypeInv, Handlers, Shape, Reloads
<1>2. UNCHANGED <<evicted, issued>>
  BY DEF AfterReload
<1>3. TasksKept /\ \A e \in Ext : ~Reloads(t, e)'
  <2>1. CASE Finish(t)
    BY <2>1, FinishKeepsTasks DEF Finish, NoHandler, Reloads, TypeInv, Handlers
  <2>2. CASE \E b : Suspend(t, [task[t] EXCEPT !.pc = "prompt", !.bk = b,
                                               !.bsid = Nil, !.res = "none"])
    BY <1>1, <2>2 DEF TasksKept, Suspend, Reloads, Minting, TypeInv, Handlers, Handler
  <2> QED BY <2>1, <2>2 DEF AfterReload, Return
<1>4. CASE task[t].res # "ok"
  BY <1>2, <1>3, <1>4, KeepDirectory DEF AfterReload, MapsKept, Active, IsEvicted
<1>5. CASE task[t].res = "ok"
  <2> DEFINE e == task[t].ext
  <2>1. RegisterSession(e, task[t].bsid, task[t].slot, task[t].fe)
    BY <1>5 DEF AfterReload
  <2>2. /\ ~Active(e) /\ ~IsEvicted(e)
        /\ \A u \in Task : Reloads(u, e) => u = t
        /\ task[t].bsid = issued[e]
    BY <1>1 DEF DirectoryInv, OnePlace, BackendSidStable
  <2>3. \A d \in Ext : d # e => issued[d] # task[t].bsid
    BY <1>1, <2>2, NilFacts DEF DirectoryInv, IssuedOnce
  <2>4. /\ DirectoryConsistent'
        /\ \A d \in Ext :
             /\ ~(Active(d) /\ IsEvicted(d))'
             /\ Active(d)' => (sessions[d].bsid = issued[d])'
             /\ IsEvicted(d)' => (evicted[d].bsid = issued[d])'
             /\ Active(d)' <=> Active(d) \/ d = e
             /\ IsEvicted(d)' <=> IsEvicted(d)
        /\ IssuedOnce'
    BY <1>1, <1>2, <2>1, <2>2, <2>3, RegisterDirectory
  <2>5. OnePlace' /\ BackendSidStable'
    BY <1>2, <1>3, <2>2, <2>4 DEF DirectoryInv, OnePlace, BackendSidStable, TasksKept
  <2>6. MintedFresh'
    BY <1>2, <1>3 DEF DirectoryInv, MintedFresh, TasksKept
  <2> QED BY <2>4, <2>5, <2>6 DEF DirectoryInv
<1> QED BY <1>4, <1>5

LEMMA BackendEndsDirectory ==
  ASSUME TypeInv, DirectoryInv, NEW b \in Backend, BackendEnds(b)
  PROVE  DirectoryInv'
<1> DEFINE S == SessionsOn(backend[b].slot)
<1>1. S \in SUBSET {e \in Ext : Active(e)}
  BY DEF SessionsOn
<1>2. TasksKept
  <2>1. ASSUME NEW t \in Task
        PROVE  /\ task'[t].pc = task[t].pc /\ task'[t].op = task[t].op
               /\ task'[t].ext = task[t].ext /\ task'[t].bsid = task[t].bsid
               /\ task'[t].res = "ok" => task[t].res = "ok"
    BY DEF BackendEnds, TypeInv, Handlers, Handler
  <2> QED BY <2>1 DEF TasksKept, Reloads, Minting
<1>3. /\ Unmap(S) /\ UNCHANGED issued
      /\ \A e \in Ext : evicted'[e] \in {Nil, WithEvicted(S)[e]}
  BY DEF BackendEnds, HandleBackendDeath, history
<1> HIDE DEF S
<1> QED BY <1>1, <1>2, <1>3, UnloadDirectory

LEMMA MaintenanceTickDirectory ==
  ASSUME TypeInv, DirectoryInv, MaintenanceTick
  PROVE  DirectoryInv'
<1> DEFINE S == IdleSessions
<1>1. S \in SUBSET {e \in Ext : Active(e)}
  BY DEF IdleSessions
<1>2. TasksKept
  BY SameTasksKept DEF MaintenanceTick
<1>3. /\ Unmap(S) /\ UNCHANGED issued
      /\ \A e \in Ext : evicted'[e] \in {Nil, WithEvicted(S)[e]}
  BY DEF MaintenanceTick, EvictAndPurge, history
<1> HIDE DEF S
<1> QED BY <1>1, <1>2, <1>3, UnloadDirectory

LEMMA GrowIdleKeepsMaps ==
  ASSUME TypeInv, NEW e \in Ext, GrowIdle(e)
  PROVE  MapsKept
<1>1. ASSUME NEW x \in SessionEntry
      PROVE  [x EXCEPT !.idle = TRUE].bsid = x.bsid /\ [x EXCEPT !.idle = TRUE] # Nil
  <2>1. [x EXCEPT !.idle = TRUE] \in SessionEntry
    BY DEF SessionEntry
  <2> QED BY <2>1, NilFacts DEF SessionEntry
<1>2. \A d \in Ext : /\ Active(d)' <=> Active(d)
                     /\ Active(d) => sessions'[d].bsid = sessions[d].bsid
  BY <1>1, EntryTypes DEF GrowIdle, Active, TypeInv, TypeOK, PoolTypeOK
<1> QED BY <1>2 DEF GrowIdle, MapsKept, IsEvicted, history

LEMMA NextDirectory == TypeInv /\ DirectoryInv /\ [Next]_vars => DirectoryInv'
<1> SUFFICES ASSUME TypeInv, DirectoryInv, [Next]_vars PROVE DirectoryInv'
  OBVIOUS
<1>1. CASE Initialize \/ (\E b \in Backend : Supervise(b)) \/ Shutdown \/ UNCHANGED vars
  <2>1. UNCHANGED <<sessions, reverse, evicted, issued, task>>
    BY <1>1, BackendStepsFrame DEF history
  <2>2. MapsKept
    BY <2>1 DEF MapsKept, Active, IsEvicted
  <2> QED BY <2>1, <2>2, SameTasksKept, KeepDirectory
<1>2. CASE \E t \in Task : Request(t)
  BY <1>2, RequestDirectory
<1>3. CASE \E t \in Task : Reply(t)
  BY <1>3, ReplyDirectory
<1>4. CASE \E t \in Task : Resume(t)
  <2>1. PICK t \in Task : Resume(t)
    BY <1>4
  <2>2. CASE AfterPrompt(t)
    BY <2>2, FinishKeepsTasks, KeepDirectory
       DEF AfterPrompt, Return, MapsKept, Active, IsEvicted, history
  <2>3. CASE AfterClose(t)
    <3>1. task[t].ext \in Ext /\ TasksKept /\ UNCHANGED <<evicted, issued>>
      BY <2>3, FinishKeepsTasks
         DEF AfterClose, Polled, TypeInv, Handlers, Shape, history
    <3>2. CASE task[t].res = "ok"
      BY <2>3, <3>1, <3>2, RemoveDirectory DEF AfterClose
    <3>3. CASE task[t].res # "ok"
      BY <2>3, <3>1, <3>3, KeepDirectory DEF AfterClose, MapsKept, Active, IsEvicted
    <3> QED BY <3>2, <3>3
  <2> QED BY <2>1, <2>2, <2>3, AfterInitDirectory, AfterCreateDirectory,
             AfterReloadDirectory DEF Resume
<1>5. CASE \E e \in Ext, f \in Frontend : Relay(e, f)
  <2>1. PICK e \in Ext, f \in Frontend : Relay(e, f)
    BY <1>5
  <2>2. MapsKept
    BY <2>1, StampKeepsMaps DEF Relay, history
  <2> QED BY <2>1, <2>2, SameTasksKept, KeepDirectory DEF Relay
<1>6. CASE \E b \in Backend : BackendEnds(b)
  BY <1>6, BackendEndsDirectory
<1>7. CASE \E e \in Ext : GrowIdle(e)
  BY <1>7, GrowIdleKeepsMaps, SameTasksKept, KeepDirectory DEF GrowIdle
<1>8. CASE MaintenanceTick
  BY <1>8, MaintenanceTickDirectory
<1> QED BY <1>1, <1>2, <1>3, <1>4, <1>5, <1>6, <1>7, <1>8 DEF Next

LEMMA DirectoryInvariant == Spec => []DirectoryInv
BY InitDirectory, NextDirectory, TypeInvariant, PTL DEF Spec

(* Callbacks are translated back to exactly the session whose requests are *)
(* translated to that backend session, in every reachable state.           *)
THEOREM ReverseIsInverse == Spec => []DirectoryConsistent
BY DirectoryInvariant, PTL DEF DirectoryInv

(* No session is mapped and evicted at once, and none is reloaded by two   *)
(* handlers, or while it is mapped or evicted.                             *)
THEOREM SessionsInOnePlace == Spec => []OnePlace
BY DirectoryInvariant, PTL DEF DirectoryInv

(* Eviction, death and reload never give a session another session's       *)
(* backend id.                                                             *)
THEOREM SidsStable == Spec => []BackendSidStable
BY DirectoryInvariant, PTL DEF DirectoryInv

=============================================================================
