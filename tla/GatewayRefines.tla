---------------------------- MODULE GatewayRefines ----------------------------
(***************************************************************************)
(* The gateway implements the life cycle of its sessions.  The directory   *)
(* invariant makes the refinement mapping unambiguous: a session is mapped, *)
(* evicted, being reloaded or none of these, and has been issued in the    *)
(* first three cases.  Each action then moves at most one session, except  *)
(* for deaths and maintenance ticks, which unload a set of them.           *)
(*                                                                         *)
(* The last part uses the life cycle: a session that is closed under its   *)
(* prompt is gone for good, so the flag it lost admits no second prompt.   *)
(***************************************************************************)
EXTENDS GatewayLedger, GatewayRefinement

Reloading(e) == \E t \in Task : Reloads(t, e)

(* The mapping read off the places a session can be in. *)
LifeRead ==
  \A e \in Ext :
    /\ LifeOf(e) = "mapped" <=> Active(e)
    /\ LifeOf(e) = "evicted" <=> IsEvicted(e)
    /\ LifeOf(e) = "reloading" <=> Reloading(e)
    /\ LifeOf(e) = "unissued" <=> issued[e] = Nil
    /\ LifeOf(e) \in {"unissued", "mapped", "evicted", "reloading", "gone"}

SameReloads ==
  \A t \in Task, e \in Ext : Reloads(t, e)' <=> Reloads(t, e)

LifecycleStep == [Lifecycle!Next]_<<[e \in Ext |-> LifeOf(e)], issued>>

-----------------------------------------------------------------------------
(* The mapping, and steps of the life cycle in terms of it. *)

LEMMA PlacesIssued ==
  ASSUME TypeInv, DirectoryInv, NEW e \in Ext
  PROVE  Active(e) \/ IsEvicted(e) \/ Reloading(e) => issued[e] # Nil
<1>1. Active(e) => sessions[e].bsid \in BSid
  BY EntryTypes DEF TypeInv, TypeOK, SessionEntry
<1>2. IsEvicted(e) => evicted[e].bsid \in BSid
  BY EntryTypes DEF TypeInv, TypeOK, EvictedSession
<1>3. \A t \in Task : Reloads(t, e) => task[t].bsid \in BSid
  BY DEF TypeInv, Handlers, Shape, Reloads
<1> QED BY <1>1, <1>2, <1>3, NilFacts DEF DirectoryInv, BackendSidStable, Reloading

LEMMA LifeIsRead == TypeInv /\ DirectoryInv => LifeRead
<1> SUFFICES ASSUME TypeInv, DirectoryInv, NEW e \in Ext
             PROVE  /\ LifeOf(e) = "mapped" <=> Active(e)
                    /\ LifeOf(e) = "evicted" <=> IsEvicted(e)
                    /\ LifeOf(e) = "reloading" <=> Reloading(e)
                    /\ LifeOf(e) = "unissued" <=> issued[e] = Nil
                    /\ LifeOf(e) \in {"unissued", "mapped", "evicted", "reloading", "gone"}
  BY DEF LifeRead
<1>1. ~(Active(e) /\ IsEvicted(e)) /\ (Reloading(e) => ~Active(e) /\ ~IsEvicted(e))
  BY DEF DirectoryInv, OnePlace, Reloading
<1> QED BY <1>1, PlacesIssued DEF LifeOf, Reloading

LEMMA SamePlace ==
  ASSUME NEW e \in Ext, issued'[e] = issued[e], Active(e)' <=> Active(e),
         IsEvicted(e)' <=> IsEvicted(e), Reloading(e)' <=> Reloading(e)
  PROVE  LifeOf(e)' = LifeOf(e)
BY DEF LifeOf, Reloading

LEMMA Stutters ==
  ASSUME UNCHANGED issued, \A e \in Ext : LifeOf(e)' = LifeOf(e)
  PROVE  LifecycleStep
BY DEF LifecycleStep

LEMMA Moves ==
  ASSUME NEW e \in Ext, UNCHANGED issued,
         \A d \in Ext : d # e => LifeOf(d)' = LifeOf(d),
         \/ LifeOf(e) = "evicted" /\ LifeOf(e)' = "reloading"
         \/ LifeOf(e) = "reloading" /\ LifeOf(e)' \in {"mapped", "gone"}
         \/ LifeOf(e) = "mapped" /\ LifeOf(e)' = "gone"
  PROVE  LifecycleStep
<1>1. ASSUME NEW to, LifeOf(e)' = to
      PROVE  Lifecycle!Move(e, LifeOf(e), to)
  BY <1>1 DEF Lifecycle!Move
<1>2. \/ Lifecycle!Take(e) \/ Lifecycle!Restore(e) \/ Lifecycle!Lose(e)
      \/ Lifecycle!Close(e)
  BY <1>1 DEF Lifecycle!Take, Lifecycle!Restore, Lifecycle!Lose, Lifecycle!Close
<1> QED BY <1>2 DEF LifecycleStep, Lifecycle!Next

LEMMA Unloads ==
  ASSUME NEW S \in SUBSET Ext, NEW P \in SUBSET Ext, UNCHANGED issued,
         \A e \in S : LifeOf(e) = "mapped",
         \A e \in P \ S : LifeOf(e) = "evicted",
         \A e \in Ext : LifeOf(e)' = IF e \in P THEN "gone"
                                     ELSE IF e \in S THEN "evicted" ELSE LifeOf(e)
  PROVE  LifecycleStep
<1>1. Lifecycle!Unload(S, P)
  BY DEF Lifecycle!Unload
<1> QED BY <1>1 DEF LifecycleStep, Lifecycle!Next

(* Steps that keep the maps and every reload are stutters. *)
LEMMA KeptStutters ==
  ASSUME MapsKept, SameReloads
  PROVE  LifecycleStep
<1>1. \A e \in Ext : Reloading(e)' <=> Reloading(e)
  BY DEF SameReloads, Reloading
<1>2. UNCHANGED issued /\ \A e \in Ext : LifeOf(e)' = LifeOf(e)
  BY <1>1, SamePlace DEF MapsKept
<1> QED BY <1>2, Stutters

-----------------------------------------------------------------------------
(* The handlers. *)

(* Suspending or finishing a handler that neither was nor will be          *)
(* reloading.                                                              *)
LEMMA OtherSuspends ==
  ASSUME TypeInv, NEW t \in Task, NEW h \in Handler, Suspend(t, h),
         \A e \in Ext : ~Reloads(t, e),
         h.op \notin {"load", "prompt"} \/ h.pc \notin {"init", "reload"}
  PROVE  SameReloads
BY DEF SameReloads, Suspend, Reloads, TypeInv, Handlers

LEMMA OtherFinishes ==
  ASSUME TypeInv, NEW t \in Task, Finish(t), \A e \in Ext : ~Reloads(t, e)
  PROVE  SameReloads
BY DEF SameReloads, Finish, NoHandler, Reloads, TypeInv, Handlers

LEMMA IdleReloadsNothing ==
  ASSUME TypeInv, NEW t \in Task, ~Running(t)
  PROVE  \A e \in Ext : ~Reloads(t, e)
BY DEF Running, Reloads

(* A reloading handler finishes without a registration: its session is     *)
(* gone. *)
LEMMA FinishLoses ==
  ASSUME TypeInv, DirectoryInv, LifeRead, LifeRead', NEW t \in Task, Finish(t), MapsKept
  PROVE  LifecycleStep
<1>1. CASE \A e \in Ext : ~Reloads(t, e)
  BY <1>1, OtherFinishes, KeptStutters
<1>2. ASSUME NEW e \in Ext, Reloads(t, e) PROVE LifecycleStep
  <2>1. \A u \in Task, d \in Ext : Reloads(u, d)' <=> Reloads(u, d) /\ u # t
    BY DEF Finish, NoHandler, Reloads, TypeInv, Handlers
  <2>2. \A d \in Ext : Reloads(t, d) => d = e
    BY <1>2 DEF Reloads
  <2>3. \A u \in Task : Reloads(u, e) => u = t
    BY <1>2 DEF DirectoryInv, OnePlace
  <2>4. \A d \in Ext : Reloading(d)' <=> Reloading(d) /\ d # e
    BY <2>1, <2>2, <2>3 DEF Reloading
  <2>5. \A d \in Ext : d # e => LifeOf(d)' = LifeOf(d)
    BY <2>4, SamePlace DEF MapsKept
  <2>6. LifeOf(e) = "reloading"
    BY <1>2 DEF LifeRead, Reloading
  <2>7. LifeOf(e)' = "gone"
    <3>1. ~Active(e) /\ ~IsEvicted(e) /\ issued[e] # Nil
      BY <2>6 DEF LifeRead
    <3>2. ~Active(e)' /\ ~IsEvicted(e)' /\ issued'[e] # Nil /\ ~Reloading(e)'
      BY <2>4, <3>1 DEF MapsKept
    <3> QED BY <3>2 DEF LifeRead
  <2> QED BY <2>5, <2>6, <2>7, Moves DEF MapsKept
<1> QED BY <1>1, <1>2

LEMMA TakeTakes ==
  ASSUME TypeInv, DirectoryInv, LifeRead, LifeRead',
         NEW t \in Task, NEW e \in Ext, NEW f \in Frontend,
         NEW op \in {"load", "prompt"}, ~Running(t),
         TakeForReload(t, [NoHandler EXCEPT !.op = op, !.ext = e, !.fe = f]),
         UNCHANGED <<sessions, reverse, issued>>
  PROVE  LifecycleStep
<1> DEFINE g == [NoHandler EXCEPT !.op = op, !.ext = e, !.fe = f]
           h == [g EXCEPT !.pc = "reload", !.bsid = evicted[e].bsid]
<1>1. IsEvicted(e) /\ TakeEvicted(e) /\ Acquire(t, h)
  BY DEF TakeForReload, NoHandler
<1>2. evicted[e].bsid \in BSid
  BY <1>1, EntryTypes DEF TypeInv, TypeOK, EvictedSession
<1>3. Ready(h) /\ h.op = op /\ h.pc = "reload" /\ h.ext = e
  BY <1>2 DEF Ready, NoHandler, Handler
<1> HIDE DEF h
<1>4. PICK k \in Handler : /\ Suspend(t, k)
                           /\ k.pc \in {"init", "reload"} /\ k.op = op /\ k.ext = e
  BY <1>1, <1>3, AcquireSuspends
<1>5. \A u \in Task, d \in Ext :
        Reloads(u, d)' <=> Reloads(u, d) \/ (u = t /\ d = e)
  BY <1>4, IdleReloadsNothing DEF Suspend, Reloads, TypeInv, Handlers
<1>6. \A d \in Ext : d # e =>
        /\ Active(d)' <=> Active(d)
        /\ IsEvicted(d)' <=> IsEvicted(d)
        /\ Reloading(d)' <=> Reloading(d)
  BY <1>1, <1>5 DEF Active, IsEvicted, TakeEvicted, Reloading, TypeInv, TypeOK, PoolTypeOK
<1>7. \A d \in Ext : d # e => LifeOf(d)' = LifeOf(d)
  BY <1>6, SamePlace
<1>8. LifeOf(e) = "evicted" /\ LifeOf(e)' = "reloading"
  BY <1>1, <1>5 DEF LifeRead, Reloading
<1> QED BY <1>7, <1>8, Moves

LEMMA LoseUnloads ==
  ASSUME TypeInv, DirectoryInv, LifeRead, LifeRead', NEW e \in Ext, LoseOnReload(e),
         UNCHANGED <<task, sessions, reverse, issued>>
  PROVE  LifecycleStep
<1>1. IsEvicted(e) /\ TakeEvicted(e)
  BY DEF LoseOnReload
<1>2. \A d \in Ext : /\ Active(d)' <=> Active(d)
                     /\ IsEvicted(d)' <=> IsEvicted(d) /\ d # e
                     /\ Reloading(d)' <=> Reloading(d)
  BY <1>1 DEF Active, IsEvicted, TakeEvicted, Reloading, Reloads,
              TypeInv, TypeOK, PoolTypeOK
<1>3. \A d \in Ext : d # e => LifeOf(d)' = LifeOf(d)
  BY <1>2, SamePlace
<1>4. LifeOf(e) = "evicted"
  BY <1>1 DEF LifeRead
<1>5. LifeOf(e)' = "gone"
  <2>1. ~Active(e) /\ ~Reloading(e) /\ issued[e] # Nil
    BY <1>4 DEF LifeRead
  <2> QED BY <1>2, <2>1 DEF LifeRead
<1> QED BY <1>3, <1>4, <1>5, Unloads, {} \in SUBSET Ext, {e} \in SUBSET Ext

LEMMA RequestStep ==
  ASSUME TypeInv, DirectoryInv, LifeRead, LifeRead', NEW t \in Task, Request(t)
  PROVE  LifecycleStep
<1>1. ASSUME NEW f \in Frontend, NewSession(t, f) PROVE LifecycleStep
  <2> DEFINE h == [NoHandler EXCEPT !.pc = "create", !.op = "new", !.fe = f]
  <2>1. Ready(h) /\ h.op = "new" /\ Acquire(t, h) /\ ~Running(t)
    BY <1>1 DEF Ready, NoHandler, Handler, NewSession
  <2> HIDE DEF h
  <2>2. SameReloads
    BY <2>1, AcquireSuspends, IdleReloadsNothing, OtherSuspends
  <2>3. MapsKept
    BY <1>1 DEF NewSession, MapsKept, Active, IsEvicted, history
  <2> QED BY <2>2, <2>3, KeptStutters
<1>2. ASSUME NEW e \in Ext, NEW f \in Frontend, LoadSession(t, e, f)
      PROVE  LifecycleStep
  BY <1>2, TakeTakes, LoseUnloads, Zenon DEF LoadSession, history
<1>3. ASSUME NEW e \in Ext, NEW f \in Frontend, PromptEvicted(t, e, f)
      PROVE  LifecycleStep
  BY <1>3, TakeTakes, LoseUnloads, Zenon DEF PromptEvicted, history
<1>4. ASSUME NEW e \in Ext, NEW f \in Frontend, PromptActive(t, e, f)
      PROVE  LifecycleStep
  <2> DEFINE h == [NoHandler EXCEPT !.pc = "prompt", !.op = "prompt", !.ext = e,
                                    !.fe = f, !.slot = sessions[e].slot,
                                    !.bk = slots[sessions[e].slot].bk]
  <2>1. Suspend(t, h) /\ Resolves(e) /\ ~Running(t)
    BY <1>4 DEF PromptActive
  <2>2. h \in Handler /\ h.pc = "prompt"
    BY <2>1, ResolvedTypes DEF NoHandler, Handler, TypeInv, TypeOK
  <2> HIDE DEF h
  <2>3. SameReloads
    BY <2>1, <2>2, IdleReloadsNothing, OtherSuspends
  <2>4. MapsKept
    BY <1>4, StampKeepsMaps DEF PromptActive, Resolves, history
  <2> QED BY <2>3, <2>4, KeptStutters
<1>5. ASSUME NEW e \in Ext, NEW f \in Frontend, NEW op \in {"fork", "close"},
             CallOnSession(t, e, f, op)
      PROVE  LifecycleStep
  <2> DEFINE h == [NoHandler EXCEPT !.pc = op, !.op = op, !.ext = e, !.fe = f,
                                    !.slot = sessions[e].slot,
                                    !.bk = slots[sessions[e].slot].bk]
  <2>1. Suspend(t, h) /\ Resolves(e) /\ ~Running(t)
    BY <1>5 DEF CallOnSession
  <2>2. h \in Handler /\ h.pc = op
    BY <2>1, ResolvedTypes DEF NoHandler, Handler, TypeInv, TypeOK
  <2> HIDE DEF h
  <2>3. SameReloads
    BY <2>1, <2>2, IdleReloadsNothing, OtherSuspends
  <2>4. MapsKept
    BY <1>5, StampKeepsMaps DEF CallOnSession, history
  <2> QED BY <2>3, <2>4, KeptStutters
<1> QED BY <1>1, <1>2, <1>3, <1>4, <1>5 DEF Request, ForkSession, CloseSession

LEMMA ReplyStep ==
  ASSUME TypeInv, NEW t \in Task, Reply(t)
  PROVE  LifecycleStep
<1>1. \A u \in Task : /\ task'[u].pc = task[u].pc
                      /\ task'[u].op = task[u].op
                      /\ task'[u].ext = task[u].ext
  <2>1. task[t] \in Handler
    BY DEF TypeInv, Handlers
  <2>2. ASSUME NEW h, Suspend(t, h),
               h.pc = task[t].pc, h.op = task[t].op, h.ext = task[t].ext
        PROVE  <1>1!:
    BY <2>2 DEF Suspend, TypeInv, Handlers
  <2>3. CASE \E r \in {"ok", "err"} : Suspend(t, [task[t] EXCEPT !.res = r])
    <3>1. PICK r \in {"ok", "err"} : Suspend(t, [task[t] EXCEPT !.res = r])
      BY <2>3
    <3> DEFINE h == [task[t] EXCEPT !.res = r]
    <3>2. h.pc = task[t].pc /\ h.op = task[t].op /\ h.ext = task[t].ext
      BY <2>1 DEF Handler
    <3> QED BY <2>2, <3>1, <3>2
  <2>4. CASE \E b \in BSid : Suspend(t, [task[t] EXCEPT !.res = "ok", !.bsid = b])
    <3>1. PICK b \in BSid : Suspend(t, [task[t] EXCEPT !.res = "ok", !.bsid = b])
      BY <2>4
    <3> DEFINE h == [task[t] EXCEPT !.res = "ok", !.bsid = b]
    <3>2. h.pc = task[t].pc /\ h.op = task[t].op /\ h.ext = task[t].ext
      BY <2>1 DEF Handler
    <3> QED BY <2>2, <3>1, <3>2
  <2> QED BY <2>3, <2>4 DEF Reply
<1>2. SameReloads
  BY <1>1 DEF SameReloads, Reloads
<1>3. MapsKept
  BY DEF Reply, MapsKept, Active, IsEvicted, poolVars, history
<1> QED BY <1>2, <1>3, KeptStutters

LEMMA AfterInitStep ==
  ASSUME TypeInv, DirectoryInv, LifeRead, LifeRead', NEW t \in Task, AfterInit(t)
  PROVE  LifecycleStep
<1>1. MapsKept
  BY DEF AfterInit, MapsKept, Active, IsEvicted, history
<1>2. CASE Finish(t)
  BY <1>1, <1>2, FinishLoses
<1>3. CASE Suspend(t, [task[t] EXCEPT
             !.pc = IF task[t].op = "new" THEN "create" ELSE "reload",
             !.bk = slots[task[t].slot].bk, !.res = "none"])
  <2>1. \A u \in Task, e \in Ext : Reloads(u, e)' <=> Reloads(u, e)
    BY <1>3 DEF AfterInit, Polled, Suspend, Reloads, TypeInv, Handlers, Handler
  <2> QED BY <1>1, <2>1, KeptStutters DEF SameReloads
<1> QED BY <1>2, <1>3 DEF AfterInit, Return

LEMMA AfterCreateStep ==
  ASSUME TypeInv, DirectoryInv, LifeRead, LifeRead', NEW t \in Task, AfterCreate(t)
  PROVE  LifecycleStep
<1>1. Finish(t) /\ \A e \in Ext : ~Reloads(t, e)
  BY DEF AfterCreate, Polled, Reloads
<1>2. SameReloads
  BY <1>1, OtherFinishes
<1>3. CASE task[t].res = "err"
  <2>1. MapsKept
    BY <1>3 DEF AfterCreate, MapsKept, Active, IsEvicted, history
  <2> QED BY <1>2, <2>1, KeptStutters
<1>4. CASE task[t].res = "ok"
  <2>1. PICK e \in Ext :
          /\ FreshExt(e)
          /\ RegisterSession(e, task[t].bsid, task[t].slot, task[t].fe)
          /\ issued' = [issued EXCEPT ![e] = task[t].bsid]
    BY <1>4 DEF AfterCreate
  <2>2. Minting(t) /\ task[t].bsid \in BSid
    BY <1>4 DEF AfterCreate, Polled, Minting, TypeInv, Handlers, Shape
  <2>3. \A d \in Ext : issued[d] # task[t].bsid
    BY <2>2 DEF DirectoryInv, MintedFresh
  <2>4. \A d \in Ext : d # e => /\ Active(d)' <=> Active(d)
                                /\ IsEvicted(d)' <=> IsEvicted(d)
                                /\ Reloading(d)' <=> Reloading(d)
                                /\ issued'[d] = issued[d]
    BY <1>2, <2>1 DEF AfterCreate, RegisterSession, Active, IsEvicted, Reloading,
                      SameReloads, TypeInv, TypeOK, PoolTypeOK
  <2>5. \A d \in Ext : d # e => LifeOf(d)' = LifeOf(d)
    BY <2>4, SamePlace
  <2>6. LifeOf(e) = "unissued"
    BY <2>1 DEF LifeRead, FreshExt
  <2>7. Active(e)'
    <3>1. [slot |-> task[t].slot, bsid |-> task[t].bsid, sender |-> task[t].fe,
           idle |-> FALSE] \in SessionEntry
      BY <2>2 DEF SessionEntry, Minting, TypeInv, Handlers, Shape
    <3> QED BY <2>1, <3>1, NilFacts DEF RegisterSession, Active, TypeInv, TypeOK, PoolTypeOK
  <2>8. LifeOf(e)' = "mapped"
    BY <2>7 DEF LifeRead
  <2>9. Lifecycle!Open(e, task[t].bsid)
    BY <2>1, <2>3, <2>5, <2>6, <2>8 DEF Lifecycle!Open
  <2> QED BY <2>2, <2>9 DEF LifecycleStep, Lifecycle!Next
<1> QED BY <1>3, <1>4 DEF AfterCreate

LEMMA AfterReloadStep ==
  ASSUME TypeInv, DirectoryInv, LifeRead, LifeRead', NEW t \in Task, AfterReload(t)
  PROVE  LifecycleStep
<1>1. PICK e \in Ext :
        /\ e = task[t].ext /\ Reloads(t, e)
        /\ task[t] \in Handler /\ task[t].fe \in Frontend /\ task[t].slot \in Slot
        /\ task[t].bsid \in BSid
  BY DEF AfterReload, Polled, TypeInv, Handlers, Shape, Reloads
<1>2. UNCHANGED <<evicted, issued>>
  BY DEF AfterReload
<1>3. CASE task[t].res # "ok"
  <2>1. Finish(t) /\ MapsKept
    BY <1>2, <1>3 DEF AfterReload, Return, MapsKept, Active, IsEvicted
  <2> QED BY <2>1, FinishLoses
<1>4. CASE task[t].res = "ok"
  <2>1. RegisterSession(e, task[t].bsid, task[t].slot, task[t].fe)
    BY <1>1, <1>4 DEF AfterReload
  <2>2. \A u \in Task, d \in Ext : Reloads(u, d)' <=> Reloads(u, d) /\ u # t
    <3>1. CASE Finish(t)
      BY <3>1 DEF Finish, NoHandler, Reloads, TypeInv, Handlers
    <3>2. CASE \E b : Suspend(t, [task[t] EXCEPT !.pc = "prompt", !.bk = b,
                                                 !.bsid = Nil, !.res = "none"])
      BY <1>1, <3>2 DEF Suspend, Reloads, TypeInv, Handlers, Handler
    <3> QED BY <3>1, <3>2 DEF AfterReload, Return
  <2>3. \A d \in Ext : d # e => (Reloading(d)' <=> Reloading(d))
    BY <1>1, <2>2 DEF Reloading, Reloads
  <2>4. \A d \in Ext : d # e => (Active(d)' <=> Active(d))
    BY <2>1 DEF RegisterSession, Active, TypeInv, TypeOK, PoolTypeOK
  <2>5. \A d \in Ext : d # e => LifeOf(d)' = LifeOf(d)
    BY <1>2, <2>3, <2>4, SamePlace DEF IsEvicted
  <2>6. LifeOf(e) = "reloading"
    BY <1>1 DEF LifeRead, Reloading
  <2>7. Active(e)'
    <3>1. [slot |-> task[t].slot, bsid |-> task[t].bsid, sender |-> task[t].fe,
           idle |-> FALSE] \in SessionEntry
      BY <1>1 DEF SessionEntry
    <3> QED BY <1>1, <2>1, <3>1, NilFacts
            DEF RegisterSession, Active, TypeInv, TypeOK, PoolTypeOK
  <2>8. LifeOf(e)' = "mapped"
    BY <2>7 DEF LifeRead
  <2> QED BY <1>2, <2>5, <2>6, <2>8, Moves
<1> QED BY <1>3, <1>4

LEMMA AfterCloseStep ==
  ASSUME TypeInv, DirectoryInv, LifeRead, LifeRead', NEW t \in Task, AfterClose(t)
  PROVE  LifecycleStep
<1>1. Finish(t) /\ (\A e \in Ext : ~Reloads(t, e)) /\ task[t].ext \in Ext
  BY DEF AfterClose, Polled, Reloads, TypeInv, Handlers, Shape
<1>2. SameReloads /\ UNCHANGED <<evicted, issued>>
  BY <1>1, OtherFinishes DEF AfterClose, history
<1>3. CASE task[t].res = "ok" /\ Active(task[t].ext)
  <2>1. PICK e \in Ext : e = task[t].ext
    BY <1>1
  <2>2. Active(e) /\ Unmap({e})
    BY <1>3, <2>1 DEF AfterClose, RemoveSession
  <2>3. \A d \in Ext : /\ Active(d)' <=> Active(d) /\ d # e
                       /\ IsEvicted(d)' <=> IsEvicted(d)
                       /\ Reloading(d)' <=> Reloading(d)
    BY <1>2, <2>2 DEF Unmap, Active, IsEvicted, Reloading, SameReloads
  <2>4. \A d \in Ext : d # e => LifeOf(d)' = LifeOf(d)
    BY <1>2, <2>3, SamePlace
  <2>5. LifeOf(e) = "mapped" /\ ~IsEvicted(e) /\ ~Reloading(e) /\ issued[e] # Nil
    BY <2>2 DEF LifeRead
  <2>6. LifeOf(e)' = "gone"
    BY <1>2, <2>3, <2>5 DEF LifeRead
  <2> QED BY <1>2, <2>4, <2>5, <2>6, Moves
<1>4. CASE ~(task[t].res = "ok" /\ Active(task[t].ext))
  <2>1. MapsKept
    BY <1>2, <1>4 DEF AfterClose, RemoveSession, MapsKept, Active, IsEvicted
  <2> QED BY <1>2, <2>1, KeptStutters
<1> QED BY <1>3, <1>4

-----------------------------------------------------------------------------
(* Deaths and maintenance. *)

LEMMA UnmapUnloads ==
  ASSUME LifeRead, LifeRead', NEW S \in SUBSET {e \in Ext : Active(e)},
         NEW P \in SUBSET Ext, TypeInv, Unmap(S), UNCHANGED issued, SameReloads,
         \A e \in P \ S : IsEvicted(e),
         \A e \in Ext : evicted'[e] = IF e \in P THEN Nil ELSE WithEvicted(S)[e]
  PROVE  LifecycleStep
<1>1. ASSUME NEW e \in Ext
      PROVE  /\ Active(e)' <=> Active(e) /\ e \notin S
             /\ Reloading(e)' <=> Reloading(e)
             /\ IsEvicted(e)' <=> e \notin P /\ (e \in S \/ IsEvicted(e))
  <2>1. e \in S => WithEvicted(S)[e] # Nil
    <3>1. e \in S => WithEvicted(S)[e] \in EvictedSession
      BY EntryTypes DEF WithEvicted, TypeInv, TypeOK, SessionEntry, EvictedSession
    <3> QED BY <3>1, NilFacts
  <2>2. e \notin S => WithEvicted(S)[e] = evicted[e]
    BY DEF WithEvicted
  <2> QED BY <2>1, <2>2 DEF Unmap, Active, IsEvicted, Reloading, SameReloads
<1>2. \A e \in S : LifeOf(e) = "mapped"
  BY DEF LifeRead
<1>3. \A e \in P \ S : LifeOf(e) = "evicted"
  BY DEF LifeRead
<1>4. ASSUME NEW e \in Ext
      PROVE  LifeOf(e)' = IF e \in P THEN "gone"
                          ELSE IF e \in S THEN "evicted" ELSE LifeOf(e)
  <2>1. CASE e \in P
    <3>1. LifeOf(e) \in {"mapped", "evicted"}
      BY <1>2, <1>3, <2>1
    <3>2. ~Reloading(e) /\ issued[e] # Nil /\ (Active(e) => e \in S)
      BY <1>3, <2>1, <3>1 DEF LifeRead
    <3> QED BY <1>1, <2>1, <3>2 DEF LifeRead
  <2>2. CASE e \notin P /\ e \in S
    BY <1>1, <2>2 DEF LifeRead
  <2>3. CASE e \notin P /\ e \notin S
    BY <1>1, <2>3, SamePlace
  <2> QED BY <2>1, <2>2, <2>3
<1>5. S \in SUBSET Ext
  OBVIOUS
<1> QED BY <1>2, <1>3, <1>4, <1>5, Unloads

LEMMA BackendEndsStep ==
  ASSUME TypeInv, DirectoryInv, LifeRead, LifeRead', NEW b \in Backend, BackendEnds(b)
  PROVE  LifecycleStep
<1> DEFINE S == SessionsOn(backend[b].slot)
<1>1. S \in SUBSET {e \in Ext : Active(e)}
  BY DEF SessionsOn
<1>2. SameReloads
  <2>1. \A t \in Task : /\ task'[t].pc = task[t].pc
                        /\ task'[t].op = task[t].op
                        /\ task'[t].ext = task[t].ext
    BY DEF BackendEnds, TypeInv, Handlers, Handler
  <2> QED BY <2>1 DEF SameReloads, Reloads
<1>3. Unmap(S) /\ UNCHANGED issued /\ evicted' = WithEvicted(S)
  BY DEF BackendEnds, HandleBackendDeath, history
<1> HIDE DEF S
<1> QED BY <1>1, <1>2, <1>3, UnmapUnloads, {} \in SUBSET Ext

LEMMA MaintenanceTickStep ==
  ASSUME TypeInv, DirectoryInv, LifeRead, LifeRead', MaintenanceTick
  PROVE  LifecycleStep
<1> DEFINE S == IdleSessions
<1>1. S \in SUBSET {e \in Ext : Active(e)}
  BY DEF IdleSessions
<1>2. SameReloads /\ UNCHANGED issued
  BY DEF MaintenanceTick, SameReloads, Reloads, history
<1>3. PICK P \in SUBSET Ext :
        /\ PurgedFrom(P, WithEvicted(S), S)
        /\ evicted' = [e \in Ext |-> IF e \in P THEN Nil ELSE WithEvicted(S)[e]]
  BY DEF MaintenanceTick, EvictAndPurge
<1>4. Unmap(S)
  BY DEF MaintenanceTick, EvictAndPurge
<1> HIDE DEF S
<1>5. \A e \in P \ S : IsEvicted(e)
  BY <1>3 DEF PurgedFrom, WithEvicted, IsEvicted
<1> QED BY <1>1, <1>2, <1>3, <1>4, <1>5, UnmapUnloads

LEMMA NextStep ==
  ASSUME TypeInv, DirectoryInv, LifeRead, LifeRead', [Next]_vars
  PROVE  LifecycleStep
<1>1. CASE Initialize \/ (\E b \in Backend : Supervise(b)) \/ Shutdown \/ UNCHANGED vars
  <2>1. UNCHANGED <<sessions, reverse, evicted, issued, task>>
    BY <1>1, BackendStepsFrame DEF history
  <2>2. MapsKept /\ SameReloads
    BY <2>1 DEF MapsKept, SameReloads, Reloads, Active, IsEvicted
  <2> QED BY <2>2, KeptStutters
<1>2. CASE \E t \in Task : Request(t)
  BY <1>2, RequestStep
<1>3. CASE \E t \in Task : Reply(t)
  BY <1>3, ReplyStep
<1>4. CASE \E t \in Task : Resume(t)
  <2>1. PICK t \in Task : Resume(t)
    BY <1>4
  <2>2. CASE AfterPrompt(t)
    <3>1. Finish(t) /\ MapsKept
      BY <2>2 DEF AfterPrompt, Return, MapsKept, Active, IsEvicted, history
    <3> QED BY <3>1, FinishLoses
  <2> QED BY <2>1, <2>2, AfterInitStep, AfterCreateStep, AfterReloadStep, AfterCloseStep
          DEF Resume
<1>5. CASE \E e \in Ext, f \in Frontend : Relay(e, f)
  <2>1. PICK e \in Ext, f \in Frontend : Relay(e, f)
    BY <1>5
  <2>2. MapsKept /\ SameReloads
    BY <2>1, StampKeepsMaps DEF Relay, history, SameReloads, Reloads
  <2> QED BY <2>2, KeptStutters
<1>6. CASE \E b \in Backend : BackendEnds(b)
  BY <1>6, BackendEndsStep
<1>7. CASE \E e \in Ext : GrowIdle(e)
  <2>1. PICK e \in Ext : GrowIdle(e)
    BY <1>7
  <2>2. MapsKept
    BY <2>1, GrowIdleKeepsMaps
  <2>3. SameReloads
    BY <2>1 DEF GrowIdle, SameReloads, Reloads
  <2> QED BY <2>2, <2>3, KeptStutters
<1>8. CASE MaintenanceTick
  BY <1>8, MaintenanceTickStep
<1> QED BY <1>1, <1>2, <1>3, <1>4, <1>5, <1>6, <1>7, <1>8 DEF Next

LEMMA InitLife == Init => Lifecycle!Init
<1> SUFFICES ASSUME Init PROVE Lifecycle!Init
  OBVIOUS
<1>1. \A e \in Ext : ~Active(e) /\ ~IsEvicted(e) /\ issued[e] = Nil
  BY DEF Init, PoolInit, Active, IsEvicted
<1>2. \A t \in Task, e \in Ext : ~Reloads(t, e)
  BY DEF Init, NoHandler, Reloads
<1>3. \A e \in Ext : LifeOf(e) = "unissued"
  BY <1>1, <1>2 DEF LifeOf
<1> QED BY <1>3 DEF Lifecycle!Init, Init

(* Whatever requests, answers, deaths and evictions interleave, each       *)
(* session moves only along its life cycle.                                *)
THEOREM LifecycleImplemented == Spec => ImplementsLifecycle
<1>1. LifeRead /\ LifeRead' /\ TypeInv /\ DirectoryInv /\ [Next]_vars => LifecycleStep
  BY NextStep
<1>2. Spec => []LifeRead
  BY TypeInvariant, DirectoryInvariant, LifeIsRead, PTL
<1> QED BY <1>1, <1>2, InitLife, TypeInvariant, DirectoryInvariant, PTL
        DEF Spec, ImplementsLifecycle, Lifecycle!Spec, LifecycleStep

-----------------------------------------------------------------------------
(* One prompt of a session at a time, while no process ends.  A running    *)
(* prompt handler is alone with its session: the session's flag is set,    *)
(* which refuses every other prompt, or the session was closed under it    *)
(* and is gone, which the life cycle makes final.  The death of a process  *)
(* is the one step that clears a flag and leaves the session reloadable.   *)

PromptsGuarded ==
  \A e \in Ext, t \in Task : Guards(t, e) =>
    /\ e \in inFlight \/ LifeOf(e) = "gone"
    /\ \A u \in Task : Guards(u, e) => u = t

(* Steps that start no prompt, and clear the flag of a guarded session     *)
(* only by ending it.                                                      *)
GuardsKept ==
  \A e \in Ext :
    /\ \A t \in Task : Guards(t, e)' => Guards(t, e)
    /\ e \in inFlight /\ e \notin inFlight' =>
         LifeOf(e)' = "gone" \/ \A t \in Task : ~Guards(t, e)'

LEMMA GoneForever ==
  ASSUME LifecycleStep, NEW e \in Ext, LifeOf(e) = "gone"
  PROVE  LifeOf(e)' = "gone"
BY DEF LifecycleStep, Lifecycle!Next, Lifecycle!Open, Lifecycle!Take, Lifecycle!Restore,
       Lifecycle!Lose, Lifecycle!Close, Lifecycle!Move, Lifecycle!Unload

LEMMA KeepGuards ==
  ASSUME PromptsGuarded, LifecycleStep, GuardsKept
  PROVE  PromptsGuarded'
BY GoneForever DEF PromptsGuarded, GuardsKept

(* A handler is suspended that is no prompt, or one that was under way.    *)
LEMMA SuspendGuards ==
  ASSUME TypeInv, NEW t \in Task, NEW h, Suspend(t, h),
         h.op = "prompt" => Running(t) /\ h.op = task[t].op /\ h.ext = task[t].ext,
         UNCHANGED inFlight
  PROVE  GuardsKept
BY DEF GuardsKept, Suspend, Guards, Running, TypeInv, Handlers

(* A prompt returns: its flag is cleared and nobody else relied on it.     *)
LEMMA ReturnGuards ==
  ASSUME TypeInv, PromptsGuarded, NEW t \in Task, Running(t), Return(t)
  PROVE  GuardsKept
<1>1. \A u \in Task, e \in Ext : Guards(u, e)' => Guards(u, e) /\ u # t
  BY DEF Return, Finish, NoHandler, Guards, Running, TypeInv, Handlers
<1>2. CASE task[t].op = "prompt"
  <2>1. task[t].ext \in Ext /\ Guards(t, task[t].ext)
    BY <1>2 DEF Guards, TypeInv, Handlers, Shape
  <2>2. inFlight' = inFlight \ {task[t].ext}
    BY <1>2 DEF Return, EndPrompt
  <2> QED BY <1>1, <2>1, <2>2 DEF GuardsKept, PromptsGuarded
<1>3. CASE task[t].op # "prompt"
  BY <1>1, <1>3 DEF GuardsKept, Return
<1> QED BY <1>2, <1>3

(* A prompt is accepted: the session was there and its flag was clear, so  *)
(* no other prompt of it is running.                                       *)
LEMMA BeginGuards ==
  ASSUME TypeInv, LifeRead, LifecycleStep, PromptsGuarded, NEW t \in Task, NEW e \in Ext,
         NEW f, NEW h, Suspend(t, h), BeginPrompt(e, f), ~Running(t),
         h.op = "prompt", h.ext = e, e \notin inFlight, Active(e) \/ IsEvicted(e)
  PROVE  PromptsGuarded'
<1>1. LifeOf(e) # "gone"
  BY DEF LifeRead
<1>2. \A u \in Task : ~Guards(u, e)
  BY <1>1 DEF PromptsGuarded
<1>3. \A u \in Task, d \in Ext : Guards(u, d)' => Guards(u, d) \/ (u = t /\ d = e)
  BY DEF Suspend, Guards, Running, TypeInv, Handlers
<1>4. inFlight' = inFlight \cup {e}
  BY DEF BeginPrompt
<1>5. ASSUME NEW d \in Ext, NEW u \in Task, Guards(u, d)'
      PROVE  d \in inFlight' \/ LifeOf(d)' = "gone"
  BY <1>3, <1>4, <1>5, GoneForever DEF PromptsGuarded
<1>6. ASSUME NEW d \in Ext, NEW u \in Task, NEW v \in Task, Guards(u, d)', Guards(v, d)'
      PROVE  v = u
  BY <1>2, <1>3, <1>6 DEF PromptsGuarded
<1> QED BY <1>5, <1>6 DEF PromptsGuarded

LEMMA RequestGuards ==
  ASSUME TypeInv, LifeRead, LifecycleStep, PromptsGuarded, NEW t \in Task, Request(t)
  PROVE  PromptsGuarded'
<1>1. ASSUME NEW h, Ready(h), h.op # "prompt", Acquire(t, h), UNCHANGED inFlight
      PROVE  GuardsKept
  BY <1>1, AcquireSuspends, SuspendGuards
<1>2. ASSUME UNCHANGED <<task, inFlight>> PROVE GuardsKept
  BY <1>2 DEF GuardsKept, Guards, Running
<1>3. ASSUME NEW e \in Ext, NEW f \in Frontend, NEW op \in {"load", "prompt"},
             TakeForReload(t, [NoHandler EXCEPT !.op = op, !.ext = e, !.fe = f])
      PROVE  \E h : Ready(h) /\ h.op = op /\ h.ext = e /\ Acquire(t, h) /\ IsEvicted(e)
  <2> DEFINE g == [NoHandler EXCEPT !.op = op, !.ext = e, !.fe = f]
             h == [g EXCEPT !.pc = "reload", !.bsid = evicted[e].bsid]
  <2>1. g.ext = e
    BY DEF NoHandler
  <2>2. IsEvicted(e) /\ Acquire(t, h)
    BY <1>3, <2>1 DEF TakeForReload
  <2>3. evicted[e].bsid \in BSid
    BY <2>2, EntryTypes DEF TypeInv, TypeOK, EvictedSession
  <2>4. Ready(h) /\ h.op = op /\ h.ext = e
    BY <2>3 DEF Ready, NoHandler, Handler
  <2> QED BY <2>2, <2>4
<1>4. ASSUME NEW f \in Frontend, NewSession(t, f) PROVE GuardsKept
  <2> DEFINE h == [NoHandler EXCEPT !.pc = "create", !.op = "new", !.fe = f]
  <2>1. Ready(h) /\ h.op = "new" /\ Acquire(t, h)
    BY <1>4 DEF Ready, NoHandler, Handler, NewSession
  <2> HIDE DEF h
  <2> QED BY <1>1, <1>4, <2>1 DEF NewSession
<1>5. ASSUME NEW e \in Ext, NEW f \in Frontend, LoadSession(t, e, f) PROVE GuardsKept
  <2>1. CASE TakeForReload(t, [NoHandler EXCEPT !.op = "load", !.ext = e, !.fe = f])
    <3>1. PICK h : Ready(h) /\ h.op = "load" /\ Acquire(t, h)
      BY <1>3, <2>1, Zenon
    <3> QED BY <1>1, <1>5, <3>1 DEF LoadSession
  <2>2. CASE UNCHANGED <<task, inFlight>>
    BY <1>2, <2>2
  <2> QED BY <1>5, <2>1, <2>2 DEF LoadSession
<1>6. ASSUME NEW e \in Ext, NEW f \in Frontend, PromptEvicted(t, e, f)
      PROVE  PromptsGuarded'
  <2>1. CASE UNCHANGED <<task, inFlight>>
    BY <1>2, <2>1, KeepGuards
  <2>2. CASE /\ TakeForReload(t, [NoHandler EXCEPT !.op = "prompt", !.ext = e, !.fe = f])
             /\ BeginPrompt(e, f)
    <3>1. PICK h : /\ Ready(h) /\ h.op = "prompt" /\ h.ext = e
                   /\ Acquire(t, h) /\ IsEvicted(e)
      BY <1>3, <2>2, Zenon
    <3>2. PICK g \in Handler : Suspend(t, g) /\ g.op = "prompt" /\ g.ext = e
      BY <3>1, AcquireSuspends
    <3>3. ~Running(t) /\ e \notin inFlight
      BY <1>6 DEF PromptEvicted
    <3> QED BY <2>2, <3>1, <3>2, <3>3, BeginGuards
  <2> QED BY <1>6, <2>1, <2>2 DEF PromptEvicted
<1>7. ASSUME NEW e \in Ext, NEW f \in Frontend, PromptActive(t, e, f)
      PROVE  PromptsGuarded'
  <2> DEFINE h == [NoHandler EXCEPT !.pc = "prompt", !.op = "prompt", !.ext = e,
                                    !.fe = f, !.slot = sessions[e].slot,
                                    !.bk = slots[sessions[e].slot].bk]
  <2>1. h.op = "prompt" /\ h.ext = e
    BY DEF NoHandler
  <2>2. /\ Suspend(t, h) /\ BeginPrompt(e, f) /\ ~Running(t)
        /\ e \notin inFlight /\ Active(e)
    BY <1>7 DEF PromptActive, Resolves
  <2> HIDE DEF h
  <2> QED BY <2>1, <2>2, BeginGuards
<1>8. ASSUME NEW e \in Ext, NEW f \in Frontend, NEW op \in {"fork", "close"},
             CallOnSession(t, e, f, op)
      PROVE  GuardsKept
  <2> DEFINE h == [NoHandler EXCEPT !.pc = op, !.op = op, !.ext = e, !.fe = f,
                                    !.slot = sessions[e].slot,
                                    !.bk = slots[sessions[e].slot].bk]
  <2>1. h.op # "prompt"
    BY DEF NoHandler
  <2>2. Suspend(t, h) /\ UNCHANGED inFlight
    BY <1>8 DEF CallOnSession
  <2> HIDE DEF h
  <2> QED BY <2>1, <2>2, SuspendGuards
<1> QED BY <1>4, <1>5, <1>6, <1>7, <1>8, KeepGuards DEF Request, ForkSession, CloseSession

LEMMA ResumeGuards ==
  ASSUME TypeInv, LifeRead, LifeRead', LifecycleStep, PromptsGuarded,
         NEW t \in Task, Resume(t)
  PROVE  GuardsKept
<1>0. task[t] \in Handler /\ Shape(task[t])
  BY DEF TypeInv, Handlers
<1>1. CASE AfterInit(t) /\ ~Return(t)
  <2> DEFINE h == [task[t] EXCEPT
                    !.pc = IF task[t].op = "new" THEN "create" ELSE "reload",
                    !.bk = slots[task[t].slot].bk, !.res = "none"]
  <2>1. Suspend(t, h) /\ UNCHANGED inFlight /\ Running(t)
    BY <1>1 DEF AfterInit, Polled, Running
  <2>2. h.op = task[t].op /\ h.ext = task[t].ext
    BY <1>0 DEF Handler
  <2> HIDE DEF h
  <2> QED BY <2>1, <2>2, SuspendGuards
<1>2. CASE AfterReload(t) /\ ~Return(t)
  <2>1. PICK b : /\ Suspend(t, [task[t] EXCEPT !.pc = "prompt", !.bk = b,
                                               !.bsid = Nil, !.res = "none"])
                 /\ UNCHANGED inFlight /\ Running(t)
    BY <1>2 DEF AfterReload, Polled, Running
  <2> DEFINE h == [task[t] EXCEPT !.pc = "prompt", !.bk = b, !.bsid = Nil, !.res = "none"]
  <2>2. h.op = task[t].op /\ h.ext = task[t].ext
    BY <1>0 DEF Handler
  <2>3. Suspend(t, h)
    BY <2>1
  <2> HIDE DEF h
  <2> QED BY <2>1, <2>2, <2>3, SuspendGuards
<1>3. CASE Return(t) /\ (AfterInit(t) \/ AfterReload(t) \/ AfterPrompt(t))
  <2>1. Running(t)
    BY <1>3 DEF AfterInit, AfterReload, AfterPrompt, Polled, Running
  <2> QED BY <1>3, <2>1, ReturnGuards
<1>4. CASE AfterCreate(t)
  <2>1. Suspend(t, NoHandler) /\ UNCHANGED inFlight /\ NoHandler.op # "prompt"
    BY <1>4 DEF AfterCreate, Finish, Suspend, NoHandler
  <2> QED BY <2>1, SuspendGuards
<1>5. CASE AfterClose(t)
  <2>1. Suspend(t, NoHandler) /\ NoHandler.op # "prompt" /\ UNCHANGED evicted
    BY <1>5 DEF AfterClose, Finish, Suspend, NoHandler
  <2>2. CASE UNCHANGED inFlight
    BY <2>1, <2>2, SuspendGuards
  <2>3. CASE Active(task[t].ext) /\ RemoveSession(task[t].ext)
    <3>1. PICK e \in Ext : e = task[t].ext
      BY <1>0, <1>5 DEF AfterClose, Polled, Shape
    <3>2. inFlight' = inFlight \ {e} /\ ~Active(e)'
      BY <2>3, <3>1 DEF RemoveSession, Unmap, EndPrompt, Active
    <3>3. LifeOf(e) = "mapped" /\ ~IsEvicted(e)'
      BY <2>1, <2>3, <3>1 DEF LifeRead, IsEvicted
    <3>4. LifeOf(e)' \notin {"mapped", "evicted"}
      BY <3>1, <3>2, <3>3 DEF LifeRead
    <3>5. LifeOf(e)' = "gone"
      BY <3>1, <3>3, <3>4
         DEF LifecycleStep, Lifecycle!Next, Lifecycle!Open, Lifecycle!Take, Lifecycle!Restore,
             Lifecycle!Lose, Lifecycle!Close, Lifecycle!Move, Lifecycle!Unload
    <3>6. \A u \in Task, d \in Ext : Guards(u, d)' => Guards(u, d)
      BY <2>1 DEF Suspend, Guards, Running, TypeInv, Handlers
    <3> QED BY <3>1, <3>2, <3>5, <3>6 DEF GuardsKept
  <2> QED BY <1>5, <2>2, <2>3 DEF AfterClose, RemoveSession
<1> QED BY <1>1, <1>2, <1>3, <1>4, <1>5 DEF Resume, AfterPrompt

LEMMA NextGuards ==
  ASSUME TypeInv, LifeRead, LifeRead', LifecycleStep, PromptsGuarded,
         [Next]_vars, [\A b \in Backend : ~BackendEnds(b)]_vars
  PROVE  PromptsGuarded'
<1>1. ASSUME UNCHANGED <<task, inFlight>> PROVE PromptsGuarded'
  BY <1>1, KeepGuards DEF GuardsKept, Guards, Running
<1>2. CASE \E t \in Task : Request(t)
  BY <1>2, RequestGuards
<1>3. CASE \E t \in Task : Resume(t)
  BY <1>3, ResumeGuards, KeepGuards
<1>4. ASSUME NEW t \in Task, Reply(t) PROVE PromptsGuarded'
  <2>1. \A u \in Task : /\ task'[u].pc = "idle" <=> task[u].pc = "idle"
                        /\ task'[u].op = task[u].op /\ task'[u].ext = task[u].ext
    <3>1. task[t] \in Handler
      BY DEF TypeInv, Handlers
    <3>2. ASSUME NEW h, Suspend(t, h), h.pc = task[t].pc, h.op = task[t].op,
                 h.ext = task[t].ext
          PROVE  \A u \in Task : /\ task'[u].pc = task[u].pc
                                 /\ task'[u].op = task[u].op /\ task'[u].ext = task[u].ext
      BY <3>2 DEF Suspend, TypeInv, Handlers
    <3>3. \E h : Suspend(t, h) /\ h.pc = task[t].pc /\ h.op = task[t].op /\ h.ext = task[t].ext
      <4>1. CASE \E r \in {"ok", "err"} : Suspend(t, [task[t] EXCEPT !.res = r])
        BY <3>1, <4>1 DEF Handler
      <4>2. CASE \E b : Suspend(t, [task[t] EXCEPT !.res = "ok", !.bsid = b])
        <5>1. PICK b : Suspend(t, [task[t] EXCEPT !.res = "ok", !.bsid = b])
          BY <4>2
        <5>2. LET h == [task[t] EXCEPT !.res = "ok", !.bsid = b]
              IN  h.pc = task[t].pc /\ h.op = task[t].op /\ h.ext = task[t].ext
          BY <3>1 DEF Handler
        <5> QED BY <5>1, <5>2
      <4> QED BY <1>4, <4>1, <4>2 DEF Reply
    <3> QED BY <3>2, <3>3
  <2>2. UNCHANGED inFlight
    BY <1>4 DEF Reply, poolVars
  <2> QED BY <2>1, <2>2, KeepGuards DEF GuardsKept, Guards, Running
<1>5. CASE Initialize \/ (\E b \in Backend : Supervise(b)) \/ Shutdown \/ UNCHANGED vars
  BY <1>1, <1>5, BackendStepsFrame
<1>6. CASE MaintenanceTick
  BY <1>1, <1>6 DEF MaintenanceTick, EvictAndPurge
<1>7. CASE \/ \E e \in Ext : GrowIdle(e)
           \/ \E e \in Ext, f \in Frontend : Relay(e, f)
  BY <1>1, <1>7 DEF GrowIdle, Relay
<1>8. CASE \E b \in Backend : BackendEnds(b)
  BY <1>1, <1>8 DEF vars, poolVars
<1> QED BY <1>2, <1>3, <1>4, <1>5, <1>6, <1>7, <1>8 DEF Next

LEMMA PromptsGuardedInvariant == Spec /\ NoBackendEnds => []PromptsGuarded
<1>1. Init => PromptsGuarded
  BY DEF Init, NoHandler, PromptsGuarded, Guards, Running
<1>2. LifeRead /\ LifeRead' /\ TypeInv /\ DirectoryInv /\ [Next]_vars => LifecycleStep
  BY NextStep
<1>3. /\ TypeInv /\ LifeRead /\ LifeRead' /\ LifecycleStep /\ PromptsGuarded
      /\ [Next]_vars /\ [\A b \in Backend : ~BackendEnds(b)]_vars
      => PromptsGuarded'
  BY NextGuards
<1>4. Spec => []LifeRead
  BY TypeInvariant, DirectoryInvariant, LifeIsRead, PTL
<1> QED BY <1>1, <1>2, <1>3, <1>4, TypeInvariant, DirectoryInvariant, PTL
        DEF Spec, NoBackendEnds

(* While no process ends, at most one prompt of a session is with the      *)
(* agents, whatever is evicted, reloaded or closed meanwhile, under either *)
(* strategy.                                                               *)
THEOREM PromptsOneByOne == Spec /\ NoBackendEnds => []OnePromptPerSession
<1>1. TypeInv /\ PromptsGuarded => OnePromptPerSession
  BY DEF OnePromptPerSession, PromptsGuarded, Guards, Running, TypeInv, Handlers, Shape
<1> QED BY <1>1, PromptsGuardedInvariant, TypeInvariant, PTL

(* While no process ends, the callbacks of a prompt go to the frontend     *)
(* that sent it for as long as one is pinned: the pinned sender belongs to *)
(* a running prompt of the session, and there is only one.                 *)
THEOREM CallbacksPinned == Spec /\ NoBackendEnds => []PinnedCallbacks
<1>1. TypeInv /\ PromptsGuarded /\ PromptFlagOwned => PinnedCallbacks
  BY DEF PinnedCallbacks, PromptsGuarded, PromptFlagOwned, RouteFrontend, Guards, Running,
         TypeInv, Handlers, Shape
<1> QED BY <1>1, PromptsGuardedInvariant, FlagsOwned, TypeInvariant, PTL

=============================================================================
