---------------------------- MODULE GatewayLedger ----------------------------
(***************************************************************************)
(* The two ledgers the pool keeps beside the directory: the prompt flags,  *)
(* each held by a running handler that will clear it, and the session      *)
(* counts of the slots, which never exceed the sessions mapped there.      *)
(*                                                                         *)
(* The flags are inductive with the handlers' shapes.  The counts need the *)
(* directory: a registration may raise a count only because the session it *)
(* registers was not mapped before, which is OnePlace.                     *)
(***************************************************************************)
EXTENDS GatewayDirectory

-----------------------------------------------------------------------------
(* Prompt flags. *)

(* Steps that set no flag, and end a prompt handler only with its flag.    *)
FlagsKept ==
  \A e \in Ext :
    /\ e \in inFlight' => e \in inFlight
    /\ promptSenders'[e] \in {Nil, promptSenders[e]}
    /\ e \notin inFlight' => promptSenders'[e] = Nil
    /\ e \in inFlight' => \A t \in Task : Guards(t, e) => Guards(t, e)' /\ task'[t].fe = task[t].fe

LEMMA KeepFlags ==
  ASSUME PromptFlagOwned, FlagsKept
  PROVE  PromptFlagOwned'
<1>1. ASSUME NEW e \in Ext, e \in inFlight'
      PROVE  \E t \in Task : Guards(t, e)'
  BY <1>1 DEF PromptFlagOwned, FlagsKept
<1>2. ASSUME NEW e \in Ext, promptSenders'[e] # Nil
      PROVE  /\ e \in inFlight'
             /\ \E t \in Task : Guards(t, e)' /\ task'[t].fe = promptSenders'[e]
  BY <1>2 DEF PromptFlagOwned, FlagsKept
<1> QED BY <1>1, <1>2 DEF PromptFlagOwned

(* A session without a flag has no pinned sender. *)
LEMMA NoFlagNoSender ==
  ASSUME PromptFlagOwned, NEW e \in Ext, e \notin inFlight
  PROVE  promptSenders[e] = Nil
BY DEF PromptFlagOwned

(* A handler goes on, or a request suspends that is not a prompt. *)
LEMMA SuspendKeepsFlags ==
  ASSUME TypeInv, PromptFlagOwned, NEW t \in Task, NEW h, Suspend(t, h),
         \/ ~Running(t)
         \/ /\ h.pc # "idle" /\ h.op = task[t].op
            /\ h.ext = task[t].ext /\ h.fe = task[t].fe
         \/ task[t].op # "prompt",
         UNCHANGED <<inFlight, promptSenders>>
  PROVE  FlagsKept
<1>1. ASSUME NEW e \in Ext, NEW u \in Task, Guards(u, e)
      PROVE  Guards(u, e)' /\ task'[u].fe = task[u].fe
  BY <1>1 DEF Suspend, Guards, Running, TypeInv, Handlers
<1> QED BY <1>1, NoFlagNoSender DEF FlagsKept

LEMMA ReturnKeepsFlags ==
  ASSUME TypeInv, PromptFlagOwned, NEW t \in Task, Return(t)
  PROVE  FlagsKept
<1>1. ASSUME NEW e \in Ext, NEW u \in Task, u # t, Guards(u, e)
      PROVE  Guards(u, e)' /\ task'[u].fe = task[u].fe
  BY <1>1 DEF Return, Finish, Guards, Running, TypeInv, Handlers
<1>2. CASE task[t].op = "prompt"
  <2>1. task[t].ext \in Ext
    BY <1>2 DEF TypeInv, Handlers, Shape
  <2>2. /\ inFlight' = inFlight \ {task[t].ext}
        /\ promptSenders' = [promptSenders EXCEPT ![task[t].ext] = Nil]
    BY <1>2 DEF Return, EndPrompt
  <2>3. \A e \in Ext : Guards(t, e) => e = task[t].ext
    BY DEF Guards
  <2> QED BY <1>1, <2>1, <2>2, <2>3, NoFlagNoSender
          DEF FlagsKept, TypeInv, TypeOK, PoolTypeOK
<1>3. CASE task[t].op # "prompt"
  <2>1. \A e \in Ext : ~Guards(t, e)
    BY <1>3 DEF Guards
  <2> QED BY <1>1, <1>3, <2>1, NoFlagNoSender DEF FlagsKept, Return
<1> QED BY <1>2, <1>3

LEMMA FinishKeepsFlags ==
  ASSUME TypeInv, PromptFlagOwned, NEW t \in Task, Finish(t), task[t].op # "prompt",
         UNCHANGED <<inFlight, promptSenders>>
  PROVE  FlagsKept
BY SuspendKeepsFlags DEF Finish, Suspend

(* A prompt accepted: the handler that sets the flag guards it. *)
LEMMA BeginFlags ==
  ASSUME TypeInv, PromptFlagOwned, NEW t \in Task, NEW e \in Ext, NEW f \in Frontend,
         NEW h, Suspend(t, h), BeginPrompt(e, f), ~Running(t),
         h.pc # "idle", h.op = "prompt", h.ext = e, h.fe = f
  PROVE  PromptFlagOwned'
<1>1. Guards(t, e)' /\ task'[t].fe = f
  BY DEF Suspend, Guards, Running, TypeInv, Handlers
<1>2. \A u \in Task, d \in Ext : Guards(u, d) => Guards(u, d)' /\ task'[u] = task[u]
  BY DEF Suspend, Guards, Running, TypeInv, Handlers
<1>3. /\ inFlight' = inFlight \cup {e}
      /\ \A d \in Ext : promptSenders'[d] = IF d = e THEN f ELSE promptSenders[d]
  BY DEF BeginPrompt, TypeInv, TypeOK, PoolTypeOK
<1>4. ASSUME NEW d \in Ext, d \in inFlight'
      PROVE  \E u \in Task : Guards(u, d)'
  BY <1>1, <1>2, <1>3, <1>4 DEF PromptFlagOwned
<1>5. ASSUME NEW d \in Ext, promptSenders'[d] # Nil
      PROVE  /\ d \in inFlight'
             /\ \E u \in Task : Guards(u, d)' /\ task'[u].fe = promptSenders'[d]
  BY <1>1, <1>2, <1>3, <1>5 DEF PromptFlagOwned
<1> QED BY <1>4, <1>5 DEF PromptFlagOwned

(* Steps of no handler that only clear flags together with their senders. *)
LEMMA ClearKeepsFlags ==
  ASSUME TypeInv, PromptFlagOwned,
         \A t \in Task : /\ task'[t].pc = task[t].pc /\ task'[t].op = task[t].op
                         /\ task'[t].ext = task[t].ext /\ task'[t].fe = task[t].fe,
         NEW S \in SUBSET Ext, NEW T \in SUBSET S,
         ClearSenders(S), inFlight' = inFlight \ T
  PROVE  PromptFlagOwned'
<1>1. \A e \in Ext, t \in Task : Guards(t, e) => Guards(t, e)' /\ task'[t].fe = task[t].fe
  BY DEF Guards, Running
<1>2. FlagsKept
  BY <1>1, NoFlagNoSender DEF FlagsKept, ClearSenders
<1> QED BY <1>2, KeepFlags

LEMMA RequestFlags ==
  ASSUME TypeInv, PromptFlagOwned, NEW t \in Task, Request(t)
  PROVE  PromptFlagOwned'
<1>1. ASSUME NEW f \in Frontend, NewSession(t, f) PROVE PromptFlagOwned'
  <2>1. \E h : Suspend(t, h)
    BY <1>1 DEF NewSession, Acquire
  <2> QED BY <1>1, <2>1, SuspendKeepsFlags, KeepFlags DEF NewSession
<1>2. ASSUME UNCHANGED <<task, inFlight, promptSenders>> PROVE PromptFlagOwned'
  BY <1>2 DEF PromptFlagOwned, Guards, Running
<1>3. ASSUME NEW e \in Ext, NEW f \in Frontend, LoadSession(t, e, f) PROVE PromptFlagOwned'
  <2>1. (\E h : Suspend(t, h)) \/ UNCHANGED task
    BY <1>3 DEF LoadSession, TakeForReload, Acquire
  <2> QED BY <1>2, <1>3, <2>1, SuspendKeepsFlags, KeepFlags DEF LoadSession
<1>4. ASSUME NEW e \in Ext, NEW f \in Frontend, PromptEvicted(t, e, f)
      PROVE  PromptFlagOwned'
  <2>1. CASE UNCHANGED <<task, inFlight, promptSenders>>
    BY <1>2, <2>1
  <2>2. CASE /\ TakeForReload(t, [NoHandler EXCEPT !.op = "prompt", !.ext = e, !.fe = f])
             /\ BeginPrompt(e, f)
    <3> DEFINE g == [NoHandler EXCEPT !.op = "prompt", !.ext = e, !.fe = f]
               h == [g EXCEPT !.pc = "reload", !.bsid = evicted[e].bsid]
    <3>1. g.ext = e
      BY DEF NoHandler
    <3>2. IsEvicted(e) /\ Acquire(t, h)
      BY <2>2, <3>1 DEF TakeForReload
    <3>3. evicted[e].bsid \in BSid
      BY <3>2, EntryTypes DEF TypeInv, TypeOK, EvictedSession
    <3>4. Ready(h) /\ h.op = "prompt" /\ h.ext = e /\ h.fe = f /\ h.pc = "reload"
      BY <3>3 DEF Ready, NoHandler, Handler
    <3> HIDE DEF h
    <3>5. PICK k \in Handler : /\ Suspend(t, k) /\ k.pc \in {"init", "reload"}
                               /\ k.op = "prompt" /\ k.ext = e /\ k.fe = f
      BY <3>2, <3>4, AcquireSuspends
    <3>6. ~Running(t)
      BY <1>4 DEF PromptEvicted
    <3> QED BY <2>2, <3>5, <3>6, BeginFlags
  <2> QED BY <1>4, <2>1, <2>2 DEF PromptEvicted
<1>5. ASSUME NEW e \in Ext, NEW f \in Frontend, PromptActive(t, e, f)
      PROVE  PromptFlagOwned'
  <2> DEFINE h == [NoHandler EXCEPT !.pc = "prompt", !.op = "prompt", !.ext = e,
                                    !.fe = f, !.slot = sessions[e].slot,
                                    !.bk = slots[sessions[e].slot].bk]
  <2>1. h.pc = "prompt" /\ h.op = "prompt" /\ h.ext = e /\ h.fe = f
    BY DEF NoHandler
  <2>2. Suspend(t, h) /\ BeginPrompt(e, f) /\ ~Running(t)
    BY <1>5 DEF PromptActive
  <2> HIDE DEF h
  <2> QED BY <2>1, <2>2, BeginFlags
<1>6. ASSUME NEW e \in Ext, NEW f \in Frontend, NEW op, CallOnSession(t, e, f, op)
      PROVE  PromptFlagOwned'
  BY <1>6, SuspendKeepsFlags, KeepFlags DEF CallOnSession
<1> QED BY <1>1, <1>3, <1>4, <1>5, <1>6 DEF Request, ForkSession, CloseSession

LEMMA ReplyFlags ==
  ASSUME TypeInv, PromptFlagOwned, NEW t \in Task, Reply(t)
  PROVE  PromptFlagOwned'
<1>1. task[t] \in Handler /\ Running(t)
  BY DEF TypeInv, Handlers, Reply
<1>2. \E h : /\ Suspend(t, h) /\ h.pc = task[t].pc /\ h.op = task[t].op
             /\ h.ext = task[t].ext /\ h.fe = task[t].fe
  <2>1. CASE \E r \in {"ok", "err"} : Suspend(t, [task[t] EXCEPT !.res = r])
    BY <1>1, <2>1 DEF Handler
  <2>2. CASE \E b : Suspend(t, [task[t] EXCEPT !.res = "ok", !.bsid = b])
    <3>1. PICK b : Suspend(t, [task[t] EXCEPT !.res = "ok", !.bsid = b])
      BY <2>2
    <3>2. LET h == [task[t] EXCEPT !.res = "ok", !.bsid = b]
          IN  /\ h.pc = task[t].pc /\ h.op = task[t].op
              /\ h.ext = task[t].ext /\ h.fe = task[t].fe
      BY <1>1 DEF Handler
    <3> QED BY <3>1, <3>2
  <2> QED BY <2>1, <2>2 DEF Reply
<1> QED BY <1>1, <1>2, SuspendKeepsFlags, KeepFlags DEF Reply, poolVars, Running

LEMMA ResumeFlags ==
  ASSUME TypeInv, PromptFlagOwned, NEW t \in Task, Resume(t)
  PROVE  PromptFlagOwned'
<1>0. task[t] \in Handler /\ Shape(task[t])
  BY DEF TypeInv, Handlers
<1>1. CASE AfterInit(t)
  <2>1. CASE Return(t)
    BY <2>1, ReturnKeepsFlags, KeepFlags
  <2>2. CASE ~Return(t)
    <3> DEFINE h == [task[t] EXCEPT
                      !.pc = IF task[t].op = "new" THEN "create" ELSE "reload",
                      !.bk = slots[task[t].slot].bk, !.res = "none"]
    <3>1. Suspend(t, h) /\ UNCHANGED <<inFlight, promptSenders>>
      BY <1>1, <2>2 DEF AfterInit
    <3>2. /\ h.pc # "idle" /\ h.op = task[t].op /\ h.ext = task[t].ext
          /\ h.fe = task[t].fe
      BY <1>0 DEF Handler
    <3> HIDE DEF h
    <3> QED BY <3>1, <3>2, SuspendKeepsFlags, KeepFlags
  <2> QED BY <2>1, <2>2
<1>2. CASE AfterCreate(t)
  BY <1>0, <1>2, FinishKeepsFlags, KeepFlags DEF AfterCreate, Polled, Shape
<1>3. CASE AfterReload(t)
  <2>1. CASE Return(t)
    BY <2>1, ReturnKeepsFlags, KeepFlags
  <2>2. CASE ~Return(t)
    <3>1. PICK b : /\ Suspend(t, [task[t] EXCEPT !.pc = "prompt", !.bk = b,
                                                 !.bsid = Nil, !.res = "none"])
                   /\ UNCHANGED <<inFlight, promptSenders>>
      BY <1>3, <2>2 DEF AfterReload
    <3>2. LET h == [task[t] EXCEPT !.pc = "prompt", !.bk = b, !.bsid = Nil,
                                   !.res = "none"]
          IN  /\ h.pc # "idle" /\ h.op = task[t].op /\ h.ext = task[t].ext
              /\ h.fe = task[t].fe
      BY <1>0 DEF Handler
    <3> QED BY <3>1, <3>2, SuspendKeepsFlags, KeepFlags
  <2> QED BY <2>1, <2>2
<1>4. CASE AfterPrompt(t)
  BY <1>4, ReturnKeepsFlags, KeepFlags DEF AfterPrompt
<1>5. CASE AfterClose(t)
  <2>1. Finish(t) /\ task[t].op = "close"
    BY <1>0, <1>5 DEF AfterClose, Polled, Shape
  <2>2. CASE UNCHANGED <<inFlight, promptSenders>>
    BY <2>1, <2>2, FinishKeepsFlags, KeepFlags
  <2>3. CASE EndPrompt(task[t].ext)
    <3>1. \A e \in Ext, u \in Task : Guards(u, e) => Guards(u, e)' /\ task'[u] = task[u]
      BY <2>1 DEF Finish, Guards, Running, TypeInv, Handlers
    <3>2. FlagsKept
      BY <2>3, <3>1, NoFlagNoSender DEF FlagsKept, EndPrompt, TypeInv, TypeOK, PoolTypeOK
    <3> QED BY <3>2, KeepFlags
  <2> QED BY <1>5, <2>2, <2>3 DEF AfterClose, RemoveSession
<1> QED BY <1>1, <1>2, <1>3, <1>4, <1>5 DEF Resume

LEMMA NextFlags == TypeInv /\ PromptFlagOwned /\ [Next]_vars => PromptFlagOwned'
<1> SUFFICES ASSUME TypeInv, PromptFlagOwned, [Next]_vars PROVE PromptFlagOwned'
  OBVIOUS
<1>1. CASE UNCHANGED <<task, inFlight, promptSenders>>
  BY <1>1 DEF PromptFlagOwned, Guards, Running
<1>2. CASE \E t \in Task : Request(t) \/ Reply(t) \/ Resume(t)
  BY <1>2, RequestFlags, ReplyFlags, ResumeFlags
<1>3. CASE \E b \in Backend : BackendEnds(b)
  <2>1. PICK b \in Backend : BackendEnds(b)
    BY <1>3
  <2>2. ASSUME NEW t \in Task
        PROVE  /\ task'[t].pc = task[t].pc /\ task'[t].op = task[t].op
               /\ task'[t].ext = task[t].ext /\ task'[t].fe = task[t].fe
    BY <2>1 DEF BackendEnds, TypeInv, Handlers, Handler
  <2>3. SessionsOn(backend[b].slot) \in SUBSET Ext
    BY DEF SessionsOn
  <2> QED BY <2>1, <2>2, <2>3, ClearKeepsFlags DEF BackendEnds, HandleBackendDeath
<1>4. CASE MaintenanceTick
  <2>1. IdleSessions \in SUBSET Ext /\ {} \in SUBSET IdleSessions
    BY DEF IdleSessions
  <2>2. /\ ClearSenders(IdleSessions) /\ inFlight' = inFlight \ {}
        /\ \A t \in Task : task'[t] = task[t]
    BY <1>4 DEF MaintenanceTick, EvictAndPurge
  <2> QED BY <2>1, <2>2, ClearKeepsFlags
<1>5. CASE Initialize \/ (\E b \in Backend : Supervise(b)) \/ Shutdown \/ UNCHANGED vars
  BY <1>1, <1>5, BackendStepsFrame
<1>6. CASE \/ \E e \in Ext : GrowIdle(e)
           \/ \E e \in Ext, f \in Frontend : Relay(e, f)
  BY <1>1, <1>6 DEF GrowIdle, Relay
<1> QED BY <1>2, <1>3, <1>4, <1>5, <1>6 DEF Next

(* No prompt flag is leaked: whoever returns, dies, is evicted or closed   *)
(* meanwhile, a flag that is set is guarded by a running prompt handler,   *)
(* and callbacks are pinned to the frontend of such a handler.             *)
THEOREM FlagsOwned == Spec => []PromptFlagOwned
<1>1. Init => PromptFlagOwned
  BY DEF Init, PoolInit, PromptFlagOwned
<1> QED BY <1>1, NextFlags, TypeInvariant, PTL DEF Spec

-----------------------------------------------------------------------------
(* Session counts. *)

LEMMA SessionsOnFinite ==
  /\ \A s : IsFiniteSet(SessionsOn(s)) /\ Cardinality(SessionsOn(s)) \in Nat
  /\ \A s : IsFiniteSet(SessionsOn(s))' /\ (Cardinality(SessionsOn(s)) \in Nat)'
<1>1. \A s : SessionsOn(s) \in SUBSET Ext
  BY DEF SessionsOn
<1>2. \A s : SessionsOn(s)' \in SUBSET Ext
  BY DEF SessionsOn
<1> QED BY <1>1, <1>2, PoolAssumption, FS_Subset, FS_CardinalityType

(* Steps that move no session and count none. *)
LEMMA KeepCounts ==
  ASSUME TypeInv, NeverOvercount,
         \A e \in Ext : /\ Active(e)' <=> Active(e)
                        /\ Active(e) => sessions'[e].slot = sessions[e].slot,
         \A s \in Slot : Populated(s)' =>
            slots'[s].count = 0 \/ (Populated(s) /\ slots'[s].count = slots[s].count)
  PROVE  NeverOvercount'
<1>1. \A s : SessionsOn(s)' = SessionsOn(s)
  BY DEF SessionsOn
<1>2. ASSUME NEW s \in Slot, Populated(s)'
      PROVE  slots'[s].count <= Cardinality(SessionsOn(s)')
  <2>1. CASE slots'[s].count = 0
    BY <1>1, <2>1, SessionsOnFinite
  <2>2. CASE Populated(s) /\ slots'[s].count = slots[s].count
    BY <1>1, <2>2 DEF NeverOvercount
  <2> QED BY <1>2, <2>1, <2>2
<1> QED BY <1>2 DEF NeverOvercount

LEMMA InsertKeepsCounts ==
  ASSUME TypeInv, NEW s, NEW b \in Backend, InsertSlot(s, b)
  PROVE  \A r \in Slot : Populated(r)' =>
            slots'[r].count = 0 \/ (Populated(r) /\ slots'[r].count = slots[r].count)
<1> TAKE r \in Slot
<1> HAVE Populated(r)'
<1>1. CASE r = s
  <2>1. slots'[s] = [bk |-> b, count |-> 0, alive |-> TRUE]
    BY <1>1 DEF InsertSlot, TypeInv, TypeOK, PoolTypeOK
  <2> QED BY <1>1, <2>1
<1>2. CASE r # s
  <2>1. slots'[r] = slots[r]
    BY <1>2 DEF InsertSlot, TypeInv, TypeOK, PoolTypeOK
  <2> QED BY <2>1 DEF Populated
<1> QED BY <1>1, <1>2

(* Registering a session that is not mapped raises one count by one. *)
LEMMA RegisterCounts ==
  ASSUME TypeInv, NeverOvercount, NEW e \in Ext, NEW b \in BSid, NEW s \in Slot,
         NEW f \in Frontend, RegisterSession(e, b, s, f), ~Active(e)
  PROVE  NeverOvercount'
<1> DEFINE entry == [slot |-> s, bsid |-> b, sender |-> f, idle |-> FALSE]
<1>1. entry # Nil /\ entry.slot = s
  <2>1. entry \in SessionEntry
    BY DEF SessionEntry
  <2> QED BY <2>1, NilFacts
<1>2. \A d \in Ext : sessions'[d] = IF d = e THEN entry ELSE sessions[d]
  BY DEF RegisterSession, TypeInv, TypeOK, PoolTypeOK
<1> HIDE DEF entry
<1>3. \A r : r # s => SessionsOn(r)' = SessionsOn(r)
  BY <1>1, <1>2 DEF SessionsOn, Active
<1>4. SessionsOn(s)' = SessionsOn(s) \cup {e} /\ e \notin SessionsOn(s)
  BY <1>1, <1>2 DEF SessionsOn, Active
<1>5. Cardinality(SessionsOn(s)') = Cardinality(SessionsOn(s)) + 1
  BY <1>4, SessionsOnFinite, FS_AddElement
<1>6. ASSUME NEW r \in Slot, Populated(r)'
      PROVE  slots'[r].count <= Cardinality(SessionsOn(r)')
  <2>1. CASE ~Populated(s)
    BY <1>3, <1>6, <2>1 DEF RegisterSession, NeverOvercount, Populated
  <2>2. CASE Populated(s)
    <3>1. slots[s] \in BackendSlot
      BY <2>2, EntryTypes DEF TypeInv, TypeOK
    <3>2. slots' = [slots EXCEPT ![s] = [slots[s] EXCEPT !.count = slots[s].count + 1]]
      BY <2>2 DEF RegisterSession, TypeInv, TypeOK, PoolTypeOK
    <3>3. slots'[s].count = slots[s].count + 1 /\ \A q \in Slot : q # s => slots'[q] = slots[q]
      BY <3>1, <3>2 DEF BackendSlot, TypeInv, TypeOK, PoolTypeOK
    <3>4. CASE r = s
      <4>1. slots[s].count <= Cardinality(SessionsOn(s)) /\ slots[s].count \in Nat
        BY <2>2, <3>1 DEF NeverOvercount, BackendSlot
      <4> QED BY <1>5, <3>3, <3>4, <4>1, SessionsOnFinite
    <3>5. CASE r # s
      BY <1>3, <1>6, <3>3, <3>5 DEF NeverOvercount, Populated
    <3> QED BY <3>4, <3>5
  <2> QED BY <2>1, <2>2
<1> QED BY <1>6 DEF NeverOvercount

(* Removing a session lowers the count of its slot, or leaves it at zero. *)
LEMMA RemoveCounts ==
  ASSUME TypeInv, NeverOvercount, NEW e \in Ext, RemoveSession(e), Active(e)
  PROVE  NeverOvercount'
<1>1. PICK s : s = sessions[e].slot
  OBVIOUS
<1>2. s \in Slot
  BY <1>1, EntryTypes DEF TypeInv, TypeOK, SessionEntry
<1>3. \A d \in Ext : sessions'[d] = IF d = e THEN Nil ELSE sessions[d]
  BY DEF RemoveSession, Unmap
<1>4. \A r : SessionsOn(r)' = SessionsOn(r) \ {e}
  BY <1>3 DEF SessionsOn, Active
<1>5. \A r : r # s => SessionsOn(r)' = SessionsOn(r)
  BY <1>1, <1>4 DEF SessionsOn
<1>6. Cardinality(SessionsOn(s)') = Cardinality(SessionsOn(s)) - 1
  <2>1. e \in SessionsOn(s)
    BY <1>1 DEF SessionsOn
  <2> QED BY <1>4, <2>1, SessionsOnFinite, FS_RemoveElement
<1>7. ASSUME NEW r \in Slot, Populated(r)'
      PROVE  slots'[r].count <= Cardinality(SessionsOn(r)')
  <2>1. CASE ~Populated(s)
    BY <1>1, <1>5, <1>7, <2>1 DEF RemoveSession, NeverOvercount, Populated
  <2>2. CASE Populated(s)
    <3>1. slots[s] \in BackendSlot
      BY <1>2, <2>2, EntryTypes DEF TypeInv, TypeOK
    <3>2. slots' = [slots EXCEPT ![s] = SlotAfterRemove(s)]
      BY <1>1, <2>2 DEF RemoveSession
    <3>3. CASE r = s
      <4>1. slots'[s] = SlotAfterRemove(s) /\ SlotAfterRemove(s) # Nil
        BY <1>2, <1>7, <3>2, <3>3 DEF TypeInv, TypeOK, PoolTypeOK, Populated
      <4>2. SlotAfterRemove(s).count = Saturating(slots[s].count, 1)
        BY <3>1, <4>1 DEF SlotAfterRemove, BackendSlot
      <4>3. slots[s].count \in Nat /\ slots[s].count <= Cardinality(SessionsOn(s))
        BY <1>2, <2>2, <3>1 DEF NeverOvercount, BackendSlot
      <4>4. Saturating(slots[s].count, 1) <= Cardinality(SessionsOn(s)')
        BY <1>6, <4>3, SessionsOnFinite DEF Saturating
      <4> QED BY <3>3, <4>1, <4>2, <4>4
    <3>4. CASE r # s
      BY <1>5, <1>7, <3>2, <3>4 DEF NeverOvercount, Populated, TypeInv, TypeOK, PoolTypeOK
    <3> QED BY <3>3, <3>4
  <2> QED BY <2>1, <2>2
<1> QED BY <1>7 DEF NeverOvercount

(* Each slot's count is lowered by as many of its sessions as are evicted. *)
LEMMA EvictCounts ==
  ASSUME TypeInv, NeverOvercount, NEW S \in SUBSET Ext, EvictAndPurge(S)
  PROVE  NeverOvercount'
<1>1. \A d \in Ext : sessions'[d] = IF d \in S THEN Nil ELSE sessions[d]
  BY DEF EvictAndPurge, Unmap
<1>2. \A r : SessionsOn(r)' = SessionsOn(r) \ S
  BY <1>1 DEF SessionsOn, Active
<1>3. ASSUME NEW s \in Slot, Populated(s)'
      PROVE  slots'[s].count <= Cardinality(SessionsOn(s)')
  <2> DEFINE T == SessionsOn(s)
             n == Cardinality(S \cap T)
  <2>1. Cardinality(T \ S) = Cardinality(T) - Cardinality(T \cap S)
    BY SessionsOnFinite, FS_Difference
  <2>2. T \cap S = S \cap T
    OBVIOUS
  <2>3. n \in Nat /\ Cardinality(T) \in Nat /\ n <= Cardinality(T)
    <3>1. S \cap T \in SUBSET T
      OBVIOUS
    <3> QED BY <3>1, SessionsOnFinite, FS_Subset, FS_CardinalityType
  <2>4. slots'[s] = SlotAfterEvict(s, S) /\ SlotAfterEvict(s, S) # Nil
    BY <1>3 DEF EvictAndPurge, Populated
  <2>5. Populated(s)
    BY <2>4 DEF SlotAfterEvict, Populated
  <2>6. slots[s] \in BackendSlot /\ slots[s].count <= Cardinality(T)
    BY <2>5, EntryTypes DEF NeverOvercount, TypeInv, TypeOK
  <2>7. CASE Strategy = "Dedicated"
    <3>1. S \cap T = {} /\ slots'[s] = slots[s]
      BY <2>4, <2>7 DEF SlotAfterEvict
    <3>2. SessionsOn(s)' = T
      BY <1>2, <3>1
    <3> QED BY <2>6, <3>1, <3>2
  <2>8. CASE Strategy # "Dedicated"
    <3>1. slots'[s] = [slots[s] EXCEPT !.count = Saturating(slots[s].count, n)]
      BY <2>4, <2>5, <2>8 DEF SlotAfterEvict
    <3>2. slots'[s].count = Saturating(slots[s].count, n)
      BY <2>6, <3>1 DEF BackendSlot
    <3>3. slots[s].count \in Nat
      BY <2>6 DEF BackendSlot
    <3> HIDE DEF n, T
    <3>4. Saturating(slots[s].count, n) <= Cardinality(T) - n
      BY <2>3, <2>6, <3>3 DEF Saturating
    <3> QED BY <1>2, <2>1, <2>2, <3>2, <3>4 DEF n, T
  <2> QED BY <2>7, <2>8
<1> QED BY <1>3 DEF NeverOvercount

(* The slot of the dead process counts nothing; the others keep theirs. *)
LEMMA DeathCounts ==
  ASSUME TypeInv, NeverOvercount, NEW r, HandleBackendDeath(r)
  PROVE  NeverOvercount'
<1>1. \A d \in Ext : sessions'[d] = IF d \in SessionsOn(r) THEN Nil ELSE sessions[d]
  BY DEF HandleBackendDeath, Unmap
<1>2. \A s : s # r => SessionsOn(s)' = SessionsOn(s)
  BY <1>1 DEF SessionsOn, Active
<1>3. ASSUME NEW s \in Slot, Populated(s)'
      PROVE  slots'[s].count <= Cardinality(SessionsOn(s)')
  <2>1. CASE s # r
    BY <1>2, <1>3, <2>1 DEF HandleBackendDeath, NeverOvercount, Populated, TypeInv, TypeOK,
                            PoolTypeOK
  <2>2. CASE s = r
    <3>1. Populated(s) /\ slots'[s] = [slots[s] EXCEPT !.alive = FALSE, !.count = 0]
      BY <1>3, <2>2 DEF HandleBackendDeath, Populated, TypeInv, TypeOK, PoolTypeOK
    <3>2. slots'[s].count = 0
      BY <3>1, EntryTypes DEF BackendSlot, TypeInv, TypeOK
    <3> QED BY <3>2, SessionsOnFinite
  <2> QED BY <2>1, <2>2
<1> QED BY <1>3 DEF NeverOvercount

(* Shutdown leaves the counts. *)
LEMMA MarkCounts ==
  ASSUME TypeInv, MarkAllDead, NEW s \in Slot, Populated(s)'
  PROVE  Populated(s) /\ slots'[s].count = slots[s].count
<1>1. Populated(s) /\ slots'[s] = [slots[s] EXCEPT !.alive = FALSE]
  BY DEF MarkAllDead, Populated
<1> QED BY <1>1, EntryTypes DEF BackendSlot, TypeInv, TypeOK

(* What RecordSender, a prompt and the passing of time do to an entry. *)
LEMMA StampKeepsSlots ==
  ASSUME TypeInv, NEW e \in Ext, NEW f \in Frontend,
         \/ RecordSender(e, f)
         \/ Active(e) /\ StampSession(e, f)
         \/ Active(e) /\ sessions' = [sessions EXCEPT ![e].idle = TRUE]
  PROVE  \A d \in Ext : /\ Active(d)' <=> Active(d)
                        /\ Active(d) => sessions'[d].slot = sessions[d].slot
<1>1. ASSUME NEW x \in SessionEntry, NEW y \in {[x EXCEPT !.sender = f],
                 [x EXCEPT !.sender = f, !.idle = FALSE], [x EXCEPT !.idle = TRUE]}
      PROVE  y.slot = x.slot /\ y # Nil
  <2>1. y \in SessionEntry /\ y.slot = x.slot
    BY <1>1 DEF SessionEntry
  <2> QED BY <2>1, NilFacts
<1>2. PoolTypeOK
  BY DEF TypeInv, TypeOK
<1>3. \/ sessions' = sessions
      \/ /\ Active(e)
         /\ \E y \in {[sessions[e] EXCEPT !.sender = f],
                      [sessions[e] EXCEPT !.sender = f, !.idle = FALSE],
                      [sessions[e] EXCEPT !.idle = TRUE]} :
              sessions' = [sessions EXCEPT ![e] = y]
  BY <1>2 DEF RecordSender, StampSession, PoolTypeOK
<1>4. CASE sessions' = sessions
  BY <1>4 DEF Active
<1>5. CASE sessions' # sessions
  <2>1. sessions[e] \in SessionEntry
    BY <1>2, <1>3, <1>5, EntryTypes
  <2>2. PICK y : /\ sessions' = [sessions EXCEPT ![e] = y]
                 /\ y.slot = sessions[e].slot /\ y # Nil
    BY <1>1, <1>3, <1>5, <2>1, Zenon
  <2> QED BY <1>2, <1>3, <1>5, <2>2 DEF Active, PoolTypeOK
<1> QED BY <1>4, <1>5

LEMMA AcquireCounts ==
  ASSUME TypeInv, NEW t \in Task, NEW h, Acquire(t, h)
  PROVE  \A r \in Slot : Populated(r)' =>
            slots'[r].count = 0 \/ (Populated(r) /\ slots'[r].count = slots[r].count)
<1>1. CASE UNCHANGED slots
  BY <1>1 DEF Populated
<1>2. CASE \E s \in Slot, b \in Backend : InsertSlot(s, b)
  BY <1>2, InsertKeepsCounts
<1> QED BY <1>1, <1>2 DEF Acquire, SpawnDedicated

LEMMA NextCounts ==
  TypeInv /\ DirectoryInv /\ NeverOvercount /\ [Next]_vars => NeverOvercount'
<1> SUFFICES ASSUME TypeInv, DirectoryInv, NeverOvercount, [Next]_vars
             PROVE  NeverOvercount'
  OBVIOUS
<1>1. ASSUME UNCHANGED sessions,
             \A s \in Slot : Populated(s)' =>
               slots'[s].count = 0 \/ (Populated(s) /\ slots'[s].count = slots[s].count)
      PROVE  NeverOvercount'
  BY <1>1, KeepCounts DEF Active
<1>2. ASSUME UNCHANGED <<sessions, slots>> PROVE NeverOvercount'
  BY <1>1, <1>2 DEF Populated
<1>3. ASSUME UNCHANGED slots, NEW e \in Ext, NEW f \in Frontend,
             \/ RecordSender(e, f)
             \/ Active(e) /\ StampSession(e, f)
             \/ Active(e) /\ sessions' = [sessions EXCEPT ![e].idle = TRUE]
      PROVE  NeverOvercount'
  BY <1>3, StampKeepsSlots, KeepCounts DEF Populated
<1>4. CASE \E t \in Task : Request(t)
  <2>1. PICK t \in Task : Request(t)
    BY <1>4
  <2>2. ASSUME NEW f \in Frontend, NewSession(t, f) PROVE NeverOvercount'
    BY <1>1, <2>2, AcquireCounts DEF NewSession
  <2>3. ASSUME NEW h, TakeForReload(t, h), UNCHANGED sessions PROVE NeverOvercount'
    BY <1>1, <2>3, AcquireCounts DEF TakeForReload
  <2>4. ASSUME NEW e \in Ext, NEW f \in Frontend,
               LoadSession(t, e, f) \/ PromptEvicted(t, e, f)
        PROVE  NeverOvercount'
    BY <1>2, <2>3, <2>4 DEF LoadSession, PromptEvicted
  <2>5. ASSUME NEW e \in Ext, NEW f \in Frontend,
               \/ PromptActive(t, e, f)
               \/ ForkSession(t, e, f) \/ CloseSession(t, e, f)
        PROVE  NeverOvercount'
    BY <1>3, <2>5 DEF PromptActive, ForkSession, CloseSession, CallOnSession, Resolves
  <2> QED BY <2>1, <2>2, <2>4, <2>5 DEF Request
<1>5. CASE \E t \in Task : Resume(t)
  <2>1. PICK t \in Task : Resume(t)
    BY <1>5
  <2>2. task[t] \in Handler /\ Shape(task[t])
    BY DEF TypeInv, Handlers
  <2>3. CASE UNCHANGED <<sessions, slots>>
    BY <1>2, <2>3
  <2>4. CASE AfterCreate(t) /\ task[t].res = "ok"
    <3>1. PICK e \in Ext : /\ FreshExt(e)
                           /\ RegisterSession(e, task[t].bsid, task[t].slot, task[t].fe)
      BY <2>4 DEF AfterCreate
    <3>2. ~Active(e)
      <4>1. Active(e) => sessions[e].bsid \in BSid
        BY EntryTypes DEF TypeInv, TypeOK, SessionEntry
      <4> QED BY <3>1, <4>1, NilFacts DEF FreshExt, DirectoryInv, BackendSidStable
    <3>3. task[t].bsid \in BSid /\ task[t].slot \in Slot /\ task[t].fe \in Frontend
      BY <2>2, <2>4 DEF AfterCreate, Polled, Shape
    <3> QED BY <3>1, <3>2, <3>3, RegisterCounts
  <2>5. CASE AfterReload(t) /\ task[t].res = "ok"
    <3>1. /\ task[t].bsid \in BSid /\ task[t].slot \in Slot /\ task[t].fe \in Frontend
          /\ task[t].ext \in Ext /\ Reloads(t, task[t].ext)
      BY <2>2, <2>5 DEF AfterReload, Polled, Shape, Reloads
    <3>2. ~Active(task[t].ext)
      BY <3>1 DEF DirectoryInv, OnePlace
    <3> QED BY <2>5, <3>1, <3>2, RegisterCounts DEF AfterReload
  <2>6. CASE AfterClose(t) /\ task[t].res = "ok" /\ Active(task[t].ext)
    <3>1. task[t].ext \in Ext
      BY <2>2, <2>6 DEF AfterClose, Polled, Shape
    <3> QED BY <2>6, <3>1, RemoveCounts DEF AfterClose
  <2>7. CASE AfterInit(t) \/ AfterPrompt(t)
    BY <2>3, <2>7 DEF AfterInit, AfterPrompt
  <2>8. CASE AfterCreate(t)
    BY <2>3, <2>4, <2>8 DEF AfterCreate
  <2>9. CASE AfterReload(t)
    BY <2>3, <2>5, <2>9 DEF AfterReload
  <2>10. CASE AfterClose(t)
    BY <2>3, <2>6, <2>10 DEF AfterClose, RemoveSession
  <2> QED BY <2>1, <2>7, <2>8, <2>9, <2>10 DEF Resume
<1>6. CASE \E b \in Backend : BackendEnds(b)
  BY <1>6, DeathCounts DEF BackendEnds
<1>7. CASE MaintenanceTick
  <2>1. IdleSessions \in SUBSET Ext
    BY DEF IdleSessions
  <2> QED BY <1>7, <2>1, EvictCounts DEF MaintenanceTick
<1>8. CASE \E b \in Backend : Supervise(b)
  <2>1. CASE UNCHANGED <<sessions, slots>>
    BY <1>2, <2>1
  <2>2. CASE UNCHANGED sessions /\ \E s, b : b \in Backend /\ InsertSlot(s, b)
    BY <1>1, <2>2, InsertKeepsCounts
  <2>3. PICK b \in Backend : Supervise(b)
    BY <1>8
  <2>4. CASE Respawn(b)
    BY <2>2, <2>4 DEF Respawn
  <2>5. CASE RespawnFails(b) \/ InitAnswered(b) \/ InitReplayed(b)
    BY <2>1, <2>5 DEF RespawnFails, InitAnswered, InitReplayed, poolVars
  <2> QED BY <2>3, <2>4, <2>5 DEF Supervise
<1>9. CASE Initialize
  <2>1. CASE UNCHANGED <<sessions, slots>>
    BY <1>2, <2>1
  <2>2. CASE UNCHANGED sessions /\ \E b \in Backend : InsertSlot(0, b)
    BY <1>1, <2>2, InsertKeepsCounts
  <2> QED BY <1>9, <2>1, <2>2 DEF Initialize
<1>10. CASE Shutdown
  BY <1>1, <1>10, MarkCounts DEF Shutdown
<1>11. CASE \E e \in Ext, f \in Frontend : Relay(e, f)
  BY <1>3, <1>11 DEF Relay
<1>12. CASE \E e \in Ext : GrowIdle(e)
  <2>1. PICK e \in Ext : GrowIdle(e)
    BY <1>12
  <2>2. sessions[e].sender \in Frontend
    BY <2>1, EntryTypes DEF GrowIdle, TypeInv, TypeOK, SessionEntry
  <2> QED BY <1>3, <2>1, <2>2 DEF GrowIdle
<1>13. CASE UNCHANGED vars \/ \E t \in Task : Reply(t)
  <2>1. UNCHANGED <<sessions, slots>>
    BY <1>13 DEF Reply, vars, poolVars
  <2> QED BY <1>2, <2>1
<1> QED BY <1>4, <1>5, <1>6, <1>7, <1>8, <1>9, <1>10, <1>11, <1>12, <1>13 DEF Next

(* In no reachable state does a slot count more sessions than are mapped   *)
(* to it, whatever was registered on it while it was empty or dead.        *)
THEOREM CountsCovered == Spec => []NeverOvercount
<1>1. Init => NeverOvercount
  <2> SUFFICES ASSUME Init, NEW s \in Slot, Populated(s)
               PROVE  slots[s].count <= Cardinality(SessionsOn(s))
    BY DEF NeverOvercount
  <2>1. slots[s].count = 0
    BY PoolAssumption DEF Init, SpawnInit, Populated
  <2> QED BY <2>1, SessionsOnFinite
<1> QED BY <1>1, NextCounts, TypeInvariant, DirectoryInvariant, PTL DEF Spec

=============================================================================
