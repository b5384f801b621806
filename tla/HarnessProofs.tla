----------------------------- MODULE HarnessProofs -----------------------------
(***************************************************************************)
(* The harness's sessions, for every value of the constants: their types,  *)
(* one turn of a session at a time, changes that do not mix, histories     *)
(* that grow as conversations do, runtimes that fit their turns, turns and *)
(* directories that are kept, and locks that are given back.               *)
(***************************************************************************)
EXTENDS HarnessSessions, FiniteSetTheorems, SequenceTheorems, TLAPS

-----------------------------------------------------------------------------
(* TypeOK alone is not inductive: what a handler writes after an await     *)
(* comes out of its request and its copy, and the lock it gives back has   *)
(* to be its own.                                                          *)

Prompting == {"build", "tools", "loop", "message", "end_turn"}
Changing == {"queued", "swap", "note", "option", "undo"}
Refreshing == {"walk", "wait", "list"}

(* Which request stands at which await. *)
AskFits(t) ==
  /\ pc[t] \in Prompting => ask[t].op = "prompt"
  /\ pc[t] = "loaded" => ask[t].op = "load"
  /\ pc[t] \in Changing => ask[t].op \in {"mode", "model"}
  /\ pc[t] \in {"swap", "note", "undo"} => ask[t].op = "mode"

(* Who awaits the tools of a runtime refers to it; who uses them has them. *)
ToolsHeld(t) ==
  /\ pc[t] \in {"tools", "loop", "wait", "list"} => runtime[t] \in Runtime
  /\ pc[t] \in {"loop", "list"} => HasTools(t, runtime[t])

(* A change queues for the update lock of its session until it is over,    *)
(* and has it from its first look at the session.                          *)
UpdateHeld(t) ==
  /\ pc[t] \in Changing =>
       \E i \in 1 .. Len(updating[Of(t)]) : updating[Of(t)][i] = t
  /\ pc[t] \in Changing \ {"queued"} => MayUpdate(t)

Handlers == \A t \in Task : AskFits(t) /\ ToolsHeld(t) /\ UpdateHeld(t)

TypeInv == TypeOK /\ Handlers

-----------------------------------------------------------------------------
(* Values.                                                                 *)

LEMMA NilFacts == Nil \notin Session /\ Nil \notin Task /\ Nil \notin Runtime
BY IdsAssumption

LEMMA BlankType == Blank \in SessionData
BY IdsAssumption, EmptySeq DEF Blank, Data, SessionData

LEMMA DataFields ==
  ASSUME NEW d \in SessionData
  PROVE  /\ d.history \in Seq(Task) /\ d.mode \in Mode /\ d.model \in Model
         /\ d.cwd \in Task \cup {Nil}
BY DEF SessionData

LEMMA DataTypes ==
  ASSUME NEW d \in SessionData
  PROVE  /\ \A m \in Mode : WithMode(d, m) \in SessionData
         /\ \A m \in Model : WithModel(d, m) \in SessionData
         /\ \A t \in Task : WithTurn(d, t) \in SessionData
         /\ \A c \in Task \cup {Nil} : WithCwd(d, c) \in SessionData
<1>1. /\ d.history \in Seq(Task) /\ d.mode \in Mode /\ d.model \in Model
      /\ d.cwd \in Task \cup {Nil}
  BY DataFields
<1>2. \A t \in Task : Append(d.history, t) \in Seq(Task)
  BY <1>1, AppendProperties
<1> QED BY <1>1, <1>2 DEF WithMode, WithModel, WithTurn, WithCwd, Data, SessionData

LEMMA AskedTypes ==
  /\ NoRequest \in Request
  /\ Asked("refresh", Nil, Nil) \in Request
  /\ \A s \in Session, op \in {"prompt", "load"} : Asked(op, s, Nil) \in Request
  /\ \A s \in Session, v \in Mode \cup {Nil} : Asked("mode", s, v) \in Request
  /\ \A s \in Session, v \in Model \cup {Nil} : Asked("model", s, v) \in Request
BY DEF NoRequest, Asked, Request

LEMMA RequestFields ==
  ASSUME NEW q \in Request
  PROVE  /\ q.op \in {"prompt", "load", "mode", "model"} => q.of \in Session
         /\ q.op = "mode" => q.value \in Mode \cup {Nil}
         /\ q.op = "model" => q.value \in Model \cup {Nil}
BY DEF Request

-----------------------------------------------------------------------------
(* Queues.                                                                 *)

LEMMA JoinsQueue ==
  ASSUME NEW q \in Seq(Task), NEW t \in Task
  PROVE  /\ Append(q, t) \in Seq(Task)
         /\ Append(q, t) # << >>
         /\ \E i \in 1 .. Len(Append(q, t)) : Append(q, t)[i] = t
         /\ q # << >> => Head(Append(q, t)) = Head(q)
         /\ \A u \in Task : (\E i \in 1 .. Len(q) : q[i] = u) =>
                              \E i \in 1 .. Len(Append(q, t)) : Append(q, t)[i] = u
BY AppendProperties

LEMMA LeavesQueue ==
  ASSUME NEW q \in Seq(Task), q # << >>
  PROVE  /\ Tail(q) \in Seq(Task)
         /\ \A u \in Task : u # Head(q) /\ (\E i \in 1 .. Len(q) : q[i] = u) =>
                              \E i \in 1 .. Len(Tail(q)) : Tail(q)[i] = u
<1>1. Tail(q) \in Seq(Task) /\ Len(Tail(q)) = Len(q) - 1
  BY HeadTailProperties
<1>2. ASSUME NEW i \in 1 .. Len(q), q[i] # Head(q)
      PROVE  i - 1 \in 1 .. Len(Tail(q)) /\ Tail(q)[i - 1] = q[i]
  <2>1. i # 1
    BY <1>2
  <2> QED BY <1>1, <1>2, <2>1, HeadTailProperties
<1> QED BY <1>1, <1>2

-----------------------------------------------------------------------------
(* The operators of the store, the runtimes and the managers.              *)

LEMMA SaveTypes ==
  ASSUME StoreTypeOK, NEW s \in Session, NEW d, s \in known => d \in SessionData,
         Save(s, d)
  PROVE  StoreTypeOK'
BY DEF StoreTypeOK, Save

LEMMA CreateTypes ==
  ASSUME StoreTypeOK, NEW s \in Session, NEW d \in SessionData, Create(s, d)
  PROVE  StoreTypeOK'
BY DEF StoreTypeOK, Create

LEMMA DeleteTypes ==
  ASSUME StoreTypeOK, NEW s \in Session, Delete(s)
  PROVE  StoreTypeOK'
BY BlankType DEF StoreTypeOK, Delete

LEMMA InstallTypes ==
  ASSUME RuntimesTypeOK, NEW s \in Session, NEW r \in Runtime, NEW m \in Mode,
         Install(s, r, m), lock' \in [Runtime -> Seq(Task)]
  PROVE  RuntimesTypeOK'
<1>1. SourcesOf[m] \in SUBSET Source
  BY IdsAssumption
<1> QED BY <1>1 DEF RuntimesTypeOK, Install

LEMMA QueueTypes ==
  ASSUME RuntimesTypeOK, NEW r \in Runtime, NEW t \in Task, Queue(t, r)
  PROVE  lock' \in [Runtime -> Seq(Task)]
BY JoinsQueue DEF RuntimesTypeOK, Queue

LEMMA ReleaseTypes ==
  ASSUME RuntimesTypeOK, NEW r \in Runtime, lock[r] # << >>, Release(r)
  PROVE  lock' \in [Runtime -> Seq(Task)]
BY LeavesQueue DEF RuntimesTypeOK, Release

(* Who is at the head of a queue is still there when somebody joins it, or *)
(* when somebody else leaves the head of any.                              *)
LEMMA QueueKeepsHolders ==
  ASSUME RuntimesTypeOK, NEW r \in Runtime, NEW t \in Task, Queue(t, r),
         NEW u \in Task, NEW q \in Runtime, HasTools(u, q)
  PROVE  HasTools(u, q)'
BY JoinsQueue DEF RuntimesTypeOK, Queue, HasTools

LEMMA ReleaseKeepsHolders ==
  ASSUME RuntimesTypeOK, NEW r \in Runtime, NEW t \in Task, HasTools(t, r),
         Release(r), NEW u \in Task, u # t, NEW q \in Runtime, HasTools(u, q)
  PROVE  HasTools(u, q)'
BY DEF RuntimesTypeOK, Release, HasTools

(* What each task has at its place is untouched by a step of another.      *)
Elsewhere(t) == \A u \in Task \ {t} : pc'[u] = pc[u] /\ ask'[u] = ask[u]

RequestsTypeOK ==
  /\ pc \in [Task -> Stage]
  /\ ask \in [Task -> Request]
  /\ copy \in [Task -> SessionData]
  /\ previous \in [Task -> SessionData]

TurnsTypeOK ==
  /\ runtime \in [Task -> Runtime \cup {Nil}]
  /\ todo \in [Task -> SUBSET Runtime]
  /\ active \in [Session -> Task \cup {Nil}]
  /\ cancelled \subseteq Task
  /\ updating \in [Session -> Seq(Task)]

GhostsTypeOK ==
  raced \subseteq Session /\ moved \subseteq Session /\ overtaken \subseteq Session

LEMMA TypeParts ==
  TypeOK <=> StoreTypeOK /\ RuntimesTypeOK /\ RequestsTypeOK /\ TurnsTypeOK
               /\ GhostsTypeOK
BY DEF TypeOK, RequestsTypeOK, TurnsTypeOK, GhostsTypeOK

LEMMA OverTypes ==
  ASSUME RequestsTypeOK, NEW t \in Task, Over(t)
  PROVE  RequestsTypeOK' /\ Elsewhere(t)
BY AskedTypes, BlankType
   DEF RequestsTypeOK, Over, Goes, Dropped, Stage, Finished, Elsewhere

(* The session of a request, by its place.                                 *)
LEMMA OfTypes ==
  ASSUME TypeInv, NEW t \in Task, pc[t] \in Prompting \cup Changing \cup {"loaded"}
  PROVE  /\ Of(t) \in Session
         /\ ask[t].op = "mode" /\ Supported(t) => ask[t].value \in Mode
         /\ ask[t].op = "model" /\ Supported(t) => ask[t].value \in Model
<1>1. ask[t] \in Request /\ ask[t].op \in {"prompt", "load", "mode", "model"}
  BY DEF TypeInv, TypeOK, Handlers, AskFits
<1> QED BY <1>1, RequestFields DEF Of, Supported

-----------------------------------------------------------------------------
(* A step of one handler leaves the others as they are.                    *)

ToolsKept(t) ==
  \A u \in Task \ {t} :
    /\ runtime'[u] = runtime[u]
    /\ \A q \in Runtime : HasTools(u, q) => HasTools(u, q)'

UpdatesKept(t) == \A u \in Task \ {t} : UpdateHeld(u) => UpdateHeld(u)'

LEMMA HandlersKept ==
  ASSUME TypeInv, NEW t \in Task, Elsewhere(t), ToolsKept(t), UpdatesKept(t),
         AskFits(t)', ToolsHeld(t)', UpdateHeld(t)'
  PROVE  Handlers'
<1> SUFFICES ASSUME NEW u \in Task, u # t
             PROVE  AskFits(u)' /\ ToolsHeld(u)' /\ UpdateHeld(u)'
  BY DEF Handlers
<1>1. AskFits(u) /\ ToolsHeld(u) /\ UpdateHeld(u)
  BY DEF TypeInv, Handlers
<1>2. AskFits(u)'
  BY <1>1 DEF AskFits, Elsewhere
<1>3. ToolsHeld(u)'
  BY <1>1 DEF ToolsHeld, ToolsKept, Elsewhere
<1>4. UpdateHeld(u)'
  BY <1>1 DEF UpdatesKept
<1> QED BY <1>2, <1>3, <1>4

LEMMA ToolsAlone ==
  ASSUME NEW t \in Task, UNCHANGED <<runtime, lock>>
  PROVE  ToolsKept(t)
BY DEF ToolsKept, HasTools

LEMMA ToolsQueued ==
  ASSUME TypeInv, NEW t \in Task, NEW r \in Runtime, NEW x, Queue(t, r),
         runtime' = [runtime EXCEPT ![t] = x]
  PROVE  ToolsKept(t)
<1>1. RuntimesTypeOK /\ runtime \in [Task -> Runtime \cup {Nil}]
  BY DEF TypeInv, TypeOK
<1> QED BY <1>1, QueueKeepsHolders DEF ToolsKept

LEMMA ToolsReleased ==
  ASSUME TypeInv, NEW t \in Task, NEW r \in Runtime, NEW x, HasTools(t, r),
         Release(r), runtime' = [runtime EXCEPT ![t] = x]
  PROVE  ToolsKept(t)
<1>1. RuntimesTypeOK /\ runtime \in [Task -> Runtime \cup {Nil}]
  BY DEF TypeInv, TypeOK
<1> QED BY <1>1, ReleaseKeepsHolders DEF ToolsKept

LEMMA UpdatesAlone ==
  ASSUME NEW t \in Task, Elsewhere(t), UNCHANGED updating
  PROVE  UpdatesKept(t)
BY DEF UpdatesKept, UpdateHeld, Elsewhere, MayUpdate, Of

LEMMA UpdatesFinished ==
  ASSUME TypeInv, NEW t \in Task, pc[t] \in Changing, MayUpdate(t), Elsewhere(t),
         updating' = [updating EXCEPT ![Of(t)] = Tail(@)]
  PROVE  updating' \in [Session -> Seq(Task)] /\ UpdatesKept(t)
<1> DEFINE s == Of(t)
<1>1. s \in Session /\ updating \in [Session -> Seq(Task)]
  BY OfTypes DEF TypeInv, TypeOK
<1>2. updating[s] # << >>
  <2>1. \E i \in 1 .. Len(updating[s]) : updating[s][i] = t
    BY DEF TypeInv, Handlers, UpdateHeld
  <2> QED BY <2>1
<1>3. updating' \in [Session -> Seq(Task)]
  BY <1>1, <1>2, LeavesQueue
<1>4. ASSUME NEW u \in Task \ {t}, UpdateHeld(u)
      PROVE  UpdateHeld(u)'
  <2>1. pc'[u] = pc[u] /\ Of(u)' = Of(u)
    BY DEF Elsewhere, Of
  <2>2. CASE pc[u] \notin Changing
    BY <2>1, <2>2 DEF UpdateHeld
  <2>3. CASE pc[u] \in Changing /\ Of(u) # s
    <3>1. updating'[Of(u)] = updating[Of(u)]
      BY <1>1, <2>3, OfTypes
    <3> QED BY <1>4, <2>1, <2>3, <3>1 DEF UpdateHeld, MayUpdate
  <2>4. CASE pc[u] \in Changing /\ Of(u) = s
    <3>1. ~MayUpdate(u) /\ updating'[s] = Tail(updating[s])
      BY <1>1, <2>4 DEF MayUpdate
    <3>2. \E i \in 1 .. Len(Tail(updating[s])) : Tail(updating[s])[i] = u
      BY <1>1, <1>2, <1>4, <2>4, <3>1, LeavesQueue DEF UpdateHeld, MayUpdate
    <3> QED BY <1>4, <2>1, <2>4, <3>1, <3>2 DEF UpdateHeld
  <2> QED BY <2>2, <2>3, <2>4
<1> QED BY <1>3, <1>4 DEF UpdatesKept

LEMMA HandlersSame ==
  ASSUME Handlers, UNCHANGED <<pc, ask, runtime, lock, updating>>
  PROVE  Handlers'
BY DEF Handlers, AskFits, ToolsHeld, UpdateHeld, HasTools, MayUpdate, Of

(* A request is answered by a handler that has no lock but one it releases. *)
LEMMA OverKeeps ==
  ASSUME TypeInv, NEW t \in Task, Over(t), ToolsKept(t), UNCHANGED updating
  PROVE  RequestsTypeOK' /\ Handlers'
<1>1. RequestsTypeOK
  BY TypeParts DEF TypeInv
<1>2. RequestsTypeOK' /\ Elsewhere(t) /\ pc'[t] = "over"
  BY <1>1, OverTypes DEF Over, Goes, RequestsTypeOK
<1>3. AskFits(t)' /\ ToolsHeld(t)' /\ UpdateHeld(t)'
  BY <1>2 DEF AskFits, ToolsHeld, UpdateHeld, Prompting, Changing
<1> QED BY <1>2, <1>3, UpdatesAlone, HandlersKept

LEMMA FinishKeeps ==
  ASSUME TypeInv, NEW t \in Task, pc[t] \in Changing, MayUpdate(t), Finish(t),
         UNCHANGED <<runtime, lock>>
  PROVE  RequestsTypeOK' /\ updating' \in [Session -> Seq(Task)] /\ Handlers'
<1>1. RequestsTypeOK /\ Over(t)
  BY TypeParts DEF TypeInv, Finish
<1>2. RequestsTypeOK' /\ Elsewhere(t) /\ pc'[t] = "over"
  BY <1>1, OverTypes DEF Over, Goes, RequestsTypeOK
<1>3. AskFits(t)' /\ ToolsHeld(t)' /\ UpdateHeld(t)'
  BY <1>2 DEF AskFits, ToolsHeld, UpdateHeld, Prompting, Changing
<1>4. updating' \in [Session -> Seq(Task)] /\ UpdatesKept(t)
  BY <1>2, UpdatesFinished DEF Finish
<1> QED BY <1>2, <1>3, <1>4, ToolsAlone, HandlersKept

-----------------------------------------------------------------------------
(* Requests without an await.                                              *)

LEMMA OpenSessionTypes ==
  ASSUME TypeInv, NEW s \in Session, OpenSession(s)
  PROVE  TypeInv'
<1>1. StoreTypeOK'
  BY BlankType, CreateTypes, TypeParts DEF TypeInv, OpenSession, NewSession
<1>2. Handlers'
  BY HandlersSame DEF TypeInv, OpenSession, turnVars, runtimeVars
<1> QED BY <1>1, <1>2
        DEF TypeInv, TypeOK, OpenSession, RuntimesTypeOK, runtimeVars, turnVars,
            ghostVars

LEMMA ForkSessionTypes ==
  ASSUME TypeInv, NEW s \in Session, NEW u \in Session, ForkSession(s, u)
  PROVE  TypeInv'
<1>1. StoreTypeOK'
  <2>1. StoreTypeOK /\ data[u] \in SessionData
    BY DEF TypeInv, TypeOK, StoreTypeOK
  <2> QED BY <2>1, DataTypes, CreateTypes DEF ForkSession, ForkOf
<1>2. Handlers'
  BY HandlersSame DEF TypeInv, ForkSession, turnVars, runtimeVars
<1> QED BY <1>1, <1>2
        DEF TypeInv, TypeOK, ForkSession, RuntimesTypeOK, runtimeVars, turnVars,
            ghostVars

LEMMA LoadSessionTypes ==
  ASSUME TypeInv, NEW t \in Task, NEW s \in Session, LoadSession(t, s)
  PROVE  TypeInv'
<1>1. /\ StoreTypeOK /\ RequestsTypeOK /\ moved \subseteq Session
      /\ data[s] \in SessionData
  BY TypeParts DEF TypeInv, StoreTypeOK, GhostsTypeOK
<1>2. StoreTypeOK'
  BY <1>1, DataTypes, SaveTypes DEF LoadSession, LoadWithCwd
<1>3. RequestsTypeOK' /\ Handlers'
  <2>1. CASE s \in known
    <3>1. /\ Goes(t, "loaded") /\ ask' = [ask EXCEPT ![t] = Asked("load", s, Nil)]
          /\ UNCHANGED <<copy, previous>>
      BY <2>1 DEF LoadSession
    <3>2. RequestsTypeOK' /\ Elsewhere(t) /\ pc'[t] = "loaded" /\ ask'[t].op = "load"
      BY <1>1, <3>1, AskedTypes
         DEF Goes, RequestsTypeOK, Elsewhere, Stage, Finished, Asked
    <3>3. AskFits(t)' /\ ToolsHeld(t)' /\ UpdateHeld(t)'
      BY <3>2 DEF AskFits, ToolsHeld, UpdateHeld, Prompting, Changing
    <3> QED BY <3>2, <3>3, ToolsAlone, UpdatesAlone, HandlersKept
            DEF LoadSession, runtimeVars, turnVars
  <2>2. CASE s \notin known
    BY <2>2, OverKeeps, ToolsAlone DEF LoadSession, runtimeVars, turnVars
  <2> QED BY <2>1, <2>2
<1>4. moved' \subseteq Session
  BY <1>1 DEF LoadSession
<1> QED BY <1>2, <1>3, <1>4
        DEF LoadSession, TypeInv, TypeOK, RequestsTypeOK, RuntimesTypeOK, runtimeVars,
            turnVars

LEMMA CancelTurnTypes ==
  ASSUME TypeOK, NEW s \in Session, CancelTurn(s)
  PROVE  cancelled' \subseteq Task
BY DEF TypeOK, CancelTurn

LEMMA CancelSessionTypes ==
  ASSUME TypeInv, NEW s \in Session, CancelSession(s)
  PROVE  TypeInv'
<1>1. cancelled' \subseteq Task
  BY CancelTurnTypes DEF TypeInv, CancelSession
<1>2. Handlers'
  BY HandlersSame DEF TypeInv, CancelSession, runtimeVars
<1> QED BY <1>1, <1>2
        DEF TypeInv, TypeOK, CancelSession, StoreTypeOK, storeVars,
            RuntimesTypeOK, runtimeVars, ghostVars

LEMMA CloseSessionTypes ==
  ASSUME TypeInv, NEW s \in Session, CloseSession(s)
  PROVE  TypeInv'
<1>1. cancelled' \subseteq Task
  BY CancelTurnTypes DEF TypeInv, CloseSession, Close
<1>2. StoreTypeOK'
  BY DeleteTypes, TypeParts DEF TypeInv, CloseSession, Close
<1>3. RuntimesTypeOK'
  BY DEF TypeInv, TypeOK, CloseSession, Close, Remove, RuntimesTypeOK
<1>4. overtaken' \subseteq Session
  BY DEF TypeInv, TypeOK, CloseSession, Close
<1>5. Handlers'
  BY HandlersSame DEF TypeInv, CloseSession, Close, Remove
<1> QED BY <1>1, <1>2, <1>3, <1>4, <1>5 DEF TypeInv, TypeOK, CloseSession, Close

-----------------------------------------------------------------------------
(* A prompt.                                                               *)

LEMMA PromptUnreadableTypes ==
  ASSUME TypeInv, NEW t \in Task, PromptUnreadable(t)
  PROVE  TypeInv'
<1>1. RequestsTypeOK' /\ Handlers'
  BY OverKeeps, ToolsAlone DEF PromptUnreadable, runtimeVars, turnVars
<1> QED BY <1>1
        DEF PromptUnreadable, TypeInv, TypeOK, RequestsTypeOK, StoreTypeOK, storeVars,
            RuntimesTypeOK, runtimeVars, turnVars, ghostVars

LEMMA PromptRefusedTypes ==
  ASSUME TypeInv, NEW t \in Task, NEW s \in Session, PromptRefused(t, s)
  PROVE  TypeInv'
<1>1. RequestsTypeOK' /\ Handlers'
  BY OverKeeps, ToolsAlone DEF PromptRefused, runtimeVars, turnVars
<1> QED BY <1>1
        DEF PromptRefused, TypeInv, TypeOK, RequestsTypeOK, StoreTypeOK, storeVars,
            RuntimesTypeOK, runtimeVars, turnVars, ghostVars

LEMMA PromptBeginsTypes ==
  ASSUME TypeInv, NEW t \in Task, NEW s \in Session, PromptBegins(t, s)
  PROVE  TypeInv'
<1>1. /\ StoreTypeOK /\ RuntimesTypeOK /\ RequestsTypeOK /\ TurnsTypeOK
      /\ data[s] \in SessionData
  BY TypeParts DEF TypeInv, StoreTypeOK
<1>2. /\ ask' = [ask EXCEPT ![t] = Asked("prompt", s, Nil)]
      /\ pc'[t] \in {"tools", "build"} /\ ask'[t].op = "prompt"
      /\ Elsewhere(t)
  BY <1>1 DEF PromptBegins, Arrives, Goes, RequestsTypeOK, Elsewhere, Asked
<1>3. RequestsTypeOK'
  BY <1>1, <1>2, AskedTypes
     DEF PromptBegins, Goes, RequestsTypeOK, Stage
<1>4. /\ runtime' \in [Task -> Runtime \cup {Nil}]
      /\ lock' \in [Runtime -> Seq(Task)]
      /\ ToolsKept(t)
      /\ pc'[t] = "tools" => runtime'[t] \in Runtime
  <2>1. CASE Reusable(s, data[s].mode)
    <3>1. table[s] \in Runtime
      BY <1>1, <2>1 DEF Reusable, RuntimesTypeOK
    <3>2. Queue(t, table[s]) /\ runtime' = [runtime EXCEPT ![t] = table[s]]
      BY <2>1 DEF PromptBegins
    <3> QED BY <1>1, <3>1, <3>2, QueueTypes, ToolsQueued DEF TurnsTypeOK
  <2>2. CASE ~Reusable(s, data[s].mode)
    <3>1. UNCHANGED <<runtime, lock>> /\ pc'[t] = "build"
      BY <1>1, <2>2 DEF PromptBegins, Goes, RequestsTypeOK
    <3> QED BY <1>1, <3>1, ToolsAlone DEF RuntimesTypeOK, TurnsTypeOK
  <2> QED BY <2>1, <2>2
<1>5. UpdatesKept(t)
  BY <1>2, UpdatesAlone DEF PromptBegins
<1>6. Handlers'
  <2>1. AskFits(t)' /\ ToolsHeld(t)' /\ UpdateHeld(t)'
    BY <1>2, <1>4 DEF AskFits, ToolsHeld, UpdateHeld, Changing
  <2> QED BY <1>2, <1>4, <1>5, <2>1, HandlersKept
<1>7. active' \in [Session -> Task \cup {Nil}]
  BY <1>1 DEF PromptBegins, TurnsTypeOK
<1> QED BY <1>3, <1>4, <1>6, <1>7
        DEF PromptBegins, TypeInv, TypeOK, RequestsTypeOK, StoreTypeOK, storeVars,
            RuntimesTypeOK, ghostVars

LEMMA PromptBuiltTypes ==
  ASSUME TypeInv, NEW t \in Task, PromptBuilt(t)
  PROVE  TypeInv'
<1>1. /\ RuntimesTypeOK /\ RequestsTypeOK /\ TurnsTypeOK
      /\ Of(t) \in Session /\ <<t, 1>> \in Runtime
      /\ copy[t].mode \in Mode /\ ask[t].op = "prompt"
  BY TypeParts, OfTypes, DataFields
     DEF PromptBuilt, TypeInv, RequestsTypeOK, Runtime, Prompting, Handlers, AskFits
<1>2. lock' \in [Runtime -> Seq(Task)] /\ ToolsKept(t)
  BY <1>1, QueueTypes, ToolsQueued DEF PromptBuilt
<1>3. RuntimesTypeOK'
  BY <1>1, <1>2, InstallTypes DEF PromptBuilt
<1>4. /\ RequestsTypeOK' /\ Elsewhere(t) /\ pc'[t] = "tools"
      /\ runtime' \in [Task -> Runtime \cup {Nil}] /\ runtime'[t] = <<t, 1>>
  BY <1>1 DEF PromptBuilt, Goes, RequestsTypeOK, TurnsTypeOK, Elsewhere, Stage
<1>5. Handlers'
  <2>1. AskFits(t)' /\ ToolsHeld(t)' /\ UpdateHeld(t)'
    BY <1>1, <1>4 DEF PromptBuilt, AskFits, ToolsHeld, UpdateHeld, Changing
  <2> QED BY <1>2, <1>4, <2>1, UpdatesAlone, HandlersKept DEF PromptBuilt
<1> QED BY <1>3, <1>4, <1>5
        DEF PromptBuilt, TypeInv, TypeOK, RequestsTypeOK, StoreTypeOK, storeVars,
            ghostVars

LEMMA UnmarkTypes ==
  ASSUME TypeInv, NEW t \in Task, Unmark(t)
  PROVE  active' \in [Session -> Task \cup {Nil}] /\ cancelled' \subseteq Task
BY DEF TypeInv, TypeOK, Unmark

LEMMA PromptBuildFailsTypes ==
  ASSUME TypeInv, NEW t \in Task, PromptBuildFails(t)
  PROVE  TypeInv'
<1>1. RequestsTypeOK' /\ Handlers'
  BY OverKeeps, ToolsAlone DEF PromptBuildFails, runtimeVars
<1>2. active' \in [Session -> Task \cup {Nil}] /\ cancelled' \subseteq Task
  BY UnmarkTypes DEF PromptBuildFails
<1> QED BY <1>1, <1>2
        DEF PromptBuildFails, TypeInv, TypeOK, RequestsTypeOK, StoreTypeOK, storeVars,
            RuntimesTypeOK, runtimeVars, ghostVars

(* The loop gives back the tools it has. *)
LEMMA LoopEndsTypes ==
  ASSUME TypeInv, NEW t \in Task, pc[t] \in {"tools", "loop"},
         HasTools(t, runtime[t]), LoopEnds(t)
  PROVE  /\ RuntimesTypeOK' /\ TurnsTypeOK' /\ ToolsKept(t)
         /\ moved' \subseteq Session /\ overtaken' \subseteq Session
<1>1. /\ RuntimesTypeOK /\ TurnsTypeOK /\ runtime[t] \in Runtime
      /\ moved \subseteq Session /\ overtaken \subseteq Session
  BY TypeParts DEF TypeInv, Handlers, ToolsHeld, GhostsTypeOK
<1>2. lock' \in [Runtime -> Seq(Task)] /\ ToolsKept(t)
  BY <1>1, ReleaseTypes, ToolsReleased DEF LoopEnds, HasTools
<1>3. active' \in [Session -> Task \cup {Nil}] /\ cancelled' \subseteq Task
  BY UnmarkTypes DEF LoopEnds
<1> QED BY <1>1, <1>2, <1>3 DEF LoopEnds, RuntimesTypeOK, TurnsTypeOK

LEMMA ToolsGrantedTypes ==
  ASSUME TypeInv, NEW t \in Task, ToolsGranted(t)
  PROVE  TypeInv'
<1>1. CASE t \notin cancelled
  <2>1. RequestsTypeOK /\ ask[t].op = "prompt" /\ runtime[t] \in Runtime
    BY TypeParts
       DEF ToolsGranted, TypeInv, Handlers, AskFits, ToolsHeld, Prompting
  <2>2. RequestsTypeOK' /\ Elsewhere(t) /\ pc'[t] = "loop"
    BY <1>1, <2>1 DEF ToolsGranted, Goes, RequestsTypeOK, Elsewhere, Stage
  <2>3. UNCHANGED <<runtime, lock, updating, ask>>
    BY <1>1 DEF ToolsGranted, runtimeVars, turnVars
  <2>4. AskFits(t)' /\ ToolsHeld(t)' /\ UpdateHeld(t)'
    BY <2>1, <2>2, <2>3
       DEF ToolsGranted, AskFits, ToolsHeld, UpdateHeld, Changing, HasTools
  <2>5. Handlers'
    BY <2>2, <2>3, <2>4, ToolsAlone, UpdatesAlone, HandlersKept
  <2> QED BY <1>1, <2>2, <2>5
          DEF ToolsGranted, TypeInv, TypeOK, RequestsTypeOK, StoreTypeOK, storeVars,
              RuntimesTypeOK, runtimeVars, turnVars, ghostVars
<1>2. CASE t \in cancelled
  <2>1. /\ LoopEnds(t) /\ Over(t) /\ HasTools(t, runtime[t]) /\ pc[t] = "tools"
        /\ UNCHANGED <<raced, storeVars>>
    BY <1>2 DEF ToolsGranted
  <2>2. /\ RuntimesTypeOK' /\ TurnsTypeOK' /\ ToolsKept(t)
        /\ moved' \subseteq Session /\ overtaken' \subseteq Session
    BY <2>1, LoopEndsTypes
  <2>3. RequestsTypeOK' /\ Handlers'
    BY <2>1, <2>2, OverKeeps DEF LoopEnds
  <2> QED BY <2>1, <2>2, <2>3
          DEF TypeInv, TypeOK, RequestsTypeOK, TurnsTypeOK, StoreTypeOK, storeVars
<1> QED BY <1>1, <1>2

LEMMA LoopFailsTypes ==
  ASSUME TypeInv, NEW t \in Task, LoopFails(t)
  PROVE  TypeInv'
<1>1. HasTools(t, runtime[t])
  BY DEF LoopFails, TypeInv, Handlers, ToolsHeld
<1>2. /\ RuntimesTypeOK' /\ TurnsTypeOK' /\ ToolsKept(t)
      /\ moved' \subseteq Session /\ overtaken' \subseteq Session
  BY <1>1, LoopEndsTypes DEF LoopFails
<1>3. RequestsTypeOK' /\ Handlers'
  BY <1>2, OverKeeps DEF LoopFails, LoopEnds
<1> QED BY <1>2, <1>3
        DEF LoopFails, TypeInv, TypeOK, RequestsTypeOK, TurnsTypeOK, StoreTypeOK,
            storeVars

LEMMA LoopAnswersTypes ==
  ASSUME TypeInv, NEW t \in Task, LoopAnswers(t)
  PROVE  TypeInv'
<1>1. /\ RequestsTypeOK /\ ask[t].op = "prompt" /\ HasTools(t, runtime[t])
  BY TypeParts DEF LoopAnswers, TypeInv, Handlers, AskFits, ToolsHeld, Prompting
<1>2. /\ RuntimesTypeOK' /\ TurnsTypeOK' /\ ToolsKept(t)
      /\ moved' \subseteq Session /\ overtaken' \subseteq Session
  BY <1>1, LoopEndsTypes DEF LoopAnswers
<1>3. RequestsTypeOK' /\ Elsewhere(t) /\ pc'[t] = "message"
  BY <1>1 DEF LoopAnswers, Goes, RequestsTypeOK, Elsewhere, Stage
<1>4. Handlers'
  <2>1. AskFits(t)' /\ ToolsHeld(t)' /\ UpdateHeld(t)'
    BY <1>1, <1>3 DEF LoopAnswers, AskFits, ToolsHeld, UpdateHeld, Changing
  <2> QED BY <1>2, <1>3, <2>1, UpdatesAlone, HandlersKept DEF LoopAnswers, LoopEnds
<1> QED BY <1>2, <1>3, <1>4
        DEF LoopAnswers, TypeInv, TypeOK, RequestsTypeOK, TurnsTypeOK, StoreTypeOK,
            storeVars

(* The commit of a turn, whatever became of its session. *)
LEMMA CommitTypes ==
  ASSUME TypeInv, NEW t \in Task, pc[t] \in Prompting, ToolsKept(t),
         UNCHANGED updating, Commit(t)
  PROVE  StoreTypeOK' /\ RequestsTypeOK' /\ raced' \subseteq Session /\ Handlers'
<1>1. /\ StoreTypeOK /\ RequestsTypeOK /\ Of(t) \in Session
      /\ ask[t].op = "prompt"
      /\ data[Of(t)] \in SessionData
  BY TypeParts, OfTypes DEF TypeInv, Handlers, AskFits, StoreTypeOK
<1>2. StoreTypeOK'
  BY <1>1, DataTypes, SaveTypes DEF Commit
<1>3. raced' \subseteq Session
  BY <1>1 DEF Commit, TypeInv, TypeOK
<1>4. CASE Of(t) \notin known
  BY <1>2, <1>3, <1>4, OverKeeps DEF Commit, EndsTurn
<1>5. CASE Of(t) \in known
  <2>1. Goes(t, "end_turn") /\ Dropped(t) /\ UNCHANGED ask
    BY <1>5 DEF Commit, EndsTurn
  <2>2. RequestsTypeOK' /\ Elsewhere(t) /\ pc'[t] = "end_turn"
    BY <1>1, <2>1, BlankType
       DEF Goes, Dropped, RequestsTypeOK, Elsewhere, Stage, Finished
  <2>3. AskFits(t)' /\ ToolsHeld(t)' /\ UpdateHeld(t)'
    BY <1>1, <2>1, <2>2 DEF AskFits, ToolsHeld, UpdateHeld, Changing
  <2> QED BY <1>2, <1>3, <2>2, <2>3, UpdatesAlone, HandlersKept
<1> QED BY <1>4, <1>5

LEMMA LoopAnswersNothingTypes ==
  ASSUME TypeInv, NEW t \in Task, LoopAnswersNothing(t)
  PROVE  TypeInv'
<1>1. HasTools(t, runtime[t])
  BY DEF LoopAnswersNothing, TypeInv, Handlers, ToolsHeld
<1>2. /\ RuntimesTypeOK' /\ TurnsTypeOK' /\ ToolsKept(t)
      /\ moved' \subseteq Session /\ overtaken' \subseteq Session
  BY <1>1, LoopEndsTypes DEF LoopAnswersNothing
<1>3. StoreTypeOK' /\ RequestsTypeOK' /\ raced' \subseteq Session /\ Handlers'
  BY <1>2, CommitTypes DEF LoopAnswersNothing, LoopEnds, Prompting
<1> QED BY <1>2, <1>3 DEF TypeInv, TypeOK, RequestsTypeOK, TurnsTypeOK

LEMMA MessageSentTypes ==
  ASSUME TypeInv, NEW t \in Task, MessageSent(t)
  PROVE  TypeInv'
<1>1. StoreTypeOK' /\ RequestsTypeOK' /\ raced' \subseteq Session /\ Handlers'
  BY CommitTypes, ToolsAlone DEF MessageSent, runtimeVars, turnVars, Prompting
<1> QED BY <1>1
        DEF MessageSent, TypeInv, TypeOK, RequestsTypeOK, RuntimesTypeOK, runtimeVars,
            turnVars

LEMMA MessageFailsTypes ==
  ASSUME TypeInv, NEW t \in Task, MessageFails(t)
  PROVE  TypeInv'
<1>1. RequestsTypeOK' /\ Handlers'
  BY OverKeeps, ToolsAlone DEF MessageFails, runtimeVars, turnVars
<1> QED BY <1>1
        DEF MessageFails, TypeInv, TypeOK, RequestsTypeOK, StoreTypeOK, storeVars,
            RuntimesTypeOK, runtimeVars, turnVars, ghostVars

-----------------------------------------------------------------------------
(* A change of mode or model.                                              *)

LEMMA ChangeArrivesTypes ==
  ASSUME TypeInv, NEW t \in Task, NEW op \in {"mode", "model"}, NEW s \in Session, NEW v,
         op = "mode" => v \in Mode \cup {Nil}, op = "model" => v \in Model \cup {Nil},
         ChangeArrives(t, op, s, v)
  PROVE  TypeInv'
<1>1. RequestsTypeOK /\ updating \in [Session -> Seq(Task)]
  BY TypeParts DEF TypeInv, TurnsTypeOK
<1>2. Asked(op, s, v) \in Request
  BY AskedTypes
<1>3. /\ RequestsTypeOK' /\ Elsewhere(t)
      /\ pc'[t] = "queued" /\ ask'[t] = Asked(op, s, v)
  BY <1>1, <1>2
     DEF ChangeArrives, Arrives, Goes, RequestsTypeOK, Elsewhere, Stage
<1>4. ask'[t].op = op /\ ask'[t].of = s
  BY <1>3 DEF Asked
<1>5. /\ updating' = [updating EXCEPT ![s] = Append(updating[s], t)]
      /\ updating' \in [Session -> Seq(Task)]
  BY <1>1, JoinsQueue DEF ChangeArrives
<1>6. UpdatesKept(t)
  <2> SUFFICES ASSUME NEW u \in Task, u # t, UpdateHeld(u), pc[u] \in Changing
               PROVE  UpdateHeld(u)'
    BY <1>3 DEF UpdatesKept, UpdateHeld, Elsewhere
  <2>1. pc'[u] = pc[u] /\ Of(u)' = Of(u) /\ Of(u) \in Session
    BY <1>3, OfTypes DEF Elsewhere, Of
  <2>2. updating[Of(u)] \in Seq(Task) /\ updating[Of(u)] # << >>
    BY <1>1, <2>1 DEF UpdateHeld
  <2>3. \/ updating'[Of(u)] = updating[Of(u)]
        \/ updating'[Of(u)] = Append(updating[Of(u)], t)
    BY <1>1, <1>5, <2>1
  <2>4. \E i \in 1 .. Len(updating'[Of(u)]) : updating'[Of(u)][i] = u
    <3>1. \E i \in 1 .. Len(updating[Of(u)]) : updating[Of(u)][i] = u
      BY DEF UpdateHeld
    <3>2. CASE updating'[Of(u)] = updating[Of(u)]
      BY <3>1, <3>2
    <3>3. CASE updating'[Of(u)] = Append(updating[Of(u)], t)
      BY <2>2, <3>1, <3>3, JoinsQueue
    <3> QED BY <2>3, <3>2, <3>3
  <2>5. Head(updating'[Of(u)]) = Head(updating[Of(u)])
    BY <2>2, <2>3, JoinsQueue
  <2> QED BY <2>1, <2>4, <2>5 DEF UpdateHeld, MayUpdate
<1>7. AskFits(t)' /\ ToolsHeld(t)' /\ UpdateHeld(t)'
  <2>1. AskFits(t)' /\ ToolsHeld(t)'
    BY <1>3, <1>4 DEF AskFits, ToolsHeld, Prompting
  <2>2. updating'[Of(t)'] = Append(updating[s], t)
    BY <1>1, <1>4, <1>5 DEF Of
  <2> QED BY <1>1, <1>3, <2>1, <2>2, JoinsQueue DEF UpdateHeld
<1>8. Handlers'
  BY <1>3, <1>6, <1>7, ToolsAlone, HandlersKept DEF ChangeArrives, runtimeVars
<1> QED BY <1>3, <1>5, <1>8
        DEF ChangeArrives, TypeInv, TypeOK, RequestsTypeOK, StoreTypeOK, storeVars,
            RuntimesTypeOK, runtimeVars, ghostVars

(* A change that ends without another look at the session. *)
LEMMA FinishTypes ==
  ASSUME TypeInv, NEW t \in Task, pc[t] \in Changing, MayUpdate(t), Finish(t),
         UNCHANGED <<storeVars, runtimeVars, runtime, todo, active, cancelled,
                     ghostVars>>
  PROVE  TypeInv'
<1>1. RequestsTypeOK' /\ updating' \in [Session -> Seq(Task)] /\ Handlers'
  BY FinishKeeps DEF runtimeVars
<1> QED BY <1>1
        DEF TypeInv, TypeOK, RequestsTypeOK, StoreTypeOK, storeVars, RuntimesTypeOK,
            runtimeVars, ghostVars

LEMMA EndedChangeTypes ==
  ASSUME TypeInv, NEW t \in Task,
         \/ ChangeRefused(t) \/ ModeSwapFails(t) \/ OptionSent(t)
         \/ RollbackRefused(t) \/ ModeUndoFails(t)
  PROVE  TypeInv'
<1>1. pc[t] \in Changing /\ MayUpdate(t)
  BY DEF ChangeRefused, ModeSwapFails, OptionSent, RollbackRefused, ModeUndoFails,
         Changing, TypeInv, Handlers, UpdateHeld
<1> QED BY <1>1, FinishTypes
        DEF ChangeRefused, ModeSwapFails, OptionSent, RollbackRefused, ModeUndoFails

(* A change goes on, with the update lock. *)
LEMMA ChangeGoesOn ==
  ASSUME TypeInv, NEW t \in Task, pc[t] \in Changing, MayUpdate(t),
         NEW stage \in Changing \ {"queued"}, Goes(t, stage),
         stage \in {"swap", "note", "undo"} => ask[t].op = "mode",
         UNCHANGED <<ask, runtime, lock, updating>>
  PROVE  pc' \in [Task -> Stage] /\ Handlers'
<1>1. RequestsTypeOK
  BY TypeParts DEF TypeInv
<1>2. pc' \in [Task -> Stage] /\ Elsewhere(t) /\ pc'[t] = stage
  BY <1>1 DEF Goes, RequestsTypeOK, Elsewhere, Stage, Changing
<1>3. AskFits(t)' /\ ToolsHeld(t)' /\ UpdateHeld(t)'
  <2>1. AskFits(t) /\ UpdateHeld(t)
    BY DEF TypeInv, Handlers
  <2>2. AskFits(t)' /\ ToolsHeld(t)'
    BY <1>2, <2>1 DEF AskFits, ToolsHeld, Changing, Prompting
  <2>3. UpdateHeld(t)'
    BY <1>2, <2>1 DEF UpdateHeld, MayUpdate, Of
  <2> QED BY <2>2, <2>3
<1> QED BY <1>2, <1>3, ToolsAlone, UpdatesAlone, HandlersKept

(* What a handler reads of a session it may change. *)
LEMMA ReadTypes ==
  ASSUME TypeInv, NEW s \in Session, Changeable(s)
  PROVE  data[s] \in SessionData /\ s \in known
BY DEF TypeInv, TypeOK, StoreTypeOK, Changeable

LEMMA ModelChangesTypes ==
  ASSUME TypeInv, NEW t \in Task, ModelChanges(t)
  PROVE  TypeInv'
<1>1. /\ StoreTypeOK /\ RequestsTypeOK /\ Of(t) \in Session /\ ask[t].value \in Model
      /\ pc[t] \in Changing /\ MayUpdate(t)
  BY TypeParts, OfTypes DEF ModelChanges, TypeInv, Changing
<1>2. data[Of(t)] \in SessionData
  BY <1>1, ReadTypes DEF ModelChanges, SetModel
<1>3. StoreTypeOK'
  BY <1>1, <1>2, DataTypes, SaveTypes DEF ModelChanges, SetModel
<1>4. pc' \in [Task -> Stage] /\ Handlers'
  BY <1>1, ChangeGoesOn DEF ModelChanges, turnVars, runtimeVars, Changing
<1>5. previous' \in [Task -> SessionData]
  BY <1>1, <1>2 DEF ModelChanges, RequestsTypeOK
<1> QED BY <1>3, <1>4, <1>5
        DEF ModelChanges, TypeInv, TypeOK, RuntimesTypeOK, runtimeVars, turnVars,
            ghostVars

LEMMA ReadsForModeTypes ==
  ASSUME TypeInv, NEW t \in Task, Of(t) \in Session, NEW m \in Mode,
         ReadsForMode(t, m)
  PROVE  copy' \in [Task -> SessionData] /\ data[Of(t)] \in SessionData
<1>1. data[Of(t)] \in SessionData
  BY ReadTypes DEF ReadsForMode
<1> QED BY <1>1, DataTypes DEF ReadsForMode, TypeInv, TypeOK

LEMMA ModeChangeStartsTypes ==
  ASSUME TypeInv, NEW t \in Task, ModeChangeStarts(t)
  PROVE  TypeInv'
<1>1. /\ RequestsTypeOK /\ Of(t) \in Session /\ ask[t].value \in Mode
      /\ pc[t] \in Changing /\ MayUpdate(t) /\ ask[t].op = "mode"
  BY TypeParts, OfTypes DEF ModeChangeStarts, TypeInv, Changing
<1>2. copy' \in [Task -> SessionData] /\ data[Of(t)] \in SessionData
  BY <1>1, ReadsForModeTypes DEF ModeChangeStarts
<1>3. pc' \in [Task -> Stage] /\ Handlers'
  BY <1>1, ChangeGoesOn DEF ModeChangeStarts, turnVars, runtimeVars, Changing
<1>4. previous' \in [Task -> SessionData]
  BY <1>1, <1>2 DEF ModeChangeStarts, RequestsTypeOK
<1> QED BY <1>2, <1>3, <1>4
        DEF ModeChangeStarts, TypeInv, TypeOK, StoreTypeOK, storeVars, RuntimesTypeOK,
            runtimeVars, turnVars, ghostVars

LEMMA SetsModeTypes ==
  ASSUME TypeInv, NEW t \in Task, Of(t) \in Session, NEW r \in Runtime,
         SetsMode(t, r), UNCHANGED lock
  PROVE  StoreTypeOK' /\ RuntimesTypeOK'
<1>1. /\ StoreTypeOK /\ RuntimesTypeOK /\ copy[t] \in SessionData
      /\ copy[t].mode \in Mode /\ lock \in [Runtime -> Seq(Task)]
  BY TypeParts, DataFields DEF TypeInv, RequestsTypeOK, RuntimesTypeOK
<1> QED BY <1>1, SaveTypes, InstallTypes DEF SetsMode

LEMMA ModeSwappedTypes ==
  ASSUME TypeInv, NEW t \in Task, ModeSwapped(t)
  PROVE  TypeInv'
<1>1. /\ Of(t) \in Session /\ pc[t] \in Changing /\ MayUpdate(t)
      /\ ask[t].op = "mode" /\ <<t, 1>> \in Runtime
  BY OfTypes
     DEF ModeSwapped, TypeInv, Handlers, AskFits, UpdateHeld, Changing, Runtime
<1>2. StoreTypeOK' /\ RuntimesTypeOK'
  BY <1>1, SetsModeTypes DEF ModeSwapped
<1>3. RequestsTypeOK' /\ updating' \in [Session -> Seq(Task)] /\ Handlers'
  <2>1. CASE Of(t) \in known
    <3>1. Goes(t, "note") /\ UNCHANGED <<ask, copy, previous, updating>>
      BY <2>1 DEF ModeSwapped
    <3>2. pc' \in [Task -> Stage] /\ Handlers'
      BY <1>1, <3>1, ChangeGoesOn DEF ModeSwapped, Changing
    <3> QED BY <3>1, <3>2 DEF TypeInv, TypeOK, RequestsTypeOK
  <2>2. CASE Of(t) \notin known
    BY <1>1, <2>2, FinishKeeps DEF ModeSwapped
  <2> QED BY <2>1, <2>2
<1> QED BY <1>2, <1>3
        DEF ModeSwapped, TypeInv, TypeOK, RequestsTypeOK, ghostVars

LEMMA ModeNotedTypes ==
  ASSUME TypeInv, NEW t \in Task, ModeNoted(t)
  PROVE  TypeInv'
<1>1. pc[t] \in Changing /\ MayUpdate(t)
  BY DEF ModeNoted, TypeInv, Handlers, UpdateHeld, Changing
<1>2. pc' \in [Task -> Stage] /\ Handlers'
  BY <1>1, ChangeGoesOn DEF ModeNoted, turnVars, runtimeVars, Changing
<1> QED BY <1>2
        DEF ModeNoted, TypeInv, TypeOK, StoreTypeOK, storeVars, RuntimesTypeOK,
            runtimeVars, turnVars, ghostVars

LEMMA ModelRollsBackTypes ==
  ASSUME TypeInv, NEW t \in Task, ModelRollsBack(t)
  PROVE  TypeInv'
<1>1. /\ StoreTypeOK /\ Of(t) \in Session /\ pc[t] \in Changing /\ MayUpdate(t)
      /\ previous[t].model \in Model
  BY TypeParts, OfTypes, DataFields
     DEF ModelRollsBack, TypeInv, RequestsTypeOK, Handlers, UpdateHeld, Changing
<1>2. StoreTypeOK'
  BY <1>1, ReadTypes, DataTypes, SaveTypes DEF ModelRollsBack, ResetModel, SetModel
<1>3. RequestsTypeOK' /\ updating' \in [Session -> Seq(Task)] /\ Handlers'
  BY <1>1, FinishKeeps DEF ModelRollsBack, runtimeVars
<1> QED BY <1>2, <1>3
        DEF ModelRollsBack, TypeInv, TypeOK, RequestsTypeOK, RuntimesTypeOK,
            runtimeVars, ghostVars

LEMMA ModeRollsBackTypes ==
  ASSUME TypeInv, NEW t \in Task, ModeRollsBack(t)
  PROVE  TypeInv'
<1>1. /\ Of(t) \in Session /\ pc[t] \in Changing /\ MayUpdate(t)
      /\ previous[t].mode \in Mode /\ ask[t].op = "mode"
  BY TypeParts, OfTypes, DataFields
     DEF ModeRollsBack, TypeInv, RequestsTypeOK, Handlers, UpdateHeld, Changing
<1>2. copy' \in [Task -> SessionData]
  BY <1>1, ReadsForModeTypes DEF ModeRollsBack
<1>3. pc' \in [Task -> Stage] /\ Handlers'
  BY <1>1, ChangeGoesOn DEF ModeRollsBack, turnVars, runtimeVars, Changing
<1> QED BY <1>2, <1>3
        DEF ModeRollsBack, TypeInv, TypeOK, StoreTypeOK, storeVars, RuntimesTypeOK,
            runtimeVars, turnVars, ghostVars

LEMMA ModeUndoneTypes ==
  ASSUME TypeInv, NEW t \in Task, ModeUndone(t)
  PROVE  TypeInv'
<1>1. /\ Of(t) \in Session /\ pc[t] \in Changing /\ MayUpdate(t) /\ <<t, 2>> \in Runtime
  BY OfTypes DEF ModeUndone, TypeInv, Handlers, UpdateHeld, Changing, Runtime
<1>2. StoreTypeOK' /\ RuntimesTypeOK'
  BY <1>1, SetsModeTypes DEF ModeUndone
<1>3. RequestsTypeOK' /\ updating' \in [Session -> Seq(Task)] /\ Handlers'
  BY <1>1, FinishKeeps DEF ModeUndone
<1> QED BY <1>2, <1>3 DEF ModeUndone, TypeInv, TypeOK, RequestsTypeOK, ghostVars

-----------------------------------------------------------------------------
(* A refresh.                                                              *)

LEMMA RefreshArrivesTypes ==
  ASSUME TypeInv, NEW t \in Task, RefreshArrives(t)
  PROVE  TypeInv'
<1>1. RequestsTypeOK /\ RuntimesTypeOK
  BY TypeParts DEF TypeInv
<1>2. RequestsTypeOK' /\ Elsewhere(t) /\ pc'[t] = "walk"
  BY <1>1, AskedTypes
     DEF RefreshArrives, Arrives, Goes, RequestsTypeOK, Elsewhere, Stage
<1>3. Handlers'
  <2>1. AskFits(t)' /\ ToolsHeld(t)' /\ UpdateHeld(t)'
    BY <1>2 DEF AskFits, ToolsHeld, UpdateHeld, Prompting, Changing
  <2> QED BY <1>2, <2>1, ToolsAlone, UpdatesAlone, HandlersKept
          DEF RefreshArrives, runtimeVars
<1>4. todo' \in [Task -> SUBSET Runtime]
  <2>1. {table[s] : s \in Session} \ {Nil} \subseteq Runtime
    BY <1>1 DEF RuntimesTypeOK
  <2> QED BY <2>1 DEF RefreshArrives, TypeInv, TypeOK
<1> QED BY <1>2, <1>3, <1>4
        DEF RefreshArrives, TypeInv, TypeOK, RequestsTypeOK, StoreTypeOK, storeVars,
            RuntimesTypeOK, runtimeVars, ghostVars

LEMMA RefreshQueuesTypes ==
  ASSUME TypeInv, NEW t \in Task, NEW r \in Runtime, RefreshQueues(t, r)
  PROVE  TypeInv'
<1>1. RequestsTypeOK /\ RuntimesTypeOK /\ TurnsTypeOK
  BY TypeParts DEF TypeInv
<1>2. RequestsTypeOK' /\ Elsewhere(t) /\ pc'[t] = "wait"
  BY <1>1 DEF RefreshQueues, Goes, RequestsTypeOK, Elsewhere, Stage
<1>3. lock' \in [Runtime -> Seq(Task)] /\ ToolsKept(t)
  BY <1>1, QueueTypes, ToolsQueued DEF RefreshQueues
<1>4. TurnsTypeOK' /\ runtime'[t] = r
  BY <1>1 DEF RefreshQueues, TurnsTypeOK
<1>5. Handlers'
  <2>1. AskFits(t)' /\ ToolsHeld(t)' /\ UpdateHeld(t)'
    BY <1>2, <1>4 DEF AskFits, ToolsHeld, UpdateHeld, Prompting, Changing
  <2> QED BY <1>2, <1>3, <2>1, UpdatesAlone, HandlersKept DEF RefreshQueues
<1> QED BY <1>2, <1>3, <1>4, <1>5
        DEF RefreshQueues, TypeInv, TypeOK, RequestsTypeOK, TurnsTypeOK, StoreTypeOK,
            storeVars, RuntimesTypeOK, ghostVars

LEMMA RefreshDoneTypes ==
  ASSUME TypeInv, NEW t \in Task, RefreshDone(t)
  PROVE  TypeInv'
<1>1. RequestsTypeOK' /\ Handlers'
  BY OverKeeps, ToolsAlone DEF RefreshDone, runtimeVars, turnVars
<1> QED BY <1>1
        DEF RefreshDone, TypeInv, TypeOK, RequestsTypeOK, StoreTypeOK, storeVars,
            RuntimesTypeOK, runtimeVars, turnVars, ghostVars

LEMMA RefreshStartsTypes ==
  ASSUME TypeInv, NEW t \in Task, RefreshStarts(t)
  PROVE  TypeInv'
<1>1. RequestsTypeOK /\ RuntimesTypeOK /\ runtime[t] \in Runtime
  BY TypeParts DEF RefreshStarts, TypeInv, Handlers, ToolsHeld
<1>2. RequestsTypeOK' /\ Elsewhere(t) /\ pc'[t] = "list"
  BY <1>1 DEF RefreshStarts, Goes, RequestsTypeOK, Elsewhere, Stage
<1>3. RuntimesTypeOK'
  BY <1>1 DEF RefreshStarts, ClearTools, RuntimesTypeOK
<1>4. Handlers'
  <2>1. AskFits(t)' /\ ToolsHeld(t)' /\ UpdateHeld(t)'
    BY <1>1, <1>2
       DEF RefreshStarts, AskFits, ToolsHeld, UpdateHeld, Prompting, Changing,
           HasTools, turnVars
  <2> QED BY <1>2, <2>1, ToolsAlone, UpdatesAlone, HandlersKept
          DEF RefreshStarts, turnVars
<1> QED BY <1>2, <1>3, <1>4
        DEF RefreshStarts, TypeInv, TypeOK, RequestsTypeOK, StoreTypeOK, storeVars,
            turnVars, ghostVars

LEMMA RefreshListsTypes ==
  ASSUME TypeInv, NEW t \in Task, RefreshLists(t)
  PROVE  TypeInv'
<1>1. /\ RequestsTypeOK /\ RuntimesTypeOK /\ TurnsTypeOK
      /\ runtime[t] \in Runtime /\ HasTools(t, runtime[t])
  BY TypeParts DEF RefreshLists, TypeInv, Handlers, ToolsHeld
<1>2. lock' \in [Runtime -> Seq(Task)] /\ ToolsKept(t)
  BY <1>1, ReleaseTypes, ToolsReleased DEF RefreshLists, HasTools
<1>3. RuntimesTypeOK' /\ TurnsTypeOK'
  BY <1>1, <1>2 DEF RefreshLists, ListTools, RuntimesTypeOK, TurnsTypeOK
<1>4. RequestsTypeOK' /\ Handlers'
  <2>1. CASE Goes(t, "walk") /\ UNCHANGED <<ask, copy, previous, todo>>
    <3>1. RequestsTypeOK' /\ Elsewhere(t) /\ pc'[t] = "walk"
      BY <1>1, <2>1 DEF Goes, RequestsTypeOK, Elsewhere, Stage
    <3>2. AskFits(t)' /\ ToolsHeld(t)' /\ UpdateHeld(t)'
      BY <3>1 DEF AskFits, ToolsHeld, UpdateHeld, Prompting, Changing
    <3> QED BY <1>2, <3>1, <3>2, UpdatesAlone, HandlersKept DEF RefreshLists
  <2>2. CASE Over(t)
    BY <1>2, <2>2, OverKeeps DEF RefreshLists
  <2> QED BY <2>1, <2>2 DEF RefreshLists
<1> QED BY <1>3, <1>4
        DEF RefreshLists, TypeInv, TypeOK, RequestsTypeOK, TurnsTypeOK, StoreTypeOK,
            storeVars, ghostVars

-----------------------------------------------------------------------------

LEMMA InitTypes == Init => TypeInv
<1> SUFFICES ASSUME Init PROVE TypeInv
  OBVIOUS
<1>1. StoreTypeOK
  BY BlankType DEF Init, StoreInit, StoreTypeOK
<1>2. RuntimesTypeOK
  BY EmptySeq DEF Init, RuntimesInit, RuntimesTypeOK
<1>3. RequestsTypeOK
  BY AskedTypes, BlankType DEF Init, RequestsTypeOK, Stage
<1>4. TurnsTypeOK /\ GhostsTypeOK
  BY EmptySeq DEF Init, TurnsTypeOK, GhostsTypeOK
<1>5. Handlers
  BY DEF Init, Handlers, AskFits, ToolsHeld, UpdateHeld, Prompting, Changing
<1> QED BY <1>1, <1>2, <1>3, <1>4, <1>5, TypeParts DEF TypeInv

LEMMA StepTypes == TypeInv /\ [Next]_vars => TypeInv'
<1> SUFFICES ASSUME TypeInv, [Next]_vars PROVE TypeInv'
  OBVIOUS
<1>1. CASE UNCHANGED vars
  <2>1. Handlers'
    BY <1>1, HandlersSame DEF TypeInv, vars, runtimeVars, turnVars
  <2> QED BY <1>1, <2>1
          DEF TypeInv, TypeOK, vars, StoreTypeOK, storeVars, RuntimesTypeOK,
              runtimeVars, turnVars, ghostVars
<1>2. CASE Client
  <2> USE DEF TypeInv, TypeOK, StoreTypeOK
  <2>1. ASSUME NEW s \in Session,
               OpenSession(s) \/ \E u \in Session : ForkSession(s, u)
        PROVE  TypeInv'
    BY <2>1, OpenSessionTypes, ForkSessionTypes
  <2>2. ASSUME NEW s \in issued, CancelSession(s) \/ CloseSession(s)
        PROVE  TypeInv'
    BY <2>2, CancelSessionTypes, CloseSessionTypes
  <2>3. ASSUME NEW t \in Task, RefreshArrives(t) \/ PromptUnreadable(t)
        PROVE  TypeInv'
    BY <2>3, RefreshArrivesTypes, PromptUnreadableTypes
  <2>4. ASSUME NEW t \in Task, NEW s \in issued,
               PromptRefused(t, s) \/ PromptBegins(t, s) \/ LoadSession(t, s)
        PROVE  TypeInv'
    BY <2>4, PromptRefusedTypes, PromptBeginsTypes, LoadSessionTypes
  <2>5. ASSUME NEW t \in Task, NEW s \in issued, NEW v \in Mode \cup {Nil},
               ChangeArrives(t, "mode", s, v)
        PROVE  TypeInv'
    BY <2>5, ChangeArrivesTypes
  <2>6. ASSUME NEW t \in Task, NEW s \in issued, NEW v \in Model \cup {Nil},
               ChangeArrives(t, "model", s, v)
        PROVE  TypeInv'
    BY <2>6, ChangeArrivesTypes
  <2> QED BY <1>2, <2>1, <2>2, <2>3, <2>4, <2>5, <2>6 DEF Client
<1>3. ASSUME NEW t \in Task, Proceeds(t)
      PROVE  TypeInv'
  BY <1>3, PromptBuiltTypes, PromptBuildFailsTypes, ToolsGrantedTypes, LoopFailsTypes,
     LoopAnswersTypes, LoopAnswersNothingTypes, MessageSentTypes, MessageFailsTypes,
     EndedChangeTypes, ModelChangesTypes, ModeChangeStartsTypes, ModeSwappedTypes,
     ModeNotedTypes, ModelRollsBackTypes, ModeRollsBackTypes, ModeUndoneTypes,
     RefreshQueuesTypes, RefreshDoneTypes, RefreshStartsTypes, RefreshListsTypes
  DEF Proceeds
<1> QED BY <1>1, <1>2, <1>3 DEF Next

LEMMA TypeInvariant == Spec => []TypeInv
BY InitTypes, StepTypes, PTL DEF Spec

(* Every state of the harness's sessions is well typed: whatever a handler *)
(* writes after an await into a session, a runtime or a lock is of its     *)
(* kind, and it gives back only locks that it has.                         *)
THEOREM TypeCorrect == Spec => []TypeOK
<1>1. TypeInv => TypeOK
  BY DEF TypeInv
<1> QED BY <1>1, TypeInvariant, PTL

-----------------------------------------------------------------------------
(* How a step leaves the places of the handlers.                           *)

LEMMA GoesPlace ==
  ASSUME TypeInv, NEW t \in Task, NEW stage, Goes(t, stage), UNCHANGED ask
  PROVE  Elsewhere(t) /\ pc'[t] = stage /\ Of(t)' = Of(t)
BY DEF TypeInv, TypeOK, Goes, Elsewhere, Of

LEMMA ArrivesPlace ==
  ASSUME TypeInv, NEW t \in Task, NEW stage, NEW q, Goes(t, stage), Arrives(t, q)
  PROVE  Elsewhere(t) /\ pc[t] = "idle" /\ pc'[t] = stage /\ ask'[t] = q
BY DEF TypeInv, TypeOK, Goes, Arrives, IsNext, Elsewhere

LEMMA OverPlace ==
  ASSUME TypeInv, NEW t \in Task, Over(t)
  PROVE  Elsewhere(t) /\ pc'[t] = "over"
BY DEF TypeInv, TypeOK, Over, Goes, Elsewhere

LEMMA LoadPlace ==
  ASSUME TypeInv, NEW t \in Task, NEW s, LoadSession(t, s)
  PROVE  Elsewhere(t) /\ pc[t] = "idle" /\ pc'[t] \in {"loaded", "over"}
<1>1. CASE s \in known
  BY <1>1 DEF LoadSession, TypeInv, TypeOK, IsNext, Goes, Elsewhere
<1>2. CASE s \notin known
  BY <1>2, OverPlace DEF LoadSession, IsNext
<1> QED BY <1>1, <1>2

LEMMA EndsTurnPlace ==
  ASSUME TypeInv, NEW t \in Task, EndsTurn(t)
  PROVE  Elsewhere(t) /\ pc'[t] = IF Of(t) \in known THEN "end_turn" ELSE "over"
<1>1. CASE Of(t) \in known
  BY <1>1, GoesPlace DEF EndsTurn
<1>2. CASE Of(t) \notin known
  BY <1>2, OverPlace DEF EndsTurn
<1> QED BY <1>1, <1>2

-----------------------------------------------------------------------------
(* One turn of a session at a time.                                        *)

(* A step in which no turn begins or ends. *)
LEMMA MarksQuiet ==
  ASSUME TypeInv, TurnMarked, NEW t \in Task, Elsewhere(t), UNCHANGED active,
         \/ ~InTurn(t) /\ ~InTurn(t)'
         \/ InTurn(t) /\ InTurn(t)' /\ UNCHANGED ask
  PROVE  TurnMarked'
BY DEF TurnMarked, InTurn, Elsewhere, Of

LEMMA MarksEnd ==
  ASSUME TypeInv, TurnMarked, NEW t \in Task, InTurn(t), Unmark(t), Elsewhere(t),
         ~InTurn(t)'
  PROVE  TurnMarked'
<1>1. Of(t) \in Session /\ active \in [Session -> Task \cup {Nil}]
  BY OfTypes DEF InTurn, Prompting, TypeInv, TypeOK
<1>2. active' = [active EXCEPT ![Of(t)] = Nil] /\ active[Of(t)] = t
  BY <1>1 DEF Unmark, TurnMarked
<1> SUFFICES ASSUME NEW s \in Session, NEW u \in Task
             PROVE  active'[s] = u <=> InTurn(u)' /\ Of(u)' = s
  BY DEF TurnMarked
<1>3. CASE u = t
  BY <1>1, <1>2, <1>3, NilFacts DEF TurnMarked
<1>4. CASE u # t
  <2>1. InTurn(u)' = InTurn(u) /\ Of(u)' = Of(u)
    BY <1>4 DEF Elsewhere, InTurn, Of
  <2>2. active'[s] = u <=> active[s] = u
    BY <1>1, <1>2, <1>4, NilFacts
  <2> QED BY <2>1, <2>2 DEF TurnMarked
<1> QED BY <1>3, <1>4

LEMMA MarksBegin ==
  ASSUME TypeInv, TurnMarked, NEW t \in Task, NEW s \in Session, PromptBegins(t, s)
  PROVE  TurnMarked'
<1>1. /\ Elsewhere(t) /\ pc[t] = "idle" /\ InTurn(t)' /\ ask'[t].of = s
      /\ active[s] = Nil
  <2>1. \E stage \in {"tools", "build"} : Goes(t, stage)
    BY DEF PromptBegins
  <2>2. ask'[t].of = s
    BY <2>1, ArrivesPlace DEF PromptBegins, Asked
  <2> QED BY <2>1, <2>2, ArrivesPlace DEF PromptBegins, MayBegin, InTurn
<1>2. active' = [active EXCEPT ![s] = t] /\ active \in [Session -> Task \cup {Nil}]
  BY DEF PromptBegins, TypeInv, TypeOK
<1> SUFFICES ASSUME NEW z \in Session, NEW u \in Task
             PROVE  active'[z] = u <=> InTurn(u)' /\ Of(u)' = z
  BY DEF TurnMarked
<1>3. CASE u = t
  <2>1. active[z] # t
    BY <1>1 DEF TurnMarked, InTurn
  <2>2. active'[z] = t <=> z = s
    BY <1>2, <2>1
  <2> QED BY <1>1, <1>3, <2>2 DEF Of
<1>4. CASE u # t
  <2>1. InTurn(u)' = InTurn(u) /\ Of(u)' = Of(u)
    BY <1>1, <1>4 DEF Elsewhere, InTurn, Of
  <2>2. active'[z] = u <=> active[z] = u
    BY <1>1, <1>2, <1>4, NilFacts
  <2> QED BY <2>1, <2>2 DEF TurnMarked
<1> QED BY <1>3, <1>4

LEMMA StepMarks == TypeInv /\ TurnMarked /\ [Next]_vars => TurnMarked'
<1> SUFFICES ASSUME TypeInv, TurnMarked, [Next]_vars PROVE TurnMarked'
  OBVIOUS
<1>1. CASE UNCHANGED <<pc, ask, active>>
  BY <1>1 DEF TurnMarked, InTurn, Of
<1>2. CASE Client
  <2>1. CASE \E s \in Session : OpenSession(s) \/ \E u \in Session : ForkSession(s, u)
    BY <1>1, <2>1 DEF OpenSession, ForkSession, turnVars
  <2>2. CASE \E s \in issued : CancelSession(s) \/ CloseSession(s)
    BY <1>1, <2>2 DEF CancelSession, CloseSession
  <2>3. ASSUME NEW t \in Task, RefreshArrives(t)
        PROVE  TurnMarked'
    BY <2>3, ArrivesPlace, MarksQuiet DEF RefreshArrives, InTurn
  <2>4. ASSUME NEW t \in Task, NEW s \in issued, PromptRefused(t, s)
        PROVE  TurnMarked'
    BY <2>4, OverPlace, MarksQuiet DEF PromptRefused, IsNext, InTurn, turnVars
  <2>5. ASSUME NEW t \in Task, NEW s \in issued, PromptBegins(t, s)
        PROVE  TurnMarked'
    BY <2>5, MarksBegin DEF TypeInv, TypeOK, StoreTypeOK
  <2>6. ASSUME NEW t \in Task, NEW op, NEW s, NEW v, ChangeArrives(t, op, s, v)
        PROVE  TurnMarked'
    BY <2>6, ArrivesPlace, MarksQuiet DEF ChangeArrives, InTurn
  <2>7. ASSUME NEW t \in Task, PromptUnreadable(t)
        PROVE  TurnMarked'
    BY <2>7, OverPlace, MarksQuiet DEF PromptUnreadable, IsNext, InTurn, turnVars
  <2>8. ASSUME NEW t \in Task, NEW s, LoadSession(t, s)
        PROVE  TurnMarked'
    BY <2>8, LoadPlace, MarksQuiet DEF LoadSession, InTurn, turnVars
  <2> QED BY <1>2, <2>1, <2>2, <2>3, <2>4, <2>5, <2>6, <2>7, <2>8 DEF Client
<1>3. ASSUME NEW t \in Task, Proceeds(t)
      PROVE  TurnMarked'
  <2>1. CASE PromptBuilt(t)
    BY <2>1, GoesPlace, MarksQuiet DEF PromptBuilt, InTurn
  <2>2. CASE PromptBuildFails(t)
    BY <2>2, OverPlace, MarksEnd DEF PromptBuildFails, InTurn
  <2>3. CASE ToolsGranted(t)
    <3>1. CASE t \notin cancelled
      BY <2>3, <3>1, GoesPlace, MarksQuiet DEF ToolsGranted, InTurn, turnVars
    <3>2. CASE t \in cancelled
      BY <2>3, <3>2, OverPlace, MarksEnd DEF ToolsGranted, LoopEnds, InTurn
    <3> QED BY <3>1, <3>2
  <2>4. CASE LoopFails(t)
    BY <2>4, OverPlace, MarksEnd DEF LoopFails, LoopEnds, InTurn
  <2>5. CASE LoopAnswers(t)
    BY <2>5, GoesPlace, MarksEnd DEF LoopAnswers, LoopEnds, InTurn
  <2>6. CASE LoopAnswersNothing(t)
    BY <2>6, EndsTurnPlace, MarksEnd DEF LoopAnswersNothing, LoopEnds, Commit, InTurn
  <2>7. CASE MessageSent(t)
    BY <2>7, EndsTurnPlace, MarksQuiet DEF MessageSent, Commit, InTurn, turnVars
  <2>8. CASE MessageFails(t)
    BY <2>8, OverPlace, MarksQuiet DEF MessageFails, InTurn, turnVars
  <2>9. CASE \/ ChangeRefused(t) \/ ModeSwapFails(t) \/ OptionSent(t)
             \/ RollbackRefused(t) \/ ModeUndoFails(t)
    BY <2>9, OverPlace, MarksQuiet
       DEF ChangeRefused, ModeSwapFails, OptionSent, RollbackRefused, ModeUndoFails,
           Finish, InTurn
  <2>10. CASE ModelChanges(t) \/ ModeChangeStarts(t) \/ ModeNoted(t) \/ ModeRollsBack(t)
    BY <2>10, GoesPlace, MarksQuiet
       DEF ModelChanges, ModeChangeStarts, ModeNoted, ModeRollsBack, InTurn, turnVars
  <2>11. CASE ModelRollsBack(t) \/ ModeUndone(t)
    BY <2>11, OverPlace, MarksQuiet DEF ModelRollsBack, ModeUndone, Finish, InTurn
  <2>12. CASE ModeSwapped(t)
    <3>1. CASE Of(t) \in known
      BY <2>12, <3>1, GoesPlace, MarksQuiet DEF ModeSwapped, InTurn
    <3>2. CASE Of(t) \notin known
      BY <2>12, <3>2, OverPlace, MarksQuiet DEF ModeSwapped, Finish, InTurn
    <3> QED BY <3>1, <3>2
  <2>13. ASSUME NEW r \in Runtime, RefreshQueues(t, r)
         PROVE  TurnMarked'
    BY <2>13, GoesPlace, MarksQuiet DEF RefreshQueues, InTurn
  <2>14. CASE RefreshDone(t)
    BY <2>14, OverPlace, MarksQuiet DEF RefreshDone, InTurn, turnVars
  <2>15. CASE RefreshStarts(t)
    BY <2>15, GoesPlace, MarksQuiet DEF RefreshStarts, InTurn, turnVars
  <2>16. CASE RefreshLists(t)
    <3>1. CASE Goes(t, "walk") /\ UNCHANGED ask
      BY <2>16, <3>1, GoesPlace, MarksQuiet DEF RefreshLists, InTurn
    <3>2. CASE Over(t)
      BY <2>16, <3>2, OverPlace, MarksQuiet DEF RefreshLists, InTurn
    <3> QED BY <2>16, <3>1, <3>2 DEF RefreshLists
  <2> QED BY <1>3, <2>1, <2>2, <2>3, <2>4, <2>5, <2>6, <2>7, <2>8, <2>9, <2>10,
             <2>11, <2>12, <2>13, <2>14, <2>15, <2>16 DEF Proceeds
<1> QED BY <1>1, <1>2, <1>3 DEF Next, vars, turnVars

(* The mark of a session stands for the one turn of it that is under way,  *)
(* whatever fails between begin_prompt and finish_prompt.                  *)
THEOREM OneTurnEach == Spec => []TurnMarked
<1>1. Init => TurnMarked
  BY NilFacts DEF Init, TurnMarked, InTurn
<1> QED BY <1>1, StepMarks, TypeInvariant, PTL DEF Spec

-----------------------------------------------------------------------------
(* What a change has read of its session, or has written to it, while it   *)
(* awaits something.  Its history is one the session had before, since     *)
(* only turns may be committed meanwhile; its settings are the session's,  *)
(* but for the one it changes, since changes exclude each other.           *)

AskedForIssued(t) == pc[t] \in Prompting \cup Changing => Of(t) \in issued

HasRead(t) ==
  pc[t] \in {"swap", "undo"} /\ Of(t) \in known =>
    /\ \E n \in 0 .. Len(data[Of(t)].history) :
         copy[t].history = SubSeq(data[Of(t)].history, 1, n)
    /\ pc[t] = "swap" =>
         copy[t].mode = ask[t].value /\ copy[t].model = previous[t].model

HasWritten(t) ==
  pc[t] \in {"note", "option"} /\ Of(t) \in known =>
    \/ /\ ask[t].op = "mode"
       /\ data[Of(t)].mode = ask[t].value /\ data[Of(t)].model = previous[t].model
    \/ /\ ask[t].op = "model"
       /\ data[Of(t)].model = ask[t].value /\ data[Of(t)].mode = previous[t].mode

Settled(t) == AskedForIssued(t) /\ HasRead(t) /\ HasWritten(t)

ChangesInv == \A t \in Task : Settled(t)

LEMMA ChangesMatch == ChangesInv => NotesMatchStore
BY DEF ChangesInv, Settled, HasWritten, NotesMatchStore

(* Whoever has the update lock is the only one who has looked.             *)
LEMMA OneHolder ==
  ASSUME TypeInv, NEW t \in Task, MayUpdate(t),
         NEW u \in Task, pc[u] \in Changing \ {"queued"}, Of(u) = Of(t)
  PROVE  u = t
BY DEF TypeInv, Handlers, UpdateHeld, MayUpdate

(* The session keeps its settings, and at most gains a turn. *)
Kept(s) ==
  /\ s \in known
  /\ data'[s].mode = data[s].mode /\ data'[s].model = data[s].model
  /\ \/ data'[s].history = data[s].history
     \/ \E x \in Task : data'[s].history = Append(data[s].history, x)

LEMMA PrefixKept ==
  ASSUME NEW h \in Seq(Task), NEW x \in Task, NEW n \in 0 .. Len(h)
  PROVE  /\ n \in 0 .. Len(Append(h, x))
         /\ SubSeq(Append(h, x), 1, n) = SubSeq(h, 1, n)
<1>1. Append(h, x) \in Seq(Task) /\ Len(Append(h, x)) = Len(h) + 1
  BY AppendProperties
<1>2. n \in 0 .. Len(Append(h, x))
  BY <1>1
<1>3. SubSeq(Append(h, x), 1, n) = SubSeq(h, 1, n)
  BY <1>1, <1>2, AppendProperties
<1> QED BY <1>2, <1>3

(* Everything about a task but what its session is. *)
SamePlace(u) ==
  pc'[u] = pc[u] /\ ask'[u] = ask[u] /\ copy'[u] = copy[u] /\ previous'[u] = previous[u]

LEMMA SettledKept ==
  ASSUME TypeInv, NEW u \in Task, Settled(u), SamePlace(u), issued \subseteq issued',
         pc[u] \in Changing \ {"queued"} /\ Of(u) \in known' => Kept(Of(u))
  PROVE  Settled(u)'
<1>1. Of(u)' = Of(u)
  BY DEF SamePlace, Of
<1>2. AskedForIssued(u)'
  BY <1>1 DEF Settled, AskedForIssued, SamePlace
<1>3. HasWritten(u)'
  BY <1>1 DEF Settled, HasWritten, SamePlace, Kept, Changing
<1>4. HasRead(u)'
  <2> SUFFICES ASSUME pc[u] \in {"swap", "undo"}, Of(u) \in known'
               PROVE  HasRead(u)'
    BY <1>1 DEF HasRead, SamePlace
  <2>1. Kept(Of(u)) /\ Of(u) \in Session
    BY OfTypes DEF Changing
  <2>2. data[Of(u)].history \in Seq(Task)
    BY <2>1, DataFields DEF TypeInv, TypeOK, StoreTypeOK
  <2>3. PICK n \in 0 .. Len(data[Of(u)].history) :
          copy[u].history = SubSeq(data[Of(u)].history, 1, n)
    BY <2>1 DEF Settled, HasRead, Kept
  <2>4. /\ n \in 0 .. Len(data'[Of(u)].history)
        /\ copy[u].history = SubSeq(data'[Of(u)].history, 1, n)
    BY <2>1, <2>2, <2>3, PrefixKept DEF Kept
  <2>5. pc[u] = "swap" => copy[u].mode = ask[u].value /\ copy[u].model = previous[u].model
    BY <2>1 DEF Settled, HasRead, Kept
  <2> QED BY <1>1, <2>4, <2>5 DEF HasRead, SamePlace
<1> QED BY <1>2, <1>3, <1>4 DEF Settled

OthersSame(t) == \A u \in Task \ {t} : SamePlace(u)

(* A step of a handler that leaves the store alone. *)
LEMMA SettledNoStore ==
  ASSUME TypeInv, ChangesInv, NEW t \in Task, OthersSame(t), UNCHANGED storeVars,
         Settled(t)'
  PROVE  ChangesInv'
<1> SUFFICES ASSUME NEW u \in Task, u # t PROVE Settled(u)'
  BY DEF ChangesInv
<1>1. pc[u] \in Changing \ {"queued"} /\ Of(u) \in known' => Kept(Of(u))
  BY DEF Kept, storeVars
<1> QED BY <1>1, SettledKept DEF ChangesInv, OthersSame, storeVars

(* One that commits a turn. *)
LEMMA SettledCommit ==
  ASSUME TypeInv, ChangesInv, NEW t \in Task, OthersSame(t), NEW s \in Session,
         Save(s, WithTurn(data[s], t)), Settled(t)'
  PROVE  ChangesInv'
<1> SUFFICES ASSUME NEW u \in Task, u # t PROVE Settled(u)'
  BY DEF ChangesInv
<1>1. ASSUME Of(u) \in known'
      PROVE  Kept(Of(u))
  BY <1>1 DEF Kept, Save, TypeInv, TypeOK, StoreTypeOK, WithTurn, Data
<1> QED BY <1>1, SettledKept DEF ChangesInv, OthersSame, Save

(* One that gives a session a directory. *)
LEMMA SettledMoved ==
  ASSUME TypeInv, ChangesInv, NEW t \in Task, OthersSame(t), NEW s \in Session, NEW c,
         Save(s, WithCwd(data[s], c)), Settled(t)'
  PROVE  ChangesInv'
<1> SUFFICES ASSUME NEW u \in Task, u # t PROVE Settled(u)'
  BY DEF ChangesInv
<1>1. ASSUME Of(u) \in known'
      PROVE  Kept(Of(u))
  BY <1>1 DEF Kept, Save, TypeInv, TypeOK, StoreTypeOK, WithCwd, Data
<1> QED BY <1>1, SettledKept DEF ChangesInv, OthersSame, Save

(* One that has the update lock of the session it saves. *)
LEMMA SettledHolder ==
  ASSUME TypeInv, ChangesInv, NEW t \in Task, OthersSame(t), MayUpdate(t),
         Of(t) \in Session, NEW d, Save(Of(t), d), Settled(t)'
  PROVE  ChangesInv'
<1> SUFFICES ASSUME NEW u \in Task, u # t PROVE Settled(u)'
  BY DEF ChangesInv
<1>1. ASSUME pc[u] \in Changing \ {"queued"}, Of(u) \in known'
      PROVE  Kept(Of(u))
  <2>1. Of(u) # Of(t)
    BY <1>1, OneHolder
  <2> QED BY <1>1, <2>1 DEF Kept, Save, TypeInv, TypeOK, StoreTypeOK
<1> QED BY <1>1, SettledKept DEF ChangesInv, OthersSame, Save

(* A new session is none that a handler waits for. *)
LEMMA SettledCreate ==
  ASSUME TypeInv, ChangesInv, NEW s \in Session, s \notin issued, NEW d, Create(s, d),
         UNCHANGED <<pc, ask, copy, previous>>
  PROVE  ChangesInv'
<1> SUFFICES ASSUME NEW u \in Task PROVE Settled(u)'
  BY DEF ChangesInv
<1>1. ASSUME pc[u] \in Changing \ {"queued"}, Of(u) \in known'
      PROVE  Kept(Of(u))
  <2>1. Of(u) \in issued
    BY <1>1 DEF ChangesInv, Settled, AskedForIssued
  <2> QED BY <1>1, <2>1 DEF Kept, Create, TypeInv, TypeOK, StoreTypeOK
<1> QED BY <1>1, SettledKept DEF ChangesInv, SamePlace, Create

LEMMA SettledDelete ==
  ASSUME TypeInv, ChangesInv, NEW s \in Session, Delete(s),
         UNCHANGED <<pc, ask, copy, previous>>
  PROVE  ChangesInv'
<1> SUFFICES ASSUME NEW u \in Task PROVE Settled(u)'
  BY DEF ChangesInv
<1>1. ASSUME Of(u) \in known'
      PROVE  Kept(Of(u))
  BY <1>1 DEF Kept, Delete, TypeInv, TypeOK, StoreTypeOK
<1> QED BY <1>1, SettledKept DEF ChangesInv, SamePlace, Delete

LEMMA SettledSame ==
  ASSUME ChangesInv, UNCHANGED <<pc, ask, copy, previous, storeVars>>
  PROVE  ChangesInv'
BY DEF ChangesInv, Settled, AskedForIssued, HasRead, HasWritten, Of, storeVars

LEMMA OverSettled ==
  ASSUME TypeInv, NEW t \in Task, Over(t)
  PROVE  OthersSame(t) /\ Settled(t)'
<1>1. OthersSame(t) /\ pc'[t] = "over"
  BY DEF TypeInv, TypeOK, Over, Goes, Dropped, OthersSame, SamePlace
<1> QED BY <1>1
        DEF Settled, AskedForIssued, HasRead, HasWritten, Prompting, Changing

LEMMA LoadSettled ==
  ASSUME TypeInv, NEW t \in Task, NEW s, LoadSession(t, s)
  PROVE  OthersSame(t) /\ Settled(t)'
<1>1. CASE s \in known
  <2>1. OthersSame(t) /\ pc'[t] = "loaded"
    BY <1>1 DEF LoadSession, TypeInv, TypeOK, Goes, OthersSame, SamePlace
  <2> QED BY <2>1
          DEF Settled, AskedForIssued, HasRead, HasWritten, Prompting, Changing
<1>2. CASE s \notin known
  BY <1>2, OverSettled DEF LoadSession
<1> QED BY <1>1, <1>2

(* A handler goes where it neither has read nor has written its session.   *)
LEMMA GoesSettled ==
  ASSUME TypeInv, ChangesInv, NEW t \in Task, NEW stage, Goes(t, stage),
         stage \notin {"swap", "undo", "note", "option"},
         stage \in Prompting \cup Changing => pc[t] \in Prompting \cup Changing,
         UNCHANGED <<ask, copy, previous, issued>>
  PROVE  OthersSame(t) /\ Settled(t)'
<1>1. OthersSame(t) /\ pc'[t] = stage /\ Of(t)' = Of(t)
  BY DEF TypeInv, TypeOK, Goes, OthersSame, SamePlace, Of
<1>2. AskedForIssued(t)
  BY DEF ChangesInv, Settled
<1> QED BY <1>1, <1>2 DEF Settled, AskedForIssued, HasRead, HasWritten

LEMMA EndsTurnSettled ==
  ASSUME TypeInv, ChangesInv, NEW t \in Task, EndsTurn(t), pc[t] \in Prompting,
         UNCHANGED issued
  PROVE  OthersSame(t) /\ Settled(t)'
<1>1. CASE Of(t) \in known
  <2>1. Goes(t, "end_turn") /\ Dropped(t) /\ UNCHANGED ask
    BY <1>1 DEF EndsTurn
  <2>2. OthersSame(t) /\ pc'[t] = "end_turn" /\ Of(t)' = Of(t)
    BY <2>1 DEF TypeInv, TypeOK, Goes, Dropped, OthersSame, SamePlace, Of
  <2>3. AskedForIssued(t)
    BY DEF ChangesInv, Settled
  <2> QED BY <2>2, <2>3 DEF Settled, AskedForIssued, HasRead, HasWritten
<1>2. CASE Of(t) \notin known
  BY <1>2, OverSettled DEF EndsTurn
<1> QED BY <1>1, <1>2

-----------------------------------------------------------------------------
(* The steps of a change.                                                  *)

LEMMA FullPrefix ==
  ASSUME NEW h \in Seq(Task)
  PROVE  Len(h) \in 0 .. Len(h) /\ SubSeq(h, 1, Len(h)) = h
BY SubSeqFull, LenProperties

LEMMA ModelChangesSettles ==
  ASSUME TypeInv, ChangesInv, NEW t \in Task, ModelChanges(t)
  PROVE  ChangesInv'
<1>1. /\ Of(t) \in Session /\ Of(t) \in known /\ data[Of(t)] \in SessionData
      /\ MayUpdate(t) /\ Save(Of(t), WithModel(data[Of(t)], ask[t].value))
  <2>1. Of(t) \in Session
    BY OfTypes DEF ModelChanges, Changing
  <2> QED BY <2>1, ReadTypes DEF ModelChanges, SetModel
<1>2. /\ OthersSame(t) /\ pc'[t] = "option" /\ Of(t)' = Of(t) /\ ask'[t] = ask[t]
      /\ previous'[t] = data[Of(t)]
  BY DEF ModelChanges, TypeInv, TypeOK, Goes, OthersSame, SamePlace, Of
<1>3. data'[Of(t)] = WithModel(data[Of(t)], ask[t].value)
  BY <1>1 DEF Save, TypeInv, TypeOK, StoreTypeOK
<1>4. HasWritten(t)'
  BY <1>2, <1>3 DEF HasWritten, WithModel, Data, ModelChanges
<1>5. AskedForIssued(t)'
  BY <1>1, <1>2 DEF AskedForIssued, Save, TypeInv, TypeOK, StoreTypeOK
<1>6. Settled(t)'
  BY <1>2, <1>4, <1>5 DEF Settled, HasRead
<1> QED BY <1>1, <1>2, <1>6, SettledHolder

(* set_mode reads the session: the copy has its history and its model.     *)
LEMMA ReadsSettles ==
  ASSUME TypeInv, ChangesInv, NEW t \in Task, pc[t] \in Changing, NEW m \in Mode,
         ReadsForMode(t, m), NEW stage \in {"swap", "undo"}, Goes(t, stage),
         UNCHANGED <<storeVars, ask>>,
         \/ stage = "undo" /\ UNCHANGED previous
         \/ /\ stage = "swap" /\ m = ask[t].value
            /\ previous' = [previous EXCEPT ![t] = data[Of(t)]]
  PROVE  ChangesInv'
<1>1. Of(t) \in Session /\ data[Of(t)] \in SessionData
  BY OfTypes, ReadTypes DEF ReadsForMode
<1>2. /\ OthersSame(t) /\ pc'[t] = stage /\ Of(t)' = Of(t) /\ ask'[t] = ask[t]
      /\ copy'[t] = WithMode(data[Of(t)], m)
      /\ stage = "swap" => previous'[t] = data[Of(t)]
  BY DEF ReadsForMode, TypeInv, TypeOK, Goes, OthersSame, SamePlace, Of
<1>3. /\ copy'[t].history = data[Of(t)].history
      /\ copy'[t].mode = m /\ copy'[t].model = data[Of(t)].model
  BY <1>2 DEF WithMode, Data
<1>4. \E n \in 0 .. Len(data[Of(t)].history) :
        copy'[t].history = SubSeq(data[Of(t)].history, 1, n)
  BY <1>1, <1>3, FullPrefix, DataFields
<1>5. HasRead(t)'
  BY <1>2, <1>3, <1>4 DEF HasRead, storeVars
<1>6. AskedForIssued(t)'
  BY <1>2 DEF ChangesInv, Settled, AskedForIssued, storeVars
<1>7. Settled(t)'
  BY <1>2, <1>5, <1>6 DEF Settled, HasWritten
<1> QED BY <1>2, <1>7, SettledNoStore

LEMMA ModeSwappedSettles ==
  ASSUME TypeInv, ChangesInv, NEW t \in Task, ModeSwapped(t)
  PROVE  ChangesInv'
<1>1. /\ Of(t) \in Session /\ MayUpdate(t) /\ Save(Of(t), copy[t])
      /\ ask[t].op = "mode" /\ Settled(t)
  BY OfTypes
     DEF ModeSwapped, SetsMode, TypeInv, Handlers, AskFits, UpdateHeld, Changing, ChangesInv
<1>2. OthersSame(t) /\ Settled(t)'
  <2>1. CASE Of(t) \in known
    <3>1. Goes(t, "note") /\ UNCHANGED <<ask, copy, previous, updating>>
      BY <2>1 DEF ModeSwapped
    <3>2. OthersSame(t) /\ pc'[t] = "note" /\ Of(t)' = Of(t)
      BY <3>1 DEF TypeInv, TypeOK, Goes, OthersSame, SamePlace, Of
    <3>3. data'[Of(t)] = copy[t] /\ UNCHANGED <<issued, known>>
      BY <1>1, <2>1 DEF Save, TypeInv, TypeOK, StoreTypeOK
    <3>4. copy[t].mode = ask[t].value /\ copy[t].model = previous[t].model
      BY <1>1, <2>1 DEF Settled, HasRead, ModeSwapped
    <3>5. HasWritten(t)'
      BY <1>1, <3>1, <3>2, <3>3, <3>4 DEF HasWritten
    <3>6. AskedForIssued(t)'
      BY <1>1, <3>2, <3>3 DEF Settled, AskedForIssued, ModeSwapped, Changing
    <3> QED BY <3>2, <3>5, <3>6 DEF Settled, HasRead
  <2>2. CASE Of(t) \notin known
    BY <2>2, OverSettled DEF ModeSwapped, Finish
  <2> QED BY <2>1, <2>2
<1> QED BY <1>1, <1>2, SettledHolder

LEMMA ModeNotedSettles ==
  ASSUME TypeInv, ChangesInv, NEW t \in Task, ModeNoted(t)
  PROVE  ChangesInv'
<1>1. OthersSame(t) /\ pc'[t] = "option" /\ Of(t)' = Of(t)
  BY DEF ModeNoted, TypeInv, TypeOK, Goes, OthersSame, SamePlace, Of
<1>2. Settled(t)'
  BY <1>1
     DEF ModeNoted, ChangesInv, Settled, AskedForIssued, HasRead, HasWritten, storeVars,
         Changing
<1> QED BY <1>1, <1>2, SettledNoStore DEF ModeNoted

(* A rollback or an undone mode is saved by the holder of the lock. *)
LEMMA RollbackSettles ==
  ASSUME TypeInv, ChangesInv, NEW t \in Task, ModelRollsBack(t) \/ ModeUndone(t)
  PROVE  ChangesInv'
<1>1. Of(t) \in Session /\ MayUpdate(t)
  BY OfTypes DEF ModelRollsBack, ModeUndone, TypeInv, Handlers, UpdateHeld, Changing
<1>2. \E d : Save(Of(t), d)
  BY DEF ModelRollsBack, ResetModel, SetModel, ModeUndone, SetsMode
<1>3. OthersSame(t) /\ Settled(t)'
  BY OverSettled DEF ModelRollsBack, ModeUndone, Finish
<1> QED BY <1>1, <1>2, <1>3, SettledHolder

LEMMA CommitSettles ==
  ASSUME TypeInv, ChangesInv, NEW t \in Task, pc[t] \in Prompting, Commit(t)
  PROVE  ChangesInv'
<1>1. Of(t) \in Session /\ Save(Of(t), WithTurn(data[Of(t)], t))
  BY OfTypes DEF Commit
<1>2. OthersSame(t) /\ Settled(t)'
  BY <1>1, EndsTurnSettled DEF Commit, Save
<1> QED BY <1>1, <1>2, SettledCommit

(* A handler arrives; if it waits for a session, that one was issued. *)
LEMMA ArrivesSettled ==
  ASSUME TypeInv, NEW t \in Task, NEW stage, Goes(t, stage), NEW q, Arrives(t, q),
         stage \notin {"swap", "undo", "note", "option"},
         stage \in Prompting \cup Changing => q.of \in issued,
         NEW d, copy' = [copy EXCEPT ![t] = d], UNCHANGED <<previous, issued>>
  PROVE  OthersSame(t) /\ Settled(t)'
<1>1. OthersSame(t) /\ pc'[t] = stage /\ ask'[t] = q
  BY DEF TypeInv, TypeOK, Goes, Arrives, OthersSame, SamePlace
<1> QED BY <1>1 DEF Settled, AskedForIssued, HasRead, HasWritten, Of

LEMMA ArrivesSettles ==
  ASSUME TypeInv, ChangesInv, NEW t \in Task,
         \/ RefreshArrives(t) \/ PromptUnreadable(t)
         \/ \E s \in issued : PromptRefused(t, s) \/ PromptBegins(t, s)
         \/ \E s \in issued, op \in {"mode", "model"} : \E v : ChangeArrives(t, op, s, v)
  PROVE  ChangesInv'
<1>1. UNCHANGED storeVars /\ issued' = issued
  BY DEF RefreshArrives, PromptUnreadable, PromptRefused, PromptBegins, ChangeArrives,
         storeVars
<1>2. UNCHANGED copy => copy' = [copy EXCEPT ![t] = copy[t]]
  BY DEF TypeInv, TypeOK
<1>3. OthersSame(t) /\ Settled(t)'
  <2>1. CASE RefreshArrives(t)
    <3>1. /\ Goes(t, "walk") /\ Arrives(t, Asked("refresh", Nil, Nil))
          /\ UNCHANGED <<copy, previous>>
      BY <2>1 DEF RefreshArrives
    <3> QED BY <1>1, <1>2, <3>1, ArrivesSettled DEF Prompting, Changing
  <2>2. ASSUME NEW s \in issued, PromptRefused(t, s)
        PROVE  OthersSame(t) /\ Settled(t)'
    BY <2>2, OverSettled DEF PromptRefused
  <2>3. ASSUME NEW s \in issued, PromptBegins(t, s)
        PROVE  OthersSame(t) /\ Settled(t)'
    <3>1. PICK stage \in {"tools", "build"} : Goes(t, stage)
      BY <2>3 DEF PromptBegins
    <3>2. /\ Arrives(t, Asked("prompt", s, Nil)) /\ UNCHANGED previous
          /\ copy' = [copy EXCEPT ![t] = data[s]]
      BY <2>3 DEF PromptBegins
    <3>3. Asked("prompt", s, Nil).of = s
      BY DEF Asked
    <3> QED BY <1>1, <3>1, <3>2, <3>3, ArrivesSettled
  <2>4. ASSUME NEW s \in issued, NEW op \in {"mode", "model"}, NEW v,
               ChangeArrives(t, op, s, v)
        PROVE  OthersSame(t) /\ Settled(t)'
    <3>1. /\ Goes(t, "queued") /\ Arrives(t, Asked(op, s, v))
          /\ UNCHANGED <<copy, previous>>
      BY <2>4 DEF ChangeArrives
    <3>2. Asked(op, s, v).of = s
      BY DEF Asked
    <3> QED BY <1>1, <1>2, <3>1, <3>2, ArrivesSettled
  <2>5. CASE PromptUnreadable(t)
    BY <2>5, OverSettled DEF PromptUnreadable
  <2> QED BY <2>1, <2>2, <2>3, <2>4, <2>5
<1> QED BY <1>1, <1>3, SettledNoStore

LEMMA StepChanges == TypeInv /\ ChangesInv /\ [Next]_vars => ChangesInv'
<1> SUFFICES ASSUME TypeInv, ChangesInv, [Next]_vars PROVE ChangesInv'
  OBVIOUS
<1>1. CASE UNCHANGED vars
  BY <1>1, SettledSame DEF vars
<1>2. CASE Client
  <2>1. ASSUME NEW s \in Session,
               OpenSession(s) \/ \E u \in Session : ForkSession(s, u)
        PROVE  ChangesInv'
    BY <2>1, SettledCreate DEF OpenSession, NewSession, ForkSession, ForkOf, Unissued
  <2>2. ASSUME NEW s \in issued, CancelSession(s)
        PROVE  ChangesInv'
    BY <2>2, SettledSame DEF CancelSession
  <2>3. ASSUME NEW s \in issued, CloseSession(s)
        PROVE  ChangesInv'
    BY <2>3, SettledDelete DEF CloseSession, Close, TypeInv, TypeOK, StoreTypeOK
  <2>4. ASSUME NEW t \in Task, NEW s \in issued, LoadSession(t, s)
        PROVE  ChangesInv'
    BY <2>4, LoadSettled, SettledMoved
       DEF LoadSession, LoadWithCwd, TypeInv, TypeOK, StoreTypeOK
  <2>5. ASSUME NEW t \in Task, NEW s \in issued, NEW op \in {"mode", "model"}, NEW v,
               ChangeArrives(t, op, s, v)
        PROVE  ChangesInv'
    BY <2>5, ArrivesSettles
  <2> QED BY <1>2, <2>1, <2>2, <2>3, <2>4, <2>5, ArrivesSettles DEF Client
<1>3. ASSUME NEW t \in Task, Proceeds(t)
      PROVE  ChangesInv'
  <2>1. CASE PromptBuilt(t)
    BY <2>1, GoesSettled, SettledNoStore DEF PromptBuilt, Prompting, storeVars
  <2>2. CASE PromptBuildFails(t) \/ LoopFails(t) \/ MessageFails(t) \/ RefreshDone(t)
    BY <2>2, OverSettled, SettledNoStore
       DEF PromptBuildFails, LoopFails, MessageFails, RefreshDone
  <2>3. CASE ToolsGranted(t)
    <3>1. CASE t \notin cancelled
      BY <2>3, <3>1, GoesSettled, SettledNoStore DEF ToolsGranted, Prompting, storeVars
    <3>2. CASE t \in cancelled
      BY <2>3, <3>2, OverSettled, SettledNoStore DEF ToolsGranted
    <3> QED BY <3>1, <3>2
  <2>4. CASE LoopAnswers(t)
    BY <2>4, GoesSettled, SettledNoStore DEF LoopAnswers, Prompting, storeVars
  <2>5. CASE LoopAnswersNothing(t) \/ MessageSent(t)
    BY <2>5, CommitSettles DEF LoopAnswersNothing, MessageSent, Prompting
  <2>6. CASE \/ ChangeRefused(t) \/ ModeSwapFails(t) \/ OptionSent(t)
             \/ RollbackRefused(t) \/ ModeUndoFails(t)
    BY <2>6, OverSettled, SettledNoStore
       DEF ChangeRefused, ModeSwapFails, OptionSent, RollbackRefused, ModeUndoFails,
           Finish
  <2>7. CASE ModelChanges(t)
    BY <2>7, ModelChangesSettles
  <2>8. CASE ModeChangeStarts(t)
    <3>1. ask[t].value \in Mode
      BY <2>8, OfTypes DEF ModeChangeStarts, Changing
    <3> QED BY <2>8, <3>1, ReadsSettles DEF ModeChangeStarts, Changing
  <2>9. CASE ModeSwapped(t)
    BY <2>9, ModeSwappedSettles
  <2>10. CASE ModeNoted(t)
    BY <2>10, ModeNotedSettles
  <2>11. CASE ModelRollsBack(t) \/ ModeUndone(t)
    BY <2>11, RollbackSettles
  <2>12. CASE ModeRollsBack(t)
    <3>1. previous[t].mode \in Mode
      BY DataFields DEF TypeInv, TypeOK
    <3> QED BY <2>12, <3>1, ReadsSettles DEF ModeRollsBack, Changing
  <2>13. ASSUME NEW r \in Runtime, RefreshQueues(t, r)
         PROVE  ChangesInv'
    BY <2>13, GoesSettled, SettledNoStore
       DEF RefreshQueues, Prompting, Changing, storeVars
  <2>14. CASE RefreshStarts(t)
    BY <2>14, GoesSettled, SettledNoStore
       DEF RefreshStarts, Prompting, Changing, storeVars
  <2>15. CASE RefreshLists(t)
    <3>1. CASE Goes(t, "walk") /\ UNCHANGED <<ask, copy, previous, todo>>
      BY <2>15, <3>1, GoesSettled, SettledNoStore
         DEF RefreshLists, Prompting, Changing, storeVars
    <3>2. CASE Over(t)
      BY <2>15, <3>2, OverSettled, SettledNoStore DEF RefreshLists
    <3> QED BY <2>15, <3>1, <3>2 DEF RefreshLists
  <2> QED BY <1>3, <2>1, <2>2, <2>3, <2>4, <2>5, <2>6, <2>7, <2>8, <2>9, <2>10,
             <2>11, <2>12, <2>13, <2>14, <2>15 DEF Proceeds
<1> QED BY <1>1, <1>2, <1>3 DEF Next

LEMMA ChangesInvariant == Spec => []ChangesInv
<1>1. Init => ChangesInv
  BY DEF Init, ChangesInv, Settled, AskedForIssued, HasRead, HasWritten, Prompting,
         Changing
<1> QED BY <1>1, StepChanges, TypeInvariant, PTL DEF Spec

(* What a client is told of a change the store has, and the other setting  *)
(* is the one the change found: no two changes of a session mix, and no    *)
(* turn, fork or close touches a setting.                                  *)
THEOREM ChangesDoNotMix == Spec => []NotesMatchStore
BY ChangesMatch, ChangesInvariant, PTL

-----------------------------------------------------------------------------
(* What is not a session has no history.                                   *)

Emptied == \A s \in Session : s \notin known => data[s].history = << >>

(* The ways a step may change the store. *)
StoreMoves ==
  \/ UNCHANGED storeVars
  \/ \E s \in Session, d \in SessionData : Create(s, d) \/ Save(s, d)
  \/ \E s \in Session : \E d : s \notin known /\ Save(s, d)
  \/ \E s \in Session : Delete(s)

LEMMA EmptiedKept ==
  ASSUME TypeInv, Emptied, StoreMoves
  PROVE  Emptied'
<1>1. /\ data \in [Session -> SessionData]
  BY DEF TypeInv, TypeOK, StoreTypeOK
<1>2. CASE UNCHANGED storeVars
  BY <1>2 DEF Emptied, storeVars
<1>3. ASSUME NEW s \in Session, NEW d, Create(s, d) \/ Save(s, d) \/ Delete(s)
      PROVE  Emptied'
  BY <1>1, <1>3 DEF Emptied, Create, Save, Delete, Blank, Data
<1> QED BY <1>2, <1>3 DEF StoreMoves

LEMMA StepStore == TypeInv /\ [Next]_vars => StoreMoves
<1> SUFFICES ASSUME TypeInv, [Next]_vars PROVE StoreMoves
  OBVIOUS
<1>1. CASE UNCHANGED storeVars
  BY <1>1 DEF StoreMoves
<1>2. CASE Client
  <2>1. ASSUME NEW s \in Session, NewSession(s) \/ \E u \in Session : ForkOf(s, u)
        PROVE  StoreMoves
    BY <2>1, BlankType, DataTypes
       DEF NewSession, ForkOf, StoreMoves, TypeInv, TypeOK, StoreTypeOK
  <2>2. ASSUME NEW s \in issued, CloseSession(s)
        PROVE  StoreMoves
    BY <2>2 DEF CloseSession, Close, StoreMoves, TypeInv, TypeOK, StoreTypeOK
  <2>3. ASSUME NEW t \in Task, NEW s \in issued, LoadSession(t, s)
        PROVE  StoreMoves
    <3>1. s \in Session /\ WithCwd(data[s], t) \in SessionData
      BY DataTypes DEF TypeInv, TypeOK, StoreTypeOK
    <3> QED BY <2>3, <3>1 DEF LoadSession, LoadWithCwd, StoreMoves
  <2> QED BY <1>1, <1>2, <2>1, <2>2, <2>3
          DEF Client, OpenSession, ForkSession, CancelSession, RefreshArrives,
              PromptUnreadable, PromptRefused, PromptBegins, ChangeArrives
<1>3. ASSUME NEW t \in Task, Proceeds(t)
      PROVE  StoreMoves
  <2>1. CASE LoopAnswersNothing(t) \/ MessageSent(t)
    <3>1. Of(t) \in Session /\ Save(Of(t), WithTurn(data[Of(t)], t))
      BY <2>1, OfTypes DEF LoopAnswersNothing, MessageSent, Commit, Prompting
    <3>2. WithTurn(data[Of(t)], t) \in SessionData
      BY <3>1, DataTypes DEF TypeInv, TypeOK, StoreTypeOK
    <3> QED BY <3>1, <3>2 DEF StoreMoves
  <2>2. CASE ModelChanges(t) \/ ModelRollsBack(t)
    <3>1. PICK m \in Model : SetModel(Of(t), m)
      BY <2>2, OfTypes, DataFields
         DEF ModelChanges, ModelRollsBack, ResetModel, Changing, TypeInv, TypeOK
    <3>2. Of(t) \in Session
      BY <2>2, OfTypes DEF ModelChanges, ModelRollsBack, Changing
    <3>3. WithModel(data[Of(t)], m) \in SessionData
      BY <3>2, DataTypes DEF TypeInv, TypeOK, StoreTypeOK
    <3> QED BY <3>1, <3>2, <3>3 DEF StoreMoves, SetModel
  <2>3. CASE ModeSwapped(t) \/ ModeUndone(t)
    <3>1. Of(t) \in Session /\ Save(Of(t), copy[t])
      BY <2>3, OfTypes DEF ModeSwapped, ModeUndone, SetsMode, Changing
    <3>2. copy[t] \in SessionData
      BY DEF TypeInv, TypeOK
    <3> QED BY <3>1, <3>2 DEF StoreMoves
  <2> QED BY <1>1, <1>3, <2>1, <2>2, <2>3
          DEF Proceeds, PromptBuilt, PromptBuildFails, ToolsGranted, LoopFails,
              LoopAnswers, MessageFails, ChangeRefused, ModeChangeStarts, ModeSwapFails,
              ModeNoted, OptionSent, RollbackRefused, ModeRollsBack, ModeUndoFails,
              RefreshQueues, RefreshDone, RefreshStarts, RefreshLists
<1> QED BY <1>1, <1>2, <1>3 DEF Next, vars

LEMMA EmptiedInvariant == Spec => []Emptied
<1>1. Init => Emptied
  BY DEF Init, StoreInit, Emptied, Blank, Data
<1> QED BY <1>1, StepStore, EmptiedKept, TypeInvariant, PTL DEF Spec

-----------------------------------------------------------------------------
(* The sessions implement conversations.                                   *)

HistoriesSame == \A s \in Session : data'[s].history = data[s].history

(* No handler ends its turn in the step. *)
NothingSaid == \A t \in Task : pc'[t] = "end_turn" <=> pc[t] = "end_turn"

LEMMA Stutters ==
  ASSUME UNCHANGED <<issued, known>>, HistoriesSame, NothingSaid
  PROVE  UNCHANGED C!vars
BY DEF C!vars, HistoriesSame, NothingSaid

LEMMA StoreSame ==
  ASSUME UNCHANGED storeVars
  PROVE  UNCHANGED <<issued, known>> /\ HistoriesSame
BY DEF storeVars, HistoriesSame

LEMMA NothingSaidBy ==
  ASSUME NEW t \in Task, Elsewhere(t), pc[t] # "end_turn", pc'[t] # "end_turn"
  PROVE  NothingSaid
BY DEF Elsewhere, NothingSaid

LEMMA ModelSavedStutters ==
  ASSUME TypeInv, NEW s \in Session, NEW m, Save(s, WithModel(data[s], m))
  PROVE  UNCHANGED <<issued, known>> /\ HistoriesSame
BY DEF Save, WithModel, Data, TypeInv, TypeOK, StoreTypeOK, HistoriesSame

LEMMA LoadStutters ==
  ASSUME TypeInv, NEW t \in Task, NEW s \in Session, LoadSession(t, s)
  PROVE  UNCHANGED C!vars
<1>1. UNCHANGED <<issued, known>> /\ HistoriesSame
  BY DEF LoadSession, LoadWithCwd, Save, WithCwd, Data, TypeInv, TypeOK, StoreTypeOK,
         HistoriesSame
<1>2. NothingSaid
  BY LoadPlace, NothingSaidBy
<1> QED BY <1>1, <1>2, Stutters

LEMMA CreateOpens ==
  ASSUME TypeInv, NEW s \in Session, s \notin issued, NEW d, Create(s, d),
         UNCHANGED pc,
         d.history = << >> \/ \E u \in known : d.history = data[u].history
  PROVE  C!Next
<1>1. s \notin known \cup (issued \ known)
  BY DEF TypeInv, TypeOK, StoreTypeOK
<1>2. /\ issued' = issued \cup {s} /\ known' = known \cup {s}
      /\ issued' \ known' = issued \ known
  BY <1>1 DEF Create
<1>3. [z \in Session |-> data'[z].history] =
        [[z \in Session |-> data[z].history] EXCEPT ![s] = d.history]
  BY DEF Create, TypeInv, TypeOK, StoreTypeOK
<1>4. C!Opens(s, d.history)
  BY <1>1, <1>2, <1>3 DEF C!Opens
<1>5. CASE d.history = << >>
  BY <1>4, <1>5 DEF C!Next
<1>6. ASSUME NEW u \in known, d.history = data[u].history
      PROVE  C!Next
  <2>1. u \in Session
    BY DEF TypeInv, TypeOK, StoreTypeOK
  <2>2. d.history = [z \in Session |-> data[z].history][u]
    BY <1>6, <2>1
  <2>3. C!Opens(s, [z \in Session |-> data[z].history][u])
    BY <1>1, <1>2, <1>3, <2>2 DEF C!Opens
  <2> QED BY <2>3 DEF C!Next, C!Opens
<1> QED BY <1>5, <1>6

LEMMA DeleteEnds ==
  ASSUME TypeInv, Emptied, NEW s \in issued, Delete(s), UNCHANGED pc
  PROVE  [C!Next]_(C!vars)
<1>1. s \in Session /\ known \subseteq issued /\ data \in [Session -> SessionData]
  BY DEF TypeInv, TypeOK, StoreTypeOK
<1>2. [z \in Session |-> data'[z].history] =
        [[z \in Session |-> data[z].history] EXCEPT ![s] = << >>]
  BY <1>1 DEF Delete, Blank, Data
<1>3. CASE s \in known
  <2>1. known' = known \ {s} /\ issued' \ known' = (issued \ known) \cup {s}
    BY <1>1, <1>3 DEF Delete
  <2>2. C!End(s)
    BY <1>2, <1>3, <2>1 DEF C!End
  <2>3. C!Next
    BY <1>1, <2>2, Zenon DEF C!Next
  <2> QED BY <2>3
<1>4. CASE s \notin known
  <2>1. UNCHANGED <<issued, known>> /\ HistoriesSame
    BY <1>1, <1>2, <1>4 DEF Delete, Emptied, HistoriesSame, Blank, Data
  <2>2. NothingSaid
    BY DEF NothingSaid
  <2> QED BY <2>1, <2>2, Stutters
<1> QED BY <1>3, <1>4

(* A committed turn is said, once, to the session as it is by then. *)
LEMMA CommitSays ==
  ASSUME TypeInv, NEW t \in Task, pc[t] \in Prompting \ {"end_turn"}, Commit(t)
  PROVE  [C!Next]_(C!vars)
<1> DEFINE s == Of(t)
<1>1. /\ s \in Session /\ data \in [Session -> SessionData]
      /\ pc \in [Task -> Stage]
      /\ Save(s, WithTurn(data[s], t)) /\ EndsTurn(t)
  BY OfTypes DEF Commit, TypeInv, TypeOK, StoreTypeOK
<1>2. CASE s \in known
  <2>1. /\ data' = [data EXCEPT ![s] = WithTurn(data[s], t)]
        /\ pc' = [pc EXCEPT ![t] = "end_turn"]
        /\ UNCHANGED <<issued, known>>
    BY <1>1, <1>2 DEF Save, EndsTurn, Goes
  <2>2. [z \in Session |-> data'[z].history] =
          [[z \in Session |-> data[z].history] EXCEPT ![s] = Append(@, t)]
    BY <1>1, <2>1 DEF WithTurn, Data
  <2>3. {u \in Task : pc'[u] = "end_turn"} = {u \in Task : pc[u] = "end_turn"} \cup {t}
    BY <1>1, <2>1
  <2>4. C!Say(s, t)
    BY <1>1, <1>2, <2>1, <2>2, <2>3 DEF C!Say
  <2>5. C!Next
    BY <1>1, <2>4, Zenon DEF C!Next
  <2> QED BY <2>5
<1>3. CASE s \notin known
  <2>1. UNCHANGED <<issued, known, data>>
    BY <1>1, <1>3 DEF Save
  <2>2. HistoriesSame
    BY <2>1 DEF HistoriesSame
  <2>3. NothingSaid
    BY <1>3, EndsTurnPlace, NothingSaidBy, <1>1
  <2> QED BY <2>1, <2>2, <2>3, Stutters
<1> QED BY <1>2, <1>3

(* A mode that is saved with a history read before forgets the turns since. *)
LEMMA ModeSavedForgets ==
  ASSUME TypeInv, ChangesInv, NEW t \in Task, pc[t] \in {"swap", "undo"},
         Save(Of(t), copy[t]), NothingSaid
  PROVE  [C!Next]_(C!vars)
<1> DEFINE s == Of(t)
<1>1. s \in Session /\ data \in [Session -> SessionData]
  BY OfTypes DEF TypeInv, TypeOK, StoreTypeOK, Changing
<1>2. CASE s \in known
  <2>1. data' = [data EXCEPT ![s] = copy[t]] /\ UNCHANGED <<issued, known>>
    BY <1>2 DEF Save
  <2>2. PICK n \in 0 .. Len(data[s].history) :
          copy[t].history = SubSeq(data[s].history, 1, n)
    BY <1>2 DEF ChangesInv, Settled, HasRead
  <2>3. [z \in Session |-> data'[z].history] =
          [[z \in Session |-> data[z].history] EXCEPT ![s] = SubSeq(@, 1, n)]
    BY <1>1, <2>1, <2>2
  <2>4. {u \in Task : pc'[u] = "end_turn"} = {u \in Task : pc[u] = "end_turn"}
    BY DEF NothingSaid
  <2>5. C!Forget(s, n)
    BY <1>2, <2>1, <2>3, <2>4 DEF C!Forget
  <2>6. n \in 0 .. Len([z \in Session |-> data[z].history][s])
    BY <1>1, <2>2
  <2>7. C!Next
    BY <1>1, <2>5, <2>6, Zenon DEF C!Next
  <2> QED BY <2>7
<1>3. CASE s \notin known
  <2>1. UNCHANGED <<issued, known>> /\ HistoriesSame
    BY <1>3 DEF Save, HistoriesSame
  <2> QED BY <2>1, Stutters
<1> QED BY <1>2, <1>3

LEMMA StepConverses ==
  TypeInv /\ ChangesInv /\ Emptied /\ [Next]_vars => [C!Next]_(C!vars)
<1> SUFFICES ASSUME TypeInv, ChangesInv, Emptied, [Next]_vars
             PROVE  [C!Next]_(C!vars)
  OBVIOUS
<1>1. CASE UNCHANGED <<storeVars, pc>>
  BY <1>1, StoreSame, Stutters DEF NothingSaid
<1>2. CASE UNCHANGED storeVars /\ NothingSaid
  BY <1>2, StoreSame, Stutters
<1>3. CASE Client
  <2>1. ASSUME NEW s \in Session, OpenSession(s)
        PROVE  C!Next
    BY <2>1, CreateOpens DEF OpenSession, NewSession, Unissued, Blank, Data
  <2>2. ASSUME NEW s \in Session, NEW u \in Session, ForkSession(s, u)
        PROVE  C!Next
    BY <2>2, CreateOpens DEF ForkSession, ForkOf, Unissued, WithCwd, Data
  <2>3. ASSUME NEW s \in issued, CancelSession(s)
        PROVE  [C!Next]_(C!vars)
    BY <1>1, <2>3 DEF CancelSession
  <2>4. ASSUME NEW s \in issued, CloseSession(s)
        PROVE  [C!Next]_(C!vars)
    BY <2>4, DeleteEnds DEF CloseSession, Close
  <2>5. ASSUME NEW t \in Task,
               \/ RefreshArrives(t)
               \/ \E s \in issued : \E op, v : ChangeArrives(t, op, s, v)
               \/ \E s \in issued : PromptBegins(t, s)
        PROVE  [C!Next]_(C!vars)
    <3>1. UNCHANGED storeVars
      BY <2>5 DEF RefreshArrives, ChangeArrives, PromptBegins
    <3>2. \E stage, q : stage # "end_turn" /\ Goes(t, stage) /\ Arrives(t, q)
      BY <2>5 DEF RefreshArrives, ChangeArrives, PromptBegins
    <3>3. NothingSaid
      BY <3>2, ArrivesPlace, NothingSaidBy
    <3> QED BY <1>2, <3>1, <3>3
  <2>6. ASSUME NEW t \in Task, NEW s \in issued, PromptRefused(t, s)
        PROVE  [C!Next]_(C!vars)
    BY <1>2, <2>6, OverPlace, NothingSaidBy DEF PromptRefused, IsNext
  <2>7. ASSUME NEW t \in Task, PromptUnreadable(t)
        PROVE  [C!Next]_(C!vars)
    BY <1>2, <2>7, OverPlace, NothingSaidBy DEF PromptUnreadable, IsNext
  <2>8. ASSUME NEW t \in Task, NEW s \in issued, LoadSession(t, s)
        PROVE  [C!Next]_(C!vars)
    BY <2>8, LoadStutters DEF TypeInv, TypeOK, StoreTypeOK
  <2>9. ASSUME NEW t \in Task, NEW s \in issued, NEW op, NEW v,
               ChangeArrives(t, op, s, v)
        PROVE  [C!Next]_(C!vars)
    BY <2>5, <2>9
  <2> QED BY <1>3, <2>1, <2>2, <2>3, <2>4, <2>5, <2>6, <2>7, <2>8, <2>9 DEF Client
<1>4. ASSUME NEW t \in Task, Proceeds(t)
      PROVE  [C!Next]_(C!vars)
  <2>1. CASE \/ PromptBuilt(t) \/ LoopAnswers(t) \/ ModeChangeStarts(t) \/ ModeNoted(t)
             \/ ModeRollsBack(t) \/ RefreshStarts(t)
             \/ \E r \in Runtime : RefreshQueues(t, r)
    BY <1>2, <2>1, GoesPlace, NothingSaidBy
       DEF PromptBuilt, LoopAnswers, ModeChangeStarts, ModeNoted, ModeRollsBack,
           RefreshStarts, RefreshQueues
  <2>2. CASE \/ PromptBuildFails(t) \/ LoopFails(t) \/ MessageFails(t)
             \/ ChangeRefused(t) \/ ModeSwapFails(t) \/ OptionSent(t)
             \/ RollbackRefused(t) \/ ModeUndoFails(t) \/ RefreshDone(t)
    BY <1>2, <2>2, OverPlace, NothingSaidBy
       DEF PromptBuildFails, LoopFails, MessageFails, ChangeRefused, ModeSwapFails,
           OptionSent, RollbackRefused, ModeUndoFails, RefreshDone, Finish
  <2>3. CASE ToolsGranted(t) \/ RefreshLists(t)
    <3>1. UNCHANGED storeVars /\ pc[t] # "end_turn"
      BY <2>3 DEF ToolsGranted, RefreshLists
    <3>2. \/ Over(t)
          \/ \E stage \in {"loop", "walk"} : Goes(t, stage) /\ UNCHANGED ask
      BY <2>3 DEF ToolsGranted, RefreshLists
    <3>3. NothingSaid
      BY <3>1, <3>2, OverPlace, GoesPlace, NothingSaidBy
    <3> QED BY <1>2, <3>1, <3>3
  <2>4. CASE LoopAnswersNothing(t) \/ MessageSent(t)
    BY <2>4, CommitSays DEF LoopAnswersNothing, MessageSent, Prompting
  <2>5. CASE ModelChanges(t) \/ ModelRollsBack(t)
    <3>1. Of(t) \in Session /\ \E m : Save(Of(t), WithModel(data[Of(t)], m))
      BY <2>5, OfTypes DEF ModelChanges, ModelRollsBack, ResetModel, SetModel, Changing
    <3>2. NothingSaid
      BY <2>5, OverPlace, GoesPlace, NothingSaidBy
         DEF ModelChanges, ModelRollsBack, Finish, turnVars
    <3> QED BY <3>1, <3>2, ModelSavedStutters, Stutters
  <2>6. CASE ModeSwapped(t) \/ ModeUndone(t)
    <3>1. pc[t] \in {"swap", "undo"} /\ Save(Of(t), copy[t])
      BY <2>6 DEF ModeSwapped, ModeUndone, SetsMode
    <3>2. ASSUME ModeSwapped(t), Of(t) \in known
          PROVE  NothingSaid
      BY <3>1, <3>2, GoesPlace, NothingSaidBy DEF ModeSwapped
    <3>3. ASSUME (ModeSwapped(t) /\ Of(t) \notin known) \/ ModeUndone(t)
          PROVE  NothingSaid
      BY <3>1, <3>3, OverPlace, NothingSaidBy DEF ModeSwapped, ModeUndone, Finish
    <3>4. NothingSaid
      BY <2>6, <3>2, <3>3
    <3> QED BY <3>1, <3>4, ModeSavedForgets
  <2> QED BY <1>4, <2>1, <2>2, <2>3, <2>4, <2>5, <2>6 DEF Proceeds
<1> QED BY <1>1, <1>3, <1>4 DEF Next, vars

LEMMA InitConverses == Init => C!Init
BY DEF Init, StoreInit, C!Init, Blank, Data

(* The histories of the harness grow by whole turns, each said once; a     *)
(* fork starts from a history as it is, and what is left of a history is   *)
(* what it was at some earlier time.                                       *)
THEOREM SessionsAreConversations == Spec => ImplementsConversation
BY InitConverses, StepConverses, TypeInvariant, ChangesInvariant, EmptiedInvariant, PTL
   DEF Spec, C!Spec, ImplementsConversation

-----------------------------------------------------------------------------
(* The runtime a turn works with.  A runtime that is being built is none   *)
(* that anybody refers to, so installing it changes no other; and the tool *)
(* lists change only under the lock that a running loop has.               *)

InUse(r) ==
  \/ \E s \in Session : table[s] = r
  \/ \E t \in Task : runtime[t] = r \/ r \in todo[t]

(* What a handler has still to build. *)
Unbuilt(t) ==
  (IF pc[t] \in {"idle", "build", "queued", "swap"} THEN {<<t, 1>>} ELSE {})
    \cup (IF pc[t] \notin {"over", "end_turn"} THEN {<<t, 2>>} ELSE {})

Fresh == \A t \in Task : \A r \in Unbuilt(t) : ~InUse(r)

TurnFits(t) ==
  pc[t] \in {"tools", "loop"} => sources[runtime[t]] = SourcesOf[copy[t].mode]

Attributed(s) == table[s] # Nil => s \in known \cup overtaken

(* A session for which a runtime is built is there, or is marked.          *)
BuildsForKnown == \A t \in Task : Building(t) => Of(t) \in known \cup overtaken

RuntimeInv ==
  /\ Fresh
  /\ \A t \in Task : TurnFits(t)
  /\ \A s \in Session : Attributed(s)
  /\ BuildsForKnown

LEMMA RuntimesFit == RuntimeInv => RuntimeFits
BY DEF RuntimeInv, TurnFits, Attributed, RuntimeFits

(* A handler has built what it had to build before it goes on. *)
LEMMA FreshKept ==
  ASSUME TypeInv, Fresh, NEW t \in Task, Elsewhere(t), Unbuilt(t)' \subseteq Unbuilt(t),
         \A r \in Runtime : InUse(r)' => InUse(r) \/ r \in Unbuilt(t) \ Unbuilt(t)'
  PROVE  Fresh'
<1> SUFFICES ASSUME NEW u \in Task, NEW r \in Unbuilt(u)', InUse(r)'
             PROVE  FALSE
  BY DEF Fresh
<1>1. r \in Runtime /\ r[1] = u
  BY DEF Unbuilt, Runtime
<1>2. r \in Unbuilt(u)
  BY DEF Unbuilt, Elsewhere
<1>3. ~InUse(r)
  BY <1>2 DEF Fresh
<1>4. r \in Unbuilt(t) /\ r \notin Unbuilt(t)'
  BY <1>1, <1>3
<1>5. r[1] = t
  BY <1>4 DEF Unbuilt
<1> QED BY <1>1, <1>4, <1>5

(* No runtime is referred to that was not before. *)
NoNewUse == \A r \in Runtime : InUse(r)' => InUse(r)

LEMMA UseDropped ==
  ASSUME TypeInv, NEW t \in Task, UNCHANGED <<table, todo>>,
         runtime' = runtime \/ runtime' = [runtime EXCEPT ![t] = Nil]
  PROVE  NoNewUse
<1>1. runtime \in [Task -> Runtime \cup {Nil}]
  BY DEF TypeInv, TypeOK
<1>2. ASSUME NEW u \in Task, NEW r \in Runtime, runtime'[u] = r
      PROVE  runtime[u] = r
  BY <1>1, <1>2, NilFacts
<1> QED BY <1>2 DEF NoNewUse, InUse

LEMMA ElsewhereSame ==
  ASSUME NEW t \in Task, OthersSame(t)
  PROVE  Elsewhere(t)
BY DEF OthersSame, SamePlace, Elsewhere

(* A step that builds nothing. *)
LEMMA RuntimesQuiet ==
  ASSUME TypeInv, RuntimeInv, NEW t \in Task, OthersSame(t),
         UNCHANGED <<table, sources, known, overtaken>>, NoNewUse,
         \A u \in Task \ {t} : runtime'[u] = runtime[u],
         Unbuilt(t)' \subseteq Unbuilt(t), TurnFits(t)',
         Building(t)' => Of(t)' \in known \cup overtaken
  PROVE  RuntimeInv'
<1>1. Fresh'
  BY ElsewhereSame, FreshKept DEF RuntimeInv, NoNewUse
<1>2. ASSUME NEW u \in Task
      PROVE  TurnFits(u)'
  BY DEF RuntimeInv, TurnFits, OthersSame, SamePlace
<1>3. ASSUME NEW s \in Session
      PROVE  Attributed(s)'
  BY DEF RuntimeInv, Attributed
<1>4. BuildsForKnown'
  BY DEF RuntimeInv, BuildsForKnown, Building, OthersSame, SamePlace, Of
<1> QED BY <1>1, <1>2, <1>3, <1>4 DEF RuntimeInv

(* A step that installs the runtime a handler has built. *)
LEMMA RuntimesInstalled ==
  ASSUME TypeInv, RuntimeInv, NEW t \in Task, OthersSame(t), Building(t),
         NEW r \in Runtime, r \in Unbuilt(t) \ Unbuilt(t)',
         Unbuilt(t)' \subseteq Unbuilt(t),
         Install(Of(t), r, copy[t].mode), UNCHANGED <<todo, known, overtaken>>,
         \/ UNCHANGED runtime
         \/ runtime' = [runtime EXCEPT ![t] = r],
         TurnFits(t)', ~Building(t)'
  PROVE  RuntimeInv'
<1>1. /\ table \in [Session -> Runtime \cup {Nil}] /\ sources \in [Runtime -> SUBSET Source]
      /\ runtime \in [Task -> Runtime \cup {Nil}] /\ todo \in [Task -> SUBSET Runtime]
  BY DEF TypeInv, TypeOK, RuntimesTypeOK
<1>2. ~InUse(r)
  BY DEF RuntimeInv, Fresh
<1>3. Fresh'
  <2>1. ASSUME NEW q \in Runtime, InUse(q)', q # r
        PROVE  InUse(q)
    BY <1>1, <2>1 DEF InUse, Install
  <2> QED BY <2>1, ElsewhereSame, FreshKept DEF RuntimeInv
<1>4. ASSUME NEW u \in Task
      PROVE  TurnFits(u)'
  <2>1. CASE u = t
    BY <2>1
  <2>2. CASE u # t
    <3> SUFFICES ASSUME pc[u] \in {"tools", "loop"} PROVE TurnFits(u)'
      BY <2>2 DEF TurnFits, OthersSame, SamePlace
    <3>1. runtime[u] \in Runtime /\ runtime'[u] = runtime[u] /\ runtime[u] # r
      BY <1>1, <1>2, <2>2 DEF InUse, TypeInv, Handlers, ToolsHeld
    <3>2. sources'[runtime[u]] = sources[runtime[u]]
      BY <1>1, <3>1 DEF Install
    <3> QED BY <2>2, <3>1, <3>2 DEF RuntimeInv, TurnFits, OthersSame, SamePlace
  <2> QED BY <2>1, <2>2
<1>5. ASSUME NEW s \in Session
      PROVE  Attributed(s)'
  BY <1>1 DEF RuntimeInv, Attributed, BuildsForKnown, Install
<1>6. BuildsForKnown'
  BY DEF RuntimeInv, BuildsForKnown, Building, OthersSame, SamePlace, Of
<1> QED BY <1>3, <1>4, <1>5, <1>6 DEF RuntimeInv

LEMMA RuntimesOpened ==
  ASSUME TypeInv, RuntimeInv, NEW s, NEW d, Create(s, d),
         UNCHANGED <<table, sources, runtime, todo, pc, ask, copy, overtaken>>
  PROVE  RuntimeInv'
<1>1. Fresh'
  BY DEF RuntimeInv, Fresh, InUse, Unbuilt
<1>2. \A t \in Task : TurnFits(t)'
  BY DEF RuntimeInv, TurnFits
<1>3. (\A z \in Session : Attributed(z)') /\ BuildsForKnown'
  BY DEF RuntimeInv, Attributed, BuildsForKnown, Building, Of, Create
<1> QED BY <1>1, <1>2, <1>3 DEF RuntimeInv

LEMMA RuntimesClosed ==
  ASSUME TypeInv, RuntimeInv, NEW s \in Session, CloseSession(s)
  PROVE  RuntimeInv'
<1>1. /\ table' = [table EXCEPT ![s] = Nil] /\ table \in [Session -> Runtime \cup {Nil}]
      /\ known' = known \ {s}
      /\ UNCHANGED <<sources, runtime, todo, pc, ask, copy>>
  BY DEF CloseSession, Close, Remove, Delete, TypeInv, TypeOK, RuntimesTypeOK
<1>2. Fresh'
  <2> SUFFICES ASSUME NEW t \in Task, NEW r \in Unbuilt(t), InUse(r)'
               PROVE  FALSE
    BY <1>1 DEF Fresh, Unbuilt
  <2>1. r # Nil
    BY NilFacts DEF Unbuilt, Runtime
  <2>2. InUse(r)
    BY <1>1, <2>1 DEF InUse
  <2> QED BY <2>2 DEF RuntimeInv, Fresh
<1>3. \A t \in Task : TurnFits(t)'
  BY <1>1 DEF RuntimeInv, TurnFits
<1>4. \A z \in Session : Attributed(z)'
  BY <1>1 DEF RuntimeInv, Attributed, CloseSession
<1>5. BuildsForKnown'
  BY <1>1 DEF RuntimeInv, BuildsForKnown, Building, Of, CloseSession
<1> QED BY <1>2, <1>3, <1>4, <1>5 DEF RuntimeInv

(* A handler goes on, or is over, without building or running anything.    *)
LEMMA RuntimesLeft ==
  ASSUME TypeInv, RuntimeInv, NEW t \in Task,
         UNCHANGED <<table, sources, known, overtaken>>,
         todo' = todo \/ todo' = [todo EXCEPT ![t] = {}],
         runtime' = runtime \/ runtime' = [runtime EXCEPT ![t] = Nil],
         OthersSame(t), pc[t] \notin Finished,
         pc'[t] \in Finished \cup {"message", "note", "option", "walk", "list"}
  PROVE  RuntimeInv'
<1>1. NoNewUse
  <2>1. /\ runtime \in [Task -> Runtime \cup {Nil}]
        /\ todo \in [Task -> SUBSET Runtime]
    BY DEF TypeInv, TypeOK
  <2>2. ASSUME NEW u \in Task, NEW r \in Runtime, runtime'[u] = r
        PROVE  runtime[u] = r
    BY <2>1, <2>2, NilFacts
  <2>3. ASSUME NEW u \in Task, NEW r \in Runtime, r \in todo'[u]
        PROVE  r \in todo[u]
    BY <2>1, <2>3
  <2> QED BY <2>2, <2>3 DEF NoNewUse, InUse
<1>2. Unbuilt(t)' \subseteq Unbuilt(t)
  BY DEF Unbuilt, Finished
<1>3. TurnFits(t)' /\ ~Building(t)'
  BY DEF TurnFits, Building, Finished
<1>4. \A u \in Task \ {t} : runtime'[u] = runtime[u]
  BY DEF TypeInv, TypeOK
<1> QED BY <1>1, <1>2, <1>3, <1>4, RuntimesQuiet

(* begin_prompt reuses a runtime of the session, or starts to build one.   *)
LEMMA PromptBeginsFits ==
  ASSUME TypeInv, RuntimeInv, NEW t \in Task, NEW s \in Session, PromptBegins(t, s)
  PROVE  RuntimeInv'
<1>1. /\ pc[t] = "idle" /\ OthersSame(t) /\ Of(t)' = s /\ copy'[t] = data[s]
      /\ s \in known /\ UNCHANGED <<table, sources, todo, known, overtaken>>
      /\ runtime \in [Task -> Runtime \cup {Nil}]
  <2>1. \E stage \in {"tools", "build"} : Goes(t, stage)
    BY DEF PromptBegins
  <2> QED BY <2>1
          DEF PromptBegins, MayBegin, Arrives, IsNext, Goes, Asked, OthersSame, SamePlace,
              Of, TypeInv, TypeOK, storeVars, ghostVars
<1>2. CASE Reusable(s, data[s].mode)
  <2>1. /\ runtime' = [runtime EXCEPT ![t] = table[s]] /\ pc'[t] = "tools"
        /\ table[s] # Nil /\ sources[table[s]] = SourcesOf[data[s].mode]
    BY <1>2 DEF PromptBegins, Goes, Reusable, TypeInv, TypeOK
  <2>2. NoNewUse
    BY <1>1, <2>1 DEF NoNewUse, InUse
  <2>3. TurnFits(t)' /\ ~Building(t)' /\ Unbuilt(t)' \subseteq Unbuilt(t)
    BY <1>1, <2>1 DEF TurnFits, Building, Unbuilt
  <2> QED BY <1>1, <2>1, <2>2, <2>3, RuntimesQuiet
<1>3. CASE ~Reusable(s, data[s].mode)
  <2>1. UNCHANGED runtime /\ pc'[t] = "build"
    BY <1>3 DEF PromptBegins, Goes, TypeInv, TypeOK
  <2>2. NoNewUse
    BY <1>1, <2>1 DEF NoNewUse, InUse
  <2>3. TurnFits(t)' /\ Unbuilt(t)' \subseteq Unbuilt(t)
    BY <1>1, <2>1 DEF TurnFits, Unbuilt
  <2> QED BY <1>1, <2>1, <2>2, <2>3, RuntimesQuiet
<1> QED BY <1>2, <1>3

LEMMA PromptBuiltFits ==
  ASSUME TypeInv, RuntimeInv, NEW t \in Task, PromptBuilt(t)
  PROVE  RuntimeInv'
<1>1. /\ OthersSame(t) /\ pc'[t] = "tools" /\ copy' = copy /\ <<t, 1>> \in Runtime
      /\ runtime' = [runtime EXCEPT ![t] = <<t, 1>>] /\ runtime'[t] = <<t, 1>>
      /\ sources'[<<t, 1>>] = SourcesOf[copy[t].mode]
  BY DEF PromptBuilt, Goes, Install, OthersSame, SamePlace, Runtime, TypeInv, TypeOK,
         RuntimesTypeOK
<1>2. /\ TurnFits(t)' /\ ~Building(t)' /\ Building(t)
      /\ Unbuilt(t)' \subseteq Unbuilt(t) /\ <<t, 1>> \in Unbuilt(t) \ Unbuilt(t)'
  BY <1>1 DEF PromptBuilt, TurnFits, Building, Unbuilt
<1> QED BY <1>1, <1>2, RuntimesInstalled DEF PromptBuilt, storeVars, ghostVars

LEMMA ModeSavedFits ==
  ASSUME TypeInv, RuntimeInv, NEW t \in Task, ModeSwapped(t) \/ ModeUndone(t)
  PROVE  RuntimeInv'
<1>1. /\ Building(t) /\ UNCHANGED <<runtime, todo, overtaken>>
      /\ Save(Of(t), copy[t])
  BY DEF ModeSwapped, ModeUndone, SetsMode, Building, ghostVars
<1>2. UNCHANGED known
  BY <1>1 DEF Save
<1>3. ASSUME ModeUndone(t)
      PROVE  RuntimeInv'
  <2>1. OthersSame(t) /\ pc'[t] = "over" /\ <<t, 2>> \in Runtime
    BY <1>3, OverSettled, OverPlace DEF ModeUndone, Finish, Runtime
  <2>2. /\ TurnFits(t)' /\ ~Building(t)' /\ Unbuilt(t)' \subseteq Unbuilt(t)
        /\ <<t, 2>> \in Unbuilt(t) \ Unbuilt(t)'
    BY <1>3, <2>1 DEF ModeUndone, TurnFits, Building, Unbuilt
  <2> QED BY <1>1, <1>2, <1>3, <2>1, <2>2, RuntimesInstalled DEF ModeUndone, SetsMode
<1>4. ASSUME ModeSwapped(t)
      PROVE  RuntimeInv'
  <2>1. OthersSame(t) /\ pc'[t] \in {"note", "over"} /\ <<t, 1>> \in Runtime
    <3>1. CASE Of(t) \in known
      BY <1>4, <3>1
         DEF ModeSwapped, Goes, OthersSame, SamePlace, Runtime, TypeInv, TypeOK
    <3>2. CASE Of(t) \notin known
      BY <1>4, <3>2, OverSettled, OverPlace DEF ModeSwapped, Finish, Runtime
    <3> QED BY <3>1, <3>2
  <2>2. /\ TurnFits(t)' /\ ~Building(t)' /\ Unbuilt(t)' \subseteq Unbuilt(t)
        /\ <<t, 1>> \in Unbuilt(t) \ Unbuilt(t)'
    BY <1>4, <2>1 DEF ModeSwapped, TurnFits, Building, Unbuilt
  <2> QED BY <1>1, <1>2, <1>4, <2>1, <2>2, RuntimesInstalled DEF ModeSwapped, SetsMode
<1> QED BY <1>3, <1>4

(* set_mode starts to build for a session that is there. *)
LEMMA ModeReadFits ==
  ASSUME TypeInv, RuntimeInv, NEW t \in Task, ModeChangeStarts(t) \/ ModeRollsBack(t)
  PROVE  RuntimeInv'
<1>1. /\ OthersSame(t) /\ pc'[t] \in {"swap", "undo"} /\ Of(t)' = Of(t)
      /\ Of(t) \in known
      /\ UNCHANGED <<table, sources, runtime, todo, known, overtaken>>
  BY DEF ModeChangeStarts, ModeRollsBack, ReadsForMode, Changeable, Goes, OthersSame,
         SamePlace, Of, TypeInv, TypeOK, storeVars, runtimeVars, turnVars, ghostVars
<1>2. NoNewUse
  BY <1>1 DEF NoNewUse, InUse
<1>3. TurnFits(t)' /\ Unbuilt(t)' \subseteq Unbuilt(t)
  BY <1>1 DEF TurnFits, Unbuilt, ModeChangeStarts, ModeRollsBack, Goes, TypeInv, TypeOK
<1> QED BY <1>1, <1>2, <1>3, RuntimesQuiet

LEMMA EndsTurnSettledPlace ==
  ASSUME TypeInv, NEW t \in Task, Commit(t)
  PROVE  /\ OthersSame(t) /\ UNCHANGED <<issued, known>>
         /\ pc'[t] \in {"end_turn", "over"}
<1>1. EndsTurn(t) /\ UNCHANGED <<issued, known>>
  BY DEF Commit, Save
<1>2. CASE Of(t) \in known
  BY <1>1, <1>2
     DEF EndsTurn, Goes, Dropped, OthersSame, SamePlace, TypeInv, TypeOK
<1>3. CASE Of(t) \notin known
  BY <1>1, <1>3, OverSettled, OverPlace DEF EndsTurn
<1> QED BY <1>1, <1>2, <1>3

LEMMA StepRuntimes == TypeInv /\ RuntimeInv /\ [Next]_vars => RuntimeInv'
<1> SUFFICES ASSUME TypeInv, RuntimeInv, [Next]_vars PROVE RuntimeInv'
  OBVIOUS
<1>1. CASE UNCHANGED <<table, sources, runtime, todo, pc, ask, copy, known, overtaken>>
  BY <1>1
     DEF RuntimeInv, Fresh, InUse, Unbuilt, TurnFits, Attributed, BuildsForKnown,
         Building, Of
<1>2. CASE Client
  <2>1. ASSUME NEW s \in Session,
               OpenSession(s) \/ \E u \in Session : ForkSession(s, u)
        PROVE  RuntimeInv'
    BY <2>1, RuntimesOpened
       DEF OpenSession, NewSession, ForkSession, ForkOf, runtimeVars, turnVars, ghostVars
  <2>2. ASSUME NEW s \in issued, CancelSession(s)
        PROVE  RuntimeInv'
    BY <1>1, <2>2 DEF CancelSession, storeVars, runtimeVars, ghostVars
  <2>3. ASSUME NEW s \in issued, CloseSession(s)
        PROVE  RuntimeInv'
    BY <2>3, RuntimesClosed DEF TypeInv, TypeOK, StoreTypeOK
  <2>4. ASSUME NEW t \in Task, RefreshArrives(t)
        PROVE  RuntimeInv'
    <3>1. /\ OthersSame(t) /\ pc[t] = "idle" /\ pc'[t] = "walk"
          /\ UNCHANGED <<table, sources, runtime, known, overtaken>>
      BY <2>4
         DEF RefreshArrives, Arrives, IsNext, Goes, OthersSame, SamePlace, TypeInv,
             TypeOK, storeVars, runtimeVars, ghostVars
    <3>2. NoNewUse
      BY <2>4, <3>1 DEF RefreshArrives, NoNewUse, InUse, TypeInv, TypeOK
    <3>3. TurnFits(t)' /\ ~Building(t)' /\ Unbuilt(t)' \subseteq Unbuilt(t)
      BY <3>1 DEF TurnFits, Building, Unbuilt
    <3> QED BY <3>1, <3>2, <3>3, RuntimesQuiet
  <2>5. ASSUME NEW t \in Task, NEW s \in issued, PromptRefused(t, s)
        PROVE  RuntimeInv'
    <3>1. OthersSame(t) /\ pc[t] = "idle" /\ pc'[t] = "over"
      BY <2>5, OverSettled, OverPlace DEF PromptRefused, IsNext
    <3> QED BY <2>5, <3>1, RuntimesLeft
            DEF PromptRefused, Finished, storeVars, runtimeVars, turnVars, ghostVars
  <2>6. ASSUME NEW t \in Task, NEW s \in issued, PromptBegins(t, s)
        PROVE  RuntimeInv'
    BY <2>6, PromptBeginsFits DEF TypeInv, TypeOK, StoreTypeOK
  <2>7. ASSUME NEW t \in Task, NEW op, NEW s, NEW v, ChangeArrives(t, op, s, v)
        PROVE  RuntimeInv'
    <3>1. /\ OthersSame(t) /\ pc[t] = "idle" /\ pc'[t] = "queued"
          /\ UNCHANGED <<table, sources, runtime, todo, known, overtaken>>
      BY <2>7
         DEF ChangeArrives, Arrives, IsNext, Goes, OthersSame, SamePlace, TypeInv,
             TypeOK, storeVars, runtimeVars, ghostVars
    <3>2. NoNewUse /\ TurnFits(t)' /\ ~Building(t)' /\ Unbuilt(t)' \subseteq Unbuilt(t)
      BY <3>1 DEF NoNewUse, InUse, TurnFits, Building, Unbuilt
    <3> QED BY <3>1, <3>2, RuntimesQuiet
  <2>8. ASSUME NEW t \in Task, PromptUnreadable(t)
        PROVE  RuntimeInv'
    <3>1. OthersSame(t) /\ pc[t] = "idle" /\ pc'[t] = "over"
      BY <2>8, OverSettled, OverPlace DEF PromptUnreadable, IsNext
    <3> QED BY <2>8, <3>1, RuntimesLeft
            DEF PromptUnreadable, Finished, storeVars, runtimeVars, turnVars, ghostVars
  <2>9. ASSUME NEW t \in Task, NEW s, LoadSession(t, s)
        PROVE  RuntimeInv'
    <3>1. /\ OthersSame(t) /\ pc[t] = "idle" /\ pc'[t] \in {"loaded", "over"}
          /\ UNCHANGED known
      BY <2>9, LoadSettled, LoadPlace DEF LoadSession, LoadWithCwd, Save
    <3> QED BY <2>9, <3>1, RuntimesLeft
            DEF LoadSession, Finished, runtimeVars, turnVars
  <2> QED BY <1>2, <2>1, <2>2, <2>3, <2>4, <2>5, <2>6, <2>7, <2>8, <2>9 DEF Client
<1>3. ASSUME NEW t \in Task, Proceeds(t)
      PROVE  RuntimeInv'
  <2>1. CASE PromptBuilt(t)
    BY <2>1, PromptBuiltFits
  <2>2. CASE ModeSwapped(t) \/ ModeUndone(t)
    BY <2>2, ModeSavedFits
  <2>3. CASE ModeChangeStarts(t) \/ ModeRollsBack(t)
    BY <2>3, ModeReadFits
  <2>4. CASE \/ PromptBuildFails(t) \/ MessageFails(t) \/ ChangeRefused(t)
             \/ ModeSwapFails(t) \/ OptionSent(t) \/ RollbackRefused(t)
             \/ ModeUndoFails(t) \/ RefreshDone(t)
    <3>1. OthersSame(t) /\ pc'[t] = "over" /\ pc[t] \notin Finished
      BY <2>4, OverSettled, OverPlace
         DEF PromptBuildFails, MessageFails, ChangeRefused, ModeSwapFails, OptionSent,
             RollbackRefused, ModeUndoFails, RefreshDone, Finish, Finished
    <3>2. UNCHANGED <<table, sources, known, overtaken, todo, runtime>>
      BY <2>4
         DEF PromptBuildFails, MessageFails, ChangeRefused, ModeSwapFails, OptionSent,
             RollbackRefused, ModeUndoFails, RefreshDone, storeVars, runtimeVars,
             turnVars, ghostVars
    <3> QED BY <3>1, <3>2, RuntimesLeft DEF Finished
  <2>5. CASE LoopFails(t)
    <3>1. OthersSame(t) /\ pc'[t] = "over"
      BY <2>5, OverSettled, OverPlace DEF LoopFails
    <3> QED BY <2>5, <3>1, RuntimesLeft DEF LoopFails, LoopEnds, Finished, storeVars
  <2>6. CASE LoopAnswers(t)
    <3>1. OthersSame(t) /\ pc'[t] = "message"
      BY <2>6 DEF LoopAnswers, Goes, OthersSame, SamePlace, TypeInv, TypeOK
    <3> QED BY <2>6, <3>1, RuntimesLeft DEF LoopAnswers, LoopEnds, Finished, storeVars
  <2>7. CASE ToolsGranted(t)
    <3>1. CASE t \notin cancelled
      <4>1. /\ OthersSame(t) /\ pc[t] = "tools" /\ pc'[t] = "loop"
            /\ UNCHANGED <<table, sources, runtime, todo, copy, known, overtaken>>
        BY <2>7, <3>1
           DEF ToolsGranted, Goes, OthersSame, SamePlace, TypeInv, TypeOK, storeVars,
               runtimeVars, turnVars, ghostVars
      <4>2. /\ NoNewUse /\ TurnFits(t)' /\ ~Building(t)'
            /\ Unbuilt(t)' \subseteq Unbuilt(t)
        BY <4>1 DEF NoNewUse, InUse, RuntimeInv, TurnFits, Building, Unbuilt
      <4> QED BY <4>1, <4>2, RuntimesQuiet
    <3>2. CASE t \in cancelled
      <4>1. OthersSame(t) /\ pc'[t] = "over"
        BY <2>7, <3>2, OverSettled, OverPlace DEF ToolsGranted
      <4> QED BY <2>7, <3>2, <4>1, RuntimesLeft
              DEF ToolsGranted, LoopEnds, Finished, storeVars
    <3> QED BY <3>1, <3>2
  <2>8. CASE LoopAnswersNothing(t) \/ MessageSent(t)
    <3>1. Commit(t) /\ pc[t] \in Prompting /\ pc[t] \notin Finished
      BY <2>8 DEF LoopAnswersNothing, MessageSent, Prompting, Finished
    <3>2. /\ OthersSame(t) /\ UNCHANGED <<issued, known>>
          /\ pc'[t] \in {"end_turn", "over"}
      BY <3>1, EndsTurnSettledPlace
    <3> QED BY <2>8, <3>1, <3>2, RuntimesLeft
            DEF LoopAnswersNothing, MessageSent, LoopEnds, Finished, runtimeVars, turnVars
  <2>9. CASE ModelChanges(t)
    <3>1. OthersSame(t) /\ pc'[t] = "option" /\ UNCHANGED known
      BY <2>9
         DEF ModelChanges, SetModel, Save, Goes, OthersSame, SamePlace, TypeInv, TypeOK
    <3> QED BY <2>9, <3>1, RuntimesLeft
            DEF ModelChanges, Finished, runtimeVars, turnVars, ghostVars
  <2>10. CASE ModelRollsBack(t)
    <3>1. OthersSame(t) /\ pc'[t] = "over" /\ UNCHANGED known
      BY <2>10, OverSettled, OverPlace
         DEF ModelRollsBack, ResetModel, SetModel, Save, Finish
    <3> QED BY <2>10, <3>1, RuntimesLeft
            DEF ModelRollsBack, Finished, runtimeVars, ghostVars
  <2>11. CASE ModeNoted(t)
    <3>1. OthersSame(t) /\ pc'[t] = "option"
      BY <2>11 DEF ModeNoted, Goes, OthersSame, SamePlace, TypeInv, TypeOK
    <3> QED BY <2>11, <3>1, RuntimesLeft
            DEF ModeNoted, Finished, storeVars, runtimeVars, turnVars, ghostVars
  <2>12. ASSUME NEW r \in Runtime, RefreshQueues(t, r)
         PROVE  RuntimeInv'
    <3>1. /\ OthersSame(t) /\ pc[t] = "walk" /\ pc'[t] = "wait"
          /\ runtime' = [runtime EXCEPT ![t] = r] /\ r \in todo[t]
          /\ todo' = [todo EXCEPT ![t] = todo[t] \ {r}]
          /\ UNCHANGED <<table, sources, known, overtaken>>
      BY <2>12
         DEF RefreshQueues, Goes, OthersSame, SamePlace, TypeInv, TypeOK, storeVars,
             ghostVars
    <3>2. NoNewUse
      BY <3>1 DEF NoNewUse, InUse, TypeInv, TypeOK
    <3>3. /\ TurnFits(t)' /\ ~Building(t)' /\ Unbuilt(t)' \subseteq Unbuilt(t)
          /\ \A u \in Task \ {t} : runtime'[u] = runtime[u]
      BY <3>1 DEF TurnFits, Building, Unbuilt, TypeInv, TypeOK
    <3> QED BY <3>1, <3>2, <3>3, RuntimesQuiet
  <2>13. CASE RefreshStarts(t)
    <3>1. OthersSame(t) /\ pc'[t] = "list"
      BY <2>13 DEF RefreshStarts, Goes, OthersSame, SamePlace, TypeInv, TypeOK
    <3> QED BY <2>13, <3>1, RuntimesLeft
            DEF RefreshStarts, Finished, storeVars, turnVars, ghostVars
  <2>14. CASE RefreshLists(t)
    <3>1. OthersSame(t) /\ pc'[t] \in {"walk", "over"}
      <4>1. CASE Goes(t, "walk") /\ UNCHANGED <<ask, copy, previous, todo>>
        BY <4>1 DEF Goes, OthersSame, SamePlace, TypeInv, TypeOK
      <4>2. CASE Over(t)
        BY <4>2, OverSettled, OverPlace
      <4> QED BY <2>14, <4>1, <4>2 DEF RefreshLists
    <3> QED BY <2>14, <3>1, RuntimesLeft
            DEF RefreshLists, Finished, storeVars, ghostVars
  <2> QED BY <1>3, <2>1, <2>2, <2>3, <2>4, <2>5, <2>6, <2>7, <2>8, <2>9, <2>10,
             <2>11, <2>12, <2>13, <2>14 DEF Proceeds
<1> QED BY <1>1, <1>2, <1>3 DEF Next, vars, storeVars, runtimeVars, turnVars, ghostVars

LEMMA RuntimeInvariant == Spec => []RuntimeInv
<1>1. Init => RuntimeInv
  <2>1. ASSUME Init PROVE Fresh
    <3>1. \A r : r = Nil => \A t \in Task : r \notin Unbuilt(t)
      BY NilFacts DEF Unbuilt, Runtime
    <3> QED BY <2>1, <3>1 DEF Init, RuntimesInit, Fresh, InUse
  <2> QED BY <2>1
          DEF Init, RuntimesInit, RuntimeInv, TurnFits, Attributed, BuildsForKnown,
              Building
<1> QED BY <1>1, StepRuntimes, TypeInvariant, PTL DEF Spec

(* A turn works with the sources of the mode it was begun in, and no       *)
(* runtime is kept for a session that is gone, but for one that was closed *)
(* over a build.                                                           *)
THEOREM TurnsKeepTheirSources == Spec => []RuntimeFits
BY RuntimesFit, RuntimeInvariant, PTL

(* The lists of tools change under the lock of a runtime or when it is     *)
(* built, so not under a loop that runs on it.                             *)
LEMMA StepKeepsTools ==
  ASSUME TypeInv, RuntimeInv, Next, NEW t \in Task, pc[t] = "loop", pc'[t] = "loop"
  PROVE  runtime[t] \in listed <=> runtime[t] \in listed'
<1>1. runtime[t] \in Runtime /\ HasTools(t, runtime[t])
  BY DEF TypeInv, Handlers, ToolsHeld
<1>2. CASE UNCHANGED listed
  BY <1>2
<1>3. ASSUME NEW u \in Task, PromptBuilt(u) \/ ModeSwapped(u) \/ ModeUndone(u)
      PROVE  runtime[t] \in listed <=> runtime[t] \in listed'
  <2>1. PICK r \in Unbuilt(u) : \E s, m : Install(s, r, m)
    BY <1>3 DEF PromptBuilt, ModeSwapped, ModeUndone, SetsMode, Unbuilt
  <2>2. runtime[t] # r
    BY <2>1 DEF RuntimeInv, Fresh, InUse
  <2> QED BY <2>1, <2>2 DEF Install
<1>4. ASSUME NEW u \in Task, RefreshStarts(u) \/ RefreshLists(u)
      PROVE  runtime[t] \in listed <=> runtime[t] \in listed'
  <2>1. u # t /\ HasTools(u, runtime[u])
    BY <1>4 DEF RefreshStarts, RefreshLists, TypeInv, Handlers, ToolsHeld
  <2>2. runtime[u] # runtime[t]
    BY <1>1, <2>1 DEF HasTools
  <2>3. \/ listed' = listed \ {runtime[u]} \/ listed' = listed
        \/ listed' = listed \cup {runtime[u]}
    BY <1>4 DEF RefreshStarts, RefreshLists, ClearTools, ListTools
  <2> QED BY <2>2, <2>3
<1>5. CASE Client
  BY <1>2, <1>5
     DEF Client, OpenSession, ForkSession, LoadSession, CancelSession, CloseSession,
         Close, Remove, RefreshArrives, PromptUnreadable, PromptRefused, PromptBegins,
         ChangeArrives, runtimeVars
<1>6. ASSUME NEW u \in Task, Proceeds(u)
      PROVE  runtime[t] \in listed <=> runtime[t] \in listed'
  BY <1>2, <1>3, <1>4, <1>6
     DEF Proceeds, PromptBuildFails, ToolsGranted, LoopFails, LoopAnswers, LoopEnds,
         LoopAnswersNothing, MessageSent, MessageFails, ChangeRefused, ModelChanges,
         ModeChangeStarts, ModeSwapFails, ModeNoted, OptionSent, RollbackRefused,
         ModelRollsBack, ModeRollsBack, ModeUndoFails, RefreshQueues, RefreshDone,
         Release, Queue, runtimeVars
<1> QED BY <1>5, <1>6 DEF Next

(* No refresh, and no runtime that is built, takes the tools from under a  *)
(* loop that runs.                                                         *)
THEOREM LoopsKeepTheirTools == Spec => ToolsStable
<1>1. TypeInv /\ RuntimeInv /\ [Next]_vars =>
        [\A t \in Task : pc[t] = "loop" /\ pc'[t] = "loop" =>
           (runtime[t] \in listed <=> runtime[t] \in listed')]_vars
  BY StepKeepsTools
<1> QED BY <1>1, TypeInvariant, RuntimeInvariant, PTL DEF Spec, ToolsStable

-----------------------------------------------------------------------------
(* What a step does to the sessions.  A request writes a session only as   *)
(* one of these: where it goes meanwhile is its own affair, as long as it  *)
(* is neither answered, nor a request that has yet to arrive, nor one that *)
(* has just read its session.                                              *)

GoesOn(t) ==
  /\ OthersSame(t)
  /\ pc[t] = "idle" => IsNext(t)
  /\ pc[t] \notin {"end_turn", "loaded"}
  /\ pc'[t] \notin {"idle", "swap", "undo", "end_turn", "loaded"}

Rests(t) == GoesOn(t) /\ UNCHANGED <<storeVars, raced, moved>>

Reads(t) ==
  /\ OthersSame(t)
  /\ pc[t] \in {"queued", "note", "option"} /\ pc'[t] \in {"swap", "undo"}
  /\ ask'[t] = ask[t]
  /\ \E m : copy'[t] = WithMode(data[Of(t)], m)
  /\ UNCHANGED <<storeVars, raced, moved>>

Sets(t) ==
  /\ GoesOn(t) /\ pc[t] \in Changing
  /\ \E m : Save(Of(t), WithModel(data[Of(t)], m))
  /\ UNCHANGED <<raced, moved>>

WritesBack(t) ==
  /\ GoesOn(t) /\ pc[t] \in {"swap", "undo"}
  /\ Save(Of(t), copy[t])
  /\ UNCHANGED <<raced, moved>>

Commits(t) == pc[t] \in {"loop", "message"} /\ Commit(t) /\ UNCHANGED moved

Loads(t, s) == s \in issued /\ LoadSession(t, s)

Handles(t) ==
  \/ Rests(t) \/ Reads(t) \/ Sets(t) \/ WritesBack(t) \/ Commits(t)
  \/ \E s \in Session : Loads(t, s)

NoHandler == UNCHANGED <<pc, ask, copy, raced, moved>>

Makes(s) ==
  /\ NoHandler /\ s \in Session \ issued
  /\ \E d : /\ Create(s, d)
            /\ d.history = << >> \/ \E u \in known : d.history = data[u].history

Ends(s) == NoHandler /\ s \in Session /\ Delete(s)

StepKind ==
  \/ NoHandler /\ UNCHANGED storeVars
  \/ \E s \in Session : Makes(s) \/ Ends(s)
  \/ \E t \in Task : Handles(t)

LEMMA OverGoesOn ==
  ASSUME TypeInv, NEW t \in Task, Over(t), pc[t] = "idle" => IsNext(t),
         pc[t] \notin {"end_turn", "loaded"}
  PROVE  GoesOn(t)
BY OverSettled, OverPlace DEF GoesOn

LEMMA GoesGoesOn ==
  ASSUME TypeInv, NEW t \in Task, NEW stage, Goes(t, stage),
         stage \notin {"idle", "swap", "undo", "end_turn", "loaded"},
         pc[t] = "idle" => IsNext(t), pc[t] \notin {"end_turn", "loaded"},
         \A u \in Task \ {t} :
           ask'[u] = ask[u] /\ copy'[u] = copy[u] /\ previous'[u] = previous[u]
  PROVE  GoesOn(t)
BY DEF GoesOn, Goes, OthersSame, SamePlace, TypeInv, TypeOK

LEMMA ClientKinds == ASSUME TypeInv, Client PROVE StepKind
<1>1. ASSUME NEW s \in Session, OpenSession(s)
      PROVE  Makes(s)
  BY <1>1 DEF OpenSession, NewSession, Unissued, Makes, NoHandler, Blank, Data, ghostVars
<1>2. ASSUME NEW s \in Session, NEW u \in Session, ForkSession(s, u)
      PROVE  Makes(s)
  BY <1>2
     DEF ForkSession, ForkOf, Unissued, Makes, NoHandler, WithCwd, Data, ghostVars
<1>3. ASSUME NEW s \in issued, CancelSession(s)
      PROVE  NoHandler /\ UNCHANGED storeVars
  BY <1>3 DEF CancelSession, NoHandler, ghostVars
<1>4. ASSUME NEW s \in issued, CloseSession(s)
      PROVE  s \in Session /\ Ends(s)
  BY <1>4 DEF CloseSession, Close, Ends, NoHandler, TypeInv, TypeOK, StoreTypeOK
<1>5. ASSUME NEW t \in Task, NEW s \in issued, LoadSession(t, s)
      PROVE  Handles(t)
  BY <1>5 DEF Handles, Loads, TypeInv, TypeOK, StoreTypeOK
<1>6. ASSUME NEW t \in Task, PromptUnreadable(t) \/ \E s : PromptRefused(t, s)
      PROVE  Handles(t)
  BY <1>6, OverGoesOn
     DEF PromptUnreadable, PromptRefused, IsNext, Handles, Rests, ghostVars
<1>7. ASSUME NEW t \in Task,
             \/ RefreshArrives(t)
             \/ \E s : PromptBegins(t, s)
             \/ \E op, s, v : ChangeArrives(t, op, s, v)
      PROVE  Handles(t)
  <2>1. UNCHANGED <<storeVars, raced, moved>>
    BY <1>7 DEF RefreshArrives, PromptBegins, ChangeArrives, ghostVars
  <2>2. PICK stage \in {"walk", "tools", "build", "queued"} : Goes(t, stage)
    BY <1>7 DEF RefreshArrives, PromptBegins, ChangeArrives
  <2>3. PICK q : Arrives(t, q)
    BY <1>7 DEF RefreshArrives, PromptBegins, ChangeArrives
  <2>4. ask' = [ask EXCEPT ![t] = q] /\ IsNext(t) /\ pc[t] = "idle"
    BY <2>3 DEF Arrives, IsNext
  <2>5. UNCHANGED previous /\ (UNCHANGED copy \/ \E d : copy' = [copy EXCEPT ![t] = d])
    BY <1>7 DEF RefreshArrives, PromptBegins, ChangeArrives
  <2>6. \A u \in Task \ {t} :
          ask'[u] = ask[u] /\ copy'[u] = copy[u] /\ previous'[u] = previous[u]
    BY <2>4, <2>5 DEF TypeInv, TypeOK
  <2>7. GoesOn(t)
    BY <2>2, <2>4, <2>6, GoesGoesOn
  <2> QED BY <2>1, <2>7 DEF Handles, Rests
<1> QED BY <1>1, <1>2, <1>3, <1>4, <1>5, <1>6, <1>7 DEF Client, StepKind

LEMMA ProceedsKinds == ASSUME TypeInv, NEW t \in Task, Proceeds(t) PROVE Handles(t)
<1>1. CASE \/ PromptBuilt(t) \/ LoopAnswers(t) \/ ModeNoted(t) \/ RefreshStarts(t)
           \/ \E r \in Runtime : RefreshQueues(t, r)
  <2>1. UNCHANGED <<storeVars, raced, moved, ask, copy, previous>>
    BY <1>1
       DEF PromptBuilt, LoopAnswers, LoopEnds, ModeNoted, RefreshStarts, RefreshQueues,
           ghostVars
  <2>2. /\ pc[t] \notin {"idle", "end_turn", "loaded"}
        /\ \E stage \in {"tools", "message", "option", "list", "wait"} : Goes(t, stage)
    BY <1>1 DEF PromptBuilt, LoopAnswers, ModeNoted, RefreshStarts, RefreshQueues
  <2> QED BY <2>1, <2>2, GoesGoesOn DEF Handles, Rests
<1>2. CASE \/ PromptBuildFails(t) \/ LoopFails(t) \/ MessageFails(t) \/ ChangeRefused(t)
           \/ ModeSwapFails(t) \/ OptionSent(t) \/ RollbackRefused(t)
           \/ ModeUndoFails(t) \/ RefreshDone(t)
  <2>1. UNCHANGED <<storeVars, raced, moved>>
    BY <1>2
       DEF PromptBuildFails, LoopFails, LoopEnds, MessageFails, ChangeRefused,
           ModeSwapFails, OptionSent, RollbackRefused, ModeUndoFails, RefreshDone,
           ghostVars
  <2>2. pc[t] \notin {"idle", "end_turn", "loaded"} /\ Over(t)
    BY <1>2
       DEF PromptBuildFails, LoopFails, MessageFails, ChangeRefused, ModeSwapFails,
           OptionSent, RollbackRefused, ModeUndoFails, RefreshDone, Finish
  <2> QED BY <2>1, <2>2, OverGoesOn DEF Handles, Rests
<1>3. CASE ToolsGranted(t) \/ RefreshLists(t)
  <2>1. UNCHANGED <<storeVars, raced, moved>> /\ pc[t] \notin {"idle", "end_turn", "loaded"}
    BY <1>3 DEF ToolsGranted, RefreshLists, LoopEnds, ghostVars
  <2>2. \/ Over(t)
        \/ \E stage \in {"loop", "walk"} :
             Goes(t, stage) /\ UNCHANGED <<ask, copy, previous>>
    BY <1>3 DEF ToolsGranted, RefreshLists
  <2>3. GoesOn(t)
    BY <2>1, <2>2, OverGoesOn, GoesGoesOn
  <2> QED BY <2>1, <2>3 DEF Handles, Rests
<1>4. CASE LoopAnswersNothing(t) \/ MessageSent(t)
  BY <1>4 DEF LoopAnswersNothing, MessageSent, LoopEnds, Handles, Commits
<1>5. CASE ModelChanges(t)
  <2>1. GoesOn(t)
    <3>1. /\ Goes(t, "option") /\ pc[t] = "queued"
          /\ previous' = [previous EXCEPT ![t] = data[Of(t)]] /\ UNCHANGED <<ask, copy>>
      BY <1>5 DEF ModelChanges
    <3>2. \A u \in Task \ {t} : previous'[u] = previous[u]
      BY <3>1 DEF TypeInv, TypeOK
    <3> QED BY <3>1, <3>2, GoesGoesOn
  <2> QED BY <1>5, <2>1 DEF ModelChanges, SetModel, Changing, Sets, Handles, ghostVars
<1>6. CASE ModelRollsBack(t)
  <2>1. GoesOn(t)
    BY <1>6, OverGoesOn DEF ModelRollsBack, Finish
  <2> QED BY <1>6, <2>1
          DEF ModelRollsBack, ResetModel, SetModel, Changing, Sets, Handles, ghostVars
<1>7. CASE ModeChangeStarts(t) \/ ModeRollsBack(t)
  <2>1. /\ pc[t] \in {"queued", "note", "option"} /\ UNCHANGED <<ask, storeVars, ghostVars>>
        /\ \E stage \in {"swap", "undo"} : Goes(t, stage)
        /\ previous' = [previous EXCEPT ![t] = data[Of(t)]] \/ UNCHANGED previous
        /\ \E m : copy' = [copy EXCEPT ![t] = WithMode(data[Of(t)], m)]
    BY <1>7 DEF ModeChangeStarts, ModeRollsBack, ReadsForMode
  <2>2. /\ OthersSame(t) /\ pc'[t] \in {"swap", "undo"}
        /\ \E m : copy'[t] = WithMode(data[Of(t)], m)
    BY <2>1 DEF Goes, OthersSame, SamePlace, TypeInv, TypeOK
  <2> QED BY <2>1, <2>2 DEF Handles, Reads, ghostVars
<1>8. CASE ModeSwapped(t) \/ ModeUndone(t)
  <2>1. /\ pc[t] \in {"swap", "undo"} /\ Save(Of(t), copy[t]) /\ UNCHANGED <<raced, moved>>
        /\ \/ Over(t)
           \/ Goes(t, "note") /\ UNCHANGED <<ask, copy, previous>>
    BY <1>8 DEF ModeSwapped, ModeUndone, SetsMode, Finish, ghostVars
  <2>2. GoesOn(t)
    BY <2>1, OverGoesOn, GoesGoesOn
  <2> QED BY <2>1, <2>2 DEF Handles, WritesBack
<1> QED BY <1>1, <1>2, <1>3, <1>4, <1>5, <1>6, <1>7, <1>8 DEF Proceeds

LEMMA StepKinds == ASSUME TypeInv, [Next]_vars PROVE StepKind
<1>1. CASE UNCHANGED vars
  BY <1>1 DEF vars, ghostVars, StepKind, NoHandler
<1>2. CASE Client
  BY <1>2, ClientKinds
<1>3. ASSUME NEW t \in Task, Proceeds(t)
      PROVE  StepKind
  BY <1>3, ProceedsKinds DEF StepKind
<1> QED BY <1>1, <1>2, <1>3 DEF Next

-----------------------------------------------------------------------------
(* The turns that were answered.  A history has only those, so the one     *)
(* that is committed is not in it yet; and what a change of mode has read  *)
(* of a session is its history as it still is, until a turn is committed   *)
(* meanwhile, which is what raced records.                                 *)

In(t, h) == \E i \in 1 .. Len(h) : h[i] = t

OnceIn(t, h) == \E i \in 1 .. Len(h) : \A j \in 1 .. Len(h) : (h[j] = t <=> j = i)

SaidOnly == \A s \in Session, t \in Task : In(t, data[s].history) => pc[t] = "end_turn"

Recorded(t) ==
  pc[t] = "end_turn" /\ Of(t) \in known \ raced => OnceIn(t, data[Of(t)].history)

ReadAsIs(t) ==
  pc[t] \in {"swap", "undo"} /\ Of(t) \in known \ raced =>
    copy[t].history = data[Of(t)].history

TurnsInv == SaidOnly /\ \A t \in Task : Recorded(t) /\ ReadAsIs(t)

LEMMA OnceTimes ==
  ASSUME NEW t, NEW h \in Seq(Task), OnceIn(t, h)
  PROVE  Times(t, h) = 1
<1>1. PICK i \in 1 .. Len(h) : \A j \in 1 .. Len(h) : (h[j] = t <=> j = i)
  BY DEF OnceIn
<1>2. {j \in DOMAIN h : h[j] = t} = {i}
  BY <1>1
<1> QED BY <1>2, FS_Singleton DEF Times

LEMMA TurnsRecorded == TypeInv /\ TurnsInv => AnsweredTurnsKept
<1> SUFFICES ASSUME TypeInv, TurnsInv, NEW t \in Task, pc[t] = "end_turn",
                    Of(t) \in known, Of(t) \notin raced
             PROVE  Times(t, data[Of(t)].history) = 1
  BY DEF AnsweredTurnsKept
<1>1. data[Of(t)].history \in Seq(Task)
  BY DataFields DEF TypeInv, TypeOK, StoreTypeOK
<1> QED BY <1>1, OnceTimes DEF TurnsInv, Recorded

LEMMA AppendIn ==
  ASSUME NEW h \in Seq(Task), NEW t \in Task
  PROVE  /\ \A u : In(u, Append(h, t)) => In(u, h) \/ u = t
         /\ ~In(t, h) => OnceIn(t, Append(h, t))
         /\ \A u : OnceIn(u, h) /\ u # t => OnceIn(u, Append(h, t))
<1>1. /\ Len(h) \in Nat /\ Len(Append(h, t)) = Len(h) + 1
      /\ \A i \in 1 .. Len(h) : Append(h, t)[i] = h[i]
      /\ Append(h, t)[Len(h) + 1] = t
  BY AppendProperties
<1>2. ASSUME NEW u, In(u, Append(h, t)), u # t
      PROVE  In(u, h)
  BY <1>1, <1>2 DEF In
<1>3. ASSUME ~In(t, h)
      PROVE  OnceIn(t, Append(h, t))
  <2>1. \A j \in 1 .. Len(h) + 1 : (Append(h, t)[j] = t <=> j = Len(h) + 1)
    BY <1>1, <1>3 DEF In
  <2>2. Len(h) + 1 \in 1 .. Len(Append(h, t)) /\ Len(Append(h, t)) = Len(h) + 1
    BY <1>1
  <2> QED BY <2>1, <2>2, Zenon DEF OnceIn
<1>4. ASSUME NEW u, OnceIn(u, h), u # t
      PROVE  OnceIn(u, Append(h, t))
  <2>1. PICK i \in 1 .. Len(h) : \A j \in 1 .. Len(h) : (h[j] = u <=> j = i)
    BY <1>4 DEF OnceIn
  <2>2. \A j \in 1 .. Len(h) + 1 : (Append(h, t)[j] = u <=> j = i)
    BY <1>1, <1>4, <2>1
  <2>3. i \in 1 .. Len(Append(h, t))
    BY <1>1
  <2>4. \A j \in 1 .. Len(Append(h, t)) : (Append(h, t)[j] = u <=> j = i)
    BY <1>1, <2>2
  <2> QED BY <2>3, <2>4 DEF OnceIn
<1> QED BY <1>2, <1>3, <1>4

LEMMA PrefixIn ==
  ASSUME NEW h \in Seq(Task), NEW n \in 0 .. Len(h), NEW t, In(t, SubSeq(h, 1, n))
  PROVE  In(t, h)
<1>1. Len(SubSeq(h, 1, n)) = n /\ \A i \in 1 .. n : SubSeq(h, 1, n)[i] = h[i]
  BY SubSeqProperties
<1> QED BY <1>1 DEF In

(* The histories stay, and so do the requests that wait with what they     *)
(* have read.                                                              *)
LEMMA TurnsQuiet ==
  ASSUME TypeInv, TurnsInv, UNCHANGED known, raced \subseteq raced', HistoriesSame,
         \A u \in Task : pc'[u] \in {"end_turn", "swap", "undo"} =>
           pc'[u] = pc[u] /\ ask'[u] = ask[u] /\ copy'[u] = copy[u],
         \A u \in Task : pc[u] = "end_turn" => pc'[u] = "end_turn"
  PROVE  TurnsInv'
<1>1. SaidOnly'
  BY DEF TurnsInv, SaidOnly, HistoriesSame
<1>2. ASSUME NEW u \in Task
      PROVE  Recorded(u)' /\ ReadAsIs(u)'
  <2>1. \A s \in known : data'[s].history = data[s].history
    BY DEF TypeInv, TypeOK, StoreTypeOK, HistoriesSame
  <2>2. CASE pc'[u] \in {"end_turn", "swap", "undo"}
    <3>1. pc'[u] = pc[u] /\ Of(u)' = Of(u) /\ copy'[u] = copy[u]
      BY <2>2 DEF Of
    <3> QED BY <2>1, <3>1 DEF TurnsInv, Recorded, ReadAsIs
  <2>3. CASE pc'[u] \notin {"end_turn", "swap", "undo"}
    BY <2>3 DEF Recorded, ReadAsIs
  <2> QED BY <2>2, <2>3
<1> QED BY <1>1, <1>2 DEF TurnsInv

LEMMA TurnsRead ==
  ASSUME TypeInv, TurnsInv, NEW t \in Task, Reads(t)
  PROVE  TurnsInv'
<1>1. SaidOnly'
  BY DEF TurnsInv, SaidOnly, Reads, OthersSame, SamePlace, storeVars
<1>2. Of(t) \in Session /\ copy'[t].history = data[Of(t)].history
  BY OfTypes DEF Reads, WithMode, Data, Changing
<1>3. ASSUME NEW u \in Task
      PROVE  Recorded(u)' /\ ReadAsIs(u)'
  <2>1. CASE u = t
    BY <1>2, <2>1 DEF Recorded, ReadAsIs, Reads, Of, storeVars
  <2>2. CASE u # t
    BY <2>2 DEF TurnsInv, Recorded, ReadAsIs, Reads, OthersSame, SamePlace, Of, storeVars
  <2> QED BY <2>1, <2>2
<1> QED BY <1>1, <1>3 DEF TurnsInv

LEMMA TurnsWrittenBack ==
  ASSUME TypeInv, ChangesInv, TurnsInv, NEW t \in Task, WritesBack(t)
  PROVE  TurnsInv'
<1> DEFINE s == Of(t)
<1>1. /\ s \in Session /\ data \in [Session -> SessionData] /\ MayUpdate(t)
      /\ UNCHANGED <<known, raced>>
  BY OfTypes
     DEF WritesBack, TypeInv, TypeOK, StoreTypeOK, Handlers, UpdateHeld, Changing, Save
<1>2. \A z \in Session : data'[z] = IF z = s /\ s \in known THEN copy[t] ELSE data[z]
  BY <1>1 DEF WritesBack, Save
<1>3. s \in known \ raced => copy[t].history = data[s].history
  BY DEF TurnsInv, ReadAsIs, WritesBack
<1>4. SaidOnly'
  <2> SUFFICES ASSUME NEW z \in Session, NEW u \in Task, In(u, data'[z].history)
               PROVE  pc[u] = "end_turn"
    BY DEF SaidOnly, WritesBack, GoesOn, OthersSame, SamePlace
  <2>1. In(u, data[z].history)
    <3>1. CASE z = s /\ s \in known
      <4>1. PICK n \in 0 .. Len(data[s].history) :
              copy[t].history = SubSeq(data[s].history, 1, n)
        BY <3>1 DEF ChangesInv, Settled, HasRead, WritesBack
      <4>2. data[s].history \in Seq(Task)
        BY <1>1, DataFields
      <4> QED BY <1>2, <3>1, <4>1, <4>2, PrefixIn
    <3>2. CASE ~(z = s /\ s \in known)
      BY <1>2, <3>2
    <3> QED BY <3>1, <3>2
  <2> QED BY <2>1 DEF TurnsInv, SaidOnly
<1>5. ASSUME NEW u \in Task
      PROVE  Recorded(u)' /\ ReadAsIs(u)'
  <2>1. CASE u = t
    BY <2>1 DEF Recorded, ReadAsIs, WritesBack, GoesOn
  <2>2. CASE u # t
    <3>1. pc'[u] = pc[u] /\ Of(u)' = Of(u) /\ copy'[u] = copy[u]
      BY <2>2 DEF WritesBack, GoesOn, OthersSame, SamePlace, Of
    <3>2. Of(u) \in known \ raced => data'[Of(u)].history = data[Of(u)].history
      BY <1>1, <1>2, <1>3 DEF TypeInv, TypeOK, StoreTypeOK
    <3> QED BY <1>1, <3>1, <3>2 DEF TurnsInv, Recorded, ReadAsIs
  <2> QED BY <2>1, <2>2
<1> QED BY <1>4, <1>5 DEF TurnsInv

LEMMA TurnsCommitted ==
  ASSUME TypeInv, TurnsInv, NEW t \in Task, Commits(t)
  PROVE  TurnsInv'
<1> DEFINE s == Of(t)
<1>1. /\ s \in Session /\ data \in [Session -> SessionData]
      /\ UNCHANGED known /\ raced \subseteq raced' /\ known \subseteq Session
      /\ \A z \in Session : data'[z] = IF z = s /\ s \in known
                                        THEN WithTurn(data[s], t) ELSE data[z]
  BY OfTypes DEF Commits, Commit, Save, Prompting, TypeInv, TypeOK, StoreTypeOK
<1>2. OthersSame(t) /\ pc'[t] = IF s \in known THEN "end_turn" ELSE "over"
  BY EndsTurnPlace, EndsTurnSettledPlace DEF Commits, Commit
<1>3. s \in known => ask'[t] = ask[t]
  BY DEF Commits, Commit, EndsTurn
<1>4. data[s].history \in Seq(Task) /\ ~In(t, data[s].history)
  BY <1>1, DataFields DEF TurnsInv, SaidOnly, Commits
<1>5. WithTurn(data[s], t).history = Append(data[s].history, t)
  BY DEF WithTurn, Data
<1>6. SaidOnly'
  <2> SUFFICES ASSUME NEW z \in Session, NEW u \in Task, In(u, data'[z].history)
               PROVE  pc'[u] = "end_turn"
    BY DEF SaidOnly
  <2>1. CASE In(u, data[z].history)
    <3>1. pc[u] = "end_turn" /\ u # t
      BY <2>1 DEF TurnsInv, SaidOnly, Commits
    <3> QED BY <1>2, <3>1 DEF OthersSame, SamePlace
  <2>2. CASE ~In(u, data[z].history)
    BY <1>1, <1>2, <1>4, <1>5, <2>2, AppendIn
  <2> QED BY <2>1, <2>2
<1>7. ASSUME NEW u \in Task
      PROVE  Recorded(u)' /\ ReadAsIs(u)'
  <2>1. CASE u = t
    <3>1. pc'[u] \in {"end_turn", "over"} /\ (s \in known <=> pc'[u] = "end_turn")
      BY <1>2, <2>1
    <3>2. s \in known => Of(u)' = s
      BY <1>3, <2>1 DEF Of
    <3>3. s \in known => data'[s].history = Append(data[s].history, t)
      BY <1>1, <1>5
    <3>4. OnceIn(t, Append(data[s].history, t))
      BY <1>4, AppendIn
    <3> HIDE DEF s
    <3>5. Recorded(u)'
      BY <2>1, <3>1, <3>2, <3>3, <3>4 DEF Recorded
    <3> QED BY <3>1, <3>5 DEF ReadAsIs
  <2>2. CASE u # t
    <3>1. pc'[u] = pc[u] /\ Of(u)' = Of(u) /\ copy'[u] = copy[u]
      BY <1>2, <2>2 DEF OthersSame, SamePlace, Of
    <3>2. Recorded(u)'
      BY <1>1, <1>4, <1>5, <2>2, <3>1, AppendIn DEF TurnsInv, Recorded
    <3>3. ReadAsIs(u)'
      <4>1. pc[u] \in {"swap", "undo"} /\ Of(u) = s => s \in raced'
        BY DEF Commits, Commit, InModeChange
      <4> QED BY <1>1, <3>1, <4>1 DEF TurnsInv, ReadAsIs
    <3> QED BY <3>2, <3>3
  <2> QED BY <2>1, <2>2
<1> QED BY <1>6, <1>7 DEF TurnsInv

LEMMA TurnsMade ==
  ASSUME TypeInv, ChangesInv, TurnsInv, NEW s \in Session, Makes(s)
  PROVE  TurnsInv'
<1>1. PICK d : /\ Create(s, d)
               /\ d.history = << >> \/ \E u \in known : d.history = data[u].history
  BY DEF Makes
<1>2. /\ data \in [Session -> SessionData] /\ known \subseteq issued
      /\ issued \subseteq Session /\ s \notin issued
  BY DEF Makes, TypeInv, TypeOK, StoreTypeOK
<1>3. SaidOnly'
  <2> SUFFICES ASSUME NEW z \in Session, NEW u \in Task, In(u, data'[z].history)
               PROVE  \E y \in Session : In(u, data[y].history)
    BY DEF TurnsInv, SaidOnly, Makes, NoHandler
  <2>1. CASE z = s
    BY <1>1, <1>2, <2>1 DEF Create, In
  <2>2. CASE z # s
    BY <1>1, <1>2, <2>2 DEF Create
  <2> QED BY <2>1, <2>2
<1>4. ASSUME NEW u \in Task
      PROVE  Recorded(u)' /\ ReadAsIs(u)'
  <2>1. pc[u] \in {"end_turn", "swap", "undo"} =>
          Of(u) # s /\ Of(u) \in Session
    BY <1>2 DEF ChangesInv, Settled, AskedForIssued, Prompting, Changing
  <2> QED BY <1>1, <1>2, <2>1
          DEF TurnsInv, Recorded, ReadAsIs, Makes, NoHandler, Of, Create
<1> QED BY <1>3, <1>4 DEF TurnsInv

LEMMA TurnsEnded ==
  ASSUME TypeInv, TurnsInv, NEW s \in Session, Ends(s)
  PROVE  TurnsInv'
<1>1. /\ data \in [Session -> SessionData] /\ known \subseteq Session
      /\ known' = known \ {s}
      /\ \A z \in Session : data'[z] = IF z = s THEN Blank ELSE data[z]
  BY DEF Ends, Delete, TypeInv, TypeOK, StoreTypeOK
<1>2. SaidOnly'
  BY <1>1 DEF TurnsInv, SaidOnly, Ends, NoHandler, In, Blank, Data
<1>3. ASSUME NEW u \in Task
      PROVE  Recorded(u)' /\ ReadAsIs(u)'
  BY <1>1 DEF TurnsInv, Recorded, ReadAsIs, Ends, NoHandler, Of
<1> QED BY <1>2, <1>3 DEF TurnsInv

LEMMA StepTurns == TypeInv /\ ChangesInv /\ TurnsInv /\ [Next]_vars => TurnsInv'
<1> SUFFICES ASSUME TypeInv, ChangesInv, TurnsInv, [Next]_vars PROVE TurnsInv'
  OBVIOUS
<1>1. CASE NoHandler /\ UNCHANGED storeVars
  BY <1>1 DEF NoHandler, storeVars, TurnsInv, SaidOnly, Recorded, ReadAsIs, Of
<1>2. ASSUME NEW s \in Session, Makes(s) \/ Ends(s)
      PROVE  TurnsInv'
  BY <1>2, TurnsMade, TurnsEnded
<1>3. ASSUME NEW t \in Task, Handles(t)
      PROVE  TurnsInv'
  <2>1. CASE Rests(t)
    BY <2>1, TurnsQuiet DEF Rests, GoesOn, OthersSame, SamePlace, storeVars, HistoriesSame
  <2>2. CASE Sets(t)
    <3>1. UNCHANGED known /\ HistoriesSame
      BY <2>2, OfTypes, ModelSavedStutters DEF Sets
    <3> QED BY <2>2, <3>1, TurnsQuiet DEF Sets, GoesOn, OthersSame, SamePlace
  <2>3. ASSUME NEW s \in Session, Loads(t, s)
        PROVE  TurnsInv'
    <3>1. UNCHANGED known /\ HistoriesSame /\ UNCHANGED raced
      BY <2>3
         DEF Loads, LoadSession, LoadWithCwd, Save, WithCwd, Data, TypeInv, TypeOK,
             StoreTypeOK, HistoriesSame
    <3>2. OthersSame(t) /\ pc[t] = "idle" /\ pc'[t] \in {"loaded", "over"}
      BY <2>3, LoadSettled, LoadPlace DEF Loads
    <3> QED BY <3>1, <3>2, TurnsQuiet DEF OthersSame, SamePlace
  <2> QED BY <1>3, <2>1, <2>2, <2>3, TurnsRead, TurnsWrittenBack, TurnsCommitted
          DEF Handles
<1> QED BY <1>1, <1>2, <1>3, StepKinds DEF StepKind

LEMMA TurnsInvariant == Spec => []TurnsInv
<1>1. Init => TurnsInv
  BY DEF Init, StoreInit, TurnsInv, SaidOnly, Recorded, ReadAsIs, In, Blank, Data
<1> QED BY <1>1, StepTurns, TypeInvariant, ChangesInvariant, PTL DEF Spec

(* A turn that was answered is in the history of its session, once, unless *)
(* a change of mode of the session was building its tools as it was        *)
(* committed.                                                              *)
THEOREM TurnsAreKept == Spec => []AnsweredTurnsKept
BY TurnsRecorded, TurnsInvariant, TypeInvariant, PTL

-----------------------------------------------------------------------------
(* The directories.  Requests arrive in their order, so a load that was    *)
(* answered is earlier than any that comes; and what a change of mode has  *)
(* read of a session has its directory, until one is given to the session  *)
(* meanwhile, which is what moved records.                                 *)

InOrder == \A t, u \in Task : u < t /\ pc[u] = "idle" => pc[t] = "idle"

LoadedIssued(t) == pc[t] = "loaded" => Of(t) \in issued

Located(t) ==
  pc[t] = "loaded" /\ Of(t) \in known \ moved =>
    data[Of(t)].cwd \in Task /\ data[Of(t)].cwd >= t

ReadInPlace(t) ==
  pc[t] \in {"swap", "undo"} /\ Of(t) \in known \ moved =>
    copy[t].cwd = data[Of(t)].cwd

Directed(t) == LoadedIssued(t) /\ Located(t) /\ ReadInPlace(t)

DirectoriesInv == InOrder /\ \A t \in Task : Directed(t)

LEMMA DirectoriesLocated == DirectoriesInv => DirectoryKept
BY DEF DirectoriesInv, Directed, Located, DirectoryKept

(* A request that has arrived does not become one that has not, and the    *)
(* next to arrive is one whose predecessors have.                          *)
LEMMA OrderKept ==
  ASSUME DirectoriesInv, NEW t \in Task, OthersSame(t), pc'[t] # "idle",
         pc[t] = "idle" => IsNext(t)
  PROVE  InOrder'
<1> SUFFICES ASSUME NEW v \in Task, NEW u \in Task, u < v, pc'[u] = "idle"
             PROVE  pc'[v] = "idle"
  BY DEF InOrder
<1>1. u # t /\ pc[u] = "idle"
  BY DEF OthersSame, SamePlace
<1>2. pc[v] = "idle"
  BY <1>1 DEF DirectoriesInv, InOrder
<1>3. v # t
  BY <1>1, <1>2 DEF IsNext
<1> QED BY <1>2, <1>3 DEF OthersSame, SamePlace

(* The directories stay. *)
LEMMA DirectoriesQuiet ==
  ASSUME TypeInv, DirectoriesInv, NEW t \in Task, GoesOn(t),
         UNCHANGED <<issued, known, moved>>,
         \A s \in known : data'[s].cwd = data[s].cwd
  PROVE  DirectoriesInv'
<1>1. InOrder'
  BY OrderKept DEF GoesOn
<1>2. ASSUME NEW u \in Task
      PROVE  Directed(u)'
  <2>1. CASE u = t
    BY <2>1 DEF Directed, LoadedIssued, Located, ReadInPlace, GoesOn
  <2>2. CASE u # t
    <3>1. pc'[u] = pc[u] /\ Of(u)' = Of(u) /\ copy'[u] = copy[u]
      BY <2>2 DEF GoesOn, OthersSame, SamePlace, Of
    <3> QED BY <3>1 DEF DirectoriesInv, Directed, LoadedIssued, Located, ReadInPlace
  <2> QED BY <2>1, <2>2
<1> QED BY <1>1, <1>2 DEF DirectoriesInv

LEMMA DirectoriesRead ==
  ASSUME TypeInv, DirectoriesInv, NEW t \in Task, Reads(t)
  PROVE  DirectoriesInv'
<1>1. InOrder'
  BY OrderKept DEF Reads
<1>2. ASSUME NEW u \in Task
      PROVE  Directed(u)'
  <2>1. CASE u = t
    BY <2>1
       DEF Directed, LoadedIssued, Located, ReadInPlace, Reads, Of, WithMode, Data,
           storeVars
  <2>2. CASE u # t
    <3>1. pc'[u] = pc[u] /\ Of(u)' = Of(u) /\ copy'[u] = copy[u]
      BY <2>2 DEF Reads, OthersSame, SamePlace, Of
    <3> QED BY <3>1
            DEF DirectoriesInv, Directed, LoadedIssued, Located, ReadInPlace, Reads,
                storeVars
  <2> QED BY <2>1, <2>2
<1> QED BY <1>1, <1>2 DEF DirectoriesInv

LEMMA DirectoriesWrittenBack ==
  ASSUME TypeInv, DirectoriesInv, NEW t \in Task, WritesBack(t)
  PROVE  DirectoriesInv'
<1> DEFINE s == Of(t)
<1>1. /\ s \in Session /\ data \in [Session -> SessionData]
      /\ UNCHANGED <<issued, known, moved>> /\ known \subseteq Session
  BY OfTypes DEF WritesBack, TypeInv, TypeOK, StoreTypeOK, Changing, Save
<1>2. \A z \in Session : data'[z] = IF z = s /\ s \in known THEN copy[t] ELSE data[z]
  BY <1>1 DEF WritesBack, Save
<1>3. s \in known \ moved => copy[t].cwd = data[s].cwd
  BY DEF DirectoriesInv, Directed, ReadInPlace, WritesBack
<1>4. InOrder'
  BY OrderKept DEF WritesBack, GoesOn
<1>5. ASSUME NEW u \in Task
      PROVE  Directed(u)'
  <2>1. CASE u = t
    BY <2>1 DEF Directed, LoadedIssued, Located, ReadInPlace, WritesBack, GoesOn
  <2>2. CASE u # t
    <3>1. pc'[u] = pc[u] /\ Of(u)' = Of(u) /\ copy'[u] = copy[u]
      BY <2>2 DEF WritesBack, GoesOn, OthersSame, SamePlace, Of
    <3>2. Of(u) \in known \ moved => data'[Of(u)].cwd = data[Of(u)].cwd
      BY <1>1, <1>2, <1>3
    <3> QED BY <1>1, <3>1, <3>2
            DEF DirectoriesInv, Directed, LoadedIssued, Located, ReadInPlace
  <2> QED BY <2>1, <2>2
<1> QED BY <1>4, <1>5 DEF DirectoriesInv

LEMMA DirectoriesCommitted ==
  ASSUME TypeInv, DirectoriesInv, NEW t \in Task, Commits(t)
  PROVE  DirectoriesInv'
<1> DEFINE s == Of(t)
<1>1. /\ s \in Session /\ data \in [Session -> SessionData]
      /\ UNCHANGED <<issued, known, moved>> /\ known \subseteq Session
  BY OfTypes DEF Commits, Commit, Save, Prompting, TypeInv, TypeOK, StoreTypeOK
<1>2. \A z \in known : data'[z].cwd = data[z].cwd
  BY <1>1 DEF Commits, Commit, Save, WithTurn, Data
<1>3. OthersSame(t) /\ pc'[t] \in {"end_turn", "over"} /\ pc[t] # "idle"
  BY EndsTurnSettledPlace DEF Commits
<1>4. InOrder'
  BY <1>3, OrderKept
<1>5. ASSUME NEW u \in Task
      PROVE  Directed(u)'
  <2>1. CASE u = t
    BY <1>3, <2>1 DEF Directed, LoadedIssued, Located, ReadInPlace
  <2>2. CASE u # t
    <3>1. pc'[u] = pc[u] /\ Of(u)' = Of(u) /\ copy'[u] = copy[u]
      BY <1>3, <2>2 DEF OthersSame, SamePlace, Of
    <3> QED BY <1>1, <1>2, <3>1
            DEF DirectoriesInv, Directed, LoadedIssued, Located, ReadInPlace
  <2> QED BY <2>1, <2>2
<1> QED BY <1>4, <1>5 DEF DirectoriesInv

LEMMA DirectoriesLoaded ==
  ASSUME TypeInv, DirectoriesInv, NEW t \in Task, NEW s \in Session, Loads(t, s)
  PROVE  DirectoriesInv'
<1>1. /\ data \in [Session -> SessionData] /\ known \subseteq Session /\ Task \subseteq Nat
      /\ UNCHANGED <<issued, known>> /\ moved \subseteq moved' /\ moved' \subseteq moved \cup {s}
  BY IdsAssumption
     DEF Loads, LoadSession, LoadWithCwd, Save, TypeInv, TypeOK, StoreTypeOK
<1>2. \A z \in known : data'[z].cwd = IF z = s THEN t ELSE data[z].cwd
  BY <1>1 DEF Loads, LoadSession, LoadWithCwd, Save, WithCwd, Data
<1>3. /\ OthersSame(t) /\ pc[t] = "idle" /\ pc'[t] \in {"loaded", "over"}
      /\ IsNext(t)
  BY LoadSettled, LoadPlace DEF Loads, LoadSession
<1>4. pc'[t] = "loaded" => ask'[t].of = s
  <2>1. CASE s \in known
    BY <2>1 DEF Loads, LoadSession, Asked, TypeInv, TypeOK
  <2>2. CASE s \notin known
    BY <2>2, OverPlace DEF Loads, LoadSession
  <2> QED BY <2>1, <2>2
<1>5. InOrder'
  BY <1>3, OrderKept
<1>6. ASSUME NEW u \in Task
      PROVE  Directed(u)'
  <2>1. CASE u = t
    BY <1>1, <1>2, <1>3, <1>4, <2>1
       DEF Directed, LoadedIssued, Located, ReadInPlace, Loads, Of
  <2>2. CASE u # t
    <3>1. pc'[u] = pc[u] /\ Of(u)' = Of(u) /\ copy'[u] = copy[u]
      BY <1>3, <2>2 DEF OthersSame, SamePlace, Of
    <3>2. pc[u] = "loaded" => u < t
      <4>1. u < t \/ t < u
        BY <1>1, <2>2
      <4> QED BY <1>3, <4>1 DEF DirectoriesInv, InOrder
    <3>3. LoadedIssued(u)'
      BY <1>1, <3>1 DEF DirectoriesInv, Directed, LoadedIssued
    <3>4. Located(u)'
      <4> SUFFICES ASSUME pc[u] = "loaded", Of(u) \in known, Of(u) \notin moved
                   PROVE  data'[Of(u)].cwd \in Task /\ data'[Of(u)].cwd >= u
        BY <1>1, <3>1 DEF Located
      <4>1. CASE Of(u) = s
        <5>1. data'[Of(u)].cwd = t /\ t \in Nat /\ u \in Nat /\ u < t
          BY <1>1, <1>2, <3>2, <4>1
        <5> QED BY <5>1
      <4>2. CASE Of(u) # s
        BY <1>2, <4>2 DEF DirectoriesInv, Directed, Located
      <4> QED BY <4>1, <4>2
    <3>5. ReadInPlace(u)'
      <4>1. pc[u] \in {"swap", "undo"} /\ Of(u) = s /\ s \in known => s \in moved'
        BY DEF Loads, LoadSession, InModeChange
      <4> QED BY <1>1, <1>2, <3>1, <4>1 DEF DirectoriesInv, Directed, ReadInPlace
    <3> QED BY <3>3, <3>4, <3>5 DEF Directed
  <2> QED BY <2>1, <2>2
<1> QED BY <1>5, <1>6 DEF DirectoriesInv

(* A session is made or ends while no request moves. *)
LEMMA DirectoriesElsewhere ==
  ASSUME TypeInv, ChangesInv, DirectoriesInv, NEW s \in Session, Makes(s) \/ Ends(s)
  PROVE  DirectoriesInv'
<1>1. /\ data \in [Session -> SessionData] /\ known \subseteq issued
      /\ issued \subseteq Session /\ NoHandler /\ issued \subseteq issued'
      /\ \A z \in Session \ {s} : data'[z] = data[z] /\ (z \in known' <=> z \in known)
  BY DEF Makes, Ends, Create, Delete, TypeInv, TypeOK, StoreTypeOK
<1>2. ASSUME NEW u \in Task
      PROVE  Directed(u)'
  <2>1. pc[u] \in {"loaded", "swap", "undo"} => Of(u) \in issued
    BY DEF DirectoriesInv, Directed, LoadedIssued, ChangesInv, Settled, AskedForIssued,
           Changing
  <2>2. s \in issued => s \notin known'
    BY DEF Makes, Ends, Delete
  <2>3. pc'[u] = pc[u] /\ Of(u)' = Of(u) /\ copy'[u] = copy[u] /\ moved' = moved
    BY <1>1 DEF NoHandler, Of
  <2>4. pc[u] \in {"loaded", "swap", "undo"} /\ Of(u) \in known' =>
          Of(u) \in known /\ data'[Of(u)] = data[Of(u)]
    BY <1>1, <2>1, <2>2
  <2> QED BY <1>1, <2>1, <2>3, <2>4
          DEF DirectoriesInv, Directed, LoadedIssued, Located, ReadInPlace
<1> QED BY <1>1, <1>2 DEF DirectoriesInv, InOrder, NoHandler

LEMMA StepDirectories ==
  TypeInv /\ ChangesInv /\ DirectoriesInv /\ [Next]_vars => DirectoriesInv'
<1> SUFFICES ASSUME TypeInv, ChangesInv, DirectoriesInv, [Next]_vars
             PROVE  DirectoriesInv'
  OBVIOUS
<1>1. CASE NoHandler /\ UNCHANGED storeVars
  BY <1>1
     DEF NoHandler, storeVars, DirectoriesInv, InOrder, Directed, LoadedIssued, Located,
         ReadInPlace, Of
<1>2. ASSUME NEW t \in Task, Handles(t)
      PROVE  DirectoriesInv'
  <2>1. CASE Rests(t)
    BY <2>1, DirectoriesQuiet DEF Rests, storeVars
  <2>2. CASE Sets(t)
    <3>1. /\ UNCHANGED <<issued, known, moved>>
          /\ \A s \in known : data'[s].cwd = data[s].cwd
      BY <2>2 DEF Sets, Save, WithModel, Data, TypeInv, TypeOK, StoreTypeOK
    <3> QED BY <2>2, <3>1, DirectoriesQuiet DEF Sets
  <2> QED BY <1>2, <2>1, <2>2, DirectoriesRead, DirectoriesWrittenBack,
             DirectoriesCommitted, DirectoriesLoaded DEF Handles
<1> QED BY <1>1, <1>2, DirectoriesElsewhere, StepKinds DEF StepKind

LEMMA DirectoriesInvariant == Spec => []DirectoriesInv
<1>1. Init => DirectoriesInv
  BY DEF Init, DirectoriesInv, InOrder, Directed, LoadedIssued, Located, ReadInPlace
<1> QED BY <1>1, StepDirectories, TypeInvariant, ChangesInvariant, PTL DEF Spec

(* A session stays in the directory that the last request to load it gave  *)
(* it, unless a change of mode was building its tools as the request came. *)
THEOREM DirectoriesAreKept == Spec => []DirectoryKept
BY DirectoriesLocated, DirectoriesInvariant, PTL


-----------------------------------------------------------------------------
(* The locks.  The queue of each is exactly the handlers that stand where  *)
(* its holder and those who wait for it stand: so nobody waits for a lock  *)
(* that a finished request has kept.                                       *)

WithTools == {"tools", "loop", "wait", "list"}

ToolsServed == \A r \in Runtime : QueueOf(lock[r], AtTools(r))
UpdatesServed == \A s \in Session : QueueOf(updating[s], AtUpdate(s))

LEMMA QueueJoined ==
  ASSUME NEW q \in Seq(Task), NEW P, QueueOf(q, P), NEW t \in Task, t \notin P
  PROVE  QueueOf(Append(q, t), P \cup {t})
<1> DEFINE a == Append(q, t)
<1>1. /\ DOMAIN q = 1 .. Len(q) /\ DOMAIN a = 1 .. Len(q) + 1 /\ Len(q) \in Nat
      /\ \A i \in 1 .. Len(q) : a[i] = q[i]
      /\ a[Len(q) + 1] = t
  BY AppendProperties, LenProperties
<1>2. \A i \in 1 .. Len(q) : q[i] \in P
  BY <1>1 DEF QueueOf
<1> HIDE DEF a
<1>3. {a[i] : i \in DOMAIN a} = P \cup {t}
  <2>1. P = {q[i] : i \in 1 .. Len(q)}
    BY <1>1 DEF QueueOf
  <2>2. \A i : i \in DOMAIN a <=> i \in 1 .. Len(q) \/ i = Len(q) + 1
    BY <1>1
  <2> QED BY <1>1, <2>1, <2>2
<1>4. ASSUME NEW i \in DOMAIN a, NEW j \in DOMAIN a, a[i] = a[j]
      PROVE  i = j
  <2>1. \A k \in DOMAIN a : k \in 1 .. Len(q) \/ k = Len(q) + 1
    BY <1>1
  <2>2. \A k, l \in 1 .. Len(q) : q[k] = q[l] => k = l
    BY <1>1 DEF QueueOf
  <2> QED BY <1>1, <1>2, <1>4, <2>1, <2>2
<1> QED BY <1>3, <1>4 DEF QueueOf, a

LEMMA QueueLeft ==
  ASSUME NEW q \in Seq(Task), q # << >>, NEW P, QueueOf(q, P)
  PROVE  QueueOf(Tail(q), P \ {Head(q)})
<1> DEFINE b == Tail(q)
<1>1. /\ DOMAIN q = 1 .. Len(q) /\ Len(q) \in Nat \ {0} /\ Head(q) = q[1]
      /\ DOMAIN b = 1 .. Len(q) - 1
      /\ \A i \in 1 .. Len(q) - 1 : b[i] = q[i + 1]
  BY HeadTailProperties, LenProperties, EmptySeq
<1>2. \A i, j \in 1 .. Len(q) : q[i] = q[j] => i = j
  BY <1>1 DEF QueueOf
<1>3. P = {q[i] : i \in 1 .. Len(q)}
  BY <1>1 DEF QueueOf
<1> HIDE DEF b
<1>4. ASSUME NEW i \in DOMAIN b
      PROVE  b[i] \in P \ {Head(q)}
  <2>1. i + 1 \in 1 .. Len(q) /\ i + 1 # 1 /\ 1 \in 1 .. Len(q) /\ b[i] = q[i + 1]
    BY <1>1
  <2>2. q[i + 1] # q[1]
    BY <1>2, <2>1
  <2> QED BY <1>1, <1>3, <2>1, <2>2
<1>5. ASSUME NEW u \in P \ {Head(q)}
      PROVE  \E i \in DOMAIN b : b[i] = u
  <2>1. PICK k \in 1 .. Len(q) : q[k] = u
    BY <1>3
  <2>2. k - 1 \in 1 .. Len(q) - 1 /\ (k - 1) + 1 = k
    BY <1>1, <2>1
  <2> QED BY <1>1, <2>1, <2>2
<1>6. ASSUME NEW i \in DOMAIN b, NEW j \in DOMAIN b, b[i] = b[j]
      PROVE  i = j
  <2>1. i + 1 \in 1 .. Len(q) /\ j + 1 \in 1 .. Len(q) /\ q[i + 1] = q[j + 1]
    BY <1>1, <1>6
  <2>2. i + 1 = j + 1
    BY <1>2, <2>1
  <2> QED BY <1>1, <2>2
<1>7. {b[i] : i \in DOMAIN b} = P \ {Head(q)}
  BY <1>4, <1>5
<1> QED BY <1>6, <1>7 DEF QueueOf, b

(* What a step of t may do to the queues for tools, and for updates.       *)

ToolsStay(t) ==
  /\ UNCHANGED <<runtime, lock>>
  /\ pc'[t] \in WithTools <=> pc[t] \in WithTools

ToolsJoined(t, r) ==
  /\ pc[t] \notin WithTools /\ pc'[t] \in WithTools
  /\ Queue(t, r) /\ runtime' = [runtime EXCEPT ![t] = r]

ToolsLeft(t) ==
  /\ pc[t] \in WithTools /\ pc'[t] \notin WithTools
  /\ HasTools(t, runtime[t]) /\ Release(runtime[t])
  /\ runtime' = [runtime EXCEPT ![t] = Nil]

UpdatesStay(t) ==
  /\ UNCHANGED updating
  /\ \/ pc[t] \notin Changing /\ pc'[t] \notin Changing
     \/ pc[t] \in Changing /\ pc'[t] \in Changing /\ Of(t)' = Of(t)

UpdateJoined(t, s) ==
  /\ pc[t] \notin Changing /\ pc'[t] \in Changing /\ Of(t)' = s
  /\ updating' = [updating EXCEPT ![s] = Append(@, t)]

UpdateLeft(t) ==
  /\ pc[t] \in Changing /\ pc'[t] \notin Changing
  /\ MayUpdate(t)
  /\ updating' = [updating EXCEPT ![Of(t)] = Tail(@)]

LEMMA ToolsStayServed ==
  ASSUME TypeInv, ToolsServed, NEW t \in Task, Elsewhere(t), ToolsStay(t)
  PROVE  ToolsServed'
<1> SUFFICES ASSUME NEW r \in Runtime PROVE QueueOf(lock[r], AtTools(r))'
  BY DEF ToolsServed
<1>1. AtTools(r)' = AtTools(r)
  BY DEF ToolsStay, WithTools, AtTools, Elsewhere
<1> QED BY <1>1 DEF ToolsServed, ToolsStay, QueueOf

LEMMA ToolsJoinedServed ==
  ASSUME TypeInv, ToolsServed, NEW t \in Task, Elsewhere(t),
         NEW r \in Runtime, ToolsJoined(t, r)
  PROVE  ToolsServed'
<1> SUFFICES ASSUME NEW q \in Runtime PROVE QueueOf(lock[q], AtTools(q))'
  BY DEF ToolsServed
<1>1. /\ lock \in [Runtime -> Seq(Task)] /\ runtime \in [Task -> Runtime \cup {Nil}]
      /\ QueueOf(lock[q], AtTools(q)) /\ t \notin AtTools(q)
  BY DEF TypeInv, TypeOK, RuntimesTypeOK, ToolsServed, ToolsJoined, AtTools, WithTools
<1>2. runtime'[t] = r /\ \A u \in Task \ {t} : runtime'[u] = runtime[u]
  BY <1>1 DEF ToolsJoined
<1>3. CASE q = r
  <2>1. AtTools(q)' = AtTools(q) \cup {t}
    BY <1>2, <1>3 DEF ToolsJoined, WithTools, AtTools, Elsewhere
  <2>2. lock'[q] = Append(lock[q], t)
    BY <1>1, <1>3 DEF ToolsJoined, Queue
  <2>3. QueueOf(Append(lock[q], t), AtTools(q) \cup {t})
    BY <1>1, QueueJoined
  <2> QED BY <2>1, <2>2, <2>3 DEF QueueOf
<1>4. CASE q # r
  <2>1. AtTools(q)' = AtTools(q)
    BY <1>1, <1>2, <1>4 DEF ToolsJoined, WithTools, AtTools, Elsewhere
  <2>2. lock'[q] = lock[q]
    BY <1>1, <1>4 DEF ToolsJoined, Queue
  <2> QED BY <1>1, <2>1, <2>2 DEF QueueOf
<1> QED BY <1>3, <1>4

LEMMA ToolsLeftServed ==
  ASSUME TypeInv, ToolsServed, NEW t \in Task, Elsewhere(t), ToolsLeft(t)
  PROVE  ToolsServed'
<1> SUFFICES ASSUME NEW q \in Runtime PROVE QueueOf(lock[q], AtTools(q))'
  BY DEF ToolsServed
<1>1. /\ lock \in [Runtime -> Seq(Task)] /\ runtime \in [Task -> Runtime \cup {Nil}]
      /\ QueueOf(lock[q], AtTools(q)) /\ runtime[t] \in Runtime
  BY DEF TypeInv, TypeOK, RuntimesTypeOK, ToolsServed, ToolsLeft, Handlers, ToolsHeld,
         WithTools
<1>2. runtime'[t] = Nil /\ \A u \in Task \ {t} : runtime'[u] = runtime[u]
  BY <1>1 DEF ToolsLeft
<1>3. AtTools(q)' = AtTools(q) \ {t}
  BY <1>2 DEF ToolsLeft, WithTools, AtTools, Elsewhere
<1>4. CASE q = runtime[t]
  <2>1. lock'[q] = Tail(lock[q]) /\ lock[q] # << >> /\ Head(lock[q]) = t
    BY <1>1, <1>4 DEF ToolsLeft, Release, HasTools
  <2>2. QueueOf(Tail(lock[q]), AtTools(q) \ {t})
    BY <1>1, <2>1, QueueLeft
  <2> QED BY <1>3, <2>1, <2>2 DEF QueueOf
<1>5. CASE q # runtime[t]
  <2>1. AtTools(q) \ {t} = AtTools(q)
    BY <1>5 DEF AtTools
  <2>2. lock'[q] = lock[q]
    BY <1>1, <1>5 DEF ToolsLeft, Release
  <2> QED BY <1>1, <1>3, <2>1, <2>2 DEF QueueOf
<1> QED BY <1>4, <1>5

LEMMA UpdatesStayServed ==
  ASSUME TypeInv, UpdatesServed, NEW t \in Task, Elsewhere(t), UpdatesStay(t)
  PROVE  UpdatesServed'
<1> SUFFICES ASSUME NEW s \in Session PROVE QueueOf(updating[s], AtUpdate(s))'
  BY DEF UpdatesServed
<1>1. \A u \in Task \ {t} : pc'[u] = pc[u] /\ Of(u)' = Of(u)
  BY DEF Elsewhere, Of
<1>2. AtUpdate(s)' = AtUpdate(s)
  BY <1>1 DEF UpdatesStay, Changing, AtUpdate
<1> QED BY <1>2 DEF UpdatesServed, UpdatesStay, QueueOf

LEMMA UpdateJoinedServed ==
  ASSUME TypeInv, UpdatesServed, NEW t \in Task, Elsewhere(t),
         NEW r \in Session, UpdateJoined(t, r)
  PROVE  UpdatesServed'
<1> SUFFICES ASSUME NEW s \in Session PROVE QueueOf(updating[s], AtUpdate(s))'
  BY DEF UpdatesServed
<1>1. /\ updating \in [Session -> Seq(Task)]
      /\ QueueOf(updating[s], AtUpdate(s)) /\ t \notin AtUpdate(s)
  BY DEF TypeInv, TypeOK, UpdatesServed, UpdateJoined, AtUpdate, Changing
<1>2. \A u \in Task \ {t} : pc'[u] = pc[u] /\ Of(u)' = Of(u)
  BY DEF Elsewhere, Of
<1>3. CASE s = r
  <2>1. AtUpdate(s)' = AtUpdate(s) \cup {t}
    BY <1>2, <1>3 DEF UpdateJoined, Changing, AtUpdate
  <2>2. updating'[s] = Append(updating[s], t)
    BY <1>1, <1>3 DEF UpdateJoined
  <2>3. QueueOf(Append(updating[s], t), AtUpdate(s) \cup {t})
    BY <1>1, QueueJoined
  <2> QED BY <2>1, <2>2, <2>3 DEF QueueOf
<1>4. CASE s # r
  <2>1. AtUpdate(s)' = AtUpdate(s)
    BY <1>1, <1>2, <1>4 DEF UpdateJoined, Changing, AtUpdate
  <2>2. updating'[s] = updating[s]
    BY <1>1, <1>4 DEF UpdateJoined
  <2> QED BY <1>1, <2>1, <2>2 DEF QueueOf
<1> QED BY <1>3, <1>4

LEMMA UpdateLeftServed ==
  ASSUME TypeInv, UpdatesServed, NEW t \in Task, Elsewhere(t), UpdateLeft(t)
  PROVE  UpdatesServed'
<1> SUFFICES ASSUME NEW s \in Session PROVE QueueOf(updating[s], AtUpdate(s))'
  BY DEF UpdatesServed
<1>1. /\ updating \in [Session -> Seq(Task)] /\ Of(t) \in Session
      /\ QueueOf(updating[s], AtUpdate(s))
  BY OfTypes DEF TypeInv, TypeOK, UpdatesServed, UpdateLeft
<1>2. \A u \in Task \ {t} : pc'[u] = pc[u] /\ Of(u)' = Of(u)
  BY DEF Elsewhere, Of
<1>3. AtUpdate(s)' = AtUpdate(s) \ {t}
  BY <1>2 DEF UpdateLeft, Changing, AtUpdate
<1>4. CASE s = Of(t)
  <2>1. t \in AtUpdate(s)
    BY <1>4 DEF UpdateLeft, Changing, AtUpdate
  <2>2. updating[s] # << >> /\ Head(updating[s]) = t
    BY <1>1, <1>4, <2>1 DEF QueueOf, UpdateLeft, MayUpdate
  <2>3. updating'[s] = Tail(updating[s])
    BY <1>1, <1>4 DEF UpdateLeft
  <2>4. QueueOf(Tail(updating[s]), AtUpdate(s) \ {t})
    BY <1>1, <2>2, QueueLeft
  <2> QED BY <1>3, <2>3, <2>4 DEF QueueOf
<1>5. CASE s # Of(t)
  <2>1. AtUpdate(s) \ {t} = AtUpdate(s)
    BY <1>5 DEF AtUpdate
  <2>2. updating'[s] = updating[s]
    BY <1>1, <1>5 DEF UpdateLeft
  <2> QED BY <1>1, <1>3, <2>1, <2>2 DEF QueueOf
<1> QED BY <1>4, <1>5

ServesTools(t) == ToolsStay(t) \/ ToolsLeft(t) \/ \E r \in Runtime : ToolsJoined(t, r)
ServesUpdates(t) ==
  UpdatesStay(t) \/ UpdateLeft(t) \/ \E s \in Session : UpdateJoined(t, s)

Serves(t) == Elsewhere(t) /\ ServesTools(t) /\ ServesUpdates(t)

LEMMA ServesKeeps ==
  ASSUME TypeInv, LocksServed, NEW t \in Task, Serves(t)
  PROVE  LocksServed'
<1>1. ToolsServed /\ UpdatesServed
  BY DEF LocksServed, ToolsServed, UpdatesServed
<1>2. ToolsServed'
  BY <1>1, ToolsStayServed, ToolsLeftServed, ToolsJoinedServed DEF Serves, ServesTools
<1>3. UpdatesServed'
  BY <1>1, UpdatesStayServed, UpdateLeftServed, UpdateJoinedServed
     DEF Serves, ServesUpdates
<1> QED BY <1>2, <1>3 DEF LocksServed, ToolsServed, UpdatesServed

(* A step far from the locks. *)
LEMMA ServesNone ==
  ASSUME NEW t \in Task, Elsewhere(t), UNCHANGED <<runtime, lock, updating>>,
         pc[t] \notin WithTools \cup Changing, pc'[t] \notin WithTools \cup Changing
  PROVE  Serves(t)
BY DEF Serves, ServesTools, ServesUpdates, ToolsStay, UpdatesStay

(* A change that is over gives back the update lock. *)
LEMMA ServesFinish ==
  ASSUME TypeInv, NEW t \in Task, Finish(t), pc[t] \in Changing, MayUpdate(t),
         UNCHANGED <<runtime, lock>>
  PROVE  Serves(t)
<1>1. Elsewhere(t) /\ pc'[t] = "over"
  BY OverPlace DEF Finish
<1> QED BY <1>1
        DEF Finish, Serves, ServesTools, ServesUpdates, ToolsStay, UpdateLeft, WithTools,
            Changing

(* A change that goes on keeps it. *)
LEMMA ServesChange ==
  ASSUME TypeInv, NEW t \in Task, NEW stage \in Changing, Goes(t, stage),
         pc[t] \in Changing, UNCHANGED <<ask, runtime, lock, updating>>
  PROVE  Serves(t)
<1>1. Elsewhere(t) /\ pc'[t] = stage /\ Of(t)' = Of(t)
  BY GoesPlace
<1> QED BY <1>1
        DEF Serves, ServesTools, ServesUpdates, ToolsStay, UpdatesStay, WithTools,
            Changing

(* A loop that ends, whatever it ends with, gives back the tools. *)
LEMMA ServesLoopEnds ==
  ASSUME TypeInv, NEW t \in Task, LoopEnds(t), pc[t] \in {"tools", "loop"},
         HasTools(t, runtime[t]), Elsewhere(t), pc'[t] \in {"over", "message", "end_turn"}
  PROVE  Serves(t)
BY DEF LoopEnds, Serves, ServesTools, ServesUpdates, ToolsLeft, UpdatesStay, WithTools,
       Changing

LEMMA PromptBeginsServes ==
  ASSUME TypeInv, NEW t \in Task, NEW s \in Session, PromptBegins(t, s)
  PROVE  Serves(t)
<1>1. CASE Reusable(s, data[s].mode)
  <2>1. /\ Queue(t, table[s]) /\ runtime' = [runtime EXCEPT ![t] = table[s]]
        /\ Goes(t, "tools") /\ UNCHANGED updating
    BY <1>1 DEF PromptBegins
  <2>2. table[s] \in Runtime
    BY <1>1 DEF Reusable, TypeInv, TypeOK, RuntimesTypeOK
  <2>3. Elsewhere(t) /\ pc[t] = "idle" /\ pc'[t] = "tools"
    BY <2>1, ArrivesPlace DEF PromptBegins
  <2> QED BY <2>1, <2>2, <2>3
          DEF Serves, ServesTools, ServesUpdates, ToolsJoined, UpdatesStay, WithTools,
              Changing
<1>2. CASE ~Reusable(s, data[s].mode)
  <2>1. UNCHANGED <<runtime, lock, updating>> /\ Goes(t, "build")
    BY <1>2 DEF PromptBegins
  <2>2. Elsewhere(t) /\ pc[t] = "idle" /\ pc'[t] = "build"
    BY <2>1, ArrivesPlace DEF PromptBegins
  <2> QED BY <2>1, <2>2, ServesNone DEF WithTools, Changing
<1> QED BY <1>1, <1>2

LEMMA ChangeArrivesServes ==
  ASSUME TypeInv, NEW t \in Task, NEW op, NEW s \in Session, NEW v,
         ChangeArrives(t, op, s, v)
  PROVE  Serves(t)
<1>1. /\ Elsewhere(t) /\ pc[t] = "idle" /\ pc'[t] = "queued"
      /\ ask'[t] = Asked(op, s, v)
  BY ArrivesPlace DEF ChangeArrives
<1>2. Of(t)' = s
  BY <1>1 DEF Of, Asked
<1> QED BY <1>1, <1>2
        DEF ChangeArrives, runtimeVars, Serves, ServesTools, ServesUpdates, ToolsStay,
            UpdateJoined, WithTools, Changing

LEMMA PromptBuiltServes ==
  ASSUME TypeInv, NEW t \in Task, PromptBuilt(t)
  PROVE  Serves(t)
<1>1. Elsewhere(t) /\ pc'[t] = "tools" /\ pc[t] = "build"
  BY GoesPlace DEF PromptBuilt
<1>2. <<t, 1>> \in Runtime
  BY DEF Runtime
<1> QED BY <1>1, <1>2
        DEF PromptBuilt, Serves, ServesTools, ServesUpdates, ToolsJoined, UpdatesStay,
            WithTools, Changing

LEMMA ToolsGrantedServes ==
  ASSUME TypeInv, NEW t \in Task, ToolsGranted(t)
  PROVE  Serves(t)
<1>1. CASE t \notin cancelled
  <2>1. Goes(t, "loop") /\ UNCHANGED <<ask, runtime, lock, updating>> /\ pc[t] = "tools"
    BY <1>1 DEF ToolsGranted, runtimeVars, turnVars
  <2>2. Elsewhere(t) /\ pc'[t] = "loop"
    BY <2>1, GoesPlace
  <2> QED BY <2>1, <2>2
          DEF Serves, ServesTools, ServesUpdates, ToolsStay, UpdatesStay, WithTools,
              Changing
<1>2. CASE t \in cancelled
  <2>1. LoopEnds(t) /\ Over(t) /\ pc[t] = "tools" /\ HasTools(t, runtime[t])
    BY <1>2 DEF ToolsGranted
  <2> QED BY <2>1, OverPlace, ServesLoopEnds
<1> QED BY <1>1, <1>2

LEMMA LoopEndedServes ==
  ASSUME TypeInv, NEW t \in Task, LoopFails(t) \/ LoopAnswers(t) \/ LoopAnswersNothing(t)
  PROVE  Serves(t)
<1>1. pc[t] = "loop" /\ LoopEnds(t)
  BY DEF LoopFails, LoopAnswers, LoopAnswersNothing
<1>2. HasTools(t, runtime[t])
  BY <1>1 DEF TypeInv, Handlers, ToolsHeld
<1>3. Elsewhere(t) /\ pc'[t] \in {"over", "message", "end_turn"}
  <2>1. CASE LoopFails(t)
    BY <2>1, OverPlace DEF LoopFails
  <2>2. CASE LoopAnswers(t)
    BY <2>2, GoesPlace DEF LoopAnswers
  <2>3. CASE LoopAnswersNothing(t)
    BY <2>3, EndsTurnPlace DEF LoopAnswersNothing, Commit
  <2> QED BY <2>1, <2>2, <2>3
<1> QED BY <1>1, <1>2, <1>3, ServesLoopEnds

LEMMA RefreshServes ==
  ASSUME TypeInv, NEW t \in Task,
         \/ \E r \in Runtime : RefreshQueues(t, r)
         \/ RefreshStarts(t) \/ RefreshLists(t)
  PROVE  Serves(t)
<1>1. ASSUME NEW r \in Runtime, RefreshQueues(t, r)
      PROVE  Serves(t)
  <2>1. Elsewhere(t) /\ pc'[t] = "wait" /\ pc[t] = "walk"
    BY <1>1, GoesPlace DEF RefreshQueues
  <2> QED BY <1>1, <2>1
          DEF RefreshQueues, Serves, ServesTools, ServesUpdates, ToolsJoined, UpdatesStay,
              WithTools, Changing
<1>2. CASE RefreshStarts(t)
  <2>1. Elsewhere(t) /\ pc'[t] = "list" /\ pc[t] = "wait"
    BY <1>2, GoesPlace DEF RefreshStarts
  <2> QED BY <1>2, <2>1
          DEF RefreshStarts, turnVars, Serves, ServesTools, ServesUpdates, ToolsStay,
              UpdatesStay, WithTools, Changing
<1>3. CASE RefreshLists(t)
  <2>1. HasTools(t, runtime[t]) /\ pc[t] = "list"
    BY <1>3 DEF RefreshLists, TypeInv, Handlers, ToolsHeld
  <2>2. Elsewhere(t) /\ pc'[t] \in {"walk", "over"}
    BY <1>3, GoesPlace, OverPlace DEF RefreshLists
  <2> QED BY <1>3, <2>1, <2>2
          DEF RefreshLists, Serves, ServesTools, ServesUpdates, ToolsLeft, UpdatesStay,
              WithTools, Changing
<1> QED BY <1>1, <1>2, <1>3

LEMMA ChangeServes ==
  ASSUME TypeInv, NEW t \in Task,
         \/ ChangeRefused(t) \/ ModelChanges(t) \/ ModeChangeStarts(t)
         \/ ModeSwapped(t) \/ ModeSwapFails(t) \/ ModeNoted(t) \/ OptionSent(t)
         \/ RollbackRefused(t) \/ ModelRollsBack(t) \/ ModeRollsBack(t)
         \/ ModeUndone(t) \/ ModeUndoFails(t)
  PROVE  Serves(t)
<1>1. pc[t] \in Changing /\ MayUpdate(t)
  BY DEF ChangeRefused, ModelChanges, ModeChangeStarts, ModeSwapped, ModeSwapFails,
         ModeNoted, OptionSent, RollbackRefused, ModelRollsBack, ModeRollsBack,
         ModeUndone, ModeUndoFails, Changing, TypeInv, Handlers, UpdateHeld
<1>2. UNCHANGED <<runtime, lock>>
  BY DEF ChangeRefused, ModelChanges, ModeChangeStarts, ModeSwapped, ModeSwapFails,
         ModeNoted, OptionSent, RollbackRefused, ModelRollsBack, ModeRollsBack,
         ModeUndone, ModeUndoFails, runtimeVars, turnVars
<1>3. \/ Finish(t)
      \/ /\ UNCHANGED <<ask, updating>>
         /\ \E stage \in Changing : Goes(t, stage)
  BY DEF ChangeRefused, ModelChanges, ModeChangeStarts, ModeSwapped, ModeSwapFails,
         ModeNoted, OptionSent, RollbackRefused, ModelRollsBack, ModeRollsBack,
         ModeUndone, ModeUndoFails, turnVars, Changing
<1> QED BY <1>1, <1>2, <1>3, ServesFinish, ServesChange

(* Requests that have nothing to do with the locks as they stand. *)
LEMMA AnsweredServes ==
  ASSUME TypeInv, NEW t \in Task,
         \/ PromptUnreadable(t) \/ RefreshArrives(t)
         \/ \E s : PromptRefused(t, s) \/ LoadSession(t, s)
         \/ PromptBuildFails(t) \/ MessageSent(t) \/ MessageFails(t) \/ RefreshDone(t)
  PROVE  Serves(t)
<1>1. UNCHANGED <<runtime, lock, updating>>
  BY DEF PromptUnreadable, RefreshArrives, PromptRefused, LoadSession, PromptBuildFails,
         MessageSent, MessageFails, RefreshDone, runtimeVars, turnVars
<1>2. pc[t] \in {"idle", "build", "message", "walk"}
  BY DEF PromptUnreadable, RefreshArrives, PromptRefused, LoadSession, IsNext, Arrives,
         PromptBuildFails, MessageSent, MessageFails, RefreshDone
<1>3. Elsewhere(t) /\ pc'[t] \in {"over", "walk", "loaded", "end_turn"}
  <2>1. CASE RefreshArrives(t)
    BY <2>1, ArrivesPlace DEF RefreshArrives
  <2>2. CASE \E s : LoadSession(t, s)
    BY <2>2, LoadPlace
  <2>3. CASE MessageSent(t)
    BY <2>3, EndsTurnPlace DEF MessageSent, Commit
  <2>4. CASE \/ PromptUnreadable(t) \/ \E s : PromptRefused(t, s)
             \/ PromptBuildFails(t) \/ MessageFails(t) \/ RefreshDone(t)
    BY <2>4, OverPlace
       DEF PromptUnreadable, PromptRefused, PromptBuildFails, MessageFails, RefreshDone
  <2> QED BY <2>1, <2>2, <2>3, <2>4
<1> QED BY <1>1, <1>2, <1>3, ServesNone DEF WithTools, Changing

LEMMA ProceedsServes ==
  ASSUME TypeInv, NEW t \in Task, Proceeds(t)
  PROVE  Serves(t)
BY PromptBuiltServes, ToolsGrantedServes, LoopEndedServes, RefreshServes, ChangeServes,
   AnsweredServes DEF Proceeds

LEMMA InitLocks == Init => LocksServed
BY DEF Init, RuntimesInit, LocksServed, QueueOf, AtTools, AtUpdate

LEMMA StepLocks == TypeInv /\ LocksServed /\ [Next]_vars => LocksServed'
<1> SUFFICES ASSUME TypeInv, LocksServed, [Next]_vars PROVE LocksServed'
  OBVIOUS
<1>1. ASSUME UNCHANGED <<pc, ask, runtime, lock, updating>>
      PROVE  LocksServed'
  BY <1>1 DEF LocksServed, QueueOf, AtTools, AtUpdate, Of
<1>2. CASE UNCHANGED vars
  BY <1>1, <1>2 DEF vars, runtimeVars, turnVars
<1>3. CASE Client
  <2>1. ASSUME NEW s \in Session, OpenSession(s) \/ \E u \in Session : ForkSession(s, u)
        PROVE  LocksServed'
    BY <1>1, <2>1 DEF OpenSession, ForkSession, runtimeVars, turnVars
  <2>2. ASSUME NEW s \in issued, CancelSession(s) \/ CloseSession(s)
        PROVE  LocksServed'
    BY <1>1, <2>2 DEF CancelSession, CloseSession, Close, Remove, runtimeVars
  <2>3. ASSUME NEW t \in Task, NEW s \in issued, PromptRefused(t, s) \/ LoadSession(t, s)
        PROVE  LocksServed'
    BY <2>3, AnsweredServes, ServesKeeps
  <2>4. ASSUME NEW t \in Task, NEW s \in issued, NEW v,
               \/ PromptBegins(t, s)
               \/ ChangeArrives(t, "mode", s, v) \/ ChangeArrives(t, "model", s, v)
        PROVE  LocksServed'
    <3>1. s \in Session
      BY DEF TypeInv, TypeOK, StoreTypeOK
    <3> QED BY <2>4, <3>1, PromptBeginsServes, ChangeArrivesServes, ServesKeeps
  <2>5. ASSUME NEW t \in Task, RefreshArrives(t) \/ PromptUnreadable(t)
        PROVE  LocksServed'
    BY <2>5, AnsweredServes, ServesKeeps
  <2> QED BY <1>3, <2>1, <2>2, <2>3, <2>4, <2>5 DEF Client
<1>4. ASSUME NEW t \in Task, Proceeds(t)
      PROVE  LocksServed'
  BY <1>4, ProceedsServes, ServesKeeps
<1> QED BY <1>2, <1>3, <1>4 DEF Next

(* Every lock of the harness is held and awaited by exactly the handlers   *)
(* at a stage that needs it, each once: no build, loop, notification or    *)
(* refresh that fails leaves a lock behind, for any number of requests.    *)
THEOREM LocksAreServed == Spec => []LocksServed
BY InitLocks, StepLocks, TypeInvariant, PTL DEF Spec

(* A handler that has been granted what it asked for, and one that holds   *)
(* up t: itself, or the holder of the lock t waits for.                    *)
MayGoOn(u) ==
  /\ pc[u] \notin {"idle"} \cup Finished
  /\ pc[u] \in WithTools => HasTools(u, runtime[u])
  /\ pc[u] \in Changing => MayUpdate(u)

HoldsUp(u, t) ==
  \/ u = t
  \/ pc[t] \in {"tools", "wait"} /\ HasTools(u, runtime[t])
  \/ pc[t] = "queued" /\ Head(updating[Of(t)]) = u

(* Whatever a request waits for, the one it waits for waits for nobody.    *)
NobodyStuck ==
  \A t \in Task :
    pc[t] \notin {"idle"} \cup Finished =>
      \E u \in Task : HoldsUp(u, t) /\ MayGoOn(u)

LEMMA FirstOf ==
  ASSUME NEW q \in Seq(Task), NEW P, QueueOf(q, P), NEW t \in P
  PROVE  q # << >> /\ Head(q) \in P
<1>1. DOMAIN q = 1 .. Len(q) /\ Len(q) \in Nat
  BY LenProperties
<1>2. PICK i \in 1 .. Len(q) : q[i] = t
  BY <1>1 DEF QueueOf
<1>3. q # << >> /\ 1 \in 1 .. Len(q)
  BY <1>1, <1>2
<1> QED BY <1>1, <1>3 DEF QueueOf

LEMMA ServedGoOn == TypeInv /\ LocksServed => NobodyStuck
<1> SUFFICES ASSUME TypeInv, LocksServed, NEW t \in Task,
                    pc[t] \notin {"idle"} \cup Finished
             PROVE  \E u \in Task : HoldsUp(u, t) /\ MayGoOn(u)
  BY DEF NobodyStuck
<1>1. CASE pc[t] \in WithTools
  <2>1. lock[runtime[t]] \in Seq(Task) /\ runtime[t] \in Runtime
    BY <1>1 DEF TypeInv, TypeOK, RuntimesTypeOK, Handlers, ToolsHeld, WithTools
  <2>2. QueueOf(lock[runtime[t]], AtTools(runtime[t])) /\ t \in AtTools(runtime[t])
    BY <1>1, <2>1 DEF LocksServed, AtTools, WithTools
  <2>3. PICK u \in AtTools(runtime[t]) : HasTools(u, runtime[t])
    BY <2>1, <2>2, FirstOf DEF HasTools
  <2>4. u \in Task /\ pc[u] \in WithTools /\ runtime[u] = runtime[t]
    BY DEF AtTools, WithTools
  <2>5. MayGoOn(u)
    BY <2>3, <2>4 DEF MayGoOn, WithTools, Changing, Finished
  <2>6. HoldsUp(u, t)
    <3>1. CASE pc[t] \in {"tools", "wait"}
      BY <2>3, <3>1 DEF HoldsUp
    <3>2. CASE pc[t] \in {"loop", "list"}
      BY <2>3, <3>2 DEF HoldsUp, TypeInv, Handlers, ToolsHeld, HasTools
    <3> QED BY <1>1, <3>1, <3>2 DEF WithTools
  <2> QED BY <2>4, <2>5, <2>6
<1>2. CASE pc[t] \in Changing
  <2>1. updating[Of(t)] \in Seq(Task) /\ Of(t) \in Session
    BY <1>2, OfTypes DEF TypeInv, TypeOK
  <2>2. QueueOf(updating[Of(t)], AtUpdate(Of(t))) /\ t \in AtUpdate(Of(t))
    BY <1>2, <2>1 DEF LocksServed, AtUpdate, Changing
  <2>3. PICK u \in AtUpdate(Of(t)) : Head(updating[Of(t)]) = u
    BY <2>1, <2>2, FirstOf
  <2>4. u \in Task /\ pc[u] \in Changing /\ Of(u) = Of(t)
    BY DEF AtUpdate, Changing
  <2>5. MayGoOn(u)
    BY <2>3, <2>4 DEF MayGoOn, MayUpdate, WithTools, Changing, Finished
  <2>6. HoldsUp(u, t)
    <3>1. CASE pc[t] = "queued"
      BY <2>3, <3>1 DEF HoldsUp
    <3>2. CASE pc[t] # "queued"
      BY <1>2, <2>3, <3>2 DEF HoldsUp, TypeInv, Handlers, UpdateHeld, MayUpdate
    <3> QED BY <3>1, <3>2
  <2> QED BY <2>4, <2>5, <2>6
<1>3. CASE pc[t] \notin WithTools \cup Changing
  BY <1>3 DEF HoldsUp, MayGoOn
<1> QED BY <1>1, <1>2, <1>3

(* No two requests wait for each other: whoever is waited for, at the head *)
(* of its queue, waits for no lock itself.  This is what is safe about     *)
(* RequestsEnd, whatever number of requests queue.                         *)
THEOREM NobodyIsStuck == Spec => []NobodyStuck
BY ServedGoOn, TypeInvariant, LocksAreServed, PTL

-----------------------------------------------------------------------------
(* The length of a request: the stages it may still go through, and the    *)
(* runtimes a refresh has yet to visit.                                    *)

StagesLeft(stage) ==
  CASE stage \in {"idle"} \cup Finished -> 0
    [] stage = "walk" -> 1
    [] stage \in {"message", "undo", "list"} -> 2
    [] stage \in {"loop", "option", "wait"} -> 3
    [] stage \in {"tools", "note"} -> 4
    [] stage \in {"build", "swap"} -> 5
    [] stage = "queued" -> 6

Nearer(t) ==
  \/ todo'[t] \subseteq todo[t] /\ todo'[t] # todo[t]
  \/ todo'[t] = todo[t] /\ StagesLeft(pc'[t]) < StagesLeft(pc[t])

(* Each step brings the request it is of nearer to its answer, and none    *)
(* takes another further from it, or wakes one that is over.               *)
RequestsNear ==
  [][\A t \in Task :
       /\ Proceeds(t) => Nearer(t)
       /\ pc[t] # "idle" => Nearer(t) \/ (pc'[t] = pc[t] /\ todo'[t] = todo[t])]_vars

LEMMA StagesOrder ==
  /\ \A x \in Stage : StagesLeft(x) \in Nat
  /\ \A x \in Finished : StagesLeft(x) = 0
  /\ StagesLeft("walk") = 1 /\ StagesLeft("list") = 2 /\ StagesLeft("wait") = 3
  /\ StagesLeft("message") = 2 /\ StagesLeft("loop") = 3 /\ StagesLeft("tools") = 4
  /\ StagesLeft("build") = 5
  /\ StagesLeft("undo") = 2 /\ StagesLeft("option") = 3 /\ StagesLeft("note") = 4
  /\ StagesLeft("swap") = 5 /\ StagesLeft("queued") = 6
BY DEF StagesLeft, Stage, Finished

LEMMA NearerByStage ==
  ASSUME NEW t \in Task, UNCHANGED todo, StagesLeft(pc'[t]) < StagesLeft(pc[t])
  PROVE  Nearer(t)
BY DEF Nearer

LEMMA OverNearer ==
  ASSUME TypeInv, NEW t \in Task, Over(t), UNCHANGED todo,
         pc[t] \notin {"idle"} \cup Finished
  PROVE  Nearer(t)
<1>1. pc'[t] = "over" /\ pc[t] \in Stage
  BY OverPlace DEF TypeInv, TypeOK
<1> QED BY <1>1, NearerByStage, StagesOrder DEF Stage, Finished

LEMMA PromptNearer ==
  ASSUME TypeInv, NEW t \in Task,
         \/ PromptBuilt(t) \/ ToolsGranted(t) \/ LoopAnswers(t)
         \/ LoopAnswersNothing(t) \/ MessageSent(t)
  PROVE  Nearer(t) /\ UNCHANGED todo
<1>1. UNCHANGED todo
  BY DEF PromptBuilt, ToolsGranted, LoopAnswers, LoopAnswersNothing, MessageSent,
         LoopEnds, turnVars
<1>2. CASE PromptBuilt(t)
  <2>1. pc[t] = "build" /\ pc'[t] = "tools"
    BY <1>2, GoesPlace DEF PromptBuilt
  <2> QED BY <1>1, <2>1, NearerByStage, StagesOrder
<1>3. CASE ToolsGranted(t)
  <2>1. pc[t] = "tools" /\ pc'[t] \in {"loop", "over"}
    BY <1>3, GoesPlace, OverPlace DEF ToolsGranted
  <2> QED BY <1>1, <2>1, NearerByStage, StagesOrder DEF Finished
<1>4. CASE LoopAnswers(t)
  <2>1. pc[t] = "loop" /\ pc'[t] = "message"
    BY <1>4, GoesPlace DEF LoopAnswers
  <2> QED BY <1>1, <2>1, NearerByStage, StagesOrder
<1>5. CASE LoopAnswersNothing(t) \/ MessageSent(t)
  <2>1. pc[t] \in {"loop", "message"} /\ pc'[t] \in {"end_turn", "over"}
    BY <1>5, EndsTurnPlace DEF LoopAnswersNothing, MessageSent, Commit
  <2> QED BY <1>1, <2>1, NearerByStage, StagesOrder DEF Finished
<1> QED BY <1>1, <1>2, <1>3, <1>4, <1>5

LEMMA ChangeNearer ==
  ASSUME TypeInv, NEW t \in Task,
         \/ ModelChanges(t) \/ ModeChangeStarts(t) \/ ModeSwapped(t)
         \/ ModeNoted(t) \/ ModeRollsBack(t)
  PROVE  Nearer(t) /\ UNCHANGED todo
<1>1. UNCHANGED todo
  BY DEF ModelChanges, ModeChangeStarts, ModeSwapped, ModeNoted, ModeRollsBack, turnVars
<1>2. CASE ModelChanges(t) \/ ModeChangeStarts(t)
  <2>1. pc[t] = "queued" /\ pc'[t] \in {"option", "swap"}
    BY <1>2, GoesPlace DEF ModelChanges, ModeChangeStarts
  <2> QED BY <1>1, <2>1, NearerByStage, StagesOrder
<1>3. CASE ModeSwapped(t)
  <2>1. pc[t] = "swap" /\ pc'[t] \in {"note", "over"}
    BY <1>3, GoesPlace, OverPlace DEF ModeSwapped, Finish
  <2> QED BY <1>1, <2>1, NearerByStage, StagesOrder DEF Finished
<1>4. CASE ModeNoted(t)
  <2>1. pc[t] = "note" /\ pc'[t] = "option"
    BY <1>4, GoesPlace DEF ModeNoted
  <2> QED BY <1>1, <2>1, NearerByStage, StagesOrder
<1>5. CASE ModeRollsBack(t)
  <2>1. pc[t] \in {"note", "option"} /\ pc'[t] = "undo"
    BY <1>5, GoesPlace DEF ModeRollsBack
  <2> QED BY <1>1, <2>1, NearerByStage, StagesOrder
<1> QED BY <1>1, <1>2, <1>3, <1>4, <1>5

LEMMA EndedNearer ==
  ASSUME TypeInv, NEW t \in Task,
         \/ PromptBuildFails(t) \/ LoopFails(t) \/ MessageFails(t)
         \/ ChangeRefused(t) \/ ModeSwapFails(t) \/ OptionSent(t)
         \/ RollbackRefused(t) \/ ModelRollsBack(t) \/ ModeUndone(t)
         \/ ModeUndoFails(t) \/ RefreshDone(t)
  PROVE  Nearer(t) /\ UNCHANGED todo
<1>1. UNCHANGED todo
  BY DEF PromptBuildFails, LoopFails, LoopEnds, MessageFails, ChangeRefused,
         ModeSwapFails, OptionSent, RollbackRefused, ModelRollsBack, ModeUndone,
         ModeUndoFails, RefreshDone, turnVars
<1>2. Over(t) /\ pc[t] \notin {"idle"} \cup Finished
  BY DEF PromptBuildFails, LoopFails, MessageFails, ChangeRefused, ModeSwapFails,
         OptionSent, RollbackRefused, ModelRollsBack, ModeUndone, ModeUndoFails,
         RefreshDone, Finish, Finished
<1> QED BY <1>1, <1>2, OverNearer

LEMMA RefreshNearer ==
  ASSUME TypeInv, NEW t \in Task,
         \/ \E r \in Runtime : RefreshQueues(t, r)
         \/ RefreshStarts(t) \/ RefreshLists(t)
  PROVE  Nearer(t) /\ \A u \in Task \ {t} : todo'[u] = todo[u]
<1>1. todo \in [Task -> SUBSET Runtime]
  BY DEF TypeInv, TypeOK
<1>2. ASSUME NEW r \in Runtime, RefreshQueues(t, r)
      PROVE  Nearer(t) /\ \A u \in Task \ {t} : todo'[u] = todo[u]
  <2>1. r \in todo[t] /\ todo' = [todo EXCEPT ![t] = todo[t] \ {r}]
    BY <1>1, <1>2 DEF RefreshQueues
  <2>2. todo'[t] = todo[t] \ {r}
    BY <1>1, <2>1
  <2> QED BY <1>1, <2>1, <2>2 DEF Nearer
<1>3. CASE RefreshStarts(t)
  <2>1. UNCHANGED todo /\ pc[t] = "wait" /\ pc'[t] = "list"
    BY <1>3, GoesPlace DEF RefreshStarts, turnVars
  <2> QED BY <2>1, NearerByStage, StagesOrder
<1>4. CASE RefreshLists(t)
  <2>1. pc[t] = "list" /\ pc'[t] \in {"walk", "over"}
    BY <1>4, GoesPlace, OverPlace DEF RefreshLists
  <2>2. StagesLeft(pc'[t]) < StagesLeft(pc[t])
    BY <2>1, StagesOrder DEF Finished
  <2>3. UNCHANGED todo \/ todo' = [todo EXCEPT ![t] = {}]
    BY <1>4 DEF RefreshLists
  <2>4. todo'[t] = todo[t] \/ todo'[t] = {}
    BY <1>1, <2>3
  <2> QED BY <1>1, <2>2, <2>3, <2>4 DEF Nearer
<1> QED BY <1>2, <1>3, <1>4

LEMMA ProceedsNearer ==
  ASSUME TypeInv, NEW t \in Task, Proceeds(t)
  PROVE  Nearer(t) /\ \A u \in Task \ {t} : pc'[u] = pc[u] /\ todo'[u] = todo[u]
<1>1. Nearer(t) /\ \A u \in Task \ {t} : todo'[u] = todo[u]
  BY PromptNearer, ChangeNearer, EndedNearer, RefreshNearer DEF Proceeds
<1>2. Elsewhere(t)
  BY ProceedsServes DEF Serves
<1> QED BY <1>1, <1>2 DEF Elsewhere

(* A request that arrives is of a handler that had none. *)
LEMMA ClientNear ==
  ASSUME TypeInv, Client, NEW u \in Task, pc[u] # "idle"
  PROVE  pc'[u] = pc[u] /\ todo'[u] = todo[u]
<1>1. ASSUME NEW s \in Session, OpenSession(s) \/ \E v \in Session : ForkSession(s, v)
      PROVE  UNCHANGED <<pc, todo>>
  BY <1>1 DEF OpenSession, ForkSession, turnVars
<1>2. ASSUME NEW s \in issued, CancelSession(s) \/ CloseSession(s)
      PROVE  UNCHANGED <<pc, todo>>
  BY <1>2 DEF CancelSession, CloseSession
<1>3. ASSUME NEW t \in Task, NEW s,
             \/ PromptUnreadable(t) \/ PromptRefused(t, s) \/ LoadSession(t, s)
      PROVE  pc'[u] = pc[u] /\ todo'[u] = todo[u]
  <2>1. UNCHANGED todo /\ pc[t] = "idle"
    BY <1>3 DEF PromptUnreadable, PromptRefused, LoadSession, IsNext, turnVars
  <2>2. Elsewhere(t)
    BY <1>3, OverPlace, LoadPlace DEF PromptUnreadable, PromptRefused
  <2> QED BY <2>1, <2>2 DEF Elsewhere
<1>4. ASSUME NEW t \in Task, NEW s, NEW v,
             \/ RefreshArrives(t) \/ PromptBegins(t, s)
             \/ ChangeArrives(t, "mode", s, v) \/ ChangeArrives(t, "model", s, v)
      PROVE  pc'[u] = pc[u] /\ todo'[u] = todo[u]
  <2>1. \E stage, q : Goes(t, stage) /\ Arrives(t, q)
    BY <1>4 DEF RefreshArrives, PromptBegins, ChangeArrives
  <2>2. Elsewhere(t) /\ pc[t] = "idle"
    BY <2>1, ArrivesPlace
  <2>3. UNCHANGED todo \/ \E x : todo' = [todo EXCEPT ![t] = x]
    BY <1>4 DEF RefreshArrives, PromptBegins, ChangeArrives
  <2> QED BY <2>2, <2>3 DEF Elsewhere, TypeInv, TypeOK
<1> QED BY <1>1, <1>2, <1>3, <1>4 DEF Client

LEMMA StepNears ==
  ASSUME TypeInv, Next, NEW t \in Task
  PROVE  /\ Proceeds(t) => Nearer(t)
         /\ pc[t] # "idle" => Nearer(t) \/ (pc'[t] = pc[t] /\ todo'[t] = todo[t])
<1>1. Proceeds(t) => Nearer(t)
  BY ProceedsNearer
<1>2. ASSUME pc[t] # "idle"
      PROVE  Nearer(t) \/ (pc'[t] = pc[t] /\ todo'[t] = todo[t])
  <2>1. CASE Client
    BY <1>2, <2>1, ClientNear
  <2>2. ASSUME NEW u \in Task, Proceeds(u)
        PROVE  Nearer(t) \/ (pc'[t] = pc[t] /\ todo'[t] = todo[t])
    BY <2>2, ProceedsNearer
  <2> QED BY <2>1, <2>2 DEF Next
<1> QED BY <1>1, <1>2

(* A request takes a bounded number of steps: each one brings it nearer to *)
(* its answer, and nothing that others do puts it back.  With NobodyStuck  *)
(* it is why every request ends when handlers go on while they may.        *)
THEOREM RequestsAreBounded == Spec => RequestsNear
<1>1. TypeInv /\ [Next]_vars =>
        [\A t \in Task :
           /\ Proceeds(t) => Nearer(t)
           /\ pc[t] # "idle" =>
                Nearer(t) \/ (pc'[t] = pc[t] /\ todo'[t] = todo[t])]_vars
  BY StepNears
<1> QED BY <1>1, TypeInvariant, PTL DEF Spec, RequestsNear

================================================================================
