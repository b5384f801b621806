---------------------------- MODULE TransportProofs ----------------------------
(***************************************************************************)
(* What holds of the transport for any number of connections, requests and *)
(* messages and any buffer size: the streams get the newest messages in    *)
(* order, hold the one lease and never sleep over a message, and a         *)
(* frontend is always attended to.                                         *)
(*                                                                         *)
(* The buffer is proved about on its own: BufferStep collects what the     *)
(* handlers and the pump do to it, and StepsOnBuffer says they do no more. *)
(*                                                                         *)
(* So is the pipe to the host, in the last part: each place at a writer's  *)
(* lock belongs to one waiting request (Places), only the one at the head  *)
(* has written anything (Parts), and a line consists of what clients that  *)
(* went away have left and of what that one has written (Lines).           *)
(***************************************************************************)
EXTENDS HttpTransport, SequenceTheorems, TLAPS

Types ==
  /\ BufferTypeOK
  /\ table \in [Conn -> BOOLEAN]
  /\ writer \in [Conn -> BOOLEAN]
  /\ pump \in [Conn -> {"none", "reading", "done"}]
  /\ shut \in [Conn -> BOOLEAN]
  /\ mailbox \in Seq(FrontendRequest)
  /\ registered \in [Conn -> BOOLEAN]
  /\ upstream \in [Conn -> {"none", "up", "down"}]
  /\ req \in [Req -> Request]

(* A request knows its connection once it has arrived, and is at the       *)
(* stream exactly while its stream lives.                                  *)
Requests ==
  \A r \in Req :
    /\ req[r].pc # "new" => req[r].conn \in Conn
    /\ req[r].pc \in {"ask", "reply"} => req[r].op = "create"
    /\ req[r].pc = "stream" => req[r].op = "get"
    /\ req[r].pc = "body" => req[r].op = "post"
    /\ req[r].pc = "new" => req[r].op = "none"
    /\ req[r].status # "none" => req[r].pc = "over"
    /\ req[r].pc = "stream" <=> Live(r)

(* A connection's pump starts with it, and its buffer closes with the pump *)
(* and only then; no two creates are for the same connection.              *)
Pumps ==
  /\ \A c \in Conn : closed[c] => pump[c] = "done"
  /\ \A c \in Conn : table[c] => pump[c] # "none"
  /\ \A c \in Conn : pump[c] # "none" =>
       \E r \in Req : req[r].op = "create" /\ req[r].conn = c
  /\ \A r \in Req : req[r].op = "delete" /\ req[r].pc = "lock"
       => pump[req[r].conn] # "none"
  /\ \A r \in Req : req[r].pc \in {"ask", "reply"}
       => pump[req[r].conn] = "none"
  /\ \A q, r \in Req : req[q].op = "create" /\ req[r].op = "create"
                         /\ req[q].conn = req[r].conn => q = r

(* A buffer holds the newest messages, in order and without a gap. *)
NewestKept ==
  \A c \in Conn :
    /\ Len(queue[c]) <= Room
    /\ Len(queue[c]) <= pumped[c]
    /\ \A i \in 1 .. Len(queue[c]) : queue[c][i] = pumped[c] - Len(queue[c]) + i

IInv == /\ Types /\ Requests /\ Pumps
        /\ NewestKept /\ LeaseOwned /\ NoStreamSleeps /\ FrontendAttended

-----------------------------------------------------------------------------

LEMMA InitIInv == Init => IInv
<1> SUFFICES ASSUME Init PROVE IInv
  OBVIOUS
<1>1. Types
  <2>1. BufferTypeOK
    BY DEF Init, BufferInit, BufferTypeOK
  <2>2. Standing("new", "none", Nil, "none") \in Request
    BY DEF Standing, Request
  <2> QED BY <2>1, <2>2 DEF Types, Init
<1>2. Requests
  BY DEF Requests, Init, BufferInit, Live, Standing
<1>3. Pumps
  BY DEF Pumps, Init, BufferInit, Standing
<1>4. NewestKept
  <2>1. \A c \in Conn : queue[c] = << >> /\ pumped[c] = 0
    BY DEF Init, BufferInit
  <2>2. Len(<< >>) = 0 /\ 0 <= Room
    BY BufferAssumption DEF Room
  <2>3. ASSUME NEW c \in Conn
        PROVE  /\ Len(queue[c]) <= Room
               /\ Len(queue[c]) <= pumped[c]
               /\ \A i \in 1 .. Len(queue[c]) :
                    queue[c][i] = pumped[c] - Len(queue[c]) + i
    <3>1. Len(queue[c]) = 0 /\ pumped[c] = 0
      BY <2>1, <2>2
    <3>2. 1 .. Len(queue[c]) = {}
      BY <3>1
    <3> QED BY <2>2, <3>1, <3>2
  <2> QED BY <2>3 DEF NewestKept
<1>5. LeaseOwned /\ NoStreamSleeps
  BY DEF LeaseOwned, NoStreamSleeps, Init, BufferInit, Live
<1>6. FrontendAttended
  BY DEF FrontendAttended, Init
<1> QED BY <1>1, <1>2, <1>3, <1>4, <1>5, <1>6 DEF IInv

(* What may happen to the buffers. *)
BufferStep ==
  \/ UNCHANGED bufferVars
  \/ \E c \in Conn : ~closed[c] /\ Push(c)
  \/ \E c \in Conn : CloseBuffer(c)
  \/ \E r \in Req, c \in Conn : ~Live(r) /\ ClaimStream(r, c)
  \/ \E r \in Req : NextMessage(r)
  \/ \E r \in Req : Live(r) /\ ReleaseStream(r)

LEMMA StepsOnBuffer ==
  ASSUME Types, Requests, Pumps, [Next]_vars
  PROVE  BufferStep
<1>1. CASE UNCHANGED vars
  BY <1>1 DEF vars, BufferStep
<1>2. ASSUME NEW r \in Req, Arrival(r)
      PROVE  BufferStep
  <2>1. ASSUME NEW c \in Conn, StreamArrives(r, c)
        PROVE  BufferStep
    <3>1. ~Live(r)
      BY <2>1 DEF StreamArrives, Arrive, IsNext, Requests
    <3> QED BY <2>1, <3>1 DEF StreamArrives, BufferStep
  <2> QED
    BY <1>2, <2>1 DEF Arrival, BufferStep, CreateArrives, PostArrives,
         StreamRefused, DeleteArrives, UnknownConnection
<1>3. ASSUME NEW r \in Req, HandlerStep(r)
      PROVE  BufferStep
  <2>1. CASE StreamPolls(r)
    BY <2>1 DEF StreamPolls, BufferStep
  <2>2. CASE DeleteCloses(r)
    <3>1. req[r].conn \in Conn
      BY <2>2 DEF DeleteCloses, HoldsWriter, Requests
    <3> QED BY <2>2, <3>1 DEF DeleteCloses, BufferStep
  <2>3. CASE Cancel(r)
    BY <2>3 DEF Cancel, BufferStep, Requests
  <2> QED
    BY <1>3, <2>1, <2>2, <2>3 DEF HandlerStep, BufferStep, CreateReplied,
         PostRefused, PostQueues, PostWrites, PostEndsLine, PostFails
<1>4. ASSUME NEW c \in Conn, ConnStep(c)
      PROVE  BufferStep
  <2>1. CASE PumpReads(c)
    BY <2>1 DEF PumpReads, Pumps, BufferStep
  <2>2. CASE PumpSeesEof(c) \/ PumpGivesUp(c)
    BY <2>2 DEF PumpSeesEof, PumpGivesUp, PumpStops, BufferStep
  <2> QED BY <1>4, <2>1, <2>2 DEF ConnStep, HostEnds, BufferStep
<1>5. CASE HostCreates \/ HostCloses
  BY <1>5 DEF HostCreates, HostCloses, BufferStep
<1> QED BY <1>1, <1>2, <1>3, <1>4, <1>5 DEF Next

LEMMA BufferTypes ==
  ASSUME BufferTypeOK, BufferStep
  PROVE  BufferTypeOK'
<1>1. CASE UNCHANGED bufferVars
  BY <1>1 DEF bufferVars, BufferTypeOK
<1>2. ASSUME NEW c \in Conn, Push(c)
      PROVE  BufferTypeOK'
  <2> DEFINE kept == IF Len(queue[c]) >= MaxBuffered /\ queue[c] # << >>
                     THEN Tail(queue[c]) ELSE queue[c]
  <2>1. kept \in Seq(Nat) /\ pumped[c] + 1 \in Nat
    BY HeadTailProperties DEF BufferTypeOK
  <2>2. Append(kept, pumped[c] + 1) \in Seq(Nat)
    BY <2>1, AppendProperties
  <2>3. queue' \in [Conn -> Seq(Nat)]
    BY <1>2, <2>2 DEF Push, BufferTypeOK
  <2>4. stream' \in [Req -> {"none", "poll", "wait", "ended"}]
    BY <1>2 DEF Push, Woken, BufferTypeOK
  <2>5. pumped' \in [Conn -> Nat]
    BY <1>2, <2>1 DEF Push, BufferTypeOK
  <2>6. UNCHANGED <<streamOpen, closed, reads, seen>>
    BY <1>2 DEF Push
  <2> QED BY <2>3, <2>4, <2>5, <2>6 DEF BufferTypeOK
<1>3. ASSUME NEW c \in Conn, CloseBuffer(c)
      PROVE  BufferTypeOK'
  BY <1>3 DEF CloseBuffer, Woken, BufferTypeOK
<1>4. ASSUME NEW r \in Req, NEW c \in Conn, ClaimStream(r, c)
      PROVE  BufferTypeOK'
  BY <1>4 DEF ClaimStream, BufferTypeOK
<1>5. ASSUME NEW r \in Req, ReleaseStream(r)
      PROVE  BufferTypeOK'
  BY <1>5 DEF ReleaseStream, Woken, BufferTypeOK
<1>6. ASSUME NEW r \in Req, NextMessage(r)
      PROVE  BufferTypeOK'
  <2>1. CASE ReleaseStream(r)
    BY <2>1, <1>5
  <2>2. CASE UNCHANGED <<streamOpen, closed, stream, reads, pumped>>
             /\ queue[reads[r]] # << >>
             /\ queue' = [queue EXCEPT ![reads[r]] = Tail(@)]
             /\ seen' = [seen EXCEPT ![reads[r]] = Head(queue[reads[r]])]
    <3>1. CASE reads[r] \in Conn
      <4>1. Head(queue[reads[r]]) \in Nat /\ Tail(queue[reads[r]]) \in Seq(Nat)
        BY <2>2, <3>1, HeadTailProperties DEF BufferTypeOK
      <4> QED BY <2>2, <4>1 DEF BufferTypeOK
    <3>2. CASE reads[r] \notin Conn
      BY <2>2, <3>2 DEF BufferTypeOK
    <3> QED BY <3>1, <3>2
  <2>3. CASE /\ stream' = [stream EXCEPT ![r] = "wait"]
             /\ UNCHANGED <<queue, streamOpen, closed, reads, pumped, seen>>
    BY <2>3 DEF BufferTypeOK
  <2> QED BY <1>6, <2>1, <2>2, <2>3 DEF NextMessage
<1> QED BY <1>1, <1>2, <1>3, <1>4, <1>5, <1>6 DEF BufferStep

LEMMA Becoming ==
  ASSUME Types, NEW r \in Req, NEW x \in Request, Becomes(r, x)
  PROVE  req' \in [Req -> Request]
BY DEF Types, Becomes

(* What a handler does to its request keeps the type. *)
LEMMA RequestUpdates ==
  ASSUME NEW x \in Request
  PROVE  /\ \A s \in {"none", "created", "accepted", "deleted", "ok", "bad",
                      "unknown", "conflict", "gone", "cancelled"} :
              [x EXCEPT !.pc = "over", !.status = s] \in Request
         /\ [x EXCEPT !.pc = "lock"] \in Request
         /\ [x EXCEPT !.pc = "reply"] \in Request
         /\ \A n \in 0 .. 2 : [x EXCEPT !.part = n] \in Request
<1>1. ASSUME NEW s \in {"none", "created", "accepted", "deleted", "ok", "bad",
                        "unknown", "conflict", "gone", "cancelled"}
      PROVE  [x EXCEPT !.pc = "over", !.status = s] \in Request
  BY DEF Request
<1>2. [x EXCEPT !.pc = "lock"] \in Request
  BY DEF Request
<1>3. [x EXCEPT !.pc = "reply"] \in Request
  BY DEF Request
<1>4. ASSUME NEW n \in 0 .. 2
      PROVE  [x EXCEPT !.part = n] \in Request
  BY DEF Request
<1> QED BY <1>1, <1>2, <1>3, <1>4

LEMMA Answering ==
  ASSUME Types, NEW r \in Req,
         NEW s \in {"created", "accepted", "deleted", "ok", "bad", "unknown",
                   "gone", "cancelled"},
         Answer(r, s)
  PROVE  req' \in [Req -> Request]
<1>1. [req[r] EXCEPT !.pc = "over", !.status = s] \in Request
  <2>1. /\ req[r] \in Request
        /\ s \in {"none", "created", "accepted", "deleted", "ok", "bad",
                  "unknown", "conflict", "gone", "cancelled"}
    BY DEF Types
  <2> QED BY <2>1, RequestUpdates, Zenon
<1> QED BY <1>1, Becoming DEF Answer

LEMMA TypesInductive ==
  ASSUME Types, Requests, Pumps, [Next]_vars
  PROVE  Types'
<1>1. BufferTypeOK'
  BY StepsOnBuffer, BufferTypes DEF Types
<1> DEFINE Rest ==
      /\ table' \in [Conn -> BOOLEAN]
      /\ writer' \in [Conn -> BOOLEAN]
      /\ pump' \in [Conn -> {"none", "reading", "done"}]
      /\ shut' \in [Conn -> BOOLEAN]
      /\ mailbox' \in Seq(FrontendRequest)
      /\ registered' \in [Conn -> BOOLEAN]
      /\ upstream' \in [Conn -> {"none", "up", "down"}]
      /\ req' \in [Req -> Request]
<1>2. ASSUME NEW k, NEW x, [kind |-> k, of |-> x] \in FrontendRequest
      PROVE  Tell(k, x) \in Seq(FrontendRequest)
  BY <1>2, AppendProperties DEF Tell, Types
<1>3. ASSUME NEW c \in Conn, TakeShutdown(c)
      PROVE  shut' \in [Conn -> BOOLEAN] /\ mailbox' \in Seq(FrontendRequest)
  <2>1. [kind |-> "Close", of |-> c] \in FrontendRequest
    BY DEF FrontendRequest
  <2> QED BY <1>2, <1>3, <2>1 DEF TakeShutdown, Types
<1>5. ASSUME UNCHANGED vars
      PROVE  Rest
  <2>1. UNCHANGED <<table, writer, pump, shut, mailbox, registered, upstream, req>>
    BY <1>5 DEF vars, connVars, hostVars
  <2> QED BY <2>1 DEF Types
<1>6. ASSUME NEW r \in Req, Arrival(r)
      PROVE  Rest
  <2>1. ASSUME NEW op \in {"create", "post", "get", "delete"}, NEW c \in Conn,
               NEW pc \in {"ask", "body", "stream", "lock"}, Arrive(r, op, c, pc)
        PROVE  req' \in [Req -> Request]
    <3>1. Standing(pc, op, c, "none") \in Request
      BY DEF Standing, Request
    <3> QED BY <2>1, <3>1, Becoming DEF Arrive
  <2>2. ASSUME NEW c \in Conn, CreateArrives(r, c)
        PROVE  Rest
    <3>1. [kind |-> "Create", of |-> r] \in FrontendRequest
      BY DEF FrontendRequest
    <3> QED BY <1>2, <2>1, <2>2, <3>1 DEF CreateArrives, connVars, Types
  <2>3. ASSUME NEW c \in Conn,
               PostArrives(r, c) \/ StreamArrives(r, c) \/ DeleteArrives(r, c)
        PROVE  Rest
    BY <2>1, <2>3 DEF PostArrives, StreamArrives, DeleteArrives, connVars,
         hostVars, Types
  <2>4. ASSUME NEW c \in Conn, NEW op \in {"post", "get", "delete"},
               StreamRefused(r, c) \/ UnknownConnection(r, op, c)
        PROVE  Rest
    <3>1. ASSUME NEW o \in {"post", "get", "delete"},
                 NEW s \in {"unknown", "conflict", "gone"}
          PROVE  Standing("over", o, c, s) \in Request
      BY DEF Standing, Request
    <3>2. req' \in [Req -> Request]
      BY <2>4, <3>1, Becoming DEF StreamRefused, UnknownConnection, Refuse
    <3> QED BY <2>4, <3>2 DEF StreamRefused, UnknownConnection, connVars,
                 hostVars, Types
  <2> QED BY <1>6, <2>2, <2>3, <2>4 DEF Arrival
<1>7. ASSUME NEW r \in Req, HandlerStep(r)
      PROVE  Rest
  <2>1. CASE CreateReplied(r)
    <3>1. req' \in [Req -> Request]
      BY <2>1, Answering DEF CreateReplied
    <3> QED BY <2>1, <3>1 DEF CreateReplied, hostVars, Types
  <2>2. CASE PostRefused(r) \/ PostFails(r) \/ Cancel(r)
    <3>1. req' \in [Req -> Request]
      BY <2>2, Answering DEF PostRefused, PostFails, Cancel
    <3> QED BY <2>2, <3>1 DEF PostRefused, PostFails, Cancel, connVars,
                 hostVars, Types
  <2>3. CASE PostQueues(r)
    <3>1. [req[r] EXCEPT !.pc = "lock"] \in Request
      <4>1. req[r] \in Request
        BY DEF Types
      <4> QED BY <4>1, RequestUpdates, Zenon
    <3> QED BY <2>3, <3>1, Becoming DEF PostQueues, hostVars, Types
  <2>4. CASE PostWrites(r)
    <3>1. [req[r] EXCEPT !.part = @ + 1] \in Request
      <4>1. req[r] \in Request /\ req[r].part + 1 \in 0 .. 2
        BY <2>4 DEF PostWrites, Types, Request
      <4> QED BY <4>1, RequestUpdates, Zenon
    <3>2. req' \in [Req -> Request]
      BY <2>4, <3>1, Becoming DEF PostWrites
    <3> QED BY <2>4, <3>2 DEF PostWrites, connVars, Types
  <2>5. CASE PostEndsLine(r)
    BY <2>5, Answering DEF PostEndsLine, Types
  <2>6. CASE StreamPolls(r)
    <3>1. req' \in [Req -> Request]
      BY <2>6, Answering DEF StreamPolls, Types
    <3> QED BY <2>6, <3>1 DEF StreamPolls, connVars, hostVars, Types
  <2>7. CASE DeleteCloses(r)
    <3>1. req[r].conn \in Conn
      BY <2>7 DEF DeleteCloses, HoldsWriter, Requests
    <3> QED BY <2>7, <3>1, <1>3, Answering DEF DeleteCloses, Types
  <2> QED BY <1>7, <2>1, <2>2, <2>3, <2>4, <2>5, <2>6, <2>7 DEF HandlerStep
<1>8. ASSUME NEW c \in Conn, ConnStep(c)
      PROVE  Rest
  <2>1. CASE PumpReads(c) \/ HostEnds(c)
    BY <2>1 DEF PumpReads, HostEnds, connVars, hostVars, Types
  <2>2. CASE PumpStops(c)
    BY <2>2, <1>3 DEF PumpStops, Types
  <2> QED BY <1>8, <2>1, <2>2 DEF ConnStep, PumpSeesEof, PumpGivesUp
<1>9. ASSUME HostCreates \/ HostCloses
      PROVE  Rest
  <2>1. mailbox # << >> /\ mailbox' = Tail(mailbox)
    BY <1>9 DEF HostCreates, HostCloses
  <2>2. mailbox' \in Seq(FrontendRequest)
    BY <2>1, HeadTailProperties DEF Types
  <2>3. CASE HostCloses
    <3>1. UNCHANGED <<table, writer, pump, shut, req>>
      BY <2>3 DEF HostCloses, connVars
    <3>2. registered' \in [Conn -> BOOLEAN]
          /\ upstream' \in [Conn -> {"none", "up", "down"}]
      BY <2>3 DEF HostCloses, Types
    <3> QED BY <2>2, <3>1, <3>2 DEF Types
  <2>4. CASE HostCreates
    <3> DEFINE r == Head(mailbox).of
    <3>1. r \in Req
      <4>1. Head(mailbox) \in FrontendRequest
        BY <2>1, HeadTailProperties DEF Types
      <4> QED BY <2>4, <4>1 DEF HostCreates, FrontendRequest
    <3>2. [req[r] EXCEPT !.pc = "reply"] \in Request
      <4>1. req[r] \in Request
        BY <3>1 DEF Types
      <4> QED BY <4>1, RequestUpdates, Zenon
    <3>3. req' \in [Req -> Request]
      BY <2>4, <3>1, <3>2, Becoming DEF HostCreates, Types
    <3>4. UNCHANGED <<table, writer, pump, shut>>
      BY <2>4 DEF HostCreates, connVars
    <3>5. registered' \in [Conn -> BOOLEAN]
          /\ upstream' \in [Conn -> {"none", "up", "down"}]
      BY <2>4 DEF HostCreates, Types
    <3> QED BY <2>2, <3>3, <3>4, <3>5 DEF Types
  <2> QED BY <1>9, <2>3, <2>4
<1>10. Rest
  BY <1>5, <1>6, <1>7, <1>8, <1>9 DEF Next
<1> QED BY <1>1, <1>10 DEF Types

-----------------------------------------------------------------------------
(* Where the requests stand. *)

(* A request not at its stream stays away from it. *)
LEMMA AnswerElsewhere ==
  ASSUME Types, Requests, NEW r \in Req, NEW s, Answer(r, s),
         req[r].pc \notin {"new", "stream"}, UNCHANGED bufferVars
  PROVE  Requests'
BY DEF Types, Requests, Answer, Becomes, Request, bufferVars, Live

(* Only the stream of r changes life in this step, if any does. *)
OthersLive(r) ==
  \A q \in Req \ {r} : Live(q)' <=> Live(q)

LEMMA ReleaseOthers ==
  ASSUME Types, NEW r \in Req, ReleaseStream(r)
  PROVE  OthersLive(r) /\ ~Live(r)'
BY DEF ReleaseStream, Woken, OthersLive, Live, Types, BufferTypeOK

LEMMA WakingKeepsLife ==
  ASSUME Types, NEW c \in Conn, stream' = Woken(c)
  PROVE  \A q \in Req : Live(q)' <=> Live(q)
BY DEF Woken, Live, Types, BufferTypeOK

LEMMA RequestsInductive ==
  ASSUME Types, Requests, Pumps, [Next]_vars
  PROVE  Requests'
<1>1. CASE UNCHANGED vars
  BY <1>1 DEF vars, bufferVars, Requests, Live
<1>2. ASSUME NEW r \in Req, Arrival(r)
      PROVE  Requests'
  <2>1. ASSUME NEW c \in Conn, StreamArrives(r, c)
        PROVE  Requests'
    BY <2>1 DEF StreamArrives, Arrive, Becomes, Standing, ClaimStream, Requests,
         Live, Types, BufferTypeOK
  <2>2. ASSUME NEW c \in Conn, NEW op \in {"post", "get", "delete"},
               \/ CreateArrives(r, c) \/ PostArrives(r, c)
               \/ DeleteArrives(r, c) \/ StreamRefused(r, c)
               \/ UnknownConnection(r, op, c)
        PROVE  Requests'
    <3>1. PICK x \in {"ask", "body", "lock", "over"},
               o \in {"create", "post", "get", "delete"},
               s \in {"none", "unknown", "conflict", "gone"} :
               /\ req' = [req EXCEPT ![r] = Standing(x, o, c, s)]
               /\ x # "over" => s = "none"
               /\ x = "ask" => o = "create"
               /\ x = "body" => o = "post"
      BY <2>2 DEF CreateArrives, PostArrives, DeleteArrives, StreamRefused,
           UnknownConnection, Arrive, Refuse, Becomes
    <3>2. UNCHANGED bufferVars /\ req[r].pc = "new"
      BY <2>2 DEF CreateArrives, PostArrives, DeleteArrives, StreamRefused,
           UnknownConnection, Arrive, Refuse, IsNext
    <3> QED BY <3>1, <3>2 DEF Standing, Requests, Live, bufferVars, Types
  <2> QED BY <1>2, <2>1, <2>2 DEF Arrival
<1>3. ASSUME NEW r \in Req, HandlerStep(r)
      PROVE  Requests'
  <2>1. CASE CreateReplied(r) \/ PostRefused(r) \/ PostEndsLine(r) \/ PostFails(r)
    <3>1. UNCHANGED bufferVars /\ req[r].pc \notin {"new", "stream"}
      BY <2>1 DEF CreateReplied, PostRefused, PostEndsLine, PostFails, HoldsWriter
    <3> QED BY <2>1, <3>1, AnswerElsewhere DEF CreateReplied, PostRefused,
                 PostEndsLine, PostFails
  <2>2. CASE PostQueues(r)
    BY <2>2 DEF PostQueues, Becomes, Requests, Live, bufferVars, Types, Request
  <2>3. CASE PostWrites(r)
    BY <2>3 DEF PostWrites, HoldsWriter, Becomes, Requests, Live, bufferVars,
         Types, Request
  <2>4. CASE StreamPolls(r)
    <3>1. CASE ReleaseStream(r)
      <4>1. stream'[r] = "ended" /\ OthersLive(r) /\ ~Live(r)'
        BY <3>1, ReleaseOthers DEF ReleaseStream, Types, BufferTypeOK, Woken
      <4>2. Answer(r, "ok")
        BY <2>4, <4>1 DEF StreamPolls
      <4>3. req[r].conn \in Conn
        BY <2>4 DEF StreamPolls, NextMessage, Requests, Live
      <4> QED BY <4>1, <4>2, <4>3 DEF Answer, Becomes, Requests, Types,
                   Request, OthersLive
    <3>2. CASE stream' = stream \/ stream' = [stream EXCEPT ![r] = "wait"]
      <4>1. stream[r] = "poll"
        BY <2>4 DEF StreamPolls, NextMessage
      <4>2. stream'[r] # "ended" /\ \A q \in Req : Live(q)' <=> Live(q)
        BY <3>2, <4>1 DEF Live, Types, BufferTypeOK
      <4> QED BY <2>4, <4>2 DEF StreamPolls, Requests
    <3> QED BY <2>4, <3>1, <3>2 DEF StreamPolls, NextMessage
  <2>5. CASE DeleteCloses(r)
    <3>1. req[r].conn \in Conn /\ req[r].pc = "lock"
      BY <2>5 DEF DeleteCloses, HoldsWriter, Requests
    <3>2. \A q \in Req : Live(q)' <=> Live(q)
      BY <2>5, <3>1, WakingKeepsLife DEF DeleteCloses, CloseBuffer
    <3> QED BY <2>5, <3>1, <3>2 DEF DeleteCloses, Answer, Becomes, Requests,
                 Types, Request
  <2>6. CASE Cancel(r)
    <3>1. CASE req[r].pc # "stream"
      BY <2>6, <3>1, AnswerElsewhere DEF Cancel
    <3>2. CASE req[r].pc = "stream"
      <4>1. OthersLive(r) /\ ~Live(r)'
        BY <2>6, <3>2, ReleaseOthers DEF Cancel
      <4> QED BY <2>6, <3>2, <4>1 DEF Cancel, Answer, Becomes, Requests, Types,
                   Request, OthersLive
    <3> QED BY <3>1, <3>2
  <2> QED BY <1>3, <2>1, <2>2, <2>3, <2>4, <2>5, <2>6 DEF HandlerStep
<1>4. ASSUME NEW c \in Conn, ConnStep(c)
      PROVE  Requests'
  <2>1. UNCHANGED req
    BY <1>4 DEF ConnStep, PumpReads, PumpSeesEof, PumpGivesUp, PumpStops, HostEnds
  <2>2. \A q \in Req : Live(q)' <=> Live(q)
    <3>1. stream' = stream \/ stream' = Woken(c)
      BY <1>4 DEF ConnStep, PumpReads, PumpSeesEof, PumpGivesUp, PumpStops,
           HostEnds, Push, CloseBuffer, bufferVars
    <3> QED BY <3>1, WakingKeepsLife DEF Live
  <2> QED BY <2>1, <2>2 DEF Requests
<1>5. CASE HostCloses
  BY <1>5 DEF HostCloses, bufferVars, Requests, Live
<1>6. CASE HostCreates
  <2>1. UNCHANGED stream
    BY <1>6 DEF HostCreates, bufferVars
  <2>2. CASE UNCHANGED req
    BY <2>1, <2>2 DEF Requests, Live
  <2>3. CASE /\ req[Head(mailbox).of].pc = "ask"
             /\ Becomes(Head(mailbox).of, [req[Head(mailbox).of] EXCEPT !.pc = "reply"])
    BY <2>1, <2>3 DEF Becomes, Requests, Live, Types, Request
  <2> QED BY <1>6, <2>2, <2>3 DEF HostCreates
<1> QED BY <1>1, <1>2, <1>3, <1>4, <1>5, <1>6 DEF Next

-----------------------------------------------------------------------------
(* The pumps and the buffers they feed. *)

(* A step that starts no pump and closes no buffer, puts nothing into the  *)
(* table, and makes no request wait that did not.                          *)
LEMMA PumpsStay ==
  ASSUME Types, Requests, Pumps, UNCHANGED <<closed, pump>>,
         \A c \in Conn : table'[c] => table[c],
         \A r \in Req :
           /\ req'[r].conn = req[r].conn /\ req'[r].op = req[r].op
           /\ req'[r].pc = "lock" => req[r].pc = "lock" \/ req[r].op # "delete"
           /\ req'[r].pc \in {"ask", "reply"} => req[r].pc \in {"ask", "reply"}
  PROVE  Pumps'
BY DEF Pumps

(* A pump ends, and its buffer closes. *)
LEMMA PumpsEnd ==
  ASSUME Types, Requests, Pumps, NEW c \in Conn, pump[c] # "none",
         pump' = [pump EXCEPT ![c] = "done"], CloseBuffer(c), UNCHANGED table,
         \A r \in Req :
           /\ req'[r].conn = req[r].conn /\ req'[r].op = req[r].op
           /\ req'[r].pc = req[r].pc \/ req'[r].pc = "over"
  PROVE  Pumps'
<1>1. \A d \in Conn : /\ d # c => pump'[d] = pump[d] /\ closed'[d] = closed[d]
                      /\ pump'[c] = "done"
  BY DEF CloseBuffer, Types, BufferTypeOK
<1>2. \A r \in Req : req'[r].pc # "over" =>
        req'[r].pc = req[r].pc
  OBVIOUS
<1>3. \A r \in Req : req[r].pc # "new" => req[r].conn \in Conn
  BY DEF Requests
<1> QED BY <1>1, <1>2, <1>3 DEF Pumps

LEMMA PumpsInductive ==
  ASSUME Types, Requests, Pumps, [Next]_vars
  PROVE  Pumps'
<1>1. CASE UNCHANGED vars
  BY <1>1, PumpsStay DEF vars, bufferVars, connVars
<1>2. ASSUME NEW r \in Req, Arrival(r)
      PROVE  Pumps'
  <2>1. ASSUME NEW c \in Conn, CreateArrives(r, c)
        PROVE  Pumps'
    <3>1. req' = [req EXCEPT ![r] = Standing("ask", "create", c, "none")]
      BY <2>1 DEF CreateArrives, Arrive, Becomes
    <3>2. UNCHANGED <<closed, pump, table>>
      BY <2>1 DEF CreateArrives, bufferVars, connVars
    <3>3. \A q \in Req : req[q].op = "create" => req[q].conn # c
      BY <2>1 DEF CreateArrives
    <3>4. pump[c] = "none"
      BY <3>3 DEF Pumps
    <3>5. /\ req'[r].op = "create" /\ req'[r].conn = c /\ req'[r].pc = "ask"
          /\ \A q \in Req \ {r} : req'[q] = req[q]
      BY <3>1 DEF Standing, Types
    <3>6. req[r].op = "none"
      BY <2>1 DEF CreateArrives, Arrive, IsNext, Requests
    <3> QED BY <3>2, <3>3, <3>4, <3>5, <3>6 DEF Pumps
  <2>2. ASSUME NEW c \in Conn, NEW op \in {"post", "get", "delete"},
               \/ StreamArrives(r, c) \/ PostArrives(r, c)
               \/ DeleteArrives(r, c) \/ StreamRefused(r, c)
               \/ UnknownConnection(r, op, c)
        PROVE  Pumps'
    <3>1. PICK x \in {"body", "stream", "lock", "over"},
               o \in {"post", "get", "delete"},
               s \in {"none", "unknown", "conflict", "gone"} :
            /\ req' = [req EXCEPT ![r] = Standing(x, o, c, s)]
            /\ x = "lock" => table[c]
      BY <2>2 DEF StreamArrives, PostArrives, DeleteArrives, StreamRefused,
           UnknownConnection, Arrive, Refuse, Becomes
    <3>2. UNCHANGED <<closed, pump>> /\ (\A d \in Conn : table'[d] => table[d])
          /\ req[r].pc = "new"
      BY <2>2 DEF StreamArrives, PostArrives, DeleteArrives, StreamRefused,
           UnknownConnection, Arrive, Refuse, IsNext, ClaimStream, bufferVars,
           connVars, Types
    <3>3. req[r].op = "none"
      BY <3>2 DEF Requests
    <3>4. /\ req'[r].op = o /\ req'[r].conn = c /\ req'[r].pc = x
          /\ \A q \in Req \ {r} : req'[q] = req[q]
      BY <3>1 DEF Standing, Types
    <3> QED BY <3>1, <3>2, <3>3, <3>4 DEF Pumps
  <2> QED BY <1>2, <2>1, <2>2 DEF Arrival
<1>3. ASSUME NEW r \in Req, HandlerStep(r)
      PROVE  Pumps'
  <2>1. CASE CreateReplied(r)
    <3> DEFINE c == req[r].conn
    <3>1. /\ c \in Conn /\ pump[c] = "none" /\ req[r].op = "create"
          /\ \A q \in Req \ {r} : req[q].op = "create" => req[q].conn # c
      BY <2>1 DEF CreateReplied, Requests, Pumps
    <3>2. /\ pump' = [pump EXCEPT ![c] = "reading"]
          /\ table' = [table EXCEPT ![c] = TRUE]
          /\ UNCHANGED closed
      BY <2>1 DEF CreateReplied, bufferVars
    <3>3. req' = [req EXCEPT ![r] = [@ EXCEPT !.pc = "over", !.status = "created"]]
      BY <2>1 DEF CreateReplied, Answer, Becomes
    <3>4. \A q \in Req : /\ q # r => req'[q] = req[q]
                        /\ req'[q].op = req[q].op /\ req'[q].conn = req[q].conn
                        /\ req'[r].pc = "over"
      BY <3>3 DEF Types, Request
    <3>5. \A d \in Conn : d # c => pump'[d] = pump[d] /\ table'[d] = table[d]
      BY <3>2 DEF Types
    <3>6. pump'[c] = "reading" /\ ~closed[c]
      BY <3>1, <3>2 DEF Types, Pumps
    <3>7. \A q \in Req : req[q].pc # "new" => req[q].conn \in Conn
      BY DEF Requests
    <3>8. \A q \in Req : req[q].pc \in {"ask", "reply"} => req[q].op = "create"
      BY DEF Requests
    <3> QED BY <3>1, <3>2, <3>4, <3>5, <3>6, <3>7, <3>8 DEF Pumps
  <2>2. CASE DeleteCloses(r)
    <3>1. req[r].conn \in Conn /\ pump[req[r].conn] # "none"
      BY <2>2 DEF DeleteCloses, HoldsWriter, Requests, Pumps
    <3>2. \A q \in Req :
            /\ req'[q].conn = req[q].conn /\ req'[q].op = req[q].op
            /\ req'[q].pc = req[q].pc \/ req'[q].pc = "over"
      BY <2>2 DEF DeleteCloses, Answer, Becomes, Types, Request
    <3> QED BY <2>2, <3>1, <3>2, PumpsEnd DEF DeleteCloses
  <2>3. CASE PostQueues(r)
    <3>1. req[r].op # "delete"
      BY <2>3 DEF PostQueues, Requests
    <3> QED BY <2>3, <3>1, PumpsStay DEF PostQueues, Becomes, Types, Request, bufferVars
  <2>4. CASE PostRefused(r) \/ PostWrites(r) \/ PostEndsLine(r) \/ PostFails(r)
             \/ StreamPolls(r) \/ Cancel(r)
    <3>1. UNCHANGED <<table, pump, closed>>
      BY <2>4 DEF PostRefused, PostWrites, PostEndsLine, PostFails, StreamPolls,
           Cancel, bufferVars, connVars, NextMessage, ReleaseStream
    <3>2. \A q \in Req :
            /\ req'[q].conn = req[q].conn /\ req'[q].op = req[q].op
            /\ req'[q].pc = req[q].pc \/ req'[q].pc = "over"
      <4>1. CASE UNCHANGED req
        BY <4>1
      <4>2. CASE PostWrites(r)
        BY <4>2 DEF PostWrites, Becomes, Types, Request
      <4>3. ASSUME NEW s, Answer(r, s)
            PROVE  \A q \in Req :
                     /\ req'[q].conn = req[q].conn /\ req'[q].op = req[q].op
                     /\ req'[q].pc = req[q].pc \/ req'[q].pc = "over"
        BY <4>3 DEF Answer, Becomes, Types, Request
      <4> QED BY <2>4, <4>1, <4>2, <4>3 DEF PostRefused, PostEndsLine, PostFails,
                   StreamPolls, Cancel
    <3> QED BY <3>1, <3>2, PumpsStay
  <2> QED BY <1>3, <2>1, <2>2, <2>3, <2>4 DEF HandlerStep
<1>4. ASSUME NEW c \in Conn, ConnStep(c)
      PROVE  Pumps'
  <2>1. CASE PumpReads(c) \/ HostEnds(c)
    BY <2>1, PumpsStay DEF PumpReads, HostEnds, Push, bufferVars, connVars
  <2>2. CASE PumpSeesEof(c) \/ PumpGivesUp(c)
    BY <2>2, PumpsEnd DEF PumpSeesEof, PumpGivesUp, PumpStops
  <2> QED BY <1>4, <2>1, <2>2 DEF ConnStep
<1>5. CASE HostCreates \/ HostCloses
  <2>1. UNCHANGED <<table, pump, closed>>
    BY <1>5 DEF HostCreates, HostCloses, bufferVars, connVars
  <2>2. \A q \in Req :
          /\ req'[q].conn = req[q].conn /\ req'[q].op = req[q].op
          /\ req'[q].pc = "lock" => req[q].pc = "lock"
          /\ req'[q].pc \in {"ask", "reply"} => req[q].pc \in {"ask", "reply"}
    <3>1. CASE UNCHANGED req
      BY <3>1
    <3>2. CASE /\ req[Head(mailbox).of].pc = "ask"
               /\ Becomes(Head(mailbox).of, [req[Head(mailbox).of] EXCEPT !.pc = "reply"])
      BY <3>2 DEF Becomes, Types, Request
    <3> QED BY <1>5, <3>1, <3>2 DEF HostCreates, HostCloses
  <2> QED BY <2>1, <2>2, PumpsStay
<1> QED BY <1>1, <1>2, <1>3, <1>4, <1>5 DEF Next

-----------------------------------------------------------------------------
(* The buffers on their own. *)

(* What Push leaves of the queue of c before it appends. *)
Spared(c) ==
  IF Len(queue[c]) >= MaxBuffered /\ queue[c] # << >> THEN Tail(queue[c])
                                                     ELSE queue[c]

LEMMA PushAppends ==
  ASSUME BufferTypeOK, NEW c \in Conn, ~closed[c], Push(c)
  PROVE  /\ Spared(c) \in Seq(Nat)
         /\ Len(Spared(c)) = (IF Len(queue[c]) >= MaxBuffered /\ queue[c] # << >>
                              THEN Len(queue[c]) - 1 ELSE Len(queue[c]))
         /\ Len(queue'[c]) = Len(Spared(c)) + 1
         /\ \A i \in 1 .. Len(Spared(c)) : queue'[c][i] = Spared(c)[i]
         /\ queue'[c][Len(Spared(c)) + 1] = pumped[c] + 1
         /\ pumped'[c] = pumped[c] + 1
         /\ \A d \in Conn \ {c} : queue'[d] = queue[d] /\ pumped'[d] = pumped[d]
<1>1. queue[c] \in Seq(Nat) /\ pumped[c] + 1 \in Nat
  BY DEF BufferTypeOK
<1>2. Spared(c) \in Seq(Nat)
  BY <1>1, HeadTailProperties DEF Spared
<1>3. Len(Spared(c)) = (IF Len(queue[c]) >= MaxBuffered /\ queue[c] # << >>
                        THEN Len(queue[c]) - 1 ELSE Len(queue[c]))
  BY <1>1, HeadTailProperties DEF Spared
<1>4. queue'[c] = Append(Spared(c), pumped[c] + 1)
  BY DEF Push, Spared, BufferTypeOK
<1>5. pumped'[c] = pumped[c] + 1
  BY DEF Push, BufferTypeOK
<1>6. \A d \in Conn \ {c} : queue'[d] = queue[d] /\ pumped'[d] = pumped[d]
  BY DEF Push, BufferTypeOK
<1>7. /\ Len(queue'[c]) = Len(Spared(c)) + 1
      /\ \A i \in 1 .. Len(Spared(c)) : queue'[c][i] = Spared(c)[i]
      /\ queue'[c][Len(Spared(c)) + 1] = pumped[c] + 1
  BY <1>1, <1>2, <1>4, AppendProperties
<1> QED BY <1>2, <1>3, <1>5, <1>6, <1>7

(* The buffer of c holds the newest messages. *)
Newest(c) ==
  /\ Len(queue[c]) <= Room
  /\ Len(queue[c]) <= pumped[c]
  /\ \A i \in 1 .. Len(queue[c]) : queue[c][i] = pumped[c] - Len(queue[c]) + i

LEMMA TailKept ==
  ASSUME BufferTypeOK, NewestKept, NEW c \in Conn, queue[c] # << >>,
         UNCHANGED pumped, queue' = [queue EXCEPT ![c] = Tail(@)]
  PROVE  NewestKept'
<1>1. \A d \in Conn : Newest(d)
  BY DEF NewestKept, Newest
<1>2. /\ queue[c] \in Seq(Nat) /\ pumped[c] \in Nat /\ Len(queue[c]) \in Nat
      /\ queue'[c] = Tail(queue[c])
      /\ \A d \in Conn \ {c} : queue'[d] = queue[d]
  BY DEF BufferTypeOK
<1>3. /\ Len(queue'[c]) = Len(queue[c]) - 1
      /\ \A i \in 1 .. Len(queue'[c]) : queue'[c][i] = queue[c][i + 1]
  <2>1. /\ Len(Tail(queue[c])) = Len(queue[c]) - 1
        /\ \A i \in 1 .. Len(Tail(queue[c])) : Tail(queue[c])[i] = queue[c][i + 1]
    BY <1>2, HeadTailProperties
  <2> QED BY <1>2, <2>1
<1>4. Len(queue[c]) <= Room /\ Len(queue[c]) <= pumped[c] /\ Room \in Nat
  BY <1>1, BufferAssumption DEF Newest, Room
<1>5. ASSUME NEW i \in 1 .. Len(queue'[c])
      PROVE  queue'[c][i] = pumped[c] - Len(queue'[c]) + i
  <2>1. i + 1 \in 1 .. Len(queue[c])
    BY <1>2, <1>3
  <2>2. queue[c][i + 1] = pumped[c] - Len(queue[c]) + (i + 1)
    BY <1>1, <2>1 DEF Newest
  <2>3. pumped[c] - Len(queue[c]) + (i + 1) = pumped[c] - Len(queue'[c]) + i
    BY <1>2, <1>3
  <2> QED BY <1>3, <2>2, <2>3
<1>6. Len(queue'[c]) <= Room /\ Len(queue'[c]) <= pumped[c]
  BY <1>2, <1>3, <1>4
<1>7. Newest(c)'
  BY <1>5, <1>6 DEF Newest, Room
<1>8. \A d \in Conn \ {c} : Newest(d)'
  BY <1>1, <1>2 DEF Newest, Room
<1> QED BY <1>7, <1>8 DEF NewestKept, Newest

LEMMA KeptInductive ==
  ASSUME BufferTypeOK, NewestKept, BufferStep
  PROVE  NewestKept'
<1>1. \A d \in Conn : Newest(d)
  BY DEF NewestKept, Newest
<1>2. CASE UNCHANGED <<queue, pumped>>
  BY <1>2 DEF NewestKept
<1>3. ASSUME NEW c \in Conn, ~closed[c], Push(c)
      PROVE  NewestKept'
  <2> DEFINE n == Len(queue[c])
             m == Len(Spared(c))
  <2>1. /\ n \in Nat /\ m \in Nat /\ pumped[c] \in Nat /\ queue[c] \in Seq(Nat)
        /\ n <= Room /\ n <= pumped[c]
    BY <1>1, <1>3, PushAppends DEF Newest, BufferTypeOK
  <2>2. /\ m = (IF n >= MaxBuffered /\ queue[c] # << >> THEN n - 1 ELSE n)
        /\ Len(queue'[c]) = m + 1 /\ pumped'[c] = pumped[c] + 1
    BY <1>3, PushAppends
  <2>3. m + 1 <= Room /\ m + 1 <= pumped[c] + 1
    <3>1. queue[c] = << >> => n = 0
      OBVIOUS
    <3>2. queue[c] # << >> => n > 0
      BY <2>1
    <3> QED BY <2>1, <2>2, <3>1, <3>2, BufferAssumption DEF Room
  <2>4. ASSUME NEW i \in 1 .. m
        PROVE  Spared(c)[i] = pumped[c] - m + i
    <3>1. CASE n >= MaxBuffered /\ queue[c] # << >>
      <4>1. Spared(c)[i] = queue[c][i + 1]
        BY <2>1, <2>2, <3>1, HeadTailProperties DEF Spared
      <4>2. i + 1 \in 1 .. n /\ m = n - 1
        BY <2>1, <2>2, <3>1
      <4>3. queue[c][i + 1] = pumped[c] - n + (i + 1)
        BY <1>1, <4>2 DEF Newest
      <4>4. pumped[c] - n + (i + 1) = pumped[c] - m + i
        <5>1. i \in Int /\ n \in Int /\ m \in Int /\ pumped[c] \in Int
          BY <2>1
        <5> HIDE DEF n, m
        <5> QED BY <4>2, <5>1
      <4> QED BY <4>1, <4>3, <4>4
    <3>2. CASE ~(n >= MaxBuffered /\ queue[c] # << >>)
      BY <1>1, <2>2, <3>2 DEF Spared, Newest
    <3> QED BY <3>1, <3>2
  <2>5. ASSUME NEW i \in 1 .. m + 1
        PROVE  queue'[c][i] = (pumped[c] + 1) - (m + 1) + i
    <3>1. CASE i = m + 1
      <4>1. queue'[c][i] = pumped[c] + 1
        BY <1>3, <3>1, PushAppends
      <4> QED BY <2>1, <3>1, <4>1
    <3>2. CASE i # m + 1
      <4>1. i \in 1 .. m
        BY <2>1, <3>2
      <4>2. queue'[c][i] = Spared(c)[i]
        BY <1>3, <4>1, PushAppends
      <4> QED BY <2>1, <2>4, <4>1, <4>2
    <3> QED BY <3>1, <3>2
  <2>6. \A d \in Conn \ {c} : queue'[d] = queue[d] /\ pumped'[d] = pumped[d]
    BY <1>3, PushAppends
  <2>7. Newest(c)'
    BY <2>2, <2>3, <2>5 DEF Newest, Room
  <2>8. \A d \in Conn \ {c} : Newest(d)'
    BY <1>1, <2>6 DEF Newest, Room
  <2> QED BY <2>7, <2>8 DEF NewestKept, Newest
<1>4. ASSUME NEW r \in Req, NextMessage(r)
      PROVE  NewestKept'
  <2>1. CASE UNCHANGED <<queue, pumped>>
    BY <1>2, <2>1
  <2>2. CASE /\ queue[reads[r]] # << >> /\ UNCHANGED pumped
             /\ queue' = [queue EXCEPT ![reads[r]] = Tail(@)]
    <3>1. CASE reads[r] \in Conn
      BY <2>2, <3>1, TailKept
    <3>2. CASE reads[r] \notin Conn
      BY <1>2, <2>2, <3>2 DEF BufferTypeOK
    <3> QED BY <3>1, <3>2
  <2> QED BY <1>4, <2>1, <2>2 DEF NextMessage, ReleaseStream
<1> QED BY <1>2, <1>3, <1>4 DEF BufferStep, bufferVars, CloseBuffer, ClaimStream,
         ReleaseStream

LEMMA LeaseInductive ==
  ASSUME BufferTypeOK, LeaseOwned, BufferStep
  PROVE  LeaseOwned'
<1>1. CASE UNCHANGED bufferVars
  BY <1>1 DEF bufferVars, LeaseOwned, Live
<1>2. ASSUME NEW c \in Conn, stream' = Woken(c), UNCHANGED <<streamOpen, reads>>
      PROVE  LeaseOwned'
  <2>1. \A r \in Req : Live(r)' <=> Live(r)
    BY <1>2 DEF Woken, Live, BufferTypeOK
  <2> QED BY <1>2, <2>1 DEF LeaseOwned
<1>3. ASSUME NEW r \in Req, Live(r), ReleaseStream(r)
      PROVE  LeaseOwned'
  <2>1. reads[r] \in Conn
    BY <1>3 DEF LeaseOwned
  <2>2. ~Live(r)' /\ \A q \in Req \ {r} : Live(q)' <=> Live(q)
    BY <1>3 DEF ReleaseStream, Woken, Live, BufferTypeOK
  <2>3. /\ ~streamOpen'[reads[r]] /\ UNCHANGED reads
        /\ \A d \in Conn \ {reads[r]} : streamOpen'[d] = streamOpen[d]
    BY <1>3, <2>1 DEF ReleaseStream, BufferTypeOK
  <2> QED BY <1>3, <2>1, <2>2, <2>3 DEF LeaseOwned
<1>4. ASSUME NEW c \in Conn, Push(c)
      PROVE  LeaseOwned'
  <2>1. CASE stream' = stream
    BY <1>4, <2>1 DEF Push, LeaseOwned, Live
  <2> QED BY <1>2, <1>4, <2>1 DEF Push
<1>5. ASSUME NEW c \in Conn, CloseBuffer(c)
      PROVE  LeaseOwned'
  BY <1>2, <1>5 DEF CloseBuffer
<1>6. ASSUME NEW r \in Req, NEW c \in Conn, ~Live(r), ClaimStream(r, c)
      PROVE  LeaseOwned'
  <2>1. /\ ~streamOpen[c] /\ streamOpen'[c] /\ reads'[r] = c /\ Live(r)'
        /\ \A d \in Conn \ {c} : streamOpen'[d] = streamOpen[d]
        /\ \A q \in Req \ {r} : (Live(q)' <=> Live(q)) /\ reads'[q] = reads[q]
    BY <1>6 DEF ClaimStream, Claimable, Live, BufferTypeOK
  <2> QED BY <1>6, <2>1 DEF LeaseOwned
<1>7. ASSUME NEW r \in Req, NextMessage(r)
      PROVE  LeaseOwned'
  <2>1. CASE ReleaseStream(r)
    BY <1>3, <1>7, <2>1 DEF NextMessage, Live
  <2>2. CASE /\ stream' = stream \/ stream' = [stream EXCEPT ![r] = "wait"]
             /\ UNCHANGED <<streamOpen, reads>>
    <3>1. \A q \in Req : Live(q)' <=> Live(q)
      BY <1>7, <2>2 DEF NextMessage, Live, BufferTypeOK
    <3> QED BY <2>2, <3>1 DEF LeaseOwned
  <2> QED BY <1>7, <2>1, <2>2 DEF NextMessage
<1> QED BY <1>1, <1>3, <1>4, <1>5, <1>6, <1>7 DEF BufferStep

(* Whoever waits on c is woken, so only the others are left to show. *)
LEMMA NobodyWaits ==
  ASSUME BufferTypeOK, NEW c, stream' = Woken(c), UNCHANGED reads,
         NEW q \in Req, stream'[q] = "wait"
  PROVE  stream[q] = "wait" /\ reads[q] # c
BY DEF Woken, BufferTypeOK

LEMMA SleepInductive ==
  ASSUME BufferTypeOK, LeaseOwned, NoStreamSleeps, BufferStep
  PROVE  NoStreamSleeps'
<1>0. \A q \in Req : stream[q] = "wait" => reads[q] \in Conn
  BY DEF LeaseOwned, Live
<1>1. CASE UNCHANGED bufferVars
  BY <1>1 DEF bufferVars, NoStreamSleeps
<1>2. ASSUME NEW c \in Conn, ~closed[c], Push(c)
      PROVE  NoStreamSleeps'
  <2>1. stream' = Woken(c) /\ UNCHANGED <<reads, closed>>
    BY <1>2 DEF Push
  <2>2. \A d \in Conn \ {c} : queue'[d] = queue[d]
    BY <1>2 DEF Push, BufferTypeOK
  <2> QED BY <1>0, <2>1, <2>2, NobodyWaits DEF NoStreamSleeps
<1>3. ASSUME NEW c \in Conn, CloseBuffer(c)
      PROVE  NoStreamSleeps'
  <2>1. stream' = Woken(c) /\ UNCHANGED <<reads, queue>>
    BY <1>3 DEF CloseBuffer
  <2>2. \A d \in Conn \ {c} : closed'[d] = closed[d]
    BY <1>3 DEF CloseBuffer, BufferTypeOK
  <2> QED BY <1>0, <2>1, <2>2, NobodyWaits DEF NoStreamSleeps
<1>4. ASSUME NEW r \in Req, ReleaseStream(r)
      PROVE  NoStreamSleeps'
  <2>1. \A q \in Req : stream'[q] = "wait" => stream[q] = "wait"
    BY <1>4 DEF ReleaseStream, Woken, BufferTypeOK
  <2>2. UNCHANGED <<queue, closed, reads>>
    BY <1>4 DEF ReleaseStream
  <2> QED BY <2>1, <2>2 DEF NoStreamSleeps
<1>5. ASSUME NEW r \in Req, NEW c \in Conn, ClaimStream(r, c)
      PROVE  NoStreamSleeps'
  BY <1>5 DEF ClaimStream, NoStreamSleeps, BufferTypeOK
<1>6. ASSUME NEW r \in Req, NextMessage(r)
      PROVE  NoStreamSleeps'
  <2>1. CASE ReleaseStream(r)
    BY <1>4, <2>1
  <2>2. CASE /\ stream' = [stream EXCEPT ![r] = "wait"]
             /\ queue[reads[r]] = << >> /\ ~closed[reads[r]]
             /\ UNCHANGED <<queue, closed, reads>>
    BY <2>2 DEF NoStreamSleeps, BufferTypeOK
  <2>3. CASE /\ queue[reads[r]] # << >>
             /\ queue' = [queue EXCEPT ![reads[r]] = Tail(@)]
             /\ UNCHANGED <<closed, stream, reads>>
    <3>1. ASSUME NEW q \in Req, stream[q] = "wait"
          PROVE  reads[q] \in Conn /\ reads[q] # reads[r]
      BY <1>0, <2>3, <3>1 DEF NoStreamSleeps
    <3> QED BY <2>3, <3>1 DEF NoStreamSleeps, BufferTypeOK
  <2> QED BY <1>6, <2>1, <2>2, <2>3 DEF NextMessage
<1> QED BY <1>1, <1>2, <1>3, <1>4, <1>5, <1>6 DEF BufferStep

-----------------------------------------------------------------------------
(* The buffers implement the channel. *)

Held == [c \in Conn |-> Len(queue[c])]

ChannelStep == [Latest!Next]_<<pumped, Held, seen, closed>>

LEMMA PushSends ==
  ASSUME BufferTypeOK, NewestKept, NEW c \in Conn, ~closed[c], Push(c)
  PROVE  ChannelStep
<1> DEFINE n == Len(queue[c])
<1>1. n \in Nat /\ n <= Room /\ (n = 0 <=> queue[c] = << >>)
  BY DEF BufferTypeOK, NewestKept
<1>2. Len(queue'[c]) = (IF n >= MaxBuffered /\ queue[c] # << >> THEN n - 1 ELSE n) + 1
  BY PushAppends
<1>3. Len(queue'[c]) = (IF n = Room THEN Room ELSE n + 1)
  BY <1>1, <1>2, BufferAssumption DEF Room
<1>4. Held' = [Held EXCEPT ![c] = IF @ = Room THEN Room ELSE @ + 1]
  BY <1>3, PushAppends DEF Held
<1>5. /\ pumped' = [pumped EXCEPT ![c] = @ + 1]
      /\ UNCHANGED <<seen, closed>>
  BY DEF Push
<1>6. Latest!Send(c)
  BY <1>4, <1>5 DEF Latest!Send, Held
<1> QED BY <1>6 DEF ChannelStep, Latest!Next

LEMMA PollReceives ==
  ASSUME BufferTypeOK, NewestKept, NEW c \in Conn, queue[c] # << >>,
         queue' = [queue EXCEPT ![c] = Tail(@)],
         seen' = [seen EXCEPT ![c] = Head(queue[c])],
         UNCHANGED <<pumped, closed>>
  PROVE  ChannelStep
<1> DEFINE n == Len(queue[c])
<1>1. queue[c] \in Seq(Nat) /\ n \in Nat /\ n > 0
  BY DEF BufferTypeOK
<1>2. Head(queue[c]) = pumped[c] - n + 1
  <2>1. Head(queue[c]) = queue[c][1]
    BY <1>1
  <2> QED BY <1>1, <2>1 DEF NewestKept
<1>3. Len(Tail(queue[c])) = n - 1
  BY <1>1, HeadTailProperties
<1>4. Held' = [Held EXCEPT ![c] = @ - 1]
  BY <1>3 DEF Held, BufferTypeOK
<1>5. Held[c] = n
  BY DEF Held
<1>6. Latest!Receive(c)
  BY <1>1, <1>2, <1>4, <1>5 DEF Latest!Receive, Held
<1> QED BY <1>6 DEF ChannelStep, Latest!Next

LEMMA BufferImplementsChannel ==
  ASSUME BufferTypeOK, NewestKept, LeaseOwned, BufferStep
  PROVE  ChannelStep
<1>1. CASE UNCHANGED <<queue, pumped, seen, closed>>
  BY <1>1 DEF ChannelStep, Held
<1>2. ASSUME NEW c \in Conn, CloseBuffer(c)
      PROVE  ChannelStep
  <2>1. Latest!End(c)
    BY <1>2 DEF CloseBuffer, Latest!End
  <2> QED BY <2>1 DEF ChannelStep, Latest!Next
<1>3. ASSUME NEW r \in Req, NextMessage(r)
      PROVE  ChannelStep
  <2>1. reads[r] \in Conn
    BY <1>3 DEF NextMessage, LeaseOwned, Live
  <2> QED BY <1>1, <1>3, <2>1, PollReceives DEF NextMessage, ReleaseStream
<1> QED BY <1>1, <1>2, <1>3, PushSends DEF BufferStep, bufferVars, ClaimStream,
         ReleaseStream

-----------------------------------------------------------------------------
(* Who attends to a frontend. *)

LEMMA ToldStays ==
  ASSUME Types, NEW c \in Conn, ToldToClose(c),
         \/ mailbox' = mailbox
         \/ \E x \in FrontendRequest : mailbox' = Append(mailbox, x)
         \/ /\ mailbox # << >> /\ mailbox' = Tail(mailbox)
            /\ Head(mailbox) # [kind |-> "Close", of |-> c]
  PROVE  ToldToClose(c)'
<1>1. PICK i \in 1 .. Len(mailbox) : mailbox[i] = [kind |-> "Close", of |-> c]
  BY DEF ToldToClose
<1>2. mailbox \in Seq(FrontendRequest) /\ Len(mailbox) \in Nat
  BY DEF Types
<1>3. CASE mailbox' = mailbox
  BY <1>1, <1>3 DEF ToldToClose
<1>4. ASSUME NEW x \in FrontendRequest, mailbox' = Append(mailbox, x)
      PROVE  ToldToClose(c)'
  <2>1. Len(mailbox') = Len(mailbox) + 1 /\ mailbox'[i] = mailbox[i]
    BY <1>1, <1>2, <1>4, AppendProperties
  <2>2. i \in 1 .. Len(mailbox')
    BY <1>1, <1>2, <2>1
  <2> QED BY <1>1, <2>1, <2>2 DEF ToldToClose
<1>5. CASE /\ mailbox # << >> /\ mailbox' = Tail(mailbox)
           /\ Head(mailbox) # [kind |-> "Close", of |-> c]
  <2>1. i # 1
    BY <1>1, <1>2, <1>5
  <2>2. /\ Len(mailbox') = Len(mailbox) - 1
        /\ \A j \in 1 .. Len(mailbox') : mailbox'[j] = mailbox[j + 1]
    <3>1. /\ Len(Tail(mailbox)) = Len(mailbox) - 1
          /\ \A j \in 1 .. Len(Tail(mailbox)) : Tail(mailbox)[j] = mailbox[j + 1]
      BY <1>2, <1>5, HeadTailProperties
    <3> QED BY <1>5, <3>1, Zenon
  <2>3. i - 1 \in 1 .. Len(mailbox') /\ (i - 1) + 1 = i
    BY <1>1, <1>2, <2>1, <2>2
  <2>4. mailbox'[i - 1] = [kind |-> "Close", of |-> c]
    BY <1>1, <2>2, <2>3
  <2> QED BY <2>3, <2>4 DEF ToldToClose
<1> QED BY <1>3, <1>4, <1>5

(* The host is told when the shutdown future runs. *)
LEMMA TakeShutdownTells ==
  ASSUME Types, NEW c \in Conn, TakeShutdown(c)
  PROVE  /\ shut[c] => ToldToClose(c)'
         /\ \A d \in Conn : ToldToClose(d) => ToldToClose(d)'
         /\ \A d \in Conn \ {c} : shut'[d] = shut[d]
<1> DEFINE x == [kind |-> "Close", of |-> c]
<1>1. x \in FrontendRequest
  BY DEF FrontendRequest
<1>2. mailbox' = mailbox \/ mailbox' = Append(mailbox, x)
  BY DEF TakeShutdown, Tell
<1>3. \A d \in Conn : ToldToClose(d) => ToldToClose(d)'
  BY <1>1, <1>2, ToldStays
<1>4. ASSUME shut[c]
      PROVE  ToldToClose(c)'
  <2>1. mailbox' = Append(mailbox, x)
    BY <1>4 DEF TakeShutdown, Tell
  <2>2. mailbox \in Seq(FrontendRequest) /\ Len(mailbox) + 1 \in 1 .. Len(mailbox')
        /\ mailbox'[Len(mailbox) + 1] = x
    BY <1>1, <2>1, AppendProperties DEF Types
  <2> QED BY <2>2 DEF ToldToClose
<1>5. \A d \in Conn \ {c} : shut'[d] = shut[d]
  BY DEF TakeShutdown, Types
<1> QED BY <1>3, <1>4, <1>5

(* The requests somebody attends a frontend with stay where they are, or   *)
(* are given up by their clients.                                          *)
StandingBy ==
  \A r \in Req :
    /\ req[r].pc = "reply" \/ (req[r].pc = "lock" /\ req[r].op = "delete") =>
         /\ req'[r].conn = req[r].conn /\ req'[r].op = req[r].op
         /\ req'[r].pc = req[r].pc \/ req'[r].status = "cancelled"
    /\ req[r].status = "cancelled" => req'[r] = req[r]

LEMMA StillAttended ==
  ASSUME Types, Requests, FrontendAttended, NEW c \in Conn, StandingBy,
         registered'[c] => registered[c],
         ToldToClose(c) => ToldToClose(c)',
         Served(c) => /\ shut'[c] /\ pump'[c] = "reading" /\ writer'[c]
                      /\ table[c] => \/ table'[c]
                                     \/ \E r \in Req : /\ req'[r].op = "delete"
                                                      /\ req'[r].conn = c
                                                      /\ req'[r].pc = "lock",
         registered'[c]
  PROVE  \/ ToldToClose(c)'
         \/ \E r \in Req : req'[r].pc = "reply" /\ req'[r].conn = c
         \/ Abandoned("create", c)'
         \/ Served(c)'
<1>1. CASE \E r \in Req : req[r].pc = "reply" /\ req[r].conn = c
  <2>1. PICK r \in Req : req[r].pc = "reply" /\ req[r].conn = c
    BY <1>1
  <2> QED BY <2>1 DEF StandingBy, Abandoned, Requests
<1>2. CASE Abandoned("create", c)
  BY <1>2 DEF StandingBy, Abandoned
<1>3. CASE Served(c)
  <2>1. CASE table[c]
    BY <1>3, <2>1 DEF Served
  <2>2. CASE Abandoned("delete", c)
    BY <1>3, <2>2 DEF StandingBy, Abandoned, Served
  <2>3. ASSUME NEW r \in Req, req[r].op = "delete", req[r].conn = c, req[r].pc = "lock"
        PROVE  Served(c)'
    BY <1>3, <2>3 DEF StandingBy, Abandoned, Served
  <2> QED BY <1>3, <2>1, <2>2, <2>3 DEF Served
<1> QED BY <1>1, <1>2, <1>3 DEF FrontendAttended

(* Steps that leave host, pump and table alone. *)
LEMMA QuietKeepsAttended ==
  ASSUME Types, Requests, FrontendAttended, StandingBy,
         \/ mailbox' = mailbox
         \/ \E x \in FrontendRequest : mailbox' = Append(mailbox, x),
         UNCHANGED <<registered, shut, pump, writer, table>>
  PROVE  FrontendAttended'
<1> SUFFICES ASSUME NEW c \in Conn, registered'[c]
             PROVE  \/ ToldToClose(c)'
                    \/ \E r \in Req : req'[r].pc = "reply" /\ req'[r].conn = c
                    \/ Abandoned("create", c)'
                    \/ Served(c)'
  BY DEF FrontendAttended
<1>1. ToldToClose(c) => ToldToClose(c)'
  BY ToldStays
<1>2. Served(c) => /\ shut'[c] /\ pump'[c] = "reading" /\ writer'[c]
                   /\ table[c] => table'[c]
  BY DEF Served
<1> QED BY <1>1, <1>2, StillAttended

LEMMA ArrivalStandsBy ==
  ASSUME Types, Requests, NEW r \in Req, NEW x, req[r].pc = "new", Becomes(r, x)
  PROVE  StandingBy
<1>1. req[r].status # "cancelled"
  BY DEF Requests
<1>2. \A q \in Req \ {r} : req'[q] = req[q]
  BY DEF Becomes, Types
<1> QED BY <1>1, <1>2 DEF StandingBy

LEMMA AttendedInductive ==
  ASSUME Types, Requests, Pumps, FrontendAttended, [Next]_vars
  PROVE  FrontendAttended'
<1>1. CASE UNCHANGED vars
  <2>1. StandingBy
    BY <1>1 DEF vars, StandingBy
  <2> QED BY <1>1, <2>1, QuietKeepsAttended DEF vars, connVars, hostVars
<1>2. ASSUME NEW r \in Req, Arrival(r)
      PROVE  FrontendAttended'
  <2>1. StandingBy
    <3>1. req[r].pc = "new" /\ \E x : Becomes(r, x)
      BY <1>2 DEF Arrival, CreateArrives, PostArrives, StreamArrives,
           StreamRefused, DeleteArrives, UnknownConnection, Arrive, Refuse, IsNext
    <3> QED BY <3>1, ArrivalStandsBy
  <2>2. ASSUME NEW c \in Conn, DeleteArrives(r, c)
        PROVE  FrontendAttended'
    <3>1. /\ UNCHANGED <<writer, pump, shut, mailbox, registered>>
          /\ table' = [table EXCEPT ![c] = FALSE]
      BY <2>2 DEF DeleteArrives, hostVars
    <3>2. req'[r].op = "delete" /\ req'[r].conn = c /\ req'[r].pc = "lock"
      BY <2>2 DEF DeleteArrives, Arrive, Becomes, Standing, Types
    <3>3. ASSUME NEW d \in Conn, registered'[d]
          PROVE  \/ ToldToClose(d)'
                 \/ \E q \in Req : req'[q].pc = "reply" /\ req'[q].conn = d
                 \/ Abandoned("create", d)'
                 \/ Served(d)'
      <4>1. ToldToClose(d) => ToldToClose(d)'
        BY <3>1 DEF ToldToClose
      <4>2. table[d] => \/ table'[d]
                        \/ \E q \in Req : /\ req'[q].op = "delete" /\ req'[q].conn = d
                                         /\ req'[q].pc = "lock"
        BY <3>1, <3>2 DEF Types
      <4>3. Served(d) => shut'[d] /\ pump'[d] = "reading" /\ writer'[d]
        BY <3>1 DEF Served
      <4> QED BY <2>1, <3>1, <3>3, <4>1, <4>2, <4>3, StillAttended
    <3> QED BY <3>3 DEF FrontendAttended
  <2>3. ASSUME NEW c \in Conn, CreateArrives(r, c)
        PROVE  FrontendAttended'
    <3>1. [kind |-> "Create", of |-> r] \in FrontendRequest
      BY DEF FrontendRequest
    <3>2. \E x \in FrontendRequest : mailbox' = Append(mailbox, x)
      BY <2>3, <3>1 DEF CreateArrives, Tell
    <3>3. UNCHANGED <<registered, shut, pump, writer, table>>
      BY <2>3 DEF CreateArrives, connVars
    <3> QED BY <2>1, <3>2, <3>3, QuietKeepsAttended
  <2>4. ASSUME NEW c \in Conn, NEW op \in {"post", "get", "delete"},
               \/ PostArrives(r, c) \/ StreamArrives(r, c)
               \/ StreamRefused(r, c) \/ UnknownConnection(r, op, c)
        PROVE  FrontendAttended'
    <3>1. UNCHANGED <<registered, shut, pump, writer, table, mailbox>>
      BY <2>4 DEF PostArrives, StreamArrives, StreamRefused, UnknownConnection,
           connVars, hostVars
    <3> QED BY <2>1, <3>1, QuietKeepsAttended
  <2> QED BY <1>2, <2>2, <2>3, <2>4 DEF Arrival
<1>3. ASSUME NEW r \in Req, HandlerStep(r)
      PROVE  FrontendAttended'
  <2>1. CASE CreateReplied(r)
    <3> DEFINE c0 == req[r].conn
    <3>1. /\ c0 \in Conn /\ req[r].pc = "reply" /\ req[r].op = "create"
          /\ req[r].status = "none"
      BY <2>1 DEF CreateReplied, Requests
    <3>2. PICK c \in Conn : c = c0
      BY <3>1
    <3>3. /\ table' = [table EXCEPT ![c] = TRUE]
          /\ writer' = [writer EXCEPT ![c] = TRUE]
          /\ pump' = [pump EXCEPT ![c] = "reading"]
          /\ shut' = [shut EXCEPT ![c] = TRUE]
          /\ UNCHANGED <<mailbox, registered>>
      BY <2>1, <3>2 DEF CreateReplied, hostVars
    <3>4. Served(c)'
      BY <3>3 DEF Served, Types
    <3>5. \A q \in Req \ {r} : req'[q] = req[q]
      BY <2>1 DEF CreateReplied, Answer, Becomes, Types
    <3>6. ASSUME NEW d \in Conn, d # c, registered'[d]
          PROVE  \/ ToldToClose(d)'
                 \/ \E q \in Req : req'[q].pc = "reply" /\ req'[q].conn = d
                 \/ Abandoned("create", d)'
                 \/ Served(d)'
      <4>1. shut'[d] = shut[d] /\ pump'[d] = pump[d] /\ writer'[d] = writer[d]
            /\ table'[d] = table[d] /\ registered[d]
        BY <3>3, <3>6 DEF Types
      <4>2. CASE ToldToClose(d)
        BY <3>3, <4>2 DEF ToldToClose
      <4>3. CASE Abandoned("create", d)
        BY <3>1, <3>5, <4>3 DEF Abandoned
      <4>4. CASE \E q \in Req : req[q].pc = "reply" /\ req[q].conn = d
        BY <3>2, <3>5, <3>6, <4>4
      <4>5. CASE Served(d)
        BY <3>1, <3>5, <4>1, <4>5 DEF Served, Abandoned
      <4> QED BY <4>1, <4>2, <4>3, <4>4, <4>5 DEF FrontendAttended
    <3> QED BY <3>4, <3>6 DEF FrontendAttended
  <2>2. CASE DeleteCloses(r)
    <3>1. req[r].conn \in Conn /\ req[r].pc = "lock" /\ req[r].op = "delete"
          /\ req[r].status = "none"
      BY <2>2 DEF DeleteCloses, HoldsWriter, Requests
    <3>2. PICK c \in Conn : c = req[r].conn
      BY <3>1
    <3>3. /\ TakeShutdown(c) /\ UNCHANGED <<table, registered>>
          /\ pump' = [pump EXCEPT ![c] = "done"]
          /\ writer' = [writer EXCEPT ![c] = FALSE]
      BY <2>2, <3>2 DEF DeleteCloses
    <3>4. \A q \in Req \ {r} : req'[q] = req[q]
      BY <2>2 DEF DeleteCloses, Answer, Becomes, Types
    <3>5. ASSUME NEW d \in Conn, registered[d]
          PROVE  \/ ToldToClose(d)'
                 \/ \E q \in Req : req'[q].pc = "reply" /\ req'[q].conn = d
                 \/ Abandoned("create", d)'
                 \/ Served(d)'
      <4>1. CASE ToldToClose(d)
        BY <3>3, <4>1, TakeShutdownTells
      <4>2. CASE Abandoned("create", d)
        BY <3>1, <3>4, <4>2 DEF Abandoned
      <4>3. CASE \E q \in Req : req[q].pc = "reply" /\ req[q].conn = d
        BY <3>1, <3>4, <4>3
      <4>4. CASE Served(d) /\ d = c
        BY <3>3, <4>4, TakeShutdownTells DEF Served
      <4>5. CASE Served(d) /\ d # c
        <5>1. shut'[d] = shut[d] /\ pump'[d] = pump[d] /\ writer'[d] = writer[d]
          BY <3>3, <4>5, TakeShutdownTells DEF Types
        <5> QED BY <3>1, <3>2, <3>3, <3>4, <4>5, <5>1 DEF Served, Abandoned
      <4> QED BY <3>5, <4>1, <4>2, <4>3, <4>4, <4>5 DEF FrontendAttended
    <3> QED BY <3>3, <3>5 DEF FrontendAttended
  <2>3. CASE \/ PostRefused(r) \/ PostQueues(r) \/ PostWrites(r) \/ PostEndsLine(r)
             \/ PostFails(r) \/ StreamPolls(r) \/ Cancel(r)
    <3>1. UNCHANGED <<registered, shut, pump, writer, table, mailbox>>
      BY <2>3 DEF PostRefused, PostQueues, PostWrites, PostEndsLine, PostFails,
           StreamPolls, Cancel, connVars, hostVars
    <3>2. StandingBy
      <4>1. CASE UNCHANGED req
        BY <4>1 DEF StandingBy
      <4>2. CASE Cancel(r)
        <5>1. req[r].pc # "over"
          BY <4>2 DEF Cancel
        <5>2. req[r].status # "cancelled"
          BY <5>1 DEF Requests
        <5> QED BY <4>2, <5>2 DEF Cancel, Answer, Becomes, Types, Request, StandingBy
      <4>3. ASSUME NEW x, Becomes(r, x), req[r].pc \notin {"reply", "over"},
                   req[r].op # "delete"
            PROVE  StandingBy
        <5>1. req[r].status # "cancelled"
          BY <4>3 DEF Requests
        <5>2. \A q \in Req \ {r} : req'[q] = req[q]
          BY <4>3 DEF Becomes, Types
        <5> QED BY <4>3, <5>1, <5>2 DEF StandingBy
      <4>4. CASE StreamPolls(r)
        <5>1. req[r].pc = "stream" /\ req[r].op = "get"
          BY <4>4 DEF StreamPolls, NextMessage, Requests, Live
        <5> QED BY <4>1, <4>3, <4>4, <5>1 DEF StreamPolls, Answer
      <4>5. CASE PostRefused(r) \/ PostQueues(r) \/ PostWrites(r)
                 \/ PostEndsLine(r) \/ PostFails(r)
        <5>1. req[r].op = "post" /\ req[r].pc \in {"body", "lock"}
          BY <4>5 DEF PostRefused, PostQueues, PostWrites, PostEndsLine,
               PostFails, HoldsWriter, Requests
        <5> QED BY <4>3, <4>5, <5>1 DEF PostRefused, PostQueues, PostWrites,
                     PostEndsLine, PostFails, Answer
      <4> QED BY <2>3, <4>2, <4>4, <4>5
    <3> QED BY <3>1, <3>2, QuietKeepsAttended
  <2> QED BY <1>3, <2>1, <2>2, <2>3 DEF HandlerStep
<1>4. ASSUME NEW c \in Conn, ConnStep(c)
      PROVE  FrontendAttended'
  <2>1. UNCHANGED req
    BY <1>4 DEF ConnStep, PumpReads, PumpSeesEof, PumpGivesUp, PumpStops, HostEnds
  <2>2. StandingBy
    BY <2>1 DEF StandingBy
  <2>3. CASE PumpReads(c) \/ HostEnds(c)
    <3>1. UNCHANGED <<registered, shut, pump, writer, table, mailbox>>
      BY <2>3 DEF PumpReads, HostEnds, connVars, hostVars
    <3> QED BY <2>2, <3>1, QuietKeepsAttended
  <2>4. CASE PumpStops(c)
    <3>1. TakeShutdown(c) /\ pump' = [pump EXCEPT ![c] = "done"]
          /\ UNCHANGED <<table, writer, registered>>
      BY <2>4 DEF PumpStops
    <3>2. ASSUME NEW d \in Conn, registered'[d]
          PROVE  \/ ToldToClose(d)'
                 \/ \E q \in Req : req'[q].pc = "reply" /\ req'[q].conn = d
                 \/ Abandoned("create", d)'
                 \/ Served(d)'
      <4>1. CASE Served(d) /\ d = c
        BY <3>1, <4>1, TakeShutdownTells DEF Served
      <4>2. CASE ~(Served(d) /\ d = c)
        <5>1. Served(d) => /\ shut'[d] /\ pump'[d] = "reading" /\ writer'[d]
                           /\ table[d] => table'[d]
          BY <3>1, <4>2, TakeShutdownTells DEF Served, Types
        <5>2. ToldToClose(d) => ToldToClose(d)'
          BY <3>1, TakeShutdownTells
        <5> QED BY <2>2, <3>1, <3>2, <5>1, <5>2, StillAttended
      <4> QED BY <4>1, <4>2
    <3> QED BY <3>2 DEF FrontendAttended
  <2> QED BY <1>4, <2>3, <2>4 DEF ConnStep, PumpSeesEof, PumpGivesUp
<1>5. CASE HostCloses
  <2>1. /\ mailbox # << >> /\ mailbox' = Tail(mailbox)
        /\ Head(mailbox).kind = "Close"
        /\ registered' = [registered EXCEPT ![Head(mailbox).of] = FALSE]
        /\ UNCHANGED <<shut, pump, writer, table, req>>
    BY <1>5 DEF HostCloses, connVars
  <2>2. StandingBy
    BY <2>1 DEF StandingBy
  <2>3. ASSUME NEW d \in Conn, registered'[d]
        PROVE  \/ ToldToClose(d)'
               \/ \E q \in Req : req'[q].pc = "reply" /\ req'[q].conn = d
               \/ Abandoned("create", d)'
               \/ Served(d)'
    <3>1. registered[d] /\ Head(mailbox) # [kind |-> "Close", of |-> d]
      BY <2>1, <2>3 DEF Types
    <3>2. ToldToClose(d) => ToldToClose(d)'
      BY <2>1, <3>1, ToldStays
    <3> QED BY <2>1, <2>2, <2>3, <3>1, <3>2, StillAttended DEF Served
  <2> QED BY <2>3 DEF FrontendAttended
<1>6. CASE HostCreates
  <2>1. /\ mailbox # << >> /\ mailbox' = Tail(mailbox)
        /\ Head(mailbox).kind = "Create"
        /\ UNCHANGED <<shut, pump, writer, table>>
    BY <1>6 DEF HostCreates, connVars
  <2>2. Head(mailbox) \in FrontendRequest
    BY <2>1, HeadTailProperties DEF Types
  <2>3. PICK r \in Req : r = Head(mailbox).of
    BY <2>1, <2>2 DEF FrontendRequest
  <2>4. StandingBy
    <3>1. CASE UNCHANGED req
      BY <3>1 DEF StandingBy
    <3>2. CASE req[r].pc = "ask" /\ Becomes(r, [req[r] EXCEPT !.pc = "reply"])
      <4>1. req[r].status # "cancelled"
        BY <3>2 DEF Requests
      <4>2. \A q \in Req \ {r} : req'[q] = req[q]
        BY <3>2 DEF Becomes, Types
      <4> QED BY <3>2, <4>1, <4>2 DEF StandingBy
    <3> QED BY <1>6, <2>3, <3>1, <3>2 DEF HostCreates
  <2>5. ASSUME NEW d \in Conn, registered'[d]
        PROVE  \/ ToldToClose(d)'
               \/ \E q \in Req : req'[q].pc = "reply" /\ req'[q].conn = d
               \/ Abandoned("create", d)'
               \/ Served(d)'
    <3>1. Head(mailbox) # [kind |-> "Close", of |-> d]
      BY <2>1
    <3>2. ToldToClose(d) => ToldToClose(d)'
      BY <2>1, <3>1, ToldStays
    <3>3. CASE registered[d]
      BY <2>1, <2>4, <2>5, <3>2, <3>3, StillAttended DEF Served
    <3>4. CASE ~registered[d]
      <4>1. req[r].pc = "ask" /\ Becomes(r, [req[r] EXCEPT !.pc = "reply"])
            /\ registered' = [registered EXCEPT ![req[r].conn] = TRUE]
        BY <1>6, <2>3, <2>5, <3>4 DEF HostCreates
      <4>2. req[r].conn = d
        BY <2>5, <3>4, <4>1 DEF Types
      <4>3. req'[r].pc = "reply" /\ req'[r].conn = d
        BY <4>1, <4>2 DEF Becomes, Types, Request
      <4> QED BY <4>3
    <3> QED BY <3>3, <3>4
  <2> QED BY <2>5 DEF FrontendAttended
<1> QED BY <1>1, <1>2, <1>3, <1>4, <1>5, <1>6 DEF Next

-----------------------------------------------------------------------------

LEMMA StepIInv == IInv /\ [Next]_vars => IInv'
<1> SUFFICES ASSUME IInv, [Next]_vars PROVE IInv'
  OBVIOUS
<1>1. Types /\ Requests /\ Pumps /\ NewestKept /\ LeaseOwned /\ NoStreamSleeps
      /\ FrontendAttended /\ BufferTypeOK
  BY DEF IInv, Types
<1>2. BufferStep
  BY <1>1, StepsOnBuffer
<1>3. Types' /\ Requests' /\ Pumps'
  BY <1>1, TypesInductive, RequestsInductive, PumpsInductive
<1>4. NewestKept' /\ LeaseOwned' /\ NoStreamSleeps'
  BY <1>1, <1>2, KeptInductive, LeaseInductive, SleepInductive
<1>5. FrontendAttended'
  BY <1>1, AttendedInductive
<1> QED BY <1>3, <1>4, <1>5 DEF IInv

THEOREM Invariance == Spec => []IInv
BY InitIInv, StepIInv, PTL DEF Spec

(* No stream sleeps while the buffer it reads has a message or has ended:  *)
(* push and close wake it, for any number of connections and streams.      *)
THEOREM StreamsAreWoken == Spec => []NoStreamSleeps
<1>1. IInv => NoStreamSleeps
  BY DEF IInv
<1> QED BY <1>1, Invariance, PTL

(* The lease of a connection is held by exactly one living stream or by    *)
(* none, so a connection is never locked against a reader that is gone.    *)
THEOREM LeaseHeld == Spec => []LeaseOwned
<1>1. IInv => LeaseOwned
  BY DEF IInv
<1> QED BY <1>1, Invariance, PTL

(* A registered frontend is always attended to, unless its client went     *)
(* away in the middle of its own create or delete.                         *)
THEOREM FrontendsAttended == Spec => []FrontendAttended
<1>1. IInv => FrontendAttended
  BY DEF IInv
<1> QED BY <1>1, Invariance, PTL

(* The transport implements the channel of LatestChannel: in order, at     *)
(* most once, and the newest Room messages for a reader who is behind.     *)
THEOREM ChannelImplemented == Spec => ImplementsLatest
<1>1. Init => Latest!Init
  <2>1. ASSUME Init PROVE [c \in Conn |-> Len(queue[c])] = [c \in Conn |-> 0]
    BY <2>1 DEF Init, BufferInit
  <2> QED BY <2>1 DEF Init, BufferInit, Latest!Init
<1>2. IInv /\ [Next]_vars =>
        [Latest!Next]_<<pumped, [c \in Conn |-> Len(queue[c])], seen, closed>>
  <2> SUFFICES ASSUME IInv, [Next]_vars
               PROVE  ChannelStep
    BY DEF ChannelStep, Held
  <2>1. BufferStep
    BY StepsOnBuffer DEF IInv
  <2> QED BY <2>1, BufferImplementsChannel DEF IInv, Types
<1> QED BY <1>1, <1>2, Invariance, PTL DEF Spec, ImplementsLatest, Latest!Spec

-----------------------------------------------------------------------------
(* The writer's lock, and what is written under it.                        *)

(* Every place at a lock belongs to one request that waits for it. *)
Places ==
  /\ wlock \in [Conn -> Seq(Req)]
  /\ \A c \in Conn : \A i \in 1 .. Len(wlock[c]) :
       req[wlock[c][i]].pc = "lock" /\ req[wlock[c][i]].conn = c
  /\ \A c \in Conn : \A i, j \in 1 .. Len(wlock[c]) :
       wlock[c][i] = wlock[c][j] => i = j

(* Only the holder of a lock has written, and only to a connection that    *)
(* was made.                                                               *)
Parts ==
  /\ \A r \in Req :
       /\ req[r].pc = "body" => req[r].part = 0
       /\ req[r].pc = "lock" /\ req[r].part # 0 => HoldsWriter(r)
       /\ req[r].pc \in {"body", "lock"} => pump[req[r].conn] # "none"
  /\ \A c \in Conn : pump[c] = "none" => wlock[c] = << >> /\ line[c] = << >>

Left(x) == req[x[1]].status = "cancelled"

Whole(l) ==
  /\ Len(l) >= 2
  /\ l[Len(l) - 1][2] = 1
  /\ l[Len(l)] = <<l[Len(l) - 1][1], 2>>
  /\ \A k \in 1 .. Len(l) - 2 : Left(l[k])

(* The parts of its message that the holder of the lock has written. *)
Part(c) == IF wlock[c] = << >> THEN 0 ELSE req[Head(wlock[c])].part

Begun(c) ==
  \E n \in Nat :
    /\ Len(line[c]) = n + Part(c)
    /\ \A k \in 1 .. n : Left(line[c][k])
    /\ \A k \in 1 .. Part(c) : line[c][n + k] = <<Head(wlock[c]), k>>

Writable(c) == writer[c] /\ upstream[c] = "up"

(* While a connection can be written to, its line is what was left by      *)
(* clients that went away and what the holder of its lock has written.     *)
Lines ==
  /\ line \in [Conn -> Seq(Req \X (1 .. 2))]
  /\ lines \in [Conn -> Seq(Seq(Req \X (1 .. 2)))]
  /\ \A c \in Conn : Writable(c) => Begun(c)
  /\ \A c \in Conn : \A i \in 1 .. Len(lines[c]) : Whole(lines[c][i])

WriterInv == Places /\ Parts /\ Lines

-----------------------------------------------------------------------------
(* What a step does to the locks and the lines. *)

(* Nobody comes to a lock or goes from it. *)
AllStand ==
  \A q \in Req :
    /\ req[q].pc = "lock" => req'[q] = req[q]
    /\ req'[q].pc = "lock" => req[q].pc = "lock"
    /\ req'[q].pc = "body" =>
         \/ req'[q] = req[q]
         \/ req'[q].part = 0 /\ pump[req'[q].conn] # "none"
    /\ req[q].status = "cancelled" => req'[q].status = "cancelled"

(* A connection that was made stays so. *)
NoneUnmade == \A c \in Conn : pump'[c] = "none" => pump[c] = "none"

(* A connection that can be written to could be before, or is new. *)
NoneReopened ==
  /\ NoneUnmade
  /\ \A c \in Conn : Writable(c)' => Writable(c) \/ pump[c] = "none"

Passes == UNCHANGED <<wlock, line, lines>> /\ AllStand /\ NoneReopened

OthersStand(r) == \A q \in Req \ {r} : req'[q] = req[q]

Joins(r, c) ==
  /\ req[r].pc # "lock" /\ req[r].status # "cancelled"
  /\ req'[r].pc = "lock" /\ req'[r].conn = c /\ req'[r].part = 0
  /\ OthersStand(r)
  /\ pump[c] # "none"
  /\ Queue(r, c)
  /\ UNCHANGED <<line, lines, pump, writer, upstream>>

Leaves(r) ==
  /\ req[r].pc = "lock" /\ req'[r].pc = "over"
  /\ req'[r].conn = req[r].conn
  /\ OthersStand(r)
  /\ Unlock(r)
  /\ req'[r].status = "cancelled" \/ ~Writable(req[r].conn)'
  /\ NoneUnmade
  /\ \A c \in Conn : Writable(c)' => Writable(c)
  /\ UNCHANGED <<line, lines>>

WriterStep ==
  \/ Passes
  \/ \E r \in Req, c \in Conn : Joins(r, c)
  \/ \E r \in Req : PostWrites(r) \/ PostEndsLine(r) \/ Leaves(r)

LEMMA AnswerStands ==
  ASSUME Types, Requests, NEW r \in Req, NEW s, Answer(r, s),
         req[r].pc \notin {"lock", "over"}
  PROVE  AllStand
BY DEF Types, Requests, Answer, Becomes, Request, AllStand

LEMMA ArrivalStands ==
  ASSUME Types, Requests, NEW r \in Req, req[r].pc = "new",
         NEW x, Becomes(r, x), x.pc # "lock",
         x.pc = "body" => x.part = 0 /\ pump[x.conn] # "none"
  PROVE  AllStand
BY DEF Types, Requests, Becomes, AllStand

LEMMA AnswerOver ==
  ASSUME Types, NEW r \in Req, NEW s, Answer(r, s)
  PROVE  /\ req'[r].pc = "over" /\ req'[r].status = s
         /\ req'[r].conn = req[r].conn /\ req'[r].part = req[r].part
         /\ OthersStand(r)
BY DEF Types, Answer, Becomes, Request, OthersStand

LEMMA StepsUnderLock ==
  ASSUME Types, Requests, Pumps, Parts, [Next]_vars
  PROVE  WriterStep
<1>1. CASE UNCHANGED vars
  BY <1>1 DEF vars, connVars, hostVars, WriterStep, Passes, AllStand,
       NoneReopened, NoneUnmade, Writable
<1>2. ASSUME NEW r \in Req, Arrival(r)
      PROVE  WriterStep
  <2>1. ASSUME NEW c \in Conn, DeleteArrives(r, c)
        PROVE  WriterStep
    <3>1. /\ req' = [req EXCEPT ![r] = Standing("lock", "delete", c, "none")]
          /\ req[r].pc = "new" /\ table[c] /\ Queue(r, c)
          /\ UNCHANGED <<line, lines, pump, writer, upstream>>
      BY <2>1 DEF DeleteArrives, Arrive, IsNext, Becomes, hostVars
    <3>2. Joins(r, c)
      BY <3>1 DEF Joins, OthersStand, Standing, Requests, Pumps, Types
    <3> QED BY <3>2 DEF WriterStep
  <2>2. ASSUME NEW c \in Conn, NEW op \in {"post", "get", "delete"},
               \/ CreateArrives(r, c) \/ PostArrives(r, c) \/ StreamArrives(r, c)
               \/ StreamRefused(r, c) \/ UnknownConnection(r, op, c)
        PROVE  WriterStep
    <3>1. /\ UNCHANGED <<table, writer, wlock, pump, upstream, line, lines>>
          /\ req[r].pc = "new"
      BY <2>2 DEF CreateArrives, PostArrives, StreamArrives, StreamRefused,
           UnknownConnection, Arrive, Refuse, IsNext, connVars, hostVars
    <3>2. PICK x \in {"ask", "body", "stream", "over"},
               o \in {"create", "post", "get", "delete"},
               s \in {"none", "unknown", "conflict", "gone"} :
               /\ Becomes(r, Standing(x, o, c, s))
               /\ x = "body" => table[c]
      BY <2>2 DEF CreateArrives, PostArrives, StreamArrives, StreamRefused,
           UnknownConnection, Arrive, Refuse
    <3>3. AllStand
      BY <3>1, <3>2, ArrivalStands DEF Standing, Pumps
    <3> QED BY <3>1, <3>3 DEF WriterStep, Passes, NoneReopened, NoneUnmade, Writable
  <2> QED BY <1>2, <2>1, <2>2 DEF Arrival
<1>3. ASSUME NEW r \in Req, HandlerStep(r)
      PROVE  WriterStep
  <2>1. CASE CreateReplied(r)
    <3>1. pump[req[r].conn] = "none" /\ req[r].conn \in Conn
      BY <2>1 DEF CreateReplied, Pumps, Requests
    <3>2. AllStand
      BY <2>1, AnswerStands DEF CreateReplied
    <3>3. NoneReopened
      BY <2>1, <3>1 DEF CreateReplied, NoneReopened, NoneUnmade, Writable, Types, hostVars
    <3> QED BY <2>1, <3>2, <3>3 DEF CreateReplied, hostVars, WriterStep, Passes
  <2>2. CASE PostRefused(r)
    <3>1. AllStand
      BY <2>2, AnswerStands DEF PostRefused
    <3> QED BY <2>2, <3>1 DEF PostRefused, connVars, hostVars, WriterStep, Passes,
                 NoneReopened, NoneUnmade, Writable
  <2>3. CASE PostQueues(r)
    <3>1. /\ req[r].pc = "body" /\ req[r].part = 0 /\ req[r].conn \in Conn
          /\ req[r].status # "cancelled" /\ pump[req[r].conn] # "none"
      BY <2>3 DEF PostQueues, Parts, Requests
    <3>2. /\ req'[r].pc = "lock" /\ req'[r].part = 0 /\ req'[r].conn = req[r].conn
          /\ OthersStand(r)
      BY <2>3, <3>1 DEF PostQueues, Becomes, Types, Request, OthersStand
    <3>3. Joins(r, req[r].conn)
      BY <2>3, <3>1, <3>2 DEF PostQueues, hostVars, Joins
    <3> QED BY <3>1, <3>3 DEF WriterStep
  <2>4. CASE PostFails(r)
    <3>1. Leaves(r)
      BY <2>4, AnswerOver DEF PostFails, HoldsWriter, Leaves, NoneUnmade,
           Writable, hostVars
    <3> QED BY <3>1 DEF WriterStep
  <2>5. CASE StreamPolls(r)
    <3>1. AllStand
      <4>1. CASE UNCHANGED req
        BY <4>1 DEF AllStand
      <4>2. CASE Answer(r, "ok")
        <5>1. req[r].pc = "stream"
          BY <2>5 DEF StreamPolls, NextMessage, Requests, Live
        <5> QED BY <4>2, <5>1, AnswerStands
      <4> QED BY <2>5, <4>1, <4>2 DEF StreamPolls
    <3> QED BY <2>5, <3>1 DEF StreamPolls, connVars, hostVars, WriterStep, Passes,
                 NoneReopened, NoneUnmade, Writable
  <2>6. CASE DeleteCloses(r)
    <3>1. req[r].conn \in Conn /\ req[r].pc = "lock"
      BY <2>6 DEF DeleteCloses, HoldsWriter, Requests
    <3>2. /\ req'[r].pc = "over" /\ req'[r].conn = req[r].conn /\ OthersStand(r)
      BY <2>6, AnswerOver DEF DeleteCloses
    <3>3. /\ \A c \in Conn : pump'[c] = "none" => pump[c] = "none"
          /\ \A c \in Conn : Writable(c)' => Writable(c)
          /\ ~Writable(req[r].conn)'
      BY <2>6, <3>1, <3>2 DEF DeleteCloses, Writable, Types
    <3>4. Leaves(r)
      BY <2>6, <3>1, <3>2, <3>3 DEF DeleteCloses, Leaves, NoneUnmade
    <3> QED BY <3>4 DEF WriterStep
  <2>7. CASE Cancel(r)
    <3>1. /\ req'[r].pc = "over" /\ req'[r].status = "cancelled"
          /\ req'[r].conn = req[r].conn /\ OthersStand(r)
      BY <2>7, AnswerOver DEF Cancel
    <3>2. /\ NoneUnmade /\ \A c \in Conn : Writable(c)' => Writable(c)
          /\ UNCHANGED <<line, lines, pump, writer, upstream>>
      BY <2>7 DEF Cancel, hostVars, NoneUnmade, Writable
    <3>3. CASE req[r].pc = "lock"
      BY <2>7, <3>1, <3>2, <3>3 DEF Cancel, Leaves, WriterStep
    <3>4. CASE req[r].pc # "lock"
      <4>1. AllStand
        BY <2>7, <3>4, AnswerStands DEF Cancel
      <4> QED BY <2>7, <3>2, <3>4, <4>1 DEF Cancel, Passes, NoneReopened, WriterStep
    <3> QED BY <3>3, <3>4
  <2> QED BY <1>3, <2>1, <2>2, <2>3, <2>4, <2>5, <2>6, <2>7
          DEF HandlerStep, WriterStep
<1>4. ASSUME NEW c \in Conn, ConnStep(c)
      PROVE  WriterStep
  <2>1. UNCHANGED <<wlock, line, lines, req, writer>> /\ AllStand
    BY <1>4 DEF ConnStep, PumpReads, PumpSeesEof, PumpGivesUp, PumpStops,
         HostEnds, connVars, hostVars, AllStand
  <2>2. /\ \A d \in Conn : pump'[d] = "none" => pump[d] = "none"
        /\ \A d \in Conn : upstream'[d] = "up" => upstream[d] = "up"
    BY <1>4 DEF ConnStep, PumpReads, PumpSeesEof, PumpGivesUp, PumpStops,
         HostEnds, connVars, hostVars, Types
  <2> QED BY <2>1, <2>2 DEF NoneReopened, NoneUnmade, Writable, Passes, WriterStep
<1>5. CASE HostCloses
  <2>1. UNCHANGED <<wlock, line, lines, req, writer, pump>> /\ AllStand
    BY <1>5 DEF HostCloses, connVars, AllStand
  <2>2. \A d \in Conn : upstream'[d] = "up" => upstream[d] = "up"
    BY <1>5 DEF HostCloses, Types
  <2> QED BY <2>1, <2>2 DEF NoneReopened, NoneUnmade, Writable, Passes, WriterStep
<1>6. CASE HostCreates
  <2> DEFINE r == Head(mailbox).of
  <2>1. UNCHANGED <<wlock, line, lines, writer, pump>>
    BY <1>6 DEF HostCreates, connVars
  <2>2. CASE UNCHANGED <<upstream, req>>
    BY <2>1, <2>2 DEF AllStand, NoneReopened, NoneUnmade, Writable, Passes, WriterStep
  <2>3. CASE /\ req[r].pc = "ask"
             /\ upstream' = [upstream EXCEPT ![req[r].conn] = "up"]
             /\ Becomes(r, [req[r] EXCEPT !.pc = "reply"])
    <3>1. r \in Req
      <4>1. Head(mailbox) \in FrontendRequest
        BY <1>6, HeadTailProperties DEF HostCreates, Types
      <4> QED BY <1>6, <4>1 DEF HostCreates, FrontendRequest
    <3>2. pump[req[r].conn] = "none" /\ req[r].conn \in Conn
      BY <2>3, <3>1 DEF Pumps, Requests
    <3>3. AllStand
      BY <2>3, <3>1 DEF Becomes, AllStand, Types, Request, Requests
    <3>4. NoneReopened
      BY <2>1, <2>3, <3>2 DEF NoneReopened, NoneUnmade, Writable, Types
    <3> QED BY <2>1, <3>3, <3>4 DEF Passes, WriterStep
  <2> QED BY <1>6, <2>2, <2>3 DEF HostCreates
<1> QED BY <1>1, <1>2, <1>3, <1>4, <1>5, <1>6 DEF Next

(* A place at a lock is given up. *)
LEMMA RemoveAtProperties ==
  ASSUME NEW S, NEW s \in Seq(S), NEW i \in 1 .. Len(s)
  PROVE  /\ RemoveAt(s, i) \in Seq(S)
         /\ Len(RemoveAt(s, i)) = Len(s) - 1
         /\ \A j \in 1 .. Len(s) - 1 :
              RemoveAt(s, i)[j] = IF j < i THEN s[j] ELSE s[j + 1]
<1> DEFINE front == SubSeq(s, 1, i - 1)
           back == SubSeq(s, i + 1, Len(s))
<1>1. Len(s) \in Nat /\ i \in Nat /\ \A j \in 1 .. Len(s) : s[j] \in S
  BY LenProperties
<1>2. /\ front \in Seq(S) /\ Len(front) = i - 1
      /\ \A j \in 1 .. i - 1 : front[j] = s[j]
  <2>1. \A j \in 1 .. i - 1 : s[j] \in S
    BY <1>1
  <2>2. /\ front \in Seq(S) /\ Len(front) = IF 1 <= i - 1 THEN i - 1 - 1 + 1 ELSE 0
        /\ \A j \in 1 .. i - 1 - 1 + 1 : front[j] = s[1 + j - 1]
    BY <1>1, <2>1, SubSeqProperties
  <2> HIDE DEF front
  <2> QED BY <1>1, <2>2
<1>3. /\ back \in Seq(S) /\ Len(back) = Len(s) - i
      /\ \A j \in 1 .. Len(s) - i : back[j] = s[j + i]
  <2>1. \A j \in i + 1 .. Len(s) : s[j] \in S
    BY <1>1
  <2>2. /\ back \in Seq(S)
        /\ Len(back) = IF i + 1 <= Len(s) THEN Len(s) - (i + 1) + 1 ELSE 0
        /\ \A j \in 1 .. Len(s) - (i + 1) + 1 : back[j] = s[(i + 1) + j - 1]
    BY <1>1, <2>1, SubSeqProperties
  <2> HIDE DEF back
  <2>3. \A j \in 1 .. Len(s) - i : (i + 1) + j - 1 = j + i
    BY <1>1
  <2> QED BY <1>1, <2>2, <2>3
<1>4. RemoveAt(s, i) = front \o back
  BY DEF RemoveAt
<1> HIDE DEF front, back
<1>5. /\ front \o back \in Seq(S)
      /\ Len(front \o back) = Len(front) + Len(back)
      /\ \A j \in 1 .. Len(front) + Len(back) :
           (front \o back)[j] = IF j <= Len(front) THEN front[j]
                                                   ELSE back[j - Len(front)]
  BY <1>2, <1>3, ConcatProperties
<1>6. ASSUME NEW j \in 1 .. Len(s) - 1
      PROVE  (front \o back)[j] = IF j < i THEN s[j] ELSE s[j + 1]
  <2>1. CASE j < i
    BY <1>1, <1>2, <1>3, <1>5, <2>1
  <2>2. CASE ~(j < i)
    <3>1. j - (i - 1) \in 1 .. Len(s) - i /\ (j - (i - 1)) + i = j + 1
      BY <1>1, <2>2
    <3>2. (front \o back)[j] = back[j - (i - 1)]
      BY <1>1, <1>2, <1>3, <1>5, <2>2
    <3> QED BY <1>3, <2>2, <3>1, <3>2
  <2> QED BY <2>1, <2>2
<1> QED BY <1>1, <1>2, <1>3, <1>4, <1>5, <1>6

LEMMA Unlocking ==
  ASSUME Places, NEW r \in Req, NEW c \in Conn, req[r].conn = c, Unlock(r)
  PROVE  /\ wlock' \in [Conn -> Seq(Req)]
         /\ wlock[c] # << >>
         /\ \A d \in Conn \ {c} : wlock'[d] = wlock[d]
         /\ \A j \in 1 .. Len(wlock'[c]) :
              wlock'[c][j] # r /\ \E k \in 1 .. Len(wlock[c]) : wlock'[c][j] = wlock[c][k]
         /\ \A i, j \in 1 .. Len(wlock'[c]) : wlock'[c][i] = wlock'[c][j] => i = j
         /\ Head(wlock[c]) # r => wlock'[c] # << >> /\ Head(wlock'[c]) = Head(wlock[c])
<1> DEFINE s == wlock[c]
           t == wlock'[c]
<1>1. s \in Seq(Req) /\ Len(s) \in Nat
  BY DEF Places
<1>2. PICK p \in 1 .. Len(s) : s[p] = r /\ wlock' = [wlock EXCEPT ![c] = RemoveAt(s, p)]
  <2>1. DOMAIN s = 1 .. Len(s)
    BY <1>1
  <2>2. \E i \in DOMAIN s : s[i] = r /\ wlock' = [wlock EXCEPT ![c] = RemoveAt(@, i)]
    BY Zenon DEF Unlock
  <2> QED BY <2>1, <2>2
<1>3. /\ t \in Seq(Req) /\ Len(t) = Len(s) - 1
      /\ \A j \in 1 .. Len(s) - 1 : t[j] = IF j < p THEN s[j] ELSE s[j + 1]
  <2>1. t = RemoveAt(s, p)
    BY <1>2 DEF Places
  <2>2. /\ RemoveAt(s, p) \in Seq(Req) /\ Len(RemoveAt(s, p)) = Len(s) - 1
        /\ \A j \in 1 .. Len(s) - 1 :
             RemoveAt(s, p)[j] = IF j < p THEN s[j] ELSE s[j + 1]
    BY <1>1, RemoveAtProperties, Zenon
  <2> HIDE DEF s, t
  <2> QED BY <2>1, <2>2, Zenon
<1>4. \A i, j \in 1 .. Len(s) : s[i] = s[j] => i = j
  BY DEF Places
<1>5. /\ wlock' \in [Conn -> Seq(Req)]
      /\ \A d \in Conn \ {c} : wlock'[d] = wlock[d]
  BY <1>2, <1>3 DEF Places
<1> HIDE DEF s, t
<1>6. ASSUME NEW j \in 1 .. Len(t)
      PROVE  \E k \in 1 .. Len(s) : k # p /\ t[j] = s[k] /\ k = IF j < p THEN j ELSE j + 1
  <2>1. CASE j < p
    <3>1. j \in 1 .. Len(s) /\ j # p /\ t[j] = s[j]
      BY <1>1, <1>2, <1>3, <2>1
    <3> QED BY <2>1, <3>1
  <2>2. CASE ~(j < p)
    <3>1. j + 1 \in 1 .. Len(s) /\ j + 1 # p /\ t[j] = s[j + 1]
      BY <1>1, <1>2, <1>3, <2>2
    <3> QED BY <2>2, <3>1
  <2> QED BY <2>1, <2>2
<1>7. \A j \in 1 .. Len(t) : t[j] # r /\ \E k \in 1 .. Len(s) : t[j] = s[k]
  BY <1>2, <1>4, <1>6
<1>8. ASSUME NEW i \in 1 .. Len(t), NEW j \in 1 .. Len(t), t[i] = t[j]
      PROVE  i = j
  <2>1. PICK k \in 1 .. Len(s) : t[i] = s[k] /\ k = IF i < p THEN i ELSE i + 1
    BY <1>6
  <2>2. PICK m \in 1 .. Len(s) : t[j] = s[m] /\ m = IF j < p THEN j ELSE j + 1
    BY <1>6
  <2>3. k = m
    BY <1>4, <1>8, <2>1, <2>2
  <2>4. i \in Nat /\ j \in Nat /\ p \in Nat
    BY <1>1, <1>3
  <2> QED BY <2>1, <2>2, <2>3, <2>4
<1>9. s # << >>
  BY <1>1, <1>2
<1>10. ASSUME Head(s) # r
       PROVE  t # << >> /\ Head(t) = Head(s)
  <2>1. Head(s) = s[1]
    BY <1>1, <1>9
  <2>2. p # 1
    BY <1>2, <1>10, <2>1
  <2>3. 1 \in 1 .. Len(s) - 1 /\ 1 < p
    BY <1>1, <1>2, <2>2
  <2>4. t[1] = s[1] /\ t # << >>
    BY <1>1, <1>3, <2>3
  <2>5. Head(t) = t[1]
    BY <1>3, <2>4
  <2> QED BY <2>1, <2>4, <2>5
<1> QED BY <1>5, <1>7, <1>8, <1>9, <1>10 DEF s, t

(* A request takes its place behind all others. *)
LEMMA Queueing ==
  ASSUME Places, NEW r \in Req, NEW c \in Conn, Queue(r, c)
  PROVE  /\ wlock' \in [Conn -> Seq(Req)]
         /\ \A d \in Conn \ {c} : wlock'[d] = wlock[d]
         /\ wlock'[c] # << >>
         /\ Len(wlock[c]) \in Nat /\ Len(wlock'[c]) = Len(wlock[c]) + 1
         /\ \A i \in 1 .. Len(wlock[c]) : wlock'[c][i] = wlock[c][i]
         /\ wlock'[c][Len(wlock[c]) + 1] = r
         /\ Head(wlock'[c]) = IF wlock[c] = << >> THEN r ELSE Head(wlock[c])
<1>1. wlock[c] \in Seq(Req) /\ wlock' = [wlock EXCEPT ![c] = Append(wlock[c], r)]
  BY DEF Places, Queue
<1>2. Append(wlock[c], r) \in Seq(Req)
  BY <1>1, AppendProperties
<1>3. /\ wlock' \in [Conn -> Seq(Req)] /\ wlock'[c] = Append(wlock[c], r)
      /\ \A d \in Conn \ {c} : wlock'[d] = wlock[d]
  BY <1>1, <1>2 DEF Places
<1>4. /\ Len(wlock[c]) \in Nat /\ Len(wlock'[c]) = Len(wlock[c]) + 1
      /\ \A i \in 1 .. Len(wlock[c]) : wlock'[c][i] = wlock[c][i]
      /\ wlock'[c][Len(wlock[c]) + 1] = r
  BY <1>1, <1>3, AppendProperties
<1>5. wlock'[c] # << >> /\ Head(wlock'[c]) = wlock'[c][1]
  BY <1>1, <1>3, <1>4
<1>6. wlock[c] # << >> => Head(wlock[c]) = wlock[c][1] /\ 1 \in 1 .. Len(wlock[c])
  BY <1>1
<1>7. wlock[c] = << >> => Len(wlock[c]) + 1 = 1
  BY <1>1
<1> QED BY <1>3, <1>4, <1>5, <1>6, <1>7

LEMMA HeadPlace ==
  ASSUME Places, NEW c \in Conn, wlock[c] # << >>
  PROVE  /\ 1 \in 1 .. Len(wlock[c]) /\ Head(wlock[c]) = wlock[c][1]
         /\ Head(wlock[c]) \in Req
         /\ req[Head(wlock[c])].pc = "lock" /\ req[Head(wlock[c])].conn = c
<1>1. wlock[c] \in Seq(Req)
  BY DEF Places
<1>2. 1 \in 1 .. Len(wlock[c]) /\ Head(wlock[c]) = wlock[c][1] /\ Head(wlock[c]) \in Req
  BY <1>1
<1> QED BY <1>2 DEF Places

LEMMA PlacesInductive ==
  ASSUME Types, Requests, Places, WriterStep
  PROVE  Places'
<1>1. CASE Passes
  BY <1>1 DEF Passes, AllStand, Places
<1>2. ASSUME NEW r \in Req, NEW c \in Conn, Joins(r, c)
      PROVE  Places'
  <2>1. \A d \in Conn \ {c} : wlock'[d] = wlock[d]
    BY <1>2, Queueing DEF Joins
  <2>2. \A d \in Conn : \A i \in 1 .. Len(wlock[d]) :
          wlock[d][i] # r /\ req'[wlock[d][i]] = req[wlock[d][i]]
    <3>1. \A d \in Conn : \A i \in 1 .. Len(wlock[d]) : wlock[d][i] \in Req
      BY DEF Places
    <3> QED BY <1>2, <3>1 DEF Joins, Places, OthersStand
  <2>3. ASSUME NEW i \in 1 .. Len(wlock'[c])
        PROVE  \/ i \in 1 .. Len(wlock[c]) /\ wlock'[c][i] = wlock[c][i]
               \/ i = Len(wlock[c]) + 1 /\ wlock'[c][i] = r
    BY <1>2, Queueing DEF Joins
  <2>4. wlock' \in [Conn -> Seq(Req)]
    BY <1>2, Queueing DEF Joins
  <2>5. ASSUME NEW d \in Conn, NEW i \in 1 .. Len(wlock'[d])
        PROVE  req'[wlock'[d][i]].pc = "lock" /\ req'[wlock'[d][i]].conn = d
    <3>1. CASE i \in 1 .. Len(wlock[d]) /\ wlock'[d][i] = wlock[d][i]
      BY <2>2, <3>1 DEF Places
    <3>2. CASE d = c /\ wlock'[d][i] = r
      BY <1>2, <3>2 DEF Joins
    <3> QED BY <2>1, <2>3, <3>1, <3>2
  <2>6. ASSUME NEW d \in Conn, NEW i \in 1 .. Len(wlock'[d]), NEW j \in 1 .. Len(wlock'[d]),
               wlock'[d][i] = wlock'[d][j]
        PROVE  i = j
    BY <2>1, <2>2, <2>3, <2>6 DEF Places
  <2> QED BY <2>4, <2>5, <2>6 DEF Places
<1>3. ASSUME NEW r \in Req, PostWrites(r)
      PROVE  Places'
  <2>1. \A q \in Req : req'[q].pc = req[q].pc /\ req'[q].conn = req[q].conn
    BY <1>3 DEF PostWrites, Becomes, Types, Request
  <2>2. wlock' = wlock /\ \A d \in Conn : \A i \in 1 .. Len(wlock[d]) : wlock[d][i] \in Req
    BY <1>3 DEF PostWrites, connVars, Places
  <2> QED BY <2>1, <2>2 DEF Places
<1>4. ASSUME NEW r \in Req, req[r].pc = "lock", OthersStand(r), Unlock(r)
      PROVE  Places'
  <2> DEFINE c == req[r].conn
  <2>1. c \in Conn
    BY <1>4 DEF Requests
  <2>2. /\ wlock' \in [Conn -> Seq(Req)]
        /\ \A d \in Conn \ {c} : wlock'[d] = wlock[d]
        /\ \A j \in 1 .. Len(wlock'[c]) :
             wlock'[c][j] # r /\ \E k \in 1 .. Len(wlock[c]) : wlock'[c][j] = wlock[c][k]
        /\ \A i, j \in 1 .. Len(wlock'[c]) : wlock'[c][i] = wlock'[c][j] => i = j
    BY <1>4, <2>1, Unlocking
  <2>3. \A d \in Conn : \A i \in 1 .. Len(wlock[d]) : wlock[d][i] \in Req
    BY DEF Places
  <2>4. ASSUME NEW d \in Conn, NEW i \in 1 .. Len(wlock'[d])
        PROVE  req'[wlock'[d][i]].pc = "lock" /\ req'[wlock'[d][i]].conn = d
    <3>1. PICK k \in 1 .. Len(wlock[d]) : wlock'[d][i] = wlock[d][k]
      BY <2>2
    <3>2. wlock'[d][i] # r
      <4>1. CASE d = c
        BY <2>2, <4>1
      <4>2. CASE d # c
        BY <3>1, <4>2 DEF Places
      <4> QED BY <4>1, <4>2
    <3> QED BY <1>4, <2>3, <3>1, <3>2 DEF Places, OthersStand
  <2>5. ASSUME NEW d \in Conn, NEW i \in 1 .. Len(wlock'[d]), NEW j \in 1 .. Len(wlock'[d]),
               wlock'[d][i] = wlock'[d][j]
        PROVE  i = j
    <3>1. CASE d = c
      BY <2>2, <2>5, <3>1
    <3>2. CASE d # c
      <4>1. wlock'[d] = wlock[d]
        BY <2>2, <3>2
      <4> QED BY <2>5, <4>1 DEF Places
    <3> QED BY <3>1, <3>2
  <2> QED BY <2>2, <2>4, <2>5 DEF Places
<1>5. ASSUME NEW r \in Req, PostEndsLine(r)
      PROVE  Places'
  BY <1>4, <1>5, AnswerOver DEF PostEndsLine, HoldsWriter
<1>6. ASSUME NEW r \in Req, Leaves(r)
      PROVE  Places'
  BY <1>4, <1>6 DEF Leaves
<1> QED BY <1>1, <1>2, <1>3, <1>5, <1>6 DEF WriterStep

(* A request that leaves its lock to the next. *)
LEMMA LeavingParts ==
  ASSUME Types, Requests, Places, Parts, NEW r \in Req, req[r].pc = "lock",
         req'[r].pc = "over", OthersStand(r), Unlock(r),
         \A c \in Conn : pump'[c] = "none" => pump[c] = "none",
         \A c \in Conn : line[c] = << >> => line'[c] = << >>
  PROVE  Parts'
<1> DEFINE c == req[r].conn
<1>1. c \in Conn /\ pump[c] # "none"
  BY DEF Requests, Parts
<1>2. /\ \A d \in Conn \ {c} : wlock'[d] = wlock[d]
      /\ Head(wlock[c]) # r => wlock'[c] # << >> /\ Head(wlock'[c]) = Head(wlock[c])
  BY <1>1, Unlocking
<1>3. \A d \in Conn : pump'[d] = "none" => wlock'[d] = << >> /\ line'[d] = << >>
  BY <1>1, <1>2 DEF Parts
<1>4. ASSUME NEW q \in Req, req'[q].pc \in {"body", "lock"}
      PROVE  /\ req'[q] = req[q] /\ q # r /\ req[q].conn \in Conn
             /\ pump'[req'[q].conn] # "none"
             /\ req[q].pc = "body" => req[q].part = 0
  <2>1. req'[q] = req[q] /\ q # r
    BY <1>4 DEF OthersStand
  <2>2. req[q].conn \in Conn /\ pump[req[q].conn] # "none"
    BY <1>4, <2>1 DEF Requests, Parts
  <2> QED BY <1>4, <2>1, <2>2 DEF Parts
<1>5. ASSUME NEW q \in Req, req'[q].pc = "lock", req'[q].part # 0
      PROVE  HoldsWriter(q)'
  <2>1. q # r /\ req'[q] = req[q] /\ HoldsWriter(q) /\ req[q].conn \in Conn
    BY <1>4, <1>5 DEF Parts
  <2>2. wlock'[req[q].conn] # << >> /\ Head(wlock'[req[q].conn]) = q
    BY <1>2, <2>1 DEF HoldsWriter
  <2> QED BY <1>5, <2>1, <2>2 DEF HoldsWriter
<1> QED BY <1>3, <1>4, <1>5 DEF Parts

LEMMA PartsInductive ==
  ASSUME Types, Requests, Requests', Places, Parts, WriterStep
  PROVE  Parts'
<1>1. CASE Passes
  <2>1. ASSUME NEW q \in Req
        PROVE  /\ req'[q].pc = "body" => req'[q].part = 0
               /\ req'[q].pc = "lock" /\ req'[q].part # 0 => HoldsWriter(q)'
               /\ req'[q].pc \in {"body", "lock"} => pump'[req'[q].conn] # "none"
    <3>1. req'[q].pc \in {"body", "lock"} => req'[q].conn \in Conn
      BY DEF Requests
    <3>2. req'[q].pc = "lock" => req'[q] = req[q]
      BY <1>1 DEF Passes, AllStand
    <3>3. wlock' = wlock
      BY <1>1 DEF Passes
    <3> QED BY <1>1, <3>1, <3>2, <3>3
            DEF Passes, AllStand, NoneReopened, NoneUnmade, Parts, HoldsWriter
  <2>2. \A c \in Conn : pump'[c] = "none" => wlock'[c] = << >> /\ line'[c] = << >>
    BY <1>1 DEF Passes, NoneReopened, NoneUnmade, Parts
  <2> QED BY <2>1, <2>2 DEF Parts
<1>2. ASSUME NEW r \in Req, NEW c \in Conn, Joins(r, c)
      PROVE  Parts'
  <2>1. /\ \A d \in Conn \ {c} : wlock'[d] = wlock[d]
        /\ wlock'[c] # << >>
        /\ wlock[c] # << >> => Head(wlock'[c]) = Head(wlock[c])
    BY <1>2, Queueing DEF Joins
  <2>2. \A d \in Conn : pump'[d] = "none" => wlock'[d] = << >> /\ line'[d] = << >>
    BY <1>2, <2>1 DEF Joins, Parts
  <2>3. ASSUME NEW q \in Req
        PROVE  /\ req'[q].pc = "body" => req'[q].part = 0
               /\ req'[q].pc = "lock" /\ req'[q].part # 0 => HoldsWriter(q)'
               /\ req'[q].pc \in {"body", "lock"} => pump'[req'[q].conn] # "none"
    <3>1. CASE q = r
      BY <1>2, <3>1 DEF Joins
    <3>2. CASE q # r
      <4>1. req'[q] = req[q] /\ pump' = pump
        BY <1>2, <3>2 DEF Joins, OthersStand
      <4>2. ASSUME req[q].pc = "lock", req[q].part # 0
            PROVE  HoldsWriter(q)'
        <5>1. req[q].conn \in Conn /\ HoldsWriter(q)
          BY <4>2 DEF Parts, Requests
        <5>2. wlock'[req[q].conn] # << >> /\ Head(wlock'[req[q].conn]) = q
          BY <2>1, <5>1 DEF HoldsWriter
        <5> QED BY <4>1, <4>2, <5>2 DEF HoldsWriter
      <4> QED BY <4>1, <4>2 DEF Parts
    <3> QED BY <3>1, <3>2
  <2> QED BY <2>2, <2>3 DEF Parts
<1>3. ASSUME NEW r \in Req, PostWrites(r)
      PROVE  Parts'
  <2>1. /\ UNCHANGED <<wlock, pump>> /\ HoldsWriter(r)
        /\ line' = [line EXCEPT ![req[r].conn] = Append(@, <<r, req[r].part + 1>>)]
    BY <1>3 DEF PostWrites, connVars
  <2>2. /\ \A q \in Req : req'[q].pc = req[q].pc /\ req'[q].conn = req[q].conn
        /\ \A q \in Req \ {r} : req'[q] = req[q]
    BY <1>3 DEF PostWrites, Becomes, Types, Request
  <2>3. req[r].pc = "lock" /\ pump[req[r].conn] # "none"
    BY <2>1 DEF HoldsWriter, Parts
  <2>4. \A d \in Conn : pump'[d] = "none" => wlock'[d] = << >> /\ line'[d] = << >>
    BY <2>1, <2>3 DEF Parts
  <2>5. HoldsWriter(r)'
    BY <2>1, <2>2 DEF HoldsWriter
  <2>6. ASSUME NEW q \in Req \ {r}
        PROVE  /\ req'[q].pc = "body" => req'[q].part = 0
               /\ req'[q].pc = "lock" /\ req'[q].part # 0 => HoldsWriter(q)'
    BY <2>1, <2>2 DEF Parts, HoldsWriter
  <2>7. \A q \in Req : req'[q].pc \in {"body", "lock"} => pump'[req'[q].conn] # "none"
    BY <2>1, <2>2 DEF Parts
  <2> QED BY <2>2, <2>3, <2>4, <2>5, <2>6, <2>7 DEF Parts
<1>4. ASSUME NEW r \in Req, PostEndsLine(r)
      PROVE  Parts'
  <2>1. UNCHANGED pump /\ line' = [line EXCEPT ![req[r].conn] = << >>]
    BY <1>4 DEF PostEndsLine
  <2>2. \A c \in Conn : line[c] = << >> => line'[c] = << >>
    BY <2>1
  <2> QED BY <1>4, <2>1, <2>2, AnswerOver, LeavingParts
          DEF PostEndsLine, HoldsWriter
<1>5. ASSUME NEW r \in Req, Leaves(r)
      PROVE  Parts'
  BY <1>5, LeavingParts DEF Leaves, NoneUnmade
<1> QED BY <1>1, <1>2, <1>3, <1>4, <1>5 DEF WriterStep

-----------------------------------------------------------------------------
(* The lines. *)

(* Clients that are gone stay gone. *)
LEMMA CancelledStay ==
  ASSUME Types, Requests, WriterStep, NEW x, x[1] \in Req, Left(x)
  PROVE  req'[x[1]].status = "cancelled"
<1>1. CASE Passes
  BY <1>1 DEF Passes, AllStand, Left
<1>2. ASSUME NEW r \in Req, req[r].status # "cancelled", OthersStand(r)
      PROVE  req'[x[1]].status = "cancelled"
  BY <1>2 DEF Left, OthersStand
<1>3. ASSUME NEW r \in Req, PostWrites(r)
      PROVE  OthersStand(r) /\ req[r].pc = "lock"
  BY <1>3 DEF PostWrites, HoldsWriter, Becomes, Types, OthersStand
<1>4. ASSUME NEW r \in Req, PostEndsLine(r)
      PROVE  OthersStand(r) /\ req[r].pc = "lock"
  BY <1>4, AnswerOver DEF PostEndsLine, HoldsWriter
<1>5. \A r \in Req : req[r].pc = "lock" => req[r].status # "cancelled"
  BY DEF Requests
<1> QED BY <1>1, <1>2, <1>3, <1>4, <1>5 DEF WriterStep, Joins, Leaves

LEMMA WholeStays ==
  ASSUME Types, Requests, WriterStep, NEW l \in Seq(Req \X (1 .. 2)), Whole(l)
  PROVE  Whole(l)'
<1>1. Len(l) \in Nat /\ \A k \in 1 .. Len(l) : l[k][1] \in Req
  BY LenProperties
<1>2. \A k \in 1 .. Len(l) - 2 : req'[l[k][1]].status = "cancelled"
  BY <1>1, CancelledStay DEF Whole
<1> QED BY <1>2 DEF Whole, Left

LEMMA PartType ==
  ASSUME Types, Places, NEW c \in Conn
  PROVE  Part(c) \in 0 .. 2
<1>1. CASE wlock[c] = << >>
  BY <1>1 DEF Part
<1>2. CASE wlock[c] # << >>
  BY <1>2, HeadPlace DEF Part, Types, Request
<1> QED BY <1>1, <1>2

(* The line of a connection whose writer stays as it was. *)
LEMMA BegunStays ==
  ASSUME Types, Requests, Places, WriterStep, Lines, NEW c \in Conn, Begun(c),
         line'[c] = line[c], Part(c)' = Part(c),
         Part(c) # 0 => Head(wlock[c])' = Head(wlock[c])
  PROVE  Begun(c)'
<1>1. PICK n \in Nat : /\ Len(line[c]) = n + Part(c)
                       /\ \A k \in 1 .. n : Left(line[c][k])
                       /\ \A k \in 1 .. Part(c) : line[c][n + k] = <<Head(wlock[c]), k>>
  BY DEF Begun
<1>2. /\ line[c] \in Seq(Req \X (1 .. 2))
      /\ \A k \in 1 .. Len(line[c]) : line[c][k][1] \in Req
  BY LenProperties DEF Lines
<1>3. Part(c) \in Nat
  BY PartType
<1>4. Begun(c)'
  <2>1. \A k \in 1 .. n : line[c][k][1] \in Req
    BY <1>1, <1>2, <1>3
  <2>2. \A k \in 1 .. n : req'[line[c][k][1]].status = "cancelled"
    BY <1>1, <2>1, CancelledStay
  <2>3. \A k \in 1 .. n : Left(line[c][k])'
    BY <2>2 DEF Left
  <2>4. \A k \in 1 .. Part(c)' : line'[c][n + k] = <<Head(wlock'[c]), k>>
    <3>1. CASE Part(c) = 0
      BY <3>1
    <3>2. CASE Part(c) # 0
      BY <1>1, <3>2
    <3> QED BY <3>1, <3>2
  <2> QED BY <1>1, <2>3, <2>4 DEF Begun
<1> QED BY <1>4

(* Steps of a request leave the other connections' lines alone. *)
LEMMA BegunElsewhere ==
  ASSUME Types, Requests, Places, WriterStep, Lines, NEW d \in Conn, Begun(d),
         NEW r \in Req, OthersStand(r),
         wlock[d] # << >> => Head(wlock[d]) # r,
         wlock'[d] = wlock[d], line'[d] = line[d]
  PROVE  Begun(d)'
<1>1. Part(d)' = Part(d)
  <2>1. CASE wlock[d] = << >>
    BY <2>1 DEF Part
  <2>2. CASE wlock[d] # << >>
    BY <2>2, HeadPlace DEF Part, OthersStand
  <2> QED BY <2>1, <2>2
<1> QED BY <1>1, BegunStays

(* Whoever gets the lock has written nothing. *)
LEMMA NextHolder ==
  ASSUME Places, Parts, NEW r \in Req, NEW c \in Conn, req[r].conn = c,
         Head(wlock[c]) = r, Unlock(r), OthersStand(r)
  PROVE  Part(c)' = 0
<1>1. CASE wlock'[c] = << >>
  BY <1>1 DEF Part
<1>2. CASE wlock'[c] # << >>
  <2> DEFINE q == Head(wlock'[c])
  <2>1. wlock'[c] \in Seq(Req)
    BY Unlocking
  <2>2. 1 \in 1 .. Len(wlock'[c]) /\ q = wlock'[c][1] /\ q \in Req
    BY <1>2, <2>1
  <2>3. q # r /\ \E k \in 1 .. Len(wlock[c]) : q = wlock[c][k]
    <3>1. \A j \in 1 .. Len(wlock'[c]) :
            wlock'[c][j] # r /\ \E k \in 1 .. Len(wlock[c]) : wlock'[c][j] = wlock[c][k]
      BY Unlocking
    <3> HIDE DEF q
    <3> QED BY <2>2, <3>1, Zenon
  <2>4. req[q].pc = "lock" /\ req[q].conn = c /\ req'[q] = req[q]
    BY <2>2, <2>3 DEF Places, OthersStand
  <2>5. req[q].part = 0
    BY <2>2, <2>3, <2>4 DEF Parts, HoldsWriter
  <2> QED BY <1>2, <2>4, <2>5 DEF Part
<1> QED BY <1>1, <1>2

LEMMA HolderWrites ==
  ASSUME Types, Requests, Places, Lines, WriterStep, NEW r \in Req, PostWrites(r)
  PROVE  /\ line' \in [Conn -> Seq(Req \X (1 .. 2))]
         /\ Begun(req[r].conn)'
<1> DEFINE c == req[r].conn
           p == req[r].part
           x == <<r, p + 1>>
<1>1. /\ req[r].pc = "lock" /\ wlock[c] # << >> /\ Head(wlock[c]) = r
      /\ p < 2 /\ Writable(c) /\ wlock' = wlock
      /\ line' = [line EXCEPT ![c] = Append(@, x)]
  BY DEF PostWrites, HoldsWriter, Writable, connVars
<1>2. c \in Conn /\ p \in 0 .. 2 /\ p + 1 \in 1 .. 2
  BY <1>1 DEF Requests, Types, Request
<1>3. req'[r].part = p + 1 /\ req'[r].conn = c
  BY DEF PostWrites, Becomes, Types, Request
<1>4. line[c] \in Seq(Req \X (1 .. 2)) /\ x \in Req \X (1 .. 2)
  BY <1>2 DEF Lines
<1>5. Append(line[c], x) \in Seq(Req \X (1 .. 2))
  BY <1>4, AppendProperties
<1>6. line' \in [Conn -> Seq(Req \X (1 .. 2))] /\ line'[c] = Append(line[c], x)
  BY <1>1, <1>2, <1>5 DEF Lines
<1>7. /\ Len(line[c]) \in Nat /\ Len(line'[c]) = Len(line[c]) + 1
      /\ \A k \in 1 .. Len(line[c]) : line'[c][k] = line[c][k]
      /\ line'[c][Len(line[c]) + 1] = x
  <2> HIDE DEF x
  <2>1. /\ Len(line[c]) \in Nat /\ Len(Append(line[c], x)) = Len(line[c]) + 1
        /\ \A k \in 1 .. Len(line[c]) : Append(line[c], x)[k] = line[c][k]
        /\ Append(line[c], x)[Len(line[c]) + 1] = x
    BY <1>4, AppendProperties
  <2> QED BY <1>6, <2>1, Zenon
<1>8. Part(c) = p /\ Part(c)' = p + 1
  BY <1>1, <1>3 DEF Part
<1>9. PICK n \in Nat : /\ Len(line[c]) = n + p
                       /\ \A k \in 1 .. n : Left(line[c][k])
                       /\ \A k \in 1 .. p : line[c][n + k] = <<r, k>>
  BY <1>1, <1>2, <1>8 DEF Lines, Begun
<1>10. \A k \in 1 .. n : line'[c][k] = line[c][k] /\ line[c][k][1] \in Req
  <2>1. \A k \in 1 .. Len(line[c]) : line[c][k] \in Req \X (1 .. 2)
    BY <1>4, LenProperties
  <2>2. \A k \in 1 .. n : k \in 1 .. Len(line[c])
    BY <1>2, <1>9
  <2> QED BY <1>7, <2>1, <2>2
<1>11. \A k \in 1 .. n : req'[line'[c][k][1]].status = "cancelled"
  <2>1. \A k \in 1 .. n : req'[line[c][k][1]].status = "cancelled"
    BY <1>9, <1>10, CancelledStay
  <2> QED BY <1>10, <2>1
<1>12. ASSUME NEW k \in 1 .. p + 1
       PROVE  line'[c][n + k] = <<r, k>>
  <2>1. CASE k = p + 1
    <3>1. n + k = Len(line[c]) + 1
      BY <1>2, <1>9, <2>1
    <3> QED BY <1>7, <2>1, <3>1
  <2>2. CASE k # p + 1
    <3>1. k \in 1 .. p /\ n + k \in 1 .. Len(line[c])
      BY <1>2, <1>9, <2>2
    <3> QED BY <1>7, <1>9, <3>1
  <2> QED BY <2>1, <2>2
<1>13. Len(line'[c]) = n + (p + 1)
  BY <1>2, <1>7, <1>9
<1> HIDE DEF p, x
<1>14. Begun(c)'
  <2>1. c' = c
    BY <1>3
  <2>2. /\ Len(line[c])' = n + Part(c)'
        /\ \A k \in 1 .. n : Left(line[c][k])'
        /\ \A k \in 1 .. Part(c)' : line'[c][n + k] = <<Head(wlock'[c]), k>>
    <3>1. Len(line[c])' = n + Part(c)'
      BY <1>8, <1>13, <2>1
    <3>2. \A k \in 1 .. n : Left(line[c][k])'
      BY <1>11, <2>1 DEF Left
    <3>3. Head(wlock'[c]) = r
      BY <1>1
    <3>4. \A k \in 1 .. Part(c)' : line'[c][n + k] = <<Head(wlock'[c]), k>>
      BY <1>8, <1>12, <3>3
    <3> QED BY <3>1, <3>2, <3>4
  <2> QED BY <2>1, <2>2 DEF Begun
<1> QED BY <1>6, <1>14

(* The line of a message that is complete. *)
LEMMA EndedLineWhole ==
  ASSUME Types, Requests, Places, Lines, NEW r \in Req, PostEndsLine(r)
  PROVE  Whole(line[req[r].conn])
<1> DEFINE c == req[r].conn
           l == line[c]
<1>1. /\ req[r].pc = "lock" /\ wlock[c] # << >> /\ Head(wlock[c]) = r
      /\ req[r].part = 2 /\ Writable(c)
  BY DEF PostEndsLine, HoldsWriter, Writable
<1>2. c \in Conn
  BY <1>1 DEF Requests
<1>3. Part(c) = 2
  BY <1>1 DEF Part
<1>4. PICK n \in Nat : /\ Len(l) = n + 2
                       /\ \A k \in 1 .. n : Left(l[k])
                       /\ \A k \in 1 .. 2 : l[n + k] = <<r, k>>
  BY <1>1, <1>2, <1>3 DEF Lines, Begun
<1> HIDE DEF l
<1>5. l[n + 1] = <<r, 1>> /\ l[n + 2] = <<r, 2>>
  BY <1>4
<1>6. Len(l) - 1 = n + 1 /\ Len(l) - 2 = n /\ Len(l) >= 2
  BY <1>4
<1> QED BY <1>4, <1>5, <1>6 DEF Whole, l

(* A request that gives its place at the lock up leaves what it wrote. *)
LEMMA LeavingBegun ==
  ASSUME Types, Requests, Places, Parts, Lines, WriterStep,
         NEW r \in Req, Leaves(r), NEW c \in Conn, req[r].conn = c,
         req'[r].status = "cancelled", Begun(c)
  PROVE  Begun(c)'
<1>1. /\ OthersStand(r) /\ Unlock(r) /\ line'[c] = line[c]
      /\ wlock[c] # << >>
  BY Unlocking DEF Leaves
<1>2. CASE Head(wlock[c]) # r
  <2>1. wlock'[c] # << >> /\ Head(wlock'[c]) = Head(wlock[c])
    BY <1>1, <1>2, Unlocking
  <2>2. Part(c)' = Part(c)
    BY <1>1, <1>2, <2>1, HeadPlace DEF Part, OthersStand
  <2> QED BY <1>1, <2>1, <2>2, BegunStays
<1>3. CASE Head(wlock[c]) = r
  <2>1. Part(c)' = 0
    BY <1>1, <1>3, NextHolder
  <2>2. PICK n \in Nat : /\ Len(line[c]) = n + Part(c)
                         /\ \A k \in 1 .. n : Left(line[c][k])
                         /\ \A k \in 1 .. Part(c) : line[c][n + k] = <<r, k>>
    BY <1>3 DEF Begun
  <2>3. Part(c) \in 0 .. 2
    BY PartType
  <2>4. \A k \in 1 .. Len(line[c]) : line[c][k][1] \in Req
    BY LenProperties DEF Lines
  <2>5. ASSUME NEW k \in 1 .. Len(line[c])
        PROVE  req'[line[c][k][1]].status = "cancelled"
    <3>1. CASE k <= n
      BY <2>2, <2>4, <3>1, CancelledStay
    <3>2. CASE ~(k <= n)
      <4>1. k - n \in 1 .. Part(c) /\ n + (k - n) = k
        BY <2>2, <2>3, <3>2
      <4>2. line[c][k] = <<r, k - n>>
        BY <2>2, <4>1
      <4> QED BY <4>2
    <3> QED BY <3>1, <3>2
  <2>6. Len(line[c]) \in Nat
    BY <2>2, <2>3
  <2>7. /\ Len(line'[c]) = Len(line[c]) + Part(c)'
        /\ \A k \in 1 .. Len(line[c]) : Left(line[c][k])'
        /\ \A k \in 1 .. Part(c)' : line'[c][Len(line[c]) + k] = <<Head(wlock'[c]), k>>
    BY <1>1, <2>1, <2>5, <2>6 DEF Left
  <2> QED BY <2>6, <2>7 DEF Begun
<1> QED BY <1>2, <1>3

LEMMA LineTypes ==
  ASSUME Types, Requests, Places, Lines, WriterStep
  PROVE  /\ line' \in [Conn -> Seq(Req \X (1 .. 2))]
         /\ lines' \in [Conn -> Seq(Seq(Req \X (1 .. 2)))]
<1>1. CASE UNCHANGED <<line, lines>>
  BY <1>1 DEF Lines
<1>2. ASSUME NEW r \in Req, PostWrites(r)
      PROVE  /\ line' \in [Conn -> Seq(Req \X (1 .. 2))]
             /\ lines' \in [Conn -> Seq(Seq(Req \X (1 .. 2)))]
  BY <1>2, HolderWrites DEF PostWrites, Lines
<1>3. ASSUME NEW r \in Req, PostEndsLine(r)
      PROVE  /\ line' \in [Conn -> Seq(Req \X (1 .. 2))]
             /\ lines' \in [Conn -> Seq(Seq(Req \X (1 .. 2)))]
  <2> DEFINE c == req[r].conn
  <2>1. c \in Conn
    BY <1>3 DEF PostEndsLine, HoldsWriter, Requests
  <2>2. Append(lines[c], line[c]) \in Seq(Seq(Req \X (1 .. 2)))
    BY <2>1, AppendProperties DEF Lines
  <2>3. << >> \in Seq(Req \X (1 .. 2))
    OBVIOUS
  <2> QED BY <1>3, <2>1, <2>2, <2>3 DEF PostEndsLine, Lines
<1> QED BY <1>1, <1>2, <1>3 DEF WriterStep, Passes, Joins, Leaves

LEMMA BegunInductive ==
  ASSUME Types, Requests, Places, Parts, Lines, WriterStep,
         NEW c \in Conn, Writable(c)'
  PROVE  Begun(c)'
<1>1. CASE Passes
  <2>1. CASE Writable(c)
    <3>1. Part(c)' = Part(c)
      <4>1. CASE wlock[c] = << >>
        BY <1>1, <4>1 DEF Passes, Part
      <4>2. CASE wlock[c] # << >>
        <5>1. req'[Head(wlock[c])] = req[Head(wlock[c])]
          BY <1>1, <4>2, HeadPlace DEF Passes, AllStand
        <5> QED BY <1>1, <5>1 DEF Passes, Part
      <4> QED BY <4>1, <4>2
    <3> QED BY <1>1, <2>1, <3>1, BegunStays DEF Passes, Lines
  <2>2. CASE pump[c] = "none"
    <3>1. wlock[c] = << >> /\ line[c] = << >>
      BY <2>2 DEF Parts
    <3>2. wlock'[c] = << >> /\ line'[c] = << >> /\ Part(c)' = 0
      BY <1>1, <3>1 DEF Passes, Part
    <3>3. Len(line'[c]) = 0
      BY <3>2
    <3>4. /\ Len(line'[c]) = 0 + Part(c)'
          /\ \A k \in 1 .. 0 : Left(line[c][k])'
          /\ \A k \in 1 .. Part(c)' : line'[c][0 + k] = <<Head(wlock'[c]), k>>
      BY <3>2, <3>3
    <3> QED BY <3>4 DEF Begun
  <2> QED BY <1>1, <2>1, <2>2 DEF Passes, NoneReopened
<1>2. ASSUME NEW r \in Req, NEW d \in Conn, Joins(r, d)
      PROVE  Begun(c)'
  <2>1. Begun(c) /\ line'[c] = line[c] /\ OthersStand(r)
    BY <1>2 DEF Joins, Writable, Lines
  <2>2. wlock[c] # << >> => Head(wlock[c]) # r
    BY <1>2, HeadPlace DEF Joins
  <2>3. CASE c # d
    BY <1>2, <2>1, <2>2, <2>3, Queueing, BegunElsewhere DEF Joins
  <2>4. CASE c = d
    <3>1. /\ wlock'[c] # << >>
          /\ Head(wlock'[c]) = IF wlock[c] = << >> THEN r ELSE Head(wlock[c])
      BY <1>2, <2>4, Queueing DEF Joins
    <3>2. CASE wlock[c] = << >>
      <4>1. Part(c) = 0 /\ Part(c)' = 0
        BY <1>2, <3>1, <3>2 DEF Part, Joins
      <4> QED BY <2>1, <4>1, BegunStays
    <3>3. CASE wlock[c] # << >>
      <4>1. Part(c)' = Part(c)
        BY <2>1, <2>2, <3>1, <3>3, HeadPlace DEF Part, OthersStand
      <4> QED BY <2>1, <3>1, <3>3, <4>1, BegunStays
    <3> QED BY <3>2, <3>3
  <2> QED BY <2>3, <2>4
<1>3. ASSUME NEW r \in Req, req[r].conn # c, req[r].pc = "lock"
      PROVE  wlock[c] # << >> => Head(wlock[c]) # r
  BY <1>3, HeadPlace
<1>4. ASSUME NEW r \in Req, PostWrites(r)
      PROVE  Begun(c)'
  <2>1. CASE req[r].conn = c
    <3>1. req'[r].conn = req[r].conn
      BY <1>4 DEF PostWrites, Becomes, Types, Request
    <3> QED BY <1>4, <2>1, <3>1, HolderWrites
  <2>2. CASE req[r].conn # c
    <3>1. /\ req[r].pc = "lock" /\ OthersStand(r) /\ wlock' = wlock
          /\ line'[c] = line[c] /\ Writable(c)
      BY <1>4, <2>2 DEF PostWrites, HoldsWriter, Becomes, Types, OthersStand,
           connVars, Lines, Writable
    <3> QED BY <1>3, <2>2, <3>1, BegunElsewhere DEF Lines
  <2> QED BY <2>1, <2>2
<1>5. ASSUME NEW r \in Req, PostEndsLine(r)
      PROVE  Begun(c)'
  <2>1. /\ req[r].pc = "lock" /\ OthersStand(r) /\ Unlock(r)
        /\ wlock[req[r].conn] # << >> /\ Head(wlock[req[r].conn]) = r
        /\ req[r].conn \in Conn /\ Writable(c)
    BY <1>5, AnswerOver DEF PostEndsLine, HoldsWriter, Requests, Writable
  <2>2. CASE req[r].conn = c
    <3>1. Part(c)' = 0
      BY <2>1, <2>2, NextHolder
    <3>2. line'[c] = << >>
      BY <1>5, <2>2 DEF PostEndsLine, Lines
    <3>3. Len(line'[c]) = 0
      BY <3>2
    <3>4. /\ Len(line'[c]) = 0 + Part(c)'
          /\ \A k \in 1 .. 0 : Left(line[c][k])'
          /\ \A k \in 1 .. Part(c)' : line'[c][0 + k] = <<Head(wlock'[c]), k>>
      BY <3>1, <3>3
    <3> QED BY <3>4 DEF Begun
  <2>3. CASE req[r].conn # c
    <3>1. line'[c] = line[c] /\ wlock'[c] = wlock[c]
      BY <1>5, <2>1, <2>3, Unlocking DEF PostEndsLine, Lines
    <3> QED BY <1>3, <2>1, <2>3, <3>1, BegunElsewhere DEF Lines
  <2> QED BY <2>2, <2>3
<1>6. ASSUME NEW r \in Req, Leaves(r)
      PROVE  Begun(c)'
  <2>1. /\ req[r].pc = "lock" /\ OthersStand(r) /\ Unlock(r) /\ line' = line
        /\ req[r].conn \in Conn /\ wlock[req[r].conn] # << >>
    BY <1>6, Unlocking DEF Leaves, Requests
  <2>2. Begun(c)
    BY <1>6 DEF Leaves, Lines
  <2>3. CASE req[r].conn = c
    <3>1. req'[r].status = "cancelled"
      BY <1>6, <2>3 DEF Leaves, Writable
    <3> QED BY <1>6, <2>2, <2>3, <3>1, LeavingBegun
  <2>4. CASE req[r].conn # c
    <3>1. line'[c] = line[c] /\ wlock'[c] = wlock[c]
      BY <2>1, <2>4, Unlocking
    <3> QED BY <1>3, <2>1, <2>2, <2>4, <3>1, BegunElsewhere
  <2> QED BY <2>3, <2>4
<1> QED BY <1>1, <1>2, <1>4, <1>5, <1>6 DEF WriterStep

LEMMA LinesInductive ==
  ASSUME Types, Requests, Places, Parts, Lines, WriterStep
  PROVE  Lines'
<1>1. /\ line' \in [Conn -> Seq(Req \X (1 .. 2))]
      /\ lines' \in [Conn -> Seq(Seq(Req \X (1 .. 2)))]
  BY LineTypes
<1>2. \A c \in Conn : Writable(c)' => Begun(c)'
  BY BegunInductive
<1>3. ASSUME NEW c \in Conn, NEW i \in 1 .. Len(lines'[c])
      PROVE  \E l \in Seq(Req \X (1 .. 2)) : lines'[c][i] = l /\ Whole(l)
  <2>1. lines[c] \in Seq(Seq(Req \X (1 .. 2)))
    BY DEF Lines
  <2>2. \A k \in 1 .. Len(lines[c]) :
          lines[c][k] \in Seq(Req \X (1 .. 2)) /\ Whole(lines[c][k])
    BY <2>1, LenProperties DEF Lines
  <2>3. CASE lines'[c] = lines[c]
    BY <2>2, <2>3
  <2>4. ASSUME NEW r \in Req, PostEndsLine(r), req[r].conn = c
        PROVE  \E l \in Seq(Req \X (1 .. 2)) : lines'[c][i] = l /\ Whole(l)
    <3>1. Whole(line[c]) /\ line[c] \in Seq(Req \X (1 .. 2))
      BY <2>4, EndedLineWhole DEF Lines
    <3>2. lines'[c] = Append(lines[c], line[c])
      BY <2>4 DEF PostEndsLine, Lines
    <3>3. /\ Len(lines[c]) \in Nat /\ Len(lines'[c]) = Len(lines[c]) + 1
          /\ \A k \in 1 .. Len(lines[c]) : lines'[c][k] = lines[c][k]
          /\ lines'[c][Len(lines[c]) + 1] = line[c]
      BY <2>1, <3>1, <3>2, AppendProperties
    <3>4. i \in 1 .. Len(lines[c]) \/ i = Len(lines[c]) + 1
      BY <3>3
    <3> QED BY <2>2, <3>1, <3>3, <3>4
  <2>5. ASSUME NEW r \in Req, PostEndsLine(r), req[r].conn # c
        PROVE  lines'[c] = lines[c]
    BY <2>5 DEF PostEndsLine, Lines
  <2>6. CASE lines' = lines
    BY <2>3, <2>6
  <2>7. CASE \E r \in Req : PostEndsLine(r)
    BY <2>3, <2>4, <2>5, <2>7
  <2>8. (Passes \/ \E r \in Req : PostWrites(r) \/ Leaves(r)) => lines' = lines
    BY DEF Passes, Leaves, PostWrites
  <2>9. (\E r \in Req, d \in Conn : Joins(r, d)) => lines' = lines
    BY DEF Joins
  <2> QED BY <2>6, <2>7, <2>8, <2>9 DEF WriterStep
<1>4. ASSUME NEW c \in Conn, NEW i \in 1 .. Len(lines'[c])
      PROVE  Whole(lines[c][i])'
  <2>1. PICK l \in Seq(Req \X (1 .. 2)) : lines'[c][i] = l /\ Whole(l)
    BY <1>3
  <2>2. Whole(l)'
    BY <2>1, WholeStays
  <2> QED BY <2>1, <2>2 DEF Whole, Left
<1> QED BY <1>1, <1>2, <1>4 DEF Lines

LEMMA StepWriterInv == IInv /\ WriterInv /\ [Next]_vars => WriterInv'
<1> SUFFICES ASSUME IInv, WriterInv, [Next]_vars PROVE WriterInv'
  OBVIOUS
<1>1. Types /\ Requests /\ Pumps /\ Places /\ Parts /\ Lines /\ Requests'
  BY StepIInv DEF IInv, WriterInv
<1>2. WriterStep
  BY <1>1, StepsUnderLock
<1>3. Places' /\ Parts' /\ Lines'
  BY <1>1, <1>2, PlacesInductive, PartsInductive, LinesInductive
<1> QED BY <1>3 DEF WriterInv

LEMMA InitWriterInv == Init => WriterInv
<1> SUFFICES ASSUME Init PROVE WriterInv
  OBVIOUS
<1>1. \A c \in Conn : /\ wlock[c] = << >> /\ line[c] = << >> /\ lines[c] = << >>
                      /\ ~writer[c]
  BY DEF Init
<1>2. \A r \in Req : req[r].pc = "new"
  BY DEF Init, Standing
<1>3. << >> \in Seq(Req) /\ << >> \in Seq(Req \X (1 .. 2))
      /\ << >> \in Seq(Seq(Req \X (1 .. 2))) /\ Len(<< >>) = 0
  OBVIOUS
<1>4. Places
  BY <1>1, <1>3 DEF Init, Places
<1>5. Parts
  BY <1>1, <1>2 DEF Parts
<1>6. Lines
  BY <1>1, <1>3 DEF Init, Lines, Writable
<1> QED BY <1>4, <1>5, <1>6 DEF WriterInv

LEMMA WriterInvariance == Spec => []WriterInv
BY InitWriterInv, StepWriterInv, Invariance, PTL DEF Spec

(* The state of the transport is of its types: a handler never writes more *)
(* parts than its message has, and every place at a lock is a request's.   *)
THEOREM TypeCorrect == Spec => []TypeOK
<1>1. IInv /\ WriterInv => TypeOK
  BY DEF IInv, Types, WriterInv, Places, Lines, TypeOK
<1> QED BY <1>1, Invariance, WriterInvariance, PTL

(* Every line the host gets ends with one whole message, after parts that  *)
(* clients which went away left, whatever else happened to the connection. *)
THEOREM LinesEndWhole == Spec => []LineEndsWhole
<1>1. IInv /\ WriterInv => LineEndsWhole
  BY DEF WriterInv, Lines, Whole, Left, LineEndsWhole
<1> QED BY <1>1, Invariance, WriterInvariance, PTL

=============================================================================
