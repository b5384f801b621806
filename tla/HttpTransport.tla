----------------------------- MODULE HttpTransport -----------------------------
(***************************************************************************)
(* ACP over HTTP as the gateway serves it: the connection table and the    *)
(* request handlers of acp-http-transport/src/server.rs, over the          *)
(* FrontendHost of gateway/acp-gateway/src/frontend_host.rs, which makes   *)
(* and drops the frontend behind each connection.                          *)
(*                                                                         *)
(* A handler is atomic from one await to the next, and a client that goes  *)
(* away drops its handler at the await it has reached.  The locks of the   *)
(* table, of io_tasks and of shutdown are never held across an await, so   *)
(* only the writer's lock is modelled.                                     *)
(***************************************************************************)
EXTENDS OutboundBuffer, SequencesExt

CONSTANTS
  MaxPumped,      \* bound: messages the host sends per connection
  Workload        \* the kinds of request a run makes

ASSUME WorkloadAssumption == Workload \subseteq {"create", "post", "get", "delete"}

VARIABLES
  table,         \* [Conn -> BOOLEAN]: connections of HttpTransportState
  writer,        \* [Conn -> BOOLEAN]: the writer is there, not taken by close
  wlock,         \* [Conn -> Seq(Req)]: the writer's lock, its holder first
  pump,          \* [Conn -> "none", "reading" or "done"]
  shut,          \* [Conn -> BOOLEAN]: the shutdown future is there to be run
  mailbox,       \* Seq(FrontendRequest): what FrontendHost has to do
  registered,    \* [Conn -> BOOLEAN]: frontends the gateway knows
  upstream,      \* [Conn -> "none", "up" or "down"]: the frontend's I/O task
  line,          \* [Conn -> bytes after the last newline, as <<Req, part>>s]
  lines,         \* [Conn -> Seq of the complete lines the host got] (history)
  req            \* [Req -> Request]

hostVars == <<mailbox, registered, upstream, line, lines>>

connVars == <<table, writer, wlock, pump, shut>>

vars == <<bufferVars, connVars, hostVars, req>>

(* An HTTP request.  part counts what a POST has written of its message:   *)
(* the first bytes, and the rest of it; the newline comes last.            *)
Request ==
  [pc     : {"new", "ask", "reply", "body", "lock", "stream", "over"},
   op     : {"none", "create", "post", "get", "delete"},
   conn   : Conn \cup {Nil},
   part   : 0 .. 2,
   status : {"none", "created", "accepted", "deleted", "ok", "bad",
             "unknown", "conflict", "gone", "cancelled"}]

Standing(pc, op, c, status) ==
  [pc |-> pc, op |-> op, conn |-> c, part |-> 0, status |-> status]

FrontendRequest ==
  [kind : {"Create"}, of : Req] \cup [kind : {"Close"}, of : Conn]

TypeOK ==
  /\ BufferTypeOK
  /\ table \in [Conn -> BOOLEAN]
  /\ writer \in [Conn -> BOOLEAN]
  /\ wlock \in [Conn -> Seq(Req)]
  /\ pump \in [Conn -> {"none", "reading", "done"}]
  /\ shut \in [Conn -> BOOLEAN]
  /\ mailbox \in Seq(FrontendRequest)
  /\ registered \in [Conn -> BOOLEAN]
  /\ upstream \in [Conn -> {"none", "up", "down"}]
  /\ line \in [Conn -> Seq(Req \X (1 .. 2))]
  /\ lines \in [Conn -> Seq(Seq(Req \X (1 .. 2)))]
  /\ req \in [Req -> Request]

Init ==
  /\ BufferInit
  /\ table = [c \in Conn |-> FALSE]
  /\ writer = [c \in Conn |-> FALSE]
  /\ wlock = [c \in Conn |-> << >>]
  /\ pump = [c \in Conn |-> "none"]
  /\ shut = [c \in Conn |-> FALSE]
  /\ mailbox = << >>
  /\ registered = [c \in Conn |-> FALSE]
  /\ upstream = [c \in Conn |-> "none"]
  /\ line = [c \in Conn |-> << >>]
  /\ lines = [c \in Conn |-> << >>]
  /\ req = [r \in Req |-> Standing("new", "none", Nil, "none")]

-----------------------------------------------------------------------------

Becomes(r, x) == req' = [req EXCEPT ![r] = x]

(* r is the next request to arrive, and asks for op. *)
IsNext(r, op) ==
  /\ op \in Workload
  /\ req[r].pc = "new"
  /\ \A q \in Req : q < r => req[q].pc # "new"

(* r, a request for op on c, is suspended at pc. *)
Arrive(r, op, c, pc) ==
  /\ IsNext(r, op)
  /\ Becomes(r, Standing(pc, op, c, "none"))

(* r is refused at once. *)
Refuse(r, op, c, status) ==
  /\ IsNext(r, op)
  /\ Becomes(r, Standing("over", op, c, status))

Answer(r, status) ==
  Becomes(r, [req[r] EXCEPT !.pc = "over", !.status = status])

(* A request that names a connection the table does not have, because it   *)
(* was deleted or never made.                                              *)
UnknownConnection(r, op, c) ==
  /\ ~table[c]
  /\ Refuse(r, op, c, "unknown")
  /\ UNCHANGED <<bufferVars, connVars, hostVars>>

Tell(k, x) == Append(mailbox, [kind |-> k, of |-> x])

(* Mutant: the shutdown future is dropped unrun. *)
DropShutdown(c) ==
  /\ shut' = [shut EXCEPT ![c] = FALSE]
  /\ UNCHANGED mailbox

(* The shutdown future of c, run at most once, tells the host to close.    *)
TakeShutdown(c) ==
  /\ shut' = [shut EXCEPT ![c] = FALSE]
  /\ mailbox' = IF shut[c] THEN Tell("Close", c) ELSE mailbox

(* POST /connections: the factory asks the host for a frontend.  c is the  *)
(* id the new frontend will have; no two have the same.                    *)
CreateArrives(r, c) ==
  /\ \A q \in Req : req[q].op = "create" => req[q].conn # c
  /\ Arrive(r, "create", c, "ask")
  /\ mailbox' = Tell("Create", r)
  /\ UNCHANGED <<bufferVars, connVars, registered, upstream, line, lines>>

(* The host makes a frontend; a client already gone gets it undone. *)
HostCreates ==
  /\ mailbox # << >> /\ Head(mailbox).kind = "Create"
  /\ mailbox' = Tail(mailbox)
  /\ LET r == Head(mailbox).of
         c == req[r].conn
     IN \/ /\ req[r].pc = "ask"
           /\ registered' = [registered EXCEPT ![c] = TRUE]
           /\ upstream' = [upstream EXCEPT ![c] = "up"]
           /\ Becomes(r, [req[r] EXCEPT !.pc = "reply"])
        \/ /\ req[r].pc = "over"
           /\ UNCHANGED <<registered, upstream, req>>
  /\ UNCHANGED <<bufferVars, connVars, line, lines>>

(* The handler gets its peer, starts the pump and enters the table. *)
CreateReplied(r) ==
  /\ req[r].pc = "reply"
  /\ LET c == req[r].conn IN
     /\ table' = [table EXCEPT ![c] = TRUE]
     /\ writer' = [writer EXCEPT ![c] = TRUE]
     /\ pump' = [pump EXCEPT ![c] = "reading"]
     /\ shut' = [shut EXCEPT ![c] = TRUE]
  /\ Answer(r, "created")
  /\ UNCHANGED <<bufferVars, wlock, hostVars>>

-----------------------------------------------------------------------------

(* POST /messages holds the connection while its body comes in. *)
PostArrives(r, c) ==
  /\ table[c]
  /\ Arrive(r, "post", c, "body")
  /\ UNCHANGED <<bufferVars, connVars, hostVars>>

(* A body that is empty, oversized or no JSON is refused. *)
PostRefused(r) ==
  /\ req[r].pc = "body"
  /\ Answer(r, "bad")
  /\ UNCHANGED <<bufferVars, connVars, hostVars>>

(* r joins the writer's lock, which is handed on in order of arrival. *)
Queue(r, c) == wlock' = [wlock EXCEPT ![c] = Append(@, r)]

PostQueues(r) ==
  /\ req[r].pc = "body"
  /\ Queue(r, req[r].conn)
  /\ Becomes(r, [req[r] EXCEPT !.pc = "lock"])
  /\ UNCHANGED <<bufferVars, table, writer, pump, shut, hostVars>>

HoldsWriter(r) ==
  /\ req[r].pc = "lock"
  /\ wlock[req[r].conn] # << >>
  /\ Head(wlock[req[r].conn]) = r

(* Mutant: the lock stays with a handler that is gone. *)
UnlockNobody(r) == UNCHANGED wlock

(* r drops the guard of the writer's lock, or its place in the queue.      *)
Unlock(r) ==
  LET c == req[r].conn IN
  \E i \in DOMAIN wlock[c] : /\ wlock[c][i] = r
                             /\ wlock' = [wlock EXCEPT ![c] = RemoveAt(@, i)]

(* Mutant: messages are written without the writer's lock. *)
PostWritesUnlocked(r) ==
  LET c == req[r].conn IN
  /\ req[r].pc = "lock" /\ req[r].op = "post" /\ req[r].part < 2
  /\ writer[c] /\ upstream[c] = "up"
  /\ line' = [line EXCEPT ![c] = Append(@, <<r, req[r].part + 1>>)]
  /\ Becomes(r, [req[r] EXCEPT !.part = @ + 1])
  /\ UNCHANGED <<bufferVars, connVars, mailbox, registered, upstream, lines>>

(* Mutant: the write goes on past the end of the message. *)
PostWritesOn(r) ==
  LET c == req[r].conn IN
  /\ HoldsWriter(r) /\ req[r].op = "post" /\ req[r].part < 3
  /\ writer[c] /\ upstream[c] = "up"
  /\ line' = [line EXCEPT ![c] = Append(@, <<r, req[r].part + 1>>)]
  /\ Becomes(r, [req[r] EXCEPT !.part = @ + 1])
  /\ UNCHANGED <<bufferVars, connVars, mailbox, registered, upstream, lines>>

(* write_all, in two parts: the pipe may be full in between. *)
PostWrites(r) ==
  LET c == req[r].conn IN
  /\ HoldsWriter(r) /\ req[r].op = "post" /\ req[r].part < 2
  /\ writer[c] /\ upstream[c] = "up"
  /\ line' = [line EXCEPT ![c] = Append(@, <<r, req[r].part + 1>>)]
  /\ Becomes(r, [req[r] EXCEPT !.part = @ + 1])
  /\ UNCHANGED <<bufferVars, connVars, mailbox, registered, upstream, lines>>

PostEndsLine(r) ==
  LET c == req[r].conn IN
  /\ HoldsWriter(r) /\ req[r].op = "post" /\ req[r].part = 2
  /\ writer[c] /\ upstream[c] = "up"
  /\ lines' = [lines EXCEPT ![c] = Append(@, line[c])]
  /\ line' = [line EXCEPT ![c] = << >>]
  /\ Answer(r, "accepted")
  /\ Unlock(r)
  /\ UNCHANGED <<bufferVars, table, writer, pump, shut, mailbox, registered,
                 upstream>>

(* The writer was taken by close, or the pipe has no reader any more. *)
PostFails(r) ==
  LET c == req[r].conn IN
  /\ HoldsWriter(r) /\ req[r].op = "post"
  /\ ~writer[c] \/ upstream[c] = "down"
  /\ Answer(r, "gone")
  /\ Unlock(r)
  /\ UNCHANGED <<bufferVars, table, writer, pump, shut, hostVars>>

-----------------------------------------------------------------------------

(* GET /stream claims the one lease of the connection. *)
StreamArrives(r, c) ==
  /\ table[c]
  /\ Arrive(r, "get", c, "stream")
  /\ ClaimStream(r, c)
  /\ UNCHANGED <<connVars, hostVars>>

StreamRefused(r, c) ==
  /\ table[c] /\ ~Claimable(c)
  /\ Refuse(r, "get", c, IF streamOpen[c] THEN "conflict" ELSE "gone")
  /\ UNCHANGED <<bufferVars, connVars, hostVars>>

(* The server polls the body of the answer for its next message. *)
StreamPolls(r) ==
  /\ NextMessage(r)
  /\ IF stream'[r] = "ended" THEN Answer(r, "ok") ELSE UNCHANGED req
  /\ UNCHANGED <<connVars, hostVars>>

-----------------------------------------------------------------------------

(* DELETE takes the connection out of the table and waits for its writer. *)
DeleteArrives(r, c) ==
  /\ table[c]
  /\ Arrive(r, "delete", c, "lock")
  /\ table' = [table EXCEPT ![c] = FALSE]
  /\ Queue(r, c)
  /\ UNCHANGED <<bufferVars, writer, pump, shut, hostVars>>

(* close: the writer is taken, the pump aborted, the buffer closed and the *)
(* shutdown future run.                                                    *)
DeleteCloses(r) ==
  LET c == req[r].conn IN
  /\ HoldsWriter(r) /\ req[r].op = "delete"
  /\ writer' = [writer EXCEPT ![c] = FALSE]
  /\ Unlock(r)
  /\ pump' = [pump EXCEPT ![c] = "done"]
  /\ CloseBuffer(c)
  /\ TakeShutdown(c)
  /\ Answer(r, "deleted")
  /\ UNCHANGED <<table, registered, upstream, line, lines>>

-----------------------------------------------------------------------------

(* pump_outbound reads a line of the host; some may still be in the pipe   *)
(* after the host has gone.                                                *)
PumpReads(c) ==
  /\ pump[c] = "reading" /\ pumped[c] < MaxPumped
  /\ Push(c)
  /\ UNCHANGED <<connVars, hostVars, req>>

PumpStops(c) ==
  /\ pump' = [pump EXCEPT ![c] = "done"]
  /\ CloseBuffer(c)
  /\ TakeShutdown(c)
  /\ UNCHANGED <<table, writer, wlock, registered, upstream, line, lines, req>>

PumpSeesEof(c) == pump[c] = "reading" /\ upstream[c] = "down" /\ PumpStops(c)

(* An oversized line, or a read error, ends the pump as well. *)
PumpGivesUp(c) == pump[c] = "reading" /\ upstream[c] = "up" /\ PumpStops(c)

(* The frontend's I/O ends, on an error or because its writer was closed.  *)
HostEnds(c) ==
  /\ upstream[c] = "up"
  /\ upstream' = [upstream EXCEPT ![c] = "down"]
  /\ UNCHANGED <<bufferVars, connVars, mailbox, registered, line, lines, req>>

(* FrontendRequest::Close aborts the I/O task and forgets the frontend. *)
HostCloses ==
  /\ mailbox # << >> /\ Head(mailbox).kind = "Close"
  /\ mailbox' = Tail(mailbox)
  /\ LET c == Head(mailbox).of IN
     /\ upstream' = [upstream EXCEPT ![c] = "down"]
     /\ registered' = [registered EXCEPT ![c] = FALSE]
  /\ UNCHANGED <<bufferVars, connVars, line, lines, req>>

(* The client of r goes away: its handler is dropped where it stands, with *)
(* its place at the lock, its lease, or the peer it was about to get.      *)
Cancel(r) ==
  /\ req[r].pc \in {"ask", "reply", "body", "lock", "stream"}
  /\ Answer(r, "cancelled")
  /\ IF req[r].pc = "lock" THEN Unlock(r) ELSE UNCHANGED wlock
  /\ IF req[r].pc = "stream" THEN ReleaseStream(r) ELSE UNCHANGED bufferVars
  /\ UNCHANGED <<table, writer, pump, shut, hostVars>>

-----------------------------------------------------------------------------

HandlerStep(r) ==
  \/ CreateReplied(r) \/ PostRefused(r) \/ PostQueues(r) \/ PostWrites(r)
  \/ PostEndsLine(r) \/ PostFails(r) \/ StreamPolls(r) \/ DeleteCloses(r)
  \/ Cancel(r)

Arrival(r) ==
  \/ \E c \in Conn :
       \/ CreateArrives(r, c) \/ PostArrives(r, c) \/ StreamArrives(r, c) \/ StreamRefused(r, c)
       \/ DeleteArrives(r, c)
       \/ \E op \in {"post", "get", "delete"} : UnknownConnection(r, op, c)

ConnStep(c) == PumpReads(c) \/ PumpSeesEof(c) \/ PumpGivesUp(c) \/ HostEnds(c)

Next ==
  \/ \E r \in Req : Arrival(r) \/ HandlerStep(r)
  \/ \E c \in Conn : ConnStep(c)
  \/ HostCreates
  \/ HostCloses

Spec == Init /\ [][Next]_vars

(* The runtime polls every task it can, the host reads what it is sent,    *)
(* and a client reads its stream or goes away.                             *)
Fairness ==
  /\ WF_vars(HostCreates \/ HostCloses)
  /\ \A r \in Req : WF_vars(\/ PostWrites(r) \/ PostEndsLine(r) \/ PostFails(r)
                            \/ StreamPolls(r) \/ DeleteCloses(r))
  /\ \A c \in Conn : WF_vars(PumpSeesEof(c))

FairSpec == Spec /\ Fairness

-----------------------------------------------------------------------------

Latest == INSTANCE LatestChannel
            WITH sent <- pumped, over <- closed,
                 kept <- [c \in Conn |-> Len(queue[c])]

(* A stream is given the host's messages in order, none twice, and of      *)
(* those it is behind with the newest Room: a full buffer (server.rs push) *)
(* drops the oldest and nothing else is ever lost, reordered or repeated,  *)
(* whichever streams come and go.                                          *)
ImplementsLatest == Latest!Spec

(* Every line the host gets ends with one whole message; what it starts    *)
(* with is left over from posts whose client went away while the message   *)
(* was being written (send_message has no repair for that).                *)
LineEndsWhole ==
  \A c \in Conn : \A i \in 1 .. Len(lines[c]) :
    LET l == lines[c][i]
        n == Len(l)
    IN /\ n >= 2
       /\ l[n - 1][2] = 1
       /\ l[n] = <<l[n - 1][1], 2>>
       /\ \A k \in 1 .. n - 2 : req[l[k][1]].status = "cancelled"

Abandoned(op, c) ==
  \E r \in Req : req[r].op = op /\ req[r].conn = c /\ req[r].status = "cancelled"

ToldToClose(c) ==
  \E i \in 1 .. Len(mailbox) : mailbox[i] = [kind |-> "Close", of |-> c]

(* The pump of c will tell the host when it ends, and the table or a       *)
(* DELETE still has the connection, or its client gave the DELETE up.      *)
Served(c) ==
  /\ shut[c] /\ pump[c] = "reading" /\ writer[c]
  /\ \/ table[c]
     \/ \E r \in Req : /\ req[r].op = "delete" /\ req[r].conn = c
                      /\ req[r].pc = "lock"
     \/ Abandoned("delete", c)

(* A frontend the gateway knows has somebody who will close it: the host   *)
(* is already told, its client is about to get the connection, or the      *)
(* connection is served.  Only a client that goes away in the middle of    *)
(* its own create or delete leaves a frontend behind (server.rs            *)
(* create_connection and close, frontend_host.rs Create).                  *)
FrontendAttended ==
  \A c \in Conn : registered[c] =>
    \/ ToldToClose(c)
    \/ \E r \in Req : req[r].pc = "reply" /\ req[r].conn = c
    \/ Abandoned("create", c)
    \/ Served(c)

(* Once the buffer of a connection is closed its stream comes to an end,   *)
(* after what was left in it or with its client (next_message, close).     *)
StreamsEnd == \A c \in Conn : closed[c] ~> ~streamOpen[c]

(* A DELETE gets its turn at the writer behind any posts, and then the     *)
(* host forgets the frontend, unless the client abandons the DELETE.       *)
DeletedFrontendGoes ==
  \A r \in Req : \A c \in Conn :
    (req[r].op = "delete" /\ req[r].conn = c /\ req[r].pc = "lock")
      ~> (~registered[c] \/ req[r].status = "cancelled")

=============================================================================
