---------------------------- MODULE OutboundBuffer ----------------------------
(***************************************************************************)
(* What a connection holds for its stream: struct OutboundBuffer of        *)
(* acp-http-transport/src/server.rs with the StreamLease of the one GET    *)
(* that may read it.  The gateway runs the transport on one thread, so     *)
(* everything between two awaits is atomic.                                *)
(*                                                                         *)
(* A message is its number: the k-th one the pump read from the host.      *)
(***************************************************************************)
EXTENDS Integers, Sequences

CONSTANTS
  Conn,           \* transport connections
  Req,            \* HTTP requests, numbered in the order they arrive
  MaxBuffered,    \* max_buffered_messages, 256 by default
  Nil             \* no connection

ASSUME BufferAssumption == MaxBuffered \in Nat

ASSUME RequestAssumption == Req \subseteq Nat

ASSUME ConnAssumption == Nil \notin Conn

VARIABLES
  queue,         \* [Conn -> Seq(Nat)]
  streamOpen,    \* [Conn -> BOOLEAN]
  closed,        \* [Conn -> BOOLEAN]
  stream,        \* [Req -> where the stream of a GET stands]
  reads,         \* [Req -> the connection its stream reads, or Nil]
  pumped,        \* [Conn -> messages pushed so far] (history)
  seen           \* [Conn -> number of the last message a stream took] (history)

bufferVars == <<queue, streamOpen, closed, stream, reads, pumped, seen>>

(* push makes room before it appends, so a buffer of size 0 still holds    *)
(* one message.                                                            *)
Room == IF MaxBuffered = 0 THEN 1 ELSE MaxBuffered

BufferTypeOK ==
  /\ queue \in [Conn -> Seq(Nat)]
  /\ streamOpen \in [Conn -> BOOLEAN]
  /\ closed \in [Conn -> BOOLEAN]
  /\ stream \in [Req -> {"none", "poll", "wait", "ended"}]
  /\ reads \in [Req -> Conn \cup {Nil}]
  /\ pumped \in [Conn -> Nat]
  /\ seen \in [Conn -> Nat]

BufferInit ==
  /\ queue = [c \in Conn |-> << >>]
  /\ streamOpen = [c \in Conn |-> FALSE]
  /\ closed = [c \in Conn |-> FALSE]
  /\ stream = [r \in Req |-> "none"]
  /\ reads = [r \in Req |-> Nil]
  /\ pumped = [c \in Conn |-> 0]
  /\ seen = [c \in Conn |-> 0]

Live(r) == stream[r] \in {"poll", "wait"}

(* notify_waiters: whoever waits on c is polled again. *)
Woken(c) ==
  [r \in Req |-> IF stream[r] = "wait" /\ reads[r] = c THEN "poll"
                                                       ELSE stream[r]]

(* Mutant: the newest message is dropped. *)
PushDroppingNewest(c) ==
  /\ pumped' = [pumped EXCEPT ![c] = @ + 1]
  /\ queue' = IF Len(queue[c]) >= Room THEN queue
              ELSE [queue EXCEPT ![c] = Append(@, pumped[c] + 1)]
  /\ stream' = Woken(c)
  /\ UNCHANGED <<streamOpen, closed, reads, seen>>

(* A full buffer gives up its oldest message, a closed one takes none. *)
Push(c) ==
  /\ pumped' = [pumped EXCEPT ![c] = @ + 1]
  /\ \/ /\ closed[c]
        /\ UNCHANGED <<queue, stream>>
     \/ /\ ~closed[c]
        /\ queue' = [queue EXCEPT ![c] =
             Append(IF Len(@) >= MaxBuffered /\ @ # << >> THEN Tail(@) ELSE @,
                    pumped[c] + 1)]
        /\ stream' = Woken(c)
  /\ UNCHANGED <<streamOpen, closed, reads, seen>>

(* Mutant: nobody is notified. *)
CloseBufferQuietly(c) ==
  /\ closed' = [closed EXCEPT ![c] = TRUE]
  /\ UNCHANGED <<stream, queue, streamOpen, reads, pumped, seen>>

CloseBuffer(c) ==
  /\ closed' = [closed EXCEPT ![c] = TRUE]
  /\ stream' = Woken(c)
  /\ UNCHANGED <<queue, streamOpen, reads, pumped, seen>>

Claimable(c) == ~streamOpen[c] /\ ~(closed[c] /\ queue[c] = << >>)

ClaimStream(r, c) ==
  /\ Claimable(c)
  /\ streamOpen' = [streamOpen EXCEPT ![c] = TRUE]
  /\ stream' = [stream EXCEPT ![r] = "poll"]
  /\ reads' = [reads EXCEPT ![r] = c]
  /\ UNCHANGED <<queue, closed, pumped, seen>>

(* Mutant: the lease is given up without opening the stream again. *)
ReleaseKeepingOpen(r) ==
  /\ stream' = [stream EXCEPT ![r] = "ended"]
  /\ UNCHANGED <<queue, streamOpen, closed, reads, pumped, seen>>

(* The lease is dropped, with the stream's end or with its client. *)
ReleaseStream(r) ==
  /\ streamOpen' = [streamOpen EXCEPT ![reads[r]] = FALSE]
  /\ stream' = [Woken(reads[r]) EXCEPT ![r] = "ended"]
  /\ UNCHANGED <<queue, closed, reads, pumped, seen>>

(* Mutant: an empty buffer is waited on, closed or not. *)
NextMessageOrWait(r) ==
  LET c == reads[r] IN
  /\ stream[r] = "poll"
  /\ \/ /\ queue[c] # << >>
        /\ queue' = [queue EXCEPT ![c] = Tail(@)]
        /\ seen' = [seen EXCEPT ![c] = Head(queue[c])]
        /\ UNCHANGED <<streamOpen, closed, stream, reads, pumped>>
     \/ /\ queue[c] = << >>
        /\ stream' = [stream EXCEPT ![r] = "wait"]
        /\ UNCHANGED <<queue, streamOpen, closed, reads, pumped, seen>>

(* One poll of next_message: a message, the end, or the wait. *)
NextMessage(r) ==
  LET c == reads[r] IN
  /\ stream[r] = "poll"
  /\ \/ /\ queue[c] # << >>
        /\ queue' = [queue EXCEPT ![c] = Tail(@)]
        /\ seen' = [seen EXCEPT ![c] = Head(queue[c])]
        /\ UNCHANGED <<streamOpen, closed, stream, reads, pumped>>
     \/ /\ queue[c] = << >> /\ closed[c]
        /\ ReleaseStream(r)
     \/ /\ queue[c] = << >> /\ ~closed[c]
        /\ stream' = [stream EXCEPT ![r] = "wait"]
        /\ UNCHANGED <<queue, streamOpen, closed, reads, pumped, seen>>

(* A stream's wait is never for nothing: while it sleeps the buffer is     *)
(* empty and open, so no message or end is held back by a lost wakeup      *)
(* (server.rs, push and close against next_message).                       *)
NoStreamSleeps ==
  \A r \in Req : stream[r] = "wait" =>
    queue[reads[r]] = << >> /\ ~closed[reads[r]]

(* The lease is owned: a connection is open for reading exactly while one  *)
(* stream reads it, however that stream and its client come to an end.     *)
LeaseOwned ==
  /\ \A r \in Req : Live(r) => reads[r] \in Conn /\ streamOpen[reads[r]]
  /\ \A c \in Conn : streamOpen[c] => \E r \in Req : Live(r) /\ reads[r] = c
  /\ \A q, r \in Req : Live(q) /\ Live(r) /\ reads[q] = reads[r] => q = r

=============================================================================
