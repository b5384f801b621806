----------------------------- MODULE LatestChannel -----------------------------
(***************************************************************************)
(* What a connection promises the reader of its stream: the messages of    *)
(* the host in order, each at most once, and when the reader is slow the   *)
(* newest Room of them.  No stream, lease or wakeup: only how many were    *)
(* sent, how many of the last ones are kept, and which was read last.      *)
(***************************************************************************)
EXTENDS Integers

CONSTANTS
  Conn,    \* connections
  Room     \* messages kept for a reader who is behind

VARIABLES
  sent,    \* [Conn -> Nat]
  kept,    \* [Conn -> 0 .. Room]
  seen,    \* [Conn -> Nat]
  over     \* [Conn -> BOOLEAN]

Init ==
  /\ sent = [c \in Conn |-> 0]
  /\ kept = [c \in Conn |-> 0]
  /\ seen = [c \in Conn |-> 0]
  /\ over = [c \in Conn |-> FALSE]

(* Message sent[c] + 1 arrives; the oldest kept one gives way to it. *)
Send(c) ==
  /\ ~over[c]
  /\ sent' = [sent EXCEPT ![c] = @ + 1]
  /\ kept' = [kept EXCEPT ![c] = IF @ = Room THEN Room ELSE @ + 1]
  /\ UNCHANGED <<seen, over>>

(* The reader gets the oldest message that is kept, also after the end. *)
Receive(c) ==
  /\ kept[c] > 0
  /\ seen' = [seen EXCEPT ![c] = sent[c] - kept[c] + 1]
  /\ kept' = [kept EXCEPT ![c] = @ - 1]
  /\ UNCHANGED <<sent, over>>

End(c) ==
  /\ over' = [over EXCEPT ![c] = TRUE]
  /\ UNCHANGED <<sent, kept, seen>>

Next == \E c \in Conn : Send(c) \/ Receive(c) \/ End(c)

Spec == Init /\ [][Next]_<<sent, kept, seen, over>>

=============================================================================
