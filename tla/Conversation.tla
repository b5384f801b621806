------------------------------ MODULE Conversation ------------------------------
(***************************************************************************)
(* What the harness promises about a conversation: its log grows by one    *)
(* whole turn at a time, each turn is said once, a fork starts from the    *)
(* log as it is, and a log that ends is never opened again.  Turns may be  *)
(* forgotten, but only the latest ones: what is left of a log is what it   *)
(* was at some earlier time.                                               *)
(***************************************************************************)
EXTENDS Naturals, Sequences

CONSTANTS Session, Turn

VARIABLES
  open, ended,   \* sets of sessions
  log,           \* [Session -> Seq(Turn)]
  said           \* turns that were said, in any session

vars == <<open, ended, log, said>>

Init ==
  /\ open = {}
  /\ ended = {}
  /\ log = [s \in Session |-> << >>]
  /\ said = {}

Opens(s, l) ==
  /\ s \in Session \ (open \cup ended)
  /\ open' = open \cup {s}
  /\ log' = [log EXCEPT ![s] = l]
  /\ UNCHANGED <<ended, said>>

Say(s, t) ==
  /\ s \in open /\ t \in Turn \ said
  /\ log' = [log EXCEPT ![s] = Append(@, t)]
  /\ said' = said \cup {t}
  /\ UNCHANGED <<open, ended>>

Forget(s, n) ==
  /\ s \in open
  /\ log' = [log EXCEPT ![s] = SubSeq(@, 1, n)]
  /\ UNCHANGED <<open, ended, said>>

End(s) ==
  /\ s \in open
  /\ open' = open \ {s}
  /\ ended' = ended \cup {s}
  /\ log' = [log EXCEPT ![s] = << >>]
  /\ UNCHANGED said

Next ==
  \E s \in Session :
    \/ Opens(s, << >>)
    \/ \E u \in open : Opens(s, log[u])
    \/ \E t \in Turn : Say(s, t)
    \/ \E n \in 0 .. Len(log[s]) : Forget(s, n)
    \/ End(s)

Spec == Init /\ [][Next]_vars

================================================================================
