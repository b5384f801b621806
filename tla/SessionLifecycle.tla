--------------------------- MODULE SessionLifecycle ---------------------------
(***************************************************************************)
(* What the gateway promises about one external session, with no slots,    *)
(* processes or handlers: it is opened once for one backend session, is    *)
(* mapped or parked from then on, is reloaded by one request at a time,    *)
(* and never comes back once it is gone.                                   *)
(***************************************************************************)
CONSTANTS
  Ext,     \* external session ids
  BSid,    \* backend session ids
  Nil      \* no backend session yet

VARIABLES
  life,    \* [Ext -> Phases]
  sid      \* [Ext -> BSid or Nil]

Phases == {"unissued", "mapped", "evicted", "reloading", "gone"}

Init ==
  /\ life = [e \in Ext |-> "unissued"]
  /\ sid = [e \in Ext |-> Nil]

(* A new or forked session, under a backend id no session had before. *)
Open(e, b) ==
  /\ life[e] = "unissued"
  /\ \A d \in Ext : sid[d] # b
  /\ life' = [life EXCEPT ![e] = "mapped"]
  /\ sid' = [sid EXCEPT ![e] = b]

(* The mapped sessions S are unloaded, by idleness or a process's death,   *)
(* and of those parked now or before, P are forgotten.                     *)
Unload(S, P) ==
  /\ \A e \in S : life[e] = "mapped"
  /\ \A e \in P \ S : life[e] = "evicted"
  /\ life' = [e \in Ext |-> IF e \in P THEN "gone"
                            ELSE IF e \in S THEN "evicted" ELSE life[e]]
  /\ UNCHANGED sid

Move(e, from, to) ==
  /\ life[e] = from
  /\ life' = [life EXCEPT ![e] = to]
  /\ UNCHANGED sid

Take(e)    == Move(e, "evicted", "reloading")
Restore(e) == Move(e, "reloading", "mapped")
Lose(e)    == Move(e, "reloading", "gone")
Close(e)   == Move(e, "mapped", "gone")

Next ==
  \/ \E e \in Ext : \/ \E b \in BSid : Open(e, b)
                    \/ Take(e) \/ Restore(e) \/ Lose(e) \/ Close(e)
  \/ \E S, P \in SUBSET Ext : Unload(S, P)

Spec == Init /\ [][Next]_<<life, sid>>

=============================================================================
