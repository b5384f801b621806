----------------------------- MODULE GatewayClaims -----------------------------
(***************************************************************************)
(* What the repository's comments, tests and README say of the gateway     *)
(* where the code does otherwise.  Each is the subject of a run that finds *)
(* the counterexample; Gateway states what does hold in its place.         *)
(***************************************************************************)
EXTENDS Gateway

(* pool.rs, backend_conn: "connection outlives all requests".  Eviction    *)
(* and respawn empty or overwrite a slot whose connection still has calls  *)
(* pending.                                                                *)
ConnectionOutlivesRequests ==
  \A t \in Task :
    Running(t) /\ task[t].res = "none"
      => \E s \in Slot : Populated(s) /\ slots[s].bk = task[t].bk

(* config.rs, idle_timeout_secs: "The session can be transparently         *)
(* reloaded".  A request that finds it evicted takes the entry before it   *)
(* has a slot; when the pool is exhausted the entry is dropped, and the    *)
(* session is unknown from then on though no agent refused to load it.     *)
EvictedStaysReloadable ==
  [][\A e \in Ext : IsEvicted(e) =>
        (\/ IsEvicted(e) \/ Active(e) \/ \E t \in Task : Reloads(t, e))']_vars

(* tests.rs, test_backend_death_only_affects_its_sessions: "session on     *)
(* alive backend should not be evicted".  The death of a process whose     *)
(* slot was reused meanwhile evicts the sessions of its successor.         *)
DeathOnlyAffectsItsSessions ==
  [][\A e \in Ext : Active(e) /\ ~sessions[e].idle /\ IsEvicted(e)'
                    => (~Up(owner[e]))']_vars

=============================================================================
