------------------------------ MODULE AgentPool ------------------------------
(***************************************************************************)
(* The gateway's session directory and slot table: struct PoolInner of     *)
(* gateway/acp-gateway/src/pool.rs and its methods.  The pool lives on a   *)
(* single-threaded LocalSet and no method awaits while it borrows the      *)
(* table, so every operator below is one atomic update; what may happen    *)
(* between two of them is decided by the modules that extend this one.     *)
(*                                                                         *)
(* An operator with primes sets the variables its first line names and     *)
(* leaves the others to its caller.                                        *)
(***************************************************************************)
EXTENDS Integers, FiniteSets

CONSTANTS
  Strategy,     \* "LeastConnections" or "Dedicated"
  PoolSize,     \* number of slots
  Ext,          \* external session ids (UUIDs the gateway mints)
  BSid,         \* backend session ids (minted by the agents)
  Frontend,     \* ids of the upstream connections
  Backend,      \* backend processes, one value per process ever spawned
  MaxEvicted,   \* argument of purge_stale_evicted (1000 in main.rs)
  Nil           \* a missing entry

Slot == 0 .. (PoolSize - 1)

BackendSlot    == [bk : Backend, count : Nat, alive : BOOLEAN]
SessionEntry   == [slot : Slot, bsid : BSid, sender : Frontend, idle : BOOLEAN]
EvictedSession == [bsid : BSid, sender : Frontend]

ASSUME PoolAssumption ==
  /\ Strategy \in {"LeastConnections", "Dedicated"}
  /\ PoolSize \in Nat \ {0}
  /\ MaxEvicted \in Nat
  /\ IsFiniteSet(Ext)

ASSUME NilAssumption ==
  Nil \notin Ext \cup BSid \cup Frontend \cup Backend
               \cup BackendSlot \cup SessionEntry \cup EvictedSession

VARIABLES
  slots,          \* [Slot -> BackendSlot or Nil]
  sessions,       \* [Ext -> SessionEntry or Nil]
  reverse,        \* [BSid -> Ext or Nil]
  evicted,        \* [Ext -> EvictedSession or Nil]
  inFlight,       \* the set in_flight_prompts
  promptSenders   \* [Ext -> Frontend or Nil]

poolVars == <<slots, sessions, reverse, evicted, inFlight, promptSenders>>

PoolTypeOK ==
  /\ slots \in [Slot -> BackendSlot \cup {Nil}]
  /\ sessions \in [Ext -> SessionEntry \cup {Nil}]
  /\ reverse \in [BSid -> Ext \cup {Nil}]
  /\ evicted \in [Ext -> EvictedSession \cup {Nil}]
  /\ inFlight \subseteq Ext
  /\ promptSenders \in [Ext -> Frontend \cup {Nil}]

PoolInit ==
  /\ sessions = [e \in Ext |-> Nil]
  /\ reverse = [b \in BSid |-> Nil]
  /\ evicted = [e \in Ext |-> Nil]
  /\ inFlight = {}
  /\ promptSenders = [e \in Ext |-> Nil]

-----------------------------------------------------------------------------
(* Slots. *)

Populated(s) == slots[s] # Nil
Alive(s)     == Populated(s) /\ slots[s].alive
Idle(s)      == Alive(s) /\ slots[s].count = 0

(* select_slot returns s.  LeastConnections: the first of the live slots   *)
(* with the fewest sessions.  Dedicated: the first live slot without a     *)
(* session, else the first empty one.                                      *)
SelectSlot(s) ==
  IF Strategy = "LeastConnections"
  THEN /\ Alive(s)
       /\ \A r \in Slot : Alive(r) => \/ slots[s].count < slots[r].count
                                      \/ slots[s].count = slots[r].count /\ s <= r
  ELSE \/ Idle(s) /\ \A r \in Slot : Idle(r) => s <= r
       \/ /\ \A r \in Slot : ~Idle(r)
          /\ ~Populated(s)
          /\ \A r \in Slot : ~Populated(r) => s <= r

PoolExhausted == \A s \in Slot : ~SelectSlot(s)

(* insert_slot: a new process takes the slot; whatever it held is dropped. *)
InsertSlot(s, b) ==
  slots' = [slots EXCEPT ![s] = [bk |-> b, count |-> 0, alive |-> TRUE]]

-----------------------------------------------------------------------------
(* Sessions. *)

Active(e)    == sessions[e] # Nil
IsEvicted(e) == evicted[e] # Nil

(* Mutant: a dead slot's connection is handed out. *)
ResolvesOnDeadSlot(e) == Active(e) /\ Populated(sessions[e].slot)

(* backend_for_session succeeds: the session is mapped and its slot live.  *)
Resolves(e) == Active(e) /\ Alive(sessions[e].slot)

(* Mutant: the slot is selected again when the answer has arrived. *)
RegisterWhereSelectedNow(e, b, s, f) ==
  \E r \in Slot :
    /\ SelectSlot(r)
    /\ sessions' = [sessions EXCEPT ![e] =
                      [slot |-> r, bsid |-> b, sender |-> f, idle |-> FALSE]]
    /\ reverse' = [reverse EXCEPT ![b] = e]
    /\ slots' = [slots EXCEPT ![r].count = @ + 1]

(* register_session_for_sender sets sessions, reverse, slots. *)
RegisterSession(e, b, s, f) ==
  /\ sessions' = [sessions EXCEPT ![e] =
                    [slot |-> s, bsid |-> b, sender |-> f, idle |-> FALSE]]
  /\ reverse' = [reverse EXCEPT ![b] = e]
  /\ slots' = IF Populated(s) THEN [slots EXCEPT ![s].count = @ + 1] ELSE slots

(* record_sender sets sessions, evicted. *)
RecordSender(e, f) ==
  /\ sessions' = IF Active(e) THEN [sessions EXCEPT ![e].sender = f] ELSE sessions
  /\ evicted' = IF ~Active(e) /\ IsEvicted(e)
                THEN [evicted EXCEPT ![e].sender = f] ELSE evicted

(* record_sender, begin_prompt_for_sender and touch_session on a session   *)
(* that resolves: what a forwarded prompt leaves in its entry.             *)
StampSession(e, f) ==
  sessions' = [sessions EXCEPT ![e].sender = f, ![e].idle = FALSE]

(* Mutant: the last sender is consulted before the prompt's. *)
RouteLastSenderFirst(e) ==
  IF Active(e) THEN sessions[e].sender ELSE promptSenders[e]

(* route_frontend_for_session, or Nil when there is no route. *)
RouteFrontend(e) ==
  CASE promptSenders[e] # Nil -> promptSenders[e]
    [] promptSenders[e] = Nil /\ Active(e) -> sessions[e].sender
    [] promptSenders[e] = Nil /\ ~Active(e) /\ IsEvicted(e) -> evicted[e].sender
    [] OTHER -> Nil

(* Mutant: the entry is read but stays in the table. *)
PeekEvicted(e) == evicted' = evicted

(* take_evicted sets evicted. *)
TakeEvicted(e) == evicted' = [evicted EXCEPT ![e] = Nil]

-----------------------------------------------------------------------------
(* The prompt guard. *)

(* begin_prompt_for_sender past its check sets inFlight, promptSenders. *)
BeginPrompt(e, f) ==
  /\ inFlight' = inFlight \cup {e}
  /\ promptSenders' = [promptSenders EXCEPT ![e] = f]

(* Mutant: only the sender is removed. *)
EndPromptKeepsFlag(e) ==
  /\ inFlight' = inFlight
  /\ promptSenders' = [promptSenders EXCEPT ![e] = Nil]

(* end_prompt sets inFlight, promptSenders. *)
EndPrompt(e) ==
  /\ inFlight' = inFlight \ {e}
  /\ promptSenders' = [promptSenders EXCEPT ![e] = Nil]

-----------------------------------------------------------------------------
(* Removal, eviction and death. *)

SessionsOn(s) == {e \in Ext : Active(e) /\ sessions[e].slot = s}
IdleSessions  == {e \in Ext : Active(e) /\ sessions[e].idle}

(* Mutant: plain subtraction. *)
Underflowing(n, k) == n - k

Saturating(n, k) == IF k <= n THEN n - k ELSE 0

(* Mutant: the reverse entries stay behind. *)
UnmapForwardOnly(S) ==
  /\ sessions' = [e \in Ext |-> IF e \in S THEN Nil ELSE sessions[e]]
  /\ UNCHANGED reverse

(* The mappings of the sessions S disappear.  Sets sessions, reverse. *)
Unmap(S) ==
  /\ sessions' = [e \in Ext |-> IF e \in S THEN Nil ELSE sessions[e]]
  /\ reverse' = [b \in BSid |-> IF \E e \in S : sessions[e].bsid = b
                                THEN Nil ELSE reverse[b]]

ClearSenders(S) ==
  promptSenders' = [e \in Ext |-> IF e \in S THEN Nil ELSE promptSenders[e]]

(* The evicted table once the sessions S have been moved to it. *)
WithEvicted(S) ==
  [e \in Ext |-> IF e \in S
                 THEN [bsid |-> sessions[e].bsid, sender |-> sessions[e].sender]
                 ELSE evicted[e]]

(* The slot s after remove_session took one session off it. *)
SlotAfterRemove(s) ==
  LET left == Saturating(slots[s].count, 1)
  IN  IF Strategy = "Dedicated" /\ left = 0 THEN Nil
      ELSE [slots[s] EXCEPT !.count = left]

(* remove_session sets all but evicted; nothing when e is not mapped. *)
RemoveSession(e) ==
  IF Active(e)
  THEN LET s == sessions[e].slot IN
       /\ Unmap({e})
       /\ EndPrompt(e)
       /\ slots' = IF Populated(s)
                   THEN [slots EXCEPT ![s] = SlotAfterRemove(s)] ELSE slots
  ELSE UNCHANGED <<slots, sessions, reverse, inFlight, promptSenders>>

(* Mutant: an eviction frees a Dedicated slot but never lowers a count. *)
SlotStillCounted(s, S) ==
  IF Strategy = "Dedicated" /\ S \cap SessionsOn(s) # {} THEN Nil ELSE slots[s]

(* The slot s after the sessions S were evicted for idleness. *)
SlotAfterEvict(s, S) ==
  LET n == Cardinality(S \cap SessionsOn(s))
  IN  IF Strategy = "Dedicated"
      THEN IF S \cap SessionsOn(s) = {} THEN slots[s] ELSE Nil
      ELSE IF Populated(s)
           THEN [slots[s] EXCEPT !.count = Saturating(slots[s].count, n)]
           ELSE Nil

(* P is what purge_stale_evicted removes from the table t, the entries S   *)
(* being the newest: the excess over MaxEvicted, older entries first.  The *)
(* order among entries of earlier ticks is left open.                      *)
PurgedFrom(P, t, S) ==
  LET present == {e \in Ext : t[e] # Nil}
      excess  == Cardinality(present) - MaxEvicted
  IN
  /\ P \subseteq present
  /\ Cardinality(P) = IF excess > 0 THEN excess ELSE 0
  /\ P \cap S # {} => present \ S \subseteq P

(* Mutant: eviction clears the prompt flag, as handle_backend_death does. *)
EvictClearsFlag(S) ==
  /\ Unmap(S)
  /\ ClearSenders(S)
  /\ slots' = [s \in Slot |-> SlotAfterEvict(s, S)]
  /\ evicted' = WithEvicted(S)
  /\ inFlight' = inFlight \ S

(* The body of the maintenance task: evict_idle_sessions of the sessions   *)
(* S, then purge_stale_evicted.  A prompt in flight does not protect its   *)
(* session, and keeps its flag.                                            *)
EvictAndPurge(S) ==
  /\ Unmap(S)
  /\ ClearSenders(S)
  /\ slots' = [s \in Slot |-> SlotAfterEvict(s, S)]
  /\ \E P \in SUBSET Ext :
       /\ PurgedFrom(P, WithEvicted(S), S)
       /\ evicted' = [e \in Ext |-> IF e \in P THEN Nil ELSE WithEvicted(S)[e]]
  /\ UNCHANGED inFlight

(* Mutant: the sessions are evicted but the slot stays live. *)
DeathLeavesSlotLive(s) ==
  LET S == SessionsOn(s) IN
  /\ UNCHANGED slots
  /\ Unmap(S)
  /\ ClearSenders(S)
  /\ evicted' = WithEvicted(S)
  /\ inFlight' = inFlight \ S

(* handle_backend_death of slot s: it knows the slot's index only, not     *)
(* which process died.                                                     *)
HandleBackendDeath(s) ==
  LET S == SessionsOn(s) IN
  /\ slots' = [slots EXCEPT ![s] =
                 IF Strategy = "Dedicated" \/ ~Populated(s) THEN Nil
                 ELSE [slots[s] EXCEPT !.alive = FALSE, !.count = 0]]
  /\ Unmap(S)
  /\ ClearSenders(S)
  /\ evicted' = WithEvicted(S)
  /\ inFlight' = inFlight \ S

(* shutdown marks every populated slot dead. *)
MarkAllDead ==
  slots' = [s \in Slot |-> IF Populated(s) THEN [slots[s] EXCEPT !.alive = FALSE]
                           ELSE Nil]

=============================================================================
