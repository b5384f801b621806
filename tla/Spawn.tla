-------------------------------- MODULE Spawn --------------------------------
(***************************************************************************)
(* Backend processes and the task that supervises each of them:            *)
(* gateway/acp-gateway/src/spawn.rs, and the methods of pool.rs that spawn *)
(* and initialize.  The supervisor awaits the connection's I/O task; when  *)
(* that ends it reports the death of its SLOT and, under LeastConnections, *)
(* enters the respawn loop.                                                *)
(***************************************************************************)
EXTENDS AgentPool

CONSTANT MaxRetries     \* MAX_RETRIES, 5 in the code

ASSUME RetriesAssumption == MaxRetries \in Nat \ {0}

VARIABLES
  backend,       \* [Backend -> Process]
  initRequest,   \* an InitializeRequest has been stored
  initialized    \* the backends that were sent an initialize (history)

spawnVars == <<backend, initRequest, initialized>>

(* io is the connection's I/O task; loop is where the supervisor stands:   *)
(* awaiting io, sleeping before attempt number "attempt", or awaiting the  *)
(* initialize it replayed to the process "next", whose outcome is "res".   *)
Process ==
  [io      : {"unborn", "up", "down"},
   slot    : Slot \cup {Nil},
   loop    : {"watch", "backoff", "init", "done", "gaveup"},
   attempt : 0 .. MaxRetries,
   next    : Backend \cup {Nil},
   res     : {"none", "ok", "err"}]

SpawnTypeOK ==
  /\ backend \in [Backend -> Process]
  /\ initRequest \in BOOLEAN
  /\ initialized \subseteq Backend

Unborn == [io |-> "unborn", slot |-> Nil, loop |-> "done",
           attempt |-> 0, next |-> Nil, res |-> "none"]

Born(s) == [io |-> "up", slot |-> s, loop |-> "watch",
            attempt |-> 0, next |-> Nil, res |-> "none"]

Up(b)     == backend[b].io = "up"
IsUnborn(b) == backend[b].io = "unborn"

(* spawn_initial_backends: LeastConnections fills every slot at startup.   *)
SpawnInit ==
  /\ initRequest = FALSE
  /\ initialized = {}
  /\ \/ /\ Strategy = "Dedicated"
        /\ slots = [s \in Slot |-> Nil]
        /\ backend = [b \in Backend |-> Unborn]
     \/ /\ Strategy = "LeastConnections"
        /\ \E boot \in [Slot -> Backend] :
             /\ \A r, s \in Slot : boot[r] = boot[s] => r = s
             /\ slots = [s \in Slot |->
                           [bk |-> boot[s], count |-> 0, alive |-> TRUE]]
             /\ backend = [b \in Backend |->
                             IF \E s \in Slot : boot[s] = b
                             THEN Born(CHOOSE s \in Slot : boot[s] = b)
                             ELSE Unborn]

(* spawn_dedicated_backend up to its first await: the process is in the    *)
(* slot and the stored initialize, if any, is on its way to it.            *)
(* Sets slots, backend, initialized.                                       *)
SpawnDedicated(s, b) ==
  /\ IsUnborn(b)
  /\ InsertSlot(s, b)
  /\ backend' = [backend EXCEPT ![b] = Born(s)]
  /\ initialized' = IF initRequest THEN initialized \cup {b} ELSE initialized

(* Mutant: the attempt is not counted. *)
RetryForever(p) == [p EXCEPT !.next = Nil, !.res = "none", !.loop = "backoff"]

(* The supervisor's next round after a failed attempt. *)
NextAttempt(p) ==
  IF p.attempt + 1 < MaxRetries
  THEN [p EXCEPT !.next = Nil, !.res = "none", !.loop = "backoff", !.attempt = @ + 1]
  ELSE [p EXCEPT !.next = Nil, !.res = "none", !.loop = "gaveup"]

(* Mutant: only an I/O error starts the respawn loop, a clean end of file  *)
(* does not.                                                               *)
ConnectionEndsQuietly(b) ==
  \E next \in {"backoff", "done"} :
    backend' = [c \in Backend |->
      CASE c = b -> [backend[b] EXCEPT !.io = "down", !.loop = next]
        [] c # b /\ backend[c].loop = "init" /\ backend[c].next = b
             /\ backend[c].res = "none" -> [backend[c] EXCEPT !.res = "err"]
        [] OTHER -> backend[c]]

(* The I/O task of b ends: its own supervisor goes on, and a supervisor    *)
(* awaiting b's initialize sees it fail.  Sets backend.                    *)
ConnectionEnds(b) ==
  backend' = [c \in Backend |->
    CASE c = b -> [backend[b] EXCEPT !.io = "down",
                     !.loop = IF Strategy = "LeastConnections"
                              THEN "backoff" ELSE "done"]
      [] c # b /\ backend[c].loop = "init" /\ backend[c].next = b
           /\ backend[c].res = "none" -> [backend[c] EXCEPT !.res = "err"]
      [] OTHER -> backend[c]]

(* Mutant: the respawned process is not sent the stored initialize. *)
RespawnWithoutReplay(p) ==
  /\ backend[p].loop = "backoff"
  /\ \E b \in Backend :
       /\ IsUnborn(b)
       /\ InsertSlot(backend[p].slot, b)
       /\ backend' = [backend EXCEPT ![b] = Born(backend[p].slot), ![p].loop = "done"]
  /\ UNCHANGED <<initRequest, initialized,
                 sessions, reverse, evicted, inFlight, promptSenders>>

(* One attempt of the respawn loop: the new process overwrites the slot,   *)
(* whatever holds it by now.                                               *)
Respawn(p) ==
  /\ backend[p].loop = "backoff"
  /\ \E b \in Backend :
       /\ IsUnborn(b)
       /\ InsertSlot(backend[p].slot, b)
       /\ backend' = [backend EXCEPT
            ![b] = Born(backend[p].slot),
            ![p] = IF initRequest
                   THEN [@ EXCEPT !.loop = "init", !.next = b]
                   ELSE [@ EXCEPT !.loop = "done"]]
       /\ initialized' = IF initRequest THEN initialized \cup {b} ELSE initialized
  /\ UNCHANGED <<initRequest, sessions, reverse, evicted, inFlight, promptSenders>>

(* An attempt whose Command::spawn fails. *)
RespawnFails(p) ==
  /\ backend[p].loop = "backoff"
  /\ backend' = [backend EXCEPT ![p] = NextAttempt(@)]
  /\ UNCHANGED <<initRequest, initialized, poolVars>>

(* The respawned process answers the replayed initialize. *)
InitAnswered(p) ==
  /\ backend[p].loop = "init"
  /\ backend[p].res = "none"
  /\ Up(backend[p].next)
  /\ \E r \in {"ok", "err"} : backend' = [backend EXCEPT ![p].res = r]
  /\ UNCHANGED <<initRequest, initialized, poolVars>>

(* The loop resumes after replay_init: it returns, or `continue`s. *)
InitReplayed(p) ==
  /\ backend[p].loop = "init"
  /\ backend[p].res # "none"
  /\ backend' = [backend EXCEPT ![p] =
                   IF @.res = "ok"
                   THEN [@ EXCEPT !.loop = "done", !.next = Nil, !.res = "none"]
                   ELSE NextAttempt(@)]
  /\ UNCHANGED <<initRequest, initialized, poolVars>>

=============================================================================
