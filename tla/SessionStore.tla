------------------------------ MODULE SessionStore ------------------------------
(***************************************************************************)
(* The harness's session store (harness/src/session_store.rs) and the data *)
(* it keeps of a session (session.rs).  The lock of the map is never held  *)
(* across an await, so each method is one atomic operator.                 *)
(*                                                                         *)
(* A prompt's messages enter a history together, so a history is the       *)
(* sequence of the prompts, named by their requests, that were committed.  *)
(* A working directory is named by the request that asked for it, Nil for  *)
(* the one that the session was made with.                                 *)
(***************************************************************************)
EXTENDS HarnessIds

VARIABLES
  issued,        \* ids that were given out; they are never given out again
  known,         \* the keys of InMemorySessionStore::sessions
  data           \* [Session -> SessionData]: its values, for the keys

storeVars == <<issued, known, data>>

SessionData ==
  [history : Seq(Task), mode : Mode, model : Model, cwd : Task \cup {Nil}]

Data(history, mode, model, cwd) ==
  [history |-> history, mode |-> mode, model |-> model, cwd |-> cwd]

(* A new session; and what stands where there is none. *)
Blank == Data(<< >>, DefaultMode, DefaultModel, Nil)

WithMode(d, m) == Data(d.history, m, d.model, d.cwd)

(* Mutant: the model is written into the mode. *)
WithModelAsMode(d, m) == Data(d.history, m, d.model, d.cwd)

WithModel(d, m) == Data(d.history, d.mode, m, d.cwd)

WithTurn(d, t) == Data(Append(d.history, t), d.mode, d.model, d.cwd)

WithCwd(d, c) == Data(d.history, d.mode, d.model, c)

StoreTypeOK ==
  /\ issued \subseteq Session
  /\ known \subseteq issued
  /\ data \in [Session -> SessionData]

StoreInit ==
  /\ issued = {}
  /\ known = {}
  /\ data = [s \in Session |-> Blank]

(* s is the id the next uuid stands for. *)
Unissued(s) == s \in Session \ issued /\ \A u \in Session : u < s => u \in issued

Create(s, d) ==
  /\ issued' = issued \cup {s}
  /\ known' = known \cup {s}
  /\ data' = [data EXCEPT ![s] = d]

(* save fails for a session the store does not have. *)
Save(s, d) ==
  /\ data' = IF s \in known THEN [data EXCEPT ![s] = d] ELSE data
  /\ UNCHANGED <<issued, known>>

Delete(s) ==
  /\ known' = known \ {s}
  /\ data' = [data EXCEPT ![s] = Blank]
  /\ UNCHANGED issued

================================================================================
