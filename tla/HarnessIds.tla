------------------------------- MODULE HarnessIds -------------------------------
(***************************************************************************)
(* What the modules of the harness share: the names of its sessions,       *)
(* requests, modes and models, and its configuration.                      *)
(***************************************************************************)
EXTENDS Naturals, Sequences

CONSTANTS
  Session,       \* session ids, numbered in the order they are issued
  Task,          \* requests, numbered in the order they arrive
  Mode, Model,   \* the ids of modes and models the harness knows
  DefaultMode, DefaultModel,
  Source,        \* tool sources
  SourcesOf,     \* [Mode -> SUBSET Source]: the tool sources of each mode
  Nil            \* nothing

(* A runtime lives as long as somebody refers to it, so each one built has *)
(* a name of its own: the request that built it, and its how manieth.      *)
Runtime == Task \X (1 .. 2)

ASSUME IdsAssumption ==
  /\ Session \subseteq Nat /\ Task \subseteq Nat
  /\ DefaultMode \in Mode /\ DefaultModel \in Model
  /\ SourcesOf \in [Mode -> SUBSET Source]
  /\ Nil \notin Session \cup Task \cup Runtime \cup Mode \cup Model

================================================================================
