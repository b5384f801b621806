------------------------------ MODULE ToolRuntimes ------------------------------
(***************************************************************************)
(* The harness's tool runtimes: ToolRuntimeManager (tool_runtime.rs) and   *)
(* the ToolRegistry each runtime keeps behind a lock (tool.rs).            *)
(***************************************************************************)
EXTENDS HarnessIds

VARIABLES
  table,         \* [Session -> Runtime or Nil]: ToolRuntimeManager::runtimes
  sources,       \* [Runtime -> SUBSET Source]: active_sources
  listed,        \* the runtimes whose tools_cache holds all their tools
  lock           \* [Runtime -> Seq(Task)]: who has, then who awaits, its tools

runtimeVars == <<table, sources, listed, lock>>

RuntimesTypeOK ==
  /\ table \in [Session -> Runtime \cup {Nil}]
  /\ sources \in [Runtime -> SUBSET Source]
  /\ listed \subseteq Runtime
  /\ lock \in [Runtime -> Seq(Task)]

RuntimesInit ==
  /\ table = [s \in Session |-> Nil]
  /\ sources = [r \in Runtime |-> {}]
  /\ listed = {}
  /\ lock = [r \in Runtime |-> << >>]

(* Mutant: any runtime of the session will do. *)
IsThere(s, m) == table[s] # Nil

(* The session has a runtime with the sources of mode m. *)
Reusable(s, m) == table[s] # Nil /\ sources[table[s]] = SourcesOf[m]

(* r, built with the sources of mode m, becomes the runtime of s. *)
Install(s, r, m) ==
  /\ table' = [table EXCEPT ![s] = r]
  /\ sources' = [sources EXCEPT ![r] = SourcesOf[m]]
  /\ listed' = listed \cup {r}

Remove(s) ==
  /\ table' = [table EXCEPT ![s] = Nil]
  /\ UNCHANGED <<sources, listed, lock>>

Queue(t, r) == lock' = [lock EXCEPT ![r] = Append(@, t)]

(* Mutant: the registry is refreshed without its lock. *)
AwaitsTools(t, r) == \E i \in 1 .. Len(lock[r]) : lock[r][i] = t

(* t is the first in the queue: it has the registry to itself. *)
HasTools(t, r) == lock[r] # << >> /\ Head(lock[r]) = t

Release(r) == lock' = [lock EXCEPT ![r] = Tail(@)]

(* refresh_tools empties the cache, then asks every source. *)
ClearTools(r) == listed' = listed \ {r}

ListTools(r) == listed' = listed \cup {r}

================================================================================
