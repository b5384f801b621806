SPECIFICATION Spec
CONSTANTS
  Strategy = "Dedicated"
  PoolSize = 2
  Ext = {e1, e2}
  BSid = {s1, s2}
  Frontend = {f1}
  Backend = {b1, b2, b3}
  Task = {t1, t2}
  MaxEvicted = 1
  MaxRetries = 2
  Workload = {"init", "new", "load", "prompt", "close", "crash", "idle", "spawnfail"}
  Nil = Nil
SYMMETRY Symmetry
INVARIANTS
  TypeOK
  DirectoryConsistent
  OnePlace
  BackendSidStable
  PromptFlagOwned
PROPERTIES
  ImplementsLifecycle
