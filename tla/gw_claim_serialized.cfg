SPECIFICATION Spec
CONSTANTS
  Strategy = "LeastConnections"
  PoolSize = 2
  Ext = {e1}
  BSid = {s1}
  Frontend = {f1}
  Backend = {b1, b2, b3, b4}
  Task = {t1, t2}
  MaxEvicted = 3
  MaxRetries = 2
  Workload = {"new", "prompt", "relay", "crash", "spawnfail"}
  Nil = Nil
SYMMETRY Symmetry
INVARIANTS
  OnePromptPerSession
