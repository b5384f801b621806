SPECIFICATION Spec
CONSTANTS
  Strategy = "Dedicated"
  PoolSize = 1
  Ext = {e1}
  BSid = {s1}
  Frontend = {f1}
  Backend = {b1}
  Task = {t1}
  MaxEvicted = 3
  MaxRetries = 2
  Workload = {"new", "prompt", "idle"}
  Nil = Nil
SYMMETRY Symmetry
INVARIANTS
  ConnectionOutlivesRequests
