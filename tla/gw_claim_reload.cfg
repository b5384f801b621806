SPECIFICATION Spec
CONSTANTS
  Strategy = "Dedicated"
  PoolSize = 1
  Ext = {e1, e2}
  BSid = {s1, s2}
  Frontend = {f1}
  Backend = {b1, b2}
  Task = {t1}
  MaxEvicted = 3
  MaxRetries = 2
  Workload = {"new", "prompt", "relay", "idle"}
  Nil = Nil
SYMMETRY Symmetry
PROPERTIES
  EvictedStaysReloadable
