SPECIFICATION Spec
CONSTANTS
  Strategy = "LeastConnections"
  PoolSize = 2
  Ext = {e1, e2}
  BSid = {s1, s2}
  Frontend = {f1, f2}
  Backend = {b1, b2}
  Task = {t1, t2, t3}
  MaxEvicted = 2
  MaxRetries = 2
  Workload = {"new", "load", "prompt", "relay", "fork", "close", "idle"}
  Nil = Nil
SYMMETRY Symmetry
INVARIANTS
  OnePromptPerSession
  NeverOvercount
  PinnedCallbacks
  SessionReachesItsProcess
