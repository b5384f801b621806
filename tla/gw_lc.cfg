SPECIFICATION FairSpec
CONSTANTS
  Strategy = "LeastConnections"
  PoolSize = 1
  Ext = {e1}
  BSid = {s1}
  Frontend = {f1}
  Backend = {b1, b2, b3}
  Task = {t1}
  MaxEvicted = 1
  MaxRetries = 2
  Workload = {"init", "new", "load", "prompt", "crash", "spawnfail", "shutdown"}
  Nil = Nil
INVARIANTS
  LiveSlotHasProcess
  NoOneWaitsOnTheDead
  InitReachesEveryBackend
  DeadSlotAttended
PROPERTIES
  PromptFlagClears
  ReloadEnds
  DeadSlotRecovers
