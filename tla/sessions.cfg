SPECIFICATION FairSpec
CONSTANTS
  Session = {1, 2}
  Task = {1, 2, 3}
  Mode = {ask, code}
  Model = {m1, m2}
  DefaultMode = code
  DefaultModel = m1
  Source = {ask, code}
  SourcesOf <- OneSourceEach
  Workload <- OneBusySession
  Nil = Nil
CHECK_DEADLOCK FALSE
INVARIANTS
  TypeOK
  TurnMarked
  AnsweredTurnsKept
  DirectoryKept
  RuntimeFits
  NotesMatchStore
  LocksServed
PROPERTIES
  ToolsStable
  ImplementsConversation
  
