SPECIFICATION FairSpec
CONSTANTS
  Conn = {c1}
  Req = {1, 2, 3, 4}
  MaxBuffered = 2
  MaxPumped = 3
  Workload = {"create", "post", "get", "delete"}
  Nil = Nil
CHECK_DEADLOCK FALSE
INVARIANTS
  TypeOK
  NoStreamSleeps
  LeaseOwned
  LineEndsWhole
  FrontendAttended
PROPERTIES
  ImplementsLatest
  StreamsEnd
  DeletedFrontendGoes
