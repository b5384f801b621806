SPECIFICATION Spec
CONSTANTS
  Chat = {c1, c2}
  Message = {m1, m2}
  MaxSessions = 2
  Nil = Nil
PROPERTIES
  ReconnectsWhenDead
CHECK_DEADLOCK FALSE
