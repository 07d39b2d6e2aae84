SPECIFICATION Spec
CONSTANTS
  r1 = r1
  r2 = r2
  k1 = k1
  k2 = k2
  Nil = Nil
  Calls <- TwoCalls
  Conns <- TwoConns
  maxIdleConns = 1
  callAttempts = 2
CHECK_DEADLOCK FALSE
INVARIANTS
  TypeOK
  OwnAnswer
  NoForeignClose
  NoneLeaked
  RepeatedOnlyWhenDropped
PROPERTIES
  CallsReturn
