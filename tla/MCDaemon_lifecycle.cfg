SPECIFICATION Spec
CONSTANTS
  p1 = p1
  p2 = p2
  g1 = g1
  c1 = c1
  c2 = c2
  Nil = Nil
  Procs <- TwoProcs
  Callers <- OneCaller
  Conns <- TwoConns
  MaxListens <- OneEach
CHECK_DEADLOCK FALSE
INVARIANTS
  TypeOK
  ServerReachable
  HandlersBeforeClose
PROPERTIES
  StopLeavesNothing
  StopEnds
