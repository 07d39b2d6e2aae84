SPECIFICATION Spec
CONSTANTS
  k1 = k1
  v1 = v1
  v2 = v2
  Nil = Nil
  Keys <- OneKey
  Values <- TwoValues
  JsonValues <- None
  NumValues <- None
  Ops <- SomeOps
  CacheKeys <- None
  Faults <- None
  MaxTime = 0
  MaxGen = 3
  MaxJobs = 0
  MaxGets = 0
INVARIANT
  NewWritesSurvive
CHECK_DEADLOCK FALSE
