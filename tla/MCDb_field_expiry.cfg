SPECIFICATION Spec
CONSTANTS
  k1 = k1
  k2 = k2
  j1 = j1
  n1 = n1
  Nil = Nil
  Keys <- OneKey
  Values <- JsonOnly
  JsonValues <- JsonOnly
  NumValues <- None
  MaxTime = 1
  Ops <- FieldOps
  Faults <- None
  MaxGen = 2
  CacheKeys <- None
  MaxJobs = 0
  MaxGets = 0
INVARIANTS
  SetFieldIsLogged
