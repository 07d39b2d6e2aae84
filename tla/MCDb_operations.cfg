SPECIFICATION Spec
CONSTANTS
  k1 = k1
  k2 = k2
  j1 = j1
  n1 = n1
  Nil = Nil
  Keys <- OneKey
  Values <- JsonAndNumber
  JsonValues <- JsonOnly
  NumValues <- NumberOnly
  MaxTime = 2
  Ops <- AllOps
  Faults <- None
  MaxGen = 2
  CacheKeys <- None
  MaxJobs = 1
  MaxGets = 1
INVARIANTS
  TypeOK
  MemoryMatchesDisk
PROPERTIES
  RestartRestores
  KeepsPromise
