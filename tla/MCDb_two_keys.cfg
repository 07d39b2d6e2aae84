SPECIFICATION Spec
CONSTANTS
  k1 = k1
  k2 = k2
  j1 = j1
  n1 = n1
  Nil = Nil
  Keys <- TwoKeys
  Values <- JsonOnly
  JsonValues <- JsonOnly
  NumValues <- None
  MaxTime = 0
  Ops <- PairOps
  CacheKeys <- SecondKey
  Faults <- TornAndCompact
  MaxGen = 2
  MaxJobs = 1
  MaxGets = 0
INVARIANTS
  MemoryMatchesDisk
PROPERTIES
  RestartRestores
