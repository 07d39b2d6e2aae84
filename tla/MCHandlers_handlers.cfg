SPECIFICATION Spec
CONSTANTS
  near = near
  far = far
  Nil = Nil
  Keys <- ThreeKeys
  Values <- TwoValues
  Display <- SomeDisplay
  Score <- SomeScores
  Requests <- SomeRequests
  Block = 2
  MaxTime = 2
  MaxWrites = 2
INVARIANTS
  TypeOK
  EntriesAnswered
  ExpireCounts
  PagesCover
  SearchBest
  
CHECK_DEADLOCK FALSE
