SPECIFICATION Spec
CONSTANTS
  k1 = k1
  Nil = Nil
  Exact = 4
  Keys <- OneKey
  Texts <- SomeTexts
  Embedded <- VectorTexts
  Paths <- SomePaths
  FurtherPaths <- MorePaths
  Operands <- SomeOperands
  Deltas <- One
  MaxTime = 2
INVARIANTS
  TypeOK
  RestartAnswers
  VectorFresh
  TimesKept
  OtherFieldsKept
  WalksAgree
