SPECIFICATION Spec
CONSTANTS
  Exact = 4
  Numbers <- SomeNumbers
  Kinds <- AllKinds
  Alphabet <- SomePieces
  MaxPieces <- SomeLengths
  Objects <- SomeObjects
INVARIANTS
  FiltersMeanGrammar
  LimitKeepsExpression
  ComparisonsAgree
  SetWordsRead
  SearchWordsRead
  OneTarget
CHECK_DEADLOCK FALSE
