SPECIFICATION Spec
CONSTANTS
  Functions <- AllFunctions
  Attributes <- AllAttributes
  MaxLayers = 3
  Limit = 1
INVARIANTS
  TypeOK
  AdviceIsPaired
  AdviceMatchesResult
  ResultIsTheBodys
  KnownAroundIsCalled
  LimitIsKept
