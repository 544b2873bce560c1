SPECIFICATION Spec
CONSTANTS
  Functions <- SyncFunctions
  Attributes <- AllAttributes
  MaxLayers = 2
  Limit = 1
INVARIANT
  InlineLimitIsKept
