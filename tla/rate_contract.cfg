SPECIFICATION FairSpec
CONSTANTS
  Functions = {f, g}
  Global = Global
  MaxRequests = 2
  Window = 3
  Nothing = Nothing
  Horizon = 4
INVARIANTS
  TypeOK
  BurstBounded
PROPERTIES
  ImplementsContract
  EveryFunctionServed
