SPECIFICATION Spec
CONSTANTS
  Patterns <- MCPatterns
  Functions <- MCFunctions
  MaxAny = 2
  MaxGrammar = 4
  Applies <- DriverMatches
  CrateFunctions <- MCFunctions
  Offered <- MCOffered
  MaxRegistrations = 1
  Meaning <- MCMeaning
  Crate <- MCCrate
  MaxWords = 2
CHECK_DEADLOCK FALSE
INVARIANT
  WithinFindsTheModule
