SPECIFICATION Spec
CONSTANTS
  Patterns <- MCPatterns
  Functions <- MCFunctions
  MaxAny = 2
  MaxGrammar = 4
  Applies <- DriverMatches
  CrateFunctions <- MCFunctions
  Offered <- MCOffered
  MaxRegistrations = 3
  Meaning <- MCMeaning
  Crate <- MCCrate
  MaxWords = 0
CHECK_DEADLOCK FALSE
INVARIANT
  NegationBindsTightest
