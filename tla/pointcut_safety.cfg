SPECIFICATION Spec
CONSTANTS
  Patterns <- MCPatterns
  Functions <- MCFunctions
  MaxAny = 4
  MaxGrammar = 7
  Applies <- DriverMatches
  CrateFunctions <- MCFunctions
  Offered <- MCOffered
  MaxRegistrations = 3
  Meaning <- MCMeaning
  Crate <- MCCrate
  MaxWords = 4
CHECK_DEADLOCK FALSE
INVARIANTS
  TypeOK
  CoreReadsTheGrammar
  ParsersAgree
  AcceptedIsWellFormed
  EveryMatchIsWovenOnce
  CommandLineIsObeyed
  OutcomeIsTold
PROPERTIES
  LaterCodeExtends
