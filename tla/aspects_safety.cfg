SPECIFICATION AspectsSpec
CONSTANTS
  Threads = {t1, t2}
  Targets = {f}
  Orders = {0, 1}
  Offered <- MCOffered
  MaxRegistrations = 3
  AdviceFunctions = {"audit", "broken", "odd"}
  Written <- MCWritten
  Functions = {f}
  Callers = {c1, c2}
  Clearers = {k1, k2}
  U32 = 3
  MaxCalls = 3
  MaxDuration = 2
  Clients = {d1, d2}
  Nobody = Nobody
  MaxTransactions = 3
  Visitors = {v}
  Roles = {"admin", "moderator", "user"}
  Users <- MCUsers
  OtherFunctions <- MCOtherFunctions
  Inputs <- MCInputs
  RuleLists <- MCRuleLists
  Handlers = {h1, h2}
  Ids = {1, 2}
  Posted <- MCPosted
  InitialIds = {1}
  MaxRequests = 4
SYMMETRY AspectsSymmetry
CHECK_DEADLOCK FALSE
INVARIANTS
  AspectsTypeOK
  LowerOrderWrapsHigher
  AdviceIsAppliedOnce
  CountsAddUp
  ExcessIsStale
  TimingAgreesWithMetrics
  OutcomeIsTheBodys
  BodiesAreUndivided
  EveryRequirementWasMet
  SteadyUserDecides
  SatisfiedIsTold
  UsersAreAccounted
PROPERTIES
  NoDueAspectIsMissed
