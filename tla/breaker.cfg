SPECIFICATION FairSpec
CONSTANTS
  Callers = {c1, c2, c3}
  Threshold = 2
  Timeout = 2
  HalfOpenChoices = {0, 1, 2, 3}
  AuditCap = 3
INVARIANTS
  TypeOK
  CountIsFailureRun
  TrialsAreCounted
  OpenAdmitsNobody
PROPERTIES
  TripIsEarned
  RecoveryIsEarned
  ImplementsContract
  OpenEnds
  HealedServiceCloses
