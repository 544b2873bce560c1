SPECIFICATION Spec
CONSTANTS
  Callers = {c1, c2, c3}
  Threshold = 2
  Timeout = 1
  HalfOpenChoices = {1}
  AuditCap = 2
SYMMETRY CallerSymmetry
INVARIANT
  TrialsAreLimited
