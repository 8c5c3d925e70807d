\* Scheduled runs, operators and an enrollment.
SPECIFICATION Spec
CONSTANTS
  None = None
  I1 = I1
  I2 = I2
  K1 = K1
  S1 = S1
  S2 = S2
  Items <- TwoItems
  Collectors <- OneCollector
  FoundBy <- FoundByOne
  Alerting <- TwoItems
  Scopes <- TwoScopes
  Threshold = 2
  AlertRuns = 2
  Retention = 1
  MinRuns = 1
  MaxRuns = 3
  MaxChanges = 1
  MaxFaults = 1
CONSTRAINT TwoOfOne
SYMMETRY CmdbSymmetry
INVARIANTS
  SignalAlerted
PROPERTIES
  RetirementEarned
  RetirementKept
  EnrolledAsReviewed
CHECK_DEADLOCK FALSE
