\* Every kind of record; events and votes arrive in any order.
SPECIFICATION Spec
CONSTANTS
  None = None
  A1 = A1
  A2 = A2
  P1 = P1
  P2 = P2
  I1 = I1
  I2 = I2
  Agents <- TwoAgents
  Humans <- OneHuman
  Procs <- TwoProcs
  Items <- TwoItems
  Targets <- Asked
  Severities <- Sevs
  MaxEvents <- Bounds
SYMMETRY Sym
INVARIANTS
  Authorised
  ResolutionFits
  TasksFollowRecord
PROPERTIES
  SeverityNeverDrops
CHECK_DEADLOCK FALSE
