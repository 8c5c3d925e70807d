\* Drift, repairs and transitions, failed writes and crashes.
SPECIFICATION Spec
CONSTANTS
  None = None
  A1 = A1
  A2 = A2
  C1 = C1
  C2 = C2
  Agents <- TwoAgents
  Cards <- TwoCards
  Moves <- SomeMoves
  MaxDrift = 2
  MaxFaults = 1
  MaxRepairs = 2
CONSTRAINT SecondAfterInterruption
SYMMETRY AgentSymmetry
INVARIANTS
  RepairSound
PROPERTIES
  SuccessIsClean
  ErrorUndoes
  RecoveredWasClean
  WorkKept
CHECK_DEADLOCK FALSE
