\* No outside events: write faults and crashes only.
SPECIFICATION LiveSpec
CONSTANTS
  None = None
  A1 = A1
  A2 = A2
  C1 = C1
  C2 = C2
  C3 = C3
  Agents <- TwoAgents
  Cards <- ThreeCards
  Deps <- ThreeDeps
  MaxRev = 4
  MaxFaults = 2
  MaxDisturb = 0
INVARIANTS
  DependencyGate
PROPERTIES
  ErrorRestores
  LockReleased
  ImplementsAtomic
CHECK_DEADLOCK FALSE
