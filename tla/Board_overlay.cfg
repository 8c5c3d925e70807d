\* Overlay and store events fall between the steps of an operation.
SPECIFICATION Spec
CONSTANTS
  None = None
  A1 = A1
  A2 = A2
  C1 = C1
  C2 = C2
  C3 = C3
  Agents <- TwoAgents
  Cards <- TwoCards
  Deps <- NoDeps
  MaxRev = 3
  MaxFaults = 1
  MaxDisturb = 2
SYMMETRY AgentSymmetry
INVARIANTS
  TypeOK
  Agreement
PROPERTIES
  NoTheft
  SuccessIsApplied
CHECK_DEADLOCK FALSE
