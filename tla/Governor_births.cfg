\* Births of reviews, repairs and helpers among events of existing cards.
SPECIFICATION Spec
CONSTANTS
  None = None
  T = T
  L = L
  N1 = N1
  N2 = N2
  P1 = P1
  P2 = P2
  Ids <- AllIds
  Root = T
  Legacy <- OldIds
  Procs <- TwoProcs
  Paths = {1}
  MaxEvents = 1
  MaxFaults = 1
SYMMETRY GovernorSymmetry
INVARIANTS
  ReviewsBounded
  HelpersDisjoint
PROPERTIES
  ReplacementBound
CHECK_DEADLOCK FALSE
