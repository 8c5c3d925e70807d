\* Every fault: failed writes of both kinds, torn appends, crashes.
SPECIFICATION Spec
CONSTANTS
  None = None
  D1 = D1
  D2 = D2
  X1 = X1
  X2 = X2
  Digests <- TwoDigests
  Contents <- TwoContents
  CallKinds = {"explicit", "claimed"}
  WriteFaults = {"before", "after", "torn"}
  Errnos = {"nospace", "io"}
  MaxCalls = 4
  MaxFaults = 3
SYMMETRY CreateSymmetry
INVARIANTS
  AcceptedHasCore
  ExactReplay
  RejectedStaysReserved
  ResumePossible
PROPERTIES
  GrantKept
CHECK_DEADLOCK FALSE
