\* Both tools, writers with and without the lock, interruptions of every kind.
SPECIFICATION Spec
CONSTANTS
  None = None
  V1 = V1
  V2 = V2
  V3 = V3
  B1 = B1
  B2 = B2
  P1 = P1
  P2 = P2
  Rows <- AllRows
  Bad <- BadRows
  Start <- Damaged
  Plans <- TwoPlans
  Pinned = P1
  MaxOther = 1
  MaxForeign = 2
  MaxFaults = 2
INVARIANTS
  NothingLost
  RestorePossible
PROPERTIES
  ReceiptsBind
CHECK_DEADLOCK FALSE
