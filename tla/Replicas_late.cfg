\* Claims, releases and completions of one card on three hosts.
SPECIFICATION ReplicaSpec
CONSTANTS
  None = None
  A = A
  B = B
  C = C
  Agents <- AllAgents
  Rank <- NameOrder
  MaxTime = 4
  MaxRows = 4
INVARIANTS
  NoGhostOwner
  LosersRecorded
CHECK_DEADLOCK FALSE
