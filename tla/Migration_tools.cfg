\* Parity, reconcile, import and export between the legacy board and the store.
SPECIFICATION Spec
CONSTANTS
  None = None
  A = A
  X = X
  C1 = C1
  C2 = C2
  Agents <- AllAgents
  Names <- AllNames
  CardList <- AllCards
  Exporter = X
  MaxWrites = 2
  MaxFaults = 1
INVARIANTS
  SnapshotReal
  StoreFollowsLegacy
  ExportFaithful
CHECK_DEADLOCK FALSE
