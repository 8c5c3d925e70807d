SPECIFICATION GraphSpec
CONSTANTS
  NoCard = NoCard
  C1 = C1
  C2 = C2
  C3 = C3
  P1 = P1
  P2 = P2
  Cards <- ThreeCards
  Procs <- TwoProcs
SYMMETRY GraphSymmetry
INVARIANTS
  AcyclicUnlessRaced
