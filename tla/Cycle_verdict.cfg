\* Every graph of three cards, every edge asked about.
SPECIFICATION LiveSpec
CONSTANTS
  C1 = C1
  C2 = C2
  C3 = C3
  Cards <- ThreeCards
INVARIANTS
  VerdictCorrect
PROPERTIES
  Terminates
CHECK_DEADLOCK FALSE
