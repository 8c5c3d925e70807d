------------------------- MODULE MCDependencyGraph -------------------------
(* Small instances of DependencyGraph for TLC. *)
EXTENDS DependencyGraph, TLC

CONSTANTS C1, C2, C3, P1, P2

ThreeCards == {C1, C2, C3}
TwoProcs == {P1, P2}

GraphSymmetry == Permutations(ThreeCards) \cup Permutations(TwoProcs)
=============================================================================
