------------------------------ MODULE MCBoard ------------------------------
(* Small instances of Board for TLC. *)
EXTENDS BoardRefinement, TLC

CONSTANTS A1, A2, C1, C2, C3

TwoAgents == {A1, A2}
TwoCards == {C1, C2}
ThreeCards == {C1, C2, C3}

\* C3 depends on C1; C2 is free.
NoDeps == [c \in TwoCards |-> {}]
ThreeDeps == [c \in ThreeCards |-> IF c = C3 THEN {C1} ELSE {}]

AgentSymmetry == Permutations(TwoAgents)
=============================================================================
