-------------------------- MODULE MCExplicitCreate --------------------------
(* Small instances of ExplicitCreate for TLC. *)
EXTENDS ExplicitCreate, TLC

CONSTANTS D1, D2, X1, X2

TwoDigests == {D1, D2}
TwoContents == {X1, X2}

CreateSymmetry == Permutations(TwoDigests) \cup Permutations(TwoContents)
=============================================================================
