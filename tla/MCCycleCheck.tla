---------------------------- MODULE MCCycleCheck ----------------------------
(* Every graph of three cards, every edge asked about. *)
EXTENDS CycleCheck

CONSTANTS C1, C2, C3

ThreeCards == {C1, C2, C3}
=============================================================================
