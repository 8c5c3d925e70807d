----------------------------- MODULE MCRecovery -----------------------------
EXTENDS Recovery
CONSTANTS V1, V2, V3, B1, B2, P1, P2
AllRows == {V1, V2, V3, B1, B2}
BadRows == {B1, B2}
Damaged == <<V1, B1>>
TwoPlans == {P1, P2}
=============================================================================
