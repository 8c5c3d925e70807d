----------------------------- MODULE MCGovernor -----------------------------
EXTENDS Governor, TLC
CONSTANTS T, L, N1, N2, P1, P2
AllIds == {T, L, N1, N2}
OldIds == {L}
TwoProcs == {P1, P2}
GovernorSymmetry == Permutations({N1, N2}) \cup Permutations(TwoProcs)
=============================================================================
