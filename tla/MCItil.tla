------------------------------- MODULE MCItil -------------------------------
EXTENDS Itil, TLC
CONSTANTS A1, A2, P1, P2, I1, I2
TwoAgents == {A1, A2}
OneHuman == {A1}
TwoProcs == {P1, P2}
TwoItems == {I1, I2}
Asked == [incident |-> {"acknowledged", "resolved", "closed"},
          problem  |-> {"analyzing", "resolved"},
          change   |-> {"reviewing", "approved", "rejected", "scheduled", "implementing",
                       "deployed", "verified", "failed", "closed"}]
Bounds == [incident |-> 4, problem |-> 4, change |-> 3]
Sevs == {"sev1", "sev3"}
Sym == Permutations(TwoProcs) \cup Permutations(TwoItems)
=============================================================================
