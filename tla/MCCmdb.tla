------------------------------- MODULE MCCmdb -------------------------------
EXTENDS Cmdb, TLC
CONSTANTS I1, I2, K1, S1, S2
TwoItems == {I1, I2}
OneCollector == {K1}
FoundByOne == [i \in TwoItems |-> K1]
TwoScopes == {S1, S2}
CmdbSymmetry == Permutations(TwoItems) \cup Permutations(TwoScopes)

\* A scope no artifact and no item shows.
Unused(s) ==
  /\ run.scope # s /\ \A j \in DOMAIN files : files[j].scope # s
  /\ \A i \in Items : ci[i].scope # s /\ away[i][s] = 0

\* Bound: three runs over two scopes and one item in all its states, or two runs over
\* one scope and two items that were both entered by hand.
TwoOfOne ==
  \/ \E i \in Items : world[i] = "gone" /\ ci[i].status = "none"
  \/ /\ runs <= 2 /\ \E s \in Scopes : Unused(s)
     /\ runs = 0 /\ changes = 0 =>
          \A i \in Items : world[i] = "active" /\ ci[i].status = "operational" /\ ~ci[i].owned
=============================================================================
