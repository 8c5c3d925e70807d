---------------------------- MODULE MCLifecycle -----------------------------
EXTENDS Lifecycle, TLC
CONSTANTS A1, A2, C1, C2
TwoAgents == {A1, A2}
TwoCards == {C1, C2}
SomeMoves == {"ready", "done"}
AgentSymmetry == Permutations(TwoAgents)
\* Bound: a second job is followed only where the first was interrupted; from
\* elsewhere it starts in a state like one that a first job starts in.
SecondAfterInterruption ==
  job.pc \in {"begin", "move"} /\ job.attempt = 1 /\ receipts # <<>> => Unresolved # {}
=============================================================================
