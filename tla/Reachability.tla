---------------------------- MODULE Reachability ----------------------------
(***************************************************************************)
(* Reachability in the dependency graph of the board (pure): what the      *)
(* search of would_create_cycle decides (CycleCheck) and what those that   *)
(* write edges rely on (DependencyGraph).  A graph maps a card to what it  *)
(* depends on; a dependency without a core is a card without edges.        *)
(***************************************************************************)
CONSTANT Cards   \* card identifiers

Edges == [Cards -> SUBSET Cards]

\* S holds with every card all of its dependencies.
Closed(E, S) == \A x \in S : E[x] \subseteq S

\* d reaches c: no set closed under dependencies holds d but not c.  The edge
\* c -> d closes a cycle when d reaches c.
Reaches(E, d, c) == \A S \in SUBSET Cards : d \in S /\ Closed(E, S) => c \in S
=============================================================================
