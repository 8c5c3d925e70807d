----------------------------- MODULE CycleCheck -----------------------------
(***************************************************************************)
(* would_create_cycle of dependency_graph.py: the depth-first search that  *)
(* decides, before an edge card -> dep is written, whether dep already     *)
(* reaches card.  One step is one iteration of its loop.                   *)
(*                                                                         *)
(* The graph is arbitrary: the module was written because the live board   *)
(* already held cycles, so the search must end on cyclic graphs too.  The  *)
(* stack's order and repetitions do not show in the result; it is kept as  *)
(* a set.  A dependency that is no card of the graph has no outgoing edge. *)
(***************************************************************************)
EXTENDS Reachability

VARIABLES edges,    \* what each card depends on
          card, dep, \* the edge asked about
          stack, seen,
          verdict   \* "running", or the Boolean the function returns

searchVars == <<edges, card, dep, stack, seen, verdict>>

\* The type invariant.
SearchTypeOK ==
  /\ edges \in Edges
  /\ card \in Cards /\ dep \in Cards
  /\ stack \in SUBSET Cards /\ seen \in SUBSET Cards
  /\ verdict \in {"running", "cycle", "acyclic"}

SearchInit ==
  /\ edges \in Edges
  /\ card \in Cards /\ dep \in Cards
  /\ stack = {dep} /\ seen = {}
  /\ verdict = IF card = dep THEN "cycle" ELSE "running"

\* Fault: the edges of a visited card are pushed but the card is not remembered
\* as visited.
VisitForgetting(x) ==
  /\ verdict = "running" /\ x \in stack
  /\ IF x = card
     THEN verdict' = "cycle" /\ stack' = stack \ {x} /\ UNCHANGED seen
     ELSE /\ stack' = (stack \ {x}) \cup edges[x]
          /\ UNCHANGED <<verdict, seen>>
  /\ UNCHANGED <<edges, card, dep>>

\* Fault: only the direct dependencies of dep are looked at.
VisitShallow(x) ==
  /\ verdict = "running" /\ x \in stack
  /\ IF x = card
     THEN verdict' = "cycle" /\ stack' = stack \ {x} /\ UNCHANGED seen
     ELSE /\ seen' = seen \cup {x}
          /\ stack' = (stack \ {x}) \cup (IF x = dep THEN edges[x] ELSE {})
          /\ UNCHANGED verdict
  /\ UNCHANGED <<edges, card, dep>>

\* Pop x: it is the card, was seen before, or is expanded.
Visit(x) ==
  /\ verdict = "running" /\ x \in stack
  /\ IF x = card
     THEN verdict' = "cycle" /\ stack' = stack \ {x} /\ UNCHANGED seen
     ELSE /\ IF x \in seen
             THEN stack' = stack \ {x} /\ UNCHANGED seen
             ELSE stack' = (stack \ {x}) \cup edges[x] /\ seen' = seen \cup {x}
          /\ UNCHANGED verdict
  /\ UNCHANGED <<edges, card, dep>>

Exhausted ==
  /\ verdict = "running" /\ stack = {}
  /\ verdict' = "acyclic"
  /\ UNCHANGED <<edges, card, dep, stack, seen>>

SearchNext == Exhausted \/ \E x \in Cards : Visit(x)

SearchSpec == SearchInit /\ [][SearchNext]_searchVars

\* The loop runs until it returns.
LiveSpec == SearchSpec /\ WF_searchVars(SearchNext)

-----------------------------------------------------------------------------
(* Properties *)

\* The search answers "cycle" exactly when the dependency reaches the card, on
\* every graph, cyclic ones included.
VerdictCorrect ==
  /\ verdict = "cycle" => Reaches(edges, dep, card)
  /\ verdict = "acyclic" => ~Reaches(edges, dep, card)

\* The search ends on every graph.
Terminates == <>(verdict # "running")

-----------------------------------------------------------------------------
(* The inductive invariant behind VerdictCorrect *)

\* Everything the search has touched is reachable, and everything it has
\* expanded has its dependencies on the stack or expanded as well.
SearchInv ==
  /\ SearchTypeOK
  /\ \A x \in stack \cup seen : Reaches(edges, dep, x)
  /\ verdict = "cycle" => Reaches(edges, dep, card)
  /\ verdict # "cycle" => /\ dep \in stack \cup seen
                          /\ card \notin seen
                          /\ \A x \in seen : edges[x] \subseteq stack \cup seen
  /\ verdict = "acyclic" => stack = {}
=============================================================================
