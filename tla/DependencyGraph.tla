-------------------------- MODULE DependencyGraph --------------------------
(***************************************************************************)
(* The dependency graph of the board and the processes that change it:     *)
(* amend_dependency (add_dependency, remove_dependency) and the creation   *)
(* of a card with dependencies (CardStore.create through _govern_create).  *)
(*                                                                         *)
(* Both check for a cycle before they write, on a graph they read by       *)
(* folding one card after the other.  An amendment holds the lock of the   *)
(* card it amends, a creation holds the creation governor's lock; neither  *)
(* excludes an amendment of another card.  A card may name a dependency    *)
(* that is not created yet; an amendment may not.                          *)
(*                                                                         *)
(* The search itself is module CycleCheck; here it is the reachability it  *)
(* decides.                                                                *)
(***************************************************************************)
EXTENDS Reachability

CONSTANTS Procs,   \* processes on this host
          NoCard

ASSUME GraphAssumption == NoCard \notin Cards

VARIABLES born,   \* cards that have a core
          deps,   \* [Cards -> SUBSET Cards]: folded dependencies
          proc,   \* [Procs -> GraphOperations]: what each process is doing
          raced   \* history: an edge was written while another check was running

graphVars == <<born, deps, proc, raced>>

NoEdges == [c \in Cards |-> {}]

\* want: the dependencies to write; unread: cards still to be folded; view: the
\* graph read so far.
GraphOperations == [pc : {"idle", "read", "write"}, kind : {"none", "add", "create"},
                    card : Cards \cup {NoCard}, want : SUBSET Cards,
                    unread : SUBSET Cards, view : Edges]

NoGraphOperation == [pc |-> "idle", kind |-> "none", card |-> NoCard, want |-> {},
                     unread |-> {}, view |-> NoEdges]

\* The type invariant.
GraphTypeOK ==
  /\ born \in SUBSET Cards
  /\ deps \in Edges
  /\ proc \in [Procs -> GraphOperations]
  /\ raced \in BOOLEAN

-----------------------------------------------------------------------------
(* Locks *)

Resting(p) == proc[p].pc = "idle"

CardLockFree(c) == \A q \in Procs : ~(proc[q].kind = "add" /\ proc[q].card = c)

GovernorFree == \A q \in Procs : proc[q].kind # "create"

Finish(p) == proc' = [proc EXCEPT ![p] = NoGraphOperation]

\* Another process has begun to read the graph and has not written yet.
OthersChecking(p) == \E q \in Procs \ {p} : ~Resting(q)

-----------------------------------------------------------------------------
(* amend_dependency *)

\* Take the lock of c and list the cards.  An edge that is there already is a
\* no-op and changes nothing.
AddDependency(p, c, d) ==
  /\ Resting(p)
  /\ c # d /\ c \in born /\ d \in born
  /\ CardLockFree(c)
  /\ d \notin deps[c]
  /\ proc' = [proc EXCEPT ![p] = [pc |-> "read", kind |-> "add", card |-> c, want |-> {d},
                                  unread |-> born, view |-> NoEdges]]
  /\ UNCHANGED <<born, deps, raced>>

\* A removal needs no check: lock, test, append.
RemoveDependency(p, c, d) ==
  /\ Resting(p)
  /\ c # d /\ c \in born /\ d \in born
  /\ CardLockFree(c)
  /\ d \in deps[c]
  /\ deps' = [deps EXCEPT ![c] = @ \ {d}]
  /\ UNCHANGED <<born, proc, raced>>

-----------------------------------------------------------------------------
(* create *)

\* A birth without dependencies is not checked.
CreateFree(p, c) ==
  /\ Resting(p)
  /\ c \notin born /\ GovernorFree
  /\ born' = born \cup {c}
  /\ UNCHANGED <<deps, proc, raced>>

CreateDependent(p, c, D) ==
  /\ Resting(p)
  /\ c \notin born /\ D # {} /\ GovernorFree
  /\ proc' = [proc EXCEPT ![p] = [pc |-> "read", kind |-> "create", card |-> c, want |-> D,
                                  unread |-> born, view |-> NoEdges]]
  /\ UNCHANGED <<born, deps, raced>>

-----------------------------------------------------------------------------
(* The check and the write *)

\* list_cards folds one card.
ReadCard(p, x) ==
  /\ proc[p].pc = "read" /\ x \in proc[p].unread
  /\ proc' = [proc EXCEPT ![p].unread = @ \ {x}, ![p].view[x] = deps[x]]
  /\ UNCHANGED <<born, deps, raced>>

\* Fault: a creation is refused only if all of its dependencies close a cycle.
CheckSome(p) ==
  /\ proc[p].pc = "read" /\ proc[p].unread = {}
  /\ IF \A d \in proc[p].want : Reaches(proc[p].view, d, proc[p].card)
     THEN Finish(p)
     ELSE proc' = [proc EXCEPT ![p].pc = "write"]
  /\ UNCHANGED <<born, deps, raced>>

\* Refuse, or go on to write.
Check(p) ==
  /\ proc[p].pc = "read" /\ proc[p].unread = {}
  /\ IF \E d \in proc[p].want : Reaches(proc[p].view, d, proc[p].card)
     THEN Finish(p)
     ELSE proc' = [proc EXCEPT ![p].pc = "write"]
  /\ UNCHANGED <<born, deps, raced>>

\* Append the amendment, or write core.json.
Write(p) ==
  /\ proc[p].pc = "write"
  /\ born' = born \cup {proc[p].card}
  /\ deps' = [deps EXCEPT ![proc[p].card] = @ \cup proc[p].want]
  /\ raced' = (raced \/ OthersChecking(p))
  /\ Finish(p)

-----------------------------------------------------------------------------
GraphInit ==
  /\ born = {} /\ deps = NoEdges
  /\ proc = [p \in Procs |-> NoGraphOperation]
  /\ raced = FALSE

GraphNext == \E p \in Procs :
  \/ Check(p) \/ Write(p)
  \/ \E c \in Cards :
       \/ CreateFree(p, c)
       \/ ReadCard(p, c)
       \/ \E D \in SUBSET Cards : CreateDependent(p, c, D)
       \/ \E d \in Cards : AddDependency(p, c, d) \/ RemoveDependency(p, c, d)

GraphSpec == GraphInit /\ [][GraphNext]_graphVars

-----------------------------------------------------------------------------
(* Properties *)

\* "Detection belongs at write time": no card ever depends on itself through
\* others, so no set of cards waits on itself for ever.  The code does not keep this
\* as it stands; AcyclicUnlessRaced below says when it does.
Acyclic == \A c \in Cards : \A d \in deps[c] : ~Reaches(deps, d, c)

\* The graph stays acyclic as long as no edge is written while another process
\* is between its first read of the graph and its own write; removals and
\* births without dependencies may interleave freely.
AcyclicUnlessRaced == ~raced => Acyclic

-----------------------------------------------------------------------------
(* The inductive invariant behind AcyclicUnlessRaced *)

\* What a running check has read covers the present graph (edges may have been
\* removed since), and a check that passed is still valid.
ViewCovers ==
  \A p \in Procs : ~Resting(p) =>
    /\ proc[p].card \in Cards
    /\ ~raced =>
         /\ \A x \in Cards \ proc[p].unread : deps[x] \subseteq proc[p].view[x]
         /\ proc[p].pc = "write" =>
              /\ proc[p].unread = {}
              /\ \A d \in proc[p].want : ~Reaches(proc[p].view, d, proc[p].card)

\* A card without a core has no dependencies.
UnbornBare == \A c \in Cards \ born : deps[c] = {}

GraphInv == GraphTypeOK /\ ViewCovers /\ UnbornBare /\ AcyclicUnlessRaced
=============================================================================
