---------------------------- MODULE AtomicBoard ----------------------------
(***************************************************************************)
(* What the board promises its callers: claim, release and complete are    *)
(* atomic.  A card has an owner and a column and changes by one step per   *)
(* operation; claiming a card makes every other card the agent is working  *)
(* on wait.  An operation that fails leaves no trace.                      *)
(*                                                                         *)
(* Loose cards are those the promise does not cover: someone moved or      *)
(* assigned them around the protocol, or a crash hit an operation on them. *)
(* They may be anything; the others stay within the rules.                 *)
(***************************************************************************)
CONSTANTS Agents, Cards, Deps, None

VARIABLES state,   \* [Cards -> States]
          loose    \* cards outside the promise; never shrinks

vars == <<state, loose>>

States == [owner : Agents \cup {None},
           status : {"backlog", "ready", "doing", "review", "done"}]

Unowned(column) == [owner |-> None, status |-> column]

\* The cards that still count become f; loose ones become anything.
Become(f) ==
  /\ state' \in [Cards -> States]
  /\ loose \subseteq loose'
  /\ \A c \in Cards \ loose' : state'[c] = f[c]

DepsDone(c) == \A d \in Deps[c] \ loose : state[d].status = "done"

WorksOn(a, c) == state[c].owner = a /\ state[c].status = "doing"

\* a takes c, or takes it up again, and puts everything else aside.
Claim(a, c) ==
  /\ c \notin loose => /\ state[c].owner \in {None, a} /\ state[c].status # "done"
                       /\ DepsDone(c)
  /\ Become([d \in Cards |-> IF d = c THEN [owner |-> a, status |-> "doing"]
                             ELSE IF WorksOn(a, d) THEN [owner |-> a, status |-> "ready"]
                             ELSE state[d]])

Release(a, c) ==
  /\ c \notin loose => state[c].owner = a
  /\ Become([state EXCEPT ![c] = Unowned("backlog")])

Complete(a, c) ==
  /\ c \notin loose => state[c].owner \in {None, a} /\ DepsDone(c)
  /\ Become([state EXCEPT ![c] = Unowned("done")])

\* Cards become loose, or loose cards change.
Drift == Become(state)

Init == state = [c \in Cards |-> Unowned("backlog")] /\ loose = {}

Next == Drift \/ \E a \in Agents, c \in Cards : Claim(a, c) \/ Release(a, c) \/ Complete(a, c)

Spec == Init /\ [][Next]_vars

-----------------------------------------------------------------------------
(* What follows for callers *)

\* Nobody works on two cards at once.
OneAtATime ==
  \A a \in Agents : \A c, d \in Cards \ loose : WorksOn(a, c) /\ WorksOn(a, d) => c = d

\* A card that left the backlog waits for nothing, and done cards stay done.
Gate == \A c \in Cards \ loose :
          state[c].status # "backlog" => \A d \in Deps[c] \ loose : state[d].status = "done"
=============================================================================
