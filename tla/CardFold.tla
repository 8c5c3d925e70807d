------------------------------ MODULE CardFold ------------------------------
(***************************************************************************)
(* The deterministic fold of skcoord's CardStore: how one event of a       *)
(* card's append-only history changes the card the board serves.  It is    *)
(* pure: no state, only operators, so that every model that folds events   *)
(* shares one definition of what an event means.                           *)
(*                                                                         *)
(* Data kept: owner, column, claim revision, the open claim conflicts, the *)
(* archived and voided flags.  Titles, labels, links, notes, criteria,     *)
(* release audit records and agent runs do not influence any of these and  *)
(* are left out.                                                           *)
(***************************************************************************)
EXTENDS Naturals, FiniteSets

CONSTANTS Agents,   \* agent identities (AgentFile names)
          None      \* Python's None as an owner, a task or an absent field

ASSUME NoneAssumption == None \notin Agents

-----------------------------------------------------------------------------
(* Types *)

Columns == {"backlog", "ready", "doing", "review", "done"}

\* Columns in which an owner's claim is active (the set the fold tests).
ActiveColumns == {"ready", "doing", "review"}

\* Claim revisions are fresh uuid4 tokens; NoRev is the absent one.
NoRev == 0
Revisions == Nat

Conflicts == [owner : Agents, rev : Revisions,
              existingOwner : Agents, existingRev : Revisions]

CardStates == [owner : Agents \cup {None}, status : Columns, rev : Revisions,
               conflicts : SUBSET Conflicts,
               archived : BOOLEAN, voided : BOOLEAN]

\* A core record with no initial owner, before any event.
NewCard == [owner |-> None, status |-> "backlog", rev |-> NoRev,
            conflicts |-> {},
            archived |-> FALSE, voided |-> FALSE]

-----------------------------------------------------------------------------
(* Events.  All have one shape; fields an action does not use hold None,   *)
(* NoRev or "backlog".                                                     *)

Event(act, who, r, col) == [act |-> act, who |-> who, rev |-> r, col |-> col]

MoveEvent(col)      == Event("move", None, NoRev, col)
AssignEvent(a)      == Event("assign", a, NoRev, "backlog")
UnassignEvent       == Event("unassign", None, NoRev, "backlog")
ClaimEvent(a, r)    == Event("claim", a, r, "backlog")
ReleaseEvent(a, r)  == Event("release_claim", a, r, "backlog")
CompleteEvent       == Event("complete", None, NoRev, "backlog")
ArchiveEvent        == Event("archive", None, NoRev, "backlog")
ReopenEvent(col)    == Event("reopen", None, NoRev, col)
VoidEvent           == Event("void", None, NoRev, "backlog")

\* Actions that a voided card refuses on append and skips in the fold.
VoidTerminalActions == {"move", "reopen", "assign", "unassign", "claim",
                        "release_claim", "complete"}

-----------------------------------------------------------------------------
(* One operator per event. *)

ApplyVoid(k) == [k EXCEPT !.voided = TRUE, !.archived = TRUE,
                          !.owner = None, !.rev = NoRev]

ApplyAssign(k, a) == [k EXCEPT !.owner = a, !.rev = NoRev]

ApplyComplete(k) == [k EXCEPT !.status = "done", !.owner = None, !.rev = NoRev]

\* A claim meets a different owner whose claim is active.
ClaimCollides(k, a) == /\ k.owner \notin {None, a}
                       /\ k.status \in ActiveColumns

ClaimConflict(k, a, r) == [owner |-> a, rev |-> r,
                           existingOwner |-> k.owner, existingRev |-> k.rev]

\* Fault: a claim that collides leaves no trace.
ApplyClaimSilently(k, a, r) ==
  IF ClaimCollides(k, a) THEN k
  ELSE [k EXCEPT !.owner = a, !.status = "doing", !.rev = r]

ApplyClaim(k, a, r) ==
  IF ClaimCollides(k, a)
  THEN [k EXCEPT !.conflicts = @ \cup {ClaimConflict(k, a, r)}]
  ELSE [k EXCEPT !.owner = a, !.status = "doing", !.rev = r,
                 !.conflicts = IF k.owner = None /\ k.status = "backlog"
                               THEN {} ELSE @]

\* The recorded conflicts that are exactly the claim (a, r).
MatchingConflicts(k, a, r) == {x \in k.conflicts : x.owner = a /\ x.rev = r}

ReleasesCurrent(k, a, r) == k.owner = a /\ k.rev = r /\ r # NoRev

ReleasesConflict(k, a, r) ==
  /\ r # NoRev /\ k.rev # NoRev
  /\ \E x \in k.conflicts :
       /\ MatchingConflicts(k, a, r) = {x}
       /\ x.existingOwner = k.owner
       /\ x.existingRev = k.rev

\* Fault: the release writes the TaskStatus word "open" instead of the column.
ReleaseToTaskStatus(k, a, r) ==
  IF ReleasesCurrent(k, a, r)
  THEN [k EXCEPT !.owner = None, !.status = "open", !.rev = NoRev]
  ELSE k

\* A release that matches neither is kept for audit only.
ApplyRelease(k, a, r) ==
  IF ReleasesCurrent(k, a, r)
  THEN [k EXCEPT !.owner = None, !.status = "backlog", !.rev = NoRev]
  ELSE IF ReleasesConflict(k, a, r)
  THEN [k EXCEPT !.conflicts = @ \ MatchingConflicts(k, a, r)]
  ELSE k

\* The effect of one event on the folded card.
Apply(k, e) ==
  IF k.voided /\ e.act \in VoidTerminalActions
  THEN k
  ELSE CASE e.act = "void"          -> ApplyVoid(k)
         [] e.act = "move"          -> [k EXCEPT !.status = e.col]
         [] e.act = "assign"        -> ApplyAssign(k, e.who)
         [] e.act = "unassign"      -> ApplyAssign(k, None)
         [] e.act = "release_claim" -> ApplyRelease(k, e.who, e.rev)
         [] e.act = "claim"         -> ApplyClaim(k, e.who, e.rev)
         [] e.act = "complete"      -> ApplyComplete(k)
         [] e.act = "archive"       -> [k EXCEPT !.archived = TRUE]
         [] e.act = "reopen"        -> [k EXCEPT !.archived = FALSE, !.status = e.col]
         [] OTHER                   -> k

=============================================================================
