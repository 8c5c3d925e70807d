-------------------------- MODULE BoardRefinement --------------------------
(***************************************************************************)
(* Board implements AtomicBoard.  While an operation is in flight its      *)
(* callers see the cards as they were: the target as in the snapshot, the  *)
(* task it bumps as still in progress.  The operation takes effect for     *)
(* both cards in the step in which it returns.                             *)
(***************************************************************************)
EXTENDS Board

Shown(k) == [owner |-> k.owner, status |-> k.status]

Visible ==
  [c \in Cards |->
     IF ~Idle /\ c = op.task THEN Shown(op.snap)
     ELSE IF op.demote /\ c = op.bumped THEN [owner |-> op.agent, status |-> "doing"]
     ELSE Shown(card[c])]

Atomic == INSTANCE AtomicBoard WITH state <- Visible, loose <- Exempt

\* To every caller claim, release and complete are atomic, although each is
\* several writes to two stores, any of which may fail: an operation takes
\* effect on all of its cards at once or on none, and a claim puts whatever
\* else the agent was doing aside in the same step.
ImplementsAtomic == Atomic!Spec
=============================================================================
