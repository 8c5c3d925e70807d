------------------------------- MODULE Board -------------------------------
(***************************************************************************)
(* The lifecycle protocol of one skcoord host: Board.claim_task,           *)
(* Board.release_claim and Board.complete_task.                            *)
(*                                                                         *)
(* Every operation writes TWO stores that no transaction spans: the        *)
(* agent's JSON projection (claimed_tasks, current_task, completed_tasks)  *)
(* and the card's append-only event log in the CardStore.  The board lock  *)
(* admits one operation at a time and it holds the locks of the cards it   *)
(* touches, but                                                            *)
(*   - an append may raise before or after its event is durable;           *)
(*   - the process may die between any two writes;                         *)
(*   - kanban overlay events (move, assign, unassign) take neither the     *)
(*     board lock nor a card lock and land at any moment;                  *)
(*   - other callers append store events (archive, reopen, void) under the *)
(*     card lock alone.                                                    *)
(* The operation must still leave the two stores in agreement, by          *)
(* classifying a failed write, compensating a half-done claim or restoring *)
(* the projection from its snapshot.                                       *)
(*                                                                         *)
(* On one host with a monotonic clock events are appended in fold order,   *)
(* so card[c] is kept as a running fold.                                   *)
(***************************************************************************)
EXTENDS CardFold

CONSTANTS Cards,        \* card ids on the board; all of them have a core
          Deps,         \* Deps[c]: the folded dependencies of card c
          MaxRev,       \* bound: claim revisions ever drawn
          MaxFaults,    \* bound: failed writes and crashes
          MaxDisturb    \* bound: events appended outside the protocol

ASSUME CardsAssumption == None \notin Cards
ASSUME DepsAssumption == Deps \in [Cards -> SUBSET Cards]
ASSUME BoundsAssumption == MaxRev \in Nat /\ MaxFaults \in Nat /\ MaxDisturb \in Nat

VARIABLES
  card,      \* [Cards -> CardStates]: the fold of each card's events
  agent,     \* [Agents -> AgentFiles]: the agent projections on disk
  op,        \* the operation that holds the board lock, with its locals
  result,    \* how the last operation returned to its caller
  nrev,      \* number of claim revisions drawn so far
  faults,    \* number of write failures and crashes so far
  disturb,   \* number of events from outside the protocol so far
  disturbed, \* history: cards changed from outside the protocol
  broken     \* history: cards an operation could not leave in agreement

vars == <<card, agent, op, result, nrev, faults, disturb, disturbed, broken>>
store == <<card, nrev>>
history == <<disturb, disturbed>>

-----------------------------------------------------------------------------
(* Types *)

Task == Cards \cup {None}

\* claimed_tasks and completed_tasks never hold a duplicate; only the order of
\* claimed_tasks is observable, in which task a completion promotes.
AgentFiles == [current : Task, claimed : SUBSET Cards, completed : SUBSET Cards]

NewAgent == [current |-> None, claimed |-> {}, completed |-> {}]

\* An append succeeds, raises with nothing written, or raises although the
\* event is durable (an fsync error, a failing wrapper).
Outcomes == {"ok", "before", "after"}

Steps == {"idle", "project", "claim", "demote", "judge", "compRelease",
          "compReclaim", "compMove", "recover", "release", "checkRelease",
          "complete", "judgeComplete", "return"}

Kinds == {"none", "claim", "refocus", "release", "complete"}

Transitions == {"claim", "demote", "release", "complete"}

\* pc: the next step; orig: the bytes of the agent file before the operation;
\* snap: the target card as folded before it; demote, drop: what claim_task
\* decided about the task it bumps; rev: the revision the operation writes or
\* releases; durable: its transitions that has_transition would find; fatal:
\* compensation failed.
Operations ==
  [pc : Steps, kind : Kinds, agent : Agents \cup {None}, task : Task,
   bumped : Task, orig : AgentFiles, snap : CardStates, demote : BOOLEAN,
   drop : BOOLEAN, rev : Revisions, durable : SUBSET Transitions, fatal : BOOLEAN]

NoOperation ==
  [pc |-> "idle", kind |-> "none", agent |-> None, task |-> None,
   bumped |-> None, orig |-> NewAgent, snap |-> NewCard, demote |-> FALSE,
   drop |-> FALSE, rev |-> NoRev, durable |-> {}, fatal |-> FALSE]

Results == {"none", "ok", "refused", "error", "fail-closed"}

\* The type invariant.
TypeOK ==
  /\ card \in [Cards -> CardStates]
  /\ agent \in [Agents -> AgentFiles]
  /\ op \in Operations
  /\ result \in Results
  /\ nrev \in Nat /\ faults \in Nat /\ disturb \in Nat
  /\ disturbed \in SUBSET Cards
  /\ broken \in SUBSET Cards

-----------------------------------------------------------------------------
(* Locks and writes *)

Idle == op.pc = "idle"

\* The cards whose mutation locks the operation holds.
Locked == {op.task, op.bumped} \ {None}

\* append_event refuses lifecycle events on a voided card.
Lands(c, o) == o # "before" /\ ~card[c].voided

Raises(c, o) == o # "ok" \/ card[c].voided

Charge(o) == /\ o = "ok" \/ faults < MaxFaults
             /\ faults' = faults + (IF o = "ok" THEN 0 ELSE 1)

\* One _mirror_card_store call: event e for card c, with outcome o.
Mirror(c, e, o) ==
  /\ Charge(o)
  /\ card' = IF Lands(c, o) THEN [card EXCEPT ![c] = Apply(@, e)] ELSE card

Return(value) == op' = NoOperation /\ result' = value

\* An operation as it stands once its locks are held and its snapshots taken.
Started(pc, kind, a, c, bumped, demote, drop, r) ==
  [pc |-> pc, kind |-> kind, agent |-> a, task |-> c, bumped |-> bumped,
   orig |-> agent[a], snap |-> card[c], demote |-> demote, drop |-> drop,
   rev |-> r, durable |-> {}, fatal |-> FALSE]

-----------------------------------------------------------------------------
(* claim_task *)

\* The folded card t is agent a's and in one of the columns S.
Holds(a, t, S) == t # None /\ card[t].owner = a /\ card[t].status \in S

\* Fault: the gate forgets the dependencies.
ClaimableIgnoringDeps(a, c) ==
  LET k == card[c] IN
  /\ ~k.archived
  /\ k.status # "backlog" =>
       \/ k.owner = a
       \/ k.owner = None /\ k.status \in ActiveColumns

\* The gate of _claim_task, on the views folded from the store.
Claimable(a, c) ==
  LET k == card[c] IN
  /\ ~k.archived
  /\ k.status # "backlog" =>
       \/ k.owner = a
       \/ k.owner = None /\ k.status \in ActiveColumns
  /\ \A d \in Deps[c] : card[d].status = "done"

\* Take the board lock and the card locks, snapshot the projection and the
\* target, and decide what becomes of the current task.  A claim that is
\* already current, active and revisioned returns at once and changes nothing.
ClaimTask(a, c) ==
  LET bumped == agent[a].current
      existing == Holds(a, c, {"doing", "review"}) /\ card[c].rev # NoRev
  IN  /\ Idle
      /\ nrev + 2 <= MaxRev
      /\ ~(existing /\ bumped = c)
      /\ op' = Started("project", IF existing THEN "refocus" ELSE "claim", a, c,
                       bumped, Holds(a, bumped, {"doing", "review"}),
                       bumped # None /\ ~Holds(a, bumped, ActiveColumns), NoRev)
      /\ result' = "none"
      /\ UNCHANGED <<store, agent, faults, history, broken>>

\* _claim_task: refuse, or save the projection with c as the current task.
ClaimProject ==
  LET a == op.agent
      c == op.task
      bumped == IF op.bumped = c THEN None ELSE op.bumped
      kept == agent[a].claimed \ (IF op.drop THEN {bumped} ELSE {})
  IN  /\ op.pc = "project"
      /\ IF Claimable(a, c)
         THEN /\ agent' = [agent EXCEPT ![a] = [current |-> c, claimed |-> kept \cup {c},
                                                completed |-> @.completed]]
              /\ \/ /\ op.kind = "claim"
                    /\ op' = [op EXCEPT !.pc = "claim", !.bumped = bumped]
                    /\ UNCHANGED result
                 \/ /\ op.kind = "refocus" /\ bumped # None /\ op.demote
                    /\ op' = [op EXCEPT !.pc = "demote"]
                    /\ UNCHANGED result
                 \/ /\ op.kind = "refocus" /\ (bumped = None \/ ~op.demote)
                    /\ Return("ok")
         ELSE Return("refused") /\ UNCHANGED agent
      /\ UNCHANGED <<store, faults, history, broken>>

\* Mirror the claim with a fresh revision.
MirrorClaim(o) ==
  LET r == nrev + 1 IN
  /\ op.pc = "claim"
  /\ Mirror(op.task, ClaimEvent(op.agent, r), o)
  /\ nrev' = r
  /\ LET done == [op EXCEPT !.rev = r,
                            !.durable = IF Lands(op.task, o) THEN {"claim"} ELSE {}]
     IN  IF Raises(op.task, o)
         THEN op' = [done EXCEPT !.pc = "judge"] /\ UNCHANGED result
         ELSE IF op.demote
         THEN op' = [done EXCEPT !.pc = "demote"] /\ UNCHANGED result
         ELSE Return("ok")
  /\ UNCHANGED <<agent, history, broken>>

\* Mirror the move of the bumped task to ready.
MirrorDemote(o) ==
  /\ op.pc = "demote" /\ op.bumped # None
  /\ Mirror(op.bumped, MoveEvent("ready"), o)
  /\ IF Raises(op.bumped, o)
     THEN /\ op' = [op EXCEPT !.pc = "judge",
                              !.durable = @ \cup (IF Lands(op.bumped, o)
                                                  THEN {"demote"} ELSE {})]
          /\ UNCHANGED result
     ELSE Return("ok")
  /\ UNCHANGED <<agent, nrev, history, broken>>

\* The current task is the target itself, owned and doing but without a
\* revision: the demotion is addressed to task None.  Appending it raises, and
\* so does the durability probe of the handler, which then neither compensates
\* nor restores.
DemoteNothing ==
  /\ \/ op.pc = "demote"
     \/ op.pc = "judge" /\ op.demote /\ "claim" \in op.durable
  /\ op.bumped = None
  /\ Return("error")
  /\ UNCHANGED <<store, agent, faults, history, broken>>

\* _store_transitions_are_applied for a claim that raised.
ClaimApplied ==
  /\ op.kind = "claim" => /\ "claim" \in op.durable
                          /\ Holds(op.agent, op.task, {"doing"})
  /\ op.demote => /\ "demote" \in op.durable
                  /\ Holds(op.agent, op.bumped, {"ready"})

\* Fault: a claim whose demotion failed is never compensated.
JudgeClaimUncompensated ==
  /\ op.pc = "judge"
  /\ op.bumped = None => ~(op.demote /\ "claim" \in op.durable)
  /\ IF ClaimApplied
     THEN Return("ok")
     ELSE op' = [op EXCEPT !.pc = "recover"] /\ UNCHANGED result
  /\ UNCHANGED <<store, agent, faults, history, broken>>

\* Classify the failed claim: applied after all, compensate, or only restore.
JudgeClaim ==
  /\ op.pc = "judge"
  /\ op.bumped = None => ~(op.demote /\ "claim" \in op.durable)
  /\ IF ClaimApplied
     THEN Return("ok")
     ELSE /\ op' = [op EXCEPT !.pc =
                      IF /\ op.kind = "claim" /\ op.demote
                         /\ "claim" \in op.durable
                         /\ Holds(op.agent, op.task, {"doing"})
                      THEN "compRelease" ELSE "recover"]
          /\ UNCHANGED result
  /\ UNCHANGED <<store, agent, faults, history, broken>>

-----------------------------------------------------------------------------
(* _compensate_partial_claim *)

CompensationFailed == op' = [op EXCEPT !.pc = "recover", !.fatal = TRUE]

\* Release the target claim; an error counts only if the release did not apply.
CompensateRelease(o) ==
  LET c == op.task IN
  /\ op.pc = "compRelease"
  /\ Mirror(c, ReleaseEvent(op.agent, op.rev), o)
  /\ IF o = "before" \/ (o = "after" /\ ~(card'[c].owner = None /\ card'[c].status = "backlog"))
     THEN CompensationFailed
     ELSE op' = [op EXCEPT !.pc = IF op.snap.owner # None THEN "compReclaim" ELSE "compMove"]
  /\ UNCHANGED <<agent, result, nrev, history, broken>>

\* Claim again for the owner the snapshot had, under a fresh revision.
CompensateReclaim(o) ==
  /\ op.pc = "compReclaim"
  /\ Mirror(op.task, ClaimEvent(op.snap.owner, nrev + 1), o)
  /\ nrev' = nrev + 1
  /\ IF o = "ok" THEN op' = [op EXCEPT !.pc = "compMove"] ELSE CompensationFailed
  /\ UNCHANGED <<agent, result, history, broken>>

MatchesSnapshot(k) == k.owner = op.snap.owner /\ k.status = op.snap.status

\* Move the target back to its column if it is not there, then compare it with
\* the snapshot (_card_matches_snapshot).
CompensateMove(o) ==
  LET c == op.task
      moves == card[c].status # op.snap.status
  IN  /\ op.pc = "compMove"
      /\ IF moves THEN Mirror(c, MoveEvent(op.snap.status), o)
                  ELSE o = "ok" /\ UNCHANGED <<card, faults>>
      /\ IF o = "ok" /\ MatchesSnapshot(card'[c])
         THEN op' = [op EXCEPT !.pc = "recover"]
         ELSE CompensationFailed
      /\ UNCHANGED <<agent, result, nrev, history, broken>>

-----------------------------------------------------------------------------
(* _recover_store_failure *)

\* Fault: the recovery raises without restoring the projection.
RecoverWithoutRestore(o) ==
  /\ op.pc = "recover" /\ o # "after"
  /\ Charge(o)
  /\ Return(IF o = "ok" /\ ~op.fatal THEN "error" ELSE "fail-closed")
  /\ broken' = broken \cup (IF o # "ok" THEN Locked ELSE {})
                      \cup (IF op.fatal THEN {op.task} ELSE {})
  /\ UNCHANGED <<store, agent, history>>

\* Restore the projection from its snapshot and raise.  When the restore
\* itself fails the error says that the board is fail-closed.
Recover(o) ==
  /\ op.pc = "recover" /\ o # "after"
  /\ Charge(o)
  /\ agent' = IF o = "ok" THEN [agent EXCEPT ![op.agent] = op.orig] ELSE agent
  /\ Return(IF o = "ok" /\ ~op.fatal THEN "error" ELSE "fail-closed")
  /\ broken' = broken \cup (IF o # "ok" THEN Locked ELSE {})
                      \cup (IF op.fatal THEN {op.task} ELSE {})
  /\ UNCHANGED <<store, history>>

-----------------------------------------------------------------------------
(* release_claim *)

\* current_claim_precondition: the revision a may release, if there is one.
\* The empty set stands for the ValueErrors, and also for the retry marker
\* None, which _release_claim_locked turns into a ValueError.
ReleasableRevision(a, k) ==
  IF k.owner = a THEN {k.rev} \ {NoRev}
  ELSE LET mine == {x \in k.conflicts : x.owner = a} IN
       {x.rev : x \in {y \in mine : /\ mine = {y}
                                    /\ y.rev # NoRev /\ y.existingRev # NoRev
                                    /\ y.existingOwner = k.owner
                                    /\ y.existingRev = k.rev}}

\* Drop the claim from the projection, after the precondition.
ReleaseClaim(a, c) ==
  /\ Idle
  /\ c \in agent[a].claimed \cup {agent[a].current}
  /\ \E r \in ReleasableRevision(a, card[c]) :
       op' = Started("release", "release", a, c, None, FALSE, FALSE, r)
  /\ agent' = [agent EXCEPT
                 ![a] = [current |-> IF @.current = c THEN None ELSE @.current,
                         claimed |-> @.claimed \ {c}, completed |-> @.completed]]
  /\ result' = "none"
  /\ UNCHANGED <<store, faults, history, broken>>

MirrorRelease(o) ==
  /\ op.pc = "release"
  /\ Mirror(op.task, ReleaseEvent(op.agent, op.rev), o)
  /\ op' = [op EXCEPT !.pc = "checkRelease",
                      !.durable = IF Lands(op.task, o) THEN {"release"} ELSE {}]
  /\ UNCHANGED <<agent, result, nrev, history, broken>>

\* _release_transition_is_applied, checked whether or not the append raised.
ReleaseApplied ==
  LET k == card[op.task]
      b == op.snap
  IN  /\ "release" \in op.durable
      /\ IF b.owner = op.agent /\ b.rev = op.rev
         THEN k.owner = None /\ k.status = "backlog" /\ k.rev = NoRev
         ELSE /\ k.owner = b.owner /\ k.status = b.status /\ k.rev = b.rev
              /\ k.conflicts = b.conflicts \ MatchingConflicts(b, op.agent, op.rev)

\* Fault: the release is reported as done without looking at the fold.
CheckReleaseTrusting ==
  /\ op.pc = "checkRelease"
  /\ Return("ok")
  /\ UNCHANGED <<store, agent, faults, history, broken>>

\* Fault: a release that did not apply is waited for.
CheckReleaseWaiting ==
  /\ op.pc = "checkRelease"
  /\ ReleaseApplied
  /\ Return("ok")
  /\ UNCHANGED <<store, agent, faults, history, broken>>

CheckRelease ==
  /\ op.pc = "checkRelease"
  /\ IF ReleaseApplied
     THEN Return("ok")
     ELSE op' = [op EXCEPT !.pc = "recover"] /\ UNCHANGED result
  /\ UNCHANGED <<store, agent, faults, history, broken>>

-----------------------------------------------------------------------------
(* complete_task *)

\* Fault: anyone may complete a card, whoever owns it.
CompletableByAnyone(a, c) ==
  /\ card[c].conflicts = {}
  /\ \A d \in Deps[c] : card[d].status = "done"

\* _assert_no_claim_conflict and the dependency gate.
Completable(a, c) ==
  /\ card[c].conflicts = {}
  /\ card[c].owner \in {None, a}
  /\ \A d \in Deps[c] : card[d].status = "done"

AlreadyCompleted(c) == \E b \in Agents : c \in agent[b].completed

\* A second completion returns the agent that has it and writes nothing.
CompleteAgain(a, c) ==
  /\ Idle
  /\ card[c].conflicts = {} /\ card[c].owner \in {None, a}
  /\ AlreadyCompleted(c)
  /\ op' = Started("return", "complete", a, c, None, FALSE, FALSE, NoRev)
  /\ result' = "none"
  /\ UNCHANGED <<store, agent, faults, history, broken>>

ReturnExisting ==
  /\ op.pc = "return"
  /\ Return("ok")
  /\ UNCHANGED <<store, agent, faults, history, broken>>

\* Fault: a completed task stays current when nothing else is claimed.
NextCurrentKept(f, c) ==
  LET rest == f.claimed \ {c} IN
  IF f.current # c \/ rest = {} THEN {f.current} ELSE rest

\* The tasks that may be current once c is completed in projection f: another
\* current task stays, otherwise the first remaining claim is promoted.
NextCurrent(f, c) ==
  LET rest == f.claimed \ {c} IN
  IF f.current # c THEN {f.current} ELSE IF rest = {} THEN {None} ELSE rest

\* Check, then save the projection: c leaves claimed_tasks for completed_tasks.
CompleteTask(a, c) ==
  /\ Idle
  /\ Completable(a, c)
  /\ ~AlreadyCompleted(c)
  /\ op' = Started("complete", "complete", a, c, None, FALSE, FALSE, NoRev)
  /\ \E next \in NextCurrent(agent[a], c) :
       agent' = [agent EXCEPT ![a] = [current |-> next, claimed |-> @.claimed \ {c},
                                      completed |-> @.completed \cup {c}]]
  /\ result' = "none"
  /\ UNCHANGED <<store, faults, history, broken>>

MirrorComplete(o) ==
  /\ op.pc = "complete"
  /\ Mirror(op.task, CompleteEvent, o)
  /\ IF Raises(op.task, o)
     THEN /\ op' = [op EXCEPT !.pc = "judgeComplete",
                              !.durable = IF Lands(op.task, o) THEN {"complete"} ELSE {}]
          /\ UNCHANGED result
     ELSE Return("ok")
  /\ UNCHANGED <<agent, nrev, history, broken>>

\* Fault: a completion that raised counts as done as soon as it is durable or
\* the card has no owner.
JudgeCompleteTrusting ==
  /\ op.pc = "judgeComplete"
  /\ IF "complete" \in op.durable \/ card[op.task].owner = None
     THEN Return("ok")
     ELSE op' = [op EXCEPT !.pc = "recover"] /\ UNCHANGED result
  /\ UNCHANGED <<store, agent, faults, history, broken>>

\* A completion that raised counts as done only if it is durable and folded.
JudgeComplete ==
  /\ op.pc = "judgeComplete"
  /\ IF /\ "complete" \in op.durable
        /\ card[op.task].owner = None /\ card[op.task].status = "done"
     THEN Return("ok")
     ELSE op' = [op EXCEPT !.pc = "recover"] /\ UNCHANGED result
  /\ UNCHANGED <<store, agent, faults, history, broken>>

-----------------------------------------------------------------------------
(* The environment *)

OverlayEvents == {MoveEvent(col) : col \in Columns}
                   \cup {AssignEvent(a) : a \in Agents}
                   \cup {UnassignEvent, ArchiveEvent}

StoreEvents == {VoidEvent} \cup {ReopenEvent(col) : col \in Columns}

Disturb(c, e) ==
  /\ disturb < MaxDisturb
  /\ disturb' = disturb + 1
  /\ disturbed' = disturbed \cup {c}
  /\ card' = [card EXCEPT ![c] = Apply(@, e)]
  /\ UNCHANGED <<agent, op, result, nrev, faults, broken>>

\* CardEventLog.append, and the archive index line of archive_task: refused
\* for a voided card (where an archive would change nothing), but under no
\* board or card lock, so it may fall between any two steps of an operation.
Overlay(c, e) == ~card[c].voided /\ Disturb(c, e)

\* CardStore.append_event by another caller: needs the card lock.
StoreEvent(c, e) ==
  /\ c \notin Locked
  /\ e.act \in VoidTerminalActions => ~card[c].voided
  /\ Disturb(c, e)

\* The process that runs the operation dies; the kernel drops its locks.
Crash ==
  /\ ~Idle
  /\ faults < MaxFaults
  /\ faults' = faults + 1
  /\ broken' = broken \cup Locked
  /\ Return("none")
  /\ UNCHANGED <<store, agent, history>>

-----------------------------------------------------------------------------
Init ==
  /\ card = [c \in Cards |-> NewCard]
  /\ agent = [a \in Agents |-> NewAgent]
  /\ op = NoOperation /\ result = "none"
  /\ nrev = 0 /\ faults = 0 /\ disturb = 0
  /\ disturbed = {} /\ broken = {}

Call == \E a \in Agents, c \in Cards :
          ClaimTask(a, c) \/ ReleaseClaim(a, c) \/ CompleteTask(a, c) \/ CompleteAgain(a, c)

Continue ==
  \/ ClaimProject \/ DemoteNothing \/ JudgeClaim
  \/ CheckRelease \/ JudgeComplete \/ ReturnExisting
  \/ \E o \in Outcomes :
       \/ MirrorClaim(o) \/ MirrorDemote(o)
       \/ CompensateRelease(o) \/ CompensateReclaim(o) \/ CompensateMove(o)
       \/ Recover(o) \/ MirrorRelease(o) \/ MirrorComplete(o)

Environment ==
  \/ \E c \in Cards : \E e \in OverlayEvents : Overlay(c, e)
  \/ \E c \in Cards : \E e \in StoreEvents : StoreEvent(c, e)
  \/ Crash

Next == Call \/ Continue \/ Environment

Spec == Init /\ [][Next]_vars

\* A process that holds the board lock keeps running until it returns or dies.
LiveSpec == Spec /\ WF_vars(Continue)

-----------------------------------------------------------------------------
(* Properties *)

\* The folded state k of card c means the same to the projections ag: exactly
\* its owner claims it, a doing card is its owner's current task, a current
\* task is claimed, and it is completed in some projection exactly when done.
AgreesIn(ag, k, c) ==
  /\ \A a \in Agents :
       /\ c \in ag[a].claimed <=> k.owner = a /\ k.status \in ActiveColumns
       /\ k.owner = a /\ k.status = "doing" => ag[a].current = c
       /\ ag[a].current = c => c \in ag[a].claimed
  /\ k.status = "done" <=> \E a \in Agents : c \in ag[a].completed

\* Cards the protocol does not answer for.
Exempt == disturbed \cup broken

\* Whenever no operation is in flight, the agent projections and the card
\* store agree on every card that nothing outside the protocol changed and no
\* crash or doubly failed recovery hit, however many writes failed before or
\* after reaching the disk.
Agreement ==
  Idle => \A c \in Cards \ Exempt : AgreesIn(agent, card[c], c)

\* No card that passed the gate is ahead of its dependencies: a card that is
\* active or done has only done dependencies.
DependencyGate ==
  \A c \in Cards \ disturbed :
    card[c].status # "backlog" =>
      \A d \in Deps[c] \ disturbed : card[d].status = "done"

\* An operation never takes an active card away from another agent: the owner
\* of an active card changes only in that owner's own operation.
NoTheft ==
  [][\A c \in Cards \ disturbed' :
       card[c].owner # None /\ card[c].status \in ActiveColumns
         /\ card'[c].owner # card[c].owner
       => op.agent = card[c].owner]_vars

\* An operation that reports an error has undone itself: the projection is the
\* snapshot, and the target card has its old owner and column.
ErrorRestores ==
  [][result' = "error" /\ result # "error" =>
       /\ agent'[op.agent] = op.orig
       /\ op.task \notin disturbed =>
            /\ card'[op.task].owner = op.snap.owner
            /\ card'[op.task].status = op.snap.status]_vars

\* An operation that returned normally did what it was asked, in the store: the
\* claimed card is the caller's and doing, the released one is not the
\* caller's, the completed one is done.
SuccessIsApplied ==
  [][result' = "ok" /\ result # "ok" /\ op.task \notin Exempt =>
       LET k == card'[op.task] IN
       /\ op.kind = "claim" => k.owner = op.agent /\ k.status = "doing"
       /\ op.kind = "release" => k.owner = None /\ k.status = "backlog"
       /\ op.kind = "complete" => k.owner = None /\ k.status = "done"]_vars

\* Whoever holds the board lock gives it back.
LockReleased == ~Idle ~> Idle

\* A claim raises for the reasons _claim_task documents (the card is missing,
\* someone else's, or has open dependencies) or because a write failed.  The code does
\* not keep this: see the README on coordination.py 2398.
ClaimRaisesOnFailure ==
  [][op.kind \in {"claim", "refocus"} /\ result' = "error" => faults' > 0]_vars

-----------------------------------------------------------------------------
(* The inductive invariant behind Agreement *)

\* What the protocol alone can make of a card.
Plain(k) ==
  /\ ~k.voided /\ ~k.archived /\ k.conflicts = {}
  /\ k.status # "review"
  /\ k.owner = None <=> k.status \in {"backlog", "done"}
  /\ k.rev = NoRev <=> k.owner = None

CardsPlain == \A c \in Cards \ disturbed : Plain(card[c])

\* The kind of operation each step belongs to.
StepShape ==
  /\ op.pc = "idle" => op = NoOperation
  /\ op.pc # "idle" => op.agent \in Agents /\ op.task \in Cards
  /\ op.pc = "project" => op.kind \in {"claim", "refocus"}
  /\ op.pc = "claim" => op.kind = "claim"
  /\ op.pc \in {"demote", "judge"} =>
       \/ op.kind = "claim"
       \/ op.kind = "refocus" /\ op.demote
  /\ op.pc = "demote" => op.demote
  /\ op.pc \in {"compRelease", "compReclaim", "compMove"} => op.kind = "claim"
  /\ op.pc = "compReclaim" => op.snap.owner # None
  /\ op.pc \in {"release", "checkRelease"} => op.kind = "release"
  /\ op.pc \in {"complete", "judgeComplete", "return"} => op.kind = "complete"
  /\ op.pc = "recover" => op.kind # "none"

\* The projections as _restore_agent_projection would leave them.
Rolled == [agent EXCEPT ![op.agent] = op.orig]

\* Rolling back is always possible: the restored projections agree with the
\* snapshot of the target and with every other card as it is now.
RollbackAgrees ==
  ~Idle =>
    /\ \A c \in Cards \ (Exempt \cup {op.task}) : AgreesIn(Rolled, card[c], c)
    /\ op.task \notin Exempt => AgreesIn(Rolled, op.snap, op.task)
    /\ op.task \notin disturbed => Plain(op.snap)

\* What the operation has done to its agent's file so far.
Projected ==
  LET f == agent[op.agent]
      g == op.orig
  IN  ~Idle =>
        /\ op.pc \in {"project", "return"} => f = g
        /\ op.kind \in {"claim", "refocus"} /\ op.pc # "project" =>
             f = [current |-> op.task,
                  claimed |-> (g.claimed \ (IF op.drop THEN {op.bumped} ELSE {}))
                                \cup {op.task},
                  completed |-> g.completed]
        /\ op.kind = "release" =>
             f = [current |-> IF g.current = op.task THEN None ELSE g.current,
                  claimed |-> g.claimed \ {op.task}, completed |-> g.completed]
        /\ op.kind = "complete" /\ op.pc # "return" =>
             /\ f.claimed = g.claimed \ {op.task}
             /\ f.completed = g.completed \cup {op.task}
             /\ f.current # op.task
             /\ \/ f.current = g.current
                \/ g.current = op.task /\ f.current \in f.claimed \cup {None}

\* How far the target card has moved away from its snapshot.
TargetProgress ==
  LET k == card[op.task]
      claimed == k.owner = op.agent /\ k.status = "doing" /\ k.rev = op.rev
      unclaimed == k.owner = None /\ k.status = "backlog"
  IN  ~Idle /\ op.task \notin disturbed =>
        /\ op.pc \in {"project", "claim", "release", "complete", "return"} \/ op.kind = "refocus"
             => k = op.snap
        /\ op.pc \in {"claim", "demote", "judge", "compRelease"} /\ op.kind = "claim"
             => ~ClaimCollides(op.snap, op.agent) /\ op.snap.status # "done"
        /\ op.pc \in {"demote", "judge"} /\ op.kind = "claim"
             => IF "claim" \in op.durable THEN claimed ELSE k = op.snap
        /\ op.pc = "demote" /\ op.kind = "claim" => "claim" \in op.durable
        /\ op.pc = "compRelease" => claimed
        /\ op.pc = "compReclaim" => unclaimed
        /\ op.pc = "compMove" =>
             IF op.snap.owner = None THEN unclaimed
             ELSE k.owner = op.snap.owner /\ k.status = "doing"
        /\ op.kind = "release" => op.snap.owner = op.agent /\ op.snap.rev = op.rev
        /\ op.kind = "complete" => op.snap.owner \in {None, op.agent}
        /\ op.pc = "checkRelease" =>
             IF "release" \in op.durable THEN unclaimed /\ k.rev = NoRev ELSE k = op.snap
        /\ op.pc = "judgeComplete" =>
             IF "complete" \in op.durable THEN k.owner = None /\ k.status = "done"
             ELSE k = op.snap
        /\ op.pc = "recover" /\ ~op.fatal => MatchesSnapshot(k)

\* What claim_task knows about the task it bumps.
BumpFacts ==
  op.kind \in {"claim", "refocus"} =>
    /\ op.pc = "project" => op.bumped = op.orig.current
    /\ op.pc # "project" =>
         op.bumped = IF op.orig.current = op.task THEN None ELSE op.orig.current
    /\ op.demote /\ op.orig.current = op.task => op.task \in disturbed
    /\ op.demote => op.orig.current # None
    /\ op.bumped \in Cards \ Exempt /\ card[op.bumped].owner = op.agent
         /\ card[op.bumped].status = "doing" => op.demote
    /\ op.demote /\ op.bumped \in Cards \ disturbed =>
         card[op.bumped].owner = op.agent /\ card[op.bumped].status \in {"ready", "doing"}
    /\ op.drop /\ op.bumped \in Cards => op.bumped \in Exempt
    /\ op.kind = "refocus" => op.task \in Exempt /\ op.orig.current # op.task

AgreementInv ==
  /\ TypeOK
  /\ CardsPlain
  /\ StepShape
  /\ Agreement
  /\ RollbackAgrees
  /\ Projected
  /\ TargetProgress
  /\ BumpFacts
=============================================================================
