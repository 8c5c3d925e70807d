---------------------------- MODULE BoardProofs ----------------------------
(***************************************************************************)
(* Proofs about module Board, for every set of agents and cards, every     *)
(* dependency relation and every bound on faults and outside events.       *)
(***************************************************************************)
EXTENDS BoardRefinement, TLAPS

-----------------------------------------------------------------------------
(* The fold keeps cards well formed *)

Events == [act : {"move", "assign", "unassign", "claim", "release_claim",
                  "complete", "archive", "reopen", "void"},
           who : Agents \cup {None}, rev : Revisions, col : Columns]

\* Every event the module writes is an event; a claim names an agent.
WellFormed(e) == e \in Events /\ (e.act = "claim" => e.who \in Agents)

LEMMA ApplyClaimType ==
  ASSUME NEW k \in CardStates, NEW a \in Agents, NEW r \in Revisions
  PROVE  ApplyClaim(k, a, r) \in CardStates
<1>1. CASE ClaimCollides(k, a)
  <2>1. k.owner \in Agents
    BY <1>1 DEF ClaimCollides, CardStates
  <2>2. ClaimConflict(k, a, r) \in Conflicts
    BY <2>1 DEF ClaimConflict, Conflicts, CardStates
  <2>3. k.conflicts \cup {ClaimConflict(k, a, r)} \in SUBSET Conflicts
    BY <2>2 DEF CardStates
  <2> QED
    BY <1>1, <2>3 DEF ApplyClaim, CardStates
<1>2. CASE ~ClaimCollides(k, a)
  BY <1>2 DEF ApplyClaim, CardStates, Columns, Revisions
<1> QED
  BY <1>1, <1>2

LEMMA ApplyReleaseType ==
  ASSUME NEW k \in CardStates, NEW a, NEW r \in Revisions
  PROVE  ApplyRelease(k, a, r) \in CardStates
<1>1. k.conflicts \ MatchingConflicts(k, a, r) \in SUBSET Conflicts
  BY DEF CardStates
<1> QED
  BY <1>1 DEF ApplyRelease, CardStates, Columns, Revisions, NoRev

LEMMA ApplyType ==
  ASSUME NEW k \in CardStates, NEW e, WellFormed(e)
  PROVE  Apply(k, e) \in CardStates
<1>1. e.act = "claim" => ApplyClaim(k, e.who, e.rev) \in CardStates
  BY ApplyClaimType DEF WellFormed, Events
<1>2. ApplyRelease(k, e.who, e.rev) \in CardStates
  BY ApplyReleaseType DEF WellFormed, Events
<1>3. e.who \in Agents \cup {None} /\ e.col \in Columns
  BY DEF WellFormed, Events
<1>4. ApplyVoid(k) \in CardStates /\ ApplyComplete(k) \in CardStates
  BY DEF ApplyVoid, ApplyComplete, CardStates, Columns, Revisions, NoRev
<1>5. ApplyAssign(k, e.who) \in CardStates /\ ApplyAssign(k, None) \in CardStates
  BY <1>3 DEF ApplyAssign, CardStates, Revisions, NoRev
<1> QED
  BY <1>1, <1>2, <1>3, <1>4, <1>5 DEF Apply, CardStates

-----------------------------------------------------------------------------
(* Type correctness *)

TypeInv == TypeOK /\ StepShape

LEMMA EventsWellFormed ==
  ASSUME NEW a \in Agents, NEW r \in Revisions, NEW col \in Columns
  PROVE  /\ WellFormed(ClaimEvent(a, r)) /\ WellFormed(ReleaseEvent(a, r))
         /\ WellFormed(CompleteEvent) /\ WellFormed(MoveEvent(col))
         /\ WellFormed(AssignEvent(a)) /\ WellFormed(UnassignEvent)
         /\ WellFormed(ArchiveEvent) /\ WellFormed(ReopenEvent(col))
         /\ WellFormed(VoidEvent)
BY DEF WellFormed, Events, Event, ClaimEvent, ReleaseEvent, CompleteEvent,
       MoveEvent, AssignEvent, UnassignEvent, ArchiveEvent, ReopenEvent,
       VoidEvent, Columns, Revisions, NoRev

LEMMA MirrorType ==
  ASSUME TypeOK, NEW c \in Cards, NEW e, WellFormed(e), NEW o, Mirror(c, e, o)
  PROVE  card' \in [Cards -> CardStates] /\ faults' \in Nat
<1>1. Apply(card[c], e) \in CardStates
  BY ApplyType DEF TypeOK
<1>2. card' \in [Cards -> CardStates]
  BY <1>1 DEF Mirror, TypeOK
<1>3. faults' \in Nat
  BY DEF Mirror, Charge, TypeOK
<1> QED
  BY <1>2, <1>3

LEMMA BlankTypes ==
  NewCard \in CardStates /\ NewAgent \in AgentFiles /\ NoOperation \in Operations
<1>1. NewCard \in CardStates
  BY DEF NewCard, CardStates, Columns, Revisions, NoRev
<1>2. NewAgent \in AgentFiles
  BY DEF NewAgent, AgentFiles, Task
<1>3. NoOperation \in Operations
  BY <1>1, <1>2 DEF NoOperation, Operations, Steps, Kinds, Task, Revisions, NoRev
<1> QED
  BY <1>1, <1>2, <1>3

LEMMA ReturnType ==
  ASSUME NEW v \in Results, Return(v)
  PROVE  op' \in Operations /\ result' \in Results /\ StepShape'
BY BlankTypes DEF Return, StepShape, NoOperation

LEMMA TypeInit == Init => TypeInv
BY BlankTypes DEF Init, TypeInv, TypeOK, StepShape, Results, NoOperation

\* The facts about the operation that every step of it uses.
LEMMA InFlightTypes ==
  ASSUME TypeInv, ~Idle
  PROVE  /\ op.agent \in Agents /\ op.task \in Cards /\ op.bumped \in Task
         /\ op.orig \in AgentFiles /\ op.snap \in CardStates
         /\ op.rev \in Revisions /\ op.durable \in SUBSET Transitions
         /\ op.demote \in BOOLEAN /\ op.drop \in BOOLEAN
         /\ op.fatal \in BOOLEAN /\ op.kind \in Kinds
         /\ agent[op.agent] \in AgentFiles /\ card[op.task] \in CardStates
         /\ Locked \in SUBSET Cards
BY DEF TypeInv, TypeOK, StepShape, Idle, Operations, Locked, Task

LEMMA StartedType ==
  ASSUME TypeInv, NEW a \in Agents, NEW c \in Cards, NEW pc \in Steps \ {"idle"},
         NEW kind \in Kinds, NEW bumped \in Task, NEW demote \in BOOLEAN,
         NEW drop \in BOOLEAN, NEW r \in Revisions
  PROVE  Started(pc, kind, a, c, bumped, demote, drop, r) \in Operations
<1>1. agent[a] \in AgentFiles /\ card[c] \in CardStates
  BY DEF TypeInv, TypeOK
<1> QED
  BY <1>1 DEF Started, Operations, Task

LEMMA TypeClaimTask ==
  ASSUME TypeInv, NEW a \in Agents, NEW c \in Cards, ClaimTask(a, c)
  PROVE  TypeInv'
<1> DEFINE bumped == agent[a].current
           existing == Holds(a, c, {"doing", "review"}) /\ card[c].rev # NoRev
           kind == IF existing THEN "refocus" ELSE "claim"
           demote == Holds(a, bumped, {"doing", "review"})
           drop == bumped # None /\ ~Holds(a, bumped, ActiveColumns)
<1>1. bumped \in Task
  BY DEF TypeInv, TypeOK, AgentFiles
<1>2. kind \in {"claim", "refocus"} /\ demote \in BOOLEAN /\ drop \in BOOLEAN
  BY DEF Holds
<1>3. op' = Started("project", kind, a, c, bumped, demote, drop, NoRev)
  BY DEF ClaimTask
<1> HIDE DEF bumped, existing, kind, demote, drop
<1>4. op' \in Operations
  BY <1>1, <1>2, <1>3, StartedType DEF Steps, Kinds, Revisions, NoRev
<1>5. StepShape'
  BY <1>2, <1>3 DEF Started, StepShape
<1> QED
  BY <1>4, <1>5 DEF ClaimTask, TypeInv, TypeOK, store, history, Results

LEMMA TypeClaimProject == ASSUME TypeInv, ClaimProject PROVE TypeInv'
<1> DEFINE bumped == IF op.bumped = op.task THEN None ELSE op.bumped
           kept == agent[op.agent].claimed \ (IF op.drop THEN {bumped} ELSE {})
           saved == [agent EXCEPT ![op.agent] =
                       [current |-> op.task, claimed |-> kept \cup {op.task},
                        completed |-> @.completed]]
<1>1. /\ op.agent \in Agents /\ op.task \in Cards /\ bumped \in Task
      /\ agent[op.agent] \in AgentFiles /\ agent \in [Agents -> AgentFiles]
  BY InFlightTypes DEF ClaimProject, Idle, Task, TypeInv, TypeOK
<1>2. kept \in SUBSET Cards
  BY <1>1 DEF AgentFiles
<1>3. saved \in [Agents -> AgentFiles]
  <2> HIDE DEF kept
  <2> QED BY <1>1, <1>2 DEF AgentFiles, Task
<1>4. agent' \in [Agents -> AgentFiles]
  BY <1>3, <1>1 DEF ClaimProject
<1>5. op' \in Operations /\ result' \in Results /\ StepShape'
  <2>1. CASE UNCHANGED result /\ op' = [op EXCEPT !.pc = "claim", !.bumped = bumped]
             /\ op.kind = "claim"
    <3> HIDE DEF bumped
    <3> QED BY <2>1, <1>1 DEF TypeInv, TypeOK, StepShape, Operations, Steps, ClaimProject
  <2>2. CASE UNCHANGED result /\ op' = [op EXCEPT !.pc = "demote"]
             /\ op.kind = "refocus" /\ op.demote
    BY <2>2, <1>1 DEF TypeInv, TypeOK, StepShape, Operations, Steps, ClaimProject
  <2>3. CASE \E v \in {"ok", "refused"} : Return(v)
    BY <2>3, ReturnType DEF Results
  <2> QED
    BY <2>1, <2>2, <2>3 DEF ClaimProject
<1> QED
  BY <1>4, <1>5 DEF ClaimProject, TypeInv, TypeOK, store, history

LEMMA TypeMirrorClaim ==
  ASSUME TypeInv, NEW o \in Outcomes, MirrorClaim(o) PROVE TypeInv'
<1> DEFINE r == nrev + 1
           landed == IF Lands(op.task, o) THEN {"claim"} ELSE {}
<1>1. /\ op.agent \in Agents /\ op.task \in Cards /\ r \in Nat /\ op.kind = "claim"
      /\ op \in Operations
  BY InFlightTypes DEF MirrorClaim, Idle, TypeInv, TypeOK, StepShape
<1>2. card' \in [Cards -> CardStates] /\ faults' \in Nat
  <2>1. WellFormed(ClaimEvent(op.agent, r))
    BY <1>1, EventsWellFormed DEF Revisions, Columns
  <2> QED
    BY <1>1, <2>1, MirrorType DEF MirrorClaim, TypeInv
<1>3. landed \in SUBSET Transitions
  BY DEF Transitions
<1>4. op' \in Operations /\ result' \in Results /\ StepShape'
  <2> HIDE DEF r, landed
  <2>1. ASSUME NEW pc \in {"judge", "demote"}, result' = result, pc = "demote" => op.demote,
               op' = [[op EXCEPT !.rev = r, !.durable = landed] EXCEPT !.pc = pc]
        PROVE  op' \in Operations /\ result' \in Results /\ StepShape'
    BY <2>1, <1>1, <1>3 DEF TypeInv, TypeOK, StepShape, Operations, Steps, Revisions
  <2>2. CASE Return("ok")
    BY <2>2, ReturnType DEF Results
  <2> USE DEF r, landed
  <2> QED
    BY <2>1, <2>2 DEF MirrorClaim
<1>5. nrev' \in Nat
  BY <1>1 DEF MirrorClaim
<1> QED
  BY <1>2, <1>4, <1>5 DEF MirrorClaim, TypeInv, TypeOK, history

LEMMA TypeMirrorDemote ==
  ASSUME TypeInv, NEW o \in Outcomes, MirrorDemote(o) PROVE TypeInv'
<1> DEFINE landed == IF Lands(op.bumped, o) THEN {"demote"} ELSE {}
<1>1. /\ op.agent \in Agents /\ op.task \in Cards /\ op.bumped \in Cards
      /\ op \in Operations
  BY InFlightTypes DEF MirrorDemote, Idle, TypeInv, TypeOK, Task
<1>2. card' \in [Cards -> CardStates] /\ faults' \in Nat
  <2>1. WellFormed(MoveEvent("ready"))
    BY <1>1, EventsWellFormed DEF Revisions, Columns
  <2> QED
    BY <1>1, <2>1, MirrorType DEF MirrorDemote, TypeInv
<1>3. op.durable \cup landed \in SUBSET Transitions
  BY <1>1 DEF Transitions, Operations
<1>4. op' \in Operations /\ result' \in Results /\ StepShape'
  <2> HIDE DEF landed
  <2>1. CASE UNCHANGED result /\ op' = [op EXCEPT !.pc = "judge", !.durable = @ \cup landed]
    BY <2>1, <1>1, <1>3 DEF MirrorDemote, TypeInv, TypeOK, StepShape, Operations, Steps
  <2>2. CASE Return("ok")
    BY <2>2, ReturnType DEF Results
  <2> USE DEF landed
  <2> QED
    BY <2>1, <2>2 DEF MirrorDemote
<1> QED
  BY <1>2, <1>4 DEF MirrorDemote, TypeInv, TypeOK, history

\* Steps that only classify: they change neither store.
LEMMA TypeJudgements ==
  ASSUME TypeInv,
         DemoteNothing \/ JudgeClaim \/ CheckRelease \/ JudgeComplete \/ ReturnExisting
  PROVE  TypeInv'
<1>1. op' \in Operations /\ result' \in Results /\ StepShape'
  <2>1. CASE \E v \in {"ok", "error"} : Return(v)
    BY <2>1, ReturnType DEF Results
  <2>2. ASSUME NEW pc \in {"compRelease", "recover"}, op' = [op EXCEPT !.pc = pc],
               UNCHANGED result, op.pc \in {"judge", "checkRelease", "judgeComplete"},
               pc = "compRelease" => op.kind = "claim"
        PROVE  op' \in Operations /\ result' \in Results /\ StepShape'
    BY <2>2 DEF TypeInv, TypeOK, StepShape, Operations, Steps
  <2> QED
    BY <2>1, <2>2 DEF DemoteNothing, JudgeClaim, CheckRelease, JudgeComplete, ReturnExisting
<1>2. UNCHANGED <<store, agent, faults, history, broken>>
  BY DEF DemoteNothing, JudgeClaim, CheckRelease, JudgeComplete, ReturnExisting
<1> QED
  BY <1>1, <1>2 DEF TypeInv, TypeOK, store, history

LEMMA TypeCompensation ==
  ASSUME TypeInv, NEW o \in Outcomes,
         CompensateRelease(o) \/ CompensateReclaim(o) \/ CompensateMove(o)
  PROVE  TypeInv'
<1>1. /\ op.agent \in Agents /\ op.task \in Cards /\ op \in Operations
      /\ op.rev \in Revisions /\ op.snap \in CardStates /\ nrev \in Nat
  BY InFlightTypes DEF CompensateRelease, CompensateReclaim, CompensateMove,
                       Idle, TypeInv, TypeOK
<1>2. op.snap.status \in Columns
  BY <1>1 DEF CardStates
<1>3. op.pc = "compReclaim" => op.snap.owner \in Agents
  BY <1>1 DEF TypeInv, StepShape, CardStates
<1>4. card' \in [Cards -> CardStates] /\ faults' \in Nat
  <2>1. CASE CompensateRelease(o)
    BY <2>1, <1>1, MirrorType, EventsWellFormed DEF CompensateRelease, TypeInv, Columns
  <2>2. CASE CompensateReclaim(o)
    BY <2>2, <1>1, <1>3, MirrorType, EventsWellFormed
       DEF CompensateReclaim, TypeInv, Columns, Revisions
  <2>3. CASE CompensateMove(o)
    <3>1. CASE Mirror(op.task, MoveEvent(op.snap.status), o)
      BY <3>1, <1>1, <1>2, MirrorType, EventsWellFormed DEF TypeInv
    <3>2. CASE UNCHANGED <<card, faults>>
      BY <3>2 DEF TypeInv, TypeOK
    <3> QED
      BY <2>3, <3>1, <3>2 DEF CompensateMove
  <2> QED
    BY <2>1, <2>2, <2>3
<1>5. op' \in Operations /\ StepShape'
  <2>1. ASSUME NEW pc \in {"compReclaim", "compMove", "recover"},
               op' = [op EXCEPT !.pc = pc] \/ op' = [op EXCEPT !.pc = "recover", !.fatal = TRUE],
               op.pc \in {"compRelease", "compReclaim", "compMove"},
               pc = "compReclaim" => op.snap.owner # None
        PROVE  op' \in Operations /\ StepShape'
    BY <2>1, <1>1 DEF TypeInv, TypeOK, StepShape, Operations, Steps
  <2> QED
    BY <2>1 DEF CompensateRelease, CompensateReclaim, CompensateMove, CompensationFailed
<1>6. nrev' \in Nat /\ UNCHANGED <<agent, result, disturb, disturbed, broken>>
  BY <1>1 DEF CompensateRelease, CompensateReclaim, CompensateMove, history
<1> QED
  BY <1>4, <1>5, <1>6 DEF TypeInv, TypeOK

LEMMA TypeRecover ==
  ASSUME TypeInv, NEW o \in Outcomes, Recover(o) PROVE TypeInv'
<1>1. op.agent \in Agents /\ op.orig \in AgentFiles /\ Locked \in SUBSET Cards /\ op.task \in Cards
  BY InFlightTypes DEF Recover, Idle
<1>2. agent' \in [Agents -> AgentFiles] /\ faults' \in Nat /\ broken' \in SUBSET Cards
  BY <1>1 DEF Recover, Charge, TypeInv, TypeOK
<1>3. \E v \in {"error", "fail-closed"} : Return(v)
  BY DEF Recover
<1>4. op' \in Operations /\ result' \in Results /\ StepShape'
  BY <1>3, ReturnType DEF Results
<1> QED
  BY <1>2, <1>4 DEF Recover, TypeInv, TypeOK, store, history

LEMMA TypeReleaseClaim ==
  ASSUME TypeInv, NEW a \in Agents, NEW c \in Cards, ReleaseClaim(a, c)
  PROVE  TypeInv'
<1>1. PICK r \in ReleasableRevision(a, card[c]) :
        op' = Started("release", "release", a, c, None, FALSE, FALSE, r)
  BY DEF ReleaseClaim
<1>2. r \in Revisions
  <2>1. card[c] \in CardStates
    BY DEF TypeInv, TypeOK
  <2> QED
    BY <2>1 DEF ReleasableRevision, CardStates, Conflicts
<1>3. op' \in Operations
  BY <1>1, <1>2, StartedType DEF Steps, Kinds, Task
<1>4. StepShape'
  BY <1>1 DEF Started, StepShape
<1>5. agent' \in [Agents -> AgentFiles]
  <2>1. agent[a] \in AgentFiles
    BY DEF TypeInv, TypeOK
  <2> QED
    BY <2>1 DEF ReleaseClaim, TypeInv, TypeOK, AgentFiles, Task
<1> QED
  BY <1>3, <1>4, <1>5 DEF ReleaseClaim, TypeInv, TypeOK, store, history, Results

LEMMA TypeMirrorRelease ==
  ASSUME TypeInv, NEW o \in Outcomes, MirrorRelease(o) PROVE TypeInv'
<1> DEFINE landed == IF Lands(op.task, o) THEN {"release"} ELSE {}
<1>1. op.agent \in Agents /\ op.task \in Cards /\ op \in Operations /\ op.rev \in Revisions
  BY InFlightTypes DEF MirrorRelease, Idle, TypeInv, TypeOK
<1>2. card' \in [Cards -> CardStates] /\ faults' \in Nat
  BY <1>1, MirrorType, EventsWellFormed DEF MirrorRelease, TypeInv, Columns
<1>3. landed \in SUBSET Transitions
  BY DEF Transitions
<1>4. op' \in Operations /\ StepShape'
  <2>1. op' = [op EXCEPT !.pc = "checkRelease", !.durable = landed]
    BY DEF MirrorRelease
  <2> HIDE DEF landed
  <2> QED
    BY <2>1, <1>1, <1>3 DEF MirrorRelease, TypeInv, StepShape, Operations, Steps
<1> QED
  BY <1>2, <1>4 DEF MirrorRelease, TypeInv, TypeOK, history

LEMMA TypeCompleteTask ==
  ASSUME TypeInv, NEW a \in Agents, NEW c \in Cards, CompleteTask(a, c) \/ CompleteAgain(a, c)
  PROVE  TypeInv'
<1>1. agent[a] \in AgentFiles
  BY DEF TypeInv, TypeOK
<1>2. \E pc \in {"complete", "return"} :
        op' = Started(pc, "complete", a, c, None, FALSE, FALSE, NoRev)
  BY DEF CompleteTask, CompleteAgain
<1>3. op' \in Operations
  BY <1>2, StartedType DEF Steps, Kinds, Task, Revisions, NoRev
<1>4. StepShape'
  BY <1>2 DEF Started, StepShape
<1>5. agent' \in [Agents -> AgentFiles]
  <2>1. CASE CompleteAgain(a, c)
    BY <2>1 DEF CompleteAgain, TypeInv, TypeOK
  <2>2. CASE CompleteTask(a, c)
    <3>1. PICK next \in NextCurrent(agent[a], c) :
            agent' = [agent EXCEPT ![a] = [current |-> next, claimed |-> @.claimed \ {c},
                                           completed |-> @.completed \cup {c}]]
      BY <2>2 DEF CompleteTask
    <3>2. next \in Task
      BY <1>1 DEF NextCurrent, AgentFiles, Task
    <3> QED
      BY <1>1, <3>1, <3>2 DEF AgentFiles, TypeInv, TypeOK
  <2> QED
    BY <2>1, <2>2
<1> QED
  BY <1>3, <1>4, <1>5 DEF CompleteTask, CompleteAgain, TypeInv, TypeOK, store, history, Results

LEMMA TypeMirrorComplete ==
  ASSUME TypeInv, NEW o \in Outcomes, MirrorComplete(o) PROVE TypeInv'
<1> DEFINE landed == IF Lands(op.task, o) THEN {"complete"} ELSE {}
<1>1. op.agent \in Agents /\ op.task \in Cards /\ op \in Operations
  BY InFlightTypes DEF MirrorComplete, Idle, TypeInv, TypeOK
<1>2. card' \in [Cards -> CardStates] /\ faults' \in Nat
  <2>1. WellFormed(CompleteEvent)
    BY <1>1, EventsWellFormed DEF Revisions, Columns
  <2> QED
    BY <1>1, <2>1, MirrorType DEF MirrorComplete, TypeInv
<1>3. landed \in SUBSET Transitions
  BY DEF Transitions
<1>4. op' \in Operations /\ result' \in Results /\ StepShape'
  <2> HIDE DEF landed
  <2>1. CASE UNCHANGED result /\ op' = [op EXCEPT !.pc = "judgeComplete", !.durable = landed]
    BY <2>1, <1>1, <1>3 DEF MirrorComplete, TypeInv, TypeOK, StepShape, Operations, Steps
  <2>2. CASE Return("ok")
    BY <2>2, ReturnType DEF Results
  <2> USE DEF landed
  <2> QED
    BY <2>1, <2>2 DEF MirrorComplete
<1> QED
  BY <1>2, <1>4 DEF MirrorComplete, TypeInv, TypeOK, history

LEMMA EnvironmentEvents ==
  ASSUME NEW e \in OverlayEvents \cup StoreEvents
  PROVE  WellFormed(e)
<1>1. WellFormed(UnassignEvent) /\ WellFormed(ArchiveEvent) /\ WellFormed(VoidEvent)
  BY DEF WellFormed, Events, Event, UnassignEvent, ArchiveEvent, VoidEvent, Columns, Revisions, NoRev
<1>2. \A col \in Columns : WellFormed(MoveEvent(col)) /\ WellFormed(ReopenEvent(col))
  BY DEF WellFormed, Events, Event, MoveEvent, ReopenEvent, Revisions, NoRev
<1>3. \A a \in Agents : WellFormed(AssignEvent(a))
  BY DEF WellFormed, Events, Event, AssignEvent, Columns, Revisions, NoRev
<1> QED
  BY <1>1, <1>2, <1>3 DEF OverlayEvents, StoreEvents

LEMMA TypeDisturb ==
  ASSUME TypeInv, NEW c \in Cards, NEW e \in OverlayEvents \cup StoreEvents, Disturb(c, e)
  PROVE  TypeInv'
<1>1. Apply(card[c], e) \in CardStates
  BY ApplyType, EnvironmentEvents DEF TypeInv, TypeOK
<1>2. StepShape'
  BY DEF Disturb, TypeInv, StepShape
<1> QED
  BY <1>1, <1>2 DEF Disturb, TypeInv, TypeOK

LEMMA TypeCrash == ASSUME TypeInv, Crash PROVE TypeInv'
<1>1. Locked \in SUBSET Cards
  BY InFlightTypes DEF Crash
<1>2. op' \in Operations /\ result' \in Results /\ StepShape'
  BY ReturnType DEF Crash, Results
<1> QED
  BY <1>1, <1>2 DEF Crash, TypeInv, TypeOK, store, history

LEMMA TypeStep == ASSUME TypeInv, [Next]_vars PROVE TypeInv'
<1>1. CASE Call
  BY <1>1, TypeClaimTask, TypeReleaseClaim, TypeCompleteTask DEF Call
<1>2. CASE Continue
  BY <1>2, TypeClaimProject, TypeJudgements, TypeMirrorClaim, TypeMirrorDemote,
     TypeCompensation, TypeRecover, TypeMirrorRelease, TypeMirrorComplete DEF Continue
<1>3. CASE Environment
  BY <1>3, TypeDisturb, TypeCrash DEF Environment, Overlay, StoreEvent
<1>4. CASE UNCHANGED vars
  BY <1>4 DEF vars, TypeInv, TypeOK, StepShape
<1> QED
  BY <1>1, <1>2, <1>3, <1>4 DEF Next

\* Type correctness: every reachable state of Board is well typed, and the
\* operation in flight always has an agent, a card and a step of its own kind.
THEOREM TypeCorrect == Spec => []TypeOK
<1>1. Spec => []TypeInv
  BY TypeInit, TypeStep, PTL DEF Spec
<1>2. TypeInv => TypeOK
  BY DEF TypeInv
<1> QED
  BY <1>1, <1>2, PTL

-----------------------------------------------------------------------------
(* What the protocol's events do to a plain card *)

LEMMA PlainClaim ==
  ASSUME NEW k \in CardStates, Plain(k), NEW a \in Agents, NEW r \in Nat \ {0},
         ~ClaimCollides(k, a)
  PROVE  LET n == Apply(k, ClaimEvent(a, r))
         IN  Plain(n) /\ n.owner = a /\ n.status = "doing" /\ n.rev = r
<1>1. Apply(k, ClaimEvent(a, r)) = ApplyClaim(k, a, r)
  BY DEF Apply, ClaimEvent, Event, Plain
<1>2. ApplyClaim(k, a, r) = [k EXCEPT !.owner = a, !.status = "doing", !.rev = r, !.conflicts = {}]
  BY DEF ApplyClaim, Plain
<1>3. a # None
  BY NoneAssumption
<1> QED
  BY <1>1, <1>2, <1>3 DEF Plain, CardStates, NoRev

LEMMA PlainRelease ==
  ASSUME NEW k \in CardStates, Plain(k), NEW a \in Agents, NEW r \in Revisions,
         k.owner = a, k.rev = r
  PROVE  LET n == Apply(k, ReleaseEvent(a, r))
         IN  Plain(n) /\ n.owner = None /\ n.status = "backlog" /\ n.rev = NoRev
<1>1. k.rev # NoRev
  BY NoneAssumption DEF Plain
<1>2. Apply(k, ReleaseEvent(a, r)) = ApplyRelease(k, a, r)
  BY DEF Apply, ReleaseEvent, Event, Plain
<1>3. ApplyRelease(k, a, r) = [k EXCEPT !.owner = None, !.status = "backlog", !.rev = NoRev]
  BY <1>1 DEF ApplyRelease, ReleasesCurrent
<1> QED
  BY <1>2, <1>3 DEF Plain, CardStates

LEMMA PlainComplete ==
  ASSUME NEW k \in CardStates, Plain(k)
  PROVE  LET n == Apply(k, CompleteEvent)
         IN  Plain(n) /\ n.owner = None /\ n.status = "done"
<1>1. Apply(k, CompleteEvent) = ApplyComplete(k)
  BY DEF Apply, CompleteEvent, Event, Plain
<1> QED
  BY <1>1 DEF ApplyComplete, Plain, CardStates

LEMMA PlainMove ==
  ASSUME NEW k \in CardStates, Plain(k), NEW col \in Columns \ {"review"},
         k.owner = None <=> col \in {"backlog", "done"}
  PROVE  LET n == Apply(k, MoveEvent(col))
         IN  Plain(n) /\ n.owner = k.owner /\ n.status = col /\ n.rev = k.rev
<1>1. Apply(k, MoveEvent(col)) = [k EXCEPT !.status = col]
  BY DEF Apply, MoveEvent, Event, Plain
<1> QED
  BY <1>1 DEF Plain, CardStates

\* An append lands in full or not at all.
LEMMA MirrorCard ==
  ASSUME TypeOK, NEW c \in Cards, NEW e, NEW o, Mirror(c, e, o)
  PROVE  /\ \A d \in Cards \ {c} : card'[d] = card[d]
         /\ card'[c] = IF Lands(c, o) THEN Apply(card[c], e) ELSE card[c]
BY DEF Mirror, TypeOK

-----------------------------------------------------------------------------
(* Agreement of one card, through the projection an operation saves.       *)
(* ag: the projections now; g: the file of agent a that a rollback would   *)
(* restore; t: the target.                                                 *)

\* A claim of t does not disturb the agreement of another card.
LEMMA ClaimKeepsOthers ==
  ASSUME NEW ag \in [Agents -> AgentFiles], NEW a \in Agents, NEW g \in AgentFiles,
         NEW t \in Cards, NEW c \in Cards, c # t, NEW k \in CardStates, NEW D, c \notin D,
         AgreesIn([ag EXCEPT ![a] = g], k, c),
         ag[a] = [current |-> t, claimed |-> (g.claimed \ D) \cup {t}, completed |-> g.completed],
         ~(k.owner = a /\ k.status = "doing")
  PROVE  AgreesIn(ag, k, c)
BY DEF AgreesIn, AgentFiles

LEMMA ReleaseKeepsOthers ==
  ASSUME NEW ag \in [Agents -> AgentFiles], NEW a \in Agents, NEW g \in AgentFiles,
         NEW t \in Cards, NEW c \in Cards, c # t, NEW k \in CardStates,
         AgreesIn([ag EXCEPT ![a] = g], k, c),
         ag[a] = [current |-> IF g.current = t THEN None ELSE g.current,
                  claimed |-> g.claimed \ {t}, completed |-> g.completed]
  PROVE  AgreesIn(ag, k, c)
BY CardsAssumption DEF AgreesIn, AgentFiles

LEMMA CompleteKeepsOthers ==
  ASSUME NEW ag \in [Agents -> AgentFiles], NEW a \in Agents, NEW g \in AgentFiles,
         NEW t \in Cards, NEW c \in Cards, c # t, NEW k \in CardStates,
         AgreesIn([ag EXCEPT ![a] = g], k, c),
         ag[a].claimed = g.claimed \ {t}, ag[a].completed = g.completed \cup {t},
         \/ ag[a].current = g.current
         \/ g.current = t /\ ag[a].current \in ag[a].claimed \cup {None}
  PROVE  AgreesIn(ag, k, c)
BY CardsAssumption DEF AgreesIn, AgentFiles

\* The target agrees once the event of the operation is folded.
LEMMA ClaimAgrees ==
  ASSUME NEW ag \in [Agents -> AgentFiles], NEW a \in Agents, NEW g \in AgentFiles,
         NEW t \in Cards, NEW s \in CardStates, NEW k \in CardStates,
         AgreesIn([ag EXCEPT ![a] = g], s, t), Plain(s),
         ~ClaimCollides(s, a), s.status # "done",
         ag[a].current = t, t \in ag[a].claimed, ag[a].completed = g.completed,
         k.owner = a, k.status = "doing"
  PROVE  AgreesIn(ag, k, t)
<1>1. \A b \in Agents \ {a} : t \notin ag[b].claimed
  BY NoneAssumption DEF AgreesIn, Plain, ClaimCollides, ActiveColumns, CardStates, Columns
<1>2. \A b \in Agents : t \notin ag[b].completed
  BY DEF AgreesIn
<1>3. \A b \in Agents \ {a} : ag[b].current # t
  BY <1>1 DEF AgreesIn
<1> QED
  BY <1>1, <1>2, <1>3 DEF AgreesIn, ActiveColumns

LEMMA ReleaseAgrees ==
  ASSUME NEW ag \in [Agents -> AgentFiles], NEW a \in Agents, NEW g \in AgentFiles,
         NEW t \in Cards, NEW s \in CardStates, NEW k \in CardStates,
         AgreesIn([ag EXCEPT ![a] = g], s, t), Plain(s), s.owner = a,
         ag[a] = [current |-> IF g.current = t THEN None ELSE g.current,
                  claimed |-> g.claimed \ {t}, completed |-> g.completed],
         k.owner = None, k.status = "backlog"
  PROVE  AgreesIn(ag, k, t)
<1>1. \A b \in Agents : t \notin ag[b].claimed /\ t \notin ag[b].completed
  BY NoneAssumption DEF AgreesIn, Plain
<1>2. \A b \in Agents : ag[b].current # t
  BY <1>1, CardsAssumption DEF AgreesIn
<1> QED
  BY <1>1, <1>2, NoneAssumption DEF AgreesIn

LEMMA CompleteAgrees ==
  ASSUME NEW ag \in [Agents -> AgentFiles], NEW a \in Agents, NEW g \in AgentFiles,
         NEW t \in Cards, NEW s \in CardStates, NEW k \in CardStates,
         AgreesIn([ag EXCEPT ![a] = g], s, t), s.owner \in {None, a},
         ag[a].claimed = g.claimed \ {t}, ag[a].completed = g.completed \cup {t},
         ag[a].current # t,
         k.owner = None, k.status = "done"
  PROVE  AgreesIn(ag, k, t)
<1>1. \A b \in Agents : t \notin ag[b].claimed
  BY NoneAssumption DEF AgreesIn
<1>2. \A b \in Agents : ag[b].current # t
  BY <1>1 DEF AgreesIn
<1> QED
  BY <1>1, <1>2, NoneAssumption DEF AgreesIn, ActiveColumns

\* Agreement depends on the owner and the column of a card only.
LEMMA SameOwnerAgrees ==
  ASSUME NEW ag, NEW c, NEW s, NEW k, AgreesIn(ag, s, c),
         k.owner = s.owner, k.status = s.status
  PROVE  AgreesIn(ag, k, c)
BY DEF AgreesIn

-----------------------------------------------------------------------------
(* The invariant: facts shared by the steps *)

LEMMA InvTypes ==
  ASSUME AgreementInv, ~Idle
  PROVE  /\ op.agent \in Agents /\ op.task \in Cards /\ op.bumped \in Task
         /\ op.orig \in AgentFiles /\ op.snap \in CardStates
         /\ op.rev \in Revisions /\ op.kind \in Kinds \ {"none"}
         /\ agent \in [Agents -> AgentFiles] /\ card \in [Cards -> CardStates]
         /\ Rolled \in [Agents -> AgentFiles]
<1>1. TypeInv
  BY DEF AgreementInv, TypeInv
<1>2. op.kind # "none"
  BY <1>1 DEF TypeInv, TypeOK, StepShape, Idle, Operations, Steps
<1> QED
  BY <1>1, <1>2, InFlightTypes DEF TypeInv, TypeOK, Rolled

\* Where the operation has not yet saved, rolling back changes nothing.
LEMMA NothingSaved ==
  ASSUME AgreementInv, op.pc \in {"project", "return"}
  PROVE  Rolled = agent
<1>1. ~Idle
  BY DEF Idle
<1> QED
  BY <1>1, InvTypes DEF Rolled, AgreementInv, Projected

\* A state of another card that agrees with the rollback agrees with what is
\* saved, unless a claim has left it doing.
LEMMA ForwardAgrees ==
  ASSUME AgreementInv, ~Idle, NEW c \in Cards \ (Exempt \cup {op.task}),
         NEW k \in CardStates, AgreesIn(Rolled, k, c),
         op.kind \in {"claim", "refocus"} /\ op.pc # "project"
           => ~(k.owner = op.agent /\ k.status = "doing")
  PROVE  AgreesIn(agent, k, c)
<1> USE InvTypes
<1>1. CASE op.pc \in {"project", "return"}
  BY <1>1, NothingSaved
<1>2. CASE op.kind \in {"claim", "refocus"} /\ op.pc # "project"
  <2> DEFINE D == IF op.drop THEN {op.bumped} ELSE {}
  <2>1. c \notin D
    BY <1>2 DEF AgreementInv, BumpFacts
  <2>2. agent[op.agent] = [current |-> op.task, claimed |-> (op.orig.claimed \ D) \cup {op.task},
                           completed |-> op.orig.completed]
    BY <1>2 DEF AgreementInv, Projected
  <2> HIDE DEF D
  <2> QED
    BY <1>2, <2>1, <2>2, ClaimKeepsOthers DEF Rolled
<1>3. CASE op.kind = "release"
  BY <1>3, ReleaseKeepsOthers DEF Rolled, AgreementInv, Projected
<1>4. CASE op.kind = "complete" /\ op.pc # "return"
  BY <1>4, CompleteKeepsOthers DEF Rolled, AgreementInv, Projected
<1> QED
  BY <1>1, <1>2, <1>3, <1>4 DEF Kinds

\* Every card the operation does not hold agrees with what is saved.
LEMMA UnlockedAgree ==
  ASSUME AgreementInv, ~Idle, NEW c \in Cards \ (Exempt \cup Locked)
  PROVE  AgreesIn(agent, card[c], c)
<1> USE InvTypes
<1>1. c # op.task /\ c # op.bumped
  BY CardsAssumption DEF Locked
<1>2. AgreesIn(Rolled, card[c], c)
  BY <1>1 DEF AgreementInv, RollbackAgrees
<1>3. op.kind \in {"claim", "refocus"} /\ op.pc # "project"
        => ~(card[c].owner = op.agent /\ card[c].status = "doing")
  <2> SUFFICES ASSUME op.kind \in {"claim", "refocus"}, op.pc # "project",
                      card[c].owner = op.agent, card[c].status = "doing"
               PROVE  FALSE
    OBVIOUS
  <2>1. op.orig.current = c
    BY <1>2 DEF AgreesIn, Rolled
  <2> QED
    BY <1>1, <2>1 DEF AgreementInv, BumpFacts
<1> QED
  BY <1>1, <1>2, <1>3, ForwardAgrees

\* So does every other card but a task that is still to be demoted.
LEMMA OthersAgree ==
  ASSUME AgreementInv, ~Idle, NEW c \in Cards \ (Exempt \cup {op.task}),
         op.kind \in {"claim", "refocus"} => ~(op.demote /\ c = op.bumped)
  PROVE  AgreesIn(agent, card[c], c)
<1> USE InvTypes
<1>1. CASE c # op.bumped
  BY <1>1, UnlockedAgree DEF Locked
<1>2. CASE c = op.bumped
  <2>1. AgreesIn(Rolled, card[c], c)
    BY DEF AgreementInv, RollbackAgrees
  <2>2. op.kind \in {"claim", "refocus"} => ~(card[c].owner = op.agent /\ card[c].status = "doing")
    BY <1>2 DEF AgreementInv, BumpFacts
  <2> QED
    BY <2>1, <2>2, ForwardAgrees
<1> QED
  BY <1>1, <1>2

\* A step that ends the operation only owes plain cards and agreement.
LEMMA EndStep ==
  ASSUME TypeInv', op' = NoOperation, CardsPlain',
         \A c \in Cards \ Exempt' : AgreesIn(agent', card'[c], c)
  PROVE  AgreementInv'
BY DEF AgreementInv, TypeInv, Agreement, RollbackAgrees, Projected, TargetProgress,
       BumpFacts, Idle, NoOperation

\* A step inside the operation that touches no card but the target.
LEMMA MiddleStep ==
  ASSUME AgreementInv, TypeInv', ~Idle,
         op.pc \notin {"project", "return"},
         op'.pc \notin {"idle", "project", "return"},
         op'.agent = op.agent, op'.task = op.task, op'.orig = op.orig, op'.snap = op.snap,
         op'.bumped = op.bumped, op'.kind = op.kind, op'.demote = op.demote, op'.drop = op.drop,
         agent' = agent, disturbed' = disturbed, broken' = broken,
         \A c \in Cards \ {op.task} : card'[c] = card[c],
         op.task \notin disturbed => Plain(card'[op.task]),
         TargetProgress'
  PROVE  AgreementInv'
<1> USE InvTypes DEF AgreementInv
<1>1. TypeOK' /\ StepShape'
  BY DEF TypeInv
<1>2. CardsPlain'
  BY DEF CardsPlain
<1>3. ~Idle' /\ Exempt' = Exempt
  BY DEF Idle, Exempt
<1>4. Agreement'
  BY <1>3 DEF Agreement
<1>5. Rolled' = Rolled
  BY DEF Rolled
<1>6. RollbackAgrees'
  BY <1>3, <1>5 DEF RollbackAgrees
<1>7. Projected'
  BY <1>3 DEF Projected
<1>8. BumpFacts'
  <2>1. op.bumped \in Cards \ {op.task} => card'[op.bumped] = card[op.bumped]
    OBVIOUS
  <2>2. op.kind \in {"claim", "refocus"} => op.bumped # op.task
    BY CardsAssumption DEF BumpFacts
  <2> QED
    BY <1>3, <2>1, <2>2 DEF BumpFacts
<1> QED
  BY <1>1, <1>2, <1>4, <1>6, <1>7, <1>8

-----------------------------------------------------------------------------
(* The invariant: one lemma per step *)

LEMMA InvInit == Init => AgreementInv
<1> SUFFICES ASSUME Init PROVE AgreementInv
  OBVIOUS
<1>1. TypeInv
  BY TypeInit
<1>2. CardsPlain
  BY DEF Init, CardsPlain, Plain, NewCard
<1>3. Agreement
  BY NoneAssumption, CardsAssumption DEF Init, Agreement, AgreesIn, NewCard, NewAgent
<1> QED
  BY <1>1, <1>2, <1>3 DEF Init, AgreementInv, TypeInv, Idle, NoOperation, RollbackAgrees,
                          Projected, TargetProgress, BumpFacts

\* The snapshots of an operation that has just started are consistent.
LEMMA StartedRollback ==
  ASSUME AgreementInv, Idle, NEW a \in Agents, NEW c \in Cards,
         op'.agent = a, op'.task = c, op'.orig = agent[a], op'.snap = card[c],
         agent' \in [Agents -> AgentFiles],
         \A b \in Agents \ {a} : agent'[b] = agent[b],
         card' = card, disturbed' = disturbed, broken' = broken
  PROVE  RollbackAgrees' /\ CardsPlain'
<1>1. Rolled' = agent
  BY DEF Rolled, AgreementInv, TypeOK
<1> QED
  BY <1>1 DEF AgreementInv, RollbackAgrees, CardsPlain, Agreement, Exempt

LEMMA InvClaimTask ==
  ASSUME AgreementInv, NEW a \in Agents, NEW c \in Cards, ClaimTask(a, c)
  PROVE  AgreementInv'
<1> DEFINE bumped == agent[a].current
           existing == Holds(a, c, {"doing", "review"}) /\ card[c].rev # NoRev
           kind == IF existing THEN "refocus" ELSE "claim"
           demote == Holds(a, bumped, {"doing", "review"})
           drop == bumped # None /\ ~Holds(a, bumped, ActiveColumns)
<1>1. TypeInv'
  BY TypeClaimTask DEF AgreementInv, TypeInv
<1>2. op' = Started("project", kind, a, c, bumped, demote, drop, NoRev)
  BY DEF ClaimTask
<1>3. /\ op'.pc = "project" /\ op'.kind = kind /\ op'.agent = a /\ op'.task = c
      /\ op'.bumped = bumped /\ op'.orig = agent[a] /\ op'.snap = card[c]
      /\ op'.demote = demote /\ op'.drop = drop
  <2> HIDE DEF bumped, kind, demote, drop
  <2> QED BY <1>2 DEF Started
<1>4. UNCHANGED <<card, agent, disturbed, broken>> /\ Idle /\ ~Idle' /\ ~(existing /\ bumped = c)
  BY <1>3 DEF ClaimTask, store, history, Idle
<1>5. RollbackAgrees' /\ CardsPlain'
  BY <1>3, <1>4, StartedRollback DEF AgreementInv, TypeOK
<1>6. Agreement' /\ Projected' /\ TargetProgress'
  BY <1>3, <1>4 DEF Agreement, Projected, TargetProgress
<1>7. BumpFacts'
  <2>1. bumped \in Cards \ Exempt => Holds(a, bumped, ActiveColumns)
    BY <1>4, CardsAssumption DEF AgreementInv, Agreement, AgreesIn, Holds
  <2>2. c \notin Exempt /\ existing => bumped = c
    BY <1>4 DEF AgreementInv, Agreement, AgreesIn, Holds, CardsPlain, Plain, Exempt
  <2>3. demote /\ bumped = c => c \in disturbed
    BY <1>4, NoneAssumption DEF AgreementInv, CardsPlain, Plain, Holds
  <2>4. demote => bumped # None
    BY DEF Holds
  <2>5. bumped \in Cards /\ card[bumped].owner = a /\ card[bumped].status = "doing" => demote
    BY CardsAssumption DEF Holds
  <2>6. drop /\ bumped \in Cards => bumped \in Exempt
    BY <2>1
  <2>7. kind = "refocus" => c \in Exempt /\ bumped # c
    BY <2>2, <1>4
  <2>8. Exempt' = Exempt
    BY <1>4 DEF Exempt
  <2>9. demote \in BOOLEAN /\ drop \in BOOLEAN
    BY DEF Holds
  <2> HIDE DEF bumped, kind, demote, drop, existing
  <2>10. op'.demote /\ op'.orig.current = op'.task => op'.task \in disturbed'
    BY <1>3, <1>4, <2>3 DEF bumped
  <2>11. op'.demote => op'.orig.current # None
    BY <1>3, <2>4 DEF bumped
  <2>12. op'.bumped \in Cards \ Exempt' /\ card'[op'.bumped].owner = op'.agent
           /\ card'[op'.bumped].status = "doing" => op'.demote
    BY <1>3, <1>4, <2>5, <2>9
  <2>13. op'.drop /\ op'.bumped \in Cards => op'.bumped \in Exempt'
    BY <1>3, <2>6, <2>8
  <2>14. op'.kind = "refocus" => op'.task \in Exempt' /\ op'.orig.current # op'.task
    BY <1>3, <2>7, <2>8 DEF bumped
  <2>15. op'.pc = "project" /\ op'.bumped = op'.orig.current
    BY <1>3 DEF bumped
  <2>16. demote /\ bumped \in Cards \ disturbed =>
           card[bumped].owner = a /\ card[bumped].status \in {"ready", "doing"}
    BY DEF demote, Holds, AgreementInv, CardsPlain, Plain
  <2>17. op'.demote /\ op'.bumped \in Cards \ disturbed' =>
           card'[op'.bumped].owner = op'.agent /\ card'[op'.bumped].status \in {"ready", "doing"}
    BY <1>3, <1>4, <2>16
  <2> QED
    BY <2>10, <2>11, <2>12, <2>13, <2>14, <2>15, <2>17 DEF BumpFacts
<1> QED
  BY <1>1, <1>5, <1>6, <1>7 DEF AgreementInv, TypeInv

LEMMA InvCrash == ASSUME AgreementInv, Crash PROVE AgreementInv'
<1>1. TypeInv' /\ ~Idle
  BY TypeCrash DEF AgreementInv, TypeInv, Crash
<1>2. UNCHANGED <<card, agent, disturbed>> /\ op' = NoOperation /\ broken' = broken \cup Locked
  BY DEF Crash, Return, store, history
<1>3. CardsPlain'
  BY <1>2 DEF AgreementInv, CardsPlain
<1>4. \A c \in Cards \ Exempt' : AgreesIn(agent', card'[c], c)
  BY <1>1, <1>2, UnlockedAgree DEF Exempt
<1> QED
  BY <1>1, <1>2, <1>3, <1>4, EndStep

LEMMA InvRecover ==
  ASSUME AgreementInv, NEW o \in Outcomes, Recover(o) PROVE AgreementInv'
<1> USE InvTypes
<1>1. TypeInv' /\ ~Idle
  BY TypeRecover DEF AgreementInv, TypeInv, Recover, Idle
<1>2. UNCHANGED <<card, disturbed>> /\ op' = NoOperation /\ broken \subseteq broken'
  BY DEF Recover, Return, store, history
<1>3. CardsPlain'
  BY <1>2 DEF AgreementInv, CardsPlain
<1>4. ASSUME NEW c \in Cards \ Exempt' PROVE AgreesIn(agent', card'[c], c)
  <2>1. c \notin Exempt
    BY <1>2 DEF Exempt
  <2>2. CASE o # "ok"
    <3>1. c \notin Locked /\ agent' = agent
      BY <2>2 DEF Recover, Exempt
    <3> QED
      BY <1>1, <1>2, <2>1, <3>1, UnlockedAgree
  <2>3. CASE o = "ok" /\ c # op.task
    BY <1>1, <1>2, <2>1, <2>3 DEF AgreementInv, RollbackAgrees, Recover, Rolled
  <2>4. CASE o = "ok" /\ c = op.task
    <3>1. ~op.fatal
      BY <2>4 DEF Recover, Exempt
    <3>2. MatchesSnapshot(card[c])
      BY <1>1, <2>1, <2>4, <3>1 DEF AgreementInv, TargetProgress, Recover, Exempt
    <3>3. AgreesIn(Rolled, op.snap, c)
      BY <1>1, <2>1, <2>4 DEF AgreementInv, RollbackAgrees
    <3>4. agent' = Rolled
      BY <2>4 DEF Recover, Rolled
    <3> QED
      BY <1>2, <3>2, <3>3, <3>4, SameOwnerAgrees DEF MatchesSnapshot
  <2> QED
    BY <2>2, <2>3, <2>4
<1> QED
  BY <1>1, <1>2, <1>3, <1>4, EndStep

LEMMA InvReleaseClaim ==
  ASSUME AgreementInv, NEW a \in Agents, NEW c \in Cards, ReleaseClaim(a, c)
  PROVE  AgreementInv'
<1>1. TypeInv' /\ TypeInv
  BY TypeReleaseClaim DEF AgreementInv, TypeInv
<1>2. PICK r \in ReleasableRevision(a, card[c]) :
        op' = Started("release", "release", a, c, None, FALSE, FALSE, r)
  BY DEF ReleaseClaim
<1>3. /\ op'.pc = "release" /\ op'.kind = "release" /\ op'.agent = a /\ op'.task = c
      /\ op'.bumped = None /\ op'.orig = agent[a] /\ op'.snap = card[c] /\ op'.rev = r
  BY <1>2 DEF Started
<1>4. /\ UNCHANGED <<card, disturbed, broken>> /\ Idle /\ ~Idle'
      /\ agent' = [agent EXCEPT
                     ![a] = [current |-> IF @.current = c THEN None ELSE @.current,
                             claimed |-> @.claimed \ {c}, completed |-> @.completed]]
  BY <1>3 DEF ReleaseClaim, store, history, Idle
<1>5. agent \in [Agents -> AgentFiles] /\ agent' \in [Agents -> AgentFiles]
  BY <1>1 DEF TypeInv, TypeOK
<1>6. RollbackAgrees' /\ CardsPlain'
  BY <1>3, <1>4, <1>5, StartedRollback
<1>7. Agreement' /\ BumpFacts'
  BY <1>3, <1>4 DEF Agreement, BumpFacts
<1>8. Projected'
  BY <1>3, <1>4, <1>5 DEF Projected
<1>9. c \notin disturbed => card[c].owner = a /\ card[c].rev = r
  BY DEF AgreementInv, CardsPlain, Plain, ReleasableRevision
<1>10. TargetProgress'
  BY <1>3, <1>4, <1>9 DEF TargetProgress
<1> QED
  BY <1>1, <1>6, <1>7, <1>8, <1>10 DEF AgreementInv, TypeInv

LEMMA InvCompleteTask ==
  ASSUME AgreementInv, NEW a \in Agents, NEW c \in Cards, CompleteTask(a, c)
  PROVE  AgreementInv'
<1>1. TypeInv' /\ TypeInv
  BY TypeCompleteTask DEF AgreementInv, TypeInv
<1>2. /\ op'.pc = "complete" /\ op'.kind = "complete" /\ op'.agent = a /\ op'.task = c
      /\ op'.bumped = None /\ op'.orig = agent[a] /\ op'.snap = card[c]
  BY DEF CompleteTask, Started
<1>3. PICK next \in NextCurrent(agent[a], c) :
        agent' = [agent EXCEPT ![a] = [current |-> next, claimed |-> @.claimed \ {c},
                                       completed |-> @.completed \cup {c}]]
  BY DEF CompleteTask
<1>4. UNCHANGED <<card, disturbed, broken>> /\ Idle /\ ~Idle'
  BY <1>2 DEF CompleteTask, store, history, Idle
<1>5. agent \in [Agents -> AgentFiles] /\ agent' \in [Agents -> AgentFiles]
  BY <1>1 DEF TypeInv, TypeOK
<1>6. RollbackAgrees' /\ CardsPlain'
  BY <1>2, <1>3, <1>4, <1>5, StartedRollback
<1>7. Agreement' /\ BumpFacts' /\ TargetProgress'
  BY <1>2, <1>4 DEF Agreement, BumpFacts, TargetProgress, CompleteTask, Completable
<1>8. Projected'
  <2>1. /\ agent'[a].claimed = agent[a].claimed \ {c}
        /\ agent'[a].completed = agent[a].completed \cup {c}
        /\ agent'[a].current = next
    BY <1>3, <1>5
  <2>2. next # c
    BY CardsAssumption DEF NextCurrent
  <2>3. \/ next = agent[a].current
        \/ agent[a].current = c /\ next \in (agent[a].claimed \ {c}) \cup {None}
    <3>1. CASE agent[a].current # c
      BY <3>1 DEF NextCurrent
    <3>2. CASE agent[a].current = c
      <4>1. next \in {None} \/ next \in agent[a].claimed \ {c}
        BY <3>2 DEF NextCurrent
      <4> QED BY <3>2, <4>1
    <3> QED
      BY <3>1, <3>2
  <2> QED
    BY <1>2, <2>1, <2>2, <2>3 DEF Projected
<1> QED
  BY <1>1, <1>6, <1>7, <1>8 DEF AgreementInv, TypeInv

LEMMA InvCompleteAgain ==
  ASSUME AgreementInv, NEW a \in Agents, NEW c \in Cards, CompleteAgain(a, c)
  PROVE  AgreementInv'
<1>1. TypeInv' /\ TypeInv
  BY TypeCompleteTask DEF AgreementInv, TypeInv
<1>2. /\ op'.pc = "return" /\ op'.kind = "complete" /\ op'.agent = a /\ op'.task = c
      /\ op'.bumped = None /\ op'.orig = agent[a] /\ op'.snap = card[c]
  BY DEF CompleteAgain, Started
<1>3. UNCHANGED <<card, agent, disturbed, broken>> /\ Idle /\ ~Idle'
  BY <1>2 DEF CompleteAgain, store, history, Idle
<1>4. RollbackAgrees' /\ CardsPlain'
  BY <1>1, <1>2, <1>3, StartedRollback DEF TypeInv, TypeOK
<1>5. Agreement' /\ BumpFacts' /\ TargetProgress' /\ Projected'
  BY <1>2, <1>3 DEF Agreement, BumpFacts, TargetProgress, Projected, CompleteAgain
<1> QED
  BY <1>1, <1>4, <1>5 DEF AgreementInv, TypeInv

\* A claim that is folded agrees with the projection it saved.
LEMMA ClaimedTarget ==
  ASSUME AgreementInv, ~Idle, op.task \notin Exempt, op.kind = "claim", op.pc # "project",
         ~ClaimCollides(op.snap, op.agent), op.snap.status # "done",
         NEW k \in CardStates, k.owner = op.agent, k.status = "doing"
  PROVE  AgreesIn(agent, k, op.task)
<1> USE InvTypes
<1>1. /\ agent[op.agent].current = op.task /\ op.task \in agent[op.agent].claimed
      /\ agent[op.agent].completed = op.orig.completed
  BY DEF AgreementInv, Projected
<1>2. AgreesIn([agent EXCEPT ![op.agent] = op.orig], op.snap, op.task) /\ Plain(op.snap)
  BY DEF AgreementInv, RollbackAgrees, Rolled, Exempt
<1> QED
  BY <1>1, <1>2, ClaimAgrees

LEMMA InvMirrorClaim ==
  ASSUME AgreementInv, NEW o \in Outcomes, MirrorClaim(o) PROVE AgreementInv'
<1> USE InvTypes
<1> DEFINE t == op.task
           r == nrev + 1
           landed == IF Lands(t, o) THEN {"claim"} ELSE {}
<1>1. TypeInv' /\ ~Idle /\ TypeOK /\ op \in Operations /\ op.kind = "claim"
  BY TypeMirrorClaim DEF AgreementInv, TypeInv, TypeOK, MirrorClaim, Idle, StepShape
<1>2. UNCHANGED <<agent, disturbed, broken>> /\ op.pc = "claim"
  BY DEF MirrorClaim, history
<1>3. /\ \A c \in Cards \ {t} : card'[c] = card[c]
      /\ card'[t] = IF Lands(t, o) THEN Apply(card[t], ClaimEvent(op.agent, r)) ELSE card[t]
  BY <1>1, MirrorCard DEF MirrorClaim
<1>4. ASSUME t \notin disturbed
      PROVE  /\ card[t] = op.snap /\ Plain(card[t])
             /\ ~ClaimCollides(op.snap, op.agent) /\ op.snap.status # "done"
             /\ Plain(card'[t])
             /\ Lands(t, o) => card'[t].owner = op.agent /\ card'[t].status = "doing"
                              /\ card'[t].rev = r
  <2>1. card[t] = op.snap /\ ~ClaimCollides(op.snap, op.agent) /\ op.snap.status # "done"
    BY <1>1, <1>2, <1>4 DEF AgreementInv, TargetProgress
  <2>2. Plain(card[t])
    BY <1>1, <1>4 DEF AgreementInv, CardsPlain
  <2>3. r \in Nat \ {0}
    BY <1>1 DEF TypeOK
  <2> HIDE DEF r
  <2>4. LET n == Apply(card[t], ClaimEvent(op.agent, r))
        IN  Plain(n) /\ n.owner = op.agent /\ n.status = "doing" /\ n.rev = r
    BY <1>1, <2>1, <2>2, <2>3, PlainClaim
  <2> QED
    BY <1>3, <2>1, <2>2, <2>4
<1>5. CASE \E pc \in {"judge", "demote"} :
             op' = [op EXCEPT !.rev = r, !.durable = landed, !.pc = pc]
  <2>1. PICK pc \in {"judge", "demote"} :
             op' = [op EXCEPT !.rev = r, !.durable = landed, !.pc = pc]
    BY <1>5
  <2>2. pc = "demote" => Lands(t, o)
    <3>1. pc = "demote" => ~Raises(t, o)
      BY <1>1, <2>1 DEF MirrorClaim, Return, NoOperation, Operations
    <3> QED BY <3>1 DEF Raises, Lands
  <2>3. /\ op'.pc = pc /\ op'.rev = r /\ op'.durable = landed
        /\ op'.agent = op.agent /\ op'.task = t /\ op'.orig = op.orig /\ op'.snap = op.snap
        /\ op'.bumped = op.bumped /\ op'.kind = "claim" /\ op'.demote = op.demote
        /\ op'.drop = op.drop
    <3> HIDE DEF r, landed
    <3> QED BY <1>1, <2>1 DEF Operations
  <2>4. "claim" \in landed <=> Lands(t, o)
    OBVIOUS
  <2>5. TargetProgress'
    <3> HIDE DEF r, landed
    <3> QED BY <1>2, <1>3, <1>4, <2>2, <2>3, <2>4 DEF TargetProgress
  <2> HIDE DEF r, landed
  <2> QED
    BY <1>1, <1>2, <1>3, <1>4, <2>3, <2>5, MiddleStep
<1>6. CASE Return("ok") /\ ~Raises(t, o) /\ ~op.demote
  <2>1. Lands(t, o) /\ op' = NoOperation
    BY <1>6 DEF Raises, Lands, Return
  <2>2. CardsPlain'
    BY <1>1, <1>2, <1>3, <1>4 DEF AgreementInv, CardsPlain
  <2>3. ASSUME NEW c \in Cards \ Exempt' PROVE AgreesIn(agent', card'[c], c)
    <3>1. c \notin Exempt
      BY <1>2 DEF Exempt
    <3>2. CASE c # t
      BY <1>1, <1>2, <1>3, <1>6, <3>1, <3>2, OthersAgree
    <3>3. CASE c = t
      <4>1. card'[t] \in CardStates
        BY <1>1 DEF TypeInv, TypeOK
      <4> QED
        BY <1>1, <1>2, <1>4, <2>1, <3>1, <3>3, <4>1, ClaimedTarget DEF Exempt
    <3> QED BY <3>2, <3>3
  <2> QED
    BY <1>1, <2>1, <2>2, <2>3, EndStep
<1>7. \/ \E pc \in {"judge", "demote"} :
             op' = [op EXCEPT !.rev = r, !.durable = landed, !.pc = pc]
      \/ Return("ok") /\ ~Raises(t, o) /\ ~op.demote
  BY <1>1 DEF MirrorClaim, Operations
<1> QED
  BY <1>5, <1>6, <1>7

\* A demoted task still agrees with whatever agreed with it before.
LEMMA DemotedAgrees ==
  ASSUME NEW ag, NEW c \in Cards, NEW k, NEW n, AgreesIn(ag, k, c),
         k.status \in {"ready", "doing"}, n.owner = k.owner, n.status = "ready"
  PROVE  AgreesIn(ag, n, c)
BY DEF AgreesIn, ActiveColumns

LEMMA InvMirrorDemote ==
  ASSUME AgreementInv, NEW o \in Outcomes, MirrorDemote(o) PROVE AgreementInv'
<1> USE InvTypes
<1> DEFINE t == op.task
           b == op.bumped
           landed == IF Lands(b, o) THEN {"demote"} ELSE {}
<1>1. TypeInv' /\ ~Idle /\ TypeOK /\ op \in Operations /\ op.pc = "demote" /\ op.demote
  BY TypeMirrorDemote DEF AgreementInv, TypeInv, TypeOK, MirrorDemote, Idle, StepShape
<1>2. UNCHANGED <<agent, disturbed, broken>> /\ Exempt' = Exempt
  BY DEF MirrorDemote, history, Exempt
<1>3. op.kind \in {"claim", "refocus"} /\ (op.kind = "refocus" => t \in Exempt)
  BY <1>1 DEF AgreementInv, StepShape, BumpFacts
<1>4. b \in Cards /\ b # t /\ b = op.orig.current
  BY <1>1, <1>3 DEF MirrorDemote, Task, AgreementInv, BumpFacts
<1>5. /\ \A c \in Cards \ {b} : card'[c] = card[c]
      /\ card'[b] = IF Lands(b, o) THEN Apply(card[b], MoveEvent("ready")) ELSE card[b]
  BY <1>1, <1>4, MirrorCard DEF MirrorDemote
<1>6. b \notin disturbed => Plain(card[b])
  BY <1>4 DEF AgreementInv, CardsPlain
<1>7. ASSUME b \notin disturbed
      PROVE  /\ card[b].owner = op.agent /\ card[b].status \in {"ready", "doing"}
             /\ Plain(card'[b]) /\ card'[b].owner = op.agent
             /\ card'[b].status \in {"ready", "doing"}
             /\ Lands(b, o) => card'[b].status = "ready"
  <2>1. card[b].owner = op.agent /\ card[b].status \in {"ready", "doing"}
    BY <1>1, <1>3, <1>4, <1>7 DEF AgreementInv, BumpFacts
  <2>2. card[b].owner # None
    BY <1>1, <2>1, NoneAssumption
  <2>3. LET n == Apply(card[b], MoveEvent("ready"))
        IN  Plain(n) /\ n.owner = card[b].owner /\ n.status = "ready"
    BY <1>1, <1>4, <1>6, <1>7, <2>2, PlainMove DEF Columns
  <2> QED
    BY <1>5, <1>6, <1>7, <2>1, <2>3
<1>8. ASSUME b \notin Exempt PROVE AgreesIn(Rolled, card'[b], b)
  <2>1. AgreesIn(Rolled, card[b], b) /\ b \notin disturbed
    BY <1>1, <1>4, <1>8 DEF AgreementInv, RollbackAgrees, Exempt
  <2>2. CASE Lands(b, o)
    BY <1>4, <1>7, <2>1, <2>2, DemotedAgrees
  <2>3. CASE ~Lands(b, o)
    BY <1>5, <2>1, <2>3
  <2> QED
    BY <2>2, <2>3
<1>9. CardsPlain'
  BY <1>2, <1>4, <1>5, <1>7 DEF AgreementInv, CardsPlain
<1>10. CASE op' = [op EXCEPT !.pc = "judge", !.durable = @ \cup landed]
  <2>1. /\ op'.pc = "judge" /\ op'.rev = op.rev /\ op'.durable = op.durable \cup landed
        /\ op'.agent = op.agent /\ op'.task = t /\ op'.orig = op.orig /\ op'.snap = op.snap
        /\ op'.bumped = b /\ op'.kind = op.kind /\ op'.demote = op.demote
        /\ op'.drop = op.drop
    <3> HIDE DEF landed
    <3> QED BY <1>1, <1>10 DEF Operations
  <2>2. ~Idle' /\ Agreement' /\ Rolled' = Rolled
    BY <1>2, <2>1 DEF Idle, Agreement, Rolled
  <2>3. RollbackAgrees'
    BY <1>1, <1>2, <1>4, <1>5, <1>8, <2>1, <2>2 DEF AgreementInv, RollbackAgrees
  <2>4. Projected'
    <3> HIDE DEF landed
    <3> QED BY <1>1, <1>2, <1>3, <2>1, <2>2 DEF AgreementInv, Projected
  <2>5. TargetProgress'
    <3>1. "claim" \in op.durable \cup landed <=> "claim" \in op.durable
      OBVIOUS
    <3>2. card'[t] = card[t]
      BY <1>1, <1>4, <1>5
    <3> HIDE DEF landed
    <3> QED BY <1>1, <1>2, <1>3, <2>1, <2>2, <3>1, <3>2 DEF AgreementInv, TargetProgress
  <2>6. BumpFacts'
    <3> HIDE DEF landed
    <3>1. op.demote \in BOOLEAN
      BY <1>1 DEF Operations
    <3> QED BY <1>1, <1>2, <1>3, <1>4, <1>7, <2>1, <3>1 DEF AgreementInv, BumpFacts
  <2> QED
    BY <1>1, <1>9, <2>2, <2>3, <2>4, <2>5, <2>6 DEF AgreementInv, TypeInv
<1>11. CASE Return("ok") /\ ~Raises(b, o)
  <2>1. Lands(b, o) /\ op' = NoOperation
    BY <1>11 DEF Raises, Lands, Return
  <2>2. ASSUME NEW c \in Cards \ Exempt' PROVE AgreesIn(agent', card'[c], c)
    <3>1. CASE c # t /\ c # b
      BY <1>1, <1>2, <1>5, <3>1, OthersAgree
    <3>2. CASE c = b
      <4>1. card'[b] \in CardStates
        BY <1>1, <1>4 DEF TypeInv, TypeOK
      <4>2. b \notin Exempt /\ card'[b].status = "ready"
        BY <1>2, <1>7, <2>1, <3>2 DEF Exempt
      <4> QED
        BY <1>1, <1>2, <1>4, <1>8, <3>2, <4>1, <4>2, ForwardAgrees
    <3>3. CASE c = t
      <4>1. op.kind = "claim" /\ t \notin Exempt /\ t \notin disturbed
        BY <1>2, <1>3, <3>3 DEF Exempt
      <4>2. /\ card[t].owner = op.agent /\ card[t].status = "doing"
            /\ ~ClaimCollides(op.snap, op.agent) /\ op.snap.status # "done"
        BY <1>1, <4>1 DEF AgreementInv, TargetProgress
      <4> QED
        BY <1>1, <1>2, <1>4, <1>5, <3>3, <4>1, <4>2, ClaimedTarget
    <3> QED BY <3>1, <3>2, <3>3
  <2> QED
    BY <1>1, <1>9, <2>1, <2>2, EndStep
<1>12. \/ op' = [op EXCEPT !.pc = "judge", !.durable = @ \cup landed]
       \/ Return("ok") /\ ~Raises(b, o)
  BY DEF MirrorDemote
<1> QED
  BY <1>10, <1>11, <1>12

LEMMA InvDemoteNothing == ASSUME AgreementInv, DemoteNothing PROVE AgreementInv'
<1> USE InvTypes
<1>1. TypeInv' /\ ~Idle /\ op.demote /\ op.kind \in {"claim", "refocus"} /\ op.pc # "project"
  BY TypeJudgements DEF AgreementInv, TypeInv, DemoteNothing, Idle, StepShape
<1>2. UNCHANGED <<card, agent, disturbed, broken>> /\ op' = NoOperation /\ Exempt' = Exempt
  BY DEF DemoteNothing, Return, store, history, Exempt
<1>3. op.task \in disturbed
  BY <1>1 DEF DemoteNothing, AgreementInv, BumpFacts
<1>4. CardsPlain'
  BY <1>2 DEF AgreementInv, CardsPlain
<1>5. ASSUME NEW c \in Cards \ Exempt' PROVE AgreesIn(agent', card'[c], c)
  <2>1. c # op.task /\ c # op.bumped
    BY <1>2, <1>3, CardsAssumption DEF Exempt, DemoteNothing
  <2> QED
    BY <1>1, <1>2, <2>1, OthersAgree
<1> QED
  BY <1>1, <1>2, <1>4, <1>5, EndStep

LEMMA InvClaimProject == ASSUME AgreementInv, ClaimProject PROVE AgreementInv'
<1> USE InvTypes
<1> DEFINE a == op.agent
           t == op.task
           bumped == IF op.bumped = t THEN None ELSE op.bumped
           D == IF op.drop THEN {bumped} ELSE {}
<1>1. /\ TypeInv' /\ TypeOK /\ ~Idle /\ op \in Operations /\ op.pc = "project"
      /\ op.kind \in {"claim", "refocus"}
  BY TypeClaimProject DEF AgreementInv, TypeInv, TypeOK, ClaimProject, Idle, StepShape
<1>2. UNCHANGED <<card, disturbed, broken>> /\ Exempt' = Exempt
  BY DEF ClaimProject, store, history, Exempt
<1>3. CardsPlain'
  BY <1>2 DEF AgreementInv, CardsPlain
<1>4. Rolled = agent /\ agent[a] = op.orig
  BY <1>1, NothingSaved DEF AgreementInv, Projected
<1>5. t \notin disturbed => card[t] = op.snap /\ Plain(op.snap)
  BY <1>1 DEF AgreementInv, TargetProgress, RollbackAgrees
<1>6. bumped = IF op.orig.current = t THEN None ELSE op.orig.current
  BY <1>1 DEF AgreementInv, BumpFacts
<1>7. CASE ~Claimable(a, t)
  <2>1. op' = NoOperation /\ agent' = agent
    BY <1>1, <1>7 DEF ClaimProject, Return
  <2>2. \A c \in Cards \ Exempt' : AgreesIn(agent', card'[c], c)
    BY <1>1, <1>2, <1>4, <1>5, <2>1 DEF AgreementInv, RollbackAgrees, Exempt
  <2> QED
    BY <1>1, <1>3, <2>1, <2>2, EndStep
<1>8. CASE Claimable(a, t)
  <2>1. agent' = [agent EXCEPT ![a] = [current |-> t, claimed |-> (agent[a].claimed \ D) \cup {t},
                                       completed |-> agent[a].completed]]
    BY <1>1, <1>8 DEF ClaimProject
  <2>2. agent'[a] = [current |-> t, claimed |-> (op.orig.claimed \ D) \cup {t},
                     completed |-> op.orig.completed]
    <3> HIDE DEF D
    <3> QED BY <1>1, <1>4, <2>1
  <2>3. [agent' EXCEPT ![a] = op.orig] = agent
    <3> HIDE DEF D
    <3> QED BY <1>1, <1>4, <2>1
  <2>4. t \notin disturbed => ~ClaimCollides(op.snap, a) /\ op.snap.status # "done"
    BY <1>1, <1>5, <1>8, NoneAssumption DEF Claimable, ClaimCollides, ActiveColumns, Plain
  <2>5. CASE \/ op.kind = "claim" /\ op' = [op EXCEPT !.pc = "claim", !.bumped = bumped]
             \/ /\ op.kind = "refocus" /\ bumped # None /\ op.demote
                /\ op' = [op EXCEPT !.pc = "demote"]
    <3>1. /\ op'.pc \in {"claim", "demote"} /\ op'.kind = op.kind
          /\ op'.agent = a /\ op'.task = t /\ op'.orig = op.orig /\ op'.snap = op.snap
          /\ op'.demote = op.demote /\ op'.drop = op.drop
          /\ op.kind = "claim" => op'.pc = "claim"
          /\ op'.pc = "demote" => op.kind = "refocus"
      <4> HIDE DEF bumped
      <4> QED BY <1>1, <2>5 DEF Operations
    <3>2. op'.bumped = bumped
      <4>1. CASE op.kind = "claim"
        <5> HIDE DEF bumped
        <5> QED BY <1>1, <2>5, <4>1 DEF Operations
      <4>2. CASE op.kind = "refocus"
        <5>1. op.bumped # t /\ op'.bumped = op.bumped
          BY <1>1, <2>5, <4>2 DEF Operations, AgreementInv, BumpFacts
        <5> QED BY <5>1
      <4> QED BY <1>1, <4>1, <4>2
    <3>3. ~Idle' /\ Agreement' /\ Rolled' = Rolled
      <4>1. ~Idle' /\ Agreement'
        BY <3>1 DEF Idle, Agreement
      <4>2. Rolled' = [agent' EXCEPT ![a] = op.orig]
        BY <3>1 DEF Rolled
      <4> QED BY <1>4, <2>3, <4>1, <4>2
    <3>4. RollbackAgrees'
      BY <1>1, <1>2, <3>1, <3>3 DEF AgreementInv, RollbackAgrees
    <3>5. Projected'
      <4>1. D = IF op'.drop THEN {op'.bumped} ELSE {}
        BY <3>1, <3>2
      <4> HIDE DEF D, bumped
      <4> QED BY <1>1, <2>2, <3>1, <3>3, <4>1 DEF Projected
    <3>6. TargetProgress'
      <4> HIDE DEF bumped
      <4> QED BY <1>1, <1>2, <1>5, <2>4, <3>1 DEF TargetProgress
    <3>7. BumpFacts'
      <4>1. op.bumped # t => bumped = op.bumped
        OBVIOUS
      <4>2. op.bumped = t => bumped \notin Cards
        BY CardsAssumption
      <4> HIDE DEF bumped
      <4> QED BY <1>1, <1>2, <1>6, <3>1, <3>2, <4>1, <4>2 DEF AgreementInv, BumpFacts
    <3> QED
      BY <1>1, <1>3, <3>3, <3>4, <3>5, <3>6, <3>7 DEF AgreementInv, TypeInv
  <2>6. CASE op.kind = "refocus" /\ (bumped = None \/ ~op.demote) /\ Return("ok")
    <3>1. t \in Exempt /\ bumped = op.bumped
      BY <1>1, <2>6 DEF AgreementInv, BumpFacts
    <3>2. ASSUME NEW c \in Cards \ Exempt' PROVE AgreesIn(agent', card'[c], c)
      <4>1. c # t /\ c \notin Exempt /\ AgreesIn(agent, card[c], c)
        BY <1>1, <1>2, <1>4, <3>1 DEF AgreementInv, RollbackAgrees
      <4>2. c \notin D
        BY <1>1, <3>1, <4>1 DEF AgreementInv, BumpFacts
      <4>3. ~(card[c].owner = a /\ card[c].status = "doing")
        <5> SUFFICES ASSUME card[c].owner = a, card[c].status = "doing" PROVE FALSE
          OBVIOUS
        <5>1. op.orig.current = c
          BY <1>1, <1>4, <4>1 DEF AgreesIn
        <5>2. op.bumped = c
          BY <1>1, <5>1 DEF AgreementInv, BumpFacts
        <5> QED
          BY <1>1, <2>6, <3>1, <4>1, <5>2, CardsAssumption DEF AgreementInv, BumpFacts
      <4>4. agent' \in [Agents -> AgentFiles] /\ card[c] \in CardStates
        BY <1>1 DEF TypeInv, TypeOK
      <4> HIDE DEF D, bumped
      <4> QED
        BY <1>1, <1>2, <2>2, <2>3, <4>1, <4>2, <4>3, <4>4, ClaimKeepsOthers
    <3>3. op' = NoOperation
      BY <2>6 DEF Return
    <3> QED
      BY <1>1, <1>3, <3>2, <3>3, EndStep
  <2> QED
    BY <1>1, <1>8, <2>5, <2>6 DEF ClaimProject
<1> QED
  BY <1>7, <1>8

LEMMA InvJudgeClaim == ASSUME AgreementInv, JudgeClaim PROVE AgreementInv'
<1> USE InvTypes
<1> DEFINE t == op.task
<1>1. /\ TypeInv' /\ TypeOK /\ ~Idle /\ op \in Operations /\ op.pc = "judge"
      /\ op.kind \in {"claim", "refocus"} /\ (op.kind = "refocus" => op.demote)
  BY TypeJudgements DEF AgreementInv, TypeInv, TypeOK, JudgeClaim, Idle, StepShape
<1>2. UNCHANGED <<card, agent, disturbed, broken>> /\ Exempt' = Exempt
  BY DEF JudgeClaim, store, history, Exempt
<1>3. CardsPlain'
  BY <1>2 DEF AgreementInv, CardsPlain
<1>4. ASSUME t \notin disturbed
      PROVE  /\ op.kind = "refocus" => card[t] = op.snap
             /\ op.kind = "claim" => ~ClaimCollides(op.snap, op.agent) /\ op.snap.status # "done"
             /\ op.kind = "claim" /\ "claim" \in op.durable =>
                  card[t].owner = op.agent /\ card[t].status = "doing" /\ card[t].rev = op.rev
             /\ op.kind = "claim" /\ "claim" \notin op.durable => card[t] = op.snap
  BY <1>1, <1>4 DEF AgreementInv, TargetProgress
<1>5. CASE ClaimApplied
  <2>1. op' = NoOperation
    BY <1>5 DEF JudgeClaim, Return
  <2>2. ASSUME NEW c \in Cards \ Exempt PROVE AgreesIn(agent, card[c], c)
    <3>1. CASE c = t
      <4>1. op.kind = "claim"
        BY <1>1, <3>1 DEF AgreementInv, BumpFacts
      <4> QED
        BY <1>1, <1>4, <1>5, <3>1, <4>1, ClaimedTarget DEF ClaimApplied, Exempt
    <3>2. CASE c # t /\ ~(op.demote /\ c = op.bumped)
      BY <1>1, <3>2, OthersAgree
    <3>3. CASE c # t /\ op.demote /\ c = op.bumped
      <4>1. card[c].status = "ready"
        BY <1>5, <3>3 DEF ClaimApplied, Holds
      <4>2. AgreesIn(Rolled, card[c], c)
        BY <1>1, <3>3 DEF AgreementInv, RollbackAgrees
      <4> QED
        BY <1>1, <3>3, <4>1, <4>2, ForwardAgrees
    <3> QED BY <3>1, <3>2, <3>3
  <2> QED
    BY <1>1, <1>2, <1>3, <2>1, <2>2, EndStep
<1>6. CASE ~ClaimApplied
  <2> DEFINE comp == /\ op.kind = "claim" /\ op.demote /\ "claim" \in op.durable
                     /\ Holds(op.agent, op.task, {"doing"})
             pc == IF comp THEN "compRelease" ELSE "recover"
  <2>1. op' = [op EXCEPT !.pc = pc]
    BY <1>6 DEF JudgeClaim
  <2>2. /\ op'.pc = pc /\ op'.rev = op.rev /\ op'.durable = op.durable /\ op'.fatal = op.fatal
        /\ op'.agent = op.agent /\ op'.task = t /\ op'.orig = op.orig /\ op'.snap = op.snap
        /\ op'.bumped = op.bumped /\ op'.kind = op.kind /\ op'.demote = op.demote
        /\ op'.drop = op.drop
    <3> HIDE DEF pc
    <3> QED BY <1>1, <2>1 DEF Operations
  <2>3. t \notin disturbed /\ ~comp => MatchesSnapshot(card[t])
    <3> SUFFICES ASSUME t \notin disturbed, ~comp PROVE MatchesSnapshot(card[t])
      OBVIOUS
    <3>1. CASE op.kind = "claim" /\ "claim" \in op.durable
      <4>1. Holds(op.agent, t, {"doing"})
        BY <1>1, <1>4, <3>1, CardsAssumption DEF Holds
      <4>2. ~op.demote
        BY <3>1, <4>1
      <4> QED BY <1>6, <3>1, <4>1, <4>2 DEF ClaimApplied
    <3>2. CASE ~(op.kind = "claim" /\ "claim" \in op.durable)
      BY <1>1, <1>4, <3>2 DEF MatchesSnapshot
    <3> QED BY <3>1, <3>2
  <2>4. comp => op.kind = "claim" /\ "claim" \in op.durable
    OBVIOUS
  <2>5. pc \in {"compRelease", "recover"} /\ (pc = "compRelease" <=> comp)
    OBVIOUS
  <2> HIDE DEF pc, comp
  <2>6. MatchesSnapshot(card[t])' <=> MatchesSnapshot(card[t])
    BY <1>1, <1>2, <2>2 DEF MatchesSnapshot
  <2>7. TargetProgress'
    BY <1>1, <1>2, <1>4, <2>2, <2>3, <2>4, <2>5, <2>6 DEF TargetProgress
  <2>8. t \notin disturbed => Plain(card'[t])
    BY <1>1, <1>2 DEF AgreementInv, CardsPlain
  <2> QED
    BY <1>1, <1>2, <2>2, <2>5, <2>7, <2>8, MiddleStep
<1> QED
  BY <1>5, <1>6

LEMMA InvCompensateRelease ==
  ASSUME AgreementInv, NEW o \in Outcomes, CompensateRelease(o) PROVE AgreementInv'
<1> USE InvTypes
<1> DEFINE t == op.task
<1>1. /\ TypeInv' /\ TypeOK /\ ~Idle /\ op \in Operations /\ op.pc = "compRelease"
      /\ op.kind = "claim"
  BY TypeCompensation DEF AgreementInv, TypeInv, TypeOK, CompensateRelease, Idle, StepShape
<1>2. UNCHANGED <<agent, disturbed, broken>>
  BY DEF CompensateRelease, history
<1>3. /\ \A c \in Cards \ {t} : card'[c] = card[c]
      /\ card'[t] = IF Lands(t, o) THEN Apply(card[t], ReleaseEvent(op.agent, op.rev)) ELSE card[t]
  BY <1>1, MirrorCard DEF CompensateRelease
<1>4. ASSUME t \notin disturbed
      PROVE  /\ Plain(card'[t])
             /\ o # "before" => card'[t].owner = None /\ card'[t].status = "backlog"
  <2>1. Plain(card[t]) /\ card[t].owner = op.agent /\ card[t].rev = op.rev
    BY <1>1, <1>4 DEF AgreementInv, CardsPlain, TargetProgress
  <2>2. LET n == Apply(card[t], ReleaseEvent(op.agent, op.rev))
        IN  Plain(n) /\ n.owner = None /\ n.status = "backlog"
    BY <1>1, <2>1, PlainRelease
  <2> QED
    BY <1>3, <2>1, <2>2 DEF Lands, Plain
<1>5. \/ op' = [op EXCEPT !.pc = "recover", !.fatal = TRUE]
      \/ /\ o # "before"
         /\ op' = [op EXCEPT !.pc = IF op.snap.owner # None THEN "compReclaim" ELSE "compMove"]
  BY DEF CompensateRelease, CompensationFailed
<1>6. /\ op'.agent = op.agent /\ op'.task = t /\ op'.orig = op.orig /\ op'.snap = op.snap
      /\ op'.bumped = op.bumped /\ op'.kind = op.kind /\ op'.demote = op.demote
      /\ op'.drop = op.drop
      /\ \/ op'.pc = "recover" /\ op'.fatal
         \/ op'.pc = "compReclaim" /\ o # "before"
         \/ op'.pc = "compMove" /\ op.snap.owner = None /\ o # "before"
  BY <1>1, <1>5 DEF Operations
<1>7. TargetProgress'
  BY <1>1, <1>2, <1>4, <1>6 DEF TargetProgress
<1> QED
  BY <1>1, <1>2, <1>3, <1>4, <1>6, <1>7, MiddleStep

LEMMA InvCompensateReclaim ==
  ASSUME AgreementInv, NEW o \in Outcomes, CompensateReclaim(o) PROVE AgreementInv'
<1> USE InvTypes
<1> DEFINE t == op.task
           r == nrev + 1
<1>1. /\ TypeInv' /\ TypeOK /\ ~Idle /\ op \in Operations /\ op.pc = "compReclaim"
      /\ op.kind = "claim" /\ op.snap.owner # None
  BY TypeCompensation DEF AgreementInv, TypeInv, TypeOK, CompensateReclaim, Idle, StepShape
<1>2. UNCHANGED <<agent, disturbed, broken>>
  BY DEF CompensateReclaim, history
<1>3. /\ \A c \in Cards \ {t} : card'[c] = card[c]
      /\ card'[t] = IF Lands(t, o) THEN Apply(card[t], ClaimEvent(op.snap.owner, r)) ELSE card[t]
  BY <1>1, MirrorCard DEF CompensateReclaim
<1>4. ASSUME t \notin disturbed
      PROVE  /\ Plain(card'[t])
             /\ o = "ok" => card'[t].owner = op.snap.owner /\ card'[t].status = "doing"
  <2>1. Plain(card[t]) /\ card[t].owner = None
    BY <1>1, <1>4 DEF AgreementInv, CardsPlain, TargetProgress
  <2>2. op.snap.owner \in Agents /\ ~ClaimCollides(card[t], op.snap.owner) /\ r \in Nat \ {0}
    BY <1>1, <2>1 DEF ClaimCollides, CardStates, TypeOK
  <2> HIDE DEF r
  <2>3. LET n == Apply(card[t], ClaimEvent(op.snap.owner, r))
        IN  Plain(n) /\ n.owner = op.snap.owner /\ n.status = "doing"
    BY <1>1, <2>1, <2>2, PlainClaim
  <2> QED
    BY <1>3, <2>1, <2>3 DEF Lands, Plain
<1>5. \/ op' = [op EXCEPT !.pc = "recover", !.fatal = TRUE]
      \/ o = "ok" /\ op' = [op EXCEPT !.pc = "compMove"]
  BY DEF CompensateReclaim, CompensationFailed
<1>6. /\ op'.agent = op.agent /\ op'.task = t /\ op'.orig = op.orig /\ op'.snap = op.snap
      /\ op'.bumped = op.bumped /\ op'.kind = op.kind /\ op'.demote = op.demote
      /\ op'.drop = op.drop
      /\ \/ op'.pc = "recover" /\ op'.fatal
         \/ op'.pc = "compMove" /\ o = "ok"
  BY <1>1, <1>5 DEF Operations
<1>7. TargetProgress'
  BY <1>1, <1>2, <1>4, <1>6 DEF TargetProgress
<1> HIDE DEF r
<1> QED
  BY <1>1, <1>2, <1>3, <1>4, <1>6, <1>7, MiddleStep

LEMMA InvCompensateMove ==
  ASSUME AgreementInv, NEW o \in Outcomes, CompensateMove(o) PROVE AgreementInv'
<1> USE InvTypes
<1> DEFINE t == op.task
           col == op.snap.status
<1>1. /\ TypeInv' /\ TypeOK /\ ~Idle /\ op \in Operations /\ op.pc = "compMove"
      /\ op.kind = "claim" /\ col \in Columns
  BY TypeCompensation DEF AgreementInv, TypeInv, TypeOK, CompensateMove, Idle, StepShape, CardStates
<1>2. UNCHANGED <<agent, disturbed, broken>>
  BY DEF CompensateMove, history
<1>3. /\ \A c \in Cards \ {t} : card'[c] = card[c]
      /\ card'[t] = card[t] \/ card'[t] = Apply(card[t], MoveEvent(col))
  <2>1. CASE card[t].status # col
    BY <1>1, <2>1, MirrorCard DEF CompensateMove
  <2>2. CASE card[t].status = col
    BY <2>2 DEF CompensateMove
  <2> QED BY <2>1, <2>2
<1>4. ASSUME t \notin disturbed PROVE Plain(card'[t])
  <2>1. Plain(card[t]) /\ Plain(op.snap) /\ (card[t].owner = None <=> op.snap.owner = None)
    BY <1>1, <1>4 DEF AgreementInv, CardsPlain, TargetProgress, RollbackAgrees
  <2>2. col # "review" /\ (card[t].owner = None <=> col \in {"backlog", "done"})
    BY <2>1 DEF Plain
  <2>3. Plain(Apply(card[t], MoveEvent(col)))
    <3> HIDE DEF col
    <3> QED BY <1>1, <2>1, <2>2, PlainMove
  <2> QED
    BY <1>3, <2>1, <2>3
<1>5. \/ op' = [op EXCEPT !.pc = "recover", !.fatal = TRUE]
      \/ MatchesSnapshot(card'[t]) /\ op' = [op EXCEPT !.pc = "recover"]
  BY DEF CompensateMove, CompensationFailed
<1>6. /\ op'.agent = op.agent /\ op'.task = t /\ op'.orig = op.orig /\ op'.snap = op.snap
      /\ op'.bumped = op.bumped /\ op'.kind = op.kind /\ op'.demote = op.demote
      /\ op'.drop = op.drop /\ op'.pc = "recover"
      /\ op'.fatal \/ MatchesSnapshot(card'[t])
  BY <1>1, <1>5 DEF Operations
<1>7. TargetProgress'
  <2>1. op'.fatal \/ MatchesSnapshot(card[t])'
    BY <1>6 DEF MatchesSnapshot
  <2> QED
    BY <1>1, <1>2, <1>6, <2>1 DEF TargetProgress
<1> HIDE DEF col
<1> QED
  BY <1>1, <1>2, <1>3, <1>4, <1>6, <1>7, MiddleStep

LEMMA InvMirrorRelease ==
  ASSUME AgreementInv, NEW o \in Outcomes, MirrorRelease(o) PROVE AgreementInv'
<1> USE InvTypes
<1> DEFINE t == op.task
           landed == IF Lands(t, o) THEN {"release"} ELSE {}
<1>1. /\ TypeInv' /\ TypeOK /\ ~Idle /\ op \in Operations /\ op.pc = "release"
      /\ op.kind = "release"
  BY TypeMirrorRelease DEF AgreementInv, TypeInv, TypeOK, MirrorRelease, Idle, StepShape
<1>2. UNCHANGED <<agent, disturbed, broken>>
  BY DEF MirrorRelease, history
<1>3. /\ \A c \in Cards \ {t} : card'[c] = card[c]
      /\ card'[t] = IF Lands(t, o) THEN Apply(card[t], ReleaseEvent(op.agent, op.rev)) ELSE card[t]
  BY <1>1, MirrorCard DEF MirrorRelease
<1>4. ASSUME t \notin disturbed
      PROVE  /\ Plain(card'[t])
             /\ op.snap.owner = op.agent /\ op.snap.rev = op.rev
             /\ IF Lands(t, o)
                THEN card'[t].owner = None /\ card'[t].status = "backlog" /\ card'[t].rev = NoRev
                ELSE card'[t] = op.snap
  <2>1. Plain(card[t]) /\ card[t] = op.snap /\ op.snap.owner = op.agent /\ op.snap.rev = op.rev
    BY <1>1, <1>4 DEF AgreementInv, CardsPlain, TargetProgress
  <2>2. LET n == Apply(card[t], ReleaseEvent(op.agent, op.rev))
        IN  Plain(n) /\ n.owner = None /\ n.status = "backlog" /\ n.rev = NoRev
    BY <1>1, <2>1, PlainRelease
  <2> QED
    BY <1>3, <2>1, <2>2
<1>5. op' = [op EXCEPT !.pc = "checkRelease", !.durable = landed]
  BY DEF MirrorRelease
<1>6. "release" \in landed <=> Lands(t, o)
  OBVIOUS
<1> HIDE DEF landed
<1>7. /\ op'.agent = op.agent /\ op'.task = t /\ op'.orig = op.orig /\ op'.snap = op.snap
      /\ op'.bumped = op.bumped /\ op'.kind = op.kind /\ op'.demote = op.demote
      /\ op'.drop = op.drop /\ op'.pc = "checkRelease" /\ op'.rev = op.rev /\ op'.durable = landed
  BY <1>1, <1>5 DEF Operations
<1>8. TargetProgress'
  BY <1>1, <1>2, <1>4, <1>6, <1>7 DEF TargetProgress
<1> QED
  BY <1>1, <1>2, <1>3, <1>4, <1>7, <1>8, MiddleStep

LEMMA InvCheckRelease == ASSUME AgreementInv, CheckRelease PROVE AgreementInv'
<1> USE InvTypes
<1> DEFINE t == op.task
<1>1. /\ TypeInv' /\ TypeOK /\ ~Idle /\ op \in Operations /\ op.pc = "checkRelease"
      /\ op.kind = "release"
  BY TypeJudgements DEF AgreementInv, TypeInv, TypeOK, CheckRelease, Idle, StepShape
<1>2. UNCHANGED <<card, agent, disturbed, broken>> /\ Exempt' = Exempt
  BY DEF CheckRelease, store, history, Exempt
<1>3. CardsPlain'
  BY <1>2 DEF AgreementInv, CardsPlain
<1>4. ASSUME t \notin disturbed
      PROVE  /\ op.snap.owner = op.agent /\ op.snap.rev = op.rev
             /\ "release" \in op.durable =>
                  card[t].owner = None /\ card[t].status = "backlog" /\ card[t].rev = NoRev
             /\ "release" \notin op.durable => card[t] = op.snap
  BY <1>1, <1>4 DEF AgreementInv, TargetProgress
<1>5. CASE ReleaseApplied
  <2>1. op' = NoOperation
    BY <1>5 DEF CheckRelease, Return
  <2>2. ASSUME NEW c \in Cards \ Exempt PROVE AgreesIn(agent, card[c], c)
    <3>1. CASE c # t
      BY <1>1, <3>1, OthersAgree
    <3>2. CASE c = t
      <4>1. AgreesIn([agent EXCEPT ![op.agent] = op.orig], op.snap, t) /\ Plain(op.snap)
        BY <1>1, <3>2 DEF AgreementInv, RollbackAgrees, Rolled, Exempt
      <4>2. agent[op.agent] = [current |-> IF op.orig.current = t THEN None ELSE op.orig.current,
                               claimed |-> op.orig.claimed \ {t}, completed |-> op.orig.completed]
        BY <1>1 DEF AgreementInv, Projected
      <4>3. card[t].owner = None /\ card[t].status = "backlog" /\ op.snap.owner = op.agent
        BY <1>4, <1>5, <3>2 DEF ReleaseApplied, Exempt
      <4> QED
        BY <1>1, <3>2, <4>1, <4>2, <4>3, ReleaseAgrees
    <3> QED BY <3>1, <3>2
  <2> QED
    BY <1>1, <1>2, <1>3, <2>1, <2>2, EndStep
<1>6. CASE ~ReleaseApplied
  <2>1. op' = [op EXCEPT !.pc = "recover"]
    BY <1>6 DEF CheckRelease
  <2>2. /\ op'.agent = op.agent /\ op'.task = t /\ op'.orig = op.orig /\ op'.snap = op.snap
        /\ op'.bumped = op.bumped /\ op'.kind = op.kind /\ op'.demote = op.demote
        /\ op'.drop = op.drop /\ op'.pc = "recover" /\ op'.rev = op.rev
    BY <1>1, <2>1 DEF Operations
  <2>3. t \notin disturbed => MatchesSnapshot(card[t])'
    BY <1>2, <1>4, <1>6, <2>2 DEF ReleaseApplied, MatchesSnapshot
  <2>4. TargetProgress'
    BY <1>1, <1>2, <1>4, <2>2, <2>3 DEF TargetProgress
  <2>5. t \notin disturbed => Plain(card'[t])
    BY <1>1, <1>2 DEF AgreementInv, CardsPlain
  <2> QED
    BY <1>1, <1>2, <2>2, <2>4, <2>5, MiddleStep
<1> QED
  BY <1>5, <1>6

\* A completion that is folded agrees with the projection it saved.
LEMMA CompletedTarget ==
  ASSUME AgreementInv, ~Idle, op.task \notin Exempt, op.kind = "complete", op.pc # "return",
         NEW k \in CardStates, k.owner = None, k.status = "done"
  PROVE  AgreesIn(agent, k, op.task)
<1> USE InvTypes
<1>1. /\ agent[op.agent].claimed = op.orig.claimed \ {op.task}
      /\ agent[op.agent].completed = op.orig.completed \cup {op.task}
      /\ agent[op.agent].current # op.task
  BY DEF AgreementInv, Projected
<1>2. AgreesIn([agent EXCEPT ![op.agent] = op.orig], op.snap, op.task)
  BY DEF AgreementInv, RollbackAgrees, Rolled
<1>3. op.snap.owner \in {None, op.agent}
  BY DEF AgreementInv, TargetProgress, Exempt
<1> QED
  BY <1>1, <1>2, <1>3, CompleteAgrees

LEMMA InvMirrorComplete ==
  ASSUME AgreementInv, NEW o \in Outcomes, MirrorComplete(o) PROVE AgreementInv'
<1> USE InvTypes
<1> DEFINE t == op.task
           landed == IF Lands(t, o) THEN {"complete"} ELSE {}
<1>1. /\ TypeInv' /\ TypeOK /\ ~Idle /\ op \in Operations /\ op.pc = "complete"
      /\ op.kind = "complete"
  BY TypeMirrorComplete DEF AgreementInv, TypeInv, TypeOK, MirrorComplete, Idle, StepShape
<1>2. UNCHANGED <<agent, disturbed, broken>> /\ Exempt' = Exempt
  BY DEF MirrorComplete, history, Exempt
<1>3. /\ \A c \in Cards \ {t} : card'[c] = card[c]
      /\ card'[t] = IF Lands(t, o) THEN Apply(card[t], CompleteEvent) ELSE card[t]
  BY <1>1, MirrorCard DEF MirrorComplete
<1>4. ASSUME t \notin disturbed
      PROVE  /\ Plain(card'[t]) /\ op.snap.owner \in {None, op.agent}
             /\ IF Lands(t, o) THEN card'[t].owner = None /\ card'[t].status = "done"
                ELSE card'[t] = op.snap
  <2>1. Plain(card[t]) /\ card[t] = op.snap /\ op.snap.owner \in {None, op.agent}
    BY <1>1, <1>4 DEF AgreementInv, CardsPlain, TargetProgress
  <2>2. LET n == Apply(card[t], CompleteEvent)
        IN  Plain(n) /\ n.owner = None /\ n.status = "done"
    BY <1>1, <2>1, PlainComplete
  <2> QED
    BY <1>3, <2>1, <2>2
<1>5. CASE op' = [op EXCEPT !.pc = "judgeComplete", !.durable = landed]
  <2>1. "complete" \in landed <=> Lands(t, o)
    OBVIOUS
  <2> HIDE DEF landed
  <2>2. /\ op'.agent = op.agent /\ op'.task = t /\ op'.orig = op.orig /\ op'.snap = op.snap
        /\ op'.bumped = op.bumped /\ op'.kind = op.kind /\ op'.demote = op.demote
        /\ op'.drop = op.drop /\ op'.pc = "judgeComplete" /\ op'.durable = landed
    BY <1>1, <1>5 DEF Operations
  <2>3. TargetProgress'
    BY <1>1, <1>2, <1>4, <2>1, <2>2 DEF TargetProgress
  <2> QED
    BY <1>1, <1>2, <1>3, <1>4, <2>2, <2>3, MiddleStep
<1>6. CASE Return("ok") /\ ~Raises(t, o)
  <2>1. Lands(t, o) /\ op' = NoOperation
    BY <1>6 DEF Raises, Lands, Return
  <2>2. CardsPlain'
    BY <1>1, <1>2, <1>3, <1>4 DEF AgreementInv, CardsPlain
  <2>3. ASSUME NEW c \in Cards \ Exempt' PROVE AgreesIn(agent', card'[c], c)
    <3>1. CASE c # t
      BY <1>1, <1>2, <1>3, <3>1, OthersAgree
    <3>2. CASE c = t
      <4>1. card'[t] \in CardStates
        BY <1>1 DEF TypeInv, TypeOK
      <4> QED
        BY <1>1, <1>2, <1>4, <2>1, <3>2, <4>1, CompletedTarget DEF Exempt
    <3> QED BY <3>1, <3>2
  <2> QED
    BY <1>1, <2>1, <2>2, <2>3, EndStep
<1>7. \/ op' = [op EXCEPT !.pc = "judgeComplete", !.durable = landed]
      \/ Return("ok") /\ ~Raises(t, o)
  BY DEF MirrorComplete
<1> QED
  BY <1>5, <1>6, <1>7

LEMMA InvJudgeComplete == ASSUME AgreementInv, JudgeComplete PROVE AgreementInv'
<1> USE InvTypes
<1> DEFINE t == op.task
           applied == "complete" \in op.durable /\ card[t].owner = None /\ card[t].status = "done"
<1>1. /\ TypeInv' /\ TypeOK /\ ~Idle /\ op \in Operations /\ op.pc = "judgeComplete"
      /\ op.kind = "complete"
  BY TypeJudgements DEF AgreementInv, TypeInv, TypeOK, JudgeComplete, Idle, StepShape
<1>2. UNCHANGED <<card, agent, disturbed, broken>> /\ Exempt' = Exempt
  BY DEF JudgeComplete, store, history, Exempt
<1>3. CardsPlain'
  BY <1>2 DEF AgreementInv, CardsPlain
<1>4. CASE applied
  <2>1. op' = NoOperation
    BY <1>4 DEF JudgeComplete, Return
  <2>2. ASSUME NEW c \in Cards \ Exempt PROVE AgreesIn(agent, card[c], c)
    <3>1. CASE c # t
      BY <1>1, <3>1, OthersAgree
    <3>2. CASE c = t
      BY <1>1, <1>4, <3>2, CompletedTarget
    <3> QED BY <3>1, <3>2
  <2> QED
    BY <1>1, <1>2, <1>3, <2>1, <2>2, EndStep
<1>5. CASE ~applied
  <2>1. op' = [op EXCEPT !.pc = "recover"]
    BY <1>5 DEF JudgeComplete
  <2>2. /\ op'.agent = op.agent /\ op'.task = t /\ op'.orig = op.orig /\ op'.snap = op.snap
        /\ op'.bumped = op.bumped /\ op'.kind = op.kind /\ op'.demote = op.demote
        /\ op'.drop = op.drop /\ op'.pc = "recover"
    BY <1>1, <2>1 DEF Operations
  <2>3. t \notin disturbed => card[t] = op.snap /\ op.snap.owner \in {None, op.agent}
    BY <1>1, <1>5 DEF AgreementInv, TargetProgress
  <2>4. t \notin disturbed => MatchesSnapshot(card[t])'
    BY <1>2, <2>2, <2>3 DEF MatchesSnapshot
  <2>5. TargetProgress'
    BY <1>1, <1>2, <2>2, <2>3, <2>4 DEF TargetProgress
  <2>6. t \notin disturbed => Plain(card'[t])
    BY <1>1, <1>2 DEF AgreementInv, CardsPlain
  <2> QED
    BY <1>1, <1>2, <2>2, <2>5, <2>6, MiddleStep
<1> QED
  BY <1>4, <1>5

LEMMA InvReturnExisting == ASSUME AgreementInv, ReturnExisting PROVE AgreementInv'
<1> USE InvTypes
<1>1. TypeInv' /\ ~Idle /\ op.pc = "return"
  BY TypeJudgements DEF AgreementInv, TypeInv, ReturnExisting, Idle
<1>2. UNCHANGED <<card, agent, disturbed, broken>> /\ op' = NoOperation /\ Exempt' = Exempt
  BY DEF ReturnExisting, Return, store, history, Exempt
<1>3. CardsPlain'
  BY <1>2 DEF AgreementInv, CardsPlain
<1>4. \A c \in Cards \ Exempt : AgreesIn(agent, card[c], c)
  <2>1. Rolled = agent
    BY <1>1, NothingSaved
  <2> QED
    BY <1>1, <2>1 DEF AgreementInv, RollbackAgrees, TargetProgress, Exempt
<1> QED
  BY <1>1, <1>2, <1>3, <1>4, EndStep

\* An event from outside touches only a card the invariant then gives up.
LEMMA InvDisturb ==
  ASSUME AgreementInv, NEW d \in Cards, NEW e \in OverlayEvents \cup StoreEvents, Disturb(d, e)
  PROVE  AgreementInv'
<1>1. TypeInv' /\ TypeOK
  BY TypeDisturb DEF AgreementInv, TypeInv
<1>2. /\ UNCHANGED <<agent, op, broken>> /\ disturbed' = disturbed \cup {d}
      /\ \A c \in Cards \ {d} : card'[c] = card[c]
  BY <1>1 DEF Disturb, TypeOK
<1>3. Exempt' = Exempt \cup {d} /\ Rolled' = Rolled /\ (Idle' <=> Idle)
  BY <1>2 DEF Exempt, Rolled, Idle
<1>4. CardsPlain' /\ Agreement'
  BY <1>2, <1>3 DEF AgreementInv, CardsPlain, Agreement
<1>5. RollbackAgrees' /\ Projected'
  BY <1>2, <1>3 DEF AgreementInv, RollbackAgrees, Projected
<1>6. TargetProgress'
  <2>1. CASE Idle \/ op.task \in disturbed'
    BY <1>2, <1>3, <2>1 DEF TargetProgress
  <2>2. CASE ~Idle /\ op.task \notin disturbed'
    <3>1. card'[op.task] = card[op.task] /\ op.task \notin disturbed
      BY <1>2, <2>2, InvTypes
    <3>2. MatchesSnapshot(card[op.task])' <=> MatchesSnapshot(card[op.task])
      BY <1>2, <3>1 DEF MatchesSnapshot
    <3> QED
      BY <1>2, <2>2, <3>1, <3>2 DEF AgreementInv, TargetProgress
  <2> QED BY <2>1, <2>2
<1>7. BumpFacts'
  BY <1>2, <1>3 DEF AgreementInv, BumpFacts
<1> QED
  BY <1>1, <1>4, <1>5, <1>6, <1>7 DEF AgreementInv, TypeInv

LEMMA InvStep == ASSUME AgreementInv, [Next]_vars PROVE AgreementInv'
<1>1. CASE Call
  BY <1>1, InvClaimTask, InvReleaseClaim, InvCompleteTask, InvCompleteAgain DEF Call
<1>2. CASE Continue
  BY <1>2, InvClaimProject, InvDemoteNothing, InvJudgeClaim, InvCheckRelease, InvJudgeComplete,
     InvReturnExisting, InvMirrorClaim, InvMirrorDemote, InvCompensateRelease,
     InvCompensateReclaim, InvCompensateMove, InvRecover, InvMirrorRelease, InvMirrorComplete
     DEF Continue
<1>3. CASE Environment
  BY <1>3, InvDisturb, InvCrash DEF Environment, Overlay, StoreEvent
<1>4. CASE UNCHANGED vars
  <2>1. UNCHANGED <<card, agent, op, result, nrev, faults, disturb, disturbed, broken>>
    BY <1>4 DEF vars
  <2>2. TypeOK' /\ CardsPlain' /\ StepShape' /\ Agreement'
    BY <2>1 DEF AgreementInv, TypeOK, CardsPlain, StepShape, Agreement, Idle, Exempt
  <2>3. RollbackAgrees' /\ Projected'
    BY <2>1 DEF AgreementInv, RollbackAgrees, Rolled, Projected, Idle, Exempt
  <2>4. TargetProgress' /\ BumpFacts'
    BY <2>1 DEF AgreementInv, TargetProgress, MatchesSnapshot, BumpFacts, Idle, Exempt
  <2> QED
    BY <2>2, <2>3, <2>4 DEF AgreementInv
<1> QED
  BY <1>1, <1>2, <1>3, <1>4 DEF Next

\* The central result: for every set of agents and cards and any number of
\* failed writes, crashes and outside events, the agent projections and the
\* card store agree whenever no operation is in flight, on every card that was
\* neither changed from outside nor hit by a crash or a failed recovery.
THEOREM AgreementHolds == Spec => []Agreement
<1>1. Spec => []AgreementInv
  BY InvInit, InvStep, PTL DEF Spec
<1>2. AgreementInv => Agreement
  BY DEF AgreementInv
<1> QED
  BY <1>1, <1>2, PTL

-----------------------------------------------------------------------------
(* What one step may do to a card nobody outside the protocol touched *)

\* Card c leaves the state k for n in a step of the operation in flight.
Effect(c, k, n) ==
  \/ /\ op.pc = "claim" /\ c = op.task /\ k.status # "done"
     /\ k.owner \in {None, op.agent} /\ n.owner = op.agent /\ n.status = "doing"
  \/ /\ op.pc = "demote" /\ c = op.bumped /\ k.owner = op.agent
     /\ k.status \in {"ready", "doing"} /\ n.owner = op.agent /\ n.status = "ready"
  \/ /\ op.pc \in {"compRelease", "release"} /\ c = op.task /\ k.owner = op.agent
     /\ k.status \in {"ready", "doing"} /\ n.owner = None /\ n.status = "backlog"
  \/ /\ op.pc = "compReclaim" /\ c = op.task /\ k.owner = None /\ k.status = "backlog"
     /\ n.owner = op.snap.owner /\ n.status = "doing"
  \/ /\ op.pc = "compMove" /\ c = op.task /\ n.owner = k.owner
     /\ k.status \in {"backlog", "doing"} /\ n.status = op.snap.status
  \/ /\ op.pc = "complete" /\ c = op.task /\ k.owner \in {None, op.agent}
     /\ n.owner = None /\ n.status = "done"

LEMMA EffectMirrorClaim ==
  ASSUME AgreementInv, NEW o \in Outcomes, MirrorClaim(o), NEW c \in Cards \ disturbed',
         card'[c] # card[c]
  PROVE  Effect(c, card[c], card'[c])
<1> USE InvTypes
<1> DEFINE r == nrev + 1
<1>1. ~Idle /\ TypeOK /\ op.pc = "claim" /\ op.kind = "claim" /\ disturbed' = disturbed
  BY DEF AgreementInv, MirrorClaim, Idle, StepShape, history
<1>2. c = op.task /\ card'[c] = Apply(card[c], ClaimEvent(op.agent, r))
  BY <1>1, MirrorCard DEF MirrorClaim
<1>3. Plain(card[c]) /\ ~ClaimCollides(card[c], op.agent) /\ card[c].status # "done"
  BY <1>1, <1>2 DEF AgreementInv, CardsPlain, TargetProgress
<1>4. card[c].owner \in {None, op.agent}
  BY <1>1, <1>3 DEF Plain, ClaimCollides, ActiveColumns, CardStates, Columns
<1>5. r \in Nat \ {0}
  BY <1>1 DEF TypeOK
<1> HIDE DEF r
<1>6. card'[c].owner = op.agent /\ card'[c].status = "doing"
  BY <1>1, <1>2, <1>3, <1>5, PlainClaim
<1> QED
  BY <1>1, <1>2, <1>3, <1>4, <1>6 DEF Effect

LEMMA EffectMirrorDemote ==
  ASSUME AgreementInv, NEW o \in Outcomes, MirrorDemote(o), NEW c \in Cards \ disturbed',
         card'[c] # card[c]
  PROVE  Effect(c, card[c], card'[c])
<1> USE InvTypes
<1>1. /\ ~Idle /\ TypeOK /\ op.pc = "demote" /\ op.demote /\ op.kind \in {"claim", "refocus"}
      /\ disturbed' = disturbed /\ op.bumped \in Cards
  BY DEF AgreementInv, MirrorDemote, Idle, StepShape, history, Task
<1>2. c = op.bumped /\ card'[c] = Apply(card[c], MoveEvent("ready"))
  BY <1>1, MirrorCard DEF MirrorDemote
<1>3. Plain(card[c]) /\ card[c].owner = op.agent /\ card[c].status \in {"ready", "doing"}
  BY <1>1, <1>2 DEF AgreementInv, CardsPlain, BumpFacts
<1>4. card'[c].owner = op.agent /\ card'[c].status = "ready"
  BY <1>1, <1>2, <1>3, PlainMove, NoneAssumption DEF Columns
<1> QED
  BY <1>1, <1>2, <1>3, <1>4 DEF Effect

LEMMA EffectReleases ==
  ASSUME AgreementInv, NEW o \in Outcomes, CompensateRelease(o) \/ MirrorRelease(o),
         NEW c \in Cards \ disturbed', card'[c] # card[c]
  PROVE  Effect(c, card[c], card'[c])
<1> USE InvTypes
<1>1. /\ ~Idle /\ TypeOK /\ op.pc \in {"compRelease", "release"} /\ disturbed' = disturbed
      /\ (op.pc = "release" => op.kind = "release")
  BY DEF AgreementInv, CompensateRelease, MirrorRelease, Idle, StepShape, history
<1>2. c = op.task /\ card'[c] = Apply(card[c], ReleaseEvent(op.agent, op.rev))
  BY <1>1, MirrorCard DEF CompensateRelease, MirrorRelease
<1>3. Plain(card[c]) /\ card[c].owner = op.agent /\ card[c].rev = op.rev
  BY <1>1, <1>2 DEF AgreementInv, CardsPlain, TargetProgress
<1>4. card[c].status \in {"ready", "doing"}
  BY <1>1, <1>3, NoneAssumption DEF Plain, CardStates, Columns
<1>5. card'[c].owner = None /\ card'[c].status = "backlog"
  BY <1>1, <1>2, <1>3, PlainRelease
<1> QED
  BY <1>1, <1>2, <1>3, <1>4, <1>5 DEF Effect

LEMMA EffectCompensateReclaim ==
  ASSUME AgreementInv, NEW o \in Outcomes, CompensateReclaim(o), NEW c \in Cards \ disturbed',
         card'[c] # card[c]
  PROVE  Effect(c, card[c], card'[c])
<1> USE InvTypes
<1> DEFINE r == nrev + 1
<1>1. ~Idle /\ TypeOK /\ op.pc = "compReclaim" /\ disturbed' = disturbed /\ op.snap.owner # None
  BY DEF AgreementInv, CompensateReclaim, Idle, StepShape, history
<1>2. c = op.task /\ card'[c] = Apply(card[c], ClaimEvent(op.snap.owner, r))
  BY <1>1, MirrorCard DEF CompensateReclaim
<1>3. Plain(card[c]) /\ card[c].owner = None /\ card[c].status = "backlog"
  BY <1>1, <1>2 DEF AgreementInv, CardsPlain, TargetProgress
<1>4. op.snap.owner \in Agents /\ ~ClaimCollides(card[c], op.snap.owner)
  BY <1>1, <1>3 DEF ClaimCollides, CardStates
<1>5. r \in Nat \ {0}
  BY <1>1 DEF TypeOK
<1> HIDE DEF r
<1>6. card'[c].owner = op.snap.owner /\ card'[c].status = "doing"
  BY <1>1, <1>2, <1>3, <1>4, <1>5, PlainClaim
<1> QED
  BY <1>1, <1>2, <1>3, <1>6 DEF Effect

LEMMA EffectCompensateMove ==
  ASSUME AgreementInv, NEW o \in Outcomes, CompensateMove(o), NEW c \in Cards \ disturbed',
         card'[c] # card[c]
  PROVE  Effect(c, card[c], card'[c])
<1> USE InvTypes
<1> DEFINE col == op.snap.status
<1>1. /\ ~Idle /\ TypeOK /\ op.pc = "compMove" /\ disturbed' = disturbed
      /\ op.snap \in CardStates /\ col \in Columns
  BY DEF AgreementInv, CompensateMove, Idle, history, CardStates
<1>2. c = op.task /\ card'[c] = Apply(card[c], MoveEvent(col))
  <2>1. card[op.task].status # col
    BY DEF CompensateMove
  <2> QED BY <1>1, <2>1, MirrorCard DEF CompensateMove
<1>3. /\ Plain(card[c]) /\ Plain(op.snap) /\ card[c].status \in {"backlog", "doing"}
      /\ (card[c].owner = None <=> op.snap.owner = None)
  BY <1>1, <1>2 DEF AgreementInv, CardsPlain, TargetProgress, RollbackAgrees
<1>4. col # "review" /\ (card[c].owner = None <=> col \in {"backlog", "done"})
  BY <1>3 DEF Plain
<1>5. card'[c].owner = card[c].owner /\ card'[c].status = col
  <2> HIDE DEF col
  <2> QED BY <1>1, <1>2, <1>3, <1>4, PlainMove
<1> QED
  BY <1>1, <1>2, <1>3, <1>5 DEF Effect

LEMMA EffectMirrorComplete ==
  ASSUME AgreementInv, NEW o \in Outcomes, MirrorComplete(o), NEW c \in Cards \ disturbed',
         card'[c] # card[c]
  PROVE  Effect(c, card[c], card'[c])
<1> USE InvTypes
<1>1. ~Idle /\ TypeOK /\ op.pc = "complete" /\ op.kind = "complete" /\ disturbed' = disturbed
  BY DEF AgreementInv, MirrorComplete, Idle, StepShape, history
<1>2. c = op.task /\ card'[c] = Apply(card[c], CompleteEvent)
  BY <1>1, MirrorCard DEF MirrorComplete
<1>3. Plain(card[c]) /\ card[c].owner \in {None, op.agent}
  BY <1>1, <1>2 DEF AgreementInv, CardsPlain, TargetProgress
<1>4. card'[c].owner = None /\ card'[c].status = "done"
  BY <1>1, <1>2, <1>3, PlainComplete
<1> QED
  BY <1>1, <1>2, <1>3, <1>4 DEF Effect

\* The other steps leave the card store alone, or change a card that they put
\* among the disturbed ones.
LEMMA CardEffect ==
  ASSUME AgreementInv, [Next]_vars, NEW c \in Cards \ disturbed', card'[c] # card[c]
  PROVE  Effect(c, card[c], card'[c])
<1>1. CASE UNCHANGED card
  BY <1>1
<1>2. ASSUME NEW d \in Cards, NEW e, Disturb(d, e) PROVE FALSE
  BY <1>2 DEF Disturb, AgreementInv, TypeOK
<1>3. CASE Call
  BY <1>3, <1>1 DEF Call, ClaimTask, ReleaseClaim, CompleteTask, CompleteAgain, store
<1>4. CASE Continue
  <2>1. CASE ClaimProject \/ DemoteNothing \/ JudgeClaim \/ CheckRelease \/ JudgeComplete
             \/ ReturnExisting \/ \E o \in Outcomes : Recover(o)
    BY <2>1, <1>1 DEF ClaimProject, DemoteNothing, JudgeClaim, CheckRelease, JudgeComplete,
                      ReturnExisting, Recover, store
  <2> QED
    BY <1>4, <2>1, EffectMirrorClaim, EffectMirrorDemote, EffectReleases,
       EffectCompensateReclaim, EffectCompensateMove, EffectMirrorComplete DEF Continue
<1>5. CASE Environment
  BY <1>5, <1>1, <1>2 DEF Environment, Overlay, StoreEvent, Crash, store
<1> QED
  BY <1>1, <1>3, <1>4, <1>5 DEF Next, vars

\* An operation never takes an active card away from another agent
\* (claim_task's ownership check, the revision a release carries and
\* _assert_no_claim_conflict of complete_task), whatever fails on the way.
THEOREM NoTheftHolds == Spec => NoTheft
<1>1. Spec => []AgreementInv
  BY InvInit, InvStep, PTL DEF Spec
<1>2. ASSUME AgreementInv, [Next]_vars, NEW c \in Cards \ disturbed', card[c].owner # None,
             card[c].status \in ActiveColumns, card'[c].owner # card[c].owner
      PROVE  op.agent = card[c].owner
  BY <1>2, CardEffect DEF Effect, ActiveColumns
<1>3. AgreementInv /\ [Next]_vars =>
        [\A c \in Cards \ disturbed' :
           card[c].owner # None /\ card[c].status \in ActiveColumns
             /\ card'[c].owner # card[c].owner
           => op.agent = card[c].owner]_vars
  BY <1>2
<1> QED
  BY <1>1, <1>3, PTL DEF Spec, NoTheft

-----------------------------------------------------------------------------
(* What an operation carries through: its agent, task, snapshots and kind *)

LEMMA OpFrame ==
  ASSUME AgreementInv, [Next]_vars, ~Idle, ~Idle'
  PROVE  /\ op'.agent = op.agent /\ op'.task = op.task /\ op'.orig = op.orig
         /\ op'.snap = op.snap /\ op'.kind = op.kind /\ op'.demote = op.demote
         /\ op'.drop = op.drop
         /\ \/ op'.bumped = op.bumped
            \/ op.pc = "project" /\ op'.bumped = None
         /\ op' = op \/ op'.pc \notin {"project", "return"}
<1>1. op \in Operations
  BY DEF AgreementInv, TypeOK
<1>2. ASSUME NEW v, Return(v) PROVE FALSE
  BY <1>2 DEF Return, NoOperation, Idle
<1>3. CASE op' = op
  BY <1>3
<1>4. CASE ClaimProject
  BY <1>4, <1>1, <1>2 DEF ClaimProject, Operations
<1>5. CASE DemoteNothing \/ ReturnExisting \/ (\E o \in Outcomes : Recover(o)) \/ Crash
  BY <1>5, <1>2 DEF DemoteNothing, ReturnExisting, Recover, Crash
<1>6. CASE JudgeClaim \/ CheckRelease \/ JudgeComplete
  <2>1. \E pc \in {"compRelease", "recover"} : op' = [op EXCEPT !.pc = pc]
    BY <1>6, <1>2 DEF JudgeClaim, CheckRelease, JudgeComplete
  <2> QED BY <2>1, <1>1 DEF Operations
<1>7. ASSUME NEW o \in Outcomes, MirrorClaim(o)
      PROVE  \E pc \in {"judge", "demote"} : \E r, D :
               op' = [[op EXCEPT !.rev = r, !.durable = D] EXCEPT !.pc = pc]
  BY <1>7, <1>2 DEF MirrorClaim
<1>8. ASSUME NEW o \in Outcomes, MirrorDemote(o) \/ MirrorRelease(o) \/ MirrorComplete(o)
      PROVE  \E pc \in {"judge", "checkRelease", "judgeComplete"} : \E D :
               op' = [op EXCEPT !.pc = pc, !.durable = D]
  BY <1>8, <1>2 DEF MirrorDemote, MirrorRelease, MirrorComplete
<1>9. ASSUME NEW o \in Outcomes,
             CompensateRelease(o) \/ CompensateReclaim(o) \/ CompensateMove(o)
      PROVE  \/ \E pc \in {"compReclaim", "compMove", "recover"} : op' = [op EXCEPT !.pc = pc]
             \/ op' = [op EXCEPT !.pc = "recover", !.fatal = TRUE]
  BY <1>9 DEF CompensateRelease, CompensateReclaim, CompensateMove, CompensationFailed
<1>10. CASE Continue
  <2>1. CASE \E o \in Outcomes : MirrorClaim(o)
    BY <2>1, <1>7, <1>1 DEF Operations
  <2>2. CASE \E o \in Outcomes : MirrorDemote(o) \/ MirrorRelease(o) \/ MirrorComplete(o)
    BY <2>2, <1>8, <1>1 DEF Operations
  <2>3. CASE \E o \in Outcomes : CompensateRelease(o) \/ CompensateReclaim(o) \/ CompensateMove(o)
    BY <2>3, <1>9, <1>1 DEF Operations
  <2> QED
    BY <1>10, <1>4, <1>5, <1>6, <2>1, <2>2, <2>3 DEF Continue
<1>11. CASE Call
  BY <1>11 DEF Call, ClaimTask, ReleaseClaim, CompleteTask, CompleteAgain
<1>12. CASE Environment
  BY <1>12, <1>3, <1>5 DEF Environment, Overlay, StoreEvent, Disturb
<1> QED
  BY <1>3, <1>10, <1>11, <1>12 DEF Next, vars

\* A done card nobody disturbs stays done.
LEMMA DoneStays ==
  ASSUME AgreementInv, [Next]_vars, NEW c \in Cards \ disturbed', card[c].status = "done"
  PROVE  card'[c].status = "done"
<1>1. CASE card'[c] = card[c]
  BY <1>1
<1>2. CASE card'[c] # card[c]
  BY <1>2, CardEffect DEF Effect
<1> QED
  BY <1>1, <1>2

LEMMA ExemptGrows ==
  ASSUME [Next]_vars PROVE disturbed \subseteq disturbed' /\ Exempt \subseteq Exempt'
<1>1. CASE Call
  BY <1>1 DEF Call, ClaimTask, ReleaseClaim, CompleteTask, CompleteAgain, history, Exempt
<1>2. CASE Continue
  BY <1>2 DEF Continue, ClaimProject, DemoteNothing, JudgeClaim, CheckRelease, JudgeComplete,
              ReturnExisting, MirrorClaim, MirrorDemote, CompensateRelease, CompensateReclaim,
              CompensateMove, Recover, MirrorRelease, MirrorComplete, history, Exempt
<1>3. CASE Environment
  BY <1>3 DEF Environment, Overlay, StoreEvent, Disturb, Crash, history, Exempt
<1> QED
  BY <1>1, <1>2, <1>3 DEF Next, vars, Exempt

-----------------------------------------------------------------------------
(* The invariant behind the dependency gate, the results of the operations *)
(* and the refinement                                                      *)

\* A current task is a claimed one.
CurrentIsClaimed(f) == f.current # None => f.current \in f.claimed

ProjectionsCoherent ==
  (\A a \in Agents : CurrentIsClaimed(agent[a])) /\ CurrentIsClaimed(op.orig)

\* An operation that only returns what exists has found it in a projection.
FoundCompleted == op.pc = "return" => AlreadyCompleted(op.task)

\* An operation past its dependency gate still stands on done dependencies.
GatePassed ==
  op.kind \in {"claim", "complete"} /\ op.pc \notin {"project", "return"} =>
    \A d \in Deps[op.task] \ disturbed :
      card[d].status = "done" /\ (d = op.task => op.snap.status = "done")

\* How far the bumped task has moved.  Once the operation gives up, a bumped
\* task that is aside means a target the protocol does not answer for.
BumpProgress ==
  /\ op.demote => op.kind \in {"claim", "refocus"}
  /\ op.pc \in {"project", "demote"} => "demote" \notin op.durable
  /\ op.demote /\ op.bumped \in Cards \ disturbed =>
       LET k == card[op.bumped] IN
       /\ op.pc \in {"project", "claim", "demote"} => k.status = "doing"
       /\ op.pc = "judge" => k.status = IF "demote" \in op.durable THEN "ready" ELSE "doing"
       /\ op.pc = "judge" /\ "demote" \in op.durable /\ op.kind = "claim"
            /\ op.task \notin disturbed => "claim" \in op.durable
       /\ op.pc \in {"compRelease", "compReclaim", "compMove", "recover"} =>
            k.status = "doing" \/ op.task \in Exempt

BoardInv ==
  /\ AgreementInv
  /\ ProjectionsCoherent
  /\ FoundCompleted
  /\ DependencyGate
  /\ GatePassed
  /\ BumpProgress

LEMMA BoardInvInit == Init => BoardInv
<1> SUFFICES ASSUME Init PROVE BoardInv
  OBVIOUS
<1>1. AgreementInv
  BY InvInit
<1>2. ProjectionsCoherent /\ FoundCompleted /\ GatePassed /\ BumpProgress
  BY DEF Init, ProjectionsCoherent, CurrentIsClaimed, FoundCompleted, GatePassed, BumpProgress,
         NewAgent, NoOperation
<1>3. DependencyGate
  BY DEF Init, DependencyGate, NewCard
<1> QED
  BY <1>1, <1>2, <1>3 DEF BoardInv

\* The steps that write a projection or begin an operation keep every current
\* task among the claimed ones; the others restore or keep a coherent file.
LEMMA CoherentStep ==
  ASSUME BoardInv, [Next]_vars PROVE ProjectionsCoherent'
<1>1. /\ TypeOK /\ agent \in [Agents -> AgentFiles] /\ op \in Operations
      /\ \A a \in Agents : CurrentIsClaimed(agent[a])
      /\ CurrentIsClaimed(op.orig) /\ AgreementInv
  BY DEF BoardInv, AgreementInv, TypeOK, ProjectionsCoherent
<1>2. CurrentIsClaimed(op'.orig)
  <2>1. CASE Idle'
    BY <2>1, InvStep DEF Idle, BoardInv, AgreementInv, StepShape, NoOperation, NewAgent,
                         CurrentIsClaimed
  <2>2. CASE ~Idle /\ ~Idle'
    BY <2>2, <1>1, OpFrame
  <2>3. CASE Idle /\ ~Idle'
    <3>1. CASE Call
      BY <3>1, <1>1 DEF Call, ClaimTask, ReleaseClaim, CompleteTask, CompleteAgain, Started
    <3>2. CASE op' = op
      BY <3>2, <1>1
    <3>3. CASE Continue
      BY <3>3, <2>3 DEF Continue, Idle, ClaimProject, DemoteNothing, JudgeClaim, CheckRelease,
                 JudgeComplete, ReturnExisting, MirrorClaim, MirrorDemote, CompensateRelease,
                 CompensateReclaim, CompensateMove, Recover, MirrorRelease, MirrorComplete
    <3> QED
      BY <2>3, <3>1, <3>2, <3>3 DEF Next, vars, Environment, Overlay, StoreEvent, Disturb, Crash
  <2> QED
    BY <2>1, <2>2, <2>3
<1>3. CASE agent' = agent
  BY <1>1, <1>2, <1>3 DEF ProjectionsCoherent
<1>4. ASSUME NEW a \in Agents, NEW f, CurrentIsClaimed(f), agent' = [agent EXCEPT ![a] = f]
      PROVE  ProjectionsCoherent'
  BY <1>4, <1>1, <1>2 DEF ProjectionsCoherent
<1>5. ASSUME NEW a \in Agents, NEW c \in Cards, ReleaseClaim(a, c) PROVE ProjectionsCoherent'
  <2> DEFINE f == [current |-> IF agent[a].current = c THEN None ELSE agent[a].current,
                   claimed |-> agent[a].claimed \ {c}, completed |-> agent[a].completed]
  <2>1. agent' = [agent EXCEPT ![a] = f]
    BY <1>5, <1>1 DEF ReleaseClaim
  <2>2. CurrentIsClaimed(f)
    BY <1>1 DEF CurrentIsClaimed
  <2> HIDE DEF f
  <2> QED BY <2>1, <2>2, <1>4
<1>6. ASSUME NEW a \in Agents, NEW c \in Cards, CompleteTask(a, c) PROVE ProjectionsCoherent'
  <2>1. PICK next \in NextCurrent(agent[a], c) :
          agent' = [agent EXCEPT ![a] = [current |-> next, claimed |-> @.claimed \ {c},
                                         completed |-> @.completed \cup {c}]]
    BY <1>6 DEF CompleteTask
  <2> DEFINE f == [current |-> next, claimed |-> agent[a].claimed \ {c},
                   completed |-> agent[a].completed \cup {c}]
  <2>2. agent' = [agent EXCEPT ![a] = f]
    BY <2>1, <1>1
  <2>3. CurrentIsClaimed(f)
    BY <1>1 DEF CurrentIsClaimed, NextCurrent
  <2> HIDE DEF f
  <2> QED BY <2>2, <2>3, <1>4
<1>7. CASE ClaimProject
  <2>1. op.agent \in Agents
    BY <1>7, <1>1, InvTypes DEF ClaimProject, Idle
  <2>2. CASE \E D : agent' = [agent EXCEPT ![op.agent] =
                     [current |-> op.task, claimed |-> D \cup {op.task}, completed |-> @.completed]]
    <3>1. PICK D : agent' = [agent EXCEPT ![op.agent] =
                     [current |-> op.task, claimed |-> D \cup {op.task}, completed |-> @.completed]]
      BY <2>2
    <3> DEFINE f == [current |-> op.task, claimed |-> D \cup {op.task},
                     completed |-> agent[op.agent].completed]
    <3>2. agent' = [agent EXCEPT ![op.agent] = f] /\ CurrentIsClaimed(f)
      BY <3>1, <1>1, <2>1 DEF CurrentIsClaimed
    <3> HIDE DEF f
    <3> QED BY <2>1, <3>2, <1>4
  <2> QED
    BY <1>7, <1>3, <2>2 DEF ClaimProject
<1>8. ASSUME NEW o \in Outcomes, Recover(o) PROVE ProjectionsCoherent'
  <2>1. op.agent \in Agents
    BY <1>8, <1>1, InvTypes DEF Recover, Idle
  <2> QED
    BY <1>8, <1>1, <1>3, <1>4, <2>1 DEF Recover
<1>9. CASE Call
  BY <1>9, <1>3, <1>5, <1>6 DEF Call, ClaimTask, CompleteAgain
<1>10. CASE Continue
  BY <1>10, <1>3, <1>7, <1>8 DEF Continue, DemoteNothing, JudgeClaim, CheckRelease,
         JudgeComplete, ReturnExisting, MirrorClaim, MirrorDemote, CompensateRelease,
         CompensateReclaim, CompensateMove, MirrorRelease, MirrorComplete
<1>11. CASE Environment
  BY <1>11, <1>3 DEF Environment, Overlay, StoreEvent, Disturb, Crash
<1> QED
  BY <1>3, <1>9, <1>10, <1>11 DEF Next, vars

LEMMA FoundStep == ASSUME BoardInv, [Next]_vars PROVE FoundCompleted'
<1> SUFFICES ASSUME op'.pc = "return" PROVE AlreadyCompleted(op.task)'
  BY DEF FoundCompleted
<1>1. AgreementInv /\ ~Idle'
  BY DEF BoardInv, Idle
<1>2. CASE Idle /\ Call
  BY <1>2 DEF Call, ClaimTask, ReleaseClaim, CompleteTask, CompleteAgain, Started, AlreadyCompleted
<1>3. CASE ~Idle
  <2>1. op' = op /\ op.pc = "return"
    BY <1>1, <1>3, OpFrame
  <2>2. agent' = agent
    <3>1. CASE Continue
      BY <3>1, <2>1, <1>1 DEF Continue, ClaimProject, DemoteNothing, JudgeClaim, CheckRelease,
             JudgeComplete, ReturnExisting, MirrorClaim, MirrorDemote, CompensateRelease,
             CompensateReclaim, CompensateMove, Recover, MirrorRelease, MirrorComplete
    <3>2. CASE Call
      BY <3>2, <1>3 DEF Call, ClaimTask, ReleaseClaim, CompleteTask, CompleteAgain
    <3>3. CASE Environment
      BY <3>3 DEF Environment, Overlay, StoreEvent, Disturb, Crash
    <3> QED
      BY <3>1, <3>2, <3>3 DEF Next, vars
  <2> QED
    BY <2>1, <2>2 DEF BoardInv, FoundCompleted, AlreadyCompleted
<1>4. CASE Idle /\ ~Call
  BY <1>4, <1>1 DEF Next, vars, Continue, Environment, Overlay, StoreEvent, Disturb, Crash, Idle,
         ClaimProject, DemoteNothing, JudgeClaim, CheckRelease, JudgeComplete, ReturnExisting,
         MirrorClaim, MirrorDemote, CompensateRelease, CompensateReclaim, CompensateMove, Recover,
         MirrorRelease, MirrorComplete
<1> QED
  BY <1>2, <1>3, <1>4

\* Only a call begins an operation.
LEMMA OnlyCallsBegin ==
  ASSUME [Next]_vars, Idle, ~Idle' PROVE Call
BY DEF Next, vars, Continue, Environment, Overlay, StoreEvent, Disturb, Crash, Idle,
       ClaimProject, DemoteNothing, JudgeClaim, CheckRelease, JudgeComplete, ReturnExisting,
       MirrorClaim, MirrorDemote, CompensateRelease, CompensateReclaim, CompensateMove, Recover,
       MirrorRelease, MirrorComplete

\* Only _claim_task ends the first step of a claim.
LEMMA OnlyProjectLeaves ==
  ASSUME [Next]_vars, op.pc = "project", op'.pc \notin {"idle", "project"} PROVE ClaimProject
BY DEF Next, vars, Call, Continue, Environment, Overlay, StoreEvent, Disturb, Crash, Idle,
       ClaimTask, ReleaseClaim, CompleteTask, CompleteAgain, Return, NoOperation,
       DemoteNothing, JudgeClaim, CheckRelease, JudgeComplete, ReturnExisting,
       MirrorClaim, MirrorDemote, CompensateRelease, CompensateReclaim, CompensateMove, Recover,
       MirrorRelease, MirrorComplete

\* An operation that only returns what exists has no further step.
LEMMA ReturnLeavesNothing ==
  ASSUME [Next]_vars, op.pc = "return" PROVE op'.pc \in {"idle", "return"}
BY DEF Next, vars, Call, Continue, Environment, Overlay, StoreEvent, Disturb, Crash, Idle,
       ClaimTask, ReleaseClaim, CompleteTask, CompleteAgain, Return, NoOperation, ClaimProject,
       DemoteNothing, JudgeClaim, CheckRelease, JudgeComplete, ReturnExisting,
       MirrorClaim, MirrorDemote, CompensateRelease, CompensateReclaim, CompensateMove, Recover,
       MirrorRelease, MirrorComplete

LEMMA GatePassedStep == ASSUME BoardInv, [Next]_vars PROVE GatePassed'
<1> SUFFICES ASSUME op'.kind \in {"claim", "complete"}, op'.pc \notin {"project", "return"},
                    NEW d \in (Deps[op.task])' \ disturbed'
             PROVE  card'[d].status = "done" /\ (d = op'.task => op'.snap.status = "done")
  BY DEF GatePassed
<1>1. AgreementInv /\ AgreementInv'
  BY InvStep DEF BoardInv
<1>2. ~Idle' /\ op'.task \in Cards
  BY <1>1, InvTypes DEF AgreementInv, StepShape, NoOperation, Idle
<1>3. d \in Cards \ disturbed' /\ d \in Cards \ disturbed /\ d \in Deps[op'.task]
  BY <1>2, DepsAssumption, ExemptGrows
<1>4. CASE Idle
  <2>1. PICK a \in Agents, c \in Cards : CompleteTask(a, c)
    BY <1>2, <1>4, OnlyCallsBegin DEF Call, ClaimTask, ReleaseClaim, CompleteAgain, Started
  <2>2. card' = card /\ op'.task = c /\ op'.snap = card[c] /\ Completable(a, c)
    BY <2>1 DEF CompleteTask, Started, store
  <2> QED
    BY <2>2, <1>3 DEF Completable
<1>5. CASE ~Idle /\ op.pc # "project"
  <2>1. /\ op'.task = op.task /\ op'.kind = op.kind /\ op'.snap = op.snap
        /\ op' = op \/ op'.pc \notin {"project", "return"}
    BY <1>1, <1>2, <1>5, OpFrame
  <2>2. op.pc # "return"
    BY <1>2, ReturnLeavesNothing DEF Idle
  <2>3. card[d].status = "done" /\ (d = op.task => op.snap.status = "done")
    BY <1>3, <1>5, <2>1, <2>2 DEF BoardInv, GatePassed
  <2> QED
    BY <1>1, <1>3, <2>1, <2>3, DoneStays
<1>6. CASE op.pc = "project"
  <2>1. ClaimProject
    BY <1>2, <1>6, OnlyProjectLeaves DEF Idle
  <2>2. op'.task = op.task /\ op'.snap = op.snap /\ card' = card
    BY <1>1, <1>2, <1>6, <2>1, OpFrame DEF Idle, ClaimProject, store
  <2>3. Claimable(op.agent, op.task)
    BY <1>2, <2>1 DEF ClaimProject, Return, NoOperation, Idle
  <2>4. op.task \notin disturbed => card[op.task] = op.snap
    BY <1>1, <1>6 DEF AgreementInv, TargetProgress, Idle
  <2> QED
    BY <1>3, <2>2, <2>3, <2>4 DEF Claimable
<1> QED
  BY <1>4, <1>5, <1>6

LEMMA DependencyStep == ASSUME BoardInv, [Next]_vars PROVE DependencyGate'
<1> SUFFICES ASSUME NEW c \in Cards \ disturbed', card'[c].status # "backlog",
                    NEW d \in Deps[c] \ disturbed'
             PROVE  card'[d].status = "done"
  BY DEF DependencyGate
<1>1. AgreementInv /\ c \notin disturbed /\ d \in Cards \ disturbed' /\ d \notin disturbed
  BY DepsAssumption, ExemptGrows DEF BoardInv
<1>2. card[d].status = "done"
  <2>1. CASE card[c].status # "backlog"
    BY <1>1, <2>1 DEF BoardInv, DependencyGate
  <2>2. CASE card[c].status = "backlog"
    <3>1. Effect(c, card[c], card'[c])
      BY <1>1, <2>2, CardEffect
    <3>2. op.pc \in {"claim", "compReclaim", "compMove", "complete"} /\ c = op.task
      BY <2>2, <3>1 DEF Effect
    <3>3. op.kind \in {"claim", "complete"}
      BY <1>1, <3>2 DEF AgreementInv, StepShape
    <3> QED
      BY <1>1, <3>2, <3>3 DEF BoardInv, GatePassed
  <2> QED
    BY <2>1, <2>2
<1> QED
  BY <1>1, <1>2, DoneStays

\* Where the bumped task is not the one an operation mirrors, it stays put.
LEMMA BumpedStays ==
  ASSUME BoardInv, [Next]_vars, ~Idle, op.pc # "demote",
         op.kind \in {"claim", "refocus"}, op.bumped \in Cards \ disturbed', op.demote
  PROVE  card'[op.bumped] = card[op.bumped]
<1>1. AgreementInv /\ op.bumped \notin disturbed
  BY ExemptGrows DEF BoardInv
<1>2. op.bumped # op.task
  BY <1>1, CardsAssumption, InvTypes DEF AgreementInv, BumpFacts
<1> QED
  BY <1>1, <1>2, CardEffect DEF Effect

LEMMA BumpMirrorDemote ==
  ASSUME BoardInv, NEW o \in Outcomes, MirrorDemote(o), ~Idle' PROVE BumpProgress'
<1> USE InvTypes
<1> DEFINE landed == IF Lands(op.bumped, o) THEN {"demote"} ELSE {}
<1>1. /\ AgreementInv /\ TypeOK /\ ~Idle /\ op.pc = "demote" /\ op \in Operations /\ op.demote
      /\ op.kind \in {"claim", "refocus"} /\ op.bumped \in Cards /\ disturbed' = disturbed
  BY DEF BoardInv, AgreementInv, TypeOK, MirrorDemote, Idle, StepShape, Task, history
<1>2. op' = [op EXCEPT !.pc = "judge", !.durable = @ \cup landed]
  BY DEF MirrorDemote, Return, NoOperation, Idle
<1>3. /\ op'.pc = "judge" /\ op'.durable = op.durable \cup landed /\ op'.bumped = op.bumped
      /\ op'.kind = op.kind /\ op'.demote /\ op'.task = op.task
  <2> HIDE DEF landed
  <2> QED BY <1>1, <1>2 DEF Operations
<1>4. "demote" \notin op.durable
  BY <1>1 DEF BoardInv, BumpProgress
<1>5. ASSUME op.bumped \notin disturbed
      PROVE  card'[op.bumped].status = IF Lands(op.bumped, o) THEN "ready" ELSE "doing"
  <2>1. card[op.bumped].status = "doing"
    BY <1>1, <1>5 DEF BoardInv, BumpProgress
  <2>2. card'[op.bumped] = IF Lands(op.bumped, o) THEN Apply(card[op.bumped], MoveEvent("ready"))
                           ELSE card[op.bumped]
    BY <1>1, MirrorCard DEF MirrorDemote
  <2>3. Plain(card[op.bumped]) /\ card[op.bumped].owner = op.agent
    BY <1>1, <1>5 DEF AgreementInv, CardsPlain, BumpFacts
  <2>4. Apply(card[op.bumped], MoveEvent("ready")).status = "ready"
    BY <1>1, <2>3, PlainMove, NoneAssumption DEF Columns
  <2> QED
    BY <2>1, <2>2, <2>4
<1>6. op.kind = "claim" /\ op.task \notin disturbed => "claim" \in op.durable
  BY <1>1 DEF AgreementInv, TargetProgress
<1> QED
  BY <1>1, <1>3, <1>4, <1>5, <1>6 DEF BumpProgress

LEMMA BumpJudgeClaim ==
  ASSUME BoardInv, JudgeClaim, ~Idle' PROVE BumpProgress'
<1> USE InvTypes
<1>1. /\ AgreementInv /\ ~Idle /\ op.pc = "judge" /\ op \in Operations
      /\ op.kind \in {"claim", "refocus"}
      /\ UNCHANGED <<card, disturbed, broken>>
  BY DEF BoardInv, AgreementInv, TypeOK, JudgeClaim, Idle, StepShape, store, history
<1>2. ~ClaimApplied /\ \E pc \in {"compRelease", "recover"} : op' = [op EXCEPT !.pc = pc]
  BY DEF JudgeClaim, Return, NoOperation, Idle
<1>3. /\ op'.pc \in {"compRelease", "recover"} /\ op'.bumped = op.bumped /\ op'.task = op.task
      /\ op'.kind = op.kind /\ op'.demote = op.demote
  BY <1>1, <1>2 DEF Operations
<1>4. ASSUME op.demote, op.bumped \in Cards \ disturbed, op.task \notin Exempt
      PROVE  card[op.bumped].status = "doing"
  <2> SUFFICES ASSUME card[op.bumped].status # "doing" PROVE FALSE
    OBVIOUS
  <2>1. "demote" \in op.durable /\ card[op.bumped].status = "ready"
    BY <1>1, <1>4 DEF BoardInv, BumpProgress
  <2>2. op.kind = "claim" /\ "claim" \in op.durable
    BY <1>1, <1>4, <2>1 DEF BoardInv, BumpProgress, AgreementInv, BumpFacts, Exempt
  <2>3. card[op.task].owner = op.agent /\ card[op.task].status = "doing"
    BY <1>1, <1>4, <2>2 DEF AgreementInv, TargetProgress, Exempt
  <2>4. card[op.bumped].owner = op.agent
    BY <1>1, <1>4 DEF AgreementInv, BumpFacts
  <2>5. ClaimApplied
    BY <1>1, <1>4, <2>1, <2>2, <2>3, <2>4, CardsAssumption DEF ClaimApplied, Holds
  <2> QED
    BY <1>2, <2>5
<1> QED
  BY <1>1, <1>3, <1>4 DEF BumpProgress, Exempt

LEMMA BumpStep == ASSUME BoardInv, [Next]_vars PROVE BumpProgress'
<1> USE InvTypes
<1>1. /\ AgreementInv /\ AgreementInv' /\ disturbed \subseteq disturbed' /\ Exempt \subseteq Exempt'
      /\ op \in Operations /\ BumpProgress
  BY InvStep, ExemptGrows DEF BoardInv, AgreementInv, TypeOK
<1>2. CASE Idle'
  BY <1>1, <1>2 DEF AgreementInv, StepShape, Idle, NoOperation, BumpProgress
<1>3. CASE Idle /\ ~Idle'
  <2>1. Call
    BY <1>3, OnlyCallsBegin
  <2>2. CASE \E a \in Agents, c \in Cards : ReleaseClaim(a, c) \/ CompleteTask(a, c) \/ CompleteAgain(a, c)
    BY <2>2 DEF ReleaseClaim, CompleteTask, CompleteAgain, Started, BumpProgress
  <2>3. ASSUME NEW a \in Agents, NEW c \in Cards, ClaimTask(a, c) PROVE BumpProgress'
    <3> DEFINE bumped == agent[a].current
    <3>1. /\ op'.pc = "project" /\ op'.kind \in {"claim", "refocus"} /\ op'.durable = {}
          /\ op'.bumped = bumped /\ op'.demote = Holds(a, bumped, {"doing", "review"})
          /\ card' = card /\ disturbed' = disturbed
      BY <2>3 DEF ClaimTask, Started, store, history
    <3>2. Holds(a, bumped, {"doing", "review"}) /\ bumped \in Cards \ disturbed
            => card[bumped].status = "doing"
      BY <1>1 DEF Holds, AgreementInv, CardsPlain, Plain
    <3> HIDE DEF bumped
    <3> QED BY <3>1, <3>2 DEF BumpProgress
  <2> QED
    BY <2>1, <2>2, <2>3 DEF Call
<1>4. CASE ~Idle /\ ~Idle'
  <2>0. ASSUME NEW v, Return(v) PROVE FALSE
    BY <1>4, <2>0 DEF Return, NoOperation, Idle
  <2>1. /\ op'.task = op.task /\ op'.kind = op.kind /\ op'.demote = op.demote
        /\ \/ op'.bumped = op.bumped
           \/ op'.bumped = None
    BY <1>1, <1>4, OpFrame
  <2>2. op.demote => op.kind \in {"claim", "refocus"}
    BY <1>1 DEF BumpProgress
  <2>3. op'.bumped \in Cards => op'.bumped = op.bumped
    BY <2>1, CardsAssumption
  <2>4. ASSUME op.pc # "demote", op.demote, op.bumped \in Cards \ disturbed'
        PROVE  card'[op.bumped] = card[op.bumped]
    BY <1>4, <2>2, <2>4, BumpedStays
  <2>5. CASE op' = op
    <3>1. op.pc = "demote" => UNCHANGED card \/ \E d \in Cards : \E e : Disturb(d, e)
      <4> SUFFICES ASSUME op.pc = "demote" PROVE UNCHANGED card \/ \E d \in Cards : \E e : Disturb(d, e)
        OBVIOUS
      <4>1. ASSUME NEW o \in Outcomes, MirrorDemote(o) PROVE FALSE
        <5>1. \E D : op' = [op EXCEPT !.pc = "judge", !.durable = D]
          BY <2>0, <4>1 DEF MirrorDemote
        <5> QED BY <1>1, <2>5, <5>1 DEF Operations
      <4>2. Continue => DemoteNothing \/ \E o \in Outcomes : MirrorDemote(o)
        BY DEF Continue, ClaimProject, JudgeClaim, CheckRelease, JudgeComplete, ReturnExisting,
               MirrorClaim, CompensateRelease, CompensateReclaim, CompensateMove, Recover,
               MirrorRelease, MirrorComplete
      <4>3. ~Call
        BY <1>4 DEF Call, ClaimTask, ReleaseClaim, CompleteTask, CompleteAgain
      <4>4. DemoteNothing \/ Crash => UNCHANGED card
        BY DEF DemoteNothing, Crash, store
      <4> QED
        BY <4>1, <4>2, <4>3, <4>4 DEF Next, vars, Environment, Overlay, StoreEvent
    <3>2. ASSUME NEW d \in Cards, NEW e, Disturb(d, e), op.bumped \in Cards \ disturbed'
          PROVE  card'[op.bumped] = card[op.bumped]
      BY <3>2, <1>4, <1>1 DEF Disturb
    <3>3. op.demote /\ op.bumped \in Cards \ disturbed' => card'[op.bumped] = card[op.bumped]
      BY <2>4, <3>1, <3>2
    <3> QED
      BY <1>1, <2>5, <3>3 DEF BumpProgress
  <2>6. CASE ClaimProject
    <3>1. /\ op.pc = "project" /\ op'.durable = op.durable /\ op'.pc \in {"claim", "demote"}
          /\ card' = card /\ disturbed' = disturbed
      <4>1. \/ \E b : op' = [op EXCEPT !.pc = "claim", !.bumped = b]
            \/ op' = [op EXCEPT !.pc = "demote"]
        BY <2>0, <2>6 DEF ClaimProject
      <4> QED
        BY <1>1, <2>6, <4>1 DEF ClaimProject, Operations, store, history
    <3> QED
      BY <1>1, <2>1, <2>2, <2>3, <3>1 DEF BumpProgress
  <2>7. ASSUME NEW o \in Outcomes, MirrorClaim(o) PROVE BumpProgress'
    <3> DEFINE landed == IF Lands(op.task, o) THEN {"claim"} ELSE {}
               r == nrev + 1
    <3>1. "demote" \notin landed
      OBVIOUS
    <3>2. \E pc \in {"judge", "demote"} :
             op' = [[op EXCEPT !.rev = r, !.durable = landed] EXCEPT !.pc = pc]
      BY <1>4, <2>7 DEF MirrorClaim, Return, NoOperation, Idle
    <3> HIDE DEF landed, r
    <3>3. op'.pc \in {"judge", "demote"} /\ op'.durable = landed /\ op.pc = "claim" /\ disturbed' = disturbed
      BY <1>1, <2>7, <3>2 DEF Operations, MirrorClaim, history
    <3> QED
      BY <1>1, <2>1, <2>2, <2>3, <2>4, <3>1, <3>3 DEF BumpProgress
  <2>8. ASSUME NEW o \in Outcomes,
               CompensateRelease(o) \/ CompensateReclaim(o) \/ CompensateMove(o)
        PROVE  BumpProgress'
    <3>1. /\ op.pc \in {"compRelease", "compReclaim", "compMove"}
          /\ op'.pc \in {"compReclaim", "compMove", "recover"} /\ disturbed' = disturbed
      BY <1>1, <2>8 DEF CompensateRelease, CompensateReclaim, CompensateMove, CompensationFailed,
                        Operations, history
    <3> QED
      BY <1>1, <2>1, <2>2, <2>3, <2>4, <3>1 DEF BumpProgress
  <2>9. ASSUME NEW o \in Outcomes, MirrorRelease(o) \/ MirrorComplete(o) \/ CheckRelease \/ JudgeComplete
        PROVE  BumpProgress'
    <3>1. op.kind \in {"release", "complete"} /\ op'.pc \in {"checkRelease", "judgeComplete", "recover"}
      <4>1. \/ \E pc \in {"checkRelease", "judgeComplete"} : \E D :
                 op' = [op EXCEPT !.pc = pc, !.durable = D]
            \/ op' = [op EXCEPT !.pc = "recover"]
        BY <2>0, <2>9 DEF MirrorRelease, MirrorComplete, CheckRelease, JudgeComplete
      <4>2. op.pc \in {"release", "complete", "checkRelease", "judgeComplete"}
        BY <2>9 DEF MirrorRelease, MirrorComplete, CheckRelease, JudgeComplete
      <4> QED
        BY <1>1, <4>1, <4>2 DEF Operations, AgreementInv, StepShape
    <3> QED
      BY <2>1, <2>2, <3>1 DEF BumpProgress
  <2>10. CASE Continue
    <3>1. ASSUME NEW o \in Outcomes, Recover(o) \/ DemoteNothing \/ ReturnExisting PROVE FALSE
      BY <1>4, <3>1 DEF Recover, DemoteNothing, ReturnExisting, Return, NoOperation, Idle
    <3> QED
      BY <1>4, <2>6, <2>7, <2>8, <2>9, <2>10, <3>1, BumpMirrorDemote, BumpJudgeClaim DEF Continue, Outcomes
  <2>11. CASE Environment
    BY <1>4, <2>5, <2>11 DEF Environment, Overlay, StoreEvent, Disturb, Crash, Return, NoOperation, Idle
  <2>12. CASE Call
    BY <1>4, <2>12 DEF Call, ClaimTask, ReleaseClaim, CompleteTask, CompleteAgain
  <2> QED
    BY <2>5, <2>10, <2>11, <2>12 DEF Next, vars
<1> QED
  BY <1>2, <1>3, <1>4

LEMMA BoardInvStep == ASSUME BoardInv, [Next]_vars PROVE BoardInv'
BY InvStep, CoherentStep, FoundStep, GatePassedStep, DependencyStep, BumpStep DEF BoardInv

LEMMA BoardInvHolds == Spec => []BoardInv
BY BoardInvInit, BoardInvStep, PTL DEF Spec

\* A card that the gates of claim_task and complete_task let out of the
\* backlog never has an open dependency, through every failure, compensation
\* and crash.
THEOREM DependencyGateHolds == Spec => []DependencyGate
<1>1. BoardInv => DependencyGate
  BY DEF BoardInv
<1> QED
  BY <1>1, BoardInvHolds, PTL

-----------------------------------------------------------------------------
(* What an operation has done when it returns *)

\* The two ways to raise an ordinary error: the demotion addressed to no task,
\* and a recovery whose restore succeeded without a fatal compensation.
LEMMA ErrorSteps ==
  ASSUME [Next]_vars, result' = "error", result # "error"
  PROVE  DemoteNothing \/ (Recover("ok") /\ ~op.fatal)
<1>1. CASE Call
  BY <1>1 DEF Call, ClaimTask, ReleaseClaim, CompleteTask, CompleteAgain
<1>2. CASE Continue
  <2>1. CASE \E o \in Outcomes : Recover(o)
    BY <2>1 DEF Recover, Return
  <2>2. ASSUME Return("ok") \/ Return("refused") \/ result' = result PROVE FALSE
    BY <2>2 DEF Return
  <2>3. CASE ClaimProject \/ JudgeClaim \/ CheckRelease \/ JudgeComplete \/ ReturnExisting
    BY <2>2, <2>3 DEF ClaimProject, JudgeClaim, CheckRelease, JudgeComplete, ReturnExisting
  <2>4. ASSUME NEW o \in Outcomes,
               \/ MirrorClaim(o) \/ MirrorDemote(o) \/ MirrorRelease(o) \/ MirrorComplete(o)
               \/ CompensateRelease(o) \/ CompensateReclaim(o) \/ CompensateMove(o)
        PROVE  FALSE
    BY <2>2, <2>4 DEF MirrorClaim, MirrorDemote, MirrorRelease, MirrorComplete,
                      CompensateRelease, CompensateReclaim, CompensateMove
  <2> QED
    BY <1>2, <2>1, <2>3, <2>4 DEF Continue
<1>3. CASE Environment
  BY <1>3 DEF Environment, Overlay, StoreEvent, Disturb, Crash, Return
<1> QED
  BY <1>1, <1>2, <1>3 DEF Next, vars

LEMMA RestoredNothing ==
  ASSUME BoardInv, DemoteNothing
  PROVE  agent'[op.agent] = op.orig /\ op.task \in disturbed
<1> USE InvTypes
<1>1. /\ AgreementInv /\ ~Idle /\ op.pc # "project" /\ op.demote /\ op.bumped = None
      /\ op.kind \in {"claim", "refocus"} /\ agent' = agent
  BY DEF BoardInv, AgreementInv, DemoteNothing, Idle, StepShape
<1>2. op.orig.current = op.task /\ op.task \in disturbed
  BY <1>1 DEF AgreementInv, BumpFacts
<1>3. agent[op.agent] = [current |-> op.task,
                         claimed |-> (op.orig.claimed \ (IF op.drop THEN {op.bumped} ELSE {}))
                                       \cup {op.task},
                         completed |-> op.orig.completed]
  BY <1>1 DEF AgreementInv, Projected
<1>4. op.task \in op.orig.claimed
  BY <1>1, <1>2, CardsAssumption DEF BoardInv, ProjectionsCoherent, CurrentIsClaimed
<1>5. op.orig.claimed \subseteq Cards
  BY <1>1 DEF AgentFiles
<1>6. (op.orig.claimed \ (IF op.drop THEN {op.bumped} ELSE {})) \cup {op.task} = op.orig.claimed
  BY <1>1, <1>4, <1>5, CardsAssumption
<1> QED
  BY <1>1, <1>2, <1>3, <1>6 DEF AgentFiles

LEMMA RestoredRecover ==
  ASSUME BoardInv, Recover("ok"), ~op.fatal
  PROVE  /\ agent'[op.agent] = op.orig
         /\ op.task \notin disturbed => /\ card'[op.task].owner = op.snap.owner
                                        /\ card'[op.task].status = op.snap.status
<1>1. AgreementInv /\ ~Idle /\ op.pc = "recover"
  BY DEF BoardInv, Recover, Idle
<1>2. agent' = [agent EXCEPT ![op.agent] = op.orig] /\ card' = card
  BY DEF Recover, store
<1>3. op.task \notin disturbed => MatchesSnapshot(card[op.task])
  BY <1>1 DEF AgreementInv, TargetProgress
<1> QED
  BY <1>1, <1>2, <1>3, InvTypes DEF MatchesSnapshot

\* An operation that raises an ordinary error has undone itself: the agent's
\* file is the snapshot _recover_store_failure took it back to, and the target
\* card has its old owner and column.
THEOREM ErrorRestoresHolds == Spec => ErrorRestores
<1>1. BoardInv /\ [Next]_vars =>
        [result' = "error" /\ result # "error" =>
           /\ agent'[op.agent] = op.orig
           /\ op.task \notin disturbed =>
                /\ card'[op.task].owner = op.snap.owner
                /\ card'[op.task].status = op.snap.status]_vars
  BY ErrorSteps, RestoredNothing, RestoredRecover
<1> QED
  BY <1>1, BoardInvHolds, PTL DEF Spec, ErrorRestores

-----------------------------------------------------------------------------
\* What the caller of each operation was promised about the target card k.
Promised(k) ==
  /\ op.kind = "claim" => k.owner = op.agent /\ k.status = "doing"
  /\ op.kind = "release" => k.owner = None /\ k.status = "backlog"
  /\ op.kind = "complete" => k.owner = None /\ k.status = "done"

LEMMA PromisedMirrorClaim ==
  ASSUME BoardInv, NEW o \in Outcomes, MirrorClaim(o), op.task \notin Exempt, Idle'
  PROVE  Promised(card'[op.task])
<1> USE InvTypes
<1> DEFINE r == nrev + 1
<1>1. /\ AgreementInv /\ TypeOK /\ ~Idle /\ op.pc = "claim" /\ op.kind = "claim"
      /\ op.task \notin disturbed
  BY DEF BoardInv, AgreementInv, MirrorClaim, Idle, StepShape, Exempt
<1>2. Lands(op.task, o)
  <2>1. ASSUME Raises(op.task, o) PROVE FALSE
    <3>1. \E x, D : op' = [[op EXCEPT !.rev = x, !.durable = D] EXCEPT !.pc = "judge"]
      BY <2>1 DEF MirrorClaim
    <3> QED BY <1>1, <3>1 DEF TypeOK, Operations, Idle
  <2> QED BY <2>1 DEF Raises, Lands
<1>3. card'[op.task] = Apply(card[op.task], ClaimEvent(op.agent, r))
  BY <1>1, <1>2, MirrorCard DEF MirrorClaim
<1>4. Plain(card[op.task]) /\ ~ClaimCollides(card[op.task], op.agent)
  BY <1>1 DEF AgreementInv, CardsPlain, TargetProgress
<1>5. r \in Nat \ {0}
  BY <1>1 DEF TypeOK
<1> HIDE DEF r
<1>6. card'[op.task].owner = op.agent /\ card'[op.task].status = "doing"
  BY <1>1, <1>3, <1>4, <1>5, PlainClaim
<1> QED
  BY <1>1, <1>6 DEF Promised

LEMMA PromisedMirrorDemote ==
  ASSUME BoardInv, NEW o \in Outcomes, MirrorDemote(o), op.task \notin Exempt
  PROVE  Promised(card'[op.task])
<1> USE InvTypes
<1>1. /\ AgreementInv /\ TypeOK /\ ~Idle /\ op.pc = "demote" /\ op.bumped \in Cards
      /\ op.task \notin disturbed /\ op.kind \in {"claim", "refocus"}
  BY DEF BoardInv, AgreementInv, MirrorDemote, Idle, StepShape, Exempt, Task
<1>2. op.kind = "claim" /\ op.bumped # op.task
  BY <1>1, CardsAssumption DEF AgreementInv, BumpFacts
<1>3. card[op.task].owner = op.agent /\ card[op.task].status = "doing"
  BY <1>1, <1>2 DEF AgreementInv, TargetProgress
<1>4. card'[op.task] = card[op.task]
  BY <1>1, <1>2, MirrorCard DEF MirrorDemote
<1> QED
  BY <1>2, <1>3, <1>4 DEF Promised

LEMMA PromisedMirrorComplete ==
  ASSUME BoardInv, NEW o \in Outcomes, MirrorComplete(o), op.task \notin Exempt, Idle'
  PROVE  Promised(card'[op.task])
<1> USE InvTypes
<1>1. /\ AgreementInv /\ TypeOK /\ ~Idle /\ op.pc = "complete" /\ op.kind = "complete"
      /\ op.task \notin disturbed
  BY DEF BoardInv, AgreementInv, MirrorComplete, Idle, StepShape, Exempt
<1>2. Lands(op.task, o)
  <2>1. ASSUME Raises(op.task, o) PROVE FALSE
    <3>1. \E D : op' = [op EXCEPT !.pc = "judgeComplete", !.durable = D]
      BY <2>1 DEF MirrorComplete
    <3> QED BY <1>1, <3>1 DEF TypeOK, Operations, Idle
  <2> QED BY <2>1 DEF Raises, Lands
<1>3. card'[op.task] = Apply(card[op.task], CompleteEvent)
  BY <1>1, <1>2, MirrorCard DEF MirrorComplete
<1>4. Plain(card[op.task])
  BY <1>1 DEF AgreementInv, CardsPlain
<1>5. card'[op.task].owner = None /\ card'[op.task].status = "done"
  BY <1>1, <1>3, <1>4, PlainComplete
<1> QED
  BY <1>1, <1>5 DEF Promised

LEMMA PromisedReturnExisting ==
  ASSUME BoardInv, ReturnExisting, op.task \notin Exempt
  PROVE  Promised(card'[op.task])
<1> USE InvTypes
<1>1. /\ AgreementInv /\ ~Idle /\ op.pc = "return" /\ op.kind = "complete"
      /\ op.task \notin disturbed /\ card' = card
  BY DEF BoardInv, AgreementInv, ReturnExisting, Idle, StepShape, Exempt, store
<1>2. AgreesIn(agent, op.snap, op.task) /\ card[op.task] = op.snap /\ Plain(card[op.task])
  BY <1>1, NothingSaved DEF AgreementInv, RollbackAgrees, TargetProgress, CardsPlain
<1>3. \E b \in Agents : op.task \in agent[b].completed
  BY <1>1 DEF BoardInv, FoundCompleted, AlreadyCompleted
<1>4. op.snap.status = "done"
  BY <1>2, <1>3 DEF AgreesIn
<1> QED
  BY <1>1, <1>2, <1>4 DEF Promised, Plain

\* The steps that only classify return after they have looked.
LEMMA PromisedJudgements ==
  ASSUME BoardInv, JudgeClaim \/ CheckRelease \/ JudgeComplete, op.task \notin Exempt,
         Idle'
  PROVE  Promised(card'[op.task])
<1>1. /\ AgreementInv /\ ~Idle /\ op.task \notin disturbed /\ card' = card /\ op \in Operations
  BY DEF BoardInv, AgreementInv, TypeOK, JudgeClaim, CheckRelease, JudgeComplete, Idle, Exempt, store
<1>2. ASSUME NEW pc \in {"compRelease", "recover"}, op' = [op EXCEPT !.pc = pc] PROVE FALSE
  BY <1>1, <1>2 DEF Operations, Idle
<1>3. CASE JudgeClaim
  <2>1. ClaimApplied
    BY <1>2, <1>3 DEF JudgeClaim
  <2> QED
    BY <1>1, <1>3, <2>1 DEF JudgeClaim, ClaimApplied, Holds, Promised, AgreementInv, StepShape
<1>4. CASE CheckRelease
  <2>1. op.kind = "release" /\ op.snap.owner = op.agent /\ op.snap.rev = op.rev
    BY <1>1, <1>4 DEF CheckRelease, AgreementInv, StepShape, TargetProgress
  <2>2. ReleaseApplied
    BY <1>2, <1>4 DEF CheckRelease
  <2> QED
    BY <1>1, <2>1, <2>2 DEF ReleaseApplied, Promised
<1>5. CASE JudgeComplete
  <2>1. card[op.task].owner = None /\ card[op.task].status = "done"
    BY <1>2, <1>5 DEF JudgeComplete
  <2> QED
    BY <1>1, <1>5, <2>1 DEF JudgeComplete, Promised, AgreementInv, StepShape
<1> QED
  BY <1>3, <1>4, <1>5

LEMMA PromisedStep ==
  ASSUME BoardInv, [Next]_vars, result' = "ok", result # "ok", op.task \notin Exempt
  PROVE  Promised(card'[op.task])
<1>1. CASE ClaimProject
  BY <1>1 DEF ClaimProject, Return, BoardInv, AgreementInv, StepShape, Promised
<1>2. CASE Call
  BY <1>2 DEF Call, ClaimTask, ReleaseClaim, CompleteTask, CompleteAgain
<1>3. ASSUME Return("ok") PROVE Idle'
  BY <1>3 DEF Return, NoOperation, Idle
<1>4. CASE JudgeClaim \/ CheckRelease \/ JudgeComplete
  <2>1. Return("ok")
    BY <1>4 DEF JudgeClaim, CheckRelease, JudgeComplete
  <2> QED
    BY <1>3, <1>4, <2>1, PromisedJudgements
<1>5. ASSUME NEW o \in Outcomes, MirrorClaim(o) \/ MirrorComplete(o)
      PROVE  Promised(card'[op.task])
  <2>1. Return("ok")
    BY <1>5 DEF MirrorClaim, MirrorComplete
  <2> QED
    BY <1>3, <1>5, <2>1, PromisedMirrorClaim, PromisedMirrorComplete
<1>6. CASE Continue
  BY <1>1, <1>4, <1>5, <1>6, PromisedMirrorDemote, PromisedReturnExisting
     DEF Continue, DemoteNothing, CompensateRelease, CompensateReclaim, CompensateMove, Recover,
         MirrorRelease, Return
<1>7. CASE Environment
  BY <1>7 DEF Environment, Overlay, StoreEvent, Disturb, Crash, Return
<1> QED
  BY <1>2, <1>6, <1>7 DEF Next, vars

\* An operation that returned normally did what it was asked, in the store,
\* however its writes failed on the way (_store_transitions_are_applied,
\* _release_transition_is_applied).
THEOREM SuccessIsAppliedHolds == Spec => SuccessIsApplied
<1>1. BoardInv /\ [Next]_vars =>
        [result' = "ok" /\ result # "ok" /\ op.task \notin Exempt =>
           LET k == card'[op.task] IN
           /\ op.kind = "claim" => k.owner = op.agent /\ k.status = "doing"
           /\ op.kind = "release" => k.owner = None /\ k.status = "backlog"
           /\ op.kind = "complete" => k.owner = None /\ k.status = "done"]_vars
  BY PromisedStep DEF Promised
<1> QED
  BY <1>1, BoardInvHolds, PTL DEF Spec, SuccessIsApplied

-----------------------------------------------------------------------------
(* The refinement of AtomicBoard *)

LEMMA VisibleType == ASSUME BoardInv PROVE Visible \in [Cards -> Atomic!States]
<1>1. AgreementInv /\ TypeOK /\ op \in Operations /\ (op.demote => ~Idle)
  BY DEF BoardInv, AgreementInv, TypeOK, StepShape, NoOperation, Idle
<1>2. ASSUME NEW k \in CardStates PROVE Shown(k) \in Atomic!States
  BY <1>2 DEF Shown, CardStates, Columns, Atomic!States
<1>3. op.demote => [owner |-> op.agent, status |-> "doing"] \in Atomic!States
  BY <1>1, InvTypes DEF Atomic!States
<1>4. op.snap \in CardStates /\ \A c \in Cards : card[c] \in CardStates
  BY <1>1 DEF TypeOK, Operations
<1>5. \A c \in Cards : Visible[c] \in Atomic!States
  BY <1>2, <1>3, <1>4 DEF Visible
<1> QED
  BY <1>5 DEF Visible

LEMMA VisibleTypeNext == BoardInv' => (Visible \in [Cards -> Atomic!States])'
<1>1. BoardInv => Visible \in [Cards -> Atomic!States]
  BY VisibleType
<1> QED
  BY <1>1, PTL

\* What callers see of an idle board, of the target, of the bumped task and of
\* every other card.
LEMMA VisibleCards ==
  ASSUME BoardInv, NEW c \in Cards
  PROVE  /\ Idle => Visible[c] = Shown(card[c])
         /\ ~Idle /\ c = op.task => Visible[c] = Shown(op.snap)
         /\ ~Idle /\ c # op.task /\ op.demote /\ c = op.bumped =>
              Visible[c] = [owner |-> op.agent, status |-> "doing"]
         /\ ~Idle /\ c # op.task /\ ~(op.demote /\ c = op.bumped) => Visible[c] = Shown(card[c])
<1>1. op.demote => ~Idle
  BY DEF BoardInv, AgreementInv, StepShape, NoOperation, Idle
<1> QED
  BY <1>1 DEF Visible

LEMMA VisibleNext ==
  ASSUME BoardInv', NEW c \in Cards
  PROVE  /\ Idle' => Visible'[c] = Shown(card'[c])
         /\ ~Idle' /\ c = op'.task => Visible'[c] = Shown(op'.snap)
         /\ ~Idle' /\ c # op'.task /\ op'.demote /\ c = op'.bumped =>
              Visible'[c] = [owner |-> op'.agent, status |-> "doing"]
         /\ ~Idle' /\ c # op'.task /\ ~(op'.demote /\ c = op'.bumped)
              => Visible'[c] = Shown(card'[c])
<1>1. op'.demote => ~Idle'
  BY DEF BoardInv, AgreementInv, StepShape, NoOperation, Idle
<1> QED
  BY <1>1 DEF Visible, Shown

\* A step that callers see nothing of.
LEMMA DriftStep ==
  ASSUME BoardInv', Exempt \subseteq Exempt',
         \A c \in Cards \ Exempt' : Visible'[c] = Visible[c]
  PROVE  Atomic!Drift
<1>1. Visible' \in [Cards -> Atomic!States]
  BY VisibleTypeNext
<1> QED
  BY <1>1 DEF Atomic!Drift, Atomic!Become

\* A card the operation does not hold keeps its state.
LEMMA UnlockedStays ==
  ASSUME BoardInv, [Next]_vars, NEW c \in Cards \ Exempt',
         Idle \/ (c # op.task /\ ~(op.demote /\ c = op.bumped))
  PROVE  card'[c] = card[c]
<1>1. AgreementInv /\ c \in Cards \ disturbed' /\ (op.pc = "demote" => op.demote)
  BY DEF BoardInv, AgreementInv, StepShape, Exempt
<1> QED
  BY <1>1, CardEffect DEF Effect, Idle

\* Between two steps of one operation nothing shows.
LEMMA HiddenMiddle ==
  ASSUME BoardInv, BoardInv', [Next]_vars, ~Idle, ~Idle'
  PROVE  Atomic!Drift
<1> USE InvTypes
<1>1. AgreementInv /\ AgreementInv' /\ Exempt \subseteq Exempt'
  BY ExemptGrows DEF BoardInv
<1>2. /\ op'.task = op.task /\ op'.snap = op.snap /\ op'.agent = op.agent
      /\ op'.demote = op.demote /\ op'.orig = op.orig /\ op'.kind = op.kind
      /\ \/ op'.bumped = op.bumped
         \/ op.pc = "project" /\ op'.bumped = None
      /\ op' = op \/ op'.pc \notin {"project", "return"}
  BY <1>1, OpFrame
<1>3. ASSUME NEW c \in Cards \ Exempt' PROVE Visible'[c] = Visible[c]
  <2>1. CASE c = op.task
    BY <1>2, <2>1, VisibleCards, VisibleNext
  <2>2. CASE c # op.task /\ op.demote
    <3>1. c = op.bumped <=> c = op'.bumped
      <4>1. op.kind \in {"claim", "refocus"}
        BY <2>2 DEF BoardInv, BumpProgress
      <4>2. CASE op'.bumped # op.bumped
        <5>1. op.bumped = op.orig.current /\ op'.pc # "project"
          BY <1>1, <1>2, <4>1, <4>2 DEF AgreementInv, BumpFacts
        <5>2. op'.bumped = IF op.orig.current = op.task THEN None ELSE op.orig.current
          BY <1>1, <1>2, <4>1, <5>1 DEF AgreementInv, BumpFacts
        <5> QED
          BY <2>2, <5>1, <5>2, CardsAssumption
      <4> QED
        BY <4>2
    <3>2. CASE c = op.bumped
      BY <1>2, <2>2, <3>1, <3>2, VisibleCards, VisibleNext
    <3>3. CASE c # op.bumped
      BY <1>2, <2>2, <3>1, <3>3, VisibleCards, VisibleNext, UnlockedStays
    <3> QED
      BY <3>2, <3>3
  <2>3. CASE c # op.task /\ ~op.demote
    BY <1>2, <2>3, VisibleCards, VisibleNext, UnlockedStays
  <2> QED
    BY <2>1, <2>2, <2>3
<1> QED
  BY <1>1, <1>3, DriftStep

\* Nothing shows when an operation begins: it has written no event yet.
LEMMA HiddenBegin ==
  ASSUME BoardInv, BoardInv', [Next]_vars, Idle, ~Idle'
  PROVE  Atomic!Drift
<1>1. AgreementInv /\ AgreementInv' /\ Exempt \subseteq Exempt'
  BY ExemptGrows DEF BoardInv
<1>2. /\ card' = card /\ op'.snap = card[op'.task] /\ op'.task \in Cards
      /\ (op'.demote => op'.pc = "project" /\ op'.kind \in {"claim", "refocus"})
  BY OnlyCallsBegin DEF Call, ClaimTask, ReleaseClaim, CompleteTask, CompleteAgain, Started, store
<1>3. ASSUME NEW c \in Cards \ Exempt' PROVE Visible'[c] = Visible[c]
  <2>1. Visible[c] = Shown(card[c])
    BY VisibleCards, VisibleNext
  <2>2. CASE c = op'.task
    BY <1>2, <2>1, <2>2, VisibleCards, VisibleNext
  <2>3. CASE c # op'.task /\ op'.demote /\ c = op'.bumped
    <3>1. card'[c].owner = op'.agent /\ card'[c].status = "doing"
      BY <1>1, <1>2, <2>3, <1>3 DEF BoardInv, BumpProgress, AgreementInv, BumpFacts, Exempt
    <3> QED
      BY <1>2, <2>1, <2>3, <3>1, VisibleCards, VisibleNext DEF Shown
  <2>4. CASE c # op'.task /\ ~(op'.demote /\ c = op'.bumped)
    BY <1>2, <2>1, <2>4, VisibleCards, VisibleNext
  <2> QED
    BY <2>2, <2>3, <2>4
<1> QED
  BY <1>1, <1>3, DriftStep

\* Nor does anything in between two operations.
LEMMA HiddenIdle ==
  ASSUME BoardInv, BoardInv', [Next]_vars, Idle, Idle'
  PROVE  Atomic!Drift
<1>1. ASSUME NEW c \in Cards \ Exempt' PROVE Visible'[c] = Visible[c]
  BY <1>1, UnlockedStays, VisibleCards, VisibleNext
<1> QED
  BY <1>1, ExemptGrows, DriftStep

\* An operation that ends with its cards as they were.
LEMMA EndUnchanged ==
  ASSUME BoardInv, BoardInv', [Next]_vars, ~Idle, Idle',
         op.task \notin Exempt' => /\ card'[op.task].owner = op.snap.owner
                                   /\ card'[op.task].status = op.snap.status,
         op.demote /\ op.bumped \in Cards \ (Exempt' \cup {op.task})
           => card'[op.bumped].owner = op.agent /\ card'[op.bumped].status = "doing"
  PROVE  Atomic!Drift
<1>1. ASSUME NEW c \in Cards \ Exempt' PROVE Visible'[c] = Visible[c]
  <2>1. Visible'[c] = Shown(card'[c])
    BY VisibleCards, VisibleNext
  <2>2. CASE c = op.task
    BY <1>1, <2>1, <2>2, VisibleCards, VisibleNext DEF Shown
  <2>3. CASE c # op.task /\ op.demote /\ c = op.bumped
    BY <1>1, <2>1, <2>3, VisibleCards, VisibleNext DEF Shown
  <2>4. CASE c # op.task /\ ~(op.demote /\ c = op.bumped)
    BY <1>1, <2>1, <2>4, VisibleCards, VisibleNext, UnlockedStays
  <2> QED
    BY <2>2, <2>3, <2>4
<1> QED
  BY <1>1, ExemptGrows, DriftStep

\* To its callers, an operation past its gate stands on done dependencies.
LEMMA VisibleDeps ==
  ASSUME BoardInv, ~Idle, op.kind \in {"claim", "complete"}, op.pc \notin {"project", "return"}
  PROVE  Atomic!DepsDone(op.task)
<1> SUFFICES ASSUME NEW d \in Deps[op.task] \ Exempt PROVE Visible[d].status = "done"
  BY DEF Atomic!DepsDone
<1>1. AgreementInv /\ op.task \in Cards /\ d \in Cards \ Exempt /\ d \notin disturbed
  BY InvTypes, DepsAssumption DEF BoardInv, Exempt
<1>2. card[d].status = "done" /\ (d = op.task => op.snap.status = "done")
  BY <1>1 DEF BoardInv, GatePassed
<1>3. ~(op.demote /\ d = op.bumped)
  BY <1>1, <1>2 DEF BoardInv, BumpProgress, AgreementInv, BumpFacts
<1>4. CASE d = op.task
  <2>1. Visible[d] = Shown(op.snap)
    BY <1>1, <1>4, VisibleCards
  <2> QED
    BY <1>2, <1>4, <2>1 DEF Shown
<1>5. CASE d # op.task
  <2>1. Visible[d] = Shown(card[d])
    BY <1>1, <1>3, <1>5, VisibleCards
  <2> QED
    BY <1>2, <2>1 DEF Shown
<1> QED
  BY <1>4, <1>5

\* A claim that ends with its target taken and the bumped task aside.
LEMMA EndClaim ==
  ASSUME BoardInv, BoardInv', [Next]_vars, ~Idle, Idle',
         op.kind \in {"claim", "refocus"}, op.pc # "project",
         op.task \notin Exempt => op.pc \in {"claim", "demote", "judge"},
         op.task \notin Exempt => Promised(card'[op.task]),
         op.demote /\ op.bumped \in Cards \ Exempt'
           => card'[op.bumped].owner = op.agent /\ card'[op.bumped].status = "ready"
  PROVE  Atomic!Claim(op.agent, op.task)
<1> DEFINE a == op.agent
           t == op.task
           target == [d \in Cards |-> IF d = t THEN [owner |-> a, status |-> "doing"]
                                      ELSE IF Atomic!WorksOn(a, d) THEN [owner |-> a, status |-> "ready"]
                                      ELSE Visible[d]]
<1>1. AgreementInv /\ Exempt \subseteq Exempt' /\ a \in Agents /\ t \in Cards
      /\ op.orig \in AgentFiles /\ agent \in [Agents -> AgentFiles]
  BY ExemptGrows, InvTypes DEF BoardInv
<1>2. ASSUME t \notin Exempt
      PROVE  /\ Visible[t].owner \in {None, a} /\ Visible[t].status # "done"
             /\ Atomic!DepsDone(t)
             /\ card'[t].owner = a /\ card'[t].status = "doing"
  <2>1. op.kind = "claim"
    BY <1>1, <1>2 DEF AgreementInv, BumpFacts
  <2>2. ~ClaimCollides(op.snap, a) /\ op.snap.status # "done" /\ Plain(op.snap)
    BY <1>1, <1>2, <2>1 DEF AgreementInv, TargetProgress, RollbackAgrees, Exempt
  <2>3. op.snap.owner \in {None, a}
    BY <1>1, <2>2, InvTypes DEF Plain, ClaimCollides, ActiveColumns, CardStates, Columns
  <2>4. Visible[t] = Shown(op.snap)
    BY <1>1, VisibleCards, VisibleNext
  <2>5. Atomic!DepsDone(t)
    BY <1>2, <2>1, VisibleDeps
  <2> QED
    BY <1>2, <2>1, <2>2, <2>3, <2>4, <2>5 DEF Shown, Promised
<1>3. ASSUME NEW d \in Cards \ Exempt' PROVE Visible'[d] = target[d]
  <2>1. Visible'[d] = Shown(card'[d]) /\ d \notin Exempt
    BY <1>1, VisibleCards, VisibleNext
  <2>2. CASE d = t
    BY <1>2, <2>1, <2>2 DEF Shown
  <2>3. CASE d # t /\ op.demote /\ d = op.bumped
    <3>1. Atomic!WorksOn(a, d)
      BY <2>3, VisibleCards, VisibleNext DEF Atomic!WorksOn
    <3> QED
      BY <1>3, <2>1, <2>3, <3>1 DEF Shown
  <2>4. CASE d # t /\ ~(op.demote /\ d = op.bumped)
    <3>1. card'[d] = card[d] /\ Visible[d] = Shown(card[d])
      BY <1>3, <2>4, VisibleCards, VisibleNext, UnlockedStays
    <3>2. ASSUME card[d].owner = a, card[d].status = "doing" PROVE FALSE
      <4>1. AgreesIn(Rolled, card[d], d)
        BY <1>1, <2>1, <2>4 DEF AgreementInv, RollbackAgrees
      <4>2. Rolled[a].current = d
        BY <1>1, <3>2, <4>1 DEF AgreesIn
      <4>3. op.orig.current = d
        BY <1>1, <4>2 DEF Rolled
      <4>4. op.bumped = d
        BY <1>1, <2>4, <4>3 DEF AgreementInv, BumpFacts
      <4>5. op.demote
        BY <1>1, <2>1, <3>2, <4>4 DEF AgreementInv, BumpFacts
      <4> QED
        BY <2>4, <4>4, <4>5
    <3>3. ~Atomic!WorksOn(a, d)
      BY <3>1, <3>2 DEF Atomic!WorksOn, Shown
    <3> QED
      BY <2>1, <2>4, <3>1, <3>3
  <2> QED
    BY <2>2, <2>3, <2>4
<1>4. Visible' \in [Cards -> Atomic!States]
  BY VisibleTypeNext
<1>5. Atomic!Become(target)
  BY <1>1, <1>3, <1>4 DEF Atomic!Become
<1> QED
  BY <1>2, <1>5 DEF Atomic!Claim

\* A release or a completion that ends as promised.
LEMMA EndOwn ==
  ASSUME BoardInv, BoardInv', [Next]_vars, ~Idle, Idle',
         op.kind \in {"release", "complete"}, op.kind = "complete" => op.pc # "return",
         op.task \notin Exempt => Promised(card'[op.task])
  PROVE  Atomic!Release(op.agent, op.task) \/ Atomic!Complete(op.agent, op.task)
<1> DEFINE t == op.task
           col == IF op.kind = "release" THEN "backlog" ELSE "done"
<1>1. /\ AgreementInv /\ Exempt \subseteq Exempt' /\ t \in Cards /\ ~op.demote
      /\ op.pc # "project"
  BY ExemptGrows, InvTypes DEF BoardInv, BumpProgress, AgreementInv, StepShape
<1>2. ASSUME t \notin Exempt
      PROVE  /\ op.kind = "release" => Visible[t].owner = op.agent
             /\ op.kind = "complete" => Visible[t].owner \in {None, op.agent} /\ Atomic!DepsDone(t)
  <2>1. Visible[t] = Shown(op.snap)
    BY <1>1, VisibleCards
  <2>2. /\ op.kind = "release" => op.snap.owner = op.agent
        /\ op.kind = "complete" => op.snap.owner \in {None, op.agent}
    BY <1>1, <1>2 DEF AgreementInv, TargetProgress, Exempt
  <2>3. op.kind = "complete" => Atomic!DepsDone(t)
    BY <1>1, VisibleDeps
  <2> QED
    BY <2>1, <2>2, <2>3 DEF Shown
<1>3. ASSUME NEW d \in Cards \ Exempt'
      PROVE  Visible'[d] = [Visible EXCEPT ![t] = Atomic!Unowned(col)][d]
  <2>1. Visible'[d] = Shown(card'[d]) /\ d \notin Exempt
    BY <1>1, VisibleCards, VisibleNext
  <2>2. Visible \in [Cards -> Atomic!States]
    BY VisibleType
  <2>3. CASE d = t
    BY <1>1, <2>1, <2>2, <2>3 DEF Promised, Shown, Atomic!Unowned
  <2>4. CASE d # t
    BY <1>1, <1>3, <2>2, <2>4, VisibleCards, VisibleNext, UnlockedStays
  <2> QED
    BY <2>3, <2>4
<1>4. Visible' \in [Cards -> Atomic!States]
  BY VisibleTypeNext
<1>5. Atomic!Become([Visible EXCEPT ![t] = Atomic!Unowned(col)])
  BY <1>1, <1>3, <1>4 DEF Atomic!Become
<1> QED
  BY <1>2, <1>5 DEF Atomic!Release, Atomic!Complete

\* The steps with which an operation ends, one by one.
LEMMA EndClaimProject ==
  ASSUME BoardInv, BoardInv', [Next]_vars, ClaimProject, Idle' PROVE Atomic!Drift
<1> USE InvTypes
<1>1. /\ AgreementInv /\ ~Idle /\ op.pc = "project" /\ card' = card /\ Exempt' = Exempt
      /\ op.kind \in {"claim", "refocus"}
  BY DEF BoardInv, AgreementInv, ClaimProject, Idle, StepShape, store, history, Exempt
<1>2. op.task \notin Exempt => card[op.task] = op.snap
  BY <1>1 DEF AgreementInv, TargetProgress, Exempt
<1>3. op.demote /\ op.bumped \in Cards \ (Exempt \cup {op.task}) =>
        card[op.bumped].owner = op.agent /\ card[op.bumped].status = "doing"
  BY <1>1 DEF BoardInv, BumpProgress, AgreementInv, BumpFacts, Exempt
<1> QED
  BY <1>1, <1>2, <1>3, EndUnchanged

LEMMA EndMirrorClaim ==
  ASSUME BoardInv, BoardInv', [Next]_vars, NEW o \in Outcomes, MirrorClaim(o), Idle'
  PROVE  Atomic!Claim(op.agent, op.task)
<1>1. /\ AgreementInv /\ ~Idle /\ op.pc = "claim" /\ op.kind = "claim" /\ op \in Operations
  BY DEF BoardInv, AgreementInv, TypeOK, MirrorClaim, Idle, StepShape
<1>2. ASSUME NEW pc \in {"judge", "demote"}, NEW r, NEW D,
             op' = [[op EXCEPT !.rev = r, !.durable = D] EXCEPT !.pc = pc]
      PROVE  FALSE
  BY <1>1, <1>2 DEF Operations, Idle
<1>3. ~op.demote
  BY <1>2 DEF MirrorClaim
<1>4. op.task \notin Exempt => Promised(card'[op.task])
  BY PromisedMirrorClaim
<1> QED
  BY <1>1, <1>3, <1>4, EndClaim

LEMMA EndMirrorDemote ==
  ASSUME BoardInv, BoardInv', [Next]_vars, NEW o \in Outcomes, MirrorDemote(o), Idle'
  PROVE  Atomic!Claim(op.agent, op.task)
<1> USE InvTypes
<1>1. /\ AgreementInv /\ TypeOK /\ ~Idle /\ op.pc = "demote" /\ op \in Operations
      /\ op.kind \in {"claim", "refocus"} /\ op.demote /\ op.bumped \in Cards
      /\ Exempt' = Exempt
  BY DEF BoardInv, AgreementInv, TypeOK, MirrorDemote, Idle, StepShape, Task, Exempt, history
<1>2. Lands(op.bumped, o)
  <2>1. ASSUME Raises(op.bumped, o) PROVE FALSE
    <3>1. \E D : op' = [op EXCEPT !.pc = "judge", !.durable = D]
      BY <2>1 DEF MirrorDemote
    <3> QED BY <1>1, <3>1 DEF Operations, Idle
  <2> QED BY <2>1 DEF Raises, Lands
<1>3. ASSUME op.bumped \notin Exempt
      PROVE  card'[op.bumped].owner = op.agent /\ card'[op.bumped].status = "ready"
  <2>1. Plain(card[op.bumped]) /\ card[op.bumped].owner = op.agent
    BY <1>1, <1>3 DEF AgreementInv, CardsPlain, BumpFacts, Exempt
  <2>2. card'[op.bumped] = Apply(card[op.bumped], MoveEvent("ready"))
    BY <1>1, <1>2, MirrorCard DEF MirrorDemote
  <2> QED
    BY <1>1, <2>1, <2>2, PlainMove, NoneAssumption DEF Columns
<1>4. op.task \notin Exempt => Promised(card'[op.task])
  BY PromisedMirrorDemote
<1> QED
  BY <1>1, <1>3, <1>4, EndClaim

LEMMA EndDemoteNothing ==
  ASSUME BoardInv, BoardInv', [Next]_vars, DemoteNothing PROVE Atomic!Drift
<1>1. ~Idle /\ Idle' /\ op.bumped = None
  BY DEF DemoteNothing, Return, NoOperation, Idle
<1>2. op.task \in Exempt'
  BY RestoredNothing, ExemptGrows DEF Exempt
<1> QED
  BY <1>1, <1>2, CardsAssumption, EndUnchanged

LEMMA EndJudgeClaim ==
  ASSUME BoardInv, BoardInv', [Next]_vars, JudgeClaim, Idle'
  PROVE  Atomic!Claim(op.agent, op.task)
<1>1. /\ AgreementInv /\ ~Idle /\ op.pc = "judge" /\ op \in Operations /\ card' = card
      /\ op.kind \in {"claim", "refocus"}
  BY DEF BoardInv, AgreementInv, TypeOK, JudgeClaim, Idle, StepShape, store
<1>2. ASSUME NEW pc \in {"compRelease", "recover"}, op' = [op EXCEPT !.pc = pc] PROVE FALSE
  BY <1>1, <1>2 DEF Operations, Idle
<1>3. ClaimApplied
  BY <1>2 DEF JudgeClaim
<1>4. op.demote => card[op.bumped].owner = op.agent /\ card[op.bumped].status = "ready"
  BY <1>3 DEF ClaimApplied, Holds
<1>5. op.task \notin Exempt => Promised(card'[op.task])
  BY PromisedJudgements
<1> QED
  BY <1>1, <1>4, <1>5, EndClaim

LEMMA EndRecover ==
  ASSUME BoardInv, BoardInv', [Next]_vars, NEW o \in Outcomes, Recover(o)
  PROVE  Atomic!Drift \/ Atomic!Claim(op.agent, op.task)
<1>1. AgreementInv /\ ~Idle /\ Idle' /\ op.pc = "recover" /\ card' = card
  BY DEF BoardInv, Recover, Idle, Return, NoOperation, store
<1>2. ASSUME op.task \notin Exempt'
      PROVE  card'[op.task].owner = op.snap.owner /\ card'[op.task].status = op.snap.status
  <2>1. ~op.fatal /\ op.task \notin disturbed
    BY <1>2 DEF Recover, Exempt, history
  <2> QED
    BY <1>1, <2>1 DEF AgreementInv, TargetProgress, MatchesSnapshot
<1>3. CASE op.demote /\ op.bumped \in Cards \ (Exempt' \cup {op.task})
           /\ card[op.bumped].status # "doing"
  <2>1. /\ op.kind \in {"claim", "refocus"} /\ op.bumped \notin Exempt /\ op.bumped \notin disturbed
    BY <1>3, ExemptGrows DEF BoardInv, BumpProgress, Exempt
  <2>2. op.task \in Exempt
    BY <1>1, <1>3, <2>1 DEF BoardInv, BumpProgress
  <2>3. card[op.bumped].owner = op.agent /\ card[op.bumped].status = "ready"
    BY <1>1, <1>3, <2>1 DEF AgreementInv, BumpFacts
  <2> QED
    BY <1>1, <2>1, <2>2, <2>3, EndClaim
<1>4. CASE op.demote /\ op.bumped \in Cards \ (Exempt' \cup {op.task})
             => card[op.bumped].status = "doing"
  <2>1. op.demote /\ op.bumped \in Cards \ (Exempt' \cup {op.task})
          => card[op.bumped].owner = op.agent /\ card[op.bumped].status = "doing"
    BY <1>1, <1>4, ExemptGrows DEF BoardInv, BumpProgress, AgreementInv, BumpFacts, Exempt
  <2> QED
    BY <1>1, <1>2, <2>1, EndUnchanged
<1> QED
  BY <1>3, <1>4

LEMMA EndCrash ==
  ASSUME BoardInv, BoardInv', [Next]_vars, Crash PROVE Atomic!Drift
<1>1. AgreementInv /\ ~Idle /\ Idle' /\ Locked \subseteq Exempt'
  BY DEF BoardInv, Crash, Return, NoOperation, Idle, Exempt
<1>2. op.task \in Exempt' /\ (op.bumped \in Cards => op.bumped \in Exempt')
  BY <1>1, InvTypes, CardsAssumption DEF Locked
<1> QED
  BY <1>1, <1>2, EndUnchanged

LEMMA EndReturnExisting ==
  ASSUME BoardInv, BoardInv', [Next]_vars, ReturnExisting PROVE Atomic!Drift
<1>1. /\ AgreementInv /\ ~Idle /\ Idle' /\ op.pc = "return" /\ op.kind = "complete"
      /\ card' = card /\ Exempt' = Exempt
  BY DEF BoardInv, AgreementInv, ReturnExisting, Return, NoOperation, Idle, StepShape, store,
         Exempt, history
<1>2. op.task \notin Exempt => card[op.task] = op.snap
  BY <1>1 DEF AgreementInv, TargetProgress, Exempt
<1>3. ~op.demote
  BY <1>1 DEF BoardInv, BumpProgress
<1> QED
  BY <1>1, <1>2, <1>3, EndUnchanged

LEMMA EndReleaseComplete ==
  ASSUME BoardInv, BoardInv', [Next]_vars, Idle',
         CheckRelease \/ JudgeComplete \/ \E o \in Outcomes : MirrorComplete(o)
  PROVE  Atomic!Release(op.agent, op.task) \/ Atomic!Complete(op.agent, op.task)
<1>1. /\ ~Idle /\ op.kind \in {"release", "complete"} /\ op.pc # "return"
  BY DEF BoardInv, AgreementInv, StepShape, Idle, CheckRelease, JudgeComplete, MirrorComplete
<1>2. op.task \notin Exempt => Promised(card'[op.task])
  BY PromisedJudgements, PromisedMirrorComplete
<1> QED
  BY <1>1, <1>2, EndOwn

\* The other steps do not end an operation.
LEMMA GoesOn ==
  ASSUME BoardInv, NEW o \in Outcomes,
         \/ CompensateRelease(o) \/ CompensateReclaim(o) \/ CompensateMove(o)
         \/ MirrorRelease(o)
  PROVE  ~Idle'
<1>1. op \in Operations
  BY DEF BoardInv, AgreementInv, TypeOK
<1>2. \/ \E pc \in {"compReclaim", "compMove", "recover"} : op' = [op EXCEPT !.pc = pc]
      \/ op' = [op EXCEPT !.pc = "recover", !.fatal = TRUE]
      \/ \E D : op' = [op EXCEPT !.pc = "checkRelease", !.durable = D]
  BY DEF CompensateRelease, CompensateReclaim, CompensateMove, CompensationFailed, MirrorRelease
<1> QED
  BY <1>1, <1>2 DEF Operations, Idle

LEMMA RefinementStep ==
  ASSUME BoardInv, BoardInv', [Next]_vars PROVE Atomic!Next
<1>1. CASE ~Idle /\ ~Idle'
  BY <1>1, HiddenMiddle DEF Atomic!Next
<1>2. CASE Idle /\ ~Idle'
  BY <1>2, HiddenBegin DEF Atomic!Next
<1>3. CASE Idle /\ Idle'
  BY <1>3, HiddenIdle DEF Atomic!Next
<1>4. CASE ~Idle /\ Idle'
  <2>1. op.agent \in Agents /\ op.task \in Cards
    BY <1>4, InvTypes DEF BoardInv
  <2>2. ASSUME \/ Atomic!Drift \/ Atomic!Claim(op.agent, op.task)
               \/ Atomic!Release(op.agent, op.task) \/ Atomic!Complete(op.agent, op.task)
        PROVE  Atomic!Next
    BY <2>1, <2>2 DEF Atomic!Next
  <2>3. CASE Continue
    BY <1>4, <2>2, <2>3, EndClaimProject, EndMirrorClaim, EndMirrorDemote, EndDemoteNothing,
       EndJudgeClaim, EndRecover, EndReturnExisting, EndReleaseComplete, GoesOn DEF Continue
  <2>4. CASE Crash
    BY <2>2, <2>4, EndCrash
  <2>5. CASE Call
    BY <1>4, <2>5 DEF Call, ClaimTask, ReleaseClaim, CompleteTask, CompleteAgain
  <2>6. op' # op
    BY <1>4 DEF Idle
  <2> QED
    BY <2>3, <2>4, <2>5, <2>6 DEF Next, vars, Environment, Overlay, StoreEvent, Disturb
<1> QED
  BY <1>1, <1>2, <1>3, <1>4

\* To every caller claim_task, release_claim and complete_task are atomic,
\* although each is several writes to the agent's file and the card's log, any
\* of which may fail, and although the process may die or the overlay may write
\* between any two of them: Board implements AtomicBoard.
THEOREM Refinement == Spec => ImplementsAtomic
<1>1. Init => Atomic!Init
  <2> SUFFICES ASSUME Init PROVE Atomic!Init
    OBVIOUS
  <2>1. Idle /\ ~op.demote /\ Exempt = {}
    BY DEF Init, Idle, NoOperation, Exempt
  <2>2. \A c \in Cards : Shown(card[c]) = Atomic!Unowned("backlog")
    BY DEF Init, NewCard, Shown, Atomic!Unowned
  <2>3. Visible = [c \in Cards |-> Atomic!Unowned("backlog")]
    BY <2>1, <2>2 DEF Visible
  <2> QED
    BY <2>1, <2>3 DEF Atomic!Init
<1>2. BoardInv /\ BoardInv' /\ [Next]_vars => [Atomic!Next]_(Atomic!vars)
  BY RefinementStep
<1> QED
  BY <1>1, <1>2, BoardInvHolds, PTL DEF Spec, ImplementsAtomic, Atomic!Spec

-----------------------------------------------------------------------------
(* What a caller may conclude *)

\* Cards that count are well typed, and a done one has no owner.
Settled ==
  /\ Visible \in [Cards -> Atomic!States]
  /\ \A c \in Cards \ Exempt : Visible[c].status = "done" => Visible[c].owner = None

PromiseInv == Settled /\ Atomic!OneAtATime /\ Atomic!Gate

-----------------------------------------------------------------------------
LEMMA PromiseInit ==
  ASSUME Atomic!Init PROVE PromiseInv
BY DEF Atomic!Init, PromiseInv, Settled, Atomic!OneAtATime, Atomic!Gate, Atomic!WorksOn, Atomic!Unowned,
       Atomic!States

LEMMA PromiseDrift ==
  ASSUME PromiseInv, Atomic!Drift PROVE PromiseInv'
<1>1. /\ Visible' \in [Cards -> Atomic!States] /\ Exempt \subseteq Exempt'
      /\ \A c \in Cards \ Exempt' : Visible'[c] = Visible[c]
  BY DEF Atomic!Drift, Atomic!Become
<1>2. Settled' /\ Atomic!OneAtATime'
  BY <1>1 DEF PromiseInv, Settled, Atomic!OneAtATime, Atomic!WorksOn
<1>3. Atomic!Gate'
  BY <1>1, DepsAssumption DEF PromiseInv, Atomic!Gate
<1> QED
  BY <1>2, <1>3 DEF PromiseInv

\* After a claim of c its agent works on c alone.
LEMMA PromiseClaim ==
  ASSUME PromiseInv,
         NEW a \in Agents, NEW c \in Cards, Atomic!Claim(a, c)
  PROVE  PromiseInv'
<1>1. /\ Visible' \in [Cards -> Atomic!States] /\ Exempt \subseteq Exempt'
      /\ c \notin Exempt => /\ Visible[c].owner \in {None, a} /\ Visible[c].status # "done"
                           /\ Atomic!DepsDone(c)
  BY DEF Atomic!Claim, Atomic!Become
<1>2. \A d \in Cards \ Exempt' :
        Visible'[d] = IF d = c THEN [owner |-> a, status |-> "doing"]
                    ELSE IF Atomic!WorksOn(a, d) THEN [owner |-> a, status |-> "ready"]
                    ELSE Visible[d]
  BY DEF Atomic!Claim, Atomic!Become
<1>3. /\ c \notin Exempt' => Visible'[c].owner = a /\ Visible'[c].status = "doing"
      /\ \A d \in Cards \ Exempt' : d # c =>
           \/ Atomic!WorksOn(a, d) /\ Visible'[d].owner = a /\ Visible'[d].status = "ready"
           \/ ~Atomic!WorksOn(a, d) /\ Visible'[d] = Visible[d]
  BY <1>2
<1>4. Settled'
  BY <1>1, <1>3 DEF PromiseInv, Settled
<1>5. Atomic!OneAtATime'
  BY <1>1, <1>3 DEF PromiseInv, Atomic!OneAtATime, Atomic!WorksOn
<1>6. \A d \in Cards \ Exempt' : Visible[d].status = "done" => Visible'[d].status = "done"
  BY <1>1, <1>3 DEF Atomic!WorksOn
<1>7. Atomic!Gate'
  <2> SUFFICES ASSUME NEW x \in Cards \ Exempt', Visible'[x].status # "backlog",
                      NEW d \in Deps[x] \ Exempt'
               PROVE  Visible'[d].status = "done"
    BY DEF Atomic!Gate
  <2>1. x = c \/ Visible[x].status # "backlog"
    BY <1>3 DEF Atomic!WorksOn
  <2>2. d \in Cards /\ d \notin Exempt /\ x \notin Exempt
    BY <1>1, DepsAssumption
  <2>3. Visible[d].status = "done"
    BY <1>1, <2>1, <2>2 DEF PromiseInv, Atomic!Gate, Atomic!DepsDone
  <2> QED
    BY <1>6, <2>2, <2>3
<1> QED
  BY <1>4, <1>5, <1>7 DEF PromiseInv

\* A release and a completion give a card back.
LEMMA PromiseGiveBack ==
  ASSUME PromiseInv, NEW c \in Cards,
         NEW column \in {"backlog", "done"},
         Atomic!Become([Visible EXCEPT ![c] = Atomic!Unowned(column)]),
         c \notin Exempt =>
           \/ column = "backlog" /\ Visible[c].status # "done"
           \/ column = "done" /\ Atomic!DepsDone(c)
  PROVE  PromiseInv'
<1>1. /\ Visible' \in [Cards -> Atomic!States] /\ Exempt \subseteq Exempt'
      /\ c \notin Exempt' => Visible'[c].owner = None /\ Visible'[c].status = column
      /\ \A d \in Cards \ Exempt' : d # c => Visible'[d] = Visible[d]
  BY DEF Atomic!Become, Atomic!Unowned, PromiseInv, Settled
<1>2. Settled'
  BY <1>1 DEF PromiseInv, Settled
<1>3. Atomic!OneAtATime'
  BY <1>1 DEF PromiseInv, Atomic!OneAtATime, Atomic!WorksOn
<1>4. \A d \in Cards \ Exempt' : Visible[d].status = "done" => Visible'[d].status = "done"
  BY <1>1
<1>5. Atomic!Gate'
  <2> SUFFICES ASSUME NEW x \in Cards \ Exempt', Visible'[x].status # "backlog",
                      NEW d \in Deps[x] \ Exempt'
               PROVE  Visible'[d].status = "done"
    BY DEF Atomic!Gate
  <2>1. d \in Cards /\ d \notin Exempt /\ x \notin Exempt
    BY <1>1, DepsAssumption
  <2>2. Visible[d].status = "done"
    BY <1>1, <2>1 DEF PromiseInv, Atomic!Gate, Atomic!DepsDone
  <2> QED
    BY <1>4, <2>1, <2>2
<1> QED
  BY <1>2, <1>3, <1>5 DEF PromiseInv

LEMMA PromiseStep ==
  ASSUME PromiseInv, [Atomic!Next]_(Atomic!vars)
  PROVE  PromiseInv'
<1>1. CASE UNCHANGED Atomic!vars
  BY <1>1 DEF Atomic!vars, PromiseInv, Settled, Atomic!OneAtATime, Atomic!Gate, Atomic!WorksOn
<1>2. ASSUME NEW a \in Agents, NEW c \in Cards, Atomic!Release(a, c) PROVE PromiseInv'
  <2>1. c \notin Exempt => Visible[c].status # "done"
    BY <1>2, NoneAssumption DEF Atomic!Release, PromiseInv, Settled
  <2> QED
    BY <1>2, <2>1, PromiseGiveBack DEF Atomic!Release
<1>3. ASSUME NEW a \in Agents, NEW c \in Cards, Atomic!Complete(a, c) PROVE PromiseInv'
  BY <1>3, PromiseGiveBack DEF Atomic!Complete
<1> QED
  BY <1>1, <1>2, <1>3, PromiseDrift, PromiseClaim DEF Atomic!Next

\* What the promise is worth to a caller of claim_task, release_claim and complete_task:
\* among the cards that nothing outside the protocol has touched, no agent ever works on
\* two, and none is in progress whose dependencies are not done.
THEOREM PromiseKept == Spec => [](Atomic!OneAtATime /\ Atomic!Gate)
<1>1. Atomic!Init => PromiseInv
  BY PromiseInit
<1>2. PromiseInv /\ [Atomic!Next]_(Atomic!vars) => PromiseInv'
  BY PromiseStep
<1>3. PromiseInv => Atomic!OneAtATime /\ Atomic!Gate
  BY DEF PromiseInv
<1>4. Spec => Atomic!Init /\ [][Atomic!Next]_(Atomic!vars)
  BY Refinement DEF ImplementsAtomic, Atomic!Spec
<1> QED
  BY <1>1, <1>2, <1>3, <1>4, PTL
=============================================================================
