----------------------------- MODULE Lifecycle ------------------------------
(***************************************************************************)
(* lifecycle.py: audit and repair of the agent projections.                *)
(*                                                                         *)
(* The cards are authoritative; a projection that disagrees with them is   *)
(* rewritten.  A repair logs an intent, saves the projections one by one,  *)
(* audits again and logs that it committed; an error puts the projections  *)
(* back.  transition_task moves one card and repairs around it, and undoes *)
(* the move when that fails.  One job runs at a time, under the board      *)
(* lock; kanban events take no lock and may fall between any two steps.    *)
(***************************************************************************)
EXTENDS Naturals, Sequences, FiniteSets

CONSTANTS Agents, Cards, None,
          Moves,       \* columns that cards are moved to
          MaxDrift,    \* bound on board operations and kanban events
          MaxFaults,   \* bound on failed writes and crashes
          MaxRepairs   \* bound on repairs

ASSUME NoneIsNothing == None \notin Agents \cup Cards

ASSUME BoundsKnown ==
  /\ IsFiniteSet(Agents)
  /\ Moves \subseteq {"backlog", "ready", "doing", "review", "done"}
  /\ MaxDrift \in Nat /\ MaxFaults \in Nat /\ MaxRepairs \in Nat

VARIABLES card,      \* [Cards -> [owner, status]]; "missing" if the card is gone
          agent,     \* [Agents -> [current, claimed, completed]]
          active,    \* agents seen recently
          job,       \* the running repair or transition and its locals
          result,    \* how the last job ended; "none" while one runs
          receipts,  \* [scope, seen] per repair, in the order of their start
          drift, faults

vars == <<card, agent, active, job, result, receipts, drift, faults>>

Columns == {"backlog", "ready", "doing", "review", "done"}

Projections == [current : Cards \cup {None}, claimed : SUBSET Cards, completed : SUBSET Cards]

\* The scope of a repair is the set of tasks it may look at.  An unscoped one
\* also covers agents that have no current task.
Unscoped == Cards \cup {None}
Scopes == {Unscoped} \cup {{c} : c \in Cards}

Exists(c) == card[c].status # "missing"

DoingOf(a) == {c \in Cards : card[c].owner = a /\ card[c].status = "doing"}

ActiveOf(a, S) ==
  {c \in Cards \cap S : card[c].owner = a /\ card[c].status \in {"ready", "review", "doing"}}

-----------------------------------------------------------------------------
(* Audit *)

Claims(a, t) == t \in agent[a].claimed

Orphan(a, t) == Claims(a, t) /\ ~Exists(t)

NotWorking(a, t) == Claims(a, t) /\ card[t].status \in {"backlog", "done"}

NotOwner(a, t) ==
  Claims(a, t) /\ card[t].status \in {"ready", "review", "doing"} /\ card[t].owner \notin {None, a}

CurrentWrong(a, t) ==
  agent[a].current = t /\ (~Claims(a, t) \/ card[t].status \in {"review", "done"})

ReopenedButCompleted(a, t) ==
  t \in agent[a].completed /\ Exists(t) /\ card[t].status # "done"

Claimants(t) == {a \in Agents : Claims(a, t)}

OwnerLacksClaim(a, t) == t \in ActiveOf(a, {t}) /\ ~Claims(a, t)

DoingNotCurrent(a, S) == DoingOf(a) \cap S # {} /\ agent[a].current \notin DoingOf(a)

\* _audit_lifecycle_unlocked finds no issue within S.
Clean(S) ==
  /\ \A a \in Agents, t \in Cards \cap S :
       ~ \/ Orphan(a, t) \/ NotWorking(a, t) \/ NotOwner(a, t) \/ CurrentWrong(a, t)
         \/ ReopenedButCompleted(a, t) \/ OwnerLacksClaim(a, t)
  /\ \A t \in Cards \cap S : Cardinality(Claimants(t)) <= 1
  /\ \A a \in Agents : ~DoingNotCurrent(a, S)

\* Fault: only rival claims of two active agents are looked for.
ActiveRivals(S) == \E t \in Cards \cap S : Cardinality(Claimants(t) \cap active) > 1

\* _assert_no_active_conflicts: what a repair refuses to overwrite.
ActiveConflict(S) ==
  \E t \in Cards \cap S :
    \/ \E a \in active : Orphan(a, t) \/ NotOwner(a, t)
    \/ Cardinality(Claimants(t) \cap active) > 1

-----------------------------------------------------------------------------
(* The repaired projections *)

\* Fault: whoever claims a card in progress keeps it.
KeepsClaimOfAny(a, t, S) ==
  \/ t \notin S
  \/ ~Exists(t) /\ a \in active
  \/ card[t].status \in {"ready", "review", "doing"}

KeepsClaim(a, t, S) ==
  \/ t \notin S
  \/ ~Exists(t) /\ a \in active
  \/ card[t].status \in {"ready", "review", "doing"} /\ card[t].owner \in {None, a}

Retained(a, S) == {t \in agent[a].claimed : KeepsClaim(a, t, S)}

First(X) == CHOOSE c \in X : TRUE

\* Fault: completions of cards that are gone go too.
KeepsCompletionOfKnown(a, t, S) == card[t].status = "done" \/ t \notin S

KeepsCompletion(a, t, S) == ~Exists(t) \/ card[t].status = "done" \/ t \notin S

\* What the first loop makes of a's current task.
CurrentAfterRelease(a, S) ==
  LET cur  == agent[a].current
      kept == IF cur \in S /\ (cur \notin Retained(a, S) \/ (Exists(cur) /\ card[cur].status # "doing"))
                THEN None ELSE cur
      mine == {c \in DoingOf(a) : c \in Retained(a, S) \/ c \in S}
  IN IF cur \in S /\ kept = None /\ mine # {} THEN First(mine) ELSE kept

\* The second loop gives every owner what the cards say.
Repaired(a, S) ==
  LET cur == CurrentAfterRelease(a, S)
      due == DoingOf(a) \cap S
  IN [current   |-> IF due # {} /\ cur \notin DoingOf(a) THEN First(due)
                    ELSE IF cur \in ActiveOf(a, S) \ DoingOf(a) THEN None ELSE cur,
      claimed   |-> Retained(a, S) \cup ActiveOf(a, S),
      completed |-> ({t \in agent[a].completed : KeepsCompletion(a, t, S)}
                       \cup {t \in Cards \cap S : card[t].owner = a /\ card[t].status = "done"})
                      \ ActiveOf(a, S)]

-----------------------------------------------------------------------------
(* Jobs *)

NoJob == [pc |-> "idle", task |-> None, to |-> "backlog", back |-> "backlog", attempt |-> 1,
          scope |-> {}, orig |-> <<>>, plan |-> <<>>, todo |-> {}, unresolved |-> {},
          intent |-> FALSE, disturbed |-> FALSE]

\* Fault: "recovered" does not settle an intent.
TerminalWithoutRecovered == {"committed", "rolled_back"}

Terminal == {"committed", "rolled_back", "recovered"}

Unresolved == {i \in 1..Len(receipts) :
                 "intent" \in receipts[i].seen /\ receipts[i].seen \cap Terminal = {}}

Me == Len(receipts)

Log(i, phase) == receipts' = [receipts EXCEPT ![i].seen = @ \cup {phase}]

Fault == faults < MaxFaults /\ faults' = faults + 1

\* Agents at work on at most one card each, in agreement with the cards, some of
\* which have then disappeared.
Init ==
  /\ \E who \in [Cards -> Agents \cup {None}], gone \in SUBSET Cards :
       /\ \A c, d \in Cards : c # d /\ who[c] = who[d] => who[c] = None
       /\ card = [c \in Cards |->
                    IF c \in gone THEN [owner |-> None, status |-> "missing"]
                    ELSE [owner |-> who[c], status |-> IF who[c] = None THEN "backlog" ELSE "doing"]]
       /\ agent = [a \in Agents |->
                     LET mine == {c \in Cards : who[c] = a}
                     IN [current |-> IF mine = {} THEN None ELSE First(mine),
                         claimed |-> mine, completed |-> {}]]
  /\ active \in SUBSET Agents
  /\ job = NoJob /\ result = "none"
  /\ receipts = <<>>
  /\ drift = 0 /\ faults = 0

End(r) == job' = NoJob /\ result' = r

\* An exception leaves the repair: a transition undoes its move, once.
Raise ==
  IF job.task = None THEN End("error")
  ELSE IF job.attempt = 2 THEN End("broken")
  ELSE job' = [job EXCEPT !.pc = "unmove"] /\ UNCHANGED result

\* repair_lifecycle; a conflict refuses it before anything is written.
RepairLifecycle(S) ==
  /\ job.pc = "idle"
  /\ job' = [NoJob EXCEPT !.pc = "begin", !.scope = S]
  /\ result' = "none"
  /\ UNCHANGED <<card, agent, active, receipts, drift, faults>>

\* transition_task.
TransitionTask(c, col) ==
  /\ job.pc = "idle" /\ Exists(c) /\ ~ActiveConflict({c})
  /\ job' = [NoJob EXCEPT !.pc = "move", !.task = c, !.to = col, !.back = card[c].status,
                          !.scope = {c}]
  /\ result' = "none"
  /\ UNCHANGED <<card, agent, active, receipts, drift, faults>>

\* append_move writes the overlay and the store; either alone moves the card.
Move(from, col) ==
  /\ job.pc = from
  /\ \/ /\ card' = [card EXCEPT ![job.task].status = col]
        /\ job' = [job EXCEPT !.pc = "begin", !.attempt = IF from = "unmove" THEN 2 ELSE 1]
        /\ UNCHANGED <<result, faults>>
     \/ /\ Fault
        /\ card' \in {card, [card EXCEPT ![job.task].status = col]}
        /\ IF from = "unmove" THEN End("broken")
           ELSE job' = [job EXCEPT !.pc = "unmove"] /\ UNCHANGED result
  /\ UNCHANGED <<agent, active, receipts, drift>>

MoveCard == Move("move", job.to)
Unmove == Move("unmove", job.back)

\* Fault: straight to the projections, without an intent.
BeginUnlogged ==
  /\ job.pc = "begin" /\ Len(receipts) < MaxRepairs
  /\ IF ActiveConflict(job.scope)
       THEN Raise /\ UNCHANGED receipts
       ELSE /\ job' = [job EXCEPT !.pc = "save", !.orig = agent, !.unresolved = Unresolved,
                                  !.plan = [a \in Agents |-> Repaired(a, job.scope)],
                                  !.todo = {a \in Agents : Repaired(a, job.scope) # agent[a]},
                                  !.intent = FALSE]
            /\ receipts' = Append(receipts, [scope |-> job.scope, seen |-> {}])
            /\ UNCHANGED result
  /\ UNCHANGED <<card, agent, active, drift, faults>>

\* Read everything, refuse conflicts, plan.
Begin ==
  /\ job.pc = "begin" /\ Len(receipts) < MaxRepairs
  /\ IF ActiveConflict(job.scope)
       THEN Raise /\ UNCHANGED receipts
       ELSE /\ job' = [job EXCEPT !.pc = "intent", !.orig = agent, !.unresolved = Unresolved,
                                  !.plan = [a \in Agents |-> Repaired(a, job.scope)],
                                  !.todo = {a \in Agents : Repaired(a, job.scope) # agent[a]},
                                  !.intent = FALSE]
            /\ receipts' = Append(receipts, [scope |-> job.scope, seen |-> {}])
            /\ UNCHANGED result
  /\ UNCHANGED <<card, agent, active, drift, faults>>

\* A receipt is appended, or the append raises, durable or not.
WriteReceipt(from, i, phase, next) ==
  /\ job.pc = from
  /\ \/ Log(i, phase) /\ job' = next /\ UNCHANGED faults
     \/ /\ Fault
        /\ Log(i, phase) \/ UNCHANGED receipts
        /\ job' = [job EXCEPT !.pc = "restore"]
  /\ UNCHANGED <<card, agent, active, result, drift>>

WriteIntent == WriteReceipt("intent", Me, "intent", [job EXCEPT !.pc = "save", !.intent = TRUE])

SaveProjection ==
  /\ job.pc = "save"
  /\ \E a \in job.todo :
       \/ /\ agent' = [agent EXCEPT ![a] = job.plan[a]]
          /\ job' = [job EXCEPT !.todo = @ \ {a}]
          /\ UNCHANGED faults
       \/ /\ Fault
          /\ agent' \in {agent, [agent EXCEPT ![a] = job.plan[a]]}
          /\ job' = [job EXCEPT !.pc = "restore"]
  /\ UNCHANGED <<card, active, result, receipts, drift>>

\* Fault: the audit after the save is skipped.
AuditSkipped ==
  /\ job.pc = "save" /\ job.todo = {}
  /\ job' = [job EXCEPT !.pc = "commit"]
  /\ UNCHANGED <<card, agent, active, result, receipts, drift, faults>>

\* "repair did not converge" is an error like any other.
AuditAgain ==
  /\ job.pc = "save" /\ job.todo = {}
  /\ job' = [job EXCEPT !.pc = IF Clean(job.scope) THEN "commit" ELSE "restore"]
  /\ UNCHANGED <<card, agent, active, result, receipts, drift, faults>>

\* Fault: any later repair settles an intent.
RecoverableAll == job.unresolved

\* Interrupted repairs whose scope this one covers.
Recoverable == {i \in job.unresolved : receipts[i].scope \subseteq job.scope}

WriteCommitted ==
  WriteReceipt("commit", Me, "committed", [job EXCEPT !.pc = "recover", !.unresolved = Recoverable])

WriteRecovered ==
  \E i \in job.unresolved :
    WriteReceipt("recover", i, "recovered", [job EXCEPT !.unresolved = @ \ {i}])

\* The repair succeeded; after an undone move the caller still gets the error.
Finish ==
  /\ job.pc = "recover" /\ job.unresolved = {}
  /\ End(IF job.attempt = 2 THEN "error" ELSE "ok")
  /\ UNCHANGED <<card, agent, active, receipts, drift, faults>>

\* Fault: the projections stay as they are.
RestoreNothing ==
  /\ job.pc = "restore"
  /\ IF job.intent THEN job' = [job EXCEPT !.pc = "rollback"] /\ UNCHANGED result ELSE Raise
  /\ UNCHANGED <<card, agent, active, receipts, drift, faults>>

RestoreProjections ==
  /\ job.pc = "restore"
  /\ \/ /\ agent' = job.orig
        /\ IF job.intent THEN job' = [job EXCEPT !.pc = "rollback"] /\ UNCHANGED result ELSE Raise
        /\ UNCHANGED faults
     \/ /\ Fault
        /\ \E A \in SUBSET Agents :
             agent' = [a \in Agents |-> IF a \in A THEN job.orig[a] ELSE agent[a]]
        /\ IF job.task = None THEN End("broken") ELSE Raise
  /\ UNCHANGED <<card, active, receipts, drift>>

\* That the roll-back could not be logged is ignored.
WriteRolledBack ==
  /\ job.pc = "rollback"
  /\ \/ Log(Me, "rolled_back") /\ UNCHANGED faults
     \/ UNCHANGED receipts /\ Fault
  /\ Raise
  /\ UNCHANGED <<card, agent, active, drift>>

Crash ==
  /\ job.pc # "idle" /\ Fault
  /\ End("crash")
  /\ UNCHANGED <<card, agent, active, receipts, drift>>

-----------------------------------------------------------------------------
(* The rest of the system *)

\* Kanban moves and assignments: no lock.
KanbanEvent ==
  /\ drift < MaxDrift /\ drift' = drift + 1
  /\ \E c \in Cards :
       /\ Exists(c)
       /\ \/ \E col \in Moves \ {card[c].status} : card' = [card EXCEPT ![c].status = col]
          \/ \E a \in (Agents \cup {None}) \ {card[c].owner} : card' = [card EXCEPT ![c].owner = a]
  /\ job' = [job EXCEPT !.disturbed = job.pc # "idle"]
  /\ UNCHANGED <<agent, active, result, receipts, faults>>

\* Board operations save the agent's file first and append to the card then; a
\* crash may come between.  They pass the checks of the host they run on, which
\* may not have seen the other hosts' events yet, or the loss of a card.
BoardOperation ==
  /\ job.pc = "idle" /\ drift < MaxDrift /\ drift' = drift + 1
  /\ UNCHANGED <<active, job, result, receipts, faults>>

\* The claim of a card in progress does not replace its owner.
ClaimedCard(a, c) ==
  IF ~Exists(c) \/ c \in UNION {ActiveOf(b, Cards) : b \in Agents \ {a}} THEN card[c]
  ELSE [owner |-> a, status |-> "doing"]

\* _claim_task saves the projection; the claim of the card and the demotion of
\* the task that was current follow.
ClaimTask(a, c) ==
  LET bumped  == {agent[a].current} \ {None, c}
      claimed == [card EXCEPT ![c] = ClaimedCard(a, c)]
      demoted == [d \in Cards |-> IF d \in bumped /\ Exists(d)
                                    THEN [claimed[d] EXCEPT !.status = "ready"] ELSE claimed[d]]
  IN /\ BoardOperation
     /\ agent' = [agent EXCEPT ![a].current = c, ![a].claimed = @ \cup {c}]
     /\ card' \in {card, claimed, demoted}

\* _complete_task; a remaining claim becomes current.
CompleteTask(a, c) ==
  LET rest == agent[a].claimed \ {c}
  IN /\ BoardOperation
     /\ \E next \in IF agent[a].current # c THEN {agent[a].current}
                    ELSE IF rest = {} THEN {None} ELSE rest :
          agent' = [agent EXCEPT ![a] = [current |-> next, claimed |-> rest,
                                         completed |-> @.completed \cup {c}]]
     /\ card' \in {card, [card EXCEPT ![c] = IF Exists(c) THEN [owner |-> None, status |-> "done"] ELSE @]}

Step ==
  \/ MoveCard \/ Unmove \/ Begin \/ WriteIntent \/ SaveProjection \/ AuditAgain
  \/ WriteCommitted \/ WriteRecovered \/ Finish \/ RestoreProjections \/ WriteRolledBack \/ Crash

Next ==
  \/ \E S \in Scopes : RepairLifecycle(S)
  \/ \E c \in Cards, col \in Moves : TransitionTask(c, col)
  \/ \E a \in Agents, c \in Cards : ClaimTask(a, c) \/ CompleteTask(a, c)
  \/ Step \/ KanbanEvent

Spec == Init /\ [][Next]_vars

-----------------------------------------------------------------------------
(* Properties *)

Jobs ==
  [pc : {"idle", "move", "begin", "intent", "save", "commit", "recover", "restore", "rollback",
         "unmove"},
   task : Cards \cup {None}, to : Columns, back : Columns, attempt : 1..2,
   scope : Scopes \cup {{}}, orig : {<<>>} \cup [Agents -> Projections],
   plan : {<<>>} \cup [Agents -> Projections], todo : SUBSET Agents, unresolved : SUBSET Nat,
   intent : BOOLEAN, disturbed : BOOLEAN]

Receipts == [scope : Scopes, seen : SUBSET ({"intent"} \cup Terminal)]

TypeOK ==
  /\ card \in [Cards -> [owner : Agents \cup {None}, status : Columns \cup {"missing"}]]
  /\ agent \in [Agents -> Projections]
  /\ active \subseteq Agents
  /\ job \in Jobs /\ job.unresolved \subseteq 1..Len(receipts)
  /\ result \in {"none", "ok", "error", "broken", "crash"}
  /\ receipts \in Seq(Receipts)
  /\ drift \in 0..MaxDrift /\ faults \in 0..MaxFaults

Ends(r) == job.pc # "idle" /\ job'.pc = "idle" /\ result' = r

\* A planned repair leaves nothing to find for the audit that follows it, unless
\* a kanban event came between, or agents compete for a card that nobody owns
\* (_repair_lifecycle_unlocked has no rule for those).
Converges ==
  job.pc = "save" /\ job.todo = {} /\ ~job.disturbed =>
    \/ Clean(job.scope)
    \/ \E t \in Cards \cap job.scope : card[t].owner = None /\ Cardinality(Claimants(t)) > 1

\* A repair or a transition that returns has left its scope in order.
SuccessIsClean == [][Ends("ok") /\ ~job.disturbed => Clean(job.scope)]_vars

\* A repair that raises has put every projection back; a transition that raises
\* has put the card back and its projections in order.
ErrorUndoes ==
  [][Ends("error") /\ ~job.disturbed =>
       IF job.task = None THEN job.orig # <<>> => agent' = job.orig
       ELSE /\ card'[job.task].status = job.back
            /\ \A S \in Scopes : S = job.scope => Clean(S)']_vars

\* No projection differs from what the job found unless its intent is durable,
\* so an interrupted repair is always on record (_unresolved_receipt_ids).
IntentFirst ==
  job.orig # <<>> /\ agent # job.orig => "intent" \in receipts[Me].seen

\* What holds in the middle of a repair: it is on record and its plan suffices.
RepairSound == Converges /\ IntentFirst

\* An interrupted repair is only called recovered when all it was about is in
\* order again.
RecoveredWasClean ==
  [][\A i \in 1..Len(receipts) :
       "recovered" \in receipts'[i].seen \ receipts[i].seen /\ ~job.disturbed
         => Clean(receipts[i].scope)]_vars

\* What an agent completed stays on record when the card is gone: "It never
\* deletes completion history for missing cards."
HistoryKept ==
  [][\A a \in Agents, c \in Cards :
       ~Exists(c) /\ c \in agent[a].completed => c \in agent'[a].completed]_vars

\* Of an agent that was seen recently, a repair takes only claims of cards that
\* are back in the backlog or done.
ActiveWorkKept ==
  [][job.pc = "save" /\ ~job.disturbed =>
       \A a \in active, t \in Cards :
         Claims(a, t) /\ t \notin agent'[a].claimed => card[t].status \in {"backlog", "done"}]_vars

\* No step takes from an agent what it has done or is doing.
WorkKept == HistoryKept /\ ActiveWorkKept
=============================================================================
