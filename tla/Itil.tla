-------------------------------- MODULE Itil --------------------------------
(***************************************************************************)
(* One ITIL record (an incident, a problem or a change) as one replica     *)
(* holds it.  Every writer appends to a file of its own and the files are  *)
(* synchronised, so an event may arrive long after it was stamped: the log *)
(* below is in the order of the stamps, and an arriving event is put       *)
(* anywhere into it.  CAB votes are files that are overwritten and arrive  *)
(* in the same way.                                                        *)
(*                                                                         *)
(* Meanwhile local processes run the calls of ITILManager that read the    *)
(* fold and act on it: they open and complete tasks in the operator's GTD  *)
(* lists, which are outside this repository.  No lock spans their steps.   *)
(* Emitting a task may fail; a process may die between any two steps.      *)
(***************************************************************************)
EXTENDS ItilFold, SequencesExt

CONSTANTS Agents,     \* voters and drafters
          Procs,      \* local processes
          Items,      \* identities of GTD tasks
          Targets,    \* [kind of record -> statuses that callers ask for]
          Severities,
          MaxEvents   \* [kind of record -> bound on the log]

ASSUME ItilAssumption ==
  /\ None \notin Agents \cup Items
  /\ Severities \subseteq DOMAIN SevRank

VARIABLES rec,     \* kind and birth facts (core.json); never changes
          log,     \* events in fold order
          votes,   \* [Agents -> vote]
          pc,      \* [Procs -> step of the call it is in]
          held,    \* [Procs -> task emitted and not yet linked]
          tasks,   \* tasks emitted so far
          done,    \* tasks completed
          loose    \* history: tasks and record may differ (crash, race, remote close)

vars == <<rec, log, votes, pc, held, tasks, done, loose>>

Steps == {"idle", "emit", "link", "reopen", "complete", "close", "kedb"}

Event(kind, arg, note) == [kind |-> kind, arg |-> arg, note |-> note]

Status(to, note) == Event("status", to, note)

\* The record as the log reads now, and as some other log would read.
FoldOf(events) == FoldRecord(rec, votes, events)

Fold == FoldOf(log)

Live(status) == IF rec.kind = "incident" THEN status \in OpenIncident ELSE status # "resolved"

\* Births.  The creator of an incident or a problem goes on to emit its task.
Births ==
  [kind : {"incident"}, severity : Severities] \cup [kind : {"problem"}]
    \cup [kind : {"change"}, type : {"standard", "emergency"}, eligible : {FALSE}]
    \cup [kind : {"change"}, type : {"normal"}, eligible : BOOLEAN]

Init ==
  /\ rec \in Births
  /\ log = <<>>
  /\ votes = [a \in Agents |-> "abstain"]
  /\ \E p \in Procs :
       pc = [q \in Procs |-> IF q = p /\ rec.kind # "change" THEN "emit" ELSE "idle"]
  /\ held = [p \in Procs |-> None]
  /\ tasks = {} /\ done = {}
  /\ loose = FALSE

Goto(p, step) == pc' = [pc EXCEPT ![p] = step]

\* A local append: stamped now, hence last.
Append1(e) == Len(log) < MaxEvents[rec.kind] /\ log' = Append(log, e)

-----------------------------------------------------------------------------
(* Events that arrive, and local calls that only append *)

Arriving ==
  {Status(to, TRUE) : to \in Targets[rec.kind]} \cup
  CASE rec.kind = "incident" ->
         {Event("severity", s, FALSE) : s \in Severities} \cup {Event("reopen", None, FALSE)}
    [] rec.kind = "problem" -> {Event(k, None, FALSE) : k \in {"root_cause", "link_kedb"}}
    [] rec.kind = "change" ->
         {Status(to, FALSE) : to \in Targets["change"]}
           \cup {Event("pr_link", a, FALSE) : a \in Agents}
           \cup {Event("validation", v, FALSE) : v \in {"passed", "failed"}}
           \cup {Event(k, None, FALSE) : k \in {"tags", "schedule", "unschedule", "window_missed"}}

Arrive ==
  /\ Len(log) < MaxEvents[rec.kind]
  /\ \E e \in Arriving, i \in 1..(Len(log) + 1) :
       /\ log' = InsertAt(log, i, e)
       /\ loose' = (loose \/ (rec.kind # "change" /\ Live(Fold.status) /\ ~Live(FoldOf(log').status)))
  /\ UNCHANGED <<rec, votes, pc, held, tasks, done>>

SubmitCabVote ==
  /\ rec.kind = "change"
  /\ \E a \in Agents, d \in {"approved", "rejected", "abstain"} : votes' = [votes EXCEPT ![a] = d]
  /\ UNCHANGED <<rec, log, pc, held, tasks, done, loose>>

-----------------------------------------------------------------------------
(* Calls that act on what they read *)

\* create_incident on an ID that exists: reopen what is resolved.
CreateIncident(p) ==
  /\ rec.kind = "incident" /\ pc[p] = "idle"
  /\ Goto(p, IF Fold.status = "resolved" THEN "reopen" ELSE "emit")
  /\ UNCHANGED <<rec, log, votes, held, tasks, done, loose>>

Reopen(p) ==
  /\ pc[p] = "reopen"
  /\ Append1(Event("reopen", None, FALSE))
  /\ Goto(p, "emit")
  /\ UNCHANGED <<rec, votes, held, tasks, done, loose>>

\* update_incident and update_problem with new_status "resolved".
Resolve(p) ==
  /\ rec.kind \in {"incident", "problem"} /\ pc[p] = "idle"
  /\ Append1(Status("resolved", FALSE))
  /\ Goto(p, "complete")
  /\ UNCHANGED <<rec, votes, held, tasks, done, loose>>

\* An error on the way is logged and leaves the remaining tasks open.
Complete(p) ==
  /\ pc[p] = "complete"
  /\ \E X \in SUBSET Fold.items :
       /\ done' = done \cup X
       /\ loose' = (loose \/ X # Fold.items \/ \E q \in Procs : pc[q] = "link")
  /\ Goto(p, "idle")
  /\ UNCHANGED <<rec, log, votes, held, tasks>>

\* auto_close_resolved: list, then close.
AutoClose(p) ==
  /\ rec.kind = "incident" /\ pc[p] = "idle" /\ Fold.resolvedAt /\ Fold.status = "resolved"
  /\ Goto(p, "close")
  /\ UNCHANGED <<rec, log, votes, held, tasks, done, loose>>

Close(p) ==
  /\ pc[p] = "close"
  /\ Append1(Status("closed", TRUE))
  /\ Goto(p, "idle")
  /\ UNCHANGED <<rec, votes, held, tasks, done, loose>>

\* update_problem with create_kedb: an entry once the cause is known.
CreateKedb(p) ==
  /\ rec.kind = "problem" /\ pc[p] = "idle" /\ Fold.cause
  /\ Goto(p, "kedb")
  /\ UNCHANGED <<rec, log, votes, held, tasks, done, loose>>

LinkKedb(p) ==
  /\ pc[p] = "kedb"
  /\ Append1(Event("link_kedb", None, FALSE))
  /\ Goto(p, "idle")
  /\ UNCHANGED <<rec, votes, held, tasks, done, loose>>

\* update_change with new_status "approved", on a change that names its
\* implementer.
UpdateChange(p) ==
  /\ rec.kind = "change" /\ pc[p] = "idle"
  /\ Append1(Status("approved", FALSE))
  /\ Goto(p, "emit")
  /\ UNCHANGED <<rec, votes, held, tasks, done, loose>>

\* Fault: emit whenever the change is approved.
WantsTaskAgain ==
  IF rec.kind = "change" THEN Fold.status = "approved" ELSE Live(Fold.status)

\* Fault: mirror the record without looking whether it is still open.
WantsTaskBlindly == IF rec.kind = "change" THEN Fold.status = "approved" /\ Fold.items = {} ELSE TRUE

\* Is a task due?  Judged from the fold, never from the status asked for.
WantsTask ==
  IF rec.kind = "change" THEN Fold.status = "approved" /\ Fold.items = {} ELSE Live(Fold.status)

Emit(p) ==
  /\ pc[p] = "emit" /\ WantsTask
  /\ \E x \in Items \ tasks :
       /\ tasks' = tasks \cup {x}
       /\ held' = [held EXCEPT ![p] = x]
  /\ Goto(p, "link")
  /\ loose' = (loose \/ (rec.kind = "change" /\ \E q \in Procs : pc[q] = "link"))
  /\ UNCHANGED <<rec, log, votes, done>>

\* No task is due, or the sink refused it.
EmitNothing(p) ==
  /\ pc[p] = "emit"
  /\ Goto(p, "idle")
  /\ UNCHANGED <<rec, log, votes, held, tasks, done, loose>>

\* Fault: the task stays in hand.
LinkKeeping(p) ==
  /\ pc[p] = "link"
  /\ Append1(Event("gtd_link", held[p], FALSE))
  /\ Goto(p, "idle")
  /\ UNCHANGED <<rec, votes, held, tasks, done, loose>>

Link(p) ==
  /\ pc[p] = "link"
  /\ Append1(Event("gtd_link", held[p], FALSE))
  /\ held' = [held EXCEPT ![p] = None]
  /\ Goto(p, "idle")
  /\ UNCHANGED <<rec, votes, tasks, done, loose>>

Die(p) ==
  /\ pc[p] # "idle"
  /\ Goto(p, "idle")
  /\ held' = [held EXCEPT ![p] = None]
  /\ loose' = (loose \/ pc[p] \in {"complete", "link"})
  /\ UNCHANGED <<rec, log, votes, tasks, done>>

Next ==
  \/ Arrive
  \/ SubmitCabVote
  \/ \E p \in Procs :
       \/ CreateIncident(p) \/ Reopen(p) \/ Resolve(p) \/ Complete(p) \/ AutoClose(p) \/ Close(p)
       \/ CreateKedb(p) \/ LinkKedb(p) \/ UpdateChange(p)
       \/ Emit(p) \/ EmitNothing(p) \/ Link(p) \/ Die(p)

Spec == Init /\ [][Next]_vars

-----------------------------------------------------------------------------
(* Properties *)

\* What may stand in the log: what arrives, the links of the tasks emitted here, and
\* the moves that local calls make.
Links == {Event("gtd_link", x, FALSE) : x \in tasks}
Moves == {Status(to, note) : to \in {"resolved", "closed", "approved"}, note \in BOOLEAN}
Known == Arriving \cup Links \cup Moves

\* The log holds events the folds know, and a task is linked or completed only
\* after it was emitted.
TypeOK ==
  /\ rec \in Births
  /\ log \in Seq(Known)
  /\ votes \in [Agents -> {"approved", "rejected", "abstain"}]
  /\ pc \in [Procs -> Steps]
  /\ held \in [Procs -> tasks \cup {None}]
  /\ \A p \in Procs : (pc[p] = "link") = (held[p] # None)
  /\ tasks \subseteq Items /\ done \subseteq tasks
  /\ loose \in BOOLEAN

\* Whatever order the events arrive in, a change that needs the board has left
\* review only with a human approval (or as an auto-normal change) and with no
\* rejection standing: _fold_change's gate and its guard against raw approvals.
Authorised ==
  rec.kind = "change" /\ rec.type # "standard"
    /\ Fold.status \in {"approved", "scheduled", "implementing", "deployed", "verified", "failed"}
    => /\ ~Rejected(votes)
       /\ HumanApproved(votes, None) \/ (rec.type = "normal" /\ rec.eligible /\ Fold.auto)

\* An open incident carries no resolution time and a settled one does, so the
\* automatic close judges the resolution that stands: only reopen leaves
\* "resolved", and it clears the rest.
ResolutionFits ==
  rec.kind = "incident" => (Fold.status \in OpenIncident) = ~Fold.resolvedAt

\* A late event never makes an incident less severe than it was already shown.
SeverityNeverDrops ==
  [][rec.kind = "incident" =>
       SevRank[FoldOf(log').severity] >= SevRank[Fold.severity]]_vars

\* Approving a change again, by the same or another process, creates no second
\* implementation task, unless two calls overlap or one dies before linking.
OneTaskPerChange == rec.kind = "change" /\ ~loose => Cardinality(tasks) <= 1

\* Once an incident or problem is settled and no call is in flight, none of its
\* tasks is still on the operator's list (update_incident, update_problem).
SettledHasNoTask ==
  rec.kind # "change" /\ ~loose /\ (\A p \in Procs : pc[p] = "idle") /\ ~Live(Fold.status)
    => tasks \subseteq done

\* Tasks follow their record: no second one, and none left over.
TasksFollowRecord == OneTaskPerChange /\ SettledHasNoTask

\* The headline is the status that the replay judges events against:
\* "_fold_change applies this exact derivation once, after its main event loop".
\* The code does not keep this: after a passed validation the two differ.
HeadlineIsGate ==
  rec.kind = "change" =>
    LET s == Replayed(rec, votes, log) IN Headline(rec, votes, s) = CabResolved(rec, votes, s)
=============================================================================
