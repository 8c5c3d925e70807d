------------------------------ MODULE ItilFold ------------------------------
(***************************************************************************)
(* The folds of itil.py (pure): what a replica makes of the event log of   *)
(* an incident, a problem or a change.  No status is ever stored; the      *)
(* events are replayed through the transition tables on every read, and    *)
(* an event the table does not allow is skipped.                           *)
(*                                                                         *)
(* An event is [kind, arg, note].  Timelines and texts are left out; a     *)
(* timestamp field is represented by whether it is set.                    *)
(***************************************************************************)
EXTENDS Naturals, Sequences

CONSTANTS Humans,   \* voters who qualify as human approvers (_is_human_approval)
          None

IncidentTransitions ==
  [detected      |-> {"acknowledged", "escalated", "resolved"},
   acknowledged  |-> {"investigating", "escalated", "resolved"},
   investigating |-> {"escalated", "resolved"},
   escalated     |-> {"investigating", "resolved"},
   resolved      |-> {"closed"},
   closed        |-> {}]

ProblemTransitions ==
  [identified  |-> {"analyzing"},
   analyzing   |-> {"known_error", "resolved"},
   known_error |-> {"resolved"},
   resolved    |-> {}]

ChangeTransitions ==
  [proposed     |-> {"reviewing", "approved", "rejected"},
   reviewing    |-> {"approved", "rejected"},
   approved     |-> {"implementing", "rejected", "scheduled"},
   scheduled    |-> {"implementing", "approved", "rejected"},
   rejected     |-> {"closed"},
   implementing |-> {"deployed", "failed"},
   deployed     |-> {"verified", "failed"},
   verified     |-> {"closed"},
   failed       |-> {"implementing", "closed"},
   closed       |-> {}]

OpenIncident == {"detected", "acknowledged", "investigating", "escalated"}

SevRank == [sev1 |-> 4, sev2 |-> 3, sev3 |-> 2, sev4 |-> 1]

\* Fault: the event that is folded last decides.
LastSeverity(a, b) == b

MaxSeverity(a, b) == IF SevRank[a] >= SevRank[b] THEN a ELSE b

-----------------------------------------------------------------------------
(* Incidents *)

NewIncident(severity) ==
  [status |-> "detected", severity |-> severity, resolvedAt |-> FALSE, items |-> {}]

\* Fault: the status moves, the rest of the resolution stays.
ReopenedKeeping(s) ==
  IF s.status = "resolved" THEN [s EXCEPT !.status = "investigating"] ELSE s

Reopened(s) ==
  IF s.status = "resolved" THEN [s EXCEPT !.status = "investigating", !.resolvedAt = FALSE] ELSE s

IncidentStep(s, e) ==
  CASE e.kind = "status" ->
         IF e.arg \in IncidentTransitions[s.status]
           THEN [s EXCEPT !.status = e.arg, !.resolvedAt = @ \/ e.arg = "resolved"]
           ELSE s
    [] e.kind = "reopen"   -> Reopened(s)
    [] e.kind = "severity" -> [s EXCEPT !.severity = MaxSeverity(s.severity, e.arg)]
    [] e.kind = "gtd_link" -> [s EXCEPT !.items = @ \cup {e.arg}]

-----------------------------------------------------------------------------
(* Problems *)

NewProblem == [status |-> "identified", cause |-> FALSE, kedb |-> FALSE, items |-> {}]

ProblemStep(s, e) ==
  CASE e.kind = "status" ->
         IF e.arg \in ProblemTransitions[s.status] THEN [s EXCEPT !.status = e.arg] ELSE s
    [] e.kind = "root_cause" -> [s EXCEPT !.cause = TRUE]
    [] e.kind = "link_kedb"  -> [s EXCEPT !.kedb = TRUE]
    [] e.kind = "gtd_link"   -> [s EXCEPT !.items = @ \cup {e.arg}]

-----------------------------------------------------------------------------
(* Changes.  core is [type, eligible]: eligible stands for an operator's    *)
(* change that is not high-risk and has a rollback plan.  votes[v] is v's   *)
(* vote file, "abstain" where there is none.                                *)

NewChange == [status |-> "proposed", auto |-> FALSE, drafter |-> None,
              window |-> FALSE, items |-> {}]

Rejected(votes) == \E v \in DOMAIN votes : votes[v] = "rejected"

\* The drafter's own approval does not count.
HumanApproved(votes, drafter) ==
  \E v \in Humans \cap DOMAIN votes : votes[v] = "approved" /\ v # drafter

AutoNormal(core, votes, s) ==
  core.type = "normal" /\ s.auto /\ core.eligible /\ ~Rejected(votes)

\* Fault: one approval outweighs the rejections.
CabResolvedApprovalFirst(core, votes, s) ==
  IF s.status \notin {"proposed", "reviewing"} THEN s.status
  ELSE IF core.type = "standard" \/ AutoNormal(core, votes, s) THEN "approved"
  ELSE IF HumanApproved(votes, s.drafter) THEN "approved"
  ELSE IF Rejected(votes) THEN "rejected"
  ELSE s.status

\* What an event replayed in state s is judged against.
CabResolved(core, votes, s) ==
  IF s.status \notin {"proposed", "reviewing"} THEN s.status
  ELSE IF core.type = "standard" \/ AutoNormal(core, votes, s) THEN "approved"
  ELSE IF Rejected(votes) THEN "rejected"
  ELSE IF HumanApproved(votes, s.drafter) THEN "approved"
  ELSE s.status

\* Fault: without the guard against raw approvals.
AcceptsByTable(g, e) == e.arg \in ChangeTransitions[g]

\* Does a status event move a change whose gate is g?  A raw event never grants
\* approval; a review or a rollback needs a note.
Accepts(g, e) ==
  /\ e.arg \in ChangeTransitions[g]
  /\ (<<g, e.arg>> \in {<<"deployed", "verified">>, <<"failed", "closed">>}) => e.note
  /\ ~(e.arg = "approved" /\ g \in {"proposed", "reviewing"})

Validated(s, e) ==
  IF e.arg = "passed" /\ s.status = "proposed" THEN [s EXCEPT !.status = "reviewing"] ELSE s

Scheduled(s, gate) ==
  IF gate = "approved" THEN [s EXCEPT !.status = "scheduled", !.window = TRUE] ELSE s

\* By the operator, or because the window was missed.
Unscheduled(s) ==
  IF s.status = "scheduled" THEN [s EXCEPT !.status = "approved", !.window = FALSE] ELSE s

ChangeStep(core, votes, s, e) ==
  LET gate == CabResolved(core, votes, s)
  IN CASE e.kind = "status"     -> IF Accepts(gate, e) THEN [s EXCEPT !.status = e.arg] ELSE s
       [] e.kind = "tags"       -> [s EXCEPT !.auto = TRUE]
       [] e.kind = "gtd_link"   -> [s EXCEPT !.items = @ \cup {e.arg}]
       [] e.kind = "pr_link"    -> [s EXCEPT !.drafter = e.arg]
       [] e.kind = "validation" -> Validated(s, e)
       [] e.kind = "schedule"   -> Scheduled(s, gate)
       [] e.kind \in {"unschedule", "window_missed"} -> Unscheduled(s)

\* The derivation after the loop, which restates CabResolved for the headline.
Headline(core, votes, s) ==
  IF s.status = "proposed" /\ (core.type = "standard" \/ AutoNormal(core, votes, s)) THEN "approved"
  ELSE IF s.status \notin {"proposed", "reviewing"} THEN s.status
  ELSE IF Rejected(votes) THEN "rejected"
  ELSE IF HumanApproved(votes, s.drafter) THEN "approved"
  ELSE s.status

-----------------------------------------------------------------------------
(* _fold_record *)

NewRecord(core) ==
  CASE core.kind = "incident" -> NewIncident(core.severity)
    [] core.kind = "problem"  -> NewProblem
    [] core.kind = "change"   -> NewChange

Step(core, votes, s, e) ==
  CASE core.kind = "incident" -> IncidentStep(s, e)
    [] core.kind = "problem"  -> ProblemStep(s, e)
    [] core.kind = "change"   -> ChangeStep(core, votes, s, e)

\* The state after the loop over the events.
Replayed(core, votes, events) ==
  LET after[n \in 0..Len(events)] ==
        IF n = 0 THEN NewRecord(core) ELSE Step(core, votes, after[n - 1], events[n])
  IN after[Len(events)]

\* A change is shown with its headline.
FoldRecord(core, votes, events) ==
  LET s == Replayed(core, votes, events) IN
  IF core.kind = "change" THEN [s EXCEPT !.status = Headline(core, votes, s)] ELSE s
=============================================================================
