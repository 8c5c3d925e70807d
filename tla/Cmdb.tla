-------------------------------- MODULE Cmdb --------------------------------
(***************************************************************************)
(* CMDB discovery: a scheduled run scans the collectors, counts misses,    *)
(* retires, reconciles the store, records an artifact, alerts and prunes.  *)
(* Beside it an operator sets statuses and enrolls legacy items under a    *)
(* reviewed plan.                                                          *)
(*                                                                         *)
(* The store is append-only and folded on read, the last event wins: ci is *)
(* the folded store.  The run holds the lease of its node; nobody else     *)
(* takes a lock.                                                           *)
(***************************************************************************)
EXTENDS Naturals, Sequences, FiniteSetsExt

CONSTANTS Items, Collectors,
          FoundBy,     \* the collector that reports an item
          Alerting,    \* items tagged alert-on-drift
          Scopes,      \* fingerprints of targets, collectors and configuration
          None,
          Threshold,   \* complete misses before retirement
          AlertRuns,   \* consecutive runs before an incident
          Retention,   \* artifacts that are kept
          MinRuns,     \* shadow runs that an enrollment needs
          MaxRuns, MaxChanges, MaxFaults   \* bounds

ASSUME CmdbConfig ==
  /\ FoundBy \in [Items -> Collectors]
  /\ {Threshold, AlertRuns, Retention} \subseteq Nat \ {0}
  /\ {MinRuns, MaxRuns, MaxChanges, MaxFaults} \subseteq Nat

VARIABLES world,      \* what is out there: [Items -> Worlds]
          ci,         \* the folded store
          run,        \* the scheduled run
          files,      \* run artifacts, oldest first
          incidents,  \* open incidents
          plan,       \* the enrollment under review or being applied
          audits,     \* enrollments on record
          away,       \* history: counted passes in a row with the item unseen for a reason
          alarm,      \* history: recorded runs in a row that carry an event
          runs, changes, faults

vars == <<world, ci, run, files, incidents, plan, audits, away, alarm, runs, changes, faults>>

\* What a run may signal: an item that nobody saw, a collector that failed and how.
Events == Items \cup (Collectors \X {"failed", "deadline"})

\* "none": the item has no core.  "torn": its core file was created and never written,
\* so that get_ci finds no item and create_ci leaves the file as it is.
Absent == {"none", "torn"}
Statuses == Absent \cup {"operational", "down", "retired"}

ConfigItems == [status : Statuses, owned : BOOLEAN, scope : Scopes \cup {None},
                misses : [Scopes -> Nat]]

Artifacts == [scope : Scopes, complete : BOOLEAN, applied : BOOLEAN, events : SUBSET Events,
              sealed : BOOLEAN]

\* What a collector can see of an item.
Worlds == {"gone", "active", "failed", "inactive"}

\* Fault: the collector's word is taken for the status.
ObservedRaw(w) == w

\* _observed_status: an inactive unit says nothing.
Observed(w) == CASE w = "failed" -> "down" [] w = "active" -> "operational" [] OTHER -> None

NoRun == [pc |-> "idle", apply |-> FALSE, scope |-> None, left |-> {}, bad |-> {}, failed |-> {}, late |-> FALSE,
          seen |-> <<>>, absent |-> {}, valid |-> TRUE, known |-> <<>>, todo |-> {}, item |-> None,
          raced |-> {}]

NoPlan == [pc |-> "idle", scope |-> None, items |-> {}, view |-> <<>>, todo |-> {}, raced |-> {}]

\* History: items I changed while a run or an enrollment works on what it read; an
\* item that is still to be compared with the review has not been read yet.
Raced(p, I) == CASE p.pc \in {"reconcile", "enroll"} -> [p EXCEPT !.raced = @ \cup I]
                 [] p.pc = "check"                   -> [p EXCEPT !.raced = @ \cup (I \ p.todo)]
                 [] OTHER                            -> p

\* Some items were entered by hand, some were discovered earlier.
Init ==
  /\ world \in [Items -> {"gone", "active"}]
  /\ \E entered \in SUBSET Items : \E found \in SUBSET entered, s \in Scopes :
       ci = [i \in Items |-> [status |-> IF i \in entered THEN "operational" ELSE "none",
                              owned  |-> i \in found,
                              scope  |-> IF i \in found THEN s ELSE None,
                              misses |-> [t \in Scopes |-> 0]]]
  /\ run = NoRun /\ files = <<>> /\ incidents = {}
  /\ plan = NoPlan /\ audits = {}
  /\ away = [i \in Items |-> [s \in Scopes |-> 0]]
  /\ alarm = [e \in Events |-> 0]
  /\ runs = 0 /\ changes = 0 /\ faults = 0

-----------------------------------------------------------------------------
(* Scan *)

\* The lease is free; nothing is shared with other nodes.
StartRun(apply, s) ==
  /\ run.pc = "idle" /\ runs < MaxRuns /\ runs' = runs + 1
  /\ run' = [NoRun EXCEPT !.pc = "scan", !.apply = apply, !.scope = s, !.left = Collectors,
                          !.seen = [i \in Items |-> "gone"]]
  /\ UNCHANGED <<world, ci, files, incidents, plan, audits, away, alarm, changes, faults>>

\* A collector answers.  Where some of its commands fail it may miss items, where all
\* fail it is unavailable; a transport that is down or an exception is a failure.
Collect(k, status) ==
  LET mine == {i \in Items : FoundBy[i] = k} IN
  /\ run.pc = "scan" /\ k \in run.left
  /\ \E lost \in CASE status = "complete" -> {{}}
                   [] status = "partial"  -> SUBSET mine
                   [] OTHER               -> {mine} :
       run' = [run EXCEPT !.left = @ \ {k},
                          !.seen = [i \in Items |-> IF i \in mine \ lost THEN world[i] ELSE @[i]],
                          !.absent = @ \cup lost \cup {i \in mine : world[i] = "gone"},
                          !.bad = IF status \in {"unavailable", "failed"} THEN @ \cup {k} ELSE @,
                          !.failed = IF status = "failed" THEN {<<k, "failed">>} \cup @ ELSE @]
  /\ UNCHANGED <<world, ci, files, incidents, plan, audits, away, alarm, runs, changes, faults>>

\* Collectors that have not answered are given up; one that answers just now is
\* neither counted nor a failure.
Deadline ==
  /\ run.pc = "scan" /\ run.left # {}
  /\ \E given \in SUBSET run.left :
       run' = [run EXCEPT !.left = {}, !.bad = @ \cup run.left, !.late = TRUE,
                          !.failed = @ \cup (given \X {"deadline"})]
  /\ UNCHANGED <<world, ci, files, incidents, plan, audits, away, alarm, runs, changes, faults>>

\* ScanResult.complete.
Complete == ~run.late /\ run.bad = {}

Unseen(i) == run.seen[i] = "gone"

-----------------------------------------------------------------------------
(* Retirement *)

BeginLifecycle ==
  /\ run.pc = "scan" /\ run.left = {}
  /\ run' = [run EXCEPT !.pc = "lifecycle",
                        !.todo = IF Complete /\ run.apply THEN {i \in Items : ci[i].owned} ELSE {}]
  /\ UNCHANGED <<world, ci, files, incidents, plan, audits, away, alarm, runs, changes, faults>>

\* Fault: a sighting leaves the count as it is.
MissesKept(i) == IF Unseen(i) THEN ci[i].misses[run.scope] + 1 ELSE ci[i].misses[run.scope]

Misses(i) == IF Unseen(i) THEN ci[i].misses[run.scope] + 1 ELSE 0

CountMiss(i) ==
  /\ run.pc = "lifecycle" /\ i \in run.todo
  /\ ci' = [ci EXCEPT ![i].misses[run.scope] = Misses(i)]
  /\ away' = [away EXCEPT ![i][run.scope] = IF Unseen(i) /\ i \in run.absent THEN @ + 1 ELSE 0]
  /\ run' = IF Misses(i) >= Threshold /\ ci[i].status # "retired"
              THEN [run EXCEPT !.pc = "retire", !.item = i]
              ELSE [run EXCEPT !.todo = @ \ {i}]
  /\ UNCHANGED <<world, files, incidents, plan, audits, alarm, runs, changes, faults>>

Retire ==
  /\ run.pc = "retire"
  /\ ci' = [ci EXCEPT ![run.item].status = "retired"]
  /\ run' = [run EXCEPT !.pc = "lifecycle", !.todo = @ \ {run.item}, !.item = None]
  /\ UNCHANGED <<world, files, incidents, plan, audits, away, alarm, runs, changes, faults>>

-----------------------------------------------------------------------------
(* Reconcile *)

\* The store is read once; a batch that is not valid writes nothing.
BeginReconcile ==
  /\ run.pc = "lifecycle" /\ run.todo = {}
  /\ \E valid \in BOOLEAN :
       run' = [run EXCEPT !.pc = "reconcile", !.known = ci, !.valid = valid, !.absent = {},
                          !.todo = IF run.apply /\ valid THEN {i \in Items : ~Unseen(i)} ELSE {}]
  /\ UNCHANGED <<world, ci, files, incidents, plan, audits, away, alarm, runs, changes, faults>>

\* Fault: whatever the status was.
StatusWrittenAlways(i, st) == IF Observed(run.seen[i]) = None THEN st ELSE Observed(run.seen[i])

\* The status that follows st when reconcile goes by what it read before.
StatusWritten(i, st) ==
  IF Observed(run.seen[i]) = None \/ run.known[i].status \in {"retired", Observed(run.seen[i])}
    THEN st ELSE Observed(run.seen[i])

\* The store after the first n of: the core's file, its content or the attributes,
\* status, tag.  A new core carries the tag; a torn one stays.
Reconciled(i, n) ==
  LET new == run.known[i].status = "none"
      st  == IF new THEN "operational" ELSE ci[i].status
  IN CASE ci[i].status = "torn" \/ (n = 0 /\ ~new) -> ci
       [] ci[i].status # "torn" /\ n = 0 /\ new -> [ci EXCEPT ![i].status = "torn"]
       [] OTHER -> [ci EXCEPT ![i].scope = run.scope,
                              ![i].status = IF n > 1 THEN StatusWritten(i, st) ELSE st,
                              ![i].owned = @ \/ new \/ n > 2]

ReconcileItem(i) ==
  /\ run.pc = "reconcile" /\ i \in run.todo
  /\ ci' = Reconciled(i, 3)
  /\ run' = [run EXCEPT !.todo = @ \ {i}]
  /\ plan' = Raced(plan, {i})
  /\ UNCHANGED <<world, files, incidents, audits, away, alarm, runs, changes, faults>>

ReconcileInterrupted(i) ==
  /\ run.pc = "reconcile" /\ i \in run.todo
  /\ faults < MaxFaults /\ faults' = faults + 1
  /\ \E n \in 0..2 : ci' = Reconciled(i, n)
  /\ run' = NoRun
  /\ plan' = Raced(plan, {i})
  /\ UNCHANGED <<world, files, incidents, audits, away, alarm, runs, changes>>

-----------------------------------------------------------------------------
(* Evidence *)

\* scan_health_events: failures only, an unavailable collector is none.
Health == run.failed

\* drift: stored, owned, not retired and not seen.
Drift == {i \in Items : ci[i].owned /\ ci[i].status # "retired" /\ Unseen(i)}

\* normalize_drift: an incomplete scan claims no absence.
RunEvents == Health \cup IF Complete THEN Drift ELSE {}

WriteArtifact ==
  /\ run.pc = "reconcile" /\ run.todo = {}
  /\ files' = Append(files, [scope |-> run.scope, complete |-> Complete,
                             applied |-> run.apply /\ run.valid, events |-> RunEvents, sealed |-> FALSE])
  /\ run' = [NoRun EXCEPT !.pc = "seal"]
  /\ UNCHANGED <<world, ci, incidents, plan, audits, away, alarm, runs, changes, faults>>

\* The checksum beside the artifact; without it nobody believes the artifact.
WriteChecksum ==
  /\ run.pc = "seal"
  /\ files' = [files EXCEPT ![Len(files)].sealed = TRUE]
  /\ alarm' = [e \in Events |-> IF e \in files[Len(files)].events THEN alarm[e] + 1 ELSE 0]
  /\ run' = [run EXCEPT !.pc = "route"]
  /\ UNCHANGED <<world, ci, incidents, plan, audits, away, runs, changes, faults>>

\* The artifacts that are believed: those with their checksum.
Sealed == {j \in 1..Len(files) : files[j].sealed}

\* consecutive_event_count: the newest in a row that carry e.
Streak(e) == {j \in Sealed : \A i \in Sealed : i >= j => e \in files[i].events}

Consecutive(e) == Cardinality(Streak(e))

Alerts(e) == e \in Items => e \in Alerting

RouteIncidents ==
  /\ run.pc = "route"
  /\ incidents' = incidents \cup
       {e \in Events : e \in files[Max(Sealed)].events /\ Consecutive(e) >= AlertRuns /\ Alerts(e)}
  /\ run' = [run EXCEPT !.pc = "prune"]
  /\ UNCHANGED <<world, ci, files, plan, audits, away, alarm, runs, changes, faults>>

\* Fault: the oldest are kept.
KeptOldest == SubSeq(files, 1, Retention)

Kept == SubSeq(files, Max({1, Len(files) - Retention + 1}), Len(files))

Prune ==
  /\ run.pc = "prune"
  /\ files' = IF Len(files) > Retention THEN Kept ELSE files
  /\ run' = NoRun
  /\ UNCHANGED <<world, ci, incidents, plan, audits, away, alarm, runs, changes, faults>>

\* It stops while it removes: newer ones go first.
PruneInterrupted ==
  /\ run.pc = "prune" /\ Len(files) > Retention
  /\ faults < MaxFaults /\ faults' = faults + 1
  /\ \E n \in 0..Len(files) - Retention : files' = SubSeq(files, 1, n) \o Kept
  /\ run' = NoRun
  /\ UNCHANGED <<world, ci, incidents, plan, audits, away, alarm, runs, changes>>

\* The process dies, or a write raises: a run catches nothing.
Crash ==
  /\ run.pc # "idle" /\ faults < MaxFaults /\ faults' = faults + 1
  /\ run' = NoRun
  /\ UNCHANGED <<world, ci, files, incidents, plan, audits, away, alarm, runs, changes>>

-----------------------------------------------------------------------------
(* Ownership of legacy items *)

Shadows(s) == {j \in Sealed : files[j].complete /\ ~files[j].applied /\ files[j].scope = s}

Enrollable(i) == ci[i].status \notin Absent \cup {"retired"} /\ ~ci[i].owned

PlanBackfill(s, I) ==
  /\ plan.pc = "idle" /\ I # {}
  /\ Cardinality(Shadows(s)) >= MinRuns
  /\ \A i \in I : Enrollable(i)
  /\ plan' = [NoPlan EXCEPT !.pc = "review", !.scope = s, !.items = I, !.view = [i \in I |-> ci[i]]]
  /\ UNCHANGED <<world, ci, run, files, incidents, audits, away, alarm, runs, changes, faults>>

\* Fault: ownership is checked, the reviewed state is not.
AsPlannedUnowned(i) == ci[i].status \notin Absent /\ ~ci[i].owned

AsPlanned(i) == ci[i].status \notin Absent /\ ~ci[i].owned /\ ci[i] = plan.view[i]

StartBackfill ==
  /\ plan.pc = "review"
  /\ plan' = [plan EXCEPT !.pc = "check", !.todo = plan.items]
  /\ UNCHANGED <<world, ci, run, files, incidents, audits, away, alarm, runs, changes, faults>>

\* Item after item is read and compared with the review, with no lock between them;
\* the first event follows the last comparison.
CheckItem(i) ==
  /\ plan.pc = "check" /\ i \in plan.todo
  /\ plan' = CASE ~AsPlanned(i)                     -> NoPlan
               [] AsPlanned(i) /\ plan.todo # {i} -> [plan EXCEPT !.todo = @ \ {i}]
               [] OTHER -> [plan EXCEPT !.pc = "enroll", !.todo = plan.items]
  /\ UNCHANGED <<world, ci, run, files, incidents, audits, away, alarm, runs, changes, faults>>

Enroll(i) ==
  /\ plan.pc = "enroll" /\ i \in plan.todo
  /\ ci' = [ci EXCEPT ![i].owned = TRUE, ![i].scope = plan.scope]
  /\ plan' = [plan EXCEPT !.todo = @ \ {i}]
  /\ run' = Raced(run, {i})
  /\ UNCHANGED <<world, files, incidents, audits, away, alarm, runs, changes, faults>>

\* It stops while it checks, before an item, between an item's tag and its attributes,
\* or before the audit; the plan may be tried again.
EnrollInterrupted ==
  /\ plan.pc \in {"check", "enroll"}
  /\ faults < MaxFaults /\ faults' = faults + 1
  /\ \E tagged \in {{}} \cup {{i} : i \in {j \in plan.todo : plan.pc = "enroll"}} :
       /\ ci' = [i \in Items |-> [ci[i] EXCEPT !.owned = @ \/ i \in tagged]]
       /\ run' = Raced(run, tagged)
  /\ plan' = [plan EXCEPT !.pc = "review", !.todo = {}, !.raced = {}]
  /\ UNCHANGED <<world, files, incidents, audits, away, alarm, runs, changes>>

WriteAudit ==
  /\ plan.pc = "enroll" /\ plan.todo = {}
  /\ audits' = audits \cup {plan.items}
  /\ plan' = NoPlan
  /\ UNCHANGED <<world, ci, run, files, incidents, away, alarm, runs, changes, faults>>

-----------------------------------------------------------------------------
(* Operators and the world *)

SetStatus(i, st) ==
  /\ changes < MaxChanges /\ changes' = changes + 1
  /\ ci[i].status \notin Absent \cup {st}
  /\ ci' = [ci EXCEPT ![i].status = st]
  /\ run' = Raced(run, {i})
  /\ plan' = Raced(plan, {i})
  /\ UNCHANGED <<world, files, incidents, audits, away, alarm, runs, faults>>

Happen(i, w) ==
  /\ changes < MaxChanges /\ changes' = changes + 1
  /\ w # world[i] /\ world' = [world EXCEPT ![i] = w]
  /\ UNCHANGED <<ci, run, files, incidents, plan, audits, away, alarm, runs, faults>>

Next ==
  \/ \E apply \in BOOLEAN, s \in Scopes : StartRun(apply, s)
  \/ \E k \in Collectors, status \in {"complete", "partial", "unavailable", "failed"} : Collect(k, status)
  \/ Deadline \/ BeginLifecycle \/ Retire \/ BeginReconcile
  \/ \E i \in Items : CountMiss(i) \/ ReconcileItem(i) \/ ReconcileInterrupted(i)
  \/ WriteArtifact \/ WriteChecksum \/ RouteIncidents \/ Prune \/ PruneInterrupted \/ Crash
  \/ \E s \in Scopes, I \in SUBSET Items : PlanBackfill(s, I)
  \/ StartBackfill \/ WriteAudit \/ EnrollInterrupted
  \/ \E i \in Items : CheckItem(i) \/ Enroll(i)
  \/ \E i \in Items, st \in {"operational", "retired"} : SetStatus(i, st)
  \/ \E i \in Items, w \in Worlds : Happen(i, w)

Spec == Init /\ [][Next]_vars

-----------------------------------------------------------------------------
(* Properties *)

Runs == [pc : {"idle", "scan", "lifecycle", "retire", "reconcile", "seal", "route", "prune"},
         apply : BOOLEAN, scope : Scopes \cup {None}, left : SUBSET Collectors, bad : SUBSET Collectors,
         failed : SUBSET (Collectors \X {"failed", "deadline"}), late : BOOLEAN,
         seen : {<<>>} \cup [Items -> Worlds], absent : SUBSET Items, valid : BOOLEAN,
         known : {<<>>} \cup [Items -> ConfigItems], todo : SUBSET Items, item : Items \cup {None},
         raced : SUBSET Items]

\* Plans of the items I.
Plans(I) == [pc : {"idle", "review", "check", "enroll"}, scope : Scopes \cup {None}, items : {I},
             view : {<<>>} \cup [I -> ConfigItems], todo : SUBSET I, raced : SUBSET Items]

\* Every folded item has a status of CIStatus and scopes that exist, a run and an
\* enrollment work on known items and collectors, and pruning bounds the run
\* artifacts: a run that fails before it leaves at most one more behind.
TypeOK ==
  /\ world \in [Items -> Worlds] /\ ci \in [Items -> ConfigItems]
  /\ run \in Runs /\ plan.items \subseteq Items /\ plan \in Plans(plan.items)
  /\ files \in Seq(Artifacts) /\ Len(files) <= Retention + 1 + faults
  /\ incidents \subseteq Events
  /\ away \in [Items -> [Scopes -> Nat]] /\ alarm \in [Events -> Nat]
  /\ runs \in 0..MaxRuns /\ changes \in 0..MaxChanges /\ faults \in 0..MaxFaults

\* An item is retired by a run only after Threshold counted passes over the same
\* scope, in a row, in none of which a collector failed or was unavailable, and each
\* with the item gone when its collector looked, or lost to a command that failed
\* within a collector whose other commands answered (such a partial collector counts
\* as complete, TargetResult.complete).
RetirementEarned ==
  [][run.pc = "retire" => run'.pc \in {"retire", "idle"} \/ away[run.item][run.scope] >= Threshold]_vars

\* Reconcile does not bring back what was retired before it read the store, by
\* an operator or by an earlier run.
RetirementKept ==
  [][\A i \in Items :
       ci[i].status = "retired" /\ i \in run.todo \ run'.todo /\ i \notin run.raced
         => ci'[i].status = "retired"]_vars

\* A signal that AlertRuns recorded runs in a row carry has an incident by the
\* time the last of them prunes its evidence, unless it takes more than two runs and
\* what is retained, less the artifacts without a checksum, has no room for so many.
SignalAlerted ==
  run.pc = "prune" /\ (AlertRuns <= 2 \/ AlertRuns + Cardinality(1..Len(files) \ Sealed) <= Retention + 1)
    => \A e \in Events : alarm[e] >= AlertRuns /\ Alerts(e) => e \in incidents

\* An item is enrolled in the very state that was reviewed, unless it changed after
\* its own comparison with the review: the code compares item by item, and neither
\* the comparisons of the items after it nor the enrollment look at it again.
EnrolledAsReviewed ==
  [][plan.pc = "enroll" =>
       \A i \in plan.todo \ (plan'.todo \cup plan.raced) : ci[i] = plan.view[i]]_vars
=============================================================================
