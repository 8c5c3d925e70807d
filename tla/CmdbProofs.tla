----------------------------- MODULE CmdbProofs -----------------------------
(***************************************************************************)
(* What CMDB discovery promises, proved for any items, collectors, scopes  *)
(* and thresholds and any number of runs, failures and operators: an item  *)
(* is retired only when that was earned, reconcile brings nothing back     *)
(* that was retired, an enrollment applies what was reviewed, and signals  *)
(* that repeat are alerted although evidence is pruned.                    *)
(*                                                                         *)
(* CmdbInv is the inductive invariant of the store, the run and the        *)
(* enrollment; AlarmInv, on top of it, that of the evidence.               *)
(***************************************************************************)
EXTENDS Cmdb, SequenceTheorems, FiniteSetTheorems, TLAPS

-----------------------------------------------------------------------------
(* The inductive invariant *)

Scanning == {"scan", "lifecycle", "retire", "reconcile"}

\* A run knows its scope and what it saw until it writes its evidence, has read the
\* store when it reconciles, and works through items only where the code loops over them.
RunSound ==
  /\ run.pc \in Scanning => run.scope \in Scopes /\ run.seen \in [Items -> Worlds]
  /\ run.pc \notin {"lifecycle", "retire", "reconcile"} => run.todo = {}
  /\ run.pc = "retire" => run.item \in run.todo
  /\ run.pc = "reconcile" => run.known \in [Items -> ConfigItems]

\* An item that is unseen although its collector answered was missed for a reason,
\* and only a complete scan counts misses.
Looked ==
  run.pc \in {"scan", "lifecycle", "retire"} =>
    \A i \in Items : FoundBy[i] \notin run.left \cup run.bad /\ Unseen(i) => i \in run.absent

CompleteCounts ==
  run.pc \in {"lifecycle", "retire"} /\ run.todo # {} => run.left = {} /\ run.bad = {}

\* No counter in the store is ahead of the passes that missed the item for a reason.
MissesFounded == \A i \in Items, s \in Scopes : ci[i].misses[s] <= away[i][s]

Earned == run.pc = "retire" => away[run.item][run.scope] >= Threshold

\* The run counts misses of owned items only.
CountsOwned == run.pc \in {"lifecycle", "retire"} => \A i \in run.todo : ci[i].owned

\* What reconcile read of an item still holds when it comes to it, unless it raced.
ReadHolds == run.pc = "reconcile" => \A i \in run.todo \ run.raced : run.known[i] = ci[i]

\* The items that were compared with the review and are not enrolled yet.
Compared == CASE plan.pc = "check"  -> plan.items \ plan.todo
              [] plan.pc = "enroll" -> plan.todo
              [] OTHER              -> {}

\* The same of an enrollment and what was reviewed of the items it has compared.
ReviewHolds ==
  /\ plan.pc \notin {"check", "enroll"} => plan.todo = {}
  /\ \A i \in Compared \ plan.raced : ci[i] = plan.view[i] /\ ~ci[i].owned

\* A plan names the scope it was reviewed for.
PlanSound == plan.pc # "idle" => plan.scope \in Scopes

\* Between runs only failed ones have left artifacts that no prune has removed.
FilesBounded ==
  /\ run.pc \notin {"seal", "route", "prune"} => Len(files) <= Retention + faults
  /\ run.pc = "seal" => files # <<>>

CmdbInv ==
  /\ TypeOK /\ RunSound /\ Looked /\ CompleteCounts /\ MissesFounded /\ Earned
  /\ CountsOwned /\ ReadHolds /\ PlanSound /\ ReviewHolds /\ FilesBounded

-----------------------------------------------------------------------------
(* Facts about types *)

LEMMA NoRunIsRun == NoRun \in Runs /\ NoRun.pc = "idle" /\ NoRun.todo = {}
BY DEF NoRun, Runs

LEMMA NoPlanIsPlan == NoPlan \in Plans({}) /\ NoPlan.pc = "idle" /\ NoPlan.todo = {} /\ NoPlan.items = {}
BY DEF NoPlan, Plans

\* Only the history changes.
LEMMA RacedRun ==
  ASSUME NEW p \in Runs, NEW I \in SUBSET Items
  PROVE  /\ Raced(p, I) \in Runs
         /\ Raced(p, I).pc = p.pc /\ Raced(p, I).scope = p.scope /\ Raced(p, I).seen = p.seen
         /\ Raced(p, I).left = p.left /\ Raced(p, I).bad = p.bad /\ Raced(p, I).absent = p.absent
         /\ Raced(p, I).todo = p.todo /\ Raced(p, I).item = p.item /\ Raced(p, I).known = p.known
         /\ Raced(p, I).raced = IF p.pc = "reconcile" THEN p.raced \cup I ELSE p.raced
BY DEF Raced, Runs

LEMMA InitInv == Init => CmdbInv
<1> SUFFICES ASSUME Init PROVE CmdbInv
  OBVIOUS
<1>1. PICK entered \in SUBSET Items : \E found \in SUBSET entered, s \in Scopes :
       ci = [i \in Items |-> [status |-> IF i \in entered THEN "operational" ELSE "none",
                              owned  |-> i \in found,
                              scope  |-> IF i \in found THEN s ELSE None,
                              misses |-> [t \in Scopes |-> 0]]]
  BY DEF Init
<1>2. PICK found \in SUBSET entered, s \in Scopes :
       ci = [i \in Items |-> [status |-> IF i \in entered THEN "operational" ELSE "none",
                              owned  |-> i \in found,
                              scope  |-> IF i \in found THEN s ELSE None,
                              misses |-> [t \in Scopes |-> 0]]]
  BY <1>1
<1>3. ci \in [Items -> ConfigItems] /\ \A i \in Items, t \in Scopes : ci[i].misses[t] = 0
  BY <1>2 DEF ConfigItems, Statuses, Absent
<1>4. TypeOK
  <2>1. run \in Runs /\ plan.items \subseteq Items /\ plan \in Plans(plan.items)
    BY NoRunIsRun, NoPlanIsPlan DEF Init
  <2>2. files \in Seq(Artifacts) /\ Len(files) = 0
    BY DEF Init
  <2>3. away \in [Items -> [Scopes -> Nat]] /\ alarm \in [Events -> Nat] /\ world \in [Items -> Worlds]
    BY DEF Init, Worlds
  <2> QED BY <1>3, <2>1, <2>2, <2>3, CmdbConfig DEF Init, TypeOK
<1>5. run.pc = "idle" /\ run.todo = {} /\ plan.pc = "idle" /\ plan.todo = {}
  BY NoRunIsRun, NoPlanIsPlan DEF Init
<1>6. RunSound /\ Looked /\ CompleteCounts /\ Earned /\ CountsOwned /\ ReadHolds
  BY <1>5 DEF RunSound, Looked, CompleteCounts, Earned, CountsOwned, ReadHolds, Scanning
<1>7. MissesFounded
  BY <1>3 DEF MissesFounded, Init
<1>8. PlanSound /\ ReviewHolds
  BY <1>5 DEF PlanSound, ReviewHolds, Compared
<1>9. FilesBounded
  BY <1>5, CmdbConfig DEF FilesBounded, Init
<1> QED BY <1>4, <1>6, <1>7, <1>8, <1>9 DEF CmdbInv

-----------------------------------------------------------------------------
(* What steps leave alone *)

\* A step that moves neither the store nor the plan.
LEMMA PlanKept ==
  ASSUME CmdbInv, UNCHANGED <<ci, plan>>
  PROVE  PlanSound' /\ ReviewHolds'
BY DEF CmdbInv, PlanSound, ReviewHolds, Compared

\* Whoever writes to items I while an enrollment is under way is named in its history
\* where it has compared them.
LEMMA OthersReview ==
  ASSUME CmdbInv, NEW I \in SUBSET Items, plan' = Raced(plan, I), \A j \in Items \ I : ci'[j] = ci[j]
  PROVE  /\ plan' \in Plans(plan.items) /\ plan'.items = plan.items /\ plan.items \subseteq Items
         /\ PlanSound' /\ ReviewHolds'
<1>1. plan.items \subseteq Items /\ plan \in Plans(plan.items)
  BY DEF CmdbInv, TypeOK
<1>2. /\ plan' \in Plans(plan.items) /\ plan'.pc = plan.pc /\ plan'.scope = plan.scope
      /\ plan'.items = plan.items /\ plan'.todo = plan.todo /\ plan'.view = plan.view
      /\ plan'.raced = CASE plan.pc \in {"reconcile", "enroll"} -> plan.raced \cup I
                         [] plan.pc = "check"                   -> plan.raced \cup (I \ plan.todo)
                         [] OTHER                               -> plan.raced
  BY <1>1 DEF Raced, Plans
<1>3. PlanSound'
  BY <1>2 DEF CmdbInv, PlanSound
<1>4. Compared' = Compared /\ Compared \subseteq Items
  BY <1>1, <1>2 DEF Compared, Plans
<1>5. \A j \in Compared \ plan'.raced : j \notin I /\ j \notin plan.raced
  BY <1>2 DEF Compared
<1>6. ReviewHolds'
  BY <1>2, <1>4, <1>5 DEF CmdbInv, ReviewHolds
<1> QED BY <1>1, <1>2, <1>3, <1>6

\* A step that moves the run and leaves the rest of the state.
LEMMA RunMoves ==
  ASSUME CmdbInv, UNCHANGED <<world, ci, files, incidents, plan, audits, away, alarm, changes, faults>>,
         runs' \in 0..MaxRuns, run' \in Runs,
         RunSound', Looked', CompleteCounts', Earned', CountsOwned', ReadHolds',
         run'.pc \notin {"seal", "route", "prune"} =>
           run.pc \notin {"seal", "route", "prune"},
         run'.pc = "seal" => run.pc = "seal"
  PROVE  CmdbInv'
<1>1. TypeOK'
  BY DEF CmdbInv, TypeOK
<1>2. MissesFounded'
  BY DEF CmdbInv, MissesFounded
<1>3. FilesBounded'
  BY DEF CmdbInv, FilesBounded
<1> QED BY <1>1, <1>2, <1>3, PlanKept DEF CmdbInv

\* A run that is over makes no claims.
LEMMA NoRunMakesNoClaims ==
  ASSUME run' \in Runs, run'.pc \in {"idle", "seal", "route", "prune"}, run'.todo = {}
  PROVE  RunSound' /\ Looked' /\ CompleteCounts' /\ Earned' /\ CountsOwned' /\ ReadHolds'
BY DEF RunSound, Looked, CompleteCounts, Earned, CountsOwned, ReadHolds, Scanning

-----------------------------------------------------------------------------
(* Scan *)

LEMMA StartRunKeeps ==
  ASSUME CmdbInv, NEW apply \in BOOLEAN, NEW s \in Scopes, StartRun(apply, s)
  PROVE  CmdbInv'
<1> PICK n : n = NoRun
  OBVIOUS
<1>1. n \in Runs /\ n.todo = {} /\ n.absent = {}
  BY NoRunIsRun DEF NoRun
<1>2. run' = [n EXCEPT !.pc = "scan", !.apply = apply, !.scope = s, !.left = Collectors,
                       !.seen = [i \in Items |-> "gone"]]
  BY DEF StartRun
<1>3. [i \in Items |-> "gone"] \in [Items -> Worlds]
  BY DEF Worlds
<1>4. /\ run' \in Runs /\ run'.pc = "scan" /\ run'.scope = s /\ run'.todo = {}
      /\ run'.seen = [i \in Items |-> "gone"] /\ run'.left = Collectors
  BY <1>1, <1>2, <1>3 DEF Runs
<1>5. RunSound' /\ CompleteCounts' /\ Earned' /\ CountsOwned' /\ ReadHolds'
  BY <1>3, <1>4 DEF RunSound, CompleteCounts, Earned, CountsOwned, ReadHolds, Scanning
<1>6. Looked'
  BY <1>4, CmdbConfig DEF Looked
<1>7. runs' \in 0..MaxRuns
  BY CmdbConfig DEF CmdbInv, TypeOK, StartRun
<1> QED BY <1>4, <1>5, <1>6, <1>7, RunMoves DEF StartRun

LEMMA CollectKeeps ==
  ASSUME CmdbInv, NEW k \in Collectors, NEW status \in {"complete", "partial", "unavailable", "failed"},
         Collect(k, status)
  PROVE  CmdbInv'
<1> DEFINE mine == {i \in Items : FoundBy[i] = k}
<1>1. PICK lost \in SUBSET mine :
       run' = [run EXCEPT !.left = @ \ {k},
                          !.seen = [i \in Items |-> IF i \in mine \ lost THEN world[i] ELSE @[i]],
                          !.absent = @ \cup lost \cup {i \in mine : world[i] = "gone"},
                          !.bad = IF status \in {"unavailable", "failed"} THEN @ \cup {k} ELSE @,
                          !.failed = IF status = "failed" THEN {<<k, "failed">>} \cup @ ELSE @]
  BY DEF Collect
<1>2. run \in Runs /\ run.pc = "scan" /\ run.seen \in [Items -> Worlds] /\ run.scope \in Scopes /\ run.todo = {}
  BY DEF CmdbInv, TypeOK, RunSound, Collect, Scanning
<1>3. world \in [Items -> Worlds]
  BY DEF CmdbInv, TypeOK
<1> DEFINE seen == [i \in Items |-> IF i \in mine \ lost THEN world[i] ELSE run.seen[i]]
           absent == run.absent \cup lost \cup {i \in mine : world[i] = "gone"}
           bad == IF status \in {"unavailable", "failed"} THEN run.bad \cup {k} ELSE run.bad
           failed == IF status = "failed" THEN {<<k, "failed">>} \cup run.failed ELSE run.failed
<1>4. seen \in [Items -> Worlds]
  BY <1>2, <1>3
<1>5. absent \subseteq Items
  BY <1>2 DEF Runs
<1>6. bad \subseteq Collectors /\ failed \subseteq Collectors \X {"failed", "deadline"}
  BY <1>2 DEF Runs
<1>7. run' = [run EXCEPT !.left = run.left \ {k}, !.seen = seen, !.absent = absent, !.bad = bad, !.failed = failed]
  BY <1>1, <1>2 DEF Runs
<1>8. \A i \in Items : FoundBy[i] \notin (run.left \ {k}) \cup bad /\ seen[i] = "gone" => i \in absent
  <2> SUFFICES ASSUME NEW i \in Items, FoundBy[i] \notin (run.left \ {k}) \cup bad, seen[i] = "gone"
               PROVE  i \in absent
    OBVIOUS
  <2>1. CASE i \in lost
    BY <2>1
  <2>2. CASE i \in mine \ lost
    BY <2>2
  <2>3. CASE i \notin mine
    BY <2>3, <1>2 DEF CmdbInv, Looked, Unseen
  <2> QED BY <2>1, <2>2, <2>3
<1> HIDE DEF mine, seen, absent, bad, failed
<1>9. /\ run' \in Runs /\ run'.pc = "scan" /\ run'.scope = run.scope /\ run'.todo = {}
      /\ run'.seen = seen /\ run'.left = run.left \ {k} /\ run'.bad = bad /\ run'.absent = absent
  BY <1>2, <1>4, <1>5, <1>6, <1>7 DEF Runs
<1>10. RunSound' /\ CompleteCounts' /\ Earned' /\ CountsOwned' /\ ReadHolds'
  BY <1>2, <1>4, <1>9 DEF RunSound, CompleteCounts, Earned, CountsOwned, ReadHolds, Scanning, CmdbInv
<1>11. Looked'
  BY <1>8, <1>9 DEF Looked, Unseen
<1> QED BY <1>2, <1>9, <1>10, <1>11, RunMoves DEF Collect, CmdbInv, TypeOK

LEMMA DeadlineKeeps ==
  ASSUME CmdbInv, Deadline
  PROVE  CmdbInv'
<1>1. PICK given \in SUBSET run.left :
       run' = [run EXCEPT !.left = {}, !.bad = @ \cup run.left, !.late = TRUE,
                          !.failed = @ \cup (given \X {"deadline"})]
  BY DEF Deadline
<1>2. run \in Runs /\ run.pc = "scan" /\ run.seen \in [Items -> Worlds] /\ run.scope \in Scopes /\ run.todo = {}
  BY DEF CmdbInv, TypeOK, RunSound, Deadline, Scanning
<1>3. /\ run' \in Runs /\ run'.pc = "scan" /\ run'.scope = run.scope /\ run'.todo = {}
      /\ run'.seen = run.seen /\ run'.left = {} /\ run'.bad = run.bad \cup run.left /\ run'.absent = run.absent
  <2>1. given \X {"deadline"} \subseteq Collectors \X {"failed", "deadline"}
    BY <1>2 DEF Runs
  <2> QED BY <1>1, <1>2, <2>1 DEF Runs
<1>4. RunSound' /\ CompleteCounts' /\ Earned' /\ CountsOwned' /\ ReadHolds'
  BY <1>2, <1>3 DEF RunSound, CompleteCounts, Earned, CountsOwned, ReadHolds, Scanning
<1>5. Looked'
  BY <1>2, <1>3 DEF CmdbInv, Looked, Unseen
<1> QED BY <1>2, <1>3, <1>4, <1>5, RunMoves DEF Deadline, CmdbInv, TypeOK

-----------------------------------------------------------------------------
(* Retirement *)

LEMMA BeginLifecycleKeeps ==
  ASSUME CmdbInv, BeginLifecycle
  PROVE  CmdbInv'
<1> DEFINE todo == IF Complete /\ run.apply THEN {i \in Items : ci[i].owned} ELSE {}
<1>1. run \in Runs /\ run.pc = "scan" /\ run.seen \in [Items -> Worlds] /\ run.scope \in Scopes /\ run.left = {}
  BY DEF CmdbInv, TypeOK, RunSound, BeginLifecycle, Scanning
<1>2. todo \subseteq Items /\ (todo # {} => run.bad = {}) /\ \A i \in todo : ci[i].owned
  BY DEF Complete
<1>3. run' = [run EXCEPT !.pc = "lifecycle", !.todo = todo]
  BY DEF BeginLifecycle
<1> HIDE DEF todo
<1>4. /\ run' \in Runs /\ run'.pc = "lifecycle" /\ run'.scope = run.scope /\ run'.todo = todo
      /\ run'.seen = run.seen /\ run'.left = run.left /\ run'.bad = run.bad /\ run'.absent = run.absent
  BY <1>1, <1>2, <1>3 DEF Runs
<1>5. RunSound' /\ Earned' /\ ReadHolds'
  BY <1>1, <1>4 DEF RunSound, Earned, ReadHolds, Scanning
<1>6. CompleteCounts' /\ CountsOwned'
  BY <1>1, <1>2, <1>4 DEF CompleteCounts, CountsOwned, BeginLifecycle
<1>7. Looked'
  BY <1>1, <1>4 DEF CmdbInv, Looked, Unseen
<1> QED BY <1>1, <1>4, <1>5, <1>6, <1>7, RunMoves DEF BeginLifecycle, CmdbInv, TypeOK

\* A pass that counts a miss of an item missed it for a reason.
LEMMA CountedIsAbsent ==
  ASSUME CmdbInv, run.pc = "lifecycle", NEW i \in run.todo, Unseen(i)
  PROVE  i \in run.absent
BY CmdbConfig DEF CmdbInv, TypeOK, Runs, CompleteCounts, Looked

LEMMA CountMissKeeps ==
  ASSUME CmdbInv, NEW i \in Items, CountMiss(i)
  PROVE  CmdbInv' /\ \A j \in Items : ci'[j].status = ci[j].status
<1>1. /\ run \in Runs /\ run.pc = "lifecycle" /\ run.seen \in [Items -> Worlds] /\ run.scope \in Scopes
      /\ i \in run.todo /\ ci \in [Items -> ConfigItems] /\ away \in [Items -> [Scopes -> Nat]]
      /\ Threshold \in Nat /\ Threshold > 0
  BY CmdbConfig DEF CmdbInv, TypeOK, RunSound, CountMiss, Scanning
<1>2. Misses(i) \in Nat /\ ci[i].misses \in [Scopes -> Nat] /\ ci[i].owned
  BY <1>1 DEF Misses, ConfigItems, CmdbInv, CountsOwned
<1> DEFINE reason == IF Unseen(i) /\ i \in run.absent THEN away[i][run.scope] + 1 ELSE 0
<1>3. reason \in Nat /\ Misses(i) <= reason
  BY <1>1, <1>2, CountedIsAbsent DEF Misses, CmdbInv, MissesFounded
<1>4. ci' = [ci EXCEPT ![i].misses[run.scope] = Misses(i)]
  BY DEF CountMiss
<1>5. away' = [away EXCEPT ![i][run.scope] = reason]
  BY DEF CountMiss
<1> HIDE DEF reason
<1>6. /\ ci' \in [Items -> ConfigItems] /\ away' \in [Items -> [Scopes -> Nat]]
      /\ \A j \in Items : ci'[j].status = ci[j].status /\ ci'[j].owned = ci[j].owned
      /\ \A j \in Items \ {i} : ci'[j] = ci[j]
  BY <1>1, <1>2, <1>3, <1>4, <1>5 DEF ConfigItems
<1>7. /\ \A s \in Scopes : ci'[i].misses[s] = IF s = run.scope THEN Misses(i) ELSE ci[i].misses[s]
      /\ \A j \in Items, s \in Scopes :
           away'[j][s] = IF j = i /\ s = run.scope THEN reason ELSE away[j][s]
  BY <1>1, <1>2, <1>3, <1>4, <1>5 DEF ConfigItems
<1>8. MissesFounded'
  BY <1>3, <1>6, <1>7 DEF CmdbInv, MissesFounded
<1>9. /\ run' \in Runs /\ run'.pc \in {"lifecycle", "retire"} /\ run'.scope = run.scope
      /\ run'.seen = run.seen /\ run'.left = run.left /\ run'.bad = run.bad /\ run'.absent = run.absent
      /\ run'.todo \subseteq run.todo
      /\ run'.pc = "retire" => run'.item = i /\ i \in run'.todo /\ Misses(i) >= Threshold
  <2>1. CASE Misses(i) >= Threshold /\ ci[i].status # "retired"
    <3>1. run' = [run EXCEPT !.pc = "retire", !.item = i]
      BY <2>1 DEF CountMiss
    <3> QED BY <3>1, <2>1, <1>1 DEF Runs
  <2>2. CASE ~(Misses(i) >= Threshold /\ ci[i].status # "retired")
    <3>1. run' = [run EXCEPT !.todo = run.todo \ {i}]
      BY <2>2 DEF CountMiss
    <3> QED BY <3>1, <1>1 DEF Runs
  <2> QED BY <2>1, <2>2
<1>10. RunSound' /\ CompleteCounts' /\ ReadHolds'
  BY <1>1, <1>9 DEF RunSound, ReadHolds, Scanning, CmdbInv, CompleteCounts
<1>11. Looked'
  BY <1>1, <1>9 DEF CmdbInv, Looked, Unseen
<1>12. Earned'
  BY <1>1, <1>2, <1>3, <1>7, <1>9 DEF Earned
<1>13. CountsOwned'
  BY <1>1, <1>6, <1>9 DEF CmdbInv, CountsOwned, Runs
<1>14. PlanSound' /\ ReviewHolds'
  BY <1>2, <1>6 DEF CmdbInv, TypeOK, Plans, PlanSound, ReviewHolds, Compared, CountMiss
<1>15. FilesBounded'
  BY <1>1, <1>9 DEF CmdbInv, FilesBounded, CountMiss
<1>16. TypeOK'
  BY <1>6, <1>9 DEF CmdbInv, TypeOK, CountMiss
<1> QED BY <1>6, <1>8, <1>10, <1>11, <1>12, <1>13, <1>14, <1>15, <1>16 DEF CmdbInv

LEMMA RetireKeeps ==
  ASSUME CmdbInv, Retire
  PROVE  /\ CmdbInv'
         /\ \A j \in Items : ci[j].status = "retired" => ci'[j].status = "retired"
<1>1. /\ run \in Runs /\ run.pc = "retire" /\ run.seen \in [Items -> Worlds] /\ run.scope \in Scopes
      /\ run.item \in run.todo /\ run.item \in Items /\ ci \in [Items -> ConfigItems]
  BY DEF CmdbInv, TypeOK, RunSound, Retire, Scanning, Runs
<1>2. ci[run.item].owned
  BY <1>1 DEF CmdbInv, CountsOwned
<1>3. ci' = [ci EXCEPT ![run.item].status = "retired"]
  BY DEF Retire
<1>4. /\ ci' \in [Items -> ConfigItems]
      /\ \A j \in Items : ci'[j].misses = ci[j].misses /\ ci'[j].owned = ci[j].owned
      /\ \A j \in Items \ {run.item} : ci'[j] = ci[j]
      /\ ci'[run.item].status = "retired"
  BY <1>1, <1>3 DEF ConfigItems, Statuses
<1>5. run' = [run EXCEPT !.pc = "lifecycle", !.todo = run.todo \ {run.item}, !.item = None]
  BY DEF Retire
<1>6. /\ run' \in Runs /\ run'.pc = "lifecycle" /\ run'.scope = run.scope /\ run'.todo \subseteq run.todo
      /\ run'.seen = run.seen /\ run'.left = run.left /\ run'.bad = run.bad /\ run'.absent = run.absent
  BY <1>1, <1>5 DEF Runs
<1>7. RunSound' /\ CompleteCounts' /\ ReadHolds' /\ Earned'
  BY <1>1, <1>6 DEF RunSound, ReadHolds, Scanning, CmdbInv, CompleteCounts, Earned
<1>8. Looked'
  BY <1>1, <1>6 DEF CmdbInv, Looked, Unseen
<1>9. CountsOwned'
  BY <1>1, <1>4, <1>6 DEF CmdbInv, CountsOwned, Runs
<1>10. MissesFounded'
  BY <1>4 DEF CmdbInv, MissesFounded, Retire
<1>11. PlanSound' /\ ReviewHolds'
  BY <1>2, <1>4 DEF CmdbInv, TypeOK, Plans, PlanSound, ReviewHolds, Compared, Retire
<1>12. FilesBounded'
  BY <1>1, <1>6 DEF CmdbInv, FilesBounded, Retire
<1>13. TypeOK'
  BY <1>4, <1>6 DEF CmdbInv, TypeOK, Retire
<1> QED BY <1>4, <1>7, <1>8, <1>9, <1>10, <1>11, <1>12, <1>13 DEF CmdbInv

-----------------------------------------------------------------------------
(* Reconcile *)

LEMMA BeginReconcileKeeps ==
  ASSUME CmdbInv, BeginReconcile
  PROVE  CmdbInv'
<1>1. PICK valid \in BOOLEAN :
       run' = [run EXCEPT !.pc = "reconcile", !.known = ci, !.valid = valid, !.absent = {},
                          !.todo = IF run.apply /\ valid THEN {i \in Items : ~Unseen(i)} ELSE {}]
  BY DEF BeginReconcile
<1>2. /\ run \in Runs /\ run.pc = "lifecycle" /\ run.seen \in [Items -> Worlds] /\ run.scope \in Scopes
      /\ ci \in [Items -> ConfigItems]
  BY DEF CmdbInv, TypeOK, RunSound, BeginReconcile, Scanning
<1> DEFINE todo == IF run.apply /\ valid THEN {i \in Items : ~Unseen(i)} ELSE {}
<1>3. todo \subseteq Items
  OBVIOUS
<1>4. run' = [run EXCEPT !.pc = "reconcile", !.known = ci, !.valid = valid, !.absent = {}, !.todo = todo]
  BY <1>1
<1> HIDE DEF todo
<1>5. /\ run' \in Runs /\ run'.pc = "reconcile" /\ run'.scope = run.scope /\ run'.todo = todo
      /\ run'.seen = run.seen /\ run'.known = ci
  BY <1>2, <1>3, <1>4 DEF Runs
<1>6. RunSound' /\ CompleteCounts' /\ Earned' /\ Looked' /\ CountsOwned'
  BY <1>2, <1>5 DEF RunSound, CompleteCounts, Earned, Looked, CountsOwned, Scanning
<1>7. ReadHolds'
  BY <1>5 DEF ReadHolds, BeginReconcile
<1> QED BY <1>2, <1>5, <1>6, <1>7, RunMoves DEF BeginReconcile, CmdbInv, TypeOK

\* What reconcile may do to the store: it touches the item, keeps its counters and its
\* owner, and what it read as retired stays so.
LEMMA ReconciledItem ==
  ASSUME CmdbInv, run.pc = "reconcile", NEW i \in run.todo, NEW n \in 0..3
  PROVE  /\ Reconciled(i, n) \in [Items -> ConfigItems]
         /\ \A j \in Items \ {i} : Reconciled(i, n)[j] = ci[j]
         /\ Reconciled(i, n)[i].misses = ci[i].misses
         /\ ci[i].owned => Reconciled(i, n)[i].owned
         /\ i \notin run.raced /\ ci[i].status = "retired" => Reconciled(i, n)[i].status = "retired"
<1> DEFINE new == run.known[i].status = "none"
           st == IF new THEN "operational" ELSE ci[i].status
           after == IF n > 1 THEN StatusWritten(i, st) ELSE st
           mine == ci[i].owned \/ new \/ n > 2
<1>1. /\ run \in Runs /\ i \in Items /\ run.seen \in [Items -> Worlds] /\ run.scope \in Scopes
      /\ ci \in [Items -> ConfigItems] /\ run.known \in [Items -> ConfigItems]
  BY DEF CmdbInv, TypeOK, RunSound, Scanning, Runs
<1>2. run.known[i] \in ConfigItems /\ ci[i] \in ConfigItems /\ st \in Statuses
  BY <1>1 DEF ConfigItems, Statuses, Absent
<1>3. Observed(run.seen[i]) = None \/ Observed(run.seen[i]) \in Statuses
  BY <1>1 DEF Observed, Worlds, Statuses
<1>4. after \in Statuses /\ mine \in BOOLEAN
  BY <1>2, <1>3 DEF StatusWritten, ConfigItems
<1>5. i \notin run.raced /\ ci[i].status = "retired" => ~new /\ after = "retired"
  <2> SUFFICES ASSUME i \notin run.raced, ci[i].status = "retired" PROVE ~new /\ after = "retired"
    OBVIOUS
  <2>1. run.known[i].status = "retired"
    BY DEF CmdbInv, ReadHolds
  <2> QED BY <2>1 DEF StatusWritten
<1> DEFINE left == ci[i].status = "torn" \/ (n = 0 /\ ~new)
           torn == [ci EXCEPT ![i].status = "torn"]
           full == [ci EXCEPT ![i].scope = run.scope, ![i].status = after, ![i].owned = mine]
<1>6. Reconciled(i, n) = CASE left -> ci [] ci[i].status # "torn" /\ n = 0 /\ new -> torn [] OTHER -> full
  BY Zenon DEF Reconciled
<1> HIDE DEF torn, full
<1>10. /\ left => Reconciled(i, n) = ci
       /\ ~left /\ n = 0 => Reconciled(i, n) = torn
       /\ ~left /\ n # 0 => Reconciled(i, n) = full
  BY <1>6
<1> HIDE DEF after, mine
<1>7. CASE left
  BY <1>1, <1>10, <1>7
<1>8. CASE ~left /\ n = 0
  <2>1. Reconciled(i, n) = [ci EXCEPT ![i] = [ci[i] EXCEPT !.status = "torn"]]
    BY <1>1, <1>10, <1>8 DEF torn
  <2>2. "torn" \in Statuses
    BY DEF Statuses, Absent
  <2>3. ~(i \notin run.raced /\ ci[i].status = "retired")
    BY <1>5, <1>8
  <2>4. [ci[i] EXCEPT !.status = "torn"] \in ConfigItems
    BY <1>2, <2>2 DEF ConfigItems
  <2>5. /\ Reconciled(i, n) \in [Items -> ConfigItems]
        /\ \A j \in Items \ {i} : Reconciled(i, n)[j] = ci[j]
        /\ Reconciled(i, n)[i] = [ci[i] EXCEPT !.status = "torn"]
    BY <1>1, <2>1, <2>4
  <2>6. Reconciled(i, n)[i].misses = ci[i].misses /\ Reconciled(i, n)[i].owned = ci[i].owned
    BY <1>2, <2>5 DEF ConfigItems
  <2> QED BY <2>3, <2>5, <2>6
<1>9. CASE ~left /\ n # 0
  <2>1. Reconciled(i, n) = [ci EXCEPT ![i].scope = run.scope, ![i].status = after, ![i].owned = mine]
    BY <1>10, <1>9 DEF full
  <2>2. [ci[i] EXCEPT !.scope = run.scope, !.status = after, !.owned = mine] \in ConfigItems
    BY <1>1, <1>2, <1>4 DEF ConfigItems
  <2>3. Reconciled(i, n) = [ci EXCEPT ![i] = [ci[i] EXCEPT !.scope = run.scope, !.status = after, !.owned = mine]]
    BY <1>1, <2>1
  <2>4. ci[i].owned => mine
    BY DEF mine
  <2> HIDE DEF new
  <2> QED BY <1>1, <1>2, <1>5, <2>2, <2>3, <2>4 DEF ConfigItems
<1> QED BY <1>7, <1>8, <1>9

\* What reconcile does to an item disturbs neither the counters nor, but for the item,
\* what an enrollment reviewed.
LEMMA StoreReconciled ==
  ASSUME CmdbInv, run.pc = "reconcile", NEW i \in run.todo, NEW n \in 0..3,
         ci' = Reconciled(i, n), plan' = Raced(plan, {i}), UNCHANGED away
  PROVE  /\ ci' \in [Items -> ConfigItems] /\ MissesFounded' /\ PlanSound' /\ ReviewHolds'
         /\ plan'.items \subseteq Items /\ plan' \in Plans(plan'.items)
         /\ \A j \in Items \ {i} : ci'[j] = ci[j]
<1>1. /\ run \in Runs /\ i \in Items /\ ci \in [Items -> ConfigItems]
      /\ plan.items \subseteq Items /\ plan \in Plans(plan.items)
  BY DEF CmdbInv, TypeOK, Runs
<1>2. /\ ci' \in [Items -> ConfigItems] /\ \A j \in Items \ {i} : ci'[j] = ci[j]
      /\ ci'[i].misses = ci[i].misses
  BY ReconciledItem
<1>3. MissesFounded'
  BY <1>2 DEF CmdbInv, MissesFounded
<1>4. /\ PlanSound' /\ ReviewHolds' /\ plan'.items \subseteq Items /\ plan' \in Plans(plan'.items)
  <2>1. {i} \in SUBSET Items
    BY <1>1
  <2> QED BY <1>2, <2>1, OthersReview
<1> QED BY <1>2, <1>3, <1>4

LEMMA ReconcileItemKeeps ==
  ASSUME CmdbInv, NEW i \in Items, ReconcileItem(i)
  PROVE  CmdbInv'
<1>1. /\ run \in Runs /\ run.pc = "reconcile" /\ i \in run.todo
      /\ run.seen \in [Items -> Worlds] /\ run.scope \in Scopes /\ run.known \in [Items -> ConfigItems]
  BY DEF CmdbInv, TypeOK, RunSound, ReconcileItem, Scanning
<1>2. /\ ci' \in [Items -> ConfigItems] /\ MissesFounded' /\ PlanSound' /\ ReviewHolds'
      /\ plan'.items \subseteq Items /\ plan' \in Plans(plan'.items)
      /\ \A j \in Items \ {i} : ci'[j] = ci[j]
  <2>1. PICK n \in 0..3 : ci' = Reconciled(i, n)
    BY DEF ReconcileItem
  <2> QED BY <1>1, <2>1, StoreReconciled DEF ReconcileItem
<1>3. /\ run' \in Runs /\ run'.pc = "reconcile" /\ run'.scope = run.scope /\ run'.todo = run.todo \ {i}
      /\ run'.seen = run.seen /\ run'.known = run.known /\ run'.raced = run.raced
  BY <1>1 DEF ReconcileItem, Runs
<1>4. RunSound' /\ CompleteCounts' /\ Earned' /\ Looked' /\ CountsOwned'
  BY <1>1, <1>3 DEF RunSound, CompleteCounts, Earned, Looked, CountsOwned, Scanning
<1>5. ReadHolds'
  BY <1>1, <1>2, <1>3 DEF CmdbInv, ReadHolds, Runs
<1>6. TypeOK'
  BY <1>2, <1>3 DEF CmdbInv, TypeOK, ReconcileItem
<1>7. FilesBounded'
  BY <1>1, <1>3 DEF CmdbInv, FilesBounded, ReconcileItem
<1> QED BY <1>2, <1>4, <1>5, <1>6, <1>7 DEF CmdbInv

LEMMA ReconcileInterruptedKeeps ==
  ASSUME CmdbInv, NEW i \in Items, ReconcileInterrupted(i)
  PROVE  CmdbInv'
<1>1. PICK n \in 0..3 : ci' = Reconciled(i, n)
  BY DEF ReconcileInterrupted
<1>2. /\ ci' \in [Items -> ConfigItems] /\ MissesFounded' /\ PlanSound' /\ ReviewHolds'
      /\ plan'.items \subseteq Items /\ plan' \in Plans(plan'.items)
  BY <1>1, StoreReconciled DEF ReconcileInterrupted
<1>3. run' \in Runs /\ run'.pc = "idle" /\ run'.todo = {}
  BY NoRunIsRun DEF ReconcileInterrupted
<1>4. RunSound' /\ Looked' /\ CompleteCounts' /\ Earned' /\ CountsOwned' /\ ReadHolds'
  BY <1>3, NoRunMakesNoClaims
<1>5. faults' \in 0..MaxFaults /\ faults' = faults + 1 /\ faults \in Nat
  BY CmdbConfig DEF CmdbInv, TypeOK, ReconcileInterrupted
<1>6. Retention \in Nat /\ Len(files) \in Nat
  BY CmdbConfig DEF CmdbInv, TypeOK
<1>7. TypeOK'
  <2>1. Len(files) <= Retention + 1 + faults'
    BY <1>5, <1>6 DEF CmdbInv, TypeOK
  <2> QED BY <1>2, <1>3, <1>5, <2>1 DEF CmdbInv, TypeOK, ReconcileInterrupted
<1>8. FilesBounded'
  BY <1>3, <1>5, <1>6 DEF CmdbInv, FilesBounded, ReconcileInterrupted
<1> QED BY <1>2, <1>4, <1>7, <1>8 DEF CmdbInv

-----------------------------------------------------------------------------
(* Evidence *)

LEMMA EventsAreEvents ==
  ASSUME CmdbInv
  PROVE  RunEvents \in SUBSET Events
BY DEF CmdbInv, TypeOK, Runs, RunEvents, Health, Drift, Events

\* A step of the run that moves its evidence and leaves the store and the plan.
LEMMA EvidenceMoves ==
  ASSUME CmdbInv, UNCHANGED <<world, ci, plan, audits, away, runs, changes>>,
         run' \in Runs, run'.pc \in {"idle", "seal", "route", "prune"}, run'.todo = {},
         faults' \in 0..MaxFaults,
         files' \in Seq(Artifacts), Len(files') <= Retention + 1 + faults',
         incidents' \subseteq Events, alarm' \in [Events -> Nat], FilesBounded'
  PROVE  CmdbInv'
<1>1. TypeOK'
  BY DEF CmdbInv, TypeOK
<1>2. MissesFounded'
  BY DEF CmdbInv, MissesFounded
<1>3. RunSound' /\ Looked' /\ CompleteCounts' /\ Earned' /\ CountsOwned' /\ ReadHolds'
  BY NoRunMakesNoClaims
<1> QED BY <1>1, <1>2, <1>3, PlanKept DEF CmdbInv

LEMMA WriteArtifactKeeps ==
  ASSUME CmdbInv, WriteArtifact
  PROVE  CmdbInv'
<1> DEFINE a == [scope |-> run.scope, complete |-> Complete, applied |-> run.apply /\ run.valid,
                 events |-> RunEvents, sealed |-> FALSE]
<1>1. run \in Runs /\ run.pc = "reconcile" /\ run.scope \in Scopes
  BY DEF CmdbInv, TypeOK, RunSound, WriteArtifact, Scanning
<1>2. a \in Artifacts
  BY <1>1, EventsAreEvents DEF Artifacts, Complete
<1>3. files' = Append(files, a)
  BY DEF WriteArtifact
<1> HIDE DEF a
<1>4. /\ files \in Seq(Artifacts) /\ Len(files) \in Nat /\ faults \in Nat /\ Retention \in Nat
      /\ Len(files) <= Retention + faults
  BY <1>1, CmdbConfig DEF CmdbInv, TypeOK, FilesBounded
<1>5. files' \in Seq(Artifacts) /\ Len(files') = Len(files) + 1
  BY <1>2, <1>3, <1>4
<1> PICK n : n = NoRun
  OBVIOUS
<1>6. run' = [n EXCEPT !.pc = "seal"]
  BY DEF WriteArtifact
<1>7. run' \in Runs /\ run'.pc = "seal" /\ run'.todo = {}
  BY <1>6, NoRunIsRun DEF Runs
<1>8. faults' = faults
  BY DEF WriteArtifact
<1>9. Len(files') <= Retention + 1 + faults' /\ files' # <<>>
  BY <1>4, <1>5, <1>8
<1>10. FilesBounded'
  BY <1>7, <1>9 DEF FilesBounded
<1> QED BY <1>5, <1>7, <1>9, <1>10, EvidenceMoves DEF WriteArtifact, CmdbInv, TypeOK

LEMMA WriteChecksumKeeps ==
  ASSUME CmdbInv, WriteChecksum
  PROVE  CmdbInv'
<1>1. /\ run \in Runs /\ run.pc = "seal" /\ run.todo = {} /\ files \in Seq(Artifacts) /\ files # <<>>
      /\ alarm \in [Events -> Nat]
  BY DEF CmdbInv, TypeOK, RunSound, FilesBounded, WriteChecksum
<1>2. Len(files) \in 1..Len(files) /\ files[Len(files)] \in Artifacts
  BY <1>1
<1>3. [files[Len(files)] EXCEPT !.sealed = TRUE] \in Artifacts
  BY <1>2 DEF Artifacts
<1>4. files' = [files EXCEPT ![Len(files)] = [files[Len(files)] EXCEPT !.sealed = TRUE]]
  BY <1>1, <1>2 DEF WriteChecksum
<1>5. files' \in Seq(Artifacts) /\ Len(files') = Len(files)
  BY <1>1, <1>2, <1>3, <1>4, ExceptSeq
<1>6. run' \in Runs /\ run'.pc = "route" /\ run'.todo = {}
  BY <1>1 DEF WriteChecksum, Runs
<1>7. alarm' \in [Events -> Nat]
  BY <1>1 DEF WriteChecksum
<1>8. faults' = faults
  BY DEF WriteChecksum
<1>9. FilesBounded'
  BY <1>6 DEF FilesBounded
<1> QED BY <1>5, <1>6, <1>7, <1>8, <1>9, EvidenceMoves DEF WriteChecksum, CmdbInv, TypeOK

LEMMA RouteIncidentsKeeps ==
  ASSUME CmdbInv, RouteIncidents
  PROVE  CmdbInv'
<1>1. run \in Runs /\ run.pc = "route" /\ run.todo = {} /\ incidents \subseteq Events
  BY DEF CmdbInv, TypeOK, RunSound, RouteIncidents
<1>2. incidents' \subseteq Events
  BY <1>1 DEF RouteIncidents
<1>3. run' \in Runs /\ run'.pc = "prune" /\ run'.todo = {}
  BY <1>1 DEF RouteIncidents, Runs
<1>4. FilesBounded'
  BY <1>3 DEF FilesBounded
<1> QED BY <1>2, <1>3, <1>4, EvidenceMoves DEF RouteIncidents, CmdbInv, TypeOK

\* Pruning keeps as many artifacts as are retained.
LEMMA KeptFiles ==
  ASSUME CmdbInv, Len(files) > Retention
  PROVE  Kept \in Seq(Artifacts) /\ Len(Kept) = Retention
<1>1. files \in Seq(Artifacts) /\ Len(files) \in Nat /\ Retention \in Nat \ {0}
  BY CmdbConfig DEF CmdbInv, TypeOK
<1> DEFINE first == Len(files) - Retention + 1
<1>2. first \in Nat /\ first >= 1 /\ first <= Len(files)
  BY <1>1
<1>3. Max({1, first}) = first
  BY <1>2 DEF Max
<1>4. Kept = SubSeq(files, first, Len(files))
  BY <1>3, Zenon DEF Kept
<1> HIDE DEF first
<1>5. Kept \in Seq(Artifacts) /\ Len(Kept) = Len(files) - first + 1
  BY <1>1, <1>2, <1>4, SubSeqProperties
<1> QED BY <1>1, <1>5 DEF first

LEMMA PruneKeeps ==
  ASSUME CmdbInv, Prune
  PROVE  CmdbInv'
<1>1. /\ files \in Seq(Artifacts) /\ Len(files) \in Nat /\ Retention \in Nat
      /\ faults \in Nat /\ faults' = faults
  BY CmdbConfig DEF CmdbInv, TypeOK, Prune
<1>2. files' \in Seq(Artifacts) /\ Len(files') \in Nat /\ Len(files') <= Retention
  BY <1>1, KeptFiles DEF Prune
<1>3. run' \in Runs /\ run'.pc = "idle" /\ run'.todo = {}
  BY NoRunIsRun DEF Prune
<1>4. Len(files') <= Retention + 1 + faults' /\ Len(files') <= Retention + faults'
  BY <1>1, <1>2
<1>5. FilesBounded'
  BY <1>3, <1>4 DEF FilesBounded
<1> QED BY <1>2, <1>3, <1>4, <1>5, EvidenceMoves DEF Prune, CmdbInv, TypeOK

LEMMA PruneInterruptedKeeps ==
  ASSUME CmdbInv, PruneInterrupted
  PROVE  CmdbInv'
<1>1. PICK n \in 0..Len(files) - Retention : files' = SubSeq(files, 1, n) \o Kept
  BY DEF PruneInterrupted
<1>2. /\ files \in Seq(Artifacts) /\ Len(files) \in Nat /\ Retention \in Nat \ {0} /\ Len(files) > Retention
      /\ faults \in Nat /\ faults' = faults + 1 /\ faults' \in 0..MaxFaults
      /\ Len(files) <= Retention + 1 + faults
  <2>1. /\ files \in Seq(Artifacts) /\ faults \in 0..MaxFaults /\ Len(files) <= Retention + 1 + faults
    BY DEF CmdbInv, TypeOK
  <2>2. Len(files) > Retention /\ faults < MaxFaults /\ faults' = faults + 1
    BY DEF PruneInterrupted
  <2>3. Retention \in Nat \ {0} /\ MaxFaults \in Nat
    BY CmdbConfig
  <2> QED BY <2>1, <2>2, <2>3
<1>3. n \in Nat /\ n <= Len(files) - Retention
  BY <1>1, <1>2
<1>4. SubSeq(files, 1, n) \in Seq(Artifacts) /\ Len(SubSeq(files, 1, n)) = n
  <2>1. 1 \in 1..Len(files) + 1 /\ n \in 1 - 1..Len(files)
    BY <1>2, <1>3
  <2> QED BY <1>2, <1>3, <2>1, SubSeqProperties
<1>5. files' \in Seq(Artifacts) /\ Len(files') = n + Retention
  <2>1. Kept \in Seq(Artifacts) /\ Len(Kept) = Retention
    BY <1>2, KeptFiles
  <2> QED BY <1>1, <1>2, <1>3, <1>4, <2>1, ConcatProperties
<1>6. Len(files') <= Retention + 1 + faults' /\ Len(files') <= Retention + faults'
  BY <1>2, <1>3, <1>5
<1>7. run' \in Runs /\ run'.pc = "idle" /\ run'.todo = {}
  BY NoRunIsRun DEF PruneInterrupted
<1>8. FilesBounded'
  BY <1>6, <1>7 DEF FilesBounded
<1> QED BY <1>2, <1>5, <1>6, <1>7, <1>8, EvidenceMoves DEF PruneInterrupted, CmdbInv, TypeOK

LEMMA CrashKeeps ==
  ASSUME CmdbInv, Crash
  PROVE  CmdbInv'
<1>1. /\ files \in Seq(Artifacts) /\ Len(files) \in Nat /\ Retention \in Nat
      /\ faults \in Nat /\ faults' = faults + 1 /\ faults' \in 0..MaxFaults
      /\ Len(files) <= Retention + 1 + faults
  BY CmdbConfig DEF CmdbInv, TypeOK, Crash
<1>2. run' \in Runs /\ run'.pc = "idle" /\ run'.todo = {} /\ files' = files
  BY NoRunIsRun DEF Crash
<1>3. Len(files') <= Retention + 1 + faults' /\ Len(files') <= Retention + faults'
  BY <1>1, <1>2
<1>4. FilesBounded'
  BY <1>2, <1>3 DEF FilesBounded
<1> QED BY <1>1, <1>2, <1>3, <1>4, EvidenceMoves DEF Crash, CmdbInv, TypeOK

-----------------------------------------------------------------------------
(* Ownership of legacy items and operators *)

\* A step that moves the plan and leaves the rest of the state.
LEMMA PlanMoves ==
  ASSUME CmdbInv, UNCHANGED <<world, ci, run, files, incidents, away, alarm, runs, changes, faults>>,
         plan'.items \subseteq Items, plan' \in Plans(plan'.items), PlanSound', ReviewHolds'
  PROVE  CmdbInv'
<1>1. TypeOK'
  BY DEF CmdbInv, TypeOK
<1>2. RunSound' /\ CompleteCounts' /\ Earned' /\ CountsOwned' /\ ReadHolds' /\ Looked'
  BY DEF CmdbInv, RunSound, CompleteCounts, Earned, CountsOwned, ReadHolds, Looked, Unseen
<1>3. MissesFounded' /\ FilesBounded'
  BY DEF CmdbInv, MissesFounded, FilesBounded
<1> QED BY <1>1, <1>2, <1>3 DEF CmdbInv

LEMMA PlanBackfillKeeps ==
  ASSUME CmdbInv, NEW s \in Scopes, NEW I \in SUBSET Items, PlanBackfill(s, I)
  PROVE  CmdbInv'
<1> PICK n : n = NoPlan
  OBVIOUS
<1>1. n \in Plans({}) /\ n.todo = {} /\ n.raced = {}
  BY NoPlanIsPlan DEF NoPlan
<1> DEFINE view == [i \in I |-> ci[i]]
<1>2. view \in [I -> ConfigItems]
  BY DEF CmdbInv, TypeOK
<1>3. plan' = [n EXCEPT !.pc = "review", !.scope = s, !.items = I, !.view = view]
  BY DEF PlanBackfill
<1> HIDE DEF view
<1>4. /\ plan' \in Plans(I) /\ plan'.items = I /\ plan'.pc = "review" /\ plan'.scope = s
      /\ plan'.todo = {}
  BY <1>1, <1>2, <1>3 DEF Plans
<1>5. PlanSound' /\ ReviewHolds'
  BY <1>4 DEF PlanSound, ReviewHolds, Compared
<1> QED BY <1>4, <1>5, PlanMoves DEF PlanBackfill

LEMMA StartBackfillKeeps ==
  ASSUME CmdbInv, StartBackfill
  PROVE  CmdbInv'
<1>1. /\ plan.items \subseteq Items /\ plan \in Plans(plan.items) /\ plan.pc = "review"
      /\ plan.scope \in Scopes
  BY DEF CmdbInv, TypeOK, PlanSound, StartBackfill
<1>2. plan' = [plan EXCEPT !.pc = "check", !.todo = plan.items]
  BY DEF StartBackfill
<1>3. /\ plan' \in Plans(plan.items) /\ plan'.items = plan.items /\ plan'.pc = "check"
      /\ plan'.scope = plan.scope /\ plan'.todo = plan.items
  BY <1>1, <1>2 DEF Plans
<1>4. PlanSound' /\ ReviewHolds'
  BY <1>1, <1>3 DEF PlanSound, ReviewHolds, Compared
<1> QED BY <1>1, <1>3, <1>4, PlanMoves DEF StartBackfill

\* The last comparison of a batch is the first step of its enrollment.
LEMMA CheckItemKeeps ==
  ASSUME CmdbInv, NEW i \in Items, CheckItem(i)
  PROVE  CmdbInv'
<1>1. /\ plan.items \subseteq Items /\ plan \in Plans(plan.items) /\ plan.pc = "check"
      /\ plan.scope \in Scopes /\ i \in plan.todo /\ plan.todo \subseteq plan.items
  BY DEF CmdbInv, TypeOK, PlanSound, CheckItem, Plans
<1>2. \A j \in plan.items \ plan.todo : j \notin plan.raced => ci[j] = plan.view[j] /\ ~ci[j].owned
  BY <1>1 DEF CmdbInv, ReviewHolds, Compared
<1>3. CASE ~AsPlanned(i)
  <2>1. plan' = NoPlan
    BY <1>3 DEF CheckItem
  <2>2. PlanSound' /\ ReviewHolds'
    BY <2>1, NoPlanIsPlan DEF PlanSound, ReviewHolds, Compared
  <2> QED BY <2>1, <2>2, NoPlanIsPlan, PlanMoves DEF CheckItem
<1>4. CASE AsPlanned(i) /\ plan.todo # {i}
  <2>1. plan' = [plan EXCEPT !.todo = plan.todo \ {i}]
    BY <1>4 DEF CheckItem
  <2>2. /\ plan' \in Plans(plan.items) /\ plan'.items = plan.items /\ plan'.pc = "check"
        /\ plan'.scope = plan.scope /\ plan'.todo = plan.todo \ {i} /\ plan'.view = plan.view
        /\ plan'.raced = plan.raced
    BY <1>1, <2>1 DEF Plans
  <2>3. \A j \in plan.items \ (plan.todo \ {i}) :
          j \notin plan.raced => ci[j] = plan.view[j] /\ ~ci[j].owned
    BY <1>2, <1>4 DEF AsPlanned
  <2>4. UNCHANGED ci
    BY DEF CheckItem
  <2>5. PlanSound' /\ ReviewHolds'
    BY <1>1, <2>2, <2>3, <2>4 DEF PlanSound, ReviewHolds, Compared
  <2> QED BY <1>1, <2>2, <2>5, PlanMoves DEF CheckItem
<1>5. CASE AsPlanned(i) /\ plan.todo = {i}
  <2>1. plan' = [plan EXCEPT !.pc = "enroll", !.todo = plan.items]
    BY <1>5 DEF CheckItem
  <2>2. /\ plan' \in Plans(plan.items) /\ plan'.items = plan.items /\ plan'.pc = "enroll"
        /\ plan'.scope = plan.scope /\ plan'.todo = plan.items /\ plan'.view = plan.view
        /\ plan'.raced = plan.raced
    BY <1>1, <2>1 DEF Plans
  <2>3. \A j \in plan.items : j \notin plan.raced => ci[j] = plan.view[j] /\ ~ci[j].owned
    BY <1>2, <1>5 DEF AsPlanned
  <2>4. UNCHANGED ci
    BY DEF CheckItem
  <2>5. PlanSound' /\ ReviewHolds'
    BY <1>1, <2>2, <2>3, <2>4 DEF PlanSound, ReviewHolds, Compared
  <2> QED BY <1>1, <2>2, <2>5, PlanMoves DEF CheckItem
<1> QED BY <1>3, <1>4, <1>5

LEMMA WriteAuditKeeps ==
  ASSUME CmdbInv, WriteAudit
  PROVE  CmdbInv'
<1>1. plan' = NoPlan
  BY DEF WriteAudit
<1>2. PlanSound' /\ ReviewHolds'
  BY <1>1, NoPlanIsPlan DEF PlanSound, ReviewHolds, Compared
<1> QED BY <1>1, <1>2, NoPlanIsPlan, PlanMoves DEF WriteAudit

\* Whoever else writes to items I leaves what the run relies on: the counters stay, no
\* item loses its owner, and the run's history names the items.
LEMMA OthersWrite ==
  ASSUME CmdbInv, NEW I \in SUBSET Items, run' = Raced(run, I), UNCHANGED <<away, files>>,
         faults' \in Nat, faults' >= faults,
         ci' \in [Items -> ConfigItems], \A j \in Items \ I : ci'[j] = ci[j],
         \A j \in Items : ci'[j].misses = ci[j].misses /\ (ci[j].owned => ci'[j].owned)
  PROVE  /\ run' \in Runs /\ RunSound' /\ Looked' /\ CompleteCounts' /\ Earned' /\ CountsOwned'
         /\ ReadHolds' /\ MissesFounded' /\ FilesBounded'
         /\ Len(files') <= Retention + 1 + faults'
<1>1. run \in Runs
  BY DEF CmdbInv, TypeOK
<1>2. /\ run' \in Runs
      /\ run'.pc = run.pc /\ run'.scope = run.scope /\ run'.seen = run.seen
      /\ run'.left = run.left /\ run'.bad = run.bad /\ run'.absent = run.absent
      /\ run'.todo = run.todo /\ run'.item = run.item /\ run'.known = run.known
      /\ run'.raced = IF run.pc = "reconcile" THEN run.raced \cup I ELSE run.raced
  BY <1>1, RacedRun
<1>3. RunSound' /\ CompleteCounts'
  BY <1>2 DEF CmdbInv, RunSound, CompleteCounts
<1>4. Looked' /\ Earned'
  BY <1>2 DEF CmdbInv, Looked, Earned, Unseen
<1>5. CountsOwned'
  BY <1>1, <1>2 DEF CmdbInv, CountsOwned, Runs
<1>6. ReadHolds'
  BY <1>1, <1>2 DEF CmdbInv, ReadHolds, Runs
<1>7. MissesFounded'
  BY DEF CmdbInv, MissesFounded
<1>8. FilesBounded' /\ Len(files') <= Retention + 1 + faults'
  <2>1. Len(files) \in Nat /\ Retention \in Nat /\ faults \in Nat /\ files' = files
    BY CmdbConfig DEF CmdbInv, TypeOK
  <2> QED BY <1>2, <2>1 DEF CmdbInv, TypeOK, FilesBounded
<1> QED BY <1>2, <1>3, <1>4, <1>5, <1>6, <1>7, <1>8

LEMMA EnrollKeeps ==
  ASSUME CmdbInv, NEW i \in Items, Enroll(i)
  PROVE  CmdbInv'
<1>1. /\ plan.items \subseteq Items /\ plan \in Plans(plan.items) /\ plan.pc = "enroll"
      /\ plan.scope \in Scopes /\ i \in plan.todo /\ ci \in [Items -> ConfigItems] /\ faults \in Nat
  BY CmdbConfig DEF CmdbInv, TypeOK, PlanSound, Enroll
<1>2. ci' = [ci EXCEPT ![i] = [ci[i] EXCEPT !.owned = TRUE, !.scope = plan.scope]]
  BY <1>1 DEF Enroll
<1>3. [ci[i] EXCEPT !.owned = TRUE, !.scope = plan.scope] \in ConfigItems
  BY <1>1 DEF ConfigItems
<1>4. /\ ci' \in [Items -> ConfigItems] /\ \A j \in Items \ {i} : ci'[j] = ci[j]
      /\ ci'[i] = [ci[i] EXCEPT !.owned = TRUE, !.scope = plan.scope]
  BY <1>1, <1>2, <1>3
<1>5. ci'[i].misses = ci[i].misses /\ ci'[i].owned
  BY <1>1, <1>4 DEF ConfigItems
<1>6. \A j \in Items : ci'[j].misses = ci[j].misses /\ (ci[j].owned => ci'[j].owned)
  BY <1>4, <1>5
<1>7. /\ run' \in Runs /\ RunSound' /\ Looked' /\ CompleteCounts' /\ Earned' /\ CountsOwned'
      /\ ReadHolds' /\ MissesFounded' /\ FilesBounded'
  <2>1. {i} \in SUBSET Items
    OBVIOUS
  <2>2. run' = Raced(run, {i}) /\ faults' = faults /\ UNCHANGED <<away, files>>
    BY DEF Enroll
  <2>3. faults' \in Nat /\ faults' >= faults
    BY <1>1, <2>2
  <2> QED BY <1>4, <1>6, <2>1, <2>2, <2>3, OthersWrite
<1>8. /\ plan' \in Plans(plan.items) /\ plan'.items = plan.items /\ plan'.pc = "enroll"
      /\ plan'.scope = plan.scope /\ plan'.todo = plan.todo \ {i} /\ plan'.view = plan.view
      /\ plan'.raced = plan.raced
  BY <1>1 DEF Enroll, Plans
<1>9. PlanSound' /\ ReviewHolds'
  BY <1>1, <1>4, <1>8 DEF CmdbInv, PlanSound, ReviewHolds, Compared, Plans
<1>10. TypeOK'
  BY <1>1, <1>4, <1>7, <1>8 DEF CmdbInv, TypeOK, Enroll
<1> QED BY <1>7, <1>9, <1>10 DEF CmdbInv

LEMMA EnrollInterruptedKeeps ==
  ASSUME CmdbInv, EnrollInterrupted
  PROVE  CmdbInv'
<1>1. /\ plan.items \subseteq Items /\ plan \in Plans(plan.items) /\ plan.pc \in {"check", "enroll"}
      /\ plan.scope \in Scopes /\ ci \in [Items -> ConfigItems] /\ plan.todo \subseteq Items
      /\ faults \in Nat /\ faults' = faults + 1 /\ faults' \in 0..MaxFaults
  BY CmdbConfig DEF CmdbInv, TypeOK, PlanSound, EnrollInterrupted, Plans
<1>2. PICK tagged \in SUBSET Items :
        /\ ci' = [i \in Items |-> [ci[i] EXCEPT !.owned = @ \/ i \in tagged]]
        /\ run' = Raced(run, tagged)
  BY <1>1 DEF EnrollInterrupted
<1>3. \A i \in Items : [ci[i] EXCEPT !.owned = ci[i].owned \/ i \in tagged] \in ConfigItems
  BY <1>1 DEF ConfigItems
<1>4. ci' \in [Items -> ConfigItems]
  BY <1>2, <1>3
<1>5. \A j \in Items : ci'[j].misses = ci[j].misses /\ (ci[j].owned => ci'[j].owned)
  BY <1>1, <1>2 DEF ConfigItems
<1>6. \A j \in Items \ tagged : ci'[j] = ci[j]
  BY <1>1, <1>2 DEF ConfigItems
<1>7. /\ run' \in Runs /\ RunSound' /\ Looked' /\ CompleteCounts' /\ Earned' /\ CountsOwned'
      /\ ReadHolds' /\ MissesFounded' /\ FilesBounded' /\ Len(files') <= Retention + 1 + faults'
  <2>1. UNCHANGED <<away, files>> /\ faults' \in Nat /\ faults' >= faults
    BY <1>1 DEF EnrollInterrupted
  <2> QED BY <1>2, <1>4, <1>5, <1>6, <2>1, OthersWrite
<1>8. /\ plan' \in Plans(plan.items) /\ plan'.items = plan.items /\ plan'.pc = "review"
      /\ plan'.scope = plan.scope /\ plan'.todo = {}
  BY <1>1 DEF EnrollInterrupted, Plans
<1>9. PlanSound' /\ ReviewHolds'
  BY <1>1, <1>8 DEF PlanSound, ReviewHolds, Compared
<1>10. TypeOK'
  BY <1>1, <1>4, <1>7, <1>8 DEF CmdbInv, TypeOK, EnrollInterrupted
<1> QED BY <1>7, <1>9, <1>10 DEF CmdbInv

LEMMA SetStatusKeeps ==
  ASSUME CmdbInv, NEW i \in Items, NEW st \in {"operational", "retired"}, SetStatus(i, st)
  PROVE  CmdbInv'
<1>1. /\ plan.items \subseteq Items /\ plan \in Plans(plan.items) /\ ci \in [Items -> ConfigItems]
      /\ faults \in Nat /\ changes' \in 0..MaxChanges /\ {i} \in SUBSET Items
  BY CmdbConfig DEF CmdbInv, TypeOK, SetStatus
<1>2. ci' = [ci EXCEPT ![i] = [ci[i] EXCEPT !.status = st]]
  BY <1>1 DEF SetStatus
<1>3. [ci[i] EXCEPT !.status = st] \in ConfigItems
  BY <1>1 DEF ConfigItems, Statuses
<1>4. /\ ci' \in [Items -> ConfigItems] /\ \A j \in Items \ {i} : ci'[j] = ci[j]
      /\ ci'[i] = [ci[i] EXCEPT !.status = st]
  BY <1>1, <1>2, <1>3
<1>5. ci'[i].misses = ci[i].misses /\ ci'[i].owned = ci[i].owned
  BY <1>1, <1>4 DEF ConfigItems
<1>6. \A j \in Items : ci'[j].misses = ci[j].misses /\ (ci[j].owned => ci'[j].owned)
  BY <1>4, <1>5
<1>7. /\ run' \in Runs /\ RunSound' /\ Looked' /\ CompleteCounts' /\ Earned' /\ CountsOwned'
      /\ ReadHolds' /\ MissesFounded' /\ FilesBounded'
  <2>1. run' = Raced(run, {i}) /\ faults' = faults /\ UNCHANGED <<away, files>>
    BY DEF SetStatus
  <2>2. faults' \in Nat /\ faults' >= faults
    BY <1>1, <2>1
  <2> QED BY <1>1, <1>4, <1>6, <2>1, <2>2, OthersWrite
<1>8. plan' \in Plans(plan.items) /\ plan'.items = plan.items /\ PlanSound' /\ ReviewHolds'
  BY <1>1, <1>4, OthersReview DEF SetStatus
<1>9. TypeOK'
  BY <1>1, <1>4, <1>7, <1>8 DEF CmdbInv, TypeOK, SetStatus
<1> QED BY <1>7, <1>8, <1>9 DEF CmdbInv

LEMMA HappenKeeps ==
  ASSUME CmdbInv, NEW i \in Items, NEW w \in Worlds, Happen(i, w)
  PROVE  CmdbInv'
<1>1. TypeOK'
  BY CmdbConfig DEF CmdbInv, TypeOK, Happen
<1>2. RunSound' /\ CompleteCounts' /\ Earned' /\ CountsOwned' /\ ReadHolds' /\ Looked'
  BY DEF CmdbInv, RunSound, CompleteCounts, Earned, CountsOwned, ReadHolds, Looked, Unseen, Happen
<1>3. MissesFounded' /\ FilesBounded'
  BY DEF CmdbInv, MissesFounded, FilesBounded, Happen
<1> QED BY <1>1, <1>2, <1>3, PlanKept DEF CmdbInv, Happen

-----------------------------------------------------------------------------
(* Evidence: what the artifacts still say of a signal *)

\* The sealed ones among the artifacts fs from place b on.
SealedFrom(fs, b) == {j \in b..Len(fs) : fs[j].sealed}

\* All of them carry e.
Carried(fs, e, b) == \A i \in b..Len(fs) : fs[i].sealed => e \in fs[i].events

\* Of n recorded runs in a row that carry e, the artifacts show all, or enough of them:
\* more than `more' over a stretch that exceeds what is retained by `longer'.
Shown(fs, e, n, more, longer) ==
  \E b \in 1..Len(fs) + 1 :
    /\ Carried(fs, e, b)
    /\ \/ n <= Cardinality(SealedFrom(fs, b))
       \/ more < Cardinality(SealedFrom(fs, b)) /\ b + Retention + longer <= Len(fs) + 1

Longer == IF run.pc \in {"seal", "route", "prune"} THEN 1 ELSE 0
More   == IF run.pc \in {"route", "prune"} THEN 1 ELSE 0

\* The run under way has written the last artifact, and sealed it before it alerts.
LastFile ==
  /\ run.pc = "seal" => files # <<>> /\ ~files[Len(files)].sealed
  /\ run.pc \in {"route", "prune"} => files # <<>> /\ files[Len(files)].sealed

EvidenceShown == \A e \in Events : Shown(files, e, alarm[e], More, Longer)

\* The inductive invariant of the evidence.
AlarmInv == LastFile /\ EvidenceShown /\ SignalAlerted

LEMMA SealedFinite ==
  ASSUME NEW fs \in Seq(Artifacts), NEW b \in Nat
  PROVE  IsFiniteSet(SealedFrom(fs, b)) /\ Cardinality(SealedFrom(fs, b)) \in Nat
<1>1. Len(fs) \in Nat
  OBVIOUS
<1>2. IsFiniteSet(b..Len(fs))
  BY <1>1, FS_Interval
<1>3. SealedFrom(fs, b) \subseteq b..Len(fs)
  BY DEF SealedFrom
<1> QED BY <1>2, <1>3, FS_Subset, FS_CardinalityType

LEMMA ShownWeaker ==
  ASSUME NEW fs \in Seq(Artifacts), NEW e, NEW n \in Nat, NEW more \in Nat, NEW longer \in Nat,
         Shown(fs, e, n, more, longer)
  PROVE  Shown(fs, e, n, 0, 0)
<1>1. PICK b \in 1..Len(fs) + 1 :
         /\ Carried(fs, e, b)
         /\ \/ n <= Cardinality(SealedFrom(fs, b))
            \/ more < Cardinality(SealedFrom(fs, b)) /\ b + Retention + longer <= Len(fs) + 1
  BY DEF Shown
<1>2. Len(fs) \in Nat /\ b \in Nat /\ Retention \in Nat /\ Cardinality(SealedFrom(fs, b)) \in Nat
  BY SealedFinite, CmdbConfig
<1>3. \/ n <= Cardinality(SealedFrom(fs, b))
      \/ 0 < Cardinality(SealedFrom(fs, b)) /\ b + Retention + 0 <= Len(fs) + 1
  BY <1>1, <1>2
<1> QED BY <1>1, <1>3 DEF Shown

\* An artifact without a checksum shows nothing and takes a place.
LEMMA ShownAppend ==
  ASSUME NEW fs \in Seq(Artifacts), NEW a \in Artifacts, ~a.sealed,
         NEW e, NEW n \in Nat, Shown(fs, e, n, 0, 0)
  PROVE  Shown(Append(fs, a), e, n, 0, 1)
<1> DEFINE gs == Append(fs, a)
<1>1. PICK b \in 1..Len(fs) + 1 :
         /\ Carried(fs, e, b)
         /\ \/ n <= Cardinality(SealedFrom(fs, b))
            \/ 0 < Cardinality(SealedFrom(fs, b)) /\ b + Retention + 0 <= Len(fs) + 1
  BY DEF Shown
<1>2. /\ Len(fs) \in Nat /\ Len(gs) = Len(fs) + 1 /\ gs[Len(gs)] = a
      /\ \A i \in 1..Len(fs) : gs[i] = fs[i]
  BY AppendProperties
<1> HIDE DEF gs
<1>3. \A i \in b..Len(gs) : gs[i].sealed => i \in b..Len(fs) /\ gs[i] = fs[i]
  BY <1>1, <1>2
<1>4. \A i \in b..Len(fs) : i \in b..Len(gs) /\ gs[i] = fs[i]
  BY <1>1, <1>2
<1>5. SealedFrom(gs, b) = SealedFrom(fs, b)
  BY <1>3, <1>4 DEF SealedFrom
<1>6. Carried(gs, e, b)
  BY <1>1, <1>3 DEF Carried
<1>7. b \in 1..Len(gs) + 1
  BY <1>1, <1>2
<1>8. Retention \in Nat /\ b \in Nat
  BY CmdbConfig
<1>9. b + Retention + 0 <= Len(fs) + 1 => b + Retention + 1 <= Len(gs) + 1
  BY <1>2, <1>8
<1>10. Shown(gs, e, n, 0, 1)
  BY <1>1, <1>5, <1>6, <1>7, <1>9 DEF Shown
<1> QED BY <1>10 DEF gs

\* Its checksum makes it the newest that shows what it carries.
LEMMA ShownSealed ==
  ASSUME NEW fs \in Seq(Artifacts), fs # <<>>, ~fs[Len(fs)].sealed,
         NEW gs \in Seq(Artifacts), Len(gs) = Len(fs),
         \A i \in 1..Len(fs) - 1 : gs[i] = fs[i],
         gs[Len(fs)].sealed, gs[Len(fs)].events = fs[Len(fs)].events,
         NEW e, NEW n \in Nat, Shown(fs, e, n, 0, 1)
  PROVE  Shown(gs, e, IF e \in fs[Len(fs)].events THEN n + 1 ELSE 0, 1, 1)
<1> DEFINE last == Len(fs)
<1>0. last \in Nat \ {0} /\ Retention \in Nat
  BY CmdbConfig
<1>1. CASE e \notin fs[last].events
  <2>1. last + 1 \in 1..Len(gs) + 1 /\ last + 1 \in Nat /\ (last + 1)..Len(gs) = {}
    BY <1>0
  <2>2. Carried(gs, e, last + 1)
    BY <2>1 DEF Carried
  <2>3. 0 <= Cardinality(SealedFrom(gs, last + 1))
    BY <2>1, SealedFinite
  <2> QED BY <1>1, <2>1, <2>2, <2>3 DEF Shown
<1>2. CASE e \in fs[last].events
  <2>1. PICK b \in 1..last + 1 :
           /\ Carried(fs, e, b)
           /\ \/ n <= Cardinality(SealedFrom(fs, b))
              \/ 0 < Cardinality(SealedFrom(fs, b)) /\ b + Retention + 1 <= last + 1
    BY DEF Shown
  <2> DEFINE c == IF b > last THEN last ELSE b
             old == SealedFrom(fs, b)
             new == SealedFrom(gs, c)
  <2>2. c \in 1..Len(gs) + 1 /\ c \in 1..last /\ c \in Nat /\ b \in Nat /\ last \in c..last
    BY <1>0
  <2>3. \A i \in c..last : i # last => i \in b..last /\ gs[i] = fs[i]
    BY <1>0, <2>2
  <2>4. Carried(gs, e, c)
    BY <1>2, <2>1, <2>3 DEF Carried
  <2>5. \A i \in b..last : i # last => i \in c..last /\ gs[i] = fs[i]
    BY <1>0, <2>2
  <2>6. new = old \cup {last}
    BY <1>0, <2>2, <2>3, <2>5 DEF SealedFrom
  <2>7. last \notin old
    BY DEF SealedFrom
  <2>8. IsFiniteSet(old) /\ Cardinality(old) \in Nat
    BY <2>2, SealedFinite
  <2> HIDE DEF old, new
  <2>9. Cardinality(new) = Cardinality(old) + 1
    BY <2>6, <2>7, <2>8, FS_AddElement
  <2>10. b + Retention + 1 <= last + 1 => c + Retention + 1 <= Len(gs) + 1
    BY <1>0, <2>1, <2>2
  <2> HIDE DEF c
  <2>11. \/ n + 1 <= Cardinality(new)
         \/ 1 < Cardinality(new) /\ c + Retention + 1 <= Len(gs) + 1
    BY <2>1, <2>8, <2>9, <2>10 DEF old
  <2>12. Shown(gs, e, n + 1, 1, 1)
    BY <2>2, <2>4, <2>11 DEF Shown, new
  <2> QED BY <1>2, <2>12
<1> QED BY <1>1, <1>2

\* Pruning, complete or not: gs are the newest that are retained, behind m older ones.
LEMMA ShownPruned ==
  ASSUME NEW fs \in Seq(Artifacts), Len(fs) > Retention, fs[Len(fs)].sealed,
         NEW gs \in Seq(Artifacts), NEW m \in 0..Len(fs) - Retention, Len(gs) = m + Retention,
         \A j \in 1..Retention : gs[m + j] = fs[Len(fs) - Retention + j],
         NEW e, NEW n \in Nat, Shown(fs, e, n, 1, 1)
  PROVE  Shown(gs, e, n, 0, 0)
<1> DEFINE d == Len(fs) - Retention
<1>0. Len(fs) \in Nat /\ Retention \in Nat \ {0} /\ m \in Nat /\ d \in Nat /\ m <= d /\ Len(fs) = d + Retention
  BY CmdbConfig
<1>1. PICK b \in 1..Len(fs) + 1 :
         /\ Carried(fs, e, b)
         /\ \/ n <= Cardinality(SealedFrom(fs, b))
            \/ 1 < Cardinality(SealedFrom(fs, b)) /\ b + Retention + 1 <= Len(fs) + 1
  BY DEF Shown
<1> HIDE DEF d
\* What moved: place i of gs holds what was at i + d - m.
<1>2. \A i \in (m + 1)..Len(gs) : (i - m) + d \in (d + 1)..Len(fs) /\ gs[i] = fs[(i - m) + d]
  <2> SUFFICES ASSUME NEW i \in (m + 1)..Len(gs)
               PROVE  (i - m) + d \in (d + 1)..Len(fs) /\ gs[i] = fs[(i - m) + d]
    OBVIOUS
  <2>1. i \in Nat /\ i - m \in 1..Retention /\ m + (i - m) = i /\ (i - m) + d \in (d + 1)..Len(fs)
    BY <1>0
  <2>2. gs[m + (i - m)] = fs[Len(fs) - Retention + (i - m)]
    BY <2>1
  <2>3. Len(fs) - Retention + (i - m) = (i - m) + d
    BY <1>0, <2>1
  <2> QED BY <2>1, <2>2, <2>3
<1>3. CASE b <= d
  <2>1. m + 1 \in 1..Len(gs) + 1 /\ m + 1 \in Nat /\ Len(gs) \in (m + 1)..Len(gs)
        /\ (Len(gs) - m) + d = Len(fs) /\ (m + 1) + Retention + 0 <= Len(gs) + 1
    BY <1>0
  <2>2. \A i \in (m + 1)..Len(gs) : (i - m) + d \in b..Len(fs)
    BY <1>0, <1>2, <1>3
  <2>3. Carried(gs, e, m + 1)
    BY <1>1, <1>2, <2>2 DEF Carried
  <2>4. gs[Len(gs)].sealed
    BY <1>2, <2>1
  <2> DEFINE new == SealedFrom(gs, m + 1)
  <2>5. Len(gs) \in new
    BY <2>1, <2>4 DEF SealedFrom
  <2>6. IsFiniteSet(new) /\ Cardinality(new) \in Nat
    BY <2>1, SealedFinite
  <2> HIDE DEF new
  <2>7. Cardinality(new) # 0
    BY <2>5, <2>6, FS_EmptySet
  <2>8. 0 < Cardinality(new)
    BY <2>6, <2>7
  <2> QED BY <2>1, <2>3, <2>8 DEF Shown, new
<1>4. CASE b > d
  <2> DEFINE c == (b - d) + m
             old == SealedFrom(fs, b)
             new == SealedFrom(gs, c)
             f == [j \in old |-> (j - d) + m]
  <2>1. c \in 1..Len(gs) + 1 /\ c \in Nat /\ c >= m + 1 /\ b \in Nat
    BY <1>0, <1>4
  <2>2. \A i \in c..Len(gs) : i \in (m + 1)..Len(gs) /\ (i - m) + d \in b..Len(fs)
    BY <1>0, <1>4
  <2>3. Carried(gs, e, c)
    BY <1>1, <1>2, <2>2 DEF Carried
  <2>4. \A j \in b..Len(fs) : (j - d) + m \in c..Len(gs) /\ (((j - d) + m) - m) + d = j
    BY <1>0, <1>4
  <2>5. \A j \in old : f[j] \in new
    <3> TAKE j \in old
    <3>1. j \in b..Len(fs) /\ fs[j].sealed /\ f[j] = (j - d) + m
      BY DEF SealedFrom
    <3>2. f[j] \in c..Len(gs) /\ f[j] \in (m + 1)..Len(gs) /\ (f[j] - m) + d = j
      BY <2>2, <2>4, <3>1
    <3>3. gs[f[j]] = fs[j]
      BY <1>2, <3>2
    <3> QED BY <3>1, <3>2, <3>3 DEF SealedFrom
  <2>6. \A j, k \in old : f[j] = f[k] => j = k
    <3> TAKE j, k \in old
    <3>1. j \in Int /\ k \in Int /\ f[j] = (j - d) + m /\ f[k] = (k - d) + m
      BY <1>0, <2>1 DEF SealedFrom
    <3> QED BY <1>0, <3>1
  <2>7. IsFiniteSet(new) /\ Cardinality(new) \in Nat /\ Cardinality(old) \in Nat
    BY <2>1, SealedFinite
  <2>8. ~(b + Retention + 1 <= Len(fs) + 1)
    BY <1>0, <1>4, <2>1
  <2>9. n <= Cardinality(old)
    BY <1>1, <2>8
  <2>10. f \in [old -> new]
    BY <2>5
  <2> HIDE DEF old, new, f, c
  <2>11. f \in Injection(old, new)
    BY <2>6, <2>10 DEF Injection, IsInjective
  <2>12. Cardinality(old) <= Cardinality(new)
    BY <2>7, <2>11, FS_Injection
  <2>13. n <= Cardinality(new)
    BY <2>7, <2>9, <2>12
  <2> QED BY <2>1, <2>3, <2>13 DEF Shown, new
<1> QED BY <1>0, <1>3, <1>4

LEMMA AlarmType ==
  ASSUME CmdbInv
  PROVE  /\ files \in Seq(Artifacts) /\ Len(files) \in Nat /\ alarm \in [Events -> Nat]
         /\ run \in Runs /\ incidents \subseteq Events
         /\ AlertRuns \in Nat \ {0} /\ Retention \in Nat \ {0}
         /\ Longer \in {0, 1} /\ More \in {0, 1}
BY CmdbConfig DEF CmdbInv, TypeOK, Longer, More

LEMMA AlarmInit == Init => AlarmInv
<1> SUFFICES ASSUME Init PROVE AlarmInv
  OBVIOUS
<1>1. files = <<>> /\ alarm = [e \in Events |-> 0] /\ run.pc = "idle" /\ Len(files) = 0
  BY NoRunIsRun DEF Init
<1>2. files \in Seq(Artifacts) /\ 1 \in 1..Len(files) + 1 /\ 1 \in Nat /\ 1..Len(files) = {}
  BY <1>1
<1>3. 0 <= Cardinality(SealedFrom(files, 1))
  BY <1>2, SealedFinite
<1>4. EvidenceShown
  BY <1>1, <1>2, <1>3 DEF EvidenceShown, Shown, Carried
<1>5. LastFile /\ SignalAlerted
  BY <1>1 DEF LastFile, SignalAlerted
<1> QED BY <1>4, <1>5 DEF AlarmInv

\* A step that leaves the evidence alone and does not come to write, route or prune any.
LEMMA EvidenceKept ==
  ASSUME CmdbInv, AlarmInv, UNCHANGED <<files, alarm, incidents>>,
         run'.pc = run.pc \/ run'.pc \notin {"seal", "route", "prune"}
  PROVE  AlarmInv'
<1>1. Sealed' = Sealed
  BY DEF Sealed
<1>2. CASE run'.pc = run.pc
  <2>1. Longer' = Longer /\ More' = More
    BY <1>2 DEF Longer, More
  <2>2. EvidenceShown'
    BY <2>1 DEF AlarmInv, EvidenceShown
  <2>3. LastFile'
    BY <1>2 DEF AlarmInv, LastFile
  <2>4. SignalAlerted'
    BY <1>1, <1>2 DEF AlarmInv, SignalAlerted
  <2> QED BY <2>2, <2>3, <2>4 DEF AlarmInv
<1>3. CASE run'.pc \notin {"seal", "route", "prune"}
  <2>1. Longer' = 0 /\ More' = 0
    BY <1>3 DEF Longer, More
  <2>2. \A e \in Events : Shown(files, e, alarm[e], 0, 0)
    BY AlarmType, ShownWeaker DEF AlarmInv, EvidenceShown
  <2>3. EvidenceShown'
    BY <2>1, <2>2 DEF EvidenceShown
  <2>4. LastFile' /\ SignalAlerted'
    BY <1>3 DEF LastFile, SignalAlerted
  <2> QED BY <2>3, <2>4 DEF AlarmInv
<1> QED BY <1>2, <1>3

LEMMA WriteArtifactShows ==
  ASSUME CmdbInv, AlarmInv, WriteArtifact
  PROVE  AlarmInv'
<1> DEFINE new == [scope |-> run.scope, complete |-> Complete, applied |-> run.apply /\ run.valid,
                   events |-> RunEvents, sealed |-> FALSE]
<1>1. run.pc = "reconcile" /\ files' = Append(files, new) /\ run'.pc = "seal" /\ alarm' = alarm
  BY DEF WriteArtifact, NoRun
<1>2. run \in Runs /\ run.scope \in Scopes
  BY <1>1 DEF CmdbInv, TypeOK, RunSound, Scanning
<1>3. RunEvents \subseteq Events
  BY EventsAreEvents DEF CmdbInv, TypeOK
<1>4. new \in Artifacts /\ ~new.sealed
  <2>1. Complete \in BOOLEAN /\ (run.apply /\ run.valid) \in BOOLEAN
    BY <1>2 DEF Complete, Runs
  <2> QED BY <1>2, <1>3, <2>1 DEF Artifacts
<1> HIDE DEF new
<1>5. Longer = 0 /\ More = 0 /\ Longer' = 1 /\ More' = 0
  BY <1>1 DEF Longer, More
<1>6. \A e \in Events : Shown(files, e, alarm[e], 0, 0)
  BY <1>5 DEF AlarmInv, EvidenceShown
<1>7. \A e \in Events : Shown(files', e, alarm'[e], 0, 1)
  BY <1>1, <1>4, <1>6, AlarmType, ShownAppend
<1>8. EvidenceShown'
  BY <1>5, <1>7 DEF EvidenceShown
<1>9. Len(files') = Len(files) + 1 /\ files'[Len(files')] = new /\ files' # <<>>
  BY <1>1, <1>4, AlarmType, AppendProperties
<1>10. LastFile' /\ SignalAlerted'
  BY <1>1, <1>4, <1>9 DEF LastFile, SignalAlerted
<1> QED BY <1>8, <1>10 DEF AlarmInv

LEMMA WriteChecksumShows ==
  ASSUME CmdbInv, AlarmInv, WriteChecksum, CmdbInv'
  PROVE  AlarmInv'
<1> DEFINE last == files[Len(files)]
<1>1. run.pc = "seal" /\ run \in Runs
  BY AlarmType DEF WriteChecksum
<1>2. /\ files' = [files EXCEPT ![Len(files)].sealed = TRUE] /\ run'.pc = "route"
      /\ alarm' = [e \in Events |-> IF e \in last.events THEN alarm[e] + 1 ELSE 0]
  BY <1>1 DEF WriteChecksum, Runs
<1>3. files \in Seq(Artifacts) /\ files # <<>> /\ ~last.sealed /\ files' \in Seq(Artifacts)
  BY <1>1, AlarmType DEF AlarmInv, LastFile, CmdbInv, TypeOK
<1>4. Len(files) \in Nat \ {0} /\ Len(files) \in DOMAIN files /\ last \in Artifacts
  BY <1>3
<1>5. /\ Len(files') = Len(files) /\ \A i \in 1..Len(files) - 1 : files'[i] = files[i]
      /\ files'[Len(files)] = [last EXCEPT !.sealed = TRUE]
  BY <1>2, <1>3, <1>4
<1>6. files'[Len(files)].sealed /\ files'[Len(files)].events = last.events
  BY <1>4, <1>5 DEF Artifacts
<1>7. Longer = 1 /\ More = 0 /\ Longer' = 1 /\ More' = 1
  BY <1>1, <1>2 DEF Longer, More
<1>8. \A e \in Events : Shown(files, e, alarm[e], 0, 1) /\ alarm[e] \in Nat
  BY <1>7, AlarmType DEF AlarmInv, EvidenceShown
<1>9. \A e \in Events : Shown(files', e, IF e \in last.events THEN alarm[e] + 1 ELSE 0, 1, 1)
  BY <1>3, <1>5, <1>6, <1>8, ShownSealed
<1>10. EvidenceShown'
  BY <1>2, <1>7, <1>9 DEF EvidenceShown
<1>11. files' # <<>> /\ files'[Len(files')].sealed
  BY <1>3, <1>4, <1>5, <1>6
<1>12. LastFile' /\ SignalAlerted'
  BY <1>2, <1>11 DEF LastFile, SignalAlerted
<1> QED BY <1>10, <1>12 DEF AlarmInv

LEMMA MaxIs ==
  ASSUME NEW S \in SUBSET Nat, NEW m \in S, \A y \in S : y <= m
  PROVE  Max(S) = m
<1>1. m >= m /\ \A y \in S : m >= y
  OBVIOUS
<1>2. \E x \in S : \A y \in S : x >= y
  BY <1>1
<1>3. Max(S) \in S /\ \A y \in S : Max(S) >= y
  BY <1>2, Zenon DEF Max
<1> DEFINE top == Max(S)
<1> HIDE DEF top
<1>4. top \in S /\ top >= m
  BY <1>3 DEF top
<1>5. top \in Nat /\ m \in Nat /\ top <= m
  BY <1>4
<1>6. top = m
  BY <1>4, <1>5
<1> QED BY <1>6 DEF top

\* What the artifacts show of a signal that is due is enough to alert.
LEMMA EnoughShown ==
  ASSUME CmdbInv, AlarmInv, run.pc = "route",
         AlertRuns <= 2 \/ AlertRuns + Cardinality(1..Len(files) \ Sealed) <= Retention + 1,
         NEW e \in Events, alarm[e] >= AlertRuns
  PROVE  e \in files[Max(Sealed)].events /\ Consecutive(e) >= AlertRuns
<1> DEFINE last == Len(files)
<1>1. /\ files \in Seq(Artifacts) /\ last \in Nat \ {0} /\ AlertRuns \in Nat \ {0} /\ Retention \in Nat \ {0}
      /\ alarm[e] \in Nat /\ files[last].sealed
  BY AlarmType DEF AlarmInv, LastFile
<1>2. last \in Sealed /\ Sealed \subseteq 1..last
  BY <1>1 DEF Sealed
<1>3. Max(Sealed) = last
  <2>1. Sealed \in SUBSET Nat /\ \A y \in Sealed : y <= last
    BY <1>1, <1>2
  <2> QED BY <1>2, <2>1, MaxIs
<1>4. Shown(files, e, alarm[e], 1, 1)
  BY DEF AlarmInv, EvidenceShown, More, Longer
<1>5. PICK b \in 1..last + 1 :
         /\ Carried(files, e, b)
         /\ \/ alarm[e] <= Cardinality(SealedFrom(files, b))
            \/ 1 < Cardinality(SealedFrom(files, b)) /\ b + Retention + 1 <= last + 1
  BY <1>4 DEF Shown
<1> DEFINE shown == SealedFrom(files, b)
           blank == 1..last \ Sealed
<1>6. b \in Nat /\ IsFiniteSet(shown) /\ Cardinality(shown) \in Nat
  BY <1>1, SealedFinite
<1>7. IsFiniteSet(1..last) /\ IsFiniteSet(blank) /\ Cardinality(blank) \in Nat
        /\ IsFiniteSet(Streak(e)) /\ Cardinality(Streak(e)) \in Nat
  <2>1. IsFiniteSet(1..last)
    BY <1>1, FS_Interval
  <2>2. blank \subseteq 1..last /\ Streak(e) \subseteq 1..last
    BY <1>2 DEF Streak
  <2> QED BY <2>1, <2>2, FS_Subset, FS_CardinalityType
<1>8. shown \subseteq Streak(e)
  BY <1>1, <1>5 DEF SealedFrom, Carried, Streak, Sealed
<1>9. Cardinality(shown) <= Cardinality(Streak(e))
  BY <1>7, <1>8, FS_Subset
\* The stretch shows the event wherever it is not blank.
<1>10. last - b + 1 <= Cardinality(shown) + Cardinality(blank)
  <2>1. b..last \subseteq shown \cup blank
    BY <1>1 DEF SealedFrom, Sealed
  <2>2. IsFiniteSet(shown \cup blank)
        /\ Cardinality(shown \cup blank) = Cardinality(shown) + Cardinality(blank) - Cardinality(shown \cap blank)
    BY <1>6, <1>7, FS_Union
  <2>3. Cardinality(shown \cap blank) \in Nat
    BY <1>6, FS_Intersection, FS_CardinalityType
  <2>4. Cardinality(b..last) <= Cardinality(shown \cup blank)
    BY <2>1, <2>2, FS_Subset
  <2>5. Cardinality(b..last) = IF b > last THEN 0 ELSE last - b + 1
    <3>1. b \in Int /\ last \in Int
      BY <1>1, <1>6
    <3> HIDE DEF last
    <3> QED BY <3>1, FS_Interval
  <2>6. last - b + 1 <= Cardinality(b..last)
    BY <1>1, <1>6, <2>5
  <2> HIDE DEF shown, blank
  <2>7. Cardinality(b..last) <= Cardinality(shown) + Cardinality(blank)
    BY <1>6, <1>7, <2>2, <2>3, <2>4, <2>5, <1>1
  <2> QED BY <1>1, <1>6, <1>7, <2>5, <2>6, <2>7
<1> HIDE DEF blank, shown
<1>11. AlertRuns <= 2 \/ AlertRuns + Cardinality(blank) <= Retention + 1
  BY DEF blank
<1>12. \/ alarm[e] <= Cardinality(shown)
       \/ 1 < Cardinality(shown) /\ b + Retention + 1 <= last + 1
  BY <1>5 DEF shown
<1>13. AlertRuns <= Cardinality(shown)
  BY <1>1, <1>6, <1>7, <1>10, <1>11, <1>12
<1>14. Cardinality(shown) # 0
  BY <1>1, <1>6, <1>13
<1>15. PICK j \in shown : TRUE
  BY <1>6, <1>14, FS_EmptySet
<1>16. e \in files[last].events
  BY <1>1, <1>5, <1>15 DEF shown, SealedFrom, Carried
<1> QED BY <1>1, <1>3, <1>6, <1>7, <1>9, <1>13, <1>16 DEF Consecutive

LEMMA RouteIncidentsShows ==
  ASSUME CmdbInv, AlarmInv, RouteIncidents
  PROVE  AlarmInv'
<1>1. run.pc = "route" /\ run \in Runs /\ UNCHANGED <<files, alarm>>
  BY AlarmType DEF RouteIncidents
<1>2. run'.pc = "prune"
  BY <1>1 DEF RouteIncidents, Runs
<1>3. Longer' = Longer /\ More' = More
  BY <1>1, <1>2 DEF Longer, More
<1>4. EvidenceShown'
  BY <1>1, <1>3 DEF AlarmInv, EvidenceShown
<1>5. LastFile'
  BY <1>1, <1>2 DEF AlarmInv, LastFile
<1>6. SignalAlerted'
  <2> SUFFICES ASSUME AlertRuns <= 2 \/ AlertRuns + Cardinality(1..Len(files') \ Sealed') <= Retention + 1,
                      NEW e \in Events, alarm'[e] >= AlertRuns, Alerts(e)
               PROVE  e \in incidents'
    BY DEF SignalAlerted, Alerts
  <2>1. Sealed' = Sealed
    BY <1>1 DEF Sealed
  <2>2. e \in files[Max(Sealed)].events /\ Consecutive(e) >= AlertRuns
    BY <1>1, <2>1, EnoughShown
  <2> QED BY <2>2 DEF RouteIncidents
<1> QED BY <1>4, <1>5, <1>6 DEF AlarmInv

LEMMA KeptAre ==
  ASSUME CmdbInv, Len(files) > Retention
  PROVE  \A j \in 1..Retention : Kept[j] = files[Len(files) - Retention + j]
<1>1. files \in Seq(Artifacts) /\ Len(files) \in Nat /\ Retention \in Nat \ {0}
  BY AlarmType
<1> DEFINE first == Len(files) - Retention + 1
<1>2. first \in Nat /\ first >= 1 /\ first <= Len(files)
  BY <1>1
<1>3. Max({1, first}) = first
  BY <1>2 DEF Max
<1>4. Kept = SubSeq(files, first, Len(files))
  BY <1>3, Zenon DEF Kept
<1>5. \A j \in 1..Retention : j \in 1..Len(files) - first + 1 /\ first + j - 1 = Len(files) - Retention + j
  BY <1>1
<1> HIDE DEF first
<1>6. \A j \in 1..Len(files) - first + 1 : Kept[j] = files[first + j - 1]
  BY <1>1, <1>2, <1>4, SubSeqProperties
<1> QED BY <1>5, <1>6

LEMMA PruneShows ==
  ASSUME CmdbInv, AlarmInv, Prune \/ PruneInterrupted, CmdbInv'
  PROVE  AlarmInv'
<1>1. run.pc = "prune" /\ run'.pc = "idle" /\ alarm' = alarm
  BY NoRunIsRun DEF Prune, PruneInterrupted
<1>2. /\ files \in Seq(Artifacts) /\ files' \in Seq(Artifacts) /\ Len(files) \in Nat /\ Retention \in Nat \ {0}
      /\ files[Len(files)].sealed
  BY <1>1, AlarmType DEF CmdbInv, TypeOK, AlarmInv, LastFile
<1>3. Longer = 1 /\ More = 1 /\ Longer' = 0 /\ More' = 0
  BY <1>1 DEF Longer, More
<1>4. \A e \in Events : Shown(files, e, alarm[e], 1, 1) /\ alarm[e] \in Nat
  BY <1>3, AlarmType DEF AlarmInv, EvidenceShown
<1>5. CASE files' = files
  BY <1>1, <1>2, <1>3, <1>4, <1>5, ShownWeaker DEF AlarmInv, EvidenceShown, LastFile, SignalAlerted
<1>6. CASE files' # files
  <2>1. Len(files) > Retention
    BY <1>6 DEF Prune, PruneInterrupted
  <2>2. Kept \in Seq(Artifacts) /\ Len(Kept) = Retention
    BY <2>1, KeptFiles
  <2>3. \E m \in 0..Len(files) - Retention :
          /\ Len(files') = m + Retention
          /\ \A j \in 1..Retention : files'[m + j] = Kept[j]
    <3>1. CASE files' = Kept
      <4>1. 0 \in 0..Len(files) - Retention
        BY <1>2, <2>1
      <4> QED BY <1>2, <2>2, <3>1, <4>1
    <3>2. CASE \E m \in 0..Len(files) - Retention : files' = SubSeq(files, 1, m) \o Kept
      <4>1. PICK m \in 0..Len(files) - Retention : files' = SubSeq(files, 1, m) \o Kept
        BY <3>2
      <4>2. m \in Nat /\ m <= Len(files) /\ 1 \in 1..Len(files) + 1 /\ m \in 1 - 1..Len(files)
        BY <1>2, <2>1
      <4>3. SubSeq(files, 1, m) \in Seq(Artifacts) /\ Len(SubSeq(files, 1, m)) = m
        BY <1>2, <4>2, SubSeqProperties
      <4>4. /\ Len(files') = m + Retention
            /\ \A i \in 1..m + Retention : i > m => files'[i] = Kept[i - m]
        <5> DEFINE old == SubSeq(files, 1, m)
        <5> HIDE DEF old
        <5>1. old \in Seq(Artifacts) /\ Len(old) = m /\ files' = old \o Kept
          BY <4>1, <4>3 DEF old
        <5>2. /\ Len(old \o Kept) = Len(old) + Len(Kept)
              /\ \A i \in 1..Len(old) + Len(Kept) :
                   (old \o Kept)[i] = IF i <= Len(old) THEN old[i] ELSE Kept[i - Len(old)]
          BY <2>2, <5>1, ConcatProperties
        <5>3. \A i \in 1..m + Retention : i > m => ~(i <= m)
          BY <1>2, <4>2
        <5> QED BY <2>2, <5>1, <5>2, <5>3
      <4>5. \A j \in 1..Retention : m + j \in 1..m + Retention /\ m + j > m /\ (m + j) - m = j
        BY <1>2, <4>2
      <4> QED BY <4>4, <4>5
    <3> QED BY <1>6, <3>1, <3>2 DEF Prune, PruneInterrupted
  <2>4. PICK m \in 0..Len(files) - Retention :
          /\ Len(files') = m + Retention
          /\ \A j \in 1..Retention : files'[m + j] = Kept[j]
    BY <2>3
  <2>5. \A j \in 1..Retention : files'[m + j] = files[Len(files) - Retention + j]
    BY <2>1, <2>4, KeptAre
  <2>6. \A e \in Events : Shown(files', e, alarm'[e], 0, 0)
    BY <1>1, <1>2, <1>4, <2>1, <2>4, <2>5, ShownPruned
  <2> QED BY <1>1, <1>3, <2>6 DEF AlarmInv, EvidenceShown, LastFile, SignalAlerted
<1> QED BY <1>5, <1>6

LEMMA OthersShow ==
  ASSUME CmdbInv, AlarmInv, [Next]_vars,
         ~(WriteArtifact \/ WriteChecksum \/ RouteIncidents \/ Prune \/ PruneInterrupted)
  PROVE  AlarmInv'
<1>0. run \in Runs
  BY AlarmType
<1>1. \A I \in SUBSET Items : Raced(run, I).pc = run.pc
  BY <1>0, RacedRun
<1> DEFINE Idle == UNCHANGED <<files, alarm, incidents>>
                     /\ (run'.pc = run.pc \/ run'.pc \notin {"seal", "route", "prune"})
<1>2. CASE UNCHANGED vars
  BY <1>2, EvidenceKept DEF vars
<1>3. CASE \E apply \in BOOLEAN, s \in Scopes : StartRun(apply, s)
  <2>1. Idle
    BY <1>3 DEF StartRun, NoRun
  <2> QED BY <2>1, EvidenceKept
<1>4. CASE \E k \in Collectors, status \in {"complete", "partial", "unavailable", "failed"} : Collect(k, status)
  <2>1. Idle
    BY <1>0, <1>4 DEF Collect, Runs
  <2> QED BY <2>1, EvidenceKept
<1>5. CASE Deadline \/ BeginLifecycle \/ Retire \/ BeginReconcile
  <2>1. CASE Deadline \/ BeginLifecycle
    <3>1. Idle
      BY <1>0, <2>1 DEF Deadline, BeginLifecycle, Runs
    <3> QED BY <3>1, EvidenceKept
  <2>2. CASE Retire \/ BeginReconcile
    <3>1. Idle
      BY <1>0, <2>2 DEF Retire, BeginReconcile, Runs
    <3> QED BY <3>1, EvidenceKept
  <2> QED BY <1>5, <2>1, <2>2
<1>6. CASE \E i \in Items : CountMiss(i) \/ ReconcileItem(i) \/ ReconcileInterrupted(i)
  <2>1. PICK i \in Items : CountMiss(i) \/ ReconcileItem(i) \/ ReconcileInterrupted(i)
    BY <1>6
  <2>2. CASE CountMiss(i)
    <3>1. Idle
      BY <1>0, <2>2 DEF CountMiss, Runs
    <3> QED BY <3>1, EvidenceKept
  <2>3. CASE ReconcileItem(i)
    <3>1. Idle
      BY <1>0, <2>3 DEF ReconcileItem, Runs
    <3> QED BY <3>1, EvidenceKept
  <2>4. CASE ReconcileInterrupted(i)
    <3>1. Idle
      BY <2>4, NoRunIsRun DEF ReconcileInterrupted
    <3> QED BY <3>1, EvidenceKept
  <2> QED BY <2>1, <2>2, <2>3, <2>4
<1>7. CASE Crash
  <2>1. Idle
    BY <1>7, NoRunIsRun DEF Crash
  <2> QED BY <2>1, EvidenceKept
<1>8. CASE \/ \E s \in Scopes, I \in SUBSET Items : PlanBackfill(s, I)
           \/ StartBackfill \/ WriteAudit
           \/ \E i \in Items : CheckItem(i)
           \/ \E i \in Items, w \in Worlds : Happen(i, w)
  <2>1. Idle
    BY <1>8 DEF PlanBackfill, StartBackfill, CheckItem, WriteAudit, Happen
  <2> QED BY <2>1, EvidenceKept
<1>9. CASE EnrollInterrupted
  <2>1. PICK tagged \in {{}} \cup {{i} : i \in {j \in plan.todo : plan.pc = "enroll"}} :
          run' = Raced(run, tagged)
    BY <1>9 DEF EnrollInterrupted
  <2>2. plan.todo \subseteq Items
    BY DEF CmdbInv, TypeOK, Plans
  <2>3. tagged \in SUBSET Items
    BY <2>1, <2>2
  <2>4. run'.pc = run.pc /\ UNCHANGED <<files, alarm, incidents>>
    BY <1>1, <1>9, <2>1, <2>3 DEF EnrollInterrupted
  <2> QED BY <2>4, EvidenceKept
<1>10. CASE (\E i \in Items : Enroll(i)) \/ (\E i \in Items, st \in {"operational", "retired"} : SetStatus(i, st))
  <2>1. PICK i \in Items : run' = Raced(run, {i}) /\ UNCHANGED <<files, alarm, incidents>>
    BY <1>10 DEF Enroll, SetStatus
  <2>2. run'.pc = run.pc
    BY <1>1, <2>1
  <2> QED BY <2>1, <2>2, EvidenceKept
<1> QED BY <1>2, <1>3, <1>4, <1>5, <1>6, <1>7, <1>8, <1>9, <1>10 DEF Next

LEMMA AlarmNext == CmdbInv /\ AlarmInv /\ [Next]_vars /\ CmdbInv' => AlarmInv'
BY OthersShow, WriteArtifactShows, WriteChecksumShows, RouteIncidentsShows, PruneShows

-----------------------------------------------------------------------------
(* Theorems *)

LEMMA NextKeeps == CmdbInv /\ [Next]_vars => CmdbInv'
<1> SUFFICES ASSUME CmdbInv, [Next]_vars PROVE CmdbInv'
  OBVIOUS
<1>1. CASE UNCHANGED vars
  <2>1. TypeOK'
    BY <1>1 DEF CmdbInv, TypeOK, vars
  <2>2. RunSound' /\ CompleteCounts' /\ Earned' /\ CountsOwned' /\ ReadHolds' /\ Looked'
    BY <1>1 DEF CmdbInv, RunSound, CompleteCounts, Earned, CountsOwned, ReadHolds, Looked, Unseen, vars
  <2>3. MissesFounded' /\ FilesBounded'
    BY <1>1 DEF CmdbInv, MissesFounded, FilesBounded, vars
  <2> QED BY <1>1, <2>1, <2>2, <2>3, PlanKept DEF CmdbInv, vars
<1>2. CASE \E apply \in BOOLEAN, s \in Scopes : StartRun(apply, s)
  BY <1>2, StartRunKeeps
<1>3. CASE \E k \in Collectors, status \in {"complete", "partial", "unavailable", "failed"} : Collect(k, status)
  BY <1>3, CollectKeeps
<1>4. CASE Deadline \/ BeginLifecycle \/ Retire \/ BeginReconcile
  BY <1>4, DeadlineKeeps, BeginLifecycleKeeps, RetireKeeps, BeginReconcileKeeps
<1>5. CASE \E i \in Items : CountMiss(i) \/ ReconcileItem(i) \/ ReconcileInterrupted(i)
  BY <1>5, CountMissKeeps, ReconcileItemKeeps, ReconcileInterruptedKeeps
<1>6. CASE WriteArtifact \/ WriteChecksum \/ RouteIncidents \/ Prune \/ PruneInterrupted \/ Crash
  BY <1>6, WriteArtifactKeeps, WriteChecksumKeeps, RouteIncidentsKeeps, PruneKeeps,
     PruneInterruptedKeeps, CrashKeeps
<1>7. CASE \E s \in Scopes, I \in SUBSET Items : PlanBackfill(s, I)
  BY <1>7, PlanBackfillKeeps
<1>8. CASE StartBackfill \/ WriteAudit \/ EnrollInterrupted
  BY <1>8, StartBackfillKeeps, WriteAuditKeeps, EnrollInterruptedKeeps
<1>9. CASE \E i \in Items : CheckItem(i) \/ Enroll(i)
  BY <1>9, CheckItemKeeps, EnrollKeeps
<1>10. CASE \E i \in Items, st \in {"operational", "retired"} : SetStatus(i, st)
  BY <1>10, SetStatusKeeps
<1>11. CASE \E i \in Items, w \in Worlds : Happen(i, w)
  BY <1>11, HappenKeeps
<1> QED BY <1>1, <1>2, <1>3, <1>4, <1>5, <1>6, <1>7, <1>8, <1>9, <1>10, <1>11 DEF Next

\* CmdbInv holds in every state, for any items, collectors, scopes and thresholds and
\* any number of runs and failures.
THEOREM CmdbInvHolds == Spec => []CmdbInv
BY InitInv, NextKeeps, PTL DEF Spec

\* Every state of discovery is well typed, and no more run artifacts pile up than are
\* retained plus one for each failed run and one for the run under way.
THEOREM CmdbTypeCorrect == Spec => []TypeOK
<1>1. CmdbInv => TypeOK
  BY DEF CmdbInv
<1> QED BY <1>1, CmdbInvHolds, PTL

\* A run retires an item only after Threshold complete passes in a row over its scope
\* that missed the item for a reason (apply_retirement_lifecycle).
THEOREM RetirementEarnedHolds == Spec => RetirementEarned
<1>1. CmdbInv => (run.pc = "retire" =>
                    run'.pc \in {"retire", "idle"} \/ away[run.item][run.scope] >= Threshold)
  BY DEF CmdbInv, Earned
<1> QED BY <1>1, CmdbInvHolds, PTL DEF RetirementEarned

\* AlarmInv holds in every state: of a signal that repeats, the artifacts show as many
\* runs as were recorded, or all that the retention leaves room for.
THEOREM AlarmInvHolds == Spec => []AlarmInv
BY CmdbInvHolds, AlarmInit, AlarmNext, PTL DEF Spec

\* A signal of AlertRuns recorded runs in a row has its incident before the last of them
\* prunes its evidence (route_reconcile_incidents, prune_run_artifacts), for any alert
\* threshold and retention, unless files without a checksum fill what is retained.
THEOREM SignalAlertedHolds == Spec => []SignalAlerted
<1>1. AlarmInv => SignalAlerted
  BY DEF AlarmInv
<1> QED BY <1>1, AlarmInvHolds, PTL

\* Which steps take items off a run's list, and what they do to those.
LEMMA RetiredStays ==
  ASSUME CmdbInv, [Next]_vars, NEW i \in Items,
         ci[i].status = "retired", i \in run.todo \ run'.todo, i \notin run.raced
  PROVE  ci'[i].status = "retired"
<1>0. run \in Runs /\ run.todo # {}
  BY DEF CmdbInv, TypeOK
<1>1. run.pc \in {"lifecycle", "retire", "reconcile"}
  BY <1>0 DEF CmdbInv, RunSound
<1>2. CASE UNCHANGED ci
  BY <1>2
<1>3. ASSUME NEW j \in Items, CountMiss(j) PROVE ci'[i].status = "retired"
  BY <1>3, CountMissKeeps
<1>4. CASE Retire
  BY <1>4, RetireKeeps
<1>5. ASSUME NEW j \in Items, NEW n \in 0..3, run.pc = "reconcile", j \in run.todo, ci' = Reconciled(j, n)
      PROVE  ci'[i].status = "retired"
  <2>1. CASE i = j
    BY <1>5, <2>1, ReconciledItem
  <2>2. CASE i # j
    BY <1>5, <2>2, ReconciledItem
  <2> QED BY <2>1, <2>2
<1>6. ASSUME NEW I \in SUBSET Items, run' = Raced(run, I) PROVE ci'[i].status = "retired"
  BY <1>0, <1>6, RacedRun
<1>7. CASE \E j \in Items : ReconcileItem(j) \/ ReconcileInterrupted(j)
  <2>1. PICK j \in Items : ReconcileItem(j) \/ ReconcileInterrupted(j)
    BY <1>7
  <2>2. PICK n \in 0..3 : ci' = Reconciled(j, n)
    BY <2>1 DEF ReconcileItem, ReconcileInterrupted
  <2> QED BY <1>5, <2>1, <2>2 DEF ReconcileItem, ReconcileInterrupted
<1>8. CASE \E j \in Items : Enroll(j)
  <2>1. PICK j \in Items : Enroll(j)
    BY <1>8
  <2>2. {j} \in SUBSET Items /\ run' = Raced(run, {j})
    BY <2>1 DEF Enroll
  <2> QED BY <1>6, <2>2
<1>9. CASE \E j \in Items, st \in {"operational", "retired"} : SetStatus(j, st)
  <2>1. PICK j \in Items, st \in {"operational", "retired"} : SetStatus(j, st)
    BY <1>9
  <2>2. {j} \in SUBSET Items /\ run' = Raced(run, {j})
    BY <2>1 DEF SetStatus
  <2> QED BY <1>6, <2>2
<1>10. CASE EnrollInterrupted
  <2>1. plan.todo \subseteq Items
    BY DEF CmdbInv, TypeOK, Plans
  <2>2. PICK I \in SUBSET Items : run' = Raced(run, I)
    BY <1>10, <2>1 DEF EnrollInterrupted
  <2> QED BY <1>6, <2>2
<1>11. CASE \/ \E apply \in BOOLEAN, s \in Scopes : StartRun(apply, s)
            \/ \E k \in Collectors, status \in {"complete", "partial", "unavailable", "failed"} : Collect(k, status)
            \/ Deadline \/ BeginLifecycle \/ BeginReconcile
  BY <1>2, <1>11 DEF StartRun, Collect, Deadline, BeginLifecycle, BeginReconcile
<1>12. CASE \/ WriteArtifact \/ WriteChecksum \/ RouteIncidents \/ Prune \/ PruneInterrupted \/ Crash
            \/ \E s \in Scopes, I \in SUBSET Items : PlanBackfill(s, I)
            \/ StartBackfill \/ WriteAudit \/ (\E j \in Items : CheckItem(j))
            \/ \E j \in Items, w \in Worlds : Happen(j, w)
  BY <1>2, <1>12 DEF WriteArtifact, WriteChecksum, RouteIncidents, Prune, PruneInterrupted, Crash,
     PlanBackfill, StartBackfill, CheckItem, WriteAudit, Happen
<1>13. CASE UNCHANGED vars
  BY <1>2, <1>13 DEF vars
<1> QED BY <1>3, <1>4, <1>7, <1>8, <1>9, <1>10, <1>11, <1>12, <1>13 DEF Next

\* Reconcile never brings back an item that was retired before it read the store.
THEOREM RetirementKeptHolds == Spec => RetirementKept
<1>1. CmdbInv /\ [Next]_vars =>
        \A i \in Items : ci[i].status = "retired" /\ i \in run.todo \ run'.todo /\ i \notin run.raced
                           => ci'[i].status = "retired"
  BY RetiredStays
<1> QED BY <1>1, CmdbInvHolds, PTL DEF RetirementKept, Spec

\* An item is enrolled in the very state that was reviewed, unless it changed after its
\* own comparison with the review (apply_ownership_backfill compares item by item).
THEOREM EnrolledAsReviewedHolds == Spec => EnrolledAsReviewed
<1>1. CmdbInv => (plan.pc = "enroll" =>
                    \A i \in plan.todo \ (plan'.todo \cup plan.raced) : ci[i] = plan.view[i])
  BY DEF CmdbInv, ReviewHolds, Compared
<1> QED BY <1>1, CmdbInvHolds, PTL DEF EnrolledAsReviewed
=============================================================================
