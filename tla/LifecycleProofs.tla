-------------------------- MODULE LifecycleProofs ---------------------------
(***************************************************************************)
(* Proofs about module Lifecycle, for every set of cards, every finite set *)
(* of agents and every number of repairs, kanban events, failed writes and *)
(* crashes.                                                                *)
(***************************************************************************)
EXTENDS Lifecycle, FiniteSetTheorems, TLAPS

-----------------------------------------------------------------------------
(* What holds while a job runs *)

\* The steps of a repair after it has read everything.
Begun == {"intent", "save", "commit", "recover", "restore", "rollback"}

\* A job knows what it is about; it keeps what it found and its intent is on record
\* before it saves anything.
JobSound ==
  /\ job.pc = "idle" => job = NoJob
  /\ job.pc # "idle" => job.scope \in Scopes
  /\ job.pc \in {"move", "unmove"} => job.task # None /\ job.attempt = 1
  /\ job.attempt = 2 => job.task # None
  /\ job.task # None => Exists(job.task)
  /\ job.pc = "move" \/ (job.pc = "begin" /\ job.attempt = 1) => job.orig = <<>>
  /\ job.pc \in Begun => receipts # <<>> /\ {job.orig, job.plan} \subseteq [Agents -> Projections]
  /\ job.pc \in {"save", "commit", "recover", "rollback"} => job.intent
  /\ job.pc \in Begun /\ job.intent => "intent" \in receipts[Me].seen

\* Each projection is as the job found it or as it planned it.
Projected ==
  /\ job.pc \in Begun => \A a \in Agents : agent[a] \in {job.orig[a], job.plan[a]}
  /\ job.pc \in {"intent", "save"} =>
       \A a \in Agents : agent[a] = IF a \in job.todo THEN job.orig[a] ELSE job.plan[a]
  /\ job.pc \in {"intent", "rollback"} => agent = job.orig

\* The plan keeps the completions of cards that are gone.
HistoryPlanned ==
  job.pc \in Begun =>
    \A a \in Agents, c \in Cards : ~Exists(c) =>
      (c \in job.orig[a].completed <=> c \in job.plan[a].completed)

\* A projection x of agent a that gives an audit of S nothing to find.
Good(x, a, S) ==
  /\ \A t \in Cards \cap S :
       /\ t \in x.claimed =>
            card[t].status \in {"ready", "review", "doing"} /\ card[t].owner \in {None, a}
       /\ x.current = t => t \in x.claimed /\ card[t].status \notin {"review", "done"}
       /\ t \in x.completed /\ Exists(t) => card[t].status = "done"
       /\ t \in ActiveOf(a, {t}) => t \in x.claimed
  /\ DoingOf(a) \cap S # {} => x.current \in DoingOf(a)

\* Unless kanban events came between, the plan suits the cards and takes no agent at
\* work off a card in progress.
PlanFits ==
  job.pc \in {"intent", "save"} /\ ~job.disturbed =>
    \A a \in Agents :
      /\ Good(job.plan[a], a, job.scope)
      /\ a \in active => \A t \in job.orig[a].claimed \ job.plan[a].claimed :
                           card[t].status \in {"backlog", "done"}

\* What was audited stays in order, and what is called recovered was audited.
Audited ==
  /\ job.pc \in {"commit", "recover"} /\ ~job.disturbed => Clean(job.scope)
  /\ job.pc = "recover" => \A i \in job.unresolved : receipts[i].scope \subseteq job.scope

\* The second repair of a transition follows the undone move.
Undone == job.attempt = 2 /\ ~job.disturbed => card[job.task].status = job.back

\* The inductive invariant.
LifecycleInv ==
  /\ TypeOK /\ JobSound /\ IntentFirst
  /\ Projected /\ HistoryPlanned /\ PlanFits /\ Audited /\ Undone

-----------------------------------------------------------------------------
(* What an audit finds and a repair makes of it *)

\* A set that is not empty has a first member.
LEMMA FirstIn == ASSUME NEW X, X # {} PROVE First(X) \in X
BY DEF First

\* Only missing cards are neither waiting, in progress nor done.
LEMMA StatusOf ==
  ASSUME TypeOK, NEW t \in Cards
  PROVE  /\ card[t].status \in {"backlog", "ready", "doing", "review", "done", "missing"}
         /\ card[t].owner \in Agents \cup {None}
         /\ Exists(t) <=> card[t].status # "missing"
BY DEF TypeOK, Columns, Exists

\* Where a repair looks.
LEMMA ScopeKnown == ASSUME NEW S \in Scopes PROVE S \subseteq Cards \cup {None}
BY DEF Scopes, Unscoped

\* The claims a repair leaves to an agent.
LEMMA RepairedClaims ==
  ASSUME TypeOK, NEW a \in Agents, NEW S \in Scopes, ~ActiveConflict(S)
  PROVE  /\ \A t \in Cards \cap S : t \in Retained(a, S) =>
              card[t].status \in {"ready", "review", "doing"} /\ card[t].owner \in {None, a}
         /\ Retained(a, S) \subseteq agent[a].claimed /\ agent[a].claimed \subseteq Cards
         /\ a \in active => \A t \in agent[a].claimed \ Retained(a, S) :
                              card[t].status \in {"backlog", "done"}
<1>1. Retained(a, S) \subseteq agent[a].claimed /\ agent[a].claimed \subseteq Cards
  BY DEF Retained, TypeOK, Projections
<1>2. ASSUME NEW t \in Cards \cap S, t \in Retained(a, S)
      PROVE  card[t].status \in {"ready", "review", "doing"} /\ card[t].owner \in {None, a}
  <2>1. CASE ~Exists(t) /\ a \in active
    BY <1>2, <2>1 DEF Retained, ActiveConflict, Orphan, Claims
  <2>2. CASE ~(~Exists(t) /\ a \in active)
    BY <1>2, <2>2 DEF Retained, KeepsClaim
  <2> QED
    BY <2>1, <2>2
<1>3. ASSUME a \in active, NEW t \in agent[a].claimed \ Retained(a, S)
      PROVE  card[t].status \in {"backlog", "done"}
  <2>1. t \in Cards /\ t \in S /\ ~KeepsClaim(a, t, S)
    BY <1>1, <1>3 DEF Retained, KeepsClaim
  <2>2. ~NotOwner(a, t)
    BY <1>3, <2>1 DEF ActiveConflict
  <2> QED
    BY <1>3, <2>1, <2>2, StatusOf DEF KeepsClaim, NotOwner, Claims
<1> QED
  BY <1>1, <1>2, <1>3

\* The current task after the first loop: as it was, none, or one in progress.
LEMMA CurrentReleased ==
  ASSUME TypeOK, NEW a \in Agents, NEW S \in Scopes
  PROVE  LET cur == CurrentAfterRelease(a, S) IN
         /\ cur \in Cards \cup {None}
         /\ cur \in Cards \cap S => cur \in DoingOf(a) \/ cur \in Retained(a, S)
         /\ cur \in Cards \cap S /\ cur \notin DoingOf(a) => card[cur].status \in {"doing", "missing"}
<1> DEFINE cur  == agent[a].current
           kept == IF cur \in S /\ (cur \notin Retained(a, S) \/ (Exists(cur) /\ card[cur].status # "doing"))
                     THEN None ELSE cur
           mine == {c \in DoingOf(a) : c \in Retained(a, S) \/ c \in S}
           new  == IF cur \in S /\ kept = None /\ mine # {} THEN First(mine) ELSE kept
<1>1. CurrentAfterRelease(a, S) = new
  BY Zenon DEF CurrentAfterRelease
<1>2. cur \in Cards \cup {None}
  BY DEF TypeOK, Projections
<1>3. CASE cur \in S /\ kept = None /\ mine # {}
  <2>1. new \in DoingOf(a)
    <3> HIDE DEF kept, cur
    <3> QED
      BY <1>3, FirstIn
  <2> QED
    BY <1>1, <2>1 DEF DoingOf
<1>4. CASE ~(cur \in S /\ kept = None /\ mine # {})
  <2>1. new = kept
    BY <1>4
  <2>2. kept \in Cards \cup {None}
    BY <1>2
  <2>3. ASSUME kept \in Cards \cap S
        PROVE  kept \in Retained(a, S) /\ card[kept].status \in {"doing", "missing"}
    BY <2>3, NoneIsNothing DEF Exists
  <2> QED
    BY <1>1, <2>1, <2>2, <2>3
<1> QED
  BY <1>3, <1>4

\* A repaired projection is one.
LEMMA RepairedTyped ==
  ASSUME TypeOK, NEW a \in Agents, NEW S \in Scopes PROVE Repaired(a, S) \in Projections
<1> DEFINE cur == CurrentAfterRelease(a, S)
           due == DoingOf(a) \cap S
           new == IF due # {} /\ cur \notin DoingOf(a) THEN First(due)
                  ELSE IF cur \in ActiveOf(a, S) \ DoingOf(a) THEN None ELSE cur
           claimed == Retained(a, S) \cup ActiveOf(a, S)
           completed == ({t \in agent[a].completed : KeepsCompletion(a, t, S)}
                          \cup {t \in Cards \cap S : card[t].owner = a /\ card[t].status = "done"})
                         \ ActiveOf(a, S)
<1>1. cur \in Cards \cup {None}
  BY CurrentReleased
<1>2. new \in Cards \cup {None}
  <2>1. due # {} => First(due) \in Cards
    BY FirstIn DEF DoingOf
  <2> HIDE DEF cur, due
  <2> QED
    BY <1>1, <2>1
<1>3. claimed \subseteq Cards /\ completed \subseteq Cards
  BY DEF Retained, ActiveOf, TypeOK, Projections
<1>4. Repaired(a, S) = [current |-> new, claimed |-> claimed, completed |-> completed]
  BY Zenon DEF Repaired
<1> HIDE DEF new, claimed, completed
<1> QED
  BY <1>2, <1>3, <1>4 DEF Projections

\* An audit of the repaired projection finds nothing.
LEMMA RepairedGood ==
  ASSUME TypeOK, NEW a \in Agents, NEW S \in Scopes, ~ActiveConflict(S)
  PROVE  Good(Repaired(a, S), a, S)
<1> DEFINE cur == CurrentAfterRelease(a, S)
           due == DoingOf(a) \cap S
           x == Repaired(a, S)
<1>1. /\ x.current = IF due # {} /\ cur \notin DoingOf(a) THEN First(due)
                     ELSE IF cur \in ActiveOf(a, S) \ DoingOf(a) THEN None ELSE cur
      /\ x.claimed = Retained(a, S) \cup ActiveOf(a, S)
      /\ x.completed = ({t \in agent[a].completed : KeepsCompletion(a, t, S)}
                          \cup {t \in Cards \cap S : card[t].owner = a /\ card[t].status = "done"})
                         \ ActiveOf(a, S)
  BY DEF Repaired
<1> HIDE DEF cur, x
<1>2. /\ cur \in Cards \cup {None}
      /\ cur \in Cards \cap S => cur \in DoingOf(a) \/ cur \in Retained(a, S)
      /\ cur \in Cards \cap S /\ cur \notin DoingOf(a) => card[cur].status \in {"doing", "missing"}
  BY CurrentReleased DEF cur
<1>3. due # {} => First(due) \in DoingOf(a) \cap S
  BY FirstIn
<1> HIDE DEF due
<1>4. DoingOf(a) \cap S \subseteq ActiveOf(a, S)
  BY DEF DoingOf, ActiveOf
<1>5. ASSUME NEW t \in Cards \cap S, t \in x.claimed
      PROVE  card[t].status \in {"ready", "review", "doing"} /\ card[t].owner \in {None, a}
  BY <1>1, <1>5, RepairedClaims DEF ActiveOf
<1>6. ASSUME NEW t \in Cards \cap S, x.current = t
      PROVE  t \in x.claimed /\ card[t].status \notin {"review", "done"}
  <2>1. t # None
    BY NoneIsNothing
  <2>2. CASE t \in DoingOf(a)
    BY <1>1, <1>4, <2>2 DEF DoingOf
  <2>3. CASE t \notin DoingOf(a)
    <3>1. t = cur
      BY <1>1, <1>3, <1>6, <2>1, <2>3
    <3> QED
      BY <1>1, <1>2, <2>3, <3>1
  <2> QED
    BY <2>2, <2>3
<1>7. ASSUME NEW t \in Cards \cap S, t \in x.completed, Exists(t) PROVE card[t].status = "done"
  BY <1>1, <1>7 DEF KeepsCompletion
<1>8. ASSUME NEW t \in Cards \cap S, t \in ActiveOf(a, {t}) PROVE t \in x.claimed
  BY <1>1, <1>8 DEF ActiveOf
<1>9. DoingOf(a) \cap S # {} => x.current \in DoingOf(a)
  BY <1>1, <1>3 DEF due
<1> QED
  BY <1>5, <1>6, <1>7, <1>8, <1>9 DEF Good, x

\* What a repair leaves alone: completions of cards that are gone, and the claims of
\* an active agent on cards in progress.
LEMMA RepairedKeeps ==
  ASSUME TypeOK, NEW a \in Agents, NEW S \in Scopes
  PROVE  /\ \A c \in Cards : ~Exists(c) =>
              (c \in agent[a].completed <=> c \in Repaired(a, S).completed)
         /\ ~ActiveConflict(S) /\ a \in active =>
              \A t \in agent[a].claimed \ Repaired(a, S).claimed :
                card[t].status \in {"backlog", "done"}
<1> DEFINE x == Repaired(a, S)
<1>1. /\ x.claimed = Retained(a, S) \cup ActiveOf(a, S)
      /\ x.completed = ({t \in agent[a].completed : KeepsCompletion(a, t, S)}
                          \cup {t \in Cards \cap S : card[t].owner = a /\ card[t].status = "done"})
                         \ ActiveOf(a, S)
  BY DEF Repaired
<1> HIDE DEF x
<1>2. ASSUME NEW c \in Cards, ~Exists(c)
      PROVE  c \in agent[a].completed <=> c \in x.completed
  <2>1. card[c].status = "missing" /\ c \notin ActiveOf(a, S)
    BY <1>2 DEF Exists, ActiveOf
  <2> QED
    BY <1>1, <1>2, <2>1 DEF KeepsCompletion
<1>3. ASSUME ~ActiveConflict(S), a \in active, NEW t \in agent[a].claimed \ x.claimed
      PROVE  card[t].status \in {"backlog", "done"}
  BY <1>1, <1>3, RepairedClaims
<1> QED
  BY <1>2, <1>3 DEF x

\* A set of agents in which no two differ has at most one.
LEMMA AtMostOne ==
  ASSUME NEW S, \A c, d \in S : c = d PROVE Cardinality(S) <= 1
<1>1. CASE S = {}
  BY <1>1, FS_EmptySet
<1>2. CASE S # {}
  <2>1. PICK c : S = {c}
    BY <1>2
  <2>2. Cardinality({c}) = 1
    BY FS_Singleton
  <2> QED
    BY <2>1, <2>2
<1> QED
  BY <1>1, <1>2

\* Projections that suit the cards one by one leave rival claims of a card without an
\* owner, or nothing.
LEMMA GoodIsClean ==
  ASSUME TypeOK, NEW S \in Scopes, \A a \in Agents : Good(agent[a], a, S)
  PROVE  \/ Clean(S)
         \/ \E t \in Cards \cap S : card[t].owner = None /\ Cardinality(Claimants(t)) > 1
<1>1. ASSUME NEW a \in Agents, NEW t \in Cards \cap S
      PROVE  ~ \/ Orphan(a, t) \/ NotWorking(a, t) \/ NotOwner(a, t) \/ CurrentWrong(a, t)
               \/ ReopenedButCompleted(a, t) \/ OwnerLacksClaim(a, t)
  BY DEF Good, Orphan, NotWorking, NotOwner, CurrentWrong, ReopenedButCompleted,
     OwnerLacksClaim, Claims, Exists
<1>2. ASSUME NEW a \in Agents PROVE ~DoingNotCurrent(a, S)
  BY DEF Good, DoingNotCurrent
<1>3. ASSUME NEW t \in Cards \cap S, card[t].owner # None PROVE Cardinality(Claimants(t)) <= 1
  <2>1. \A a \in Claimants(t) : card[t].owner = a
    BY <1>3 DEF Claimants, Claims, Good
  <2> QED
    BY <2>1, AtMostOne
<1>4. ASSUME NEW t \in Cards \cap S PROVE Cardinality(Claimants(t)) \in Nat
  BY BoundsKnown, FS_Subset, FS_CardinalityType DEF Claimants
<1> QED
  BY <1>1, <1>2, <1>3, <1>4 DEF Clean

\* What is in order is so in every part.
LEMMA CleanPart == ASSUME NEW S, NEW T \in SUBSET S, Clean(S) PROVE Clean(T)
BY DEF Clean, DoingNotCurrent

-----------------------------------------------------------------------------
(* What the steps have in common *)

\* The idle job is well typed.
LEMMA NoJobTyped == NoJob \in Jobs
BY DEF NoJob, Jobs, Columns

\* A job that ends leaves nothing to hold.
LEMMA Ended == ASSUME TypeOK', job' = NoJob PROVE LifecycleInv'
<1>1. /\ job'.pc = "idle" /\ job'.task = None /\ job'.attempt = 1 /\ job'.orig = <<>>
  BY DEF NoJob
<1> QED
  BY <1>1 DEF LifecycleInv, JobSound, IntentFirst, Projected, HistoryPlanned, PlanFits,
     Audited, Undone, Begun

\* The last receipt is one.
LEMMA MeKnown == ASSUME TypeOK, receipts # <<>> PROVE Me \in 1..Len(receipts)
BY DEF TypeOK, Me

\* A receipt that is logged changes no other and forgets nothing.
Recorded ==
  /\ receipts' \in Seq(Receipts) /\ Len(receipts') = Len(receipts)
  /\ \A j \in 1..Len(receipts) :
       receipts'[j].scope = receipts[j].scope /\ receipts[j].seen \subseteq receipts'[j].seen

\* One entry of a receipt is appended.
LEMMA Logged ==
  ASSUME TypeOK, NEW i \in 1..Len(receipts), NEW phase \in {"intent"} \cup Terminal, Log(i, phase)
  PROVE  /\ Recorded /\ phase \in receipts'[i].seen
         /\ \A j \in 1..Len(receipts) : receipts'[j].seen \subseteq receipts[j].seen \cup {phase}
         /\ \A j \in 1..Len(receipts) : j # i => receipts'[j] = receipts[j]
<1>1. receipts \in Seq(Receipts)
  BY DEF TypeOK
<1>2. receipts[i] \in Receipts
  BY <1>1
<1>3. PICK r : r = [receipts[i] EXCEPT !.seen = @ \cup {phase}]
  OBVIOUS
<1>4. r \in Receipts /\ r.scope = receipts[i].scope /\ r.seen = receipts[i].seen \cup {phase}
  BY <1>2, <1>3 DEF Receipts
<1>5. receipts' = [receipts EXCEPT ![i] = r]
  BY <1>3, Zenon DEF Log
<1>6. /\ receipts' \in Seq(Receipts) /\ Len(receipts') = Len(receipts)
      /\ \A j \in 1..Len(receipts) : receipts'[j] = IF j = i THEN r ELSE receipts[j]
  BY <1>1, <1>4, <1>5
<1> QED
  BY <1>4, <1>6 DEF Recorded

\* No entry is appended.
LEMMA NotLogged == ASSUME TypeOK, UNCHANGED receipts PROVE Recorded
BY DEF TypeOK, Recorded

\* Of the job, only the step it is at changes.
Carried ==
  /\ job'.task = job.task /\ job'.to = job.to /\ job'.back = job.back
  /\ job'.attempt = job.attempt /\ job'.scope = job.scope /\ job'.orig = job.orig
  /\ job'.plan = job.plan /\ job'.disturbed = job.disturbed

\* A job that goes to another step keeps the rest.
LEMMA StepTo ==
  ASSUME TypeOK, NEW pc \in {"idle", "move", "begin", "intent", "save", "commit", "recover",
                             "restore", "rollback", "unmove"},
         job' = [job EXCEPT !.pc = pc]
  PROVE  /\ job' \in Jobs /\ job'.pc = pc /\ Carried
         /\ job'.todo = job.todo /\ job'.unresolved = job.unresolved /\ job'.intent = job.intent
BY DEF TypeOK, Jobs, Carried

\* The types of what a repair does not touch.
LEMMA TypesKept ==
  ASSUME TypeOK, UNCHANGED <<card, active, drift>>, agent' \in [Agents -> Projections],
         job' \in Jobs, job'.unresolved \subseteq job.unresolved,
         Recorded, faults' \in 0..MaxFaults,
         result' \in {"none", "ok", "error", "broken", "crash"}
  PROVE  TypeOK'
BY DEF TypeOK, Recorded

\* Faults are counted.
LEMMA Faulted == ASSUME TypeOK, Fault PROVE faults' \in 0..MaxFaults
BY BoundsKnown DEF TypeOK, Fault

\* The intent is on record where a projection has changed.
OnRecord == job.orig # <<>> /\ agent' # job.orig => "intent" \in receipts'[Me'].seen

\* A repair that fails.
LEMMA ToRestore ==
  ASSUME LifecycleInv, job.pc \in Begun, job' = [job EXCEPT !.pc = "restore"],
         UNCHANGED <<card, active, drift, result>>, agent' \in [Agents -> Projections],
         Recorded, faults' \in 0..MaxFaults, OnRecord,
         \A a \in Agents : agent'[a] \in {job.orig[a], job.plan[a]}
  PROVE  LifecycleInv'
<1>1. TypeOK /\ JobSound /\ HistoryPlanned /\ Undone
  BY DEF LifecycleInv
<1>2. /\ job' \in Jobs /\ job'.pc = "restore" /\ Carried
      /\ job'.unresolved = job.unresolved /\ job'.intent = job.intent
  BY <1>1, StepTo
<1>3. TypeOK'
  BY <1>1, <1>2, TypesKept DEF TypeOK
<1>4. JobSound'
  <2>1. Me \in 1..Len(receipts) /\ Me' = Me /\ receipts' # <<>>
    BY <1>1, MeKnown DEF JobSound, Recorded, Me
  <2> QED
    BY <1>1, <1>2, <2>1 DEF JobSound, Carried, Begun, Exists, Recorded
<1>5. IntentFirst'
  BY <1>2 DEF OnRecord, IntentFirst, Carried
<1>6. Projected' /\ HistoryPlanned' /\ PlanFits' /\ Audited' /\ Undone'
  BY <1>1, <1>2 DEF Projected, HistoryPlanned, PlanFits, Audited, Undone, Carried, Begun, Exists
<1> QED
  BY <1>3, <1>4, <1>5, <1>6 DEF LifecycleInv

\* A repair that raises: the job ends, or the transition undoes its move.
LEMMA Raised ==
  ASSUME LifecycleInv, Raise, UNCHANGED <<card, active, drift>>, job.pc # "idle",
         agent' \in [Agents -> Projections], Recorded, faults' \in 0..MaxFaults, OnRecord
  PROVE  LifecycleInv'
<1>1. TypeOK /\ JobSound
  BY DEF LifecycleInv
<1>2. CASE job' = NoJob /\ result' \in {"error", "broken"}
  BY <1>1, <1>2, NoJobTyped, TypesKept, Ended DEF NoJob
<1>3. CASE job.task # None /\ job.attempt # 2 /\ job' = [job EXCEPT !.pc = "unmove"] /\ UNCHANGED result
  <2>1. /\ job' \in Jobs /\ job'.pc = "unmove" /\ Carried
        /\ job'.unresolved = job.unresolved /\ job'.intent = job.intent
    BY <1>1, <1>3, StepTo
  <2>2. TypeOK'
    BY <1>1, <1>3, <2>1, TypesKept DEF TypeOK
  <2>3. job.attempt = 1
    BY <1>1, <1>3 DEF TypeOK, Jobs
  <2>4. JobSound'
    BY <1>1, <1>3, <2>1, <2>3 DEF JobSound, Carried, Begun, Exists
  <2>5. IntentFirst'
    BY <2>1 DEF OnRecord, IntentFirst, Carried
  <2>6. Projected' /\ HistoryPlanned' /\ PlanFits' /\ Audited' /\ Undone'
    BY <2>1, <2>3 DEF Projected, HistoryPlanned, PlanFits, Audited, Undone, Carried, Begun
  <2> QED
    BY <2>2, <2>4, <2>5, <2>6 DEF LifecycleInv
<1> QED
  BY <1>2, <1>3, Zenon DEF Raise, End

-----------------------------------------------------------------------------
(* The steps of a job *)

\* A job begins with nothing found yet.
LEMMA Started ==
  ASSUME LifecycleInv, job' \in Jobs, job'.pc \in {"begin", "move"}, job'.scope \in Scopes,
         job'.orig = <<>>, job'.attempt = 1, job'.unresolved = {},
         job'.pc = "move" => job'.task # None, job'.task # None => Exists(job'.task),
         UNCHANGED <<card, agent, active, receipts, drift, faults>>, result' = "none"
  PROVE  LifecycleInv'
<1>1. TypeOK /\ TypeOK'
  BY DEF LifecycleInv, TypeOK
<1>2. JobSound'
  BY <1>1 DEF JobSound, Begun, Exists
<1>3. IntentFirst' /\ Projected' /\ HistoryPlanned' /\ PlanFits' /\ Audited' /\ Undone'
  BY DEF IntentFirst, Projected, HistoryPlanned, PlanFits, Audited, Undone, Begun
<1> QED
  BY <1>1, <1>2, <1>3 DEF LifecycleInv

\* The actions, one by one: a repair is asked for.
LEMMA RepairLifecycleStep ==
  ASSUME LifecycleInv, NEW S \in Scopes, RepairLifecycle(S) PROVE LifecycleInv'
<1>1. PICK n : n = NoJob
  OBVIOUS
<1>2. n \in Jobs /\ n.orig = <<>> /\ n.attempt = 1 /\ n.task = None /\ n.unresolved = {}
  BY <1>1, NoJobTyped DEF NoJob
<1>3. job' = [n EXCEPT !.pc = "begin", !.scope = S]
  BY <1>1 DEF RepairLifecycle
<1>4. /\ job' \in Jobs /\ job'.pc = "begin" /\ job'.scope = S /\ job'.orig = <<>>
      /\ job'.attempt = 1 /\ job'.task = None /\ job'.unresolved = {}
  BY <1>2, <1>3 DEF Jobs
<1>5. UNCHANGED <<card, agent, active, receipts, drift, faults>> /\ result' = "none"
  BY DEF RepairLifecycle
<1> QED
  BY <1>4, <1>5, Started

\* A transition is asked for; the card is there.
LEMMA TransitionTaskStep ==
  ASSUME LifecycleInv, NEW c \in Cards, NEW col \in Moves, TransitionTask(c, col) PROVE LifecycleInv'
<1>1. Exists(c) /\ card[c].status \in Columns /\ col \in Columns /\ {c} \in Scopes
  BY BoundsKnown DEF TransitionTask, LifecycleInv, TypeOK, Exists, Scopes, Columns
<1>2. PICK s, n : s = card[c].status /\ n = NoJob
  OBVIOUS
<1>3. n \in Jobs /\ n.orig = <<>> /\ n.attempt = 1 /\ n.unresolved = {}
  BY <1>2, NoJobTyped DEF NoJob
<1>4. job' = [n EXCEPT !.pc = "move", !.task = c, !.to = col, !.back = s, !.scope = {c}]
  BY <1>2 DEF TransitionTask
<1>5. /\ job' \in Jobs /\ job'.pc = "move" /\ job'.scope = {c} /\ job'.orig = <<>>
      /\ job'.attempt = 1 /\ job'.task = c /\ job'.unresolved = {}
  BY <1>1, <1>2, <1>3, <1>4 DEF Jobs
<1>6. UNCHANGED <<card, agent, active, receipts, drift, faults>> /\ result' = "none"
  BY DEF TransitionTask
<1> QED
  BY <1>1, <1>5, <1>6, NoneIsNothing, Started

\* A card that is moved stays one.
LEMMA Moved ==
  ASSUME TypeOK, NEW c \in Cards, Exists(c), NEW col \in Columns,
         card' = card \/ card' = [card EXCEPT ![c].status = col]
  PROVE  /\ card' \in [Cards -> [owner : Agents \cup {None}, status : Columns \cup {"missing"}]]
         /\ \A d \in Cards : Exists(d)' <=> Exists(d)
<1>1. CASE card' = card
  BY <1>1 DEF TypeOK, Exists
<1>2. CASE card' = [card EXCEPT ![c].status = col]
  <2>1. PICK x : x = [card[c] EXCEPT !.status = col]
    OBVIOUS
  <2>2. x \in [owner : Agents \cup {None}, status : Columns \cup {"missing"}] /\ x.status = col
    BY <2>1 DEF TypeOK
  <2>3. card' = [card EXCEPT ![c] = x]
    BY <1>2, <2>1, Zenon
  <2> QED
    BY <2>2, <2>3 DEF TypeOK, Exists, Columns
<1> QED
  BY <1>1, <1>2

\* The card is moved, or moved back.
LEMMA MoveStep ==
  ASSUME LifecycleInv, NEW from \in {"move", "unmove"}, NEW col,
         col = IF from = "move" THEN job.to ELSE job.back, Move(from, col)
  PROVE  LifecycleInv'
<1>1. /\ TypeOK /\ JobSound /\ IntentFirst /\ job.pc = from
      /\ job.task \in Cards /\ Exists(job.task) /\ job.attempt = 1 /\ col \in Columns
      /\ job.scope \in Scopes /\ job \in Jobs
  BY DEF LifecycleInv, JobSound, Move, TypeOK, Jobs
<1>2. UNCHANGED <<agent, active, receipts, drift>>
  BY DEF Move
<1>3. card' = card \/ card' = [card EXCEPT ![job.task].status = col]
  BY DEF Move
<1>4. /\ card' \in [Cards -> [owner : Agents \cup {None}, status : Columns \cup {"missing"}]]
      /\ \A d \in Cards : Exists(d)' <=> Exists(d)
  BY <1>1, <1>3, Moved
<1>5. CASE /\ card' = [card EXCEPT ![job.task].status = col]
           /\ job' = [job EXCEPT !.pc = "begin", !.attempt = IF from = "unmove" THEN 2 ELSE 1]
           /\ UNCHANGED <<result, faults>>
  <2>1. PICK n \in 1..2 : n = IF from = "unmove" THEN 2 ELSE 1
    OBVIOUS
  <2>2. job' = [job EXCEPT !.pc = "begin", !.attempt = n]
    BY <1>5, <2>1, Zenon
  <2>3. /\ job' \in Jobs /\ job'.pc = "begin" /\ job'.attempt = n /\ job'.task = job.task
        /\ job'.back = job.back /\ job'.scope = job.scope /\ job'.orig = job.orig
        /\ job'.unresolved = job.unresolved
    BY <1>1, <2>2 DEF Jobs
  <2>4. TypeOK'
    BY <1>1, <1>2, <1>4, <1>5, <2>3 DEF TypeOK
  <2>5. JobSound'
    <3>1. n = 1 => job.orig = <<>>
      BY <1>1, <2>1 DEF JobSound
    <3> QED
      BY <1>1, <1>4, <2>3, <3>1 DEF JobSound, Begun
  <2>6. IntentFirst'
    BY <1>1, <1>2, <2>3 DEF IntentFirst, Me
  <2>7. Undone'
    <3>1. card'[job.task].status = col
      BY <1>1, <1>5 DEF TypeOK
    <3> QED
      BY <2>1, <2>3, <3>1 DEF Undone
  <2>8. Projected' /\ HistoryPlanned' /\ PlanFits' /\ Audited'
    BY <2>3 DEF Projected, HistoryPlanned, PlanFits, Audited, Begun
  <2> QED
    BY <2>4, <2>5, <2>6, <2>7, <2>8 DEF LifecycleInv
<1>6. CASE Fault /\ job' = NoJob /\ result' = "broken"
  <2>1. TypeOK'
    BY <1>1, <1>2, <1>4, <1>6, Faulted, NoJobTyped DEF TypeOK, NoJob
  <2> QED
    BY <1>6, <2>1, Ended
<1>7. CASE Fault /\ job' = [job EXCEPT !.pc = "unmove"] /\ UNCHANGED result
  <2>1. /\ job' \in Jobs /\ job'.pc = "unmove" /\ Carried /\ job'.unresolved = job.unresolved
    BY <1>1, <1>7, StepTo
  <2>2. TypeOK'
    BY <1>1, <1>2, <1>4, <1>7, <2>1, Faulted DEF TypeOK
  <2>3. JobSound'
    BY <1>1, <1>4, <2>1 DEF JobSound, Begun, Carried
  <2>4. IntentFirst'
    BY <1>1, <1>2, <2>1 DEF IntentFirst, Me, Carried
  <2>5. Projected' /\ HistoryPlanned' /\ PlanFits' /\ Audited' /\ Undone'
    BY <1>1, <2>1 DEF Projected, HistoryPlanned, PlanFits, Audited, Undone, Begun, Carried
  <2> QED
    BY <2>2, <2>3, <2>4, <2>5 DEF LifecycleInv
<1> QED
  BY <1>1, <1>5, <1>6, <1>7, Zenon DEF Move, End

\* The repair reads everything and plans, or refuses.
LEMMA BeginStep == ASSUME LifecycleInv, Begin PROVE LifecycleInv'
<1>1. /\ TypeOK /\ JobSound /\ IntentFirst /\ Undone /\ job.pc = "begin" /\ job \in Jobs
      /\ job.scope \in Scopes
  BY DEF LifecycleInv, JobSound, Begin, TypeOK
<1>2. UNCHANGED <<card, agent, active, drift, faults>>
  BY DEF Begin
<1>3. CASE ActiveConflict(job.scope)
  <2>1. Raise /\ UNCHANGED receipts
    BY <1>3 DEF Begin
  <2>2. OnRecord
    BY <1>1, <1>2, <2>1 DEF OnRecord, IntentFirst, Me
  <2> QED
    BY <1>1, <1>2, <2>1, <2>2, NotLogged, Raised DEF TypeOK
<1>4. CASE ~ActiveConflict(job.scope)
  <2>1. PICK plan, todo, unresolved :
          /\ plan = [a \in Agents |-> Repaired(a, job.scope)]
          /\ todo = {a \in Agents : Repaired(a, job.scope) # agent[a]}
          /\ unresolved = Unresolved
    OBVIOUS
  <2>2. /\ job' = [job EXCEPT !.pc = "intent", !.orig = agent, !.unresolved = unresolved,
                              !.plan = plan, !.todo = todo, !.intent = FALSE]
        /\ receipts' = Append(receipts, [scope |-> job.scope, seen |-> {}])
        /\ UNCHANGED result
    BY <1>4, <2>1, Zenon DEF Begin
  <2>3. plan \in [Agents -> Projections] /\ agent \in [Agents -> Projections]
    BY <1>1, <2>1, RepairedTyped DEF TypeOK
  <2>4. unresolved \subseteq 1..Len(receipts) /\ unresolved \subseteq Nat /\ todo \subseteq Agents
    BY <2>1 DEF Unresolved
  <2>5. /\ job'.pc = "intent" /\ job'.orig = agent /\ job'.plan = plan /\ job'.todo = todo
        /\ job'.unresolved = unresolved /\ job'.intent = FALSE /\ job'.task = job.task
        /\ job'.back = job.back /\ job'.attempt = job.attempt /\ job'.scope = job.scope
        /\ job'.disturbed = job.disturbed /\ job' \in Jobs
    BY <1>1, <2>2, <2>3, <2>4 DEF Jobs
  <2>6. receipts' \in Seq(Receipts) /\ Len(receipts') = Len(receipts) + 1 /\ receipts' # <<>>
    <3>1. [scope |-> job.scope, seen |-> {}] \in Receipts /\ receipts \in Seq(Receipts)
      BY <1>1 DEF Receipts, TypeOK
    <3> QED
      BY <2>2, <3>1
  <2>7. TypeOK'
    <3>1. unresolved \subseteq 1..Len(receipts')
      <4>1. Len(receipts) \in Nat
        BY <1>1 DEF TypeOK
      <4> QED
        BY <2>4, <2>6, <4>1
    <3> QED
      BY <1>1, <1>2, <2>2, <2>5, <2>6, <3>1 DEF TypeOK
  <2>8. JobSound'
    BY <1>1, <1>2, <2>3, <2>5, <2>6 DEF JobSound, Begun, Exists
  <2>9. IntentFirst'
    BY <1>2, <2>5 DEF IntentFirst
  <2>10. Projected'
    BY <1>2, <2>1, <2>3, <2>5 DEF Projected
  <2>11. HistoryPlanned'
    BY <1>1, <1>2, <2>1, <2>5, RepairedKeeps DEF HistoryPlanned, Exists
  <2>12. PlanFits'
    <3>1. ASSUME NEW a \in Agents
          PROVE  /\ Good(plan[a], a, job.scope)
                 /\ a \in active => \A t \in agent[a].claimed \ plan[a].claimed :
                                      card[t].status \in {"backlog", "done"}
      BY <1>1, <1>4, <2>1, RepairedGood, RepairedKeeps
    <3> QED
      BY <1>2, <2>5, <3>1 DEF PlanFits, Good, Exists, ActiveOf, DoingOf
  <2>13. Audited' /\ Undone'
    BY <1>1, <1>2, <2>5 DEF Audited, Undone
  <2> QED
    BY <2>7, <2>8, <2>9, <2>10, <2>11, <2>12, <2>13 DEF LifecycleInv
<1> QED
  BY <1>3, <1>4

\* A receipt that does not get written, durable or not, fails the repair.
LEMMA ReceiptFails ==
  ASSUME LifecycleInv, job.pc \in {"intent", "commit", "recover"},
         NEW i \in 1..Len(receipts), NEW phase \in {"intent"} \cup Terminal,
         Fault, Log(i, phase) \/ UNCHANGED receipts, job' = [job EXCEPT !.pc = "restore"],
         UNCHANGED <<card, agent, active, result, drift>>
  PROVE  LifecycleInv'
<1>1. TypeOK /\ JobSound /\ IntentFirst /\ Projected
  BY DEF LifecycleInv
<1>2. Recorded
  BY <1>1, Logged, NotLogged
<1>3. OnRecord
  <2>1. Me \in 1..Len(receipts) /\ Me' = Me
    BY <1>1, <1>2, MeKnown DEF JobSound, Recorded, Me, Begun
  <2> QED
    BY <1>1, <1>2, <2>1 DEF OnRecord, IntentFirst, Recorded
<1> QED
  BY <1>1, <1>2, <1>3, Faulted, ToRestore DEF TypeOK, Projected, Begun

\* With the intent on record, projections may change.
LEMMA WriteIntentStep == ASSUME LifecycleInv, WriteIntent PROVE LifecycleInv'
<1>1. /\ TypeOK /\ JobSound /\ Projected /\ HistoryPlanned /\ PlanFits /\ Undone
      /\ job.pc = "intent" /\ job \in Jobs
  BY DEF LifecycleInv, WriteIntent, WriteReceipt, TypeOK
<1>2. Me \in 1..Len(receipts) /\ "intent" \in {"intent"} \cup Terminal
  BY <1>1, MeKnown DEF JobSound, Begun
<1>3. UNCHANGED <<card, agent, active, result, drift>>
  BY DEF WriteIntent, WriteReceipt
<1>4. CASE /\ Log(Me, "intent") /\ UNCHANGED faults
           /\ job' = [job EXCEPT !.pc = "save", !.intent = TRUE]
  <2>1. Recorded /\ "intent" \in receipts'[Me].seen
    BY <1>1, <1>2, <1>4, Logged
  <2>2. /\ job' \in Jobs /\ job'.pc = "save" /\ Carried /\ job'.todo = job.todo
        /\ job'.unresolved = job.unresolved /\ job'.intent = TRUE
    BY <1>1, <1>4 DEF Jobs, Carried
  <2>3. TypeOK'
    BY <1>1, <1>3, <1>4, <2>1, <2>2, TypesKept DEF TypeOK
  <2>4. Me' = Me /\ receipts' # <<>>
    BY <1>1, <1>2, <2>1 DEF JobSound, Recorded, Me, Begun
  <2>5. JobSound'
    BY <1>1, <1>3, <2>1, <2>2, <2>4 DEF JobSound, Begun, Carried, Exists
  <2>6. IntentFirst'
    BY <2>1, <2>2, <2>4 DEF IntentFirst, Carried
  <2>7. Projected' /\ HistoryPlanned'
    BY <1>1, <1>3, <2>2 DEF Projected, HistoryPlanned, Begun, Carried, Exists
  <2>8. PlanFits'
    BY <1>1, <1>3, <2>2 DEF PlanFits, Carried, Good, Exists, ActiveOf, DoingOf
  <2>9. Audited' /\ Undone'
    BY <1>1, <1>3, <2>2 DEF Audited, Undone, Carried
  <2> QED
    BY <2>3, <2>5, <2>6, <2>7, <2>8, <2>9 DEF LifecycleInv
<1>5. CASE Fault /\ (Log(Me, "intent") \/ UNCHANGED receipts) /\ job' = [job EXCEPT !.pc = "restore"]
  BY <1>1, <1>2, <1>3, <1>5, ReceiptFails
<1> QED
  BY <1>4, <1>5, Zenon DEF WriteIntent, WriteReceipt

\* One projection is saved as planned.
LEMMA SaveProjectionStep == ASSUME LifecycleInv, SaveProjection PROVE LifecycleInv'
<1>1. /\ TypeOK /\ JobSound /\ Projected /\ HistoryPlanned /\ PlanFits /\ Undone
      /\ job.pc = "save" /\ job \in Jobs
  BY DEF LifecycleInv, SaveProjection, TypeOK
<1>2. UNCHANGED <<card, active, result, receipts, drift>>
  BY DEF SaveProjection
<1>3. PICK a \in job.todo :
        \/ /\ agent' = [agent EXCEPT ![a] = job.plan[a]]
           /\ job' = [job EXCEPT !.todo = @ \ {a}]
           /\ UNCHANGED faults
        \/ /\ Fault
           /\ agent' \in {agent, [agent EXCEPT ![a] = job.plan[a]]}
           /\ job' = [job EXCEPT !.pc = "restore"]
  BY DEF SaveProjection
<1>4. /\ a \in Agents /\ agent \in [Agents -> Projections]
      /\ job.plan \in [Agents -> Projections] /\ job.orig \in [Agents -> Projections]
      /\ Me \in 1..Len(receipts) /\ "intent" \in receipts[Me].seen
  BY <1>1, MeKnown DEF TypeOK, Jobs, JobSound, Begun
<1>5. /\ agent' \in [Agents -> Projections]
      /\ \A b \in Agents : agent'[b] \in {agent[b], job.plan[b]} /\ (b # a => agent'[b] = agent[b])
  BY <1>3, <1>4
<1>6. Me' = Me /\ "intent" \in receipts'[Me'].seen
  BY <1>2, <1>4 DEF Me
<1>7. CASE /\ agent' = [agent EXCEPT ![a] = job.plan[a]]
           /\ job' = [job EXCEPT !.todo = @ \ {a}] /\ UNCHANGED faults
  <2>1. /\ job' \in Jobs /\ job'.pc = "save" /\ Carried /\ job'.todo = job.todo \ {a}
        /\ job'.unresolved = job.unresolved /\ job'.intent = job.intent
    BY <1>1, <1>7 DEF Jobs, Carried
  <2>2. TypeOK'
    BY <1>1, <1>2, <1>5, <1>7, <2>1, NotLogged, TypesKept DEF TypeOK
  <2>3. JobSound'
    BY <1>1, <1>2, <1>6, <2>1 DEF JobSound, Begun, Carried, Exists
  <2>4. IntentFirst'
    BY <1>6 DEF IntentFirst
  <2>5. Projected'
    <3>1. agent'[a] = job.plan[a]
      BY <1>4, <1>7
    <3>2. \A b \in Agents : agent'[b] = IF b \in job'.todo THEN job'.orig[b] ELSE job'.plan[b]
      BY <1>1, <1>5, <2>1, <3>1 DEF Projected, Carried
    <3> QED
      BY <2>1, <3>2 DEF Projected
  <2>6. HistoryPlanned'
    BY <1>1, <1>2, <2>1 DEF HistoryPlanned, Begun, Carried, Exists
  <2>7. PlanFits'
    BY <1>1, <1>2, <2>1 DEF PlanFits, Carried, Good, Exists, ActiveOf, DoingOf
  <2>8. Audited' /\ Undone'
    BY <1>1, <1>2, <2>1 DEF Audited, Undone, Carried
  <2> QED
    BY <2>2, <2>3, <2>4, <2>5, <2>6, <2>7, <2>8 DEF LifecycleInv
<1>8. CASE Fault /\ job' = [job EXCEPT !.pc = "restore"]
  <2>1. OnRecord /\ job.pc \in Begun
    BY <1>1, <1>6 DEF OnRecord, Begun
  <2>2. \A b \in Agents : agent'[b] \in {job.orig[b], job.plan[b]}
    BY <1>1, <1>5 DEF Projected, Begun
  <2> QED
    BY <1>1, <1>2, <1>5, <1>8, <2>1, <2>2, NotLogged, Faulted, ToRestore
<1> QED
  BY <1>3, <1>7, <1>8

\* The audit finds the scope in order, or the repair fails.
LEMMA AuditAgainStep == ASSUME LifecycleInv, AuditAgain PROVE LifecycleInv'
<1>1. /\ TypeOK /\ JobSound /\ IntentFirst /\ Projected /\ HistoryPlanned /\ Undone
      /\ job.pc = "save" /\ job \in Jobs
  BY DEF LifecycleInv, AuditAgain, TypeOK
<1>2. UNCHANGED <<card, agent, active, result, receipts, drift, faults>>
  BY DEF AuditAgain
<1>3. CASE Clean(job.scope)
  <2>1. job' = [job EXCEPT !.pc = "commit"]
    BY <1>3 DEF AuditAgain
  <2>2. /\ job' \in Jobs /\ job'.pc = "commit" /\ Carried
        /\ job'.unresolved = job.unresolved /\ job'.intent = job.intent
    BY <1>1, <2>1, StepTo
  <2>3. TypeOK'
    BY <1>1, <1>2, <2>2 DEF TypeOK
  <2>4. JobSound'
    BY <1>1, <1>2, <2>2 DEF JobSound, Begun, Carried, Exists, Me
  <2>5. IntentFirst'
    BY <1>1, <1>2, <2>2 DEF IntentFirst, Carried, Me
  <2>6. Projected' /\ HistoryPlanned' /\ PlanFits' /\ Undone'
    BY <1>1, <1>2, <2>2 DEF Projected, HistoryPlanned, PlanFits, Undone, Begun, Carried, Exists
  <2>7. Clean(job.scope)'
    BY <1>2, <1>3, <2>2 DEF Carried, Clean, Orphan, NotWorking, NotOwner, CurrentWrong,
       ReopenedButCompleted, OwnerLacksClaim, Claims, Exists, Claimants, DoingNotCurrent,
       ActiveOf, DoingOf
  <2>8. Audited'
    BY <2>2, <2>7 DEF Audited
  <2> QED
    BY <2>3, <2>4, <2>5, <2>6, <2>8 DEF LifecycleInv
<1>4. CASE ~Clean(job.scope)
  <2>1. job' = [job EXCEPT !.pc = "restore"]
    BY <1>4 DEF AuditAgain
  <2>2. OnRecord
    BY <1>1, <1>2 DEF OnRecord, IntentFirst, Me
  <2> QED
    BY <1>1, <1>2, <2>1, <2>2, NotLogged, ToRestore DEF TypeOK, Projected, Begun
<1> QED
  BY <1>3, <1>4

\* What is in order stays so while nobody writes.
LEMMA CleanStays == ASSUME NEW S, Clean(S), UNCHANGED <<card, agent>> PROVE Clean(S)'
BY DEF Clean, Orphan, NotWorking, NotOwner, CurrentWrong, ReopenedButCompleted,
   OwnerLacksClaim, Claims, Exists, Claimants, DoingNotCurrent, ActiveOf, DoingOf

\* A receipt of an audited repair.
LEMMA ReceiptWritten ==
  ASSUME LifecycleInv, job.pc \in {"commit", "recover"}, job'.pc = "recover", Carried,
         job' \in Jobs, job'.intent = job.intent, job'.unresolved \subseteq job.unresolved,
         \A i \in job'.unresolved : receipts[i].scope \subseteq job.scope,
         Recorded, UNCHANGED <<card, agent, active, result, drift, faults>>
  PROVE  LifecycleInv'
<1>1. /\ TypeOK /\ JobSound /\ IntentFirst /\ Projected /\ HistoryPlanned /\ Audited /\ Undone
  BY DEF LifecycleInv
<1>2. TypeOK'
  BY <1>1, TypesKept DEF TypeOK
<1>3. Me \in 1..Len(receipts) /\ Me' = Me /\ receipts' # <<>>
  BY <1>1, MeKnown DEF JobSound, Recorded, Me, Begun
<1>4. JobSound'
  BY <1>1, <1>3 DEF JobSound, Begun, Carried, Exists, Recorded
<1>5. IntentFirst'
  BY <1>1, <1>3 DEF IntentFirst, Carried, Recorded
<1>6. Projected' /\ HistoryPlanned' /\ PlanFits' /\ Undone'
  BY <1>1 DEF Projected, HistoryPlanned, PlanFits, Undone, Begun, Carried, Exists
<1>7. Audited'
  <2>1. PICK S : S = job.scope /\ S = job'.scope
    BY DEF Carried
  <2>2. ~job'.disturbed => Clean(S)
    BY <1>1, <2>1 DEF Audited, Carried
  <2>3. ~job'.disturbed => Clean(S)'
    BY <2>2, CleanStays
  <2>4. ~job'.disturbed => Clean(job.scope)'
    BY <2>1, <2>3 DEF Clean, DoingNotCurrent
  <2>5. \A i \in job'.unresolved : receipts'[i].scope \subseteq job'.scope
    BY <1>1, <2>1 DEF TypeOK, Recorded
  <2> QED
    BY <2>4, <2>5 DEF Audited
<1> QED
  BY <1>2, <1>4, <1>5, <1>6, <1>7 DEF LifecycleInv

\* The repair commits and keeps the receipts that it covers.
LEMMA WriteCommittedStep == ASSUME LifecycleInv, WriteCommitted PROVE LifecycleInv'
<1>1. TypeOK /\ JobSound /\ job.pc = "commit" /\ job \in Jobs
  BY DEF LifecycleInv, WriteCommitted, WriteReceipt, TypeOK
<1>2. Me \in 1..Len(receipts) /\ "committed" \in {"intent"} \cup Terminal
  BY <1>1, MeKnown DEF JobSound, Begun, Terminal
<1>3. UNCHANGED <<card, agent, active, result, drift>>
  BY DEF WriteCommitted, WriteReceipt
<1>4. CASE /\ Log(Me, "committed") /\ UNCHANGED faults
           /\ job' = [job EXCEPT !.pc = "recover", !.unresolved = Recoverable]
  <2>1. PICK U : U = Recoverable
    OBVIOUS
  <2>2. U \subseteq job.unresolved /\ \A i \in U : receipts[i].scope \subseteq job.scope
    BY <2>1 DEF Recoverable
  <2>3. U \in SUBSET Nat
    BY <1>1, <2>2 DEF Jobs
  <2>4. job' = [job EXCEPT !.pc = "recover", !.unresolved = U]
    BY <1>4, <2>1, Zenon
  <2>5. /\ job' \in Jobs /\ job'.pc = "recover" /\ Carried /\ job'.unresolved = U
        /\ job'.intent = job.intent
    BY <1>1, <2>3, <2>4 DEF Jobs, Carried
  <2>6. Recorded
    BY <1>1, <1>2, <1>4, Logged
  <2> QED
    BY <1>1, <1>3, <1>4, <2>2, <2>5, <2>6, ReceiptWritten
<1>5. CASE Fault /\ (Log(Me, "committed") \/ UNCHANGED receipts) /\ job' = [job EXCEPT !.pc = "restore"]
  BY <1>1, <1>2, <1>3, <1>5, ReceiptFails
<1> QED
  BY <1>4, <1>5, Zenon DEF WriteCommitted, WriteReceipt

\* An earlier repair is called recovered.
LEMMA WriteRecoveredStep == ASSUME LifecycleInv, WriteRecovered PROVE LifecycleInv'
<1>1. TypeOK /\ Audited /\ job.pc = "recover" /\ job \in Jobs
  BY DEF LifecycleInv, WriteRecovered, WriteReceipt, TypeOK
<1>2. PICK i \in job.unresolved :
        WriteReceipt("recover", i, "recovered", [job EXCEPT !.unresolved = @ \ {i}])
  BY DEF WriteRecovered
<1>3. i \in 1..Len(receipts) /\ "recovered" \in {"intent"} \cup Terminal
  BY <1>1 DEF TypeOK, Terminal
<1>4. UNCHANGED <<card, agent, active, result, drift>>
  BY <1>2 DEF WriteReceipt
<1>5. CASE /\ Log(i, "recovered") /\ UNCHANGED faults
           /\ job' = [job EXCEPT !.unresolved = @ \ {i}]
  <2>1. /\ job' \in Jobs /\ job'.pc = "recover" /\ Carried /\ job'.intent = job.intent
        /\ job'.unresolved = job.unresolved \ {i}
    BY <1>1, <1>5 DEF Jobs, Carried
  <2>2. Recorded
    BY <1>1, <1>3, <1>5, Logged
  <2> QED
    BY <1>1, <1>4, <1>5, <2>1, <2>2, ReceiptWritten DEF Audited
<1>6. CASE Fault /\ (Log(i, "recovered") \/ UNCHANGED receipts) /\ job' = [job EXCEPT !.pc = "restore"]
  BY <1>1, <1>3, <1>4, <1>6, ReceiptFails
<1> QED
  BY <1>2, <1>5, <1>6, Zenon DEF WriteReceipt

\* A job may end at any time.
LEMMA EndStep ==
  ASSUME LifecycleInv, NEW r \in {"ok", "error", "crash"}, End(r), faults' \in 0..MaxFaults,
         UNCHANGED <<card, agent, active, receipts, drift>>
  PROVE  LifecycleInv'
<1>1. TypeOK'
  BY NoJobTyped DEF LifecycleInv, TypeOK, End, NoJob
<1> QED
  BY <1>1, Ended DEF End

\* Projections are put back, all of them or some.
LEMMA RestoreProjectionsStep == ASSUME LifecycleInv, RestoreProjections PROVE LifecycleInv'
<1>1. /\ TypeOK /\ JobSound /\ IntentFirst /\ Projected /\ HistoryPlanned /\ Undone
      /\ job.pc = "restore" /\ job \in Jobs
  BY DEF LifecycleInv, RestoreProjections, TypeOK
<1>2. UNCHANGED <<card, active, receipts, drift>>
  BY DEF RestoreProjections
<1>3. job.orig \in [Agents -> Projections] /\ agent \in [Agents -> Projections]
  BY <1>1 DEF JobSound, Begun, TypeOK
<1>4. CASE agent' = job.orig /\ UNCHANGED faults /\ job.intent
             /\ job' = [job EXCEPT !.pc = "rollback"] /\ UNCHANGED result
  <2>1. /\ job' \in Jobs /\ job'.pc = "rollback" /\ Carried
        /\ job'.unresolved = job.unresolved /\ job'.intent = job.intent
    BY <1>1, <1>4, StepTo
  <2>2. TypeOK'
    BY <1>1, <1>2, <1>3, <1>4, <2>1, NotLogged, TypesKept DEF TypeOK
  <2>3. JobSound'
    BY <1>1, <1>2, <1>4, <2>1 DEF JobSound, Begun, Carried, Exists, Me
  <2>4. IntentFirst'
    BY <1>4, <2>1 DEF IntentFirst, Carried
  <2>5. Projected' /\ HistoryPlanned' /\ PlanFits' /\ Audited' /\ Undone'
    BY <1>1, <1>2, <1>4, <2>1 DEF Projected, HistoryPlanned, PlanFits, Audited, Undone, Begun,
       Carried, Exists
  <2> QED
    BY <2>2, <2>3, <2>4, <2>5 DEF LifecycleInv
<1>5. CASE agent' = job.orig /\ UNCHANGED faults /\ Raise
  <2>1. OnRecord
    BY <1>5 DEF OnRecord
  <2> QED
    BY <1>1, <1>2, <1>3, <1>5, <2>1, NotLogged, Raised DEF TypeOK
<1>6. CASE /\ Fault /\ (job.task = None => End("broken")) /\ (job.task # None => Raise)
           /\ \E A \in SUBSET Agents :
                agent' = [a \in Agents |-> IF a \in A THEN job.orig[a] ELSE agent[a]]
  <2>1. agent' \in [Agents -> Projections] /\ (agent = job.orig => agent' = job.orig)
    BY <1>3, <1>6
  <2>2. OnRecord
    BY <1>1, <1>2, <2>1 DEF OnRecord, IntentFirst, Me
  <2>3. CASE job.task = None
    <3>1. job' = NoJob /\ result' = "broken" /\ faults' \in 0..MaxFaults
      BY <1>1, <1>6, <2>3, Faulted DEF End
    <3>2. job' \in Jobs /\ job'.unresolved = {}
      BY <3>1, NoJobTyped DEF NoJob
    <3>3. TypeOK'
      BY <1>1, <1>2, <2>1, <3>1, <3>2, NotLogged, TypesKept
    <3> QED
      BY <3>1, <3>3, Ended
  <2>4. CASE job.task # None
    BY <1>1, <1>2, <1>6, <2>1, <2>2, <2>4, NotLogged, Faulted, Raised
  <2> QED
    BY <2>3, <2>4
<1> QED
  BY <1>4, <1>5, <1>6 DEF RestoreProjections

\* The roll-back is logged or not.
LEMMA WriteRolledBackStep == ASSUME LifecycleInv, WriteRolledBack PROVE LifecycleInv'
<1>1. /\ TypeOK /\ JobSound /\ Projected /\ job.pc = "rollback"
  BY DEF LifecycleInv, WriteRolledBack, TypeOK
<1>2. UNCHANGED <<card, agent, active, drift>> /\ Raise
  BY DEF WriteRolledBack
<1>3. Me \in 1..Len(receipts) /\ "rolled_back" \in {"intent"} \cup Terminal
  BY <1>1, MeKnown DEF JobSound, Begun, Terminal
<1>4. Recorded /\ faults' \in 0..MaxFaults
  BY <1>1, <1>3, Logged, NotLogged, Faulted DEF WriteRolledBack, TypeOK
<1>5. OnRecord
  BY <1>1, <1>2 DEF OnRecord, Projected
<1> QED
  BY <1>1, <1>2, <1>4, <1>5, Raised DEF TypeOK

-----------------------------------------------------------------------------
(* The rest of the system *)

\* A kanban event changes a card and is remembered while a job runs.
LEMMA KanbanEventStep == ASSUME LifecycleInv, KanbanEvent PROVE LifecycleInv'
<1>1. /\ TypeOK /\ JobSound /\ IntentFirst /\ Projected /\ HistoryPlanned /\ Audited
      /\ job \in Jobs
  BY DEF LifecycleInv, TypeOK
<1>2. UNCHANGED <<agent, active, result, receipts, faults>> /\ drift' \in 0..MaxDrift
  BY <1>1, BoundsKnown DEF KanbanEvent, TypeOK
<1>3. PICK c \in Cards :
        /\ Exists(c)
        /\ \/ \E col \in Moves \ {card[c].status} : card' = [card EXCEPT ![c].status = col]
           \/ \E a \in (Agents \cup {None}) \ {card[c].owner} : card' = [card EXCEPT ![c].owner = a]
  BY DEF KanbanEvent
<1>4. /\ card' \in [Cards -> [owner : Agents \cup {None}, status : Columns \cup {"missing"}]]
      /\ \A d \in Cards : Exists(d)' <=> Exists(d)
  <2>1. ASSUME NEW col \in Moves, card' = [card EXCEPT ![c].status = col]
        PROVE  <1>4!:
    <3>1. col \in Columns
      BY BoundsKnown DEF Columns
    <3> QED
      BY <1>1, <1>3, <2>1, <3>1, Moved
  <2>2. ASSUME NEW a \in Agents \cup {None}, card' = [card EXCEPT ![c].owner = a]
        PROVE  <1>4!:
    <3>1. PICK x : x = [card[c] EXCEPT !.owner = a]
      OBVIOUS
    <3>2. /\ x \in [owner : Agents \cup {None}, status : Columns \cup {"missing"}]
          /\ x.status = card[c].status
      BY <1>1, <3>1 DEF TypeOK
    <3>3. card' = [card EXCEPT ![c] = x]
      BY <2>2, <3>1, Zenon
    <3> QED
      BY <1>1, <3>2, <3>3 DEF TypeOK, Exists
  <2> QED
    BY <1>3, <2>1, <2>2
<1>5. job' = [job EXCEPT !.disturbed = job.pc # "idle"]
  BY DEF KanbanEvent
<1>6. CASE job.pc = "idle"
  <2>1. job = NoJob
    BY <1>1, <1>6 DEF JobSound
  <2>2. job' = NoJob
    BY <1>5, <2>1 DEF NoJob
  <2>3. TypeOK'
    BY <1>1, <1>2, <1>4, <2>1, <2>2 DEF TypeOK
  <2> QED
    BY <2>2, <2>3, Ended
<1>7. CASE job.pc # "idle"
  <2>1. job' = [job EXCEPT !.disturbed = TRUE]
    BY <1>5, <1>7
  <2>2. /\ job' \in Jobs /\ job'.disturbed = TRUE /\ job'.pc = job.pc /\ job'.task = job.task
        /\ job'.attempt = job.attempt /\ job'.scope = job.scope /\ job'.orig = job.orig
        /\ job'.plan = job.plan /\ job'.todo = job.todo /\ job'.unresolved = job.unresolved
        /\ job'.intent = job.intent
    BY <1>1, <2>1 DEF Jobs
  <2>3. TypeOK'
    BY <1>1, <1>2, <1>4, <2>2 DEF TypeOK
  <2>4. JobSound'
    <3>1. job'.task # None => Exists(job.task)'
      BY <1>1, <1>4, <2>2 DEF JobSound, Jobs
    <3> QED
      BY <1>1, <1>2, <1>7, <2>2, <3>1 DEF JobSound, Begun, Me, Exists
  <2>5. IntentFirst'
    BY <1>1, <1>2, <2>2 DEF IntentFirst, Me
  <2>6. Projected'
    BY <1>1, <1>2, <2>2 DEF Projected
  <2>7. HistoryPlanned'
    BY <1>1, <1>4, <2>2 DEF HistoryPlanned
  <2>8. PlanFits' /\ Audited' /\ Undone'
    BY <1>1, <1>2, <2>2 DEF PlanFits, Audited, Undone
  <2> QED
    BY <2>3, <2>4, <2>5, <2>6, <2>7, <2>8 DEF LifecycleInv
<1> QED
  BY <1>6, <1>7

\* A board operation runs when no job does.
LEMMA BoardOperationStep ==
  ASSUME LifecycleInv, BoardOperation, agent' \in [Agents -> Projections],
         card' \in [Cards -> [owner : Agents \cup {None}, status : Columns \cup {"missing"}]]
  PROVE  LifecycleInv'
<1>1. TypeOK /\ job' = NoJob
  BY DEF LifecycleInv, JobSound, BoardOperation
<1>2. TypeOK'
  BY <1>1, BoundsKnown DEF TypeOK, BoardOperation
<1> QED
  BY <1>1, <1>2, Ended

\* A claim, with the demotion of the task that was current.
LEMMA ClaimTaskStep ==
  ASSUME LifecycleInv, NEW a \in Agents, NEW c \in Cards, ClaimTask(a, c) PROVE LifecycleInv'
<1> DEFINE CardType == [owner : Agents \cup {None}, status : Columns \cup {"missing"}]
           claimed == [card EXCEPT ![c] = ClaimedCard(a, c)]
           bumped == {agent[a].current} \ {None, c}
           demoted == [d \in Cards |-> IF d \in bumped /\ Exists(d)
                                         THEN [claimed[d] EXCEPT !.status = "ready"] ELSE claimed[d]]
<1>1. card \in [Cards -> CardType] /\ agent \in [Agents -> Projections]
  BY DEF LifecycleInv, TypeOK
<1>2. /\ BoardOperation /\ card' \in {card, claimed, demoted}
      /\ agent' = [agent EXCEPT ![a].current = c, ![a].claimed = @ \cup {c}]
  BY Zenon DEF ClaimTask
<1>3. ClaimedCard(a, c) \in CardType
  BY <1>1 DEF ClaimedCard, Columns
<1>4. claimed \in [Cards -> CardType]
  BY <1>1, <1>3
<1>5. demoted \in [Cards -> CardType]
  <2> HIDE DEF claimed, bumped
  <2>1. ASSUME NEW d \in Cards PROVE [claimed[d] EXCEPT !.status = "ready"] \in CardType
    <3>1. PICK x \in CardType : x = claimed[d]
      BY <1>4
    <3>2. [x EXCEPT !.status = "ready"] \in CardType
      BY DEF Columns
    <3> QED
      BY <3>1, <3>2
  <2>2. ASSUME NEW d \in Cards PROVE demoted[d] \in CardType
    BY <1>4, <2>1
  <2> QED
    BY <2>2
<1>6. agent' \in [Agents -> Projections]
  <2>1. PICK x : x = [[agent[a] EXCEPT !.current = c] EXCEPT !.claimed = @ \cup {c}]
    OBVIOUS
  <2>2. x \in Projections
    BY <1>1, <2>1 DEF Projections
  <2>3. agent' = [agent EXCEPT ![a] = x]
    BY <1>1, <1>2, <2>1
  <2> QED
    BY <1>1, <2>2, <2>3
<1>7. card' \in [Cards -> CardType]
  <2> HIDE DEF claimed, demoted
  <2> QED
    BY <1>1, <1>2, <1>4, <1>5
<1> QED
  BY <1>2, <1>6, <1>7, BoardOperationStep

\* A completion.
LEMMA CompleteTaskStep ==
  ASSUME LifecycleInv, NEW a \in Agents, NEW c \in Cards, CompleteTask(a, c) PROVE LifecycleInv'
<1> DEFINE CardType == [owner : Agents \cup {None}, status : Columns \cup {"missing"}]
           x == IF Exists(c) THEN [owner |-> None, status |-> "done"] ELSE card[c]
<1>1. card \in [Cards -> CardType] /\ agent \in [Agents -> Projections]
  BY DEF LifecycleInv, TypeOK
<1>2. BoardOperation /\ card' \in {card, [card EXCEPT ![c] = x]}
  BY DEF CompleteTask
<1>3. x \in CardType
  BY <1>1 DEF Columns
<1>4. card' \in [Cards -> CardType]
  <2> HIDE DEF x
  <2> QED
    BY <1>1, <1>2, <1>3
<1>5. PICK next, rest :
        /\ rest = agent[a].claimed \ {c}
        /\ next \in IF agent[a].current # c THEN {agent[a].current}
                    ELSE IF rest = {} THEN {None} ELSE rest
        /\ agent' = [agent EXCEPT ![a] = [current |-> next, claimed |-> rest,
                                          completed |-> @.completed \cup {c}]]
  BY DEF CompleteTask
<1>6. next \in Cards \cup {None} /\ rest \subseteq Cards
  BY <1>1, <1>5 DEF Projections
<1>7. [current |-> next, claimed |-> rest, completed |-> agent[a].completed \cup {c}] \in Projections
  BY <1>1, <1>6 DEF Projections
<1>8. agent' \in [Agents -> Projections]
  BY <1>1, <1>5, <1>7
<1> QED
  BY <1>2, <1>4, <1>8, BoardOperationStep

-----------------------------------------------------------------------------
(* The theorems *)

\* The board begins with projections that agree with the cards.
LEMMA LifecycleInitially == Init => LifecycleInv
<1> SUFFICES ASSUME Init PROVE LifecycleInv
  OBVIOUS
<1>1. PICK who \in [Cards -> Agents \cup {None}], gone \in SUBSET Cards :
       /\ card = [c \in Cards |->
                    IF c \in gone THEN [owner |-> None, status |-> "missing"]
                    ELSE [owner |-> who[c], status |-> IF who[c] = None THEN "backlog" ELSE "doing"]]
       /\ agent = [a \in Agents |->
                     [current |-> IF {c \in Cards : who[c] = a} = {} THEN None
                                  ELSE First({c \in Cards : who[c] = a}),
                      claimed |-> {c \in Cards : who[c] = a}, completed |-> {}]]
  BY Zenon DEF Init
<1>2. /\ active \in SUBSET Agents /\ job = NoJob /\ result = "none" /\ receipts = <<>>
      /\ drift = 0 /\ faults = 0
  BY DEF Init
<1>3. card \in [Cards -> [owner : Agents \cup {None}, status : Columns \cup {"missing"}]]
  BY <1>1 DEF Columns
<1>4. agent \in [Agents -> Projections]
  <2>1. ASSUME NEW a \in Agents PROVE agent[a] \in Projections
    <3>1. PICK mine : mine = {c \in Cards : who[c] = a}
      OBVIOUS
    <3>2. agent[a] = [current |-> IF mine = {} THEN None ELSE First(mine),
                      claimed |-> mine, completed |-> {}]
      BY <1>1, <3>1
    <3>3. mine \subseteq Cards /\ (mine # {} => First(mine) \in Cards)
      BY <3>1, FirstIn
    <3> QED
      BY <3>2, <3>3 DEF Projections
  <2> QED
    BY <1>1, <2>1
<1>5. TypeOK
  BY <1>2, <1>3, <1>4, NoJobTyped, BoundsKnown DEF TypeOK, NoJob
<1>6. /\ job.pc = "idle" /\ job.task = None /\ job.attempt = 1 /\ job.orig = <<>>
  BY <1>2 DEF NoJob
<1> QED
  BY <1>2, <1>5, <1>6 DEF LifecycleInv, JobSound, IntentFirst, Projected, HistoryPlanned,
     PlanFits, Audited, Undone, Begun

\* The invariant is about the variables of the specification.
LEMMA LifecycleStutter == ASSUME LifecycleInv, UNCHANGED vars PROVE LifecycleInv'
<1>1. UNCHANGED <<card, agent, active, job, result, receipts, drift, faults>>
  BY DEF vars
<1>2. TypeOK' /\ JobSound' /\ IntentFirst'
  BY <1>1 DEF LifecycleInv, TypeOK, JobSound, IntentFirst, Exists, Me
<1>3. Projected' /\ HistoryPlanned' /\ Undone'
  BY <1>1 DEF LifecycleInv, Projected, HistoryPlanned, Undone, Exists
<1>4. PlanFits'
  BY <1>1 DEF LifecycleInv, PlanFits, Good, Exists, ActiveOf, DoingOf
<1>5. Audited'
  <2>1. PICK S : S = job.scope
    OBVIOUS
  <2>2. Clean(S) => Clean(S)'
    BY <1>1, CleanStays
  <2> QED
    BY <1>1, <2>1, <2>2 DEF LifecycleInv, Audited, Clean, DoingNotCurrent
<1> QED
  BY <1>2, <1>3, <1>4, <1>5 DEF LifecycleInv

\* Every step keeps the invariant.
LEMMA LifecycleStep == LifecycleInv /\ [Next]_vars => LifecycleInv'
<1> SUFFICES ASSUME LifecycleInv, [Next]_vars PROVE LifecycleInv'
  OBVIOUS
<1>1. CASE UNCHANGED vars
  BY <1>1, LifecycleStutter
<1>2. CASE \E S \in Scopes : RepairLifecycle(S)
  BY <1>2, RepairLifecycleStep
<1>3. CASE \E c \in Cards, col \in Moves : TransitionTask(c, col)
  BY <1>3, TransitionTaskStep
<1>4. CASE \E a \in Agents, c \in Cards : ClaimTask(a, c) \/ CompleteTask(a, c)
  BY <1>4, ClaimTaskStep, CompleteTaskStep
<1>5. CASE KanbanEvent
  BY <1>5, KanbanEventStep
<1>6. CASE MoveCard \/ Unmove
  BY <1>6, MoveStep DEF MoveCard, Unmove
<1>7. CASE \/ Begin \/ WriteIntent \/ SaveProjection \/ AuditAgain \/ WriteCommitted
           \/ WriteRecovered \/ RestoreProjections \/ WriteRolledBack
  BY <1>7, BeginStep, WriteIntentStep, SaveProjectionStep, AuditAgainStep, WriteCommittedStep,
     WriteRecoveredStep, RestoreProjectionsStep, WriteRolledBackStep
<1>8. CASE Finish
  BY <1>8, EndStep DEF Finish, LifecycleInv, TypeOK
<1>9. CASE Crash
  BY <1>9, EndStep, Faulted DEF Crash, LifecycleInv
<1> QED
  BY <1>1, <1>2, <1>3, <1>4, <1>5, <1>6, <1>7, <1>8, <1>9, Zenon DEF Next, Step

\* The invariant holds for every set of cards, every finite set of agents and every
\* number of repairs, drifts and faults.
THEOREM LifecycleInvHolds == Spec => []LifecycleInv
BY LifecycleInitially, LifecycleStep, PTL DEF Spec

\* Type correctness of audits, repairs and transitions.
THEOREM LifecycleTypeCorrect == Spec => []TypeOK
<1>1. LifecycleInv => TypeOK
  BY DEF LifecycleInv
<1> QED
  BY <1>1, LifecycleInvHolds, PTL

\* In the middle of a repair, what it changed is on record and what it planned gives the
\* audit that follows nothing to find, but rival claims of a card nobody owns.
THEOREM RepairSoundHolds == Spec => []RepairSound
<1>1. LifecycleInv => Converges
  <2> SUFFICES ASSUME LifecycleInv, job.pc = "save", job.todo = {}, ~job.disturbed
               PROVE  \/ Clean(job.scope)
                      \/ \E t \in Cards \cap job.scope :
                           card[t].owner = None /\ Cardinality(Claimants(t)) > 1
    BY DEF Converges
  <2>1. TypeOK /\ job.scope \in Scopes
    BY DEF LifecycleInv, JobSound
  <2>2. \A a \in Agents : agent[a] = job.plan[a] /\ Good(job.plan[a], a, job.scope)
    BY DEF LifecycleInv, Projected, PlanFits
  <2>3. \A a \in Agents : Good(agent[a], a, job.scope)
    BY <2>2
  <2> QED
    BY <2>1, <2>3, GoodIsClean
<1>2. LifecycleInv => IntentFirst
  BY DEF LifecycleInv
<1>3. LifecycleInv => RepairSound
  BY <1>1, <1>2 DEF RepairSound
<1> QED
  BY <1>3, LifecycleInvHolds, PTL

\* How a job can end well, or in an error that was undone.
LEMMA HowJobsEnd ==
  ASSUME LifecycleInv, Next, job.pc # "idle", job' = NoJob
  PROVE  \/ Finish
         \/ result' \in {"broken", "crash"}
         \/ Begin /\ Raise /\ UNCHANGED agent
         \/ RestoreProjections /\ Raise /\ agent' = job.orig
         \/ WriteRolledBack /\ Raise /\ UNCHANGED agent
<1>0. job \in Jobs /\ job'.pc = "idle"
  BY DEF LifecycleInv, TypeOK, NoJob
<1>1. CASE \/ \E S \in Scopes : RepairLifecycle(S)
           \/ \E c \in Cards, col \in Moves : TransitionTask(c, col)
           \/ \E a \in Agents, c \in Cards : ClaimTask(a, c) \/ CompleteTask(a, c)
  BY <1>1, Zenon DEF RepairLifecycle, TransitionTask, ClaimTask, CompleteTask, BoardOperation
<1>2. CASE KanbanEvent
  BY <1>0, <1>2 DEF KanbanEvent, Jobs
<1>3. CASE MoveCard \/ Unmove
  <2>1. \/ result' = "broken" \/ job' = [job EXCEPT !.pc = "unmove"]
        \/ job' = [job EXCEPT !.pc = "begin", !.attempt = 2]
        \/ job' = [job EXCEPT !.pc = "begin", !.attempt = 1]
    BY <1>3 DEF MoveCard, Unmove, Move, End
  <2> QED
    BY <1>0, <2>1 DEF Jobs
<1>4. CASE WriteIntent \/ WriteCommitted \/ WriteRecovered
  <2>1. job.pc \in {"intent", "commit", "recover"}
    BY <1>4 DEF WriteIntent, WriteCommitted, WriteRecovered, WriteReceipt
  <2>2. job'.pc \in {"restore", "save", "recover"}
    BY <1>0, <1>4, <2>1 DEF WriteIntent, WriteCommitted, WriteRecovered, WriteReceipt, Jobs
  <2> QED
    BY <1>0, <2>2
<1>5. CASE SaveProjection \/ AuditAgain
  <2>1. \/ \E a \in job.todo : job' = [job EXCEPT !.todo = @ \ {a}]
        \/ \E pc \in {"restore", "commit"} : job' = [job EXCEPT !.pc = pc]
    BY <1>5 DEF SaveProjection, AuditAgain
  <2> QED
    BY <1>0, <2>1 DEF Jobs
<1>6. CASE Begin
  <2>1. CASE ActiveConflict(job.scope)
    BY <1>6, <2>1 DEF Begin
  <2>2. CASE ~ActiveConflict(job.scope)
    <3>1. PICK plan, todo, unresolved :
            job' = [job EXCEPT !.pc = "intent", !.orig = agent, !.unresolved = unresolved,
                               !.plan = plan, !.todo = todo, !.intent = FALSE]
      BY <1>6, <2>2, Zenon DEF Begin
    <3> QED
      BY <1>0, <3>1 DEF Jobs
  <2> QED
    BY <2>1, <2>2
<1>7. CASE RestoreProjections
  <2>1. CASE job.intent /\ job' = [job EXCEPT !.pc = "rollback"]
    BY <1>0, <2>1 DEF Jobs
  <2>2. CASE ~(job.intent /\ job' = [job EXCEPT !.pc = "rollback"])
    <3>1. \/ Raise /\ agent' = job.orig
          \/ job.task = None /\ End("broken")
          \/ job.task # None /\ Raise
      BY <1>7, <2>2 DEF RestoreProjections
    <3>2. job.task # None /\ Raise => result' = "broken"
      BY <1>0 DEF Raise, End, Jobs
    <3> QED
      BY <1>7, <3>1, <3>2 DEF End
  <2> QED
    BY <2>1, <2>2
<1>8. CASE WriteRolledBack
  BY <1>8 DEF WriteRolledBack
<1>9. CASE Crash
  BY <1>9 DEF Crash, End
<1>10. CASE Finish
  BY <1>10
<1> QED
  BY <1>1, <1>2, <1>3, <1>4, <1>5, <1>6, <1>7, <1>8, <1>9, <1>10, Zenon DEF Next, Step

\* A repair or a transition that returns has left its scope in order.
THEOREM SuccessIsCleanHolds == Spec => SuccessIsClean
<1>1. ASSUME LifecycleInv, [Next]_vars, Ends("ok"), ~job.disturbed PROVE Clean(job.scope)
  <2>1. Next /\ job.pc # "idle" /\ job'.pc = "idle" /\ result' = "ok"
    BY <1>1 DEF Ends, vars
  <2>2. job' = NoJob
    BY <1>1, <2>1, LifecycleStep DEF LifecycleInv, JobSound
  <2>3. Raise => result' # "ok"
    BY <2>1, <2>2 DEF Raise, End, NoJob, LifecycleInv, TypeOK, Jobs
  <2>4. Finish
    BY <1>1, <2>1, <2>2, <2>3, HowJobsEnd
  <2> QED
    BY <1>1, <2>4 DEF Finish, LifecycleInv, Audited
<1>2. LifecycleInv /\ [Next]_vars => [Ends("ok") /\ ~job.disturbed => Clean(job.scope)]_vars
  BY <1>1
<1> QED
  BY <1>2, LifecycleInvHolds, PTL DEF Spec, SuccessIsClean

\* A repair that raises has put every projection back; a transition that raises has put
\* the card back and its projections in order.
THEOREM ErrorUndoesHolds == Spec => ErrorUndoes
<1> DEFINE Back == IF job.task = None THEN job.orig # <<>> => agent' = job.orig
                   ELSE /\ card'[job.task].status = job.back
                        /\ \A S \in Scopes : S = job.scope => Clean(S)'
<1>1. ASSUME LifecycleInv, [Next]_vars, Ends("error"), ~job.disturbed PROVE Back
  <2>1. Next /\ job.pc # "idle" /\ job'.pc = "idle" /\ result' = "error" /\ job \in Jobs
    BY <1>1 DEF Ends, vars, LifecycleInv, TypeOK
  <2>2. job' = NoJob
    BY <1>1, <2>1, LifecycleStep DEF LifecycleInv, JobSound
  <2>3. CASE Finish
    <3>1. job.attempt = 2 /\ UNCHANGED <<card, agent>> /\ job.pc = "recover"
      BY <2>1, <2>3 DEF Finish, End, Jobs
    <3>2. job.task # None /\ card[job.task].status = job.back /\ Clean(job.scope)
      BY <1>1, <3>1 DEF LifecycleInv, JobSound, Undone, Audited
    <3>3. ASSUME NEW S \in Scopes, S = job.scope PROVE Clean(S)'
      BY <3>1, <3>2, <3>3, CleanStays
    <3> QED
      BY <3>1, <3>2, <3>3
  <2>4. CASE Raise
    <3>1. job.task = None
      BY <2>1, <2>2, <2>4 DEF Raise, End, NoJob, Jobs
    <3>2. CASE Begin /\ UNCHANGED agent
      <4>1. job.attempt = 1 /\ job.pc = "begin"
        BY <1>1, <2>1, <3>1, <3>2 DEF LifecycleInv, JobSound, Begin, Jobs
      <4> QED
        BY <1>1, <3>1, <4>1 DEF LifecycleInv, JobSound
    <3>3. CASE RestoreProjections /\ agent' = job.orig
      BY <3>1, <3>3
    <3>4. CASE WriteRolledBack /\ UNCHANGED agent
      BY <1>1, <3>1, <3>4 DEF LifecycleInv, Projected, WriteRolledBack
    <3>5. CASE Finish
      BY <2>3, <3>5
    <3> QED
      BY <1>1, <2>1, <2>2, <3>2, <3>3, <3>4, <3>5, HowJobsEnd
  <2> QED
    BY <1>1, <2>1, <2>2, <2>3, <2>4, HowJobsEnd
<1>2. LifecycleInv /\ [Next]_vars => [Ends("error") /\ ~job.disturbed => Back]_vars
  BY <1>1
<1> QED
  BY <1>2, LifecycleInvHolds, PTL DEF Spec, ErrorUndoes

\* An interrupted repair is called recovered only when all it was about is in order.
THEOREM RecoveredWasCleanHolds == Spec => RecoveredWasClean
<1> DEFINE New(i) == "recovered" \in receipts'[i].seen \ receipts[i].seen
<1>1. ASSUME LifecycleInv, [Next]_vars, NEW i \in 1..Len(receipts), New(i), ~job.disturbed
      PROVE  Clean(receipts[i].scope)
  <2>1. TypeOK /\ JobSound /\ Audited /\ receipts \in Seq(Receipts)
    BY <1>1 DEF LifecycleInv, TypeOK
  <2>2. ASSUME NEW k \in 1..Len(receipts), NEW phase \in {"intent", "committed", "rolled_back"},
               Log(k, phase)
        PROVE  FALSE
    <3>1. receipts'[i].seen \subseteq receipts[i].seen \cup {phase}
      BY <2>1, <2>2, Logged DEF Terminal
    <3> QED
      BY <1>1, <3>1
  <2>3. ~(UNCHANGED receipts)
    BY <1>1
  <2>4. ~Begin
    <3>1. ASSUME Begin PROVE receipts'[i] = receipts[i]
      BY <2>1, <3>1 DEF Begin, Raise
    <3> QED
      BY <1>1, <3>1
  <2>5. ~(WriteIntent \/ WriteCommitted \/ WriteRolledBack)
    <3> SUFFICES ASSUME WriteIntent \/ WriteCommitted \/ WriteRolledBack PROVE FALSE
      OBVIOUS
    <3>1. Me \in 1..Len(receipts)
      BY <2>1, MeKnown DEF JobSound, Begun, WriteIntent, WriteCommitted, WriteRolledBack, WriteReceipt
    <3>2. Log(Me, "intent") \/ Log(Me, "committed") \/ Log(Me, "rolled_back")
      BY <2>3 DEF WriteIntent, WriteCommitted, WriteRolledBack, WriteReceipt
    <3> QED
      BY <2>2, <3>1, <3>2
  <2>6. WriteRecovered
    <3>1. ~(\/ \E S \in Scopes : RepairLifecycle(S)
            \/ \E c \in Cards, col \in Moves : TransitionTask(c, col)
            \/ \E a \in Agents, c \in Cards : ClaimTask(a, c) \/ CompleteTask(a, c)
            \/ KanbanEvent \/ MoveCard \/ Unmove \/ SaveProjection \/ AuditAgain \/ Finish
            \/ RestoreProjections \/ Crash \/ UNCHANGED vars)
      BY <2>3, Zenon DEF RepairLifecycle, TransitionTask, ClaimTask, CompleteTask,
         BoardOperation, KanbanEvent, MoveCard, Unmove, Move, SaveProjection, AuditAgain, Finish,
         RestoreProjections, Crash, vars
    <3> QED
      BY <1>1, <2>4, <2>5, <3>1, Zenon DEF Next, Step
  <2>7. PICK k \in job.unresolved : job.pc = "recover" /\ Log(k, "recovered")
    BY <2>3, <2>6 DEF WriteRecovered, WriteReceipt
  <2>8. k \in 1..Len(receipts)
    BY <2>1, <2>7 DEF TypeOK
  <2>9. k = i
    <3>1. k # i => receipts'[i] = receipts[i]
      BY <2>1, <2>7, <2>8, Logged DEF Terminal
    <3> QED
      BY <1>1, <3>1
  <2>10. receipts[i].scope \subseteq job.scope /\ Clean(job.scope)
    BY <1>1, <2>1, <2>7, <2>9 DEF Audited
  <2> QED
    BY <2>10, CleanPart
<1>2. LifecycleInv /\ [Next]_vars =>
        [\A i \in 1..Len(receipts) : New(i) /\ ~job.disturbed => Clean(receipts[i].scope)]_vars
  BY <1>1
<1> QED
  BY <1>2, LifecycleInvHolds, PTL DEF Spec, RecoveredWasClean

\* The steps that write projections.
LEMMA WhoWrites ==
  ASSUME Next, agent' # agent
  PROVE  \/ \E a \in Agents, c \in Cards : ClaimTask(a, c) \/ CompleteTask(a, c)
         \/ SaveProjection \/ RestoreProjections
BY Zenon DEF Next, Step, RepairLifecycle, TransitionTask, KanbanEvent, MoveCard, Unmove, Move,
   Begin, WriteIntent, WriteCommitted, WriteRecovered, WriteReceipt, AuditAgain, Finish,
   WriteRolledBack, Crash

\* No step takes from an agent what it has completed, or off a card it is working on.
THEOREM WorkKeptHolds == Spec => WorkKept
<1>1. ASSUME LifecycleInv, [Next]_vars, NEW a \in Agents, NEW c \in Cards, ~Exists(c),
             c \in agent[a].completed
      PROVE  c \in agent'[a].completed
  <2>1. CASE agent' = agent
    BY <1>1, <2>1
  <2>2. CASE agent' # agent
    <3>0. /\ TypeOK /\ JobSound /\ Projected /\ HistoryPlanned /\ agent \in [Agents -> Projections]
          /\ Next
      BY <1>1, <2>2 DEF LifecycleInv, TypeOK, vars
    <3>1. CASE SaveProjection \/ RestoreProjections
      <4>1. job.pc \in {"save", "restore"}
        BY <3>1 DEF SaveProjection, RestoreProjections
      <4>2. /\ job.plan \in [Agents -> Projections] /\ job.orig \in [Agents -> Projections]
            /\ job.todo \subseteq Agents
        BY <3>0, <4>1 DEF JobSound, Begun, TypeOK, Jobs
      <4>3. agent'[a] \in {agent[a], job.plan[a], job.orig[a]}
        BY <3>0, <3>1, <4>2 DEF SaveProjection, RestoreProjections
      <4>4. c \in job.plan[a].completed /\ c \in job.orig[a].completed
        BY <1>1, <3>0, <4>1 DEF Projected, HistoryPlanned, Begun
      <4> QED
        BY <1>1, <4>3, <4>4
    <3>2. CASE \E b \in Agents, d \in Cards : ClaimTask(b, d)
      <4>1. PICK b \in Agents, d \in Cards :
              agent' = [agent EXCEPT ![b].current = d, ![b].claimed = @ \cup {d}]
        BY <3>2, Zenon DEF ClaimTask
      <4>2. PICK x : x = agent[b]
        OBVIOUS
      <4>3. x \in Projections
        BY <3>0, <4>2
      <4>4. PICK y : y = [[x EXCEPT !.current = d] EXCEPT !.claimed = @ \cup {d}]
        OBVIOUS
      <4>5. y.completed = x.completed
        BY <4>3, <4>4 DEF Projections
      <4>6. agent' = [agent EXCEPT ![b] = y]
        BY <3>0, <4>1, <4>2, <4>4
      <4> QED
        BY <1>1, <3>0, <4>2, <4>5, <4>6
    <3>3. CASE \E b \in Agents, d \in Cards : CompleteTask(b, d)
      <4>1. PICK b \in Agents, d \in Cards : CompleteTask(b, d)
        BY <3>3
      <4>2. PICK next, rest :
              agent' = [agent EXCEPT ![b] = [current |-> next, claimed |-> rest,
                                             completed |-> @.completed \cup {d}]]
        BY <4>1, Zenon DEF CompleteTask
      <4> QED
        BY <1>1, <3>0, <4>2
    <3> QED
      BY <2>2, <3>0, <3>1, <3>2, <3>3, WhoWrites
  <2> QED
    BY <2>1, <2>2
<1>2. ASSUME LifecycleInv, [Next]_vars, job.pc = "save", ~job.disturbed,
             NEW a \in active, NEW t \in Cards, Claims(a, t), t \notin agent'[a].claimed
      PROVE  card[t].status \in {"backlog", "done"}
  <2>1. agent' # agent /\ Next
    BY <1>2 DEF Claims, vars
  <2>2. SaveProjection
    BY <1>2, <2>1, WhoWrites DEF ClaimTask, CompleteTask, BoardOperation, RestoreProjections
  <2>3. /\ TypeOK /\ Projected /\ PlanFits /\ a \in Agents /\ agent \in [Agents -> Projections]
        /\ job.todo \subseteq Agents
    BY <1>2 DEF LifecycleInv, TypeOK, Jobs
  <2>4. PICK b \in job.todo : agent' = [agent EXCEPT ![b] = job.plan[b]]
    BY <2>1, <2>2 DEF SaveProjection
  <2>5. a = b
    BY <1>2, <2>3, <2>4 DEF Claims
  <2>6. agent'[a] = job.plan[a] /\ agent[a] = job.orig[a]
    BY <1>2, <2>3, <2>4, <2>5 DEF Projected
  <2> QED
    BY <1>2, <2>3, <2>6 DEF PlanFits, Claims
<1>3. LifecycleInv /\ [Next]_vars =>
        [\A a \in Agents, c \in Cards :
           ~Exists(c) /\ c \in agent[a].completed => c \in agent'[a].completed]_vars
  BY <1>1
<1>4. LifecycleInv /\ [Next]_vars =>
        [job.pc = "save" /\ ~job.disturbed =>
           \A a \in active, t \in Cards :
             Claims(a, t) /\ t \notin agent'[a].claimed => card[t].status \in {"backlog", "done"}]_vars
  BY <1>2
<1>5. Spec => HistoryKept
  BY <1>3, LifecycleInvHolds, PTL DEF Spec, HistoryKept
<1>6. Spec => ActiveWorkKept
  BY <1>4, LifecycleInvHolds, PTL DEF Spec, ActiveWorkKept
<1> QED
  BY <1>5, <1>6 DEF WorkKept
=============================================================================
