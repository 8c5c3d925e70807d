----------------------------- MODULE ItilProofs -----------------------------
(***************************************************************************)
(* Proofs about module Itil: what the folds of itil.py keep of every log,  *)
(* in whatever order its events arrived, and that the tasks of a record    *)
(* follow it.                                                              *)
(***************************************************************************)
EXTENDS Itil, SequenceTheorems, FiniteSetTheorems, WellFoundedInduction, TLAPS

-----------------------------------------------------------------------------
(* Induction over the natural numbers, from the library's well-founded order *)

LEMMA LeastNumber ==
  ASSUME NEW T \in SUBSET Nat, T # {}
  PROVE  \E n \in T : \A m \in T : n <= m
<1> DEFINE Less == OpToRel(<, Nat)
<1>1. Less = {ss \in Nat \X Nat : ss[1] < ss[2]}
  BY DEF OpToRel
<1>2. IsWellFoundedOn(Less, Nat)
  BY NatLessThanWellFounded
<1> HIDE DEF Less
<1>3. PICK n \in T : \A m \in T : ~ (<<m, n>> \in Less)
  BY <1>2, WFMin, Zenon
<1>4. \A m \in T : m \in Nat /\ n \in Nat /\ ~(m < n)
  BY <1>1, <1>3
<1>5. \A m \in T : n <= m
  BY <1>4
<1> QED BY <1>5

LEMMA Induction ==
  ASSUME NEW S, 0 \in S, \A n \in Nat : n \in S => n + 1 \in S
  PROVE  Nat \subseteq S
<1> SUFFICES ASSUME ~(Nat \subseteq S) PROVE FALSE
  OBVIOUS
<1> DEFINE T == Nat \ S
<1>1. T \in SUBSET Nat /\ T # {}
  OBVIOUS
<1> HIDE DEF T
<1>2. PICK n \in T : \A m \in T : n <= m
  BY <1>1, LeastNumber
<1>3. n \in Nat /\ n \notin S
  BY <1>2 DEF T
<1>4. n # 0 /\ n - 1 \in Nat
  BY <1>3
<1>5. n - 1 \notin T
  BY <1>2, <1>3, <1>4
<1>6. n - 1 \in S /\ (n - 1) + 1 = n
  BY <1>3, <1>4, <1>5 DEF T
<1> QED BY <1>3, <1>4, <1>6

-----------------------------------------------------------------------------
(* The replay of a log *)

\* One event of the replay.
Next1(core, vs, events, F, n) ==
  IF n = 0 THEN NewRecord(core) ELSE Step(core, vs, F[n - 1], events[n])

\* The replay of every prefix exists.
LEMMA ReplayExists ==
  ASSUME NEW core, NEW vs, NEW events
  PROVE  \A k \in Nat : \E F : F = [n \in 0..k |-> Next1(core, vs, events, F, n)]
<1> DEFINE S == {k \in Nat : \E F : F = [n \in 0..k |-> Next1(core, vs, events, F, n)]}
<1>1. 0 \in S
  <2> DEFINE F == [n \in 0..0 |-> NewRecord(core)]
  <2>1. \A n \in 0..0 : Next1(core, vs, events, F, n) = NewRecord(core)
    BY DEF Next1
  <2>2. F = [n \in 0..0 |-> Next1(core, vs, events, F, n)]
    BY <2>1
  <2> QED BY <2>2
<1>2. ASSUME NEW k \in Nat, k \in S PROVE k + 1 \in S
  <2>1. PICK F : F = [n \in 0..k |-> Next1(core, vs, events, F, n)]
    BY <1>2
  <2> DEFINE G == [n \in 0..(k + 1) |-> IF n <= k THEN F[n] ELSE Next1(core, vs, events, F, k + 1)]
  <2>2. \A n \in 0..k : G[n] = F[n] /\ F[n] = Next1(core, vs, events, F, n)
    BY <2>1
  <2>3. \A n \in 0..(k + 1) : Next1(core, vs, events, G, n) = Next1(core, vs, events, F, n)
    <3> SUFFICES ASSUME NEW n \in 0..(k + 1), n # 0 PROVE G[n - 1] = F[n - 1]
      BY DEF Next1
    <3>1. n - 1 \in 0..k
      OBVIOUS
    <3> QED BY <2>2, <3>1
  <2>4. \A n \in 0..(k + 1) : G[n] = Next1(core, vs, events, G, n)
    <3> SUFFICES ASSUME NEW n \in 0..(k + 1) PROVE G[n] = Next1(core, vs, events, F, n)
      BY <2>3
    <3>1. CASE n \in 0..k
      BY <2>2, <3>1
    <3>2. CASE n = k + 1
      BY <3>2
    <3> QED BY <3>1, <3>2
  <2>5. G = [n \in 0..(k + 1) |-> Next1(core, vs, events, G, n)]
    <3>1. \A n \in 0..(k + 1) : G[n] = [i \in 0..(k + 1) |-> Next1(core, vs, events, G, i)][n]
      BY <2>4
    <3>2. DOMAIN G = 0..(k + 1)
      OBVIOUS
    <3> QED BY <3>1, <3>2, Zenon
  <2> HIDE DEF G
  <2> QED BY <2>5
<1> HIDE DEF S
<1>3. Nat \subseteq S
  BY <1>1, <1>2, Induction
<1> QED BY <1>3 DEF S

\* F holds the record after each event of the log.
IsReplay(core, vs, events, F) ==
  /\ F[0] = NewRecord(core)
  /\ \A n \in 1..Len(events) : F[n] = Step(core, vs, F[n - 1], events[n])
  /\ Replayed(core, vs, events) = F[Len(events)]

LEMMA ReplayRuns ==
  ASSUME NEW core, NEW vs, NEW events, Len(events) \in Nat
  PROVE  \E F : IsReplay(core, vs, events, F)
<1> DEFINE L == CHOOSE F : F = [n \in 0..Len(events) |-> Next1(core, vs, events, F, n)]
<1>1. L = [n \in 0..Len(events) |-> Next1(core, vs, events, L, n)]
  BY ReplayExists
<1>2. Replayed(core, vs, events) = L[Len(events)]
  BY DEF Replayed, Next1
<1> HIDE DEF L
<1>3. \A n \in 0..Len(events) : L[n] = Next1(core, vs, events, L, n)
  BY <1>1
<1>4. L[0] = NewRecord(core) /\ \A n \in 1..Len(events) : L[n] = Step(core, vs, L[n - 1], events[n])
  BY <1>3 DEF Next1
<1> QED BY <1>2, <1>4 DEF IsReplay

\* What holds of the new record and is carried on by every event of the log holds of the
\* replayed record.  G[n] is what is to hold after n events.
LEMMA ReplayIn ==
  ASSUME NEW core, NEW vs, NEW events, Len(events) \in Nat, NEW G,
         NewRecord(core) \in G[0],
         \A n \in 1..Len(events) : \A s \in G[n - 1] : Step(core, vs, s, events[n]) \in G[n]
  PROVE  Replayed(core, vs, events) \in G[Len(events)]
<1>1. PICK F : IsReplay(core, vs, events, F)
  BY ReplayRuns
<1> DEFINE T == {n \in Nat : n <= Len(events) => F[n] \in G[n]}
<1>2. 0 \in T
  BY <1>1 DEF IsReplay
<1>3. ASSUME NEW n \in Nat, n \in T PROVE n + 1 \in T
  <2> SUFFICES ASSUME n + 1 <= Len(events) PROVE F[n + 1] \in G[n + 1]
    OBVIOUS
  <2>1. n + 1 \in 1..Len(events) /\ (n + 1) - 1 = n /\ F[n] \in G[n]
    BY <1>3
  <2> QED BY <1>1, <2>1 DEF IsReplay
<1> HIDE DEF T
<1>4. Nat \subseteq T
  BY <1>2, <1>3, Induction
<1> QED BY <1>1, <1>4 DEF IsReplay, T

\* An event that is appended is replayed last.
LEMMA ReplayAppend ==
  ASSUME NEW core, NEW vs, NEW S, NEW events, events \in Seq(S), NEW e, e \in S
  PROVE  Replayed(core, vs, Append(events, e)) = Step(core, vs, Replayed(core, vs, events), e)
<1> DEFINE more == Append(events, e)
<1>1. /\ Len(events) \in Nat /\ Len(more) \in Nat /\ Len(more) = Len(events) + 1
      /\ more[Len(events) + 1] = e /\ \A i \in 1..Len(events) : more[i] = events[i]
  BY LenProperties, AppendProperties
<1> HIDE DEF more
<1>2. PICK F : IsReplay(core, vs, events, F)
  BY <1>1, ReplayRuns
<1>3. PICK H : IsReplay(core, vs, more, H)
  BY <1>1, ReplayRuns
<1> DEFINE L == Len(events)
           T == {n \in Nat : n <= L => F[n] = H[n]}
<1>4. 0 \in T
  BY <1>2, <1>3 DEF IsReplay
<1>5. ASSUME NEW n \in Nat, n \in T PROVE n + 1 \in T
  <2> SUFFICES ASSUME n + 1 <= L PROVE F[n + 1] = H[n + 1]
    OBVIOUS
  <2>1. n + 1 \in 1..L /\ n + 1 \in 1..Len(more) /\ (n + 1) - 1 = n /\ F[n] = H[n]
    BY <1>1, <1>5
  <2>2. F[n + 1] = Step(core, vs, F[n], events[n + 1])
    BY <1>2, <2>1 DEF IsReplay
  <2>3. H[n + 1] = Step(core, vs, H[n], more[n + 1])
    BY <1>3, <2>1 DEF IsReplay
  <2> QED BY <1>1, <2>1, <2>2, <2>3
<1> HIDE DEF T
<1>6. F[L] = H[L]
  <2>1. Nat \subseteq T
    BY <1>4, <1>5, Induction
  <2> QED BY <1>1, <2>1 DEF T
<1>7. L + 1 \in 1..Len(more) /\ (L + 1) - 1 = L
  BY <1>1
<1>8. H[L + 1] = Step(core, vs, H[L], e)
  BY <1>1, <1>3, <1>7 DEF IsReplay
<1> QED BY <1>2, <1>3, <1>6, <1>8 DEF IsReplay, more

-----------------------------------------------------------------------------
(* One event *)

IncidentStates == [status : DOMAIN IncidentTransitions, severity : DOMAIN SevRank,
                   resolvedAt : BOOLEAN, items : SUBSET Items]

ProblemStates == [status : DOMAIN ProblemTransitions, cause : BOOLEAN, kedb : BOOLEAN,
                  items : SUBSET Items]

ChangeStates == [status : DOMAIN ChangeTransitions, auto : BOOLEAN, drafter : Agents \cup {None},
                 window : BOOLEAN, items : SUBSET Items]

\* The events a record of kind k gets.
FitsRecord(k, e) ==
  /\ e.kind \in CASE k = "incident" -> {"status", "reopen", "severity", "gtd_link"}
                  [] k = "problem"  -> {"status", "root_cause", "link_kedb", "gtd_link"}
                  [] k = "change"   -> {"status", "tags", "gtd_link", "pr_link", "validation",
                                        "schedule", "unschedule", "window_missed"}
  /\ e.kind = "severity" => e.arg \in DOMAIN SevRank
  /\ e.kind = "gtd_link" => e.arg \in Items
  /\ e.kind = "pr_link" => e.arg \in Agents

LinkedBy(e) == IF e.kind = "gtd_link" THEN {e.arg} ELSE {}

\* The time of resolution is set exactly when the incident is settled.
Timed(s) == (s.status \in OpenIncident) = ~s.resolvedAt

LEMMA RankNat == \A s \in DOMAIN SevRank : SevRank[s] \in Nat
BY DEF SevRank

LEMMA IncidentEvent ==
  ASSUME NEW s \in IncidentStates, Timed(s), NEW e, FitsRecord("incident", e)
  PROVE  /\ IncidentStep(s, e) \in IncidentStates
         /\ Timed(IncidentStep(s, e))
         /\ IncidentStep(s, e).items = s.items \cup LinkedBy(e)
         /\ IncidentStep(s, e).severity = IF e.kind = "severity" THEN MaxSeverity(s.severity, e.arg)
                                          ELSE s.severity
<1> DEFINE t == IncidentStep(s, e)
<1>1. CASE e.kind = "status" /\ e.arg \in IncidentTransitions[s.status]
  <2>1. t = [s EXCEPT !.status = e.arg, !.resolvedAt = @ \/ e.arg = "resolved"]
    BY <1>1 DEF IncidentStep
  <2>2. /\ e.arg \in DOMAIN IncidentTransitions
        /\ e.arg \in OpenIncident => s.status \in OpenIncident
        /\ e.arg \notin OpenIncident => e.arg = "resolved" \/ s.status \notin OpenIncident
        /\ e.arg = "resolved" => e.arg \notin OpenIncident
    BY <1>1 DEF IncidentStates, IncidentTransitions, OpenIncident
  <2>3. /\ t \in IncidentStates /\ t.status = e.arg /\ t.items = s.items
        /\ t.severity = s.severity
    BY <2>1, <2>2 DEF IncidentStates
  <2>4. t.resolvedAt = (s.resolvedAt \/ e.arg = "resolved")
    BY <2>1 DEF IncidentStates
  <2> HIDE DEF t
  <2>5. Timed(t)
    BY <2>2, <2>3, <2>4 DEF Timed, IncidentStates
  <2>6. LinkedBy(e) = {}
    BY <1>1 DEF LinkedBy
  <2> QED BY <1>1, <2>3, <2>5, <2>6 DEF t
<1>2. CASE e.kind = "status" /\ e.arg \notin IncidentTransitions[s.status]
  BY <1>2 DEF IncidentStep, LinkedBy, IncidentStates
<1>3. CASE e.kind = "reopen"
  <2>1. t = Reopened(s)
    BY <1>3 DEF IncidentStep
  <2> QED BY <1>3, <2>1 DEF Reopened, IncidentStates, IncidentTransitions, OpenIncident, Timed, LinkedBy
<1>4. CASE e.kind = "severity"
  <2>1. t = [s EXCEPT !.severity = MaxSeverity(s.severity, e.arg)]
    BY <1>4 DEF IncidentStep
  <2>2. e.arg \in DOMAIN SevRank
    BY <1>4 DEF FitsRecord
  <2> QED BY <1>4, <2>1, <2>2 DEF MaxSeverity, IncidentStates, Timed, LinkedBy
<1>5. CASE e.kind = "gtd_link"
  <2>1. t = [s EXCEPT !.items = @ \cup {e.arg}] /\ e.arg \in Items
    BY <1>5 DEF IncidentStep, FitsRecord
  <2> QED BY <1>5, <2>1 DEF IncidentStates, Timed, LinkedBy
<1>6. e.kind \in {"status", "reopen", "severity", "gtd_link"}
  BY DEF FitsRecord
<1> QED BY <1>1, <1>2, <1>3, <1>4, <1>5, <1>6

LEMMA ProblemEvent ==
  ASSUME NEW s \in ProblemStates, NEW e, FitsRecord("problem", e)
  PROVE  /\ ProblemStep(s, e) \in ProblemStates
         /\ ProblemStep(s, e).items = s.items \cup LinkedBy(e)
<1> DEFINE t == ProblemStep(s, e)
<1>1. CASE e.kind = "status"
  <2>1. t = IF e.arg \in ProblemTransitions[s.status] THEN [s EXCEPT !.status = e.arg] ELSE s
    BY <1>1 DEF ProblemStep
  <2>2. e.arg \in ProblemTransitions[s.status] => e.arg \in DOMAIN ProblemTransitions
    BY DEF ProblemStates, ProblemTransitions
  <2> QED BY <1>1, <2>1, <2>2 DEF ProblemStates, LinkedBy
<1>2. CASE e.kind = "gtd_link"
  BY <1>2 DEF ProblemStep, FitsRecord, ProblemStates, LinkedBy
<1>3. CASE e.kind \in {"root_cause", "link_kedb"}
  BY <1>3 DEF ProblemStep, ProblemStates, LinkedBy
<1>4. e.kind \in {"status", "root_cause", "link_kedb", "gtd_link"}
  BY DEF FitsRecord
<1> QED BY <1>1, <1>2, <1>3, <1>4

\* What a change that is past the board rests on.
Founded(core, vs, s) ==
  ~Rejected(vs) /\ (HumanApproved(vs, None) \/ (core.type = "normal" /\ core.eligible /\ s.auto))

Past == {"approved", "scheduled", "implementing", "deployed", "verified", "failed"}

\* A change that has left review is founded.
Gated(core, vs, s) == core.type # "standard" /\ s.status \in Past => Founded(core, vs, s)

\* The gate opens only where the change is founded.
LEMMA GateFounded ==
  ASSUME NEW core, NEW vs, DOMAIN vs \subseteq Agents, NEW s \in ChangeStates, Gated(core, vs, s)
  PROVE  /\ CabResolved(core, vs, s) \in DOMAIN ChangeTransitions
         /\ core.type # "standard" /\ CabResolved(core, vs, s) \in Past => Founded(core, vs, s)
<1>1. s.status \in DOMAIN ChangeTransitions
  BY DEF ChangeStates
<1>2. HumanApproved(vs, s.drafter) => HumanApproved(vs, None)
  BY ItilAssumption DEF HumanApproved
<1>3. CASE s.status \notin {"proposed", "reviewing"}
  BY <1>1, <1>3 DEF CabResolved, Gated
<1>4. CASE s.status \in {"proposed", "reviewing"}
  <2>1. CASE core.type = "standard" \/ AutoNormal(core, vs, s)
    BY <1>4, <2>1 DEF CabResolved, AutoNormal, Founded, ChangeTransitions
  <2>2. CASE ~(core.type = "standard" \/ AutoNormal(core, vs, s))
    BY <1>1, <1>2, <1>4, <2>2 DEF CabResolved, Founded, ChangeTransitions, Past
  <2> QED BY <2>1, <2>2
<1> QED BY <1>3, <1>4

\* A status event takes no change out of review.
LEMMA AcceptedPast ==
  ASSUME NEW g \in DOMAIN ChangeTransitions, NEW e, Accepts(g, e)
  PROVE  /\ e.arg \in DOMAIN ChangeTransitions
         /\ e.arg \in Past => g \in Past
BY DEF Accepts, ChangeTransitions, Past

LEMMA ChangeEvent ==
  ASSUME NEW core, NEW vs, DOMAIN vs \subseteq Agents, NEW s \in ChangeStates, Gated(core, vs, s),
         NEW e, FitsRecord("change", e)
  PROVE  /\ ChangeStep(core, vs, s, e) \in ChangeStates
         /\ Gated(core, vs, ChangeStep(core, vs, s, e))
         /\ ChangeStep(core, vs, s, e).items = s.items \cup LinkedBy(e)
<1> DEFINE t == ChangeStep(core, vs, s, e)
           g == CabResolved(core, vs, s)
<1>1. g \in DOMAIN ChangeTransitions /\ (core.type # "standard" /\ g \in Past => Founded(core, vs, s))
  BY GateFounded
<1> HIDE DEF g
<1>2. CASE e.kind = "status"
  <2>1. t = IF Accepts(g, e) THEN [s EXCEPT !.status = e.arg] ELSE s
    BY <1>2 DEF ChangeStep, g
  <2>2. LinkedBy(e) = {}
    BY <1>2 DEF LinkedBy
  <2>3. CASE Accepts(g, e)
    BY <1>1, <2>1, <2>2, <2>3, AcceptedPast DEF ChangeStates, Gated, Founded
  <2>4. CASE ~Accepts(g, e)
    BY <2>1, <2>2, <2>4 DEF ChangeStates
  <2> QED BY <2>3, <2>4
<1>3. CASE e.kind = "tags"
  BY <1>3 DEF ChangeStep, ChangeStates, Gated, Founded, LinkedBy
<1>4. CASE e.kind = "gtd_link"
  BY <1>4 DEF ChangeStep, ChangeStates, Gated, Founded, LinkedBy, FitsRecord
<1>5. CASE e.kind = "pr_link"
  BY <1>5 DEF ChangeStep, ChangeStates, Gated, Founded, LinkedBy, FitsRecord
<1>6. CASE e.kind = "validation"
  BY <1>6 DEF ChangeStep, Validated, ChangeStates, Gated, Founded, LinkedBy, ChangeTransitions, Past
<1>7. CASE e.kind = "schedule"
  <2>1. t = Scheduled(s, g)
    BY <1>7 DEF ChangeStep, g
  <2> QED BY <1>1, <1>7, <2>1
        DEF Scheduled, ChangeStates, Gated, Founded, LinkedBy, ChangeTransitions, Past
<1>8. CASE e.kind \in {"unschedule", "window_missed"}
  <2>1. t = Unscheduled(s)
    BY <1>8 DEF ChangeStep
  <2> QED BY <1>8, <2>1 DEF Unscheduled, ChangeStates, Gated, Founded, LinkedBy, ChangeTransitions, Past
<1>9. e.kind \in {"status", "tags", "gtd_link", "pr_link", "validation", "schedule", "unschedule",
                 "window_missed"}
  BY DEF FitsRecord
<1> QED BY <1>2, <1>3, <1>4, <1>5, <1>6, <1>7, <1>8, <1>9

-----------------------------------------------------------------------------
(* The replayed record *)

LogFits(k, events) == Len(events) \in Nat /\ \A n \in 1..Len(events) : FitsRecord(k, events[n])

\* The tasks that the first n events link.
Linked(events, n) == {events[i].arg : i \in {j \in 1..n : events[j].kind = "gtd_link"}}

\* The severities that the birth and the first n events give.
Given(core, events, n) ==
  {core.severity} \cup {events[i].arg : i \in {j \in 1..n : events[j].kind = "severity"}}

WorstOf(S, v) == v \in S /\ \A u \in S : SevRank[u] <= SevRank[v]

LEMMA LinkedNext ==
  ASSUME NEW events, NEW n \in Nat, n # 0
  PROVE  Linked(events, n) = Linked(events, n - 1) \cup LinkedBy(events[n])
<1>1. 1..n = (1..(n - 1)) \cup {n}
  OBVIOUS
<1> QED BY <1>1 DEF Linked, LinkedBy

LEMMA GivenNext ==
  ASSUME NEW core, NEW events, NEW n \in Nat, n # 0
  PROVE  Given(core, events, n) =
           Given(core, events, n - 1) \cup IF events[n].kind = "severity" THEN {events[n].arg} ELSE {}
<1>1. 1..n = (1..(n - 1)) \cup {n}
  OBVIOUS
<1> QED BY <1>1 DEF Given

LEMMA IncidentReplay ==
  ASSUME NEW core, core.kind = "incident", core.severity \in DOMAIN SevRank, NEW vs, NEW events,
         LogFits("incident", events)
  PROVE  LET r == Replayed(core, vs, events) IN
         /\ r \in IncidentStates /\ Timed(r)
         /\ r.items = Linked(events, Len(events))
         /\ WorstOf(Given(core, events, Len(events)), r.severity)
<1> DEFINE Here(n) == {s \in IncidentStates : /\ Timed(s) /\ s.items = Linked(events, n)
                                              /\ WorstOf(Given(core, events, n), s.severity)}
           G == [n \in 0..Len(events) |-> Here(n)]
<1>1. Len(events) \in Nat
  BY DEF LogFits
<1>2. NewRecord(core) \in Here(0)
  <2>1. NewRecord(core) = NewIncident(core.severity)
    BY DEF NewRecord
  <2>2. Linked(events, 0) = {} /\ Given(core, events, 0) = {core.severity}
    BY DEF Linked, Given
  <2>3. SevRank[core.severity] <= SevRank[core.severity]
    BY RankNat
  <2> QED BY <2>1, <2>2, <2>3
        DEF NewIncident, IncidentStates, Timed, OpenIncident, IncidentTransitions, WorstOf
<1>3. ASSUME NEW n \in 1..Len(events), NEW s \in Here(n - 1)
      PROVE  Step(core, vs, s, events[n]) \in Here(n)
  <2> DEFINE e == events[n]
             t == IncidentStep(s, e)
  <2>1. n \in Nat /\ n # 0 /\ Step(core, vs, s, e) = t /\ FitsRecord("incident", e)
    BY <1>1 DEF Step, LogFits
  <2>2. s \in IncidentStates /\ Timed(s) /\ s.items = Linked(events, n - 1)
        /\ WorstOf(Given(core, events, n - 1), s.severity)
    BY <1>3
  <2> HIDE DEF e
  <2>3. /\ t \in IncidentStates /\ Timed(t) /\ t.items = s.items \cup LinkedBy(e)
        /\ t.severity = IF e.kind = "severity" THEN MaxSeverity(s.severity, e.arg) ELSE s.severity
    BY <2>1, <2>2, IncidentEvent
  <2>4. t.items = Linked(events, n)
    BY <2>1, <2>2, <2>3, LinkedNext DEF e
  <2>5. WorstOf(Given(core, events, n), t.severity)
    <3>1. Given(core, events, n) =
            Given(core, events, n - 1) \cup IF e.kind = "severity" THEN {e.arg} ELSE {}
      BY <2>1, GivenNext DEF e
    <3>2. CASE e.kind = "severity"
      <4>1. e.arg \in DOMAIN SevRank /\ s.severity \in DOMAIN SevRank
        BY <2>1, <2>2, <3>2 DEF FitsRecord, IncidentStates
      <4>2. SevRank[e.arg] \in Nat /\ SevRank[s.severity] \in Nat
        BY <4>1, RankNat
      <4>3. \A u \in Given(core, events, n - 1) : SevRank[u] \in Nat
        <5>1. \A i \in 1..(n - 1) : i \in 1..Len(events)
          BY <1>1
        <5>2. Given(core, events, n - 1) \subseteq DOMAIN SevRank
          BY <5>1 DEF Given, LogFits, FitsRecord
        <5> QED BY <5>2, RankNat
      <4>4. t.severity = MaxSeverity(s.severity, e.arg)
        BY <2>3, <3>2
      <4>5. Given(core, events, n) = Given(core, events, n - 1) \cup {e.arg}
        BY <3>1, <3>2
      <4> QED BY <2>2, <4>2, <4>3, <4>4, <4>5 DEF WorstOf, MaxSeverity
    <3>3. CASE e.kind # "severity"
      BY <2>2, <2>3, <3>1, <3>3
    <3> QED BY <3>2, <3>3
  <2> QED BY <2>1, <2>3, <2>4, <2>5 DEF e
<1> HIDE DEF Here
<1>4. /\ NewRecord(core) \in G[0]
      /\ \A n \in 1..Len(events) : \A s \in G[n - 1] : Step(core, vs, s, events[n]) \in G[n]
      /\ G[Len(events)] = Here(Len(events))
  BY <1>1, <1>2, <1>3
<1> HIDE DEF G
<1>5. Replayed(core, vs, events) \in Here(Len(events))
  BY <1>1, <1>4, ReplayIn
<1> QED BY <1>5 DEF Here

LEMMA ProblemReplay ==
  ASSUME NEW core, core.kind = "problem", NEW vs, NEW events, LogFits("problem", events)
  PROVE  LET r == Replayed(core, vs, events) IN
         r \in ProblemStates /\ r.items = Linked(events, Len(events))
<1> DEFINE Here(n) == {s \in ProblemStates : s.items = Linked(events, n)}
           G == [n \in 0..Len(events) |-> Here(n)]
<1>1. Len(events) \in Nat
  BY DEF LogFits
<1>2. NewRecord(core) \in Here(0)
  <2>1. NewRecord(core) = NewProblem /\ Linked(events, 0) = {}
    BY DEF NewRecord, Linked
  <2> QED BY <2>1 DEF NewProblem, ProblemStates, ProblemTransitions
<1>3. ASSUME NEW n \in 1..Len(events), NEW s \in Here(n - 1)
      PROVE  Step(core, vs, s, events[n]) \in Here(n)
  <2>1. /\ n \in Nat /\ n # 0 /\ Step(core, vs, s, events[n]) = ProblemStep(s, events[n])
        /\ FitsRecord("problem", events[n])
    BY <1>1 DEF Step, LogFits
  <2>2. s \in ProblemStates /\ s.items = Linked(events, n - 1)
    BY <1>3
  <2> DEFINE t == ProblemStep(s, events[n])
  <2>3. t \in ProblemStates /\ t.items = s.items \cup LinkedBy(events[n])
    BY <2>1, <2>2, ProblemEvent
  <2>4. Linked(events, n) = Linked(events, n - 1) \cup LinkedBy(events[n])
    BY <2>1, LinkedNext
  <2> HIDE DEF t
  <2>5. t \in Here(n)
    BY <2>2, <2>3, <2>4
  <2> QED BY <2>1, <2>5 DEF t
<1> HIDE DEF Here
<1>4. /\ NewRecord(core) \in G[0]
      /\ \A n \in 1..Len(events) : \A s \in G[n - 1] : Step(core, vs, s, events[n]) \in G[n]
      /\ G[Len(events)] = Here(Len(events))
  BY <1>1, <1>2, <1>3
<1> HIDE DEF G
<1>5. Replayed(core, vs, events) \in Here(Len(events))
  BY <1>1, <1>4, ReplayIn
<1> QED BY <1>5 DEF Here

LEMMA ChangeReplay ==
  ASSUME NEW core, core.kind = "change", NEW vs, DOMAIN vs \subseteq Agents, NEW events,
         LogFits("change", events)
  PROVE  LET r == Replayed(core, vs, events) IN
         r \in ChangeStates /\ Gated(core, vs, r) /\ r.items = Linked(events, Len(events))
<1> DEFINE Here(n) == {s \in ChangeStates : Gated(core, vs, s) /\ s.items = Linked(events, n)}
           G == [n \in 0..Len(events) |-> Here(n)]
<1>1. Len(events) \in Nat
  BY DEF LogFits
<1>2. NewRecord(core) \in Here(0)
  <2>1. NewRecord(core) = NewChange /\ Linked(events, 0) = {}
    BY DEF NewRecord, Linked
  <2> QED BY <2>1 DEF NewChange, ChangeStates, ChangeTransitions, Gated, Past
<1>3. ASSUME NEW n \in 1..Len(events), NEW s \in Here(n - 1)
      PROVE  Step(core, vs, s, events[n]) \in Here(n)
  <2>1. /\ n \in Nat /\ n # 0 /\ Step(core, vs, s, events[n]) = ChangeStep(core, vs, s, events[n])
        /\ FitsRecord("change", events[n])
    BY <1>1 DEF Step, LogFits
  <2>2. s \in ChangeStates /\ Gated(core, vs, s) /\ s.items = Linked(events, n - 1)
    BY <1>3
  <2> DEFINE t == ChangeStep(core, vs, s, events[n])
  <2>3. t \in ChangeStates /\ Gated(core, vs, t) /\ t.items = s.items \cup LinkedBy(events[n])
    BY <2>1, <2>2, ChangeEvent
  <2>4. Linked(events, n) = Linked(events, n - 1) \cup LinkedBy(events[n])
    BY <2>1, LinkedNext
  <2> HIDE DEF t
  <2>5. t \in Here(n)
    BY <2>2, <2>3, <2>4
  <2> QED BY <2>1, <2>5 DEF t
<1> HIDE DEF Here
<1>4. /\ NewRecord(core) \in G[0]
      /\ \A n \in 1..Len(events) : \A s \in G[n - 1] : Step(core, vs, s, events[n]) \in G[n]
      /\ G[Len(events)] = Here(Len(events))
  BY <1>1, <1>2, <1>3
<1> HIDE DEF G
<1>5. Replayed(core, vs, events) \in Here(Len(events))
  BY <1>1, <1>4, ReplayIn
<1> QED BY <1>5 DEF Here

-----------------------------------------------------------------------------
(* What a replica shows *)

LEMMA FoldShape ==
  ASSUME TypeOK, NEW events, LogFits(rec.kind, events)
  PROVE  /\ FoldOf(events).items = Linked(events, Len(events))
         /\ rec.kind = "incident" =>
              /\ FoldOf(events) \in IncidentStates /\ Timed(FoldOf(events))
              /\ WorstOf(Given(rec, events, Len(events)), FoldOf(events).severity)
         /\ rec.kind = "problem" => FoldOf(events) \in ProblemStates
         /\ rec.kind = "change" /\ rec.type # "standard" /\ FoldOf(events).status \in Past =>
              Founded(rec, votes, FoldOf(events))
<1> DEFINE r == Replayed(rec, votes, events)
<1>1. rec \in Births /\ DOMAIN votes = Agents
  BY DEF TypeOK
<1>2. rec.kind \in {"incident", "problem", "change"}
  BY <1>1 DEF Births
<1>3. CASE rec.kind = "incident"
  <2>1. rec.severity \in DOMAIN SevRank
    BY <1>1, <1>3, ItilAssumption DEF Births
  <2>2. FoldOf(events) = r
    BY <1>3 DEF FoldOf, FoldRecord
  <2> QED BY <1>3, <2>1, <2>2, IncidentReplay
<1>4. CASE rec.kind = "problem"
  <2>1. FoldOf(events) = r
    BY <1>4 DEF FoldOf, FoldRecord
  <2> QED BY <1>4, <2>1, ProblemReplay
<1>5. CASE rec.kind = "change"
  <2>1. r \in ChangeStates /\ Gated(rec, votes, r) /\ r.items = Linked(events, Len(events))
    BY <1>1, <1>5, ChangeReplay
  <2>2. FoldOf(events) = [r EXCEPT !.status = Headline(rec, votes, r)]
    BY <1>5 DEF FoldOf, FoldRecord
  <2> HIDE DEF r
  <2>3. /\ FoldOf(events).items = r.items /\ FoldOf(events).auto = r.auto
        /\ FoldOf(events).status = Headline(rec, votes, r)
    BY <2>1, <2>2 DEF ChangeStates
  <2>4. rec.type # "standard" /\ Headline(rec, votes, r) \in Past => Founded(rec, votes, r)
    <3>1. HumanApproved(votes, r.drafter) => HumanApproved(votes, None)
      BY <1>1, ItilAssumption DEF HumanApproved
    <3> QED BY <2>1, <3>1 DEF Headline, Gated, Founded, AutoNormal, Past
  <2>5. Founded(rec, votes, r) => Founded(rec, votes, FoldOf(events))
    BY <2>3 DEF Founded
  <2> QED BY <1>5, <2>1, <2>3, <2>4, <2>5
<1> QED BY <1>2, <1>3, <1>4, <1>5

-----------------------------------------------------------------------------
(* The log *)

LEMMA KnownKept == ASSUME rec' = rec, tasks' = tasks PROVE Known' = Known
BY DEF Known, Links, Moves, Arriving

LEMMA ArrivingFits ==
  ASSUME rec \in Births, NEW e \in Arriving
  PROVE  FitsRecord(rec.kind, e) /\ LinkedBy(e) = {}
<1>1. rec.kind \in {"incident", "problem", "change"}
  BY DEF Births
<1>2. CASE rec.kind = "incident"
  BY <1>2, ItilAssumption DEF Arriving, FitsRecord, LinkedBy, Event, Status
<1>3. CASE rec.kind = "problem"
  BY <1>3 DEF Arriving, FitsRecord, LinkedBy, Event, Status
<1>4. CASE rec.kind = "change"
  BY <1>4 DEF Arriving, FitsRecord, LinkedBy, Event, Status
<1> QED BY <1>1, <1>2, <1>3, <1>4

LEMMA KnownFits ==
  ASSUME TypeOK, NEW e \in Known
  PROVE  FitsRecord(rec.kind, e) /\ LinkedBy(e) \subseteq tasks
<1>1. rec \in Births /\ tasks \subseteq Items
  BY DEF TypeOK
<1>2. rec.kind \in {"incident", "problem", "change"}
  BY <1>1 DEF Births
<1>3. CASE e \in Arriving
  BY <1>1, <1>3, ArrivingFits
<1>4. CASE e \in Links
  BY <1>1, <1>2, <1>4 DEF Links, FitsRecord, LinkedBy, Event
<1>5. CASE e \in Moves
  BY <1>2, <1>5 DEF Moves, FitsRecord, LinkedBy, Event, Status
<1>6. e \in Arriving \/ e \in Links \/ e \in Moves
  BY DEF Known
<1> QED BY <1>3, <1>4, <1>5, <1>6, Zenon

LEMMA LogKnown ==
  ASSUME TypeOK
  PROVE  LogFits(rec.kind, log) /\ Linked(log, Len(log)) \subseteq tasks
<1>1. log \in Seq(Known)
  BY DEF TypeOK
<1>2. Len(log) \in Nat /\ \A n \in 1..Len(log) : log[n] \in Known
  BY <1>1, LenProperties, ElementOfSeq
<1>3. \A n \in 1..Len(log) : FitsRecord(rec.kind, log[n]) /\ LinkedBy(log[n]) \subseteq tasks
  BY <1>2, KnownFits
<1>4. Linked(log, Len(log)) \subseteq tasks
  BY <1>3 DEF Linked, LinkedBy
<1> QED BY <1>2, <1>3, <1>4 DEF LogFits

\* t is s with e put in at i; the other events stay in their order.
Inserted(s, t, i, e) ==
  /\ t[i] = e
  /\ \A j \in 1..Len(s) : t[IF j < i THEN j ELSE j + 1] = s[j]
  /\ \A j \in 1..(Len(s) + 1) : j # i => t[j] = s[IF j < i THEN j ELSE j - 1]

LEMMA InsertKeeps ==
  ASSUME NEW S, NEW s \in Seq(S), NEW e \in S, NEW i \in 1..(Len(s) + 1)
  PROVE  LET t == InsertAt(s, i, e) IN
         t \in Seq(S) /\ Len(t) = Len(s) + 1 /\ Inserted(s, t, i, e)
<1> DEFINE a == SubSeq(s, 1, i - 1)
           b == <<e>>
           c == SubSeq(s, i, Len(s))
           t == InsertAt(s, i, e)
<1>1. Len(s) \in Nat /\ i \in Nat /\ i >= 1 /\ \A j \in 1..Len(s) : s[j] \in S
  BY LenProperties, ElementOfSeq
<1>2. /\ a \in Seq(S) /\ Len(a) = i - 1 /\ \A j \in 1..(i - 1) : a[j] = s[j]
  <2>1. \A j \in 1..(i - 1) : s[j] \in S
    BY <1>1
  <2>2. /\ a \in Seq(S) /\ Len(a) = IF 1 <= i - 1 THEN (i - 1) - 1 + 1 ELSE 0
        /\ \A j \in 1..((i - 1) - 1 + 1) : a[j] = s[1 + j - 1]
    BY <1>1, <2>1, SubSeqProperties
  <2> QED BY <1>1, <2>2
<1>3. /\ c \in Seq(S) /\ Len(c) = Len(s) - i + 1
      /\ \A j \in 1..(Len(s) - i + 1) : c[j] = s[i + j - 1]
  <2>1. \A j \in i..Len(s) : s[j] \in S
    BY <1>1
  <2>2. /\ c \in Seq(S) /\ Len(c) = IF i <= Len(s) THEN Len(s) - i + 1 ELSE 0
        /\ \A j \in 1..(Len(s) - i + 1) : c[j] = s[i + j - 1]
    BY <1>1, <2>1, SubSeqProperties
  <2> QED BY <1>1, <2>2
<1>4. b \in Seq(S) /\ Len(b) = 1 /\ b[1] = e
  OBVIOUS
<1>5. t = a \o b \o c
  BY DEF InsertAt
<1> HIDE DEF a, b, c, t
<1>6. /\ a \o b \in Seq(S) /\ Len(a \o b) = i
      /\ \A j \in 1..i : (a \o b)[j] = IF j <= i - 1 THEN a[j] ELSE b[j - (i - 1)]
  <2>1. /\ a \o b \in Seq(S) /\ Len(a \o b) = Len(a) + Len(b)
        /\ \A j \in 1..(Len(a) + Len(b)) : (a \o b)[j] = IF j <= Len(a) THEN a[j] ELSE b[j - Len(a)]
    BY <1>2, <1>4, ConcatProperties
  <2>2. Len(a) = i - 1 /\ Len(a) + Len(b) = i
    BY <1>1, <1>2, <1>4
  <2> QED BY <2>1, <2>2
<1> DEFINE ab == a \o b
<1>7. /\ t \in Seq(S) /\ Len(t) = Len(s) + 1
      /\ \A j \in 1..(Len(s) + 1) : t[j] = IF j <= i THEN ab[j] ELSE c[j - i]
  <2>1. /\ ab \o c \in Seq(S) /\ Len(ab \o c) = Len(ab) + Len(c)
        /\ \A j \in 1..(Len(ab) + Len(c)) : (ab \o c)[j] = IF j <= Len(ab) THEN ab[j] ELSE c[j - Len(ab)]
    BY <1>3, <1>6, ConcatProperties
  <2>2. Len(ab) = i /\ Len(ab) + Len(c) = Len(s) + 1
    BY <1>1, <1>3, <1>6
  <2> QED BY <1>5, <2>1, <2>2
<1>8. t[i] = e
  BY <1>1, <1>4, <1>6, <1>7
<1>9. \A j \in 1..(Len(s) + 1) : j # i => t[j] = s[IF j < i THEN j ELSE j - 1]
  <2> SUFFICES ASSUME NEW j \in 1..(Len(s) + 1), j # i PROVE t[j] = s[IF j < i THEN j ELSE j - 1]
    OBVIOUS
  <2>1. CASE j < i
    <3>1. j \in 1..i /\ j \in 1..(i - 1) /\ j <= i /\ j <= i - 1
      BY <1>1, <2>1
    <3> QED BY <1>2, <1>6, <1>7, <2>1, <3>1
  <2>2. CASE j > i
    <3>1. j - i \in 1..(Len(s) - i + 1) /\ i + (j - i) - 1 = j - 1 /\ ~(j <= i) /\ ~(j < i)
      BY <1>1, <2>2
    <3> QED BY <1>3, <1>7, <2>2, <3>1
  <2> QED BY <1>1, <2>1, <2>2
<1>10. \A j \in 1..Len(s) : t[IF j < i THEN j ELSE j + 1] = s[j]
  <2> SUFFICES ASSUME NEW j \in 1..Len(s) PROVE t[IF j < i THEN j ELSE j + 1] = s[j]
    OBVIOUS
  <2>1. CASE j < i
    BY <1>1, <1>9, <2>1
  <2>2. CASE ~(j < i)
    <3>1. j + 1 \in 1..(Len(s) + 1) /\ j + 1 # i /\ ~(j + 1 < i) /\ (j + 1) - 1 = j
      BY <1>1, <2>2
    <3> QED BY <1>9, <2>2, <3>1
  <2> QED BY <2>1, <2>2
<1> QED BY <1>7, <1>8, <1>9, <1>10 DEF t, Inserted

\* What a log links and what severities it gives, when an event is put in or appended.
LEMMA LinkedInsert ==
  ASSUME NEW S, NEW s \in Seq(S), NEW e \in S, NEW i \in 1..(Len(s) + 1), LinkedBy(e) = {}
  PROVE  Linked(InsertAt(s, i, e), Len(s) + 1) = Linked(s, Len(s))
<1> DEFINE t == InsertAt(s, i, e)
<1>1. Len(s) \in Nat /\ i \in Nat /\ Inserted(s, t, i, e)
  BY InsertKeeps, LenProperties
<1> HIDE DEF t
<1>2. ASSUME NEW j \in 1..Len(s) PROVE (IF j < i THEN j ELSE j + 1) \in 1..(Len(s) + 1)
  BY <1>1
<1>3. ASSUME NEW j \in 1..(Len(s) + 1), j # i PROVE (IF j < i THEN j ELSE j - 1) \in 1..Len(s)
  BY <1>1, <1>3
<1>4. e.kind # "gtd_link"
  BY DEF LinkedBy
<1>5. Linked(s, Len(s)) \subseteq Linked(t, Len(s) + 1)
  BY <1>1, <1>2 DEF Linked, Inserted
<1>6. Linked(t, Len(s) + 1) \subseteq Linked(s, Len(s))
  BY <1>1, <1>3, <1>4 DEF Linked, Inserted
<1> QED BY <1>5, <1>6 DEF t

LEMMA GivenInsert ==
  ASSUME NEW core, NEW S, NEW s \in Seq(S), NEW e \in S, NEW i \in 1..(Len(s) + 1)
  PROVE  Given(core, s, Len(s)) \subseteq Given(core, InsertAt(s, i, e), Len(s) + 1)
<1> DEFINE t == InsertAt(s, i, e)
<1>1. Len(s) \in Nat /\ i \in Nat /\ Inserted(s, t, i, e)
  BY InsertKeeps, LenProperties
<1> HIDE DEF t
<1>2. ASSUME NEW j \in 1..Len(s) PROVE (IF j < i THEN j ELSE j + 1) \in 1..(Len(s) + 1)
  BY <1>1
<1> QED BY <1>1, <1>2 DEF Given, Inserted, t

LEMMA AppendKeeps ==
  ASSUME NEW core, NEW S, NEW s \in Seq(S), NEW e \in S
  PROVE  LET t == Append(s, e) IN
         /\ t \in Seq(S) /\ Len(t) = Len(s) + 1
         /\ Linked(t, Len(t)) = Linked(s, Len(s)) \cup LinkedBy(e)
         /\ Given(core, s, Len(s)) \subseteq Given(core, t, Len(t))
<1> DEFINE t == Append(s, e)
           n == Len(s) + 1
<1>1. /\ Len(s) \in Nat /\ t \in Seq(S) /\ Len(t) = n /\ t[n] = e
      /\ \A i \in 1..Len(s) : t[i] = s[i]
  BY LenProperties, AppendProperties
<1> HIDE DEF t
<1>2. n \in Nat /\ n # 0 /\ n - 1 = Len(s)
  BY <1>1
<1>3. Linked(t, n) = Linked(t, n - 1) \cup LinkedBy(e)
  BY <1>1, <1>2, LinkedNext
<1>4. Given(core, t, n - 1) \subseteq Given(core, t, n)
  BY <1>2, GivenNext
<1> HIDE DEF n
<1>5. Linked(t, Len(s)) = Linked(s, Len(s))
  BY <1>1 DEF Linked
<1>6. Given(core, t, Len(s)) = Given(core, s, Len(s))
  BY <1>1 DEF Given
<1>7. t \in Seq(S) /\ Len(t) = Len(s) + 1
  BY <1>1 DEF n
<1>8. Linked(t, Len(t)) = Linked(s, Len(s)) \cup LinkedBy(e)
  BY <1>1, <1>2, <1>3, <1>5
<1>9. Given(core, s, Len(s)) \subseteq Given(core, t, Len(t))
  BY <1>1, <1>2, <1>4, <1>6
<1> QED BY <1>7, <1>8, <1>9 DEF t

-----------------------------------------------------------------------------
(* The inductive invariant *)

\* Only an incident is reopened or closed, only a problem gets a known-error entry.
StepsFit ==
  \A p \in Procs : /\ pc[p] \in {"reopen", "close"} => rec.kind = "incident"
                   /\ pc[p] = "kedb" => rec.kind = "problem"

InHand == {held[q] : q \in {p \in Procs : pc[p] = "link"}}

\* A task that was emitted is linked, or about to be.
TasksKnown == ~loose => tasks \subseteq Linked(log, Len(log)) \cup InHand

OneTask == rec.kind = "change" /\ ~loose => \A x, y \in tasks : x = y

Over == ~Live(Fold.status)

\* Whoever settles the record goes on to complete its tasks.
Settled ==
  rec.kind # "change" /\ ~loose /\ Over => tasks \subseteq done \/ \E p \in Procs : pc[p] = "complete"

ItilInv == TypeOK /\ StepsFit /\ TasksKnown /\ OneTask /\ Settled

\* What an appended event makes of an incident or a problem.
LEMMA StatusAfter ==
  ASSUME TypeOK, rec.kind # "change", NEW e \in Known
  PROVE  FoldOf(Append(log, e)) = Step(rec, votes, Fold, e)
<1>1. log \in Seq(Known)
  BY DEF TypeOK
<1>2. Replayed(rec, votes, Append(log, e)) = Step(rec, votes, Replayed(rec, votes, log), e)
  BY <1>1, ReplayAppend
<1> QED BY <1>2 DEF FoldOf, FoldRecord, Fold

LEMMA ItilInitially == Init => ItilInv
<1> SUFFICES ASSUME Init PROVE ItilInv
  OBVIOUS
<1>1. PICK p \in Procs :
        pc = [q \in Procs |-> IF q = p /\ rec.kind # "change" THEN "emit" ELSE "idle"]
  BY DEF Init
<1>2. TypeOK
  <2>1. log \in Seq(Known)
    BY EmptySeq DEF Init
  <2>2. held \in [Procs -> tasks \cup {None}] /\ \A q \in Procs : (pc[q] = "link") = (held[q] # None)
    BY <1>1 DEF Init
  <2> QED BY <1>1, <2>1, <2>2 DEF Init, TypeOK, Steps
<1> QED BY <1>1, <1>2 DEF Init, ItilInv, StepsFit, TasksKnown, OneTask, Settled

\* A process goes to its next step, and the log may have grown.
LEMMA Moved ==
  ASSUME ItilInv, NEW p \in Procs, pc[p] \notin {"link", "complete"},
         NEW step \in {"idle", "emit", "reopen", "complete", "close", "kedb"}, Goto(p, step),
         step \in {"reopen", "close"} => rec.kind = "incident",
         step = "kedb" => rec.kind = "problem",
         log' \in Seq(Known), Linked(log, Len(log)) \subseteq Linked(log', Len(log')),
         rec.kind # "change" /\ Over' => Over \/ step = "complete",
         UNCHANGED <<rec, votes, held, tasks, done, loose>>
  PROVE  ItilInv'
<1>1. /\ pc \in [Procs -> Steps]
      /\ pc' = [pc EXCEPT ![p] = step]
  BY DEF ItilInv, Goto, TypeOK
<1>2. pc'[p] = step /\ \A q \in Procs : q # p => pc'[q] = pc[q]
  BY <1>1
<1>3. TypeOK'
  <2>1. Known' = Known
    BY KnownKept
  <2>2. \A q \in Procs : (pc'[q] = "link") = (held'[q] # None)
    BY <1>2 DEF ItilInv, TypeOK
  <2>3. pc' \in [Procs -> Steps]
    BY <1>1 DEF Steps
  <2> QED BY <2>1, <2>2, <2>3 DEF ItilInv, TypeOK
<1>4. StepsFit'
  BY <1>2 DEF ItilInv, StepsFit
<1>5. TasksKnown'
  <2>1. \A q \in Procs : (pc'[q] = "link") = (pc[q] = "link")
    BY <1>2
  <2>2. InHand' = InHand
    BY <2>1 DEF InHand
  <2> QED BY <2>2 DEF ItilInv, TasksKnown
<1>6. OneTask'
  BY DEF ItilInv, OneTask
<1>7. Settled'
  BY <1>2 DEF ItilInv, Settled
<1> QED BY <1>3, <1>4, <1>5, <1>6, <1>7 DEF ItilInv

-----------------------------------------------------------------------------
(* The steps *)

\* A step that leaves the log alone.
LEMMA MovedOn ==
  ASSUME ItilInv, NEW p \in Procs, pc[p] \notin {"link", "complete"},
         NEW step \in {"idle", "emit", "reopen", "complete", "close", "kedb"}, Goto(p, step),
         step \in {"reopen", "close"} => rec.kind = "incident",
         step = "kedb" => rec.kind = "problem",
         UNCHANGED <<rec, log, votes, held, tasks, done, loose>>
  PROVE  ItilInv'
<1>1. log' \in Seq(Known)
  BY DEF ItilInv, TypeOK
<1>2. Over' = Over
  BY DEF Over, Live, Fold, FoldOf
<1> QED BY <1>1, <1>2, Moved

\* A step that appends an event.
LEMMA MovedAppending ==
  ASSUME ItilInv, NEW p \in Procs, pc[p] \notin {"link", "complete"},
         NEW step \in {"idle", "emit", "complete"}, Goto(p, step), NEW e \in Known, Append1(e),
         rec.kind # "change" /\ Over' => Over \/ step = "complete",
         UNCHANGED <<rec, votes, held, tasks, done, loose>>
  PROVE  ItilInv'
<1>1. log \in Seq(Known) /\ log' = Append(log, e)
  BY DEF ItilInv, TypeOK, Append1
<1>2. LET t == Append(log, e) IN
      t \in Seq(Known) /\ Linked(t, Len(t)) = Linked(log, Len(log)) \cup LinkedBy(e)
  BY <1>1, AppendKeeps
<1> QED BY <1>1, <1>2, Moved

LEMMA MovesKnown ==
  ASSUME NEW to \in {"resolved", "closed", "approved"}, NEW note \in BOOLEAN
  PROVE  Status(to, note) \in Known
<1>1. Status(to, note) \in Moves
  BY DEF Moves
<1> QED BY <1>1 DEF Known

LEMMA ReopenStep == ASSUME ItilInv, NEW p \in Procs, Reopen(p) PROVE ItilInv'
<1> DEFINE e == Event("reopen", None, FALSE)
<1>1. TypeOK /\ pc[p] = "reopen" /\ rec.kind = "incident" /\ rec' = rec /\ votes' = votes
  BY DEF ItilInv, StepsFit, Reopen
<1>2. e \in Known
  BY <1>1 DEF Known, Arriving
<1>3. Append1(e) /\ Goto(p, "emit") /\ UNCHANGED <<rec, votes, held, tasks, done, loose>>
  BY DEF Reopen
<1>4. Over' => Over
  <2>1. Fold' = Step(rec, votes, Fold, e)
    <3>1. Fold' = FoldOf(Append(log, e))
      BY <1>1, <1>3 DEF Fold, FoldOf, Append1
    <3> QED BY <1>1, <1>2, <3>1, StatusAfter
  <2>2. Fold' = Reopened(Fold)
    BY <1>1, <2>1 DEF Step, IncidentStep, Event
  <2>3. Fold \in IncidentStates
    BY <1>1, LogKnown, FoldShape DEF Fold
  <2> QED BY <1>1, <2>2, <2>3 DEF Over, Live, Reopened, OpenIncident, IncidentStates
<1> HIDE DEF e
<1> QED BY <1>1, <1>2, <1>3, <1>4, MovedAppending

LEMMA CloseStep == ASSUME ItilInv, NEW p \in Procs, Close(p) PROVE ItilInv'
<1> DEFINE e == Status("closed", TRUE)
<1>1. TypeOK /\ pc[p] = "close" /\ rec.kind = "incident" /\ rec' = rec /\ votes' = votes
  BY DEF ItilInv, StepsFit, Close
<1>2. e \in Known
  BY MovesKnown
<1>3. Append1(e) /\ Goto(p, "idle") /\ UNCHANGED <<rec, votes, held, tasks, done, loose>>
  BY DEF Close
<1>4. Over' => Over
  <2>1. Fold' = Step(rec, votes, Fold, e)
    <3>1. Fold' = FoldOf(Append(log, e))
      BY <1>1, <1>3 DEF Fold, FoldOf, Append1
    <3> QED BY <1>1, <1>2, <3>1, StatusAfter
  <2>2. e.kind = "status" /\ e.arg = "closed"
    BY DEF Status, Event
  <2> HIDE DEF e
  <2>3. Fold \in IncidentStates
    BY <1>1, LogKnown, FoldShape DEF Fold
  <2>4. CASE "closed" \in IncidentTransitions[Fold.status]
    BY <1>1, <2>3, <2>4 DEF Over, Live, IncidentTransitions, OpenIncident, IncidentStates
  <2>5. CASE "closed" \notin IncidentTransitions[Fold.status]
    <3>1. Fold' = Fold
      BY <1>1, <2>1, <2>2, <2>5 DEF Step, IncidentStep
    <3> QED BY <1>1, <3>1 DEF Over, Live
  <2> QED BY <2>4, <2>5
<1> HIDE DEF e
<1> QED BY <1>1, <1>2, <1>3, <1>4, MovedAppending

LEMMA LinkKedbStep == ASSUME ItilInv, NEW p \in Procs, LinkKedb(p) PROVE ItilInv'
<1> DEFINE e == Event("link_kedb", None, FALSE)
<1>1. TypeOK /\ pc[p] = "kedb" /\ rec.kind = "problem" /\ rec' = rec /\ votes' = votes
  BY DEF ItilInv, StepsFit, LinkKedb
<1>2. e \in Known
  BY <1>1 DEF Known, Arriving
<1>3. Append1(e) /\ Goto(p, "idle") /\ UNCHANGED <<rec, votes, held, tasks, done, loose>>
  BY DEF LinkKedb
<1>4. Over' => Over
  <2>1. Fold' = Step(rec, votes, Fold, e)
    <3>1. Fold' = FoldOf(Append(log, e))
      BY <1>1, <1>3 DEF Fold, FoldOf, Append1
    <3> QED BY <1>1, <1>2, <3>1, StatusAfter
  <2>2. Fold' = [Fold EXCEPT !.kedb = TRUE]
    BY <1>1, <2>1 DEF Step, ProblemStep, Event
  <2>3. Fold \in ProblemStates
    BY <1>1, LogKnown, FoldShape DEF Fold
  <2> QED BY <1>1, <2>2, <2>3 DEF Over, Live, ProblemStates
<1> HIDE DEF e
<1> QED BY <1>1, <1>2, <1>3, <1>4, MovedAppending

LEMMA ResolveStep == ASSUME ItilInv, NEW p \in Procs, Resolve(p) PROVE ItilInv'
<1> DEFINE e == Status("resolved", FALSE)
<1>1. /\ pc[p] = "idle" /\ Append1(e) /\ Goto(p, "complete")
      /\ UNCHANGED <<rec, votes, held, tasks, done, loose>>
  BY DEF Resolve
<1>2. e \in Known
  BY MovesKnown
<1> HIDE DEF e
<1> QED BY <1>1, <1>2, MovedAppending

LEMMA UpdateChangeStep == ASSUME ItilInv, NEW p \in Procs, UpdateChange(p) PROVE ItilInv'
<1> DEFINE e == Status("approved", FALSE)
<1>1. /\ pc[p] = "idle" /\ Append1(e) /\ Goto(p, "emit") /\ rec.kind = "change"
      /\ UNCHANGED <<rec, votes, held, tasks, done, loose>>
  BY DEF UpdateChange
<1>2. e \in Known
  BY MovesKnown
<1> HIDE DEF e
<1> QED BY <1>1, <1>2, MovedAppending

LEMMA ReadingStep ==
  ASSUME ItilInv, NEW p \in Procs,
         CreateIncident(p) \/ AutoClose(p) \/ CreateKedb(p) \/ EmitNothing(p)
  PROVE  ItilInv'
<1>1. /\ pc[p] \in {"idle", "emit"}
      /\ UNCHANGED <<rec, log, votes, held, tasks, done, loose>>
  BY DEF CreateIncident, AutoClose, CreateKedb, EmitNothing
<1>2. \E step \in {"idle", "emit", "reopen", "close", "kedb"} :
        /\ Goto(p, step) /\ (step \in {"reopen", "close"} => rec.kind = "incident")
        /\ step = "kedb" => rec.kind = "problem"
  BY DEF CreateIncident, AutoClose, CreateKedb, EmitNothing
<1> QED BY <1>1, <1>2, MovedOn

LEMMA ArriveStep == ASSUME ItilInv, Arrive PROVE ItilInv'
<1>1. PICK e \in Arriving, i \in 1..(Len(log) + 1) :
        /\ log' = InsertAt(log, i, e)
        /\ loose' = (loose \/ (rec.kind # "change" /\ Live(Fold.status) /\ ~Live(FoldOf(log').status)))
  BY DEF Arrive
<1>2. UNCHANGED <<rec, votes, pc, held, tasks, done>>
  BY DEF Arrive
<1>3. TypeOK /\ log \in Seq(Known) /\ e \in Known /\ LinkedBy(e) = {}
  BY ArrivingFits DEF ItilInv, TypeOK, Known
<1>4. log' \in Seq(Known) /\ Len(log') = Len(log) + 1
  BY <1>1, <1>3, InsertKeeps
<1>5. Linked(log', Len(log')) = Linked(log, Len(log))
  BY <1>1, <1>3, <1>4, LinkedInsert
<1>6. TypeOK'
  <2>1. Known' = Known
    BY <1>2, KnownKept
  <2> QED BY <1>1, <1>2, <1>3, <1>4, <2>1 DEF TypeOK
<1>7. InHand' = InHand
  BY <1>2 DEF InHand
<1>8. Over' = ~Live(FoldOf(log').status)
  BY <1>2 DEF Over, Live, Fold, FoldOf
<1>9. rec.kind # "change" /\ ~loose' /\ Over' => Over
  BY <1>1, <1>8 DEF Over
<1>10. ~loose' => ~loose
  BY <1>1, <1>3 DEF TypeOK
<1>11. StepsFit' /\ TasksKnown' /\ OneTask' /\ Settled'
  BY <1>2, <1>5, <1>7, <1>9, <1>10 DEF ItilInv, StepsFit, TasksKnown, OneTask, Settled
<1> QED BY <1>6, <1>11 DEF ItilInv

LEMMA SubmitCabVoteStep == ASSUME ItilInv, SubmitCabVote PROVE ItilInv'
<1>1. PICK a \in Agents, d \in {"approved", "rejected", "abstain"} : votes' = [votes EXCEPT ![a] = d]
  BY DEF SubmitCabVote
<1>2. rec.kind = "change" /\ UNCHANGED <<rec, log, pc, held, tasks, done, loose>>
  BY DEF SubmitCabVote
<1>3. Known' = Known
  BY <1>2, KnownKept
<1>4. InHand' = InHand
  BY <1>2 DEF InHand
<1> QED BY <1>1, <1>2, <1>3, <1>4 DEF ItilInv, TypeOK, StepsFit, TasksKnown, OneTask, Settled

LEMMA CompleteStep == ASSUME ItilInv, NEW p \in Procs, Complete(p) PROVE ItilInv'
<1>1. PICK X \in SUBSET Fold.items :
        /\ done' = done \cup X
        /\ loose' = (loose \/ X # Fold.items \/ \E q \in Procs : pc[q] = "link")
  BY DEF Complete
<1>2. /\ pc[p] = "complete" /\ pc' = [pc EXCEPT ![p] = "idle"]
      /\ UNCHANGED <<rec, log, votes, held, tasks>>
  BY DEF Complete, Goto
<1>3. TypeOK /\ Fold.items = Linked(log, Len(log)) /\ Linked(log, Len(log)) \subseteq tasks
  BY LogKnown, FoldShape DEF ItilInv, Fold
<1>4. pc'[p] = "idle" /\ \A q \in Procs : q # p => pc'[q] = pc[q]
  BY <1>2, <1>3 DEF TypeOK
<1>5. \A q \in Procs : (pc'[q] = "link") = (pc[q] = "link")
  BY <1>2, <1>4
<1>6. TypeOK'
  <2>1. Known' = Known
    BY <1>2, KnownKept
  <2>2. loose' \in BOOLEAN
    BY <1>1
  <2>3. done' \subseteq tasks'
    BY <1>1, <1>2, <1>3 DEF TypeOK
  <2> QED BY <1>2, <1>3, <1>5, <2>1, <2>2, <2>3 DEF TypeOK, Steps
<1>7. InHand' = InHand
  BY <1>2, <1>5 DEF InHand
<1>8. ~loose' => /\ ~loose /\ X = Fold.items /\ InHand = {}
  BY <1>1 DEF InHand
<1>9. StepsFit' /\ TasksKnown' /\ OneTask'
  BY <1>2, <1>4, <1>7, <1>8 DEF ItilInv, StepsFit, TasksKnown, OneTask
<1>10. Settled'
  BY <1>1, <1>2, <1>3, <1>8 DEF ItilInv, TasksKnown, Settled
<1> QED BY <1>6, <1>9, <1>10 DEF ItilInv

\* More tasks, more events that may stand in the log.
LEMMA SeqGrows == ASSUME NEW S, NEW T, S \subseteq T, NEW s \in Seq(S) PROVE s \in Seq(T)
OBVIOUS

LEMMA EmitStep == ASSUME ItilInv, NEW p \in Procs, Emit(p) PROVE ItilInv'
<1>1. PICK x \in Items \ tasks : tasks' = tasks \cup {x} /\ held' = [held EXCEPT ![p] = x]
  BY DEF Emit
<1>2. /\ pc[p] = "emit" /\ pc' = [pc EXCEPT ![p] = "link"] /\ WantsTask
      /\ loose' = (loose \/ (rec.kind = "change" /\ \E q \in Procs : pc[q] = "link"))
      /\ UNCHANGED <<rec, log, votes, done>>
  BY DEF Emit, Goto
<1>3. TypeOK /\ Fold.items = Linked(log, Len(log)) /\ x # None
  BY LogKnown, FoldShape, ItilAssumption DEF ItilInv, Fold
<1>4. /\ pc'[p] = "link" /\ \A q \in Procs : q # p => pc'[q] = pc[q]
      /\ held'[p] = x /\ \A q \in Procs : q # p => held'[q] = held[q]
  BY <1>1, <1>2, <1>3 DEF TypeOK
<1>5. TypeOK'
  <2>1. Known \subseteq Known'
    <3>1. Arriving' = Arriving
      BY <1>2 DEF Arriving
    <3>2. Moves' = Moves
      BY DEF Moves
    <3>3. Links \subseteq Links'
      BY <1>1 DEF Links
    <3> QED BY <3>1, <3>2, <3>3 DEF Known
  <2>2. log' \in Seq(Known')
    BY <1>2, <1>3, <2>1, SeqGrows DEF TypeOK
  <2>3. loose' \in BOOLEAN
    BY <1>2, <1>3 DEF TypeOK
  <2>4. /\ held' \in [Procs -> tasks' \cup {None}]
        /\ pc' \in [Procs -> Steps]
    BY <1>1, <1>2, <1>3 DEF TypeOK, Steps
  <2>5. \A q \in Procs : (pc'[q] = "link") = (held'[q] # None)
    BY <1>3, <1>4 DEF TypeOK
  <2>6. rec' \in Births /\ votes' \in [Agents -> {"approved", "rejected", "abstain"}]
    BY <1>2, <1>3 DEF TypeOK
  <2>7. tasks' \subseteq Items /\ done' \subseteq tasks'
    BY <1>1, <1>2, <1>3 DEF TypeOK
  <2> QED BY <2>2, <2>3, <2>4, <2>5, <2>6, <2>7 DEF TypeOK
<1>6. StepsFit'
  BY <1>2, <1>4 DEF ItilInv, StepsFit
<1>7. InHand \cup {x} \subseteq InHand'
  BY <1>2, <1>4 DEF InHand
<1>8. ~loose' => ~loose
  BY <1>2
<1>9. TasksKnown'
  BY <1>1, <1>2, <1>7, <1>8 DEF ItilInv, TasksKnown
<1>10. OneTask'
  <2> SUFFICES ASSUME rec.kind = "change", ~loose' PROVE tasks = {}
    BY <1>1, <1>2 DEF OneTask
  <2>1. InHand = {}
    BY <1>2 DEF InHand
  <2>2. Fold.items = {}
    BY <1>2 DEF WantsTask
  <2> QED BY <1>3, <1>8, <2>1, <2>2 DEF ItilInv, TasksKnown
<1>11. Settled'
  <2>1. Over' = Over
    BY <1>2 DEF Over, Live, Fold, FoldOf
  <2>2. rec.kind # "change" => ~Over
    BY <1>2 DEF WantsTask, Over
  <2> QED BY <1>2, <2>1, <2>2 DEF Settled
<1> QED BY <1>5, <1>6, <1>9, <1>10, <1>11 DEF ItilInv

LEMMA LinkStep == ASSUME ItilInv, NEW p \in Procs, Link(p) PROVE ItilInv'
<1> DEFINE x == held[p]
           e == Event("gtd_link", x, FALSE)
<1>1. /\ pc[p] = "link" /\ pc' = [pc EXCEPT ![p] = "idle"] /\ held' = [held EXCEPT ![p] = None]
      /\ log' = Append(log, e)
      /\ UNCHANGED <<rec, votes, tasks, done, loose>>
  BY DEF Link, Append1, Goto
<1>2. TypeOK /\ x \in tasks
  BY <1>1 DEF ItilInv, TypeOK
<1>3. e \in Known /\ LinkedBy(e) = {x} /\ e.kind = "gtd_link" /\ e.arg = x
  BY <1>2 DEF Known, Links, LinkedBy, Event
<1> HIDE DEF e
<1>4. /\ pc'[p] = "idle" /\ \A q \in Procs : q # p => pc'[q] = pc[q]
      /\ held'[p] = None /\ \A q \in Procs : q # p => held'[q] = held[q]
  BY <1>1, <1>2 DEF TypeOK
<1>5. log \in Seq(Known) /\ log' \in Seq(Known)
      /\ Linked(log', Len(log')) = Linked(log, Len(log)) \cup {x}
  <2>1. log \in Seq(Known)
    BY <1>2 DEF TypeOK
  <2>2. LET t == Append(log, e) IN
        t \in Seq(Known) /\ Linked(t, Len(t)) = Linked(log, Len(log)) \cup LinkedBy(e)
    BY <1>3, <2>1, AppendKeeps
  <2> QED BY <1>1, <1>3, <2>1, <2>2
<1>6. TypeOK'
  <2>1. Known' = Known
    BY <1>1, KnownKept
  <2>2. /\ held' \in [Procs -> tasks' \cup {None}]
        /\ pc' \in [Procs -> Steps]
    BY <1>1, <1>2 DEF TypeOK, Steps
  <2>3. \A q \in Procs : (pc'[q] = "link") = (held'[q] # None)
    BY <1>2, <1>4 DEF TypeOK
  <2> QED BY <1>1, <1>2, <1>5, <2>1, <2>2, <2>3 DEF TypeOK
<1>7. StepsFit' /\ OneTask'
  BY <1>1, <1>4 DEF ItilInv, StepsFit, OneTask
<1>8. TasksKnown'
  <2>1. InHand \subseteq InHand' \cup {x}
    BY <1>4 DEF InHand
  <2> QED BY <1>1, <1>5, <2>1 DEF ItilInv, TasksKnown
<1>9. Settled'
  <2> SUFFICES ASSUME rec.kind # "change", Over' PROVE Over
    BY <1>1, <1>4 DEF ItilInv, Settled
  <2>1. Fold' = Step(rec, votes, Fold, e)
    <3>1. Fold' = FoldOf(Append(log, e))
      BY <1>1 DEF Fold, FoldOf
    <3> QED BY <1>2, <1>3, <3>1, StatusAfter
  <2>2. rec.kind \in {"incident", "problem"}
    BY <1>2 DEF TypeOK, Births
  <2>3. Fold' = [Fold EXCEPT !.items = @ \cup {x}]
    BY <1>3, <2>1, <2>2 DEF Step, IncidentStep, ProblemStep
  <2>4. Fold \in IncidentStates \cup ProblemStates
    BY <1>2, <2>2, LogKnown, FoldShape DEF Fold
  <2>5. Fold'.status = Fold.status
    BY <2>3, <2>4 DEF IncidentStates, ProblemStates
  <2> QED BY <1>1, <2>5 DEF Over, Live
<1> QED BY <1>6, <1>7, <1>8, <1>9 DEF ItilInv

LEMMA DieStep == ASSUME ItilInv, NEW p \in Procs, Die(p) PROVE ItilInv'
<1>1. /\ pc' = [pc EXCEPT ![p] = "idle"] /\ held' = [held EXCEPT ![p] = None]
      /\ loose' = (loose \/ pc[p] \in {"complete", "link"})
      /\ UNCHANGED <<rec, log, votes, tasks, done>>
  BY DEF Die, Goto
<1>2. TypeOK
  BY DEF ItilInv
<1>3. /\ pc'[p] = "idle" /\ \A q \in Procs : q # p => pc'[q] = pc[q]
      /\ held'[p] = None /\ \A q \in Procs : q # p => held'[q] = held[q]
  BY <1>1, <1>2 DEF TypeOK
<1>4. TypeOK'
  <2>1. Known' = Known
    BY <1>1, KnownKept
  <2>2. /\ held' \in [Procs -> tasks' \cup {None}]
        /\ pc' \in [Procs -> Steps]
    BY <1>1, <1>2 DEF TypeOK, Steps
  <2>3. \A q \in Procs : (pc'[q] = "link") = (held'[q] # None)
    BY <1>2, <1>3 DEF TypeOK
  <2>4. loose' \in BOOLEAN
    BY <1>1, <1>2 DEF TypeOK
  <2> QED BY <1>1, <1>2, <2>1, <2>2, <2>3, <2>4 DEF TypeOK
<1>5. StepsFit'
  BY <1>1, <1>3 DEF ItilInv, StepsFit
<1>6. ~loose' => ~loose /\ pc[p] \notin {"complete", "link"}
  BY <1>1
<1>7. ~loose' => InHand \subseteq InHand'
  BY <1>3, <1>6 DEF InHand
<1>8. Over' = Over
  BY <1>1 DEF Over, Live, Fold, FoldOf
<1>9. TasksKnown' /\ OneTask' /\ Settled'
  BY <1>1, <1>3, <1>6, <1>7, <1>8 DEF ItilInv, TasksKnown, OneTask, Settled
<1> QED BY <1>4, <1>5, <1>9 DEF ItilInv

LEMMA ItilStutter == ASSUME ItilInv, UNCHANGED vars PROVE ItilInv'
<1>1. Known' = Known
  BY KnownKept DEF vars
<1>2. InHand' = InHand /\ Over' = Over
  BY DEF vars, InHand, Over, Live, Fold, FoldOf
<1> QED BY <1>1, <1>2 DEF vars, ItilInv, TypeOK, StepsFit, TasksKnown, OneTask, Settled

LEMMA ItilStep == ItilInv /\ [Next]_vars => ItilInv'
<1> SUFFICES ASSUME ItilInv, [Next]_vars PROVE ItilInv'
  OBVIOUS
<1>1. CASE Arrive
  BY <1>1, ArriveStep
<1>2. CASE SubmitCabVote
  BY <1>2, SubmitCabVoteStep
<1>3. ASSUME NEW p \in Procs,
             \/ CreateIncident(p) \/ Reopen(p) \/ Resolve(p) \/ Complete(p) \/ AutoClose(p)
             \/ Close(p) \/ CreateKedb(p) \/ LinkKedb(p) \/ UpdateChange(p) \/ Emit(p)
             \/ EmitNothing(p) \/ Link(p) \/ Die(p)
      PROVE  ItilInv'
  <2>1. CASE CreateIncident(p) \/ AutoClose(p) \/ CreateKedb(p) \/ EmitNothing(p)
    BY <2>1, ReadingStep
  <2>2. CASE Reopen(p) \/ Close(p) \/ LinkKedb(p) \/ Resolve(p) \/ UpdateChange(p)
    BY <2>2, ReopenStep, CloseStep, LinkKedbStep, ResolveStep, UpdateChangeStep
  <2>3. CASE Complete(p)
    BY <2>3, CompleteStep
  <2>4. CASE Emit(p)
    BY <2>4, EmitStep
  <2>5. CASE Link(p)
    BY <2>5, LinkStep
  <2>6. CASE Die(p)
    BY <2>6, DieStep
  <2> QED BY <1>3, <2>1, <2>2, <2>3, <2>4, <2>5, <2>6
<1>4. CASE UNCHANGED vars
  BY <1>4, ItilStutter
<1> QED BY <1>1, <1>2, <1>3, <1>4 DEF Next

-----------------------------------------------------------------------------
(* The theorems *)

\* The invariant: the log holds events that the fold of its kind knows; as long as no call
\* died or overlapped with another on the way, every task is linked or in the hand of the
\* process that emitted it, a change has one at most, and whoever settles an incident or a
\* problem goes on to complete what it links.
THEOREM ItilInvHolds == Spec => []ItilInv
BY ItilInitially, ItilStep, PTL DEF Spec

\* Type correctness: only events that the folds know enter the log.
THEOREM ItilTypeCorrect == Spec => []TypeOK
<1>1. ItilInv => TypeOK
  BY DEF ItilInv
<1> QED BY <1>1, ItilInvHolds, PTL

\* Whatever order events and votes arrive in, a change that needs the board has left review
\* only with a human approval, or as an auto-normal change, and with no rejection standing
\* (_fold_change and its guard against raw approvals).
THEOREM AuthorisedHolds == Spec => []Authorised
<1>1. ItilInv => Authorised
  <2> SUFFICES ASSUME ItilInv, rec.kind = "change", rec.type # "standard", Fold.status \in Past
               PROVE  /\ ~Rejected(votes)
                      /\ HumanApproved(votes, None) \/ (rec.type = "normal" /\ rec.eligible /\ Fold.auto)
    BY DEF Authorised, Past
  <2>1. TypeOK /\ LogFits(rec.kind, log)
    BY LogKnown DEF ItilInv
  <2>2. Founded(rec, votes, Fold)
    BY <2>1, FoldShape DEF Fold
  <2> QED BY <2>2 DEF Founded
<1> QED BY <1>1, ItilInvHolds, PTL

\* An incident is open exactly when it carries no time of resolution, in every order of its
\* events: only reopen leaves "resolved", and it clears the time (_fold_incident).
THEOREM ResolutionFitsHolds == Spec => []ResolutionFits
<1>1. ItilInv => ResolutionFits
  BY LogKnown, FoldShape DEF ItilInv, ResolutionFits, Fold, Timed
<1> QED BY <1>1, ItilInvHolds, PTL

\* A log is changed only by putting an event of its kind into it.
LEMMA LogGrows ==
  ASSUME ItilInv, [Next]_vars
  PROVE  \/ log' = log
         \/ \E e \in Known, i \in 1..(Len(log) + 1) : log' = InsertAt(log, i, e)
         \/ \E e \in Known : log' = Append(log, e)
<1>1. CASE Arrive
  BY <1>1 DEF Arrive, Known
<1>2. ASSUME NEW p \in Procs, NEW e \in Known, Append1(e) PROVE log' = Append(log, e)
  BY <1>2 DEF Append1
<1>3. ASSUME NEW p \in Procs, Reopen(p) PROVE \E e \in Known : log' = Append(log, e)
  <2>1. Event("reopen", None, FALSE) \in Known
    BY <1>3 DEF Reopen, ItilInv, StepsFit, Known, Arriving
  <2> QED BY <1>3, <2>1 DEF Reopen, Append1
<1>4. ASSUME NEW p \in Procs, LinkKedb(p) PROVE \E e \in Known : log' = Append(log, e)
  <2>1. Event("link_kedb", None, FALSE) \in Known
    BY <1>4 DEF LinkKedb, ItilInv, StepsFit, Known, Arriving
  <2> QED BY <1>4, <2>1 DEF LinkKedb, Append1
<1>5. ASSUME NEW p \in Procs, Link(p) PROVE \E e \in Known : log' = Append(log, e)
  <2>1. held[p] \in tasks
    BY <1>5 DEF Link, ItilInv, TypeOK
  <2>2. Event("gtd_link", held[p], FALSE) \in Known
    BY <2>1 DEF Known, Links
  <2> QED BY <1>5, <2>2 DEF Link, Append1
<1>6. ASSUME NEW p \in Procs, Resolve(p) \/ Close(p) \/ UpdateChange(p)
      PROVE  \E e \in Known : log' = Append(log, e)
  BY <1>6, MovesKnown DEF Resolve, Close, UpdateChange, Append1
<1>7. ASSUME NEW p \in Procs,
             \/ CreateIncident(p) \/ Complete(p) \/ AutoClose(p) \/ CreateKedb(p) \/ Emit(p)
             \/ EmitNothing(p) \/ Die(p)
      PROVE  log' = log
  BY <1>7 DEF CreateIncident, Complete, AutoClose, CreateKedb, Emit, EmitNothing, Die
<1>8. SubmitCabVote \/ UNCHANGED vars => log' = log
  BY DEF SubmitCabVote, vars
<1> QED BY <1>1, <1>3, <1>4, <1>5, <1>6, <1>7, <1>8 DEF Next

\* A late event never makes an incident less severe than it was already shown: the fold keeps
\* the worst severity given, and an arrival only adds to those.
THEOREM SeverityNeverDropsHolds == Spec => SeverityNeverDrops
<1>1. ItilInv /\ [Next]_vars =>
        [rec.kind = "incident" => SevRank[FoldOf(log').severity] >= SevRank[Fold.severity]]_vars
  <2> SUFFICES ASSUME ItilInv, [Next]_vars, rec.kind = "incident"
               PROVE  SevRank[FoldOf(log').severity] >= SevRank[Fold.severity]
    OBVIOUS
  <2>1. TypeOK /\ log \in Seq(Known) /\ LogFits(rec.kind, log)
    BY LogKnown DEF ItilInv, TypeOK
  <2>2. /\ log' \in Seq(Known)
        /\ Given(rec, log, Len(log)) \subseteq Given(rec, log', Len(log'))
    <3>1. CASE log' = log
      BY <2>1, <3>1
    <3>2. ASSUME NEW e \in Known, NEW i \in 1..(Len(log) + 1), log' = InsertAt(log, i, e)
          PROVE  /\ log' \in Seq(Known)
                 /\ Given(rec, log, Len(log)) \subseteq Given(rec, log', Len(log'))
      BY <2>1, <3>2, InsertKeeps, GivenInsert
    <3>3. ASSUME NEW e \in Known, log' = Append(log, e)
          PROVE  /\ log' \in Seq(Known)
                 /\ Given(rec, log, Len(log)) \subseteq Given(rec, log', Len(log'))
      BY <2>1, <3>3, AppendKeeps
    <3> QED BY <3>1, <3>2, <3>3, LogGrows
  <2>3. LogFits(rec.kind, log')
    <3>1. Len(log') \in Nat /\ \A n \in 1..Len(log') : log'[n] \in Known
      BY <2>2, LenProperties, ElementOfSeq
    <3> QED BY <2>1, <3>1, KnownFits DEF LogFits
  <2>4. WorstOf(Given(rec, log, Len(log)), Fold.severity) /\ Fold.severity \in DOMAIN SevRank
    BY <2>1, FoldShape DEF Fold, IncidentStates
  <2>5. /\ WorstOf(Given(rec, log', Len(log')), FoldOf(log').severity)
        /\ FoldOf(log').severity \in DOMAIN SevRank
    BY <2>1, <2>3, FoldShape DEF IncidentStates
  <2>6. SevRank[Fold.severity] <= SevRank[FoldOf(log').severity]
    BY <2>2, <2>4, <2>5 DEF WorstOf
  <2> QED BY <2>4, <2>5, <2>6, RankNat
<1> QED BY <1>1, ItilInvHolds, PTL DEF Spec, SeverityNeverDrops

\* Tasks follow their record: approving a change again, by the same or another process, makes
\* no second task, and none is left over once an incident or a problem is settled, unless two
\* calls overlap or one dies on the way (update_change, update_incident, update_problem).
THEOREM TasksFollowRecordHolds == Spec => []TasksFollowRecord
<1>1. ItilInv => TasksFollowRecord
  <2> SUFFICES ASSUME ItilInv PROVE TasksFollowRecord
    OBVIOUS
  <2>1. OneTaskPerChange
    <3> SUFFICES ASSUME \A x, y \in tasks : x = y PROVE Cardinality(tasks) <= 1
      BY DEF ItilInv, OneTask, OneTaskPerChange
    <3>1. CASE tasks = {}
      BY <3>1, FS_EmptySet
    <3>2. CASE tasks # {}
      <4>1. PICK x \in tasks : tasks = {x}
        BY <3>2
      <4> QED BY <4>1, FS_Singleton
    <3> QED BY <3>1, <3>2
  <2>2. SettledHasNoTask
    BY DEF ItilInv, Settled, SettledHasNoTask, Over
  <2> QED BY <2>1, <2>2 DEF TasksFollowRecord
<1> QED BY <1>1, ItilInvHolds, PTL
=============================================================================
