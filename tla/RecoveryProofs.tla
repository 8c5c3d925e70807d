--------------------------- MODULE RecoveryProofs ---------------------------
(***************************************************************************)
(* What the two recovery tools promise, proved for any rows, any damaged   *)
(* log, any set of plans and any number of faults and foreign writes: no   *)
(* event is lost and no damaged row leaves the log before it is kept       *)
(* elsewhere, a repaired log can be brought forward or back, and receipts  *)
(* say what is so.                                                         *)
(*                                                                         *)
(* What is left of a log is defined by recursion over its rows.  The       *)
(* library states induction with an operator as parameter; here it is      *)
(* derived once, for sets, from the well-founded order of the naturals.    *)
(***************************************************************************)
EXTENDS Recovery, SequenceTheorems, WellFoundedInduction, TLAPS

-----------------------------------------------------------------------------
(* The inductive invariant *)

\* Where a call works on a log it has read, and where it has the lock.
Replacing == {"evidence", "check", "replace"}
Holding == Replacing \cup {"verify", "record"}

\* A plan holds damaged rows, and only rows that were in the log.
PlansFounded ==
  /\ \A p \in Plans : plan[p] # None => ~Clean(plan[p]) /\ ToSet(plan[p]) \subseteq ever
  /\ tool = "card" => \A p \in Plans \ {Pinned} : plan[p] = None

\* A call works under a plan that exists, and goes by the log it has read.
JobFounded ==
  /\ job.pc # "idle" => job.p \in Plans /\ plan[job.p] # None
  /\ job.pc = "evidence" => job.at \in 1..Len(ToPublish)
  /\ job.pc = "verify" => job.kind = "rollback"
  /\ job.pc \in Replacing =>
       job.raw = IF job.kind = "apply" THEN plan[job.p] ELSE Repaired(plan[job.p])

\* Receipts come in order, and a call that will replace the log has none to respect.
ReceiptsOrdered ==
  /\ \A p \in Plans : Kept(p, "back_receipt") => Kept(p, "receipt")
  /\ job.pc \in Holding /\ job.kind = "rollback" => Kept(job.p, "receipt")
  /\ job.pc \in Replacing => /\ ~Kept(job.p, "back_receipt")
                             /\ job.kind = "apply" => ~Kept(job.p, "receipt")

\* What an apply has published so far is kept.
EvidenceKept ==
  job.kind = "apply" =>
    /\ job.pc = "evidence" => \A j \in 1..(job.at - 1) : Kept(job.p, Evidence(job.p)[j])
    /\ job.pc \in {"check", "replace", "record"} => \A n \in ToSet(Evidence(job.p)) : Kept(job.p, n)

\* A call that is about to publish its receipt has put its rows in front of the log.
ImageInFront ==
  job.pc = "record" =>
    IsPrefix(IF job.kind = "apply" THEN Repaired(plan[job.p]) ELSE plan[job.p], shard)

\* The plan p was applied and nothing has undone it; what follows its rows is newer
\* than every plan.
Applied(p) ==
  /\ plan[p] # None /\ ~Kept(p, "back_receipt")
  /\ \A n \in ToSet(Evidence(p)) : Kept(p, n)
  /\ IsPrefix(Repaired(plan[p]), shard)
  /\ \A i \in (Len(Repaired(plan[p])) + 1)..Len(shard), q \in Plans :
       plan[q] # None => shard[i] \notin ToSet(plan[q])

CleanIsApplied == Clean(shard) => \E p \in Plans : Applied(p)

\* The logs that the receipt of the card tool records go on from the repaired rows.
SnapshotFits ==
  tool = "card" /\ Kept(Pinned, "receipt") /\ Clean(shard) =>
    /\ snapshot # None
    /\ IsPrefix(snapshot[1], shard) /\ IsPrefix(Repaired(plan[Pinned]), snapshot[1])

RecoveryInv ==
  /\ TypeOK /\ PlansFounded /\ JobFounded /\ ReceiptsOrdered /\ EvidenceKept /\ ImageInFront
  /\ CleanIsApplied /\ SnapshotFits /\ NoEventLost /\ EvidenceFirst
-----------------------------------------------------------------------------
(* Induction over the natural numbers, from the library's well-founded order *)

LEMMA LeastNumber ==
  ASSUME NEW T \in SUBSET Nat, T # {}
  PROVE  \E n \in T : \A m \in T : n <= m
<1> DEFINE Less == OpToRel(<, Nat)
<1>1. Less = {ss \in Nat \X Nat : ss[1] < ss[2]}
  BY DEF OpToRel
<1>2. IsWellFoundedOn(Less, Nat)
  BY NatLessThanWellFounded
<1> HIDE DEF Less
<1>3. PICK n \in T : \A m \in T : ~ (<<m, n>> \in Less)
  BY <1>2, WFMin, Zenon
<1>4. \A m \in T : m \in Nat /\ n \in Nat /\ ~(m < n)
  BY <1>1, <1>3
<1>5. \A m \in T : n <= m
  BY <1>4
<1> QED BY <1>5

LEMMA Induction ==
  ASSUME NEW S, 0 \in S, \A n \in Nat : n \in S => n + 1 \in S
  PROVE  Nat \subseteq S
<1> SUFFICES ASSUME ~(Nat \subseteq S) PROVE FALSE
  OBVIOUS
<1> DEFINE T == Nat \ S
<1>1. T \in SUBSET Nat /\ T # {}
  OBVIOUS
<1> HIDE DEF T
<1>2. PICK n \in T : \A m \in T : n <= m
  BY <1>1, LeastNumber
<1>3. n \in Nat /\ n \notin S
  BY <1>2 DEF T
<1>4. n # 0 /\ n - 1 \in Nat
  BY <1>3
<1>5. n - 1 \notin T
  BY <1>2, <1>3, <1>4
<1>6. n - 1 \in S /\ (n - 1) + 1 = n
  BY <1>3, <1>4, <1>5 DEF T
<1> QED BY <1>3, <1>4, <1>6

-----------------------------------------------------------------------------
(* Taking rows out of a log *)

LEMMA ToSetAppend ==
  ASSUME NEW S, NEW s \in Seq(S), NEW r \in S
  PROVE  /\ ToSet(Append(s, r)) = ToSet(s) \cup {r}
         /\ IsInjective(s) /\ r \notin ToSet(s) => IsInjective(Append(s, r))
<1>1. /\ Append(s, r) \in Seq(S) /\ Len(Append(s, r)) = Len(s) + 1
      /\ \A i \in 1..Len(s) : Append(s, r)[i] = s[i]
      /\ Append(s, r)[Len(s) + 1] = r
  BY AppendProperties
<1>2. DOMAIN s = 1..Len(s) /\ DOMAIN Append(s, r) = 1..(Len(s) + 1) /\ Len(s) \in Nat
  BY <1>1
<1>3. ToSet(s) \cup {r} \subseteq ToSet(Append(s, r))
  BY <1>1, <1>2 DEF ToSet
<1>4. ToSet(Append(s, r)) \subseteq ToSet(s) \cup {r}
  <2> SUFFICES ASSUME NEW i \in 1..(Len(s) + 1) PROVE Append(s, r)[i] \in ToSet(s) \cup {r}
    BY <1>2 DEF ToSet
  <2> QED BY <1>1, <1>2 DEF ToSet
<1>5. ASSUME IsInjective(s), r \notin ToSet(s) PROVE IsInjective(Append(s, r))
  <2> SUFFICES ASSUME NEW i \in 1..(Len(s) + 1), NEW j \in 1..(Len(s) + 1),
                      Append(s, r)[i] = Append(s, r)[j]
               PROVE  i = j
    BY <1>2 DEF IsInjective
  <2>1. \A k \in 1..Len(s) : s[k] # r
    BY <1>2, <1>5 DEF ToSet
  <2>2. CASE i \in 1..Len(s) /\ j \in 1..Len(s)
    BY <1>1, <1>2, <1>5, <2>2 DEF IsInjective
  <2>3. CASE i \notin 1..Len(s) /\ j \notin 1..Len(s)
    BY <1>2, <2>3
  <2>4. CASE i \in 1..Len(s) /\ j \notin 1..Len(s)
    BY <1>1, <1>2, <2>1, <2>4
  <2>5. CASE i \notin 1..Len(s) /\ j \in 1..Len(s)
    BY <1>1, <1>2, <2>1, <2>5
  <2> QED BY <2>2, <2>3, <2>4, <2>5
<1> QED BY <1>3, <1>4, <1>5

\* One row of the recursion of Without.
Taken(s, D, F, n) == IF n = 0 THEN <<>> ELSE IF s[n] \in D THEN F[n - 1] ELSE Append(F[n - 1], s[n])

\* The recursion has a solution.
LEMMA LeftExists ==
  ASSUME NEW s, NEW D
  PROVE  \A k \in Nat : \E F : F = [n \in 0..k |-> Taken(s, D, F, n)]
<1> DEFINE S == {k \in Nat : \E F : F = [n \in 0..k |-> Taken(s, D, F, n)]}
<1>1. 0 \in S
  <2> DEFINE F == [n \in 0..0 |-> <<>>]
  <2>1. \A n \in 0..0 : Taken(s, D, F, n) = <<>>
    BY DEF Taken
  <2>2. F = [n \in 0..0 |-> Taken(s, D, F, n)]
    BY <2>1
  <2> QED BY <2>2
<1>2. ASSUME NEW k \in Nat, k \in S PROVE k + 1 \in S
  <2>1. PICK F : F = [n \in 0..k |-> Taken(s, D, F, n)]
    BY <1>2
  <2> DEFINE G == [n \in 0..(k + 1) |-> IF n <= k THEN F[n] ELSE Taken(s, D, F, k + 1)]
  <2>2. \A n \in 0..k : G[n] = F[n] /\ F[n] = Taken(s, D, F, n)
    BY <2>1
  <2>3. \A n \in 0..(k + 1) : Taken(s, D, G, n) = Taken(s, D, F, n)
    <3> SUFFICES ASSUME NEW n \in 0..(k + 1), n # 0 PROVE G[n - 1] = F[n - 1]
      BY DEF Taken
    <3>1. n - 1 \in 0..k
      OBVIOUS
    <3> QED BY <2>2, <3>1
  <2>4. \A n \in 0..(k + 1) : G[n] = Taken(s, D, G, n)
    <3> SUFFICES ASSUME NEW n \in 0..(k + 1) PROVE G[n] = Taken(s, D, F, n)
      BY <2>3
    <3>1. CASE n \in 0..k
      BY <2>2, <3>1
    <3>2. CASE n = k + 1
      BY <3>2
    <3> QED BY <3>1, <3>2
  <2>5. G = [n \in 0..(k + 1) |-> Taken(s, D, G, n)]
    <3>1. \A n \in 0..(k + 1) : G[n] = [i \in 0..(k + 1) |-> Taken(s, D, G, i)][n]
      BY <2>4
    <3>2. DOMAIN G = 0..(k + 1)
      OBVIOUS
    <3> QED BY <3>1, <3>2, Zenon
  <2> HIDE DEF G
  <2> QED BY <2>5
<1> HIDE DEF S
<1>3. Nat \subseteq S
  BY <1>1, <1>2, Induction
<1> QED BY <1>3 DEF S

LEMMA WithoutIsLeft ==
  ASSUME NEW s, NEW D, Len(s) \in Nat
  PROVE  \E F : F = [n \in 0..Len(s) |-> Taken(s, D, F, n)] /\ Without(s, D) = F[Len(s)]
<1> DEFINE L == CHOOSE F : F = [n \in 0..Len(s) |-> Taken(s, D, F, n)]
<1>1. L = [n \in 0..Len(s) |-> Taken(s, D, L, n)]
  BY LeftExists
<1>2. Without(s, D) = L[Len(s)]
  BY DEF Without, Taken
<1> HIDE DEF L
<1> QED BY <1>1, <1>2

\* What is left are the rows that were not to be taken, and no row twice.
LEMMA WithoutRows ==
  ASSUME NEW S, NEW s \in Seq(S), NEW D
  PROVE  /\ Without(s, D) \in Seq(S) /\ ToSet(Without(s, D)) = ToSet(s) \ D
         /\ IsInjective(s) => IsInjective(Without(s, D))
<1>1. Len(s) \in Nat /\ DOMAIN s = 1..Len(s) /\ \A n \in 1..Len(s) : s[n] \in S
  BY LenProperties, ElementOfSeq
<1>2. PICK F : F = [n \in 0..Len(s) |-> Taken(s, D, F, n)] /\ Without(s, D) = F[Len(s)]
  BY <1>1, WithoutIsLeft
<1> DEFINE Seen(n) == {s[i] : i \in 1..n}
           P(n) == n <= Len(s) => /\ F[n] \in Seq(S) /\ ToSet(F[n]) = Seen(n) \ D
                                  /\ IsInjective(s) => IsInjective(F[n])
           T == {n \in Nat : P(n)}
<1>3. F[0] = <<>> /\ \A n \in 1..Len(s) : F[n] = IF s[n] \in D THEN F[n - 1] ELSE Append(F[n - 1], s[n])
  <2>1. \A n \in 0..Len(s) : F[n] = Taken(s, D, F, n)
    BY <1>2
  <2> QED BY <1>1, <2>1 DEF Taken
<1>4. 0 \in T
  <2>1. F[0] \in Seq(S) /\ ToSet(F[0]) = {} /\ IsInjective(F[0])
    BY <1>3 DEF ToSet, IsInjective
  <2>2. Seen(0) = {}
    OBVIOUS
  <2> QED BY <2>1, <2>2
<1>5. ASSUME NEW n \in Nat, n \in T PROVE n + 1 \in T
  <2> SUFFICES ASSUME n + 1 <= Len(s)
               PROVE  /\ F[n + 1] \in Seq(S) /\ ToSet(F[n + 1]) = Seen(n + 1) \ D
                      /\ IsInjective(s) => IsInjective(F[n + 1])
    OBVIOUS
  <2>1. n + 1 \in 1..Len(s) /\ (n + 1) - 1 = n /\ n <= Len(s)
    BY <1>1
  <2>2. /\ F[n] \in Seq(S) /\ ToSet(F[n]) = Seen(n) \ D
        /\ IsInjective(s) => IsInjective(F[n])
    BY <1>5, <2>1
  <2>3. Seen(n + 1) = Seen(n) \cup {s[n + 1]}
    <3>1. 1..(n + 1) = (1..n) \cup {n + 1}
      OBVIOUS
    <3> QED BY <3>1
  <2>4. IsInjective(s) => s[n + 1] \notin Seen(n)
    BY <1>1, <2>1 DEF IsInjective
  <2>5. s[n + 1] \in S
    BY <1>1, <2>1
  <2>6. F[n + 1] = IF s[n + 1] \in D THEN F[n] ELSE Append(F[n], s[n + 1])
    BY <1>3, <2>1
  <2> HIDE DEF Seen
  <2>7. CASE s[n + 1] \in D
    BY <2>2, <2>3, <2>6, <2>7
  <2>8. CASE s[n + 1] \notin D
    <3>1. F[n + 1] = Append(F[n], s[n + 1])
      BY <2>6, <2>8
    <3>2. F[n + 1] \in Seq(S)
      BY <2>2, <2>5, <3>1, AppendProperties
    <3>3. ToSet(F[n + 1]) = ToSet(F[n]) \cup {s[n + 1]}
      BY <2>2, <2>5, <3>1, ToSetAppend
    <3>4. IsInjective(s) => IsInjective(F[n + 1])
      BY <2>2, <2>4, <2>5, <3>1, ToSetAppend
    <3> QED BY <2>2, <2>3, <2>8, <3>2, <3>3, <3>4
  <2> QED BY <2>7, <2>8
<1>6. P(Len(s))
  <2> HIDE DEF P
  <2>1. Nat \subseteq T
    <3> HIDE DEF T
    <3> QED BY <1>4, <1>5, Induction
  <2> QED BY <1>1, <2>1
<1>7. Seen(Len(s)) = ToSet(s)
  BY <1>1 DEF ToSet
<1> HIDE DEF Seen
<1> QED BY <1>1, <1>2, <1>6, <1>7

-----------------------------------------------------------------------------
(* Prefixes *)

LEMMA PrefixPoints ==
  ASSUME NEW S, NEW s \in Seq(S), NEW t \in Seq(S)
  PROVE  IsPrefix(s, t) <=> Len(s) <= Len(t) /\ \A i \in 1..Len(s) : s[i] = t[i]
<1>1. Len(s) \in Nat /\ Len(t) \in Nat
  BY LenProperties
<1>2. SubSeq(s, 1, Len(s)) = [i \in 1..Len(s) |-> s[i]]
  BY <1>1
<1>3. Len(s) <= Len(t) => SubSeq(t, 1, Len(s)) = [i \in 1..Len(s) |-> t[i]]
  BY <1>1
<1>4. \A F, G : F = [i \in 1..Len(s) |-> s[i]] /\ G = [i \in 1..Len(s) |-> t[i]]
                  => (F = G <=> \A i \in 1..Len(s) : s[i] = t[i])
  <2> SUFFICES ASSUME NEW F, NEW G, F = [i \in 1..Len(s) |-> s[i]], G = [i \in 1..Len(s) |-> t[i]]
               PROVE  F = G <=> \A i \in 1..Len(s) : s[i] = t[i]
    OBVIOUS
  <2> QED OBVIOUS
<1> QED BY <1>2, <1>3, <1>4 DEF IsPrefix

LEMMA PrefixItself ==
  ASSUME NEW S, NEW s \in Seq(S) PROVE IsPrefix(s, s)
BY PrefixPoints, LenProperties

LEMMA PrefixTransitive ==
  ASSUME NEW S, NEW s \in Seq(S), NEW t \in Seq(S), NEW u \in Seq(S), IsPrefix(s, t), IsPrefix(t, u)
  PROVE  IsPrefix(s, u)
<1>1. Len(s) \in Nat /\ Len(t) \in Nat /\ Len(u) \in Nat
  BY LenProperties
<1> QED BY <1>1, PrefixPoints

LEMMA PrefixAppend ==
  ASSUME NEW S, NEW s \in Seq(S), NEW t \in Seq(S), NEW r \in S, IsPrefix(s, t)
  PROVE  IsPrefix(s, Append(t, r))
<1> DEFINE u == Append(t, r)
<1>1. u \in Seq(S) /\ Len(u) = Len(t) + 1 /\ \A i \in 1..Len(t) : u[i] = t[i]
  BY AppendProperties
<1> HIDE DEF u
<1>2. Len(t) \in Nat /\ Len(t) <= Len(u)
  BY <1>1, LenProperties
<1>3. IsPrefix(t, u)
  BY <1>1, <1>2, PrefixPoints
<1>4. IsPrefix(s, u)
  BY <1>1, <1>3, PrefixTransitive
<1> QED BY <1>4 DEF u

LEMMA PrefixRows ==
  ASSUME NEW S, NEW s \in Seq(S), NEW t \in Seq(S), IsPrefix(s, t)
  PROVE  ToSet(s) \subseteq ToSet(t)
<1>1. /\ Len(s) \in Nat /\ Len(t) \in Nat /\ Len(s) <= Len(t) /\ \A i \in 1..Len(s) : s[i] = t[i]
      /\ DOMAIN s = 1..Len(s) /\ DOMAIN t = 1..Len(t)
  BY PrefixPoints, LenProperties
<1> QED BY <1>1 DEF ToSet

LEMMA PrefixAntisymmetric ==
  ASSUME NEW S, NEW s \in Seq(S), NEW t \in Seq(S), IsPrefix(s, t), Len(t) <= Len(s)
  PROVE  s = t
<1>1. Len(s) \in Nat /\ Len(t) \in Nat /\ Len(s) = Len(t) /\ \A i \in 1..Len(s) : s[i] = t[i]
  BY PrefixPoints, LenProperties
<1> QED BY <1>1, SeqEqual

-----------------------------------------------------------------------------
(* Plans and what is published under them *)

LEMMA PlanFacts ==
  ASSUME RecoveryInv, NEW p \in Plans, plan[p] # None
  PROVE  /\ plan[p] \in Seq(Rows) /\ IsInjective(plan[p]) /\ ~Clean(plan[p])
         /\ ToSet(plan[p]) \subseteq ever
         /\ Repaired(plan[p]) \in Seq(Rows) /\ IsInjective(Repaired(plan[p]))
         /\ ToSet(Repaired(plan[p])) = ToSet(plan[p]) \ Bad /\ Clean(Repaired(plan[p]))
<1>1. plan[p] \in Seq(Rows) /\ IsInjective(plan[p]) /\ ~Clean(plan[p]) /\ ToSet(plan[p]) \subseteq ever
  BY DEF RecoveryInv, TypeOK, PlansFounded
<1> QED BY <1>1, WithoutRows DEF Repaired, Clean

Published == {"original", "intent"} \cup Bad

LEMMA EvidenceIs ==
  ASSUME RecoveryInv, NEW p \in Plans, plan[p] # None
  PROVE  /\ Evidence(p) \in Seq(Published) /\ Len(Evidence(p)) \in Nat \ {0}
         /\ DOMAIN Evidence(p) = 1..Len(Evidence(p))
         /\ {"original", "intent"} \subseteq ToSet(Evidence(p))
         /\ tool = "overlay" => ToSet(plan[p]) \cap Bad \subseteq ToSet(Evidence(p))
<1>1. CASE tool = "card"
  <2>1. Evidence(p) = <<"original", "intent">>
    BY <1>1 DEF Evidence
  <2>2. Evidence(p) \in Seq(Published) /\ Len(Evidence(p)) = 2 /\ DOMAIN Evidence(p) = 1..2
    BY <2>1 DEF Published
  <2>3. Evidence(p)[1] = "original" /\ Evidence(p)[2] = "intent"
    BY <2>1
  <2> QED BY <1>1, <2>2, <2>3 DEF ToSet
<1>2. CASE tool # "card"
  <2> DEFINE R == Rejected(plan[p])
  <2>1. Evidence(p) = <<"original">> \o R \o <<"intent">>
    BY <1>2 DEF Evidence
  <2>2. R \in Seq(Rows) /\ ToSet(R) = ToSet(plan[p]) \ (Rows \ Bad)
    BY PlanFacts, WithoutRows DEF Rejected
  <2>3. ToSet(plan[p]) \subseteq Rows
    BY PlanFacts DEF ToSet
  <2>4. ToSet(R) = ToSet(plan[p]) \cap Bad
    BY <2>2, <2>3, RowsKnown
  <2> HIDE DEF R
  <2>5. R \in Seq(Published) /\ Len(R) \in Nat /\ DOMAIN R = 1..Len(R)
    <3>1. Len(R) \in Nat /\ DOMAIN R = 1..Len(R) /\ R = [i \in 1..Len(R) |-> R[i]]
      BY <2>2, LenProperties
    <3>2. \A i \in 1..Len(R) : R[i] \in Published
      BY <2>4, <3>1 DEF ToSet, Published
    <3> QED BY <3>1, <3>2, IsASeq
  <2>6. /\ Evidence(p) \in Seq(Published) /\ Len(Evidence(p)) = Len(R) + 2
        /\ Evidence(p)[1] = "original" /\ Evidence(p)[Len(R) + 2] = "intent"
        /\ \A i \in 1..Len(R) : Evidence(p)[i + 1] = R[i]
    <3>1. <<"original">> \in Seq(Published) /\ <<"intent">> \in Seq(Published)
      BY DEF Published
    <3> DEFINE A == <<"original">> \o R
    <3>2. /\ A \in Seq(Published) /\ Len(A) = Len(R) + 1 /\ A[1] = "original"
          /\ \A i \in 1..Len(R) : A[i + 1] = R[i]
      <4>1. /\ A \in Seq(Published) /\ Len(A) = 1 + Len(R)
            /\ \A i \in 1..(1 + Len(R)) : A[i] = IF i <= 1 THEN <<"original">>[i] ELSE R[i - 1]
        BY <2>5, <3>1, ConcatProperties
      <4>2. A[1] = "original"
        BY <2>5, <4>1
      <4>3. ASSUME NEW i \in 1..Len(R) PROVE A[i + 1] = R[i]
        <5>1. i + 1 \in 1..(1 + Len(R)) /\ ~(i + 1 <= 1) /\ (i + 1) - 1 = i
          BY <2>5
        <5> QED BY <4>1, <5>1
      <4> QED BY <2>5, <4>1, <4>2, <4>3
    <3> HIDE DEF A
    <3>3. /\ A \o <<"intent">> \in Seq(Published) /\ Len(A \o <<"intent">>) = Len(A) + 1
          /\ \A i \in 1..(Len(A) + 1) :
               (A \o <<"intent">>)[i] = IF i <= Len(A) THEN A[i] ELSE <<"intent">>[i - Len(A)]
      BY <3>1, <3>2, ConcatProperties
    <3>4. Evidence(p) = A \o <<"intent">>
      BY <2>1 DEF A
    <3>5. \A i \in 1..Len(A) : Evidence(p)[i] = A[i]
      BY <2>5, <3>2, <3>3, <3>4
    <3>6. Evidence(p)[Len(R) + 2] = "intent"
      <4>1. Len(R) + 2 \in 1..(Len(A) + 1) /\ ~(Len(R) + 2 <= Len(A)) /\ (Len(R) + 2) - Len(A) = 1
        BY <2>5, <3>2
      <4> QED BY <3>3, <3>4, <4>1
    <3>7. 1 \in 1..Len(A) /\ \A i \in 1..Len(R) : i + 1 \in 1..Len(A)
      BY <2>5, <3>2
    <3> QED BY <2>5, <3>2, <3>3, <3>4, <3>5, <3>6, <3>7
  <2>7. DOMAIN Evidence(p) = 1..(Len(R) + 2) /\ 1 \in DOMAIN Evidence(p) /\ Len(R) + 2 \in DOMAIN Evidence(p)
    BY <2>5, <2>6, LenProperties
  <2>8. {"original", "intent"} \subseteq ToSet(Evidence(p))
    BY <2>6, <2>7 DEF ToSet
  <2>9. ToSet(R) \subseteq ToSet(Evidence(p))
    <3> SUFFICES ASSUME NEW i \in 1..Len(R) PROVE R[i] \in ToSet(Evidence(p))
      BY <2>5 DEF ToSet
    <3>1. i + 1 \in DOMAIN Evidence(p)
      BY <2>5, <2>7
    <3> QED BY <2>6, <3>1 DEF ToSet
  <2> QED BY <2>4, <2>5, <2>6, <2>7, <2>8, <2>9
<1> QED BY <1>1, <1>2

\* A publication touches the artifact it names.
LEMMA ArtWrite ==
  ASSUME RecoveryInv, NEW q \in Plans, NEW n \in Artifacts, NEW v \in ArtStates,
         art' = [art EXCEPT ![q][n] = v]
  PROVE  /\ art' \in [Plans -> [Artifacts -> ArtStates]]
         /\ \A p \in Plans, m \in Artifacts : art'[p][m] = IF p = q /\ m = n THEN v ELSE art[p][m]
BY DEF RecoveryInv, TypeOK

-----------------------------------------------------------------------------
(* Initially *)

LEMMA InitInv == Init => RecoveryInv
<1> SUFFICES ASSUME Init PROVE RecoveryInv
  OBVIOUS
<1>1. /\ Start \in Seq(Rows) /\ IsInjective(Start) /\ ~Clean(Start) /\ ToSet(Start) \subseteq Rows
      /\ MaxOther \in Nat /\ MaxForeign \in Nat /\ MaxFaults \in Nat
  BY RowsKnown DEF Clean, ToSet
<1>2. job = Idle /\ Idle \in Jobs /\ Idle.pc = "idle" /\ Idle.kind = "apply"
  BY DEF Init, Idle, Jobs
<1>3. \A p \in Plans : plan[p] # None => plan[p] = Start /\ tool = "card" /\ p = Pinned
  BY DEF Init
<1>4. \A p \in Plans, n \in Artifacts : art[p][n] = "absent"
  BY DEF Init
<1>5. art \in [Plans -> [Artifacts -> ArtStates]]
  BY DEF Init, ArtStates
<1>6. TypeOK
  BY <1>1, <1>2, <1>3, <1>5 DEF Init, TypeOK
<1>7. PlansFounded
  BY <1>1, <1>3 DEF Init, PlansFounded
<1>8. JobFounded /\ EvidenceKept /\ ImageInFront
  BY <1>2 DEF JobFounded, EvidenceKept, ImageInFront, Replacing
<1>9. ReceiptsOrdered
  BY <1>2, <1>4 DEF ReceiptsOrdered, Kept, Replacing, Holding, Artifacts, Names
<1>10. CleanIsApplied /\ SnapshotFits
  BY <1>1 DEF Init, CleanIsApplied, SnapshotFits
<1>11. NoEventLost /\ EvidenceFirst
  BY DEF Init, NoEventLost, EvidenceFirst
<1> QED BY <1>6, <1>7, <1>8, <1>9, <1>10, <1>11 DEF RecoveryInv

-----------------------------------------------------------------------------
(* What steps leave alone *)

\* A step that at most publishes keeps what the log and the plans promise, unless it
\* closes a plan under a clean log.
LEMMA LogKept ==
  ASSUME RecoveryInv, UNCHANGED <<tool, shard, plan, ever, raced>>,
         \A p \in Plans, n \in Artifacts :
           /\ art[p][n] # "absent" => art'[p][n] # "absent"
           /\ art[p][n] = "kept" => art'[p][n] = "kept",
         Clean(shard) => \A p \in Plans :
           art'[p]["back_receipt"] = "kept" => art[p]["back_receipt"] = "kept"
  PROVE  PlansFounded' /\ CleanIsApplied' /\ NoEventLost' /\ EvidenceFirst'
<1>1. PlansFounded' /\ NoEventLost'
  BY DEF RecoveryInv, PlansFounded, NoEventLost, Clean
<1>2. CleanIsApplied'
  <2> SUFFICES ASSUME Clean(shard) PROVE \E p \in Plans : Applied(p)'
    BY DEF CleanIsApplied, Clean
  <2>1. PICK p \in Plans : Applied(p)
    BY DEF RecoveryInv, CleanIsApplied
  <2>2. Evidence(p)' = Evidence(p)
    BY DEF Evidence
  <2>3. \A n \in ToSet(Evidence(p)) : n \in Artifacts
    BY <2>1, EvidenceIs DEF Applied, ToSet, Published, Artifacts, Names
  <2>4. \A n \in ToSet(Evidence(p)) : Kept(p, n)'
    BY <2>1, <2>3 DEF Applied, Kept
  <2>5. ~Kept(p, "back_receipt")'
    BY <2>1 DEF Applied, Kept
  <2> QED BY <2>1, <2>2, <2>4, <2>5 DEF Applied
<1>3. EvidenceFirst'
  <2> SUFFICES ASSUME NEW b \in ever \cap Bad, b \notin ToSet(shard) \cup raced
               PROVE  \E p \in Plans :
                        /\ plan[p] # None /\ b \in ToSet(plan[p])
                        /\ \A n \in {"original", "intent"} \cup (IF tool = "overlay" THEN {b} ELSE {}) :
                             art'[p][n] # "absent"
    BY DEF EvidenceFirst
  <2>1. PICK p \in Plans :
          /\ plan[p] # None /\ b \in ToSet(plan[p])
          /\ \A n \in {"original", "intent"} \cup (IF tool = "overlay" THEN {b} ELSE {}) :
               art[p][n] # "absent"
    BY DEF RecoveryInv, EvidenceFirst
  <2>2. {"original", "intent"} \cup (IF tool = "overlay" THEN {b} ELSE {}) \subseteq Artifacts
    BY DEF Artifacts, Names
  <2>3. \A n \in {"original", "intent"} \cup (IF tool = "overlay" THEN {b} ELSE {}) : art'[p][n] # "absent"
    BY <2>1, <2>2
  <2> QED BY <2>1, <2>3
<1> QED BY <1>1, <1>2, <1>3

\* A step that moves nothing but the call, the authority, another log or a count.
LEMMA JobMoves ==
  ASSUME RecoveryInv, UNCHANGED <<tool, shard, plan, art, snapshot, ever, raced>>,
         auth' \in BOOLEAN, other' \in 0..MaxOther, foreign' \in 0..MaxForeign, faults' \in 0..MaxFaults,
         job' \in Jobs, JobFounded', EvidenceKept', ImageInFront',
         job'.pc \in Holding /\ job'.kind = "rollback" => Kept(job'.p, "receipt"),
         job'.pc \in Replacing => /\ ~Kept(job'.p, "back_receipt")
                                  /\ job'.kind = "apply" => ~Kept(job'.p, "receipt")
  PROVE  RecoveryInv'
<1>1. TypeOK'
  BY DEF RecoveryInv, TypeOK
<1>2. PlansFounded' /\ CleanIsApplied' /\ NoEventLost' /\ EvidenceFirst'
  BY LogKept
<1>3. ReceiptsOrdered'
  BY DEF RecoveryInv, ReceiptsOrdered, Kept
<1>4. SnapshotFits'
  BY DEF RecoveryInv, SnapshotFits, Kept, Clean
<1> QED BY <1>1, <1>2, <1>3, <1>4 DEF RecoveryInv

\* A call that is over makes no claims.
LEMMA IdleMakesNoClaims ==
  ASSUME job' = Idle
  PROVE  job' \in Jobs /\ JobFounded' /\ EvidenceKept' /\ ImageInFront' /\ job'.pc \notin Holding \cup Replacing
BY DEF Idle, Jobs, JobFounded, EvidenceKept, ImageInFront, Holding, Replacing

LEMMA JobEnds ==
  ASSUME RecoveryInv, UNCHANGED <<tool, shard, other, plan, art, snapshot, auth, ever, raced, foreign>>,
         faults' \in 0..MaxFaults, job' = Idle
  PROVE  RecoveryInv'
BY IdleMakesNoClaims, JobMoves DEF RecoveryInv, TypeOK

\* A step that leaves the call alone as well.
LEMMA OutsideMoves ==
  ASSUME RecoveryInv, UNCHANGED <<tool, shard, plan, art, snapshot, job, ever, raced>>,
         auth' \in BOOLEAN, other' \in 0..MaxOther, foreign' \in 0..MaxForeign, faults' \in 0..MaxFaults
  PROVE  RecoveryInv'
<1>1. job' \in Jobs
  BY DEF RecoveryInv, TypeOK
<1>2. JobFounded' /\ EvidenceKept' /\ ImageInFront'
  BY DEF RecoveryInv, JobFounded, EvidenceKept, ImageInFront, ToPublish, Evidence, Kept
<1>3. /\ job'.pc \in Holding /\ job'.kind = "rollback" => Kept(job'.p, "receipt")
      /\ job'.pc \in Replacing => /\ ~Kept(job'.p, "back_receipt")
                                  /\ job'.kind = "apply" => ~Kept(job'.p, "receipt")
  BY DEF RecoveryInv, ReceiptsOrdered
<1> QED BY <1>1, <1>2, <1>3, JobMoves

-----------------------------------------------------------------------------
(* The writers of the log *)

LEMMA AppendKeeps ==
  ASSUME RecoveryInv, NEW r \in Rows \ ever,
         shard' = Append(shard, r), ever' = ever \cup {r}, foreign' \in 0..MaxForeign,
         UNCHANGED <<tool, other, plan, art, snapshot, auth, job, raced, faults>>
  PROVE  RecoveryInv'
<1>1. /\ shard \in Seq(Rows) /\ IsInjective(shard) /\ ToSet(shard) \subseteq ever /\ ever \subseteq Rows
      /\ raced \subseteq ever
  BY DEF RecoveryInv, TypeOK
<1>2. shard' \in Seq(Rows) /\ ToSet(shard)' = ToSet(shard) \cup {r} /\ IsInjective(shard')
  BY <1>1, ToSetAppend, AppendProperties
<1>3. \A s \in Seq(Rows) : IsPrefix(s, shard) => IsPrefix(s, shard')
  BY <1>1, PrefixAppend
<1>4. TypeOK'
  BY <1>1, <1>2 DEF RecoveryInv, TypeOK
<1>5. PlansFounded'
  BY DEF RecoveryInv, PlansFounded, Clean
<1>6. JobFounded' /\ EvidenceKept' /\ ReceiptsOrdered'
  BY DEF RecoveryInv, JobFounded, EvidenceKept, ReceiptsOrdered, ToPublish, Evidence, Kept
<1>7. ImageInFront'
  <2> SUFFICES ASSUME job.pc = "record"
               PROVE  IsPrefix(IF job.kind = "apply" THEN Repaired(plan[job.p]) ELSE plan[job.p], shard')
    BY DEF ImageInFront
  <2>1. job.p \in Plans /\ plan[job.p] # None
    BY DEF RecoveryInv, JobFounded
  <2>2. Repaired(plan[job.p]) \in Seq(Rows) /\ plan[job.p] \in Seq(Rows)
    BY <2>1, PlanFacts
  <2> QED BY <1>3, <2>2 DEF RecoveryInv, ImageInFront
<1>8. Clean(shard)' => Clean(shard)
  BY <1>2 DEF Clean
<1>9. CleanIsApplied'
  <2> SUFFICES ASSUME Clean(shard) PROVE \E p \in Plans : Applied(p)'
    BY <1>8 DEF CleanIsApplied
  <2>1. PICK p \in Plans : Applied(p)
    BY DEF RecoveryInv, CleanIsApplied
  <2>2. Evidence(p)' = Evidence(p)
    BY DEF Evidence
  <2>3. Repaired(plan[p]) \in Seq(Rows)
    BY <2>1, PlanFacts DEF Applied
  <2> DEFINE from == Len(Repaired(plan[p])) + 1
  <2>4. from \in Nat
    BY <2>3, LenProperties
  <2>5. \A i \in from..Len(shard), q \in Plans : plan[q] # None => shard[i] \notin ToSet(plan[q])
    BY <2>1 DEF Applied
  <2> HIDE DEF from
  <2>6. Len(shard') = Len(shard) + 1 /\ Len(shard) \in Nat /\ shard'[Len(shard) + 1] = r
        /\ \A i \in 1..Len(shard) : shard'[i] = shard[i]
    BY <1>1, AppendProperties, LenProperties
  <2>7. \A i \in from..Len(shard'), q \in Plans : plan[q] # None => shard'[i] \notin ToSet(plan[q])
    <3> SUFFICES ASSUME NEW i \in from..Len(shard'), NEW q \in Plans, plan[q] # None
                 PROVE  shard'[i] \notin ToSet(plan[q])
      OBVIOUS
    <3>1. CASE i = Len(shard) + 1
      BY <2>6, <3>1, PlanFacts
    <3>2. CASE i # Len(shard) + 1
      <4>1. i \in from..Len(shard) /\ i \in 1..Len(shard)
        BY <2>3, <2>4, <2>6, <3>2, LenProperties DEF from
      <4> QED BY <2>5, <2>6, <4>1
    <3> QED BY <3>1, <3>2
  <2>8. \A n \in ToSet(Evidence(p)) : Kept(p, n)'
    BY <2>1 DEF Applied, Kept
  <2>9. IsPrefix(Repaired(plan[p]), shard') /\ ~Kept(p, "back_receipt")' /\ plan[p] # None
    BY <1>3, <2>1, <2>3 DEF Applied, Kept
  <2>10. \A i \in (Len(Repaired(plan[p])) + 1)..Len(shard'), q \in Plans :
           plan[q] # None => shard'[i] \notin ToSet(plan[q])
    BY <2>7 DEF from
  <2> QED BY <2>2, <2>8, <2>9, <2>10 DEF Applied
<1>10. SnapshotFits'
  <2> SUFFICES ASSUME tool = "card", Kept(Pinned, "receipt"), Clean(shard)
               PROVE  /\ snapshot # None
                      /\ IsPrefix(snapshot[1], shard') /\ IsPrefix(Repaired(plan[Pinned]), snapshot[1])
    BY <1>8 DEF SnapshotFits, Kept
  <2>1. /\ snapshot # None
        /\ IsPrefix(snapshot[1], shard) /\ IsPrefix(Repaired(plan[Pinned]), snapshot[1])
    BY DEF RecoveryInv, SnapshotFits
  <2>2. snapshot[1] \in Seq(Rows)
    BY <2>1 DEF RecoveryInv, TypeOK
  <2> QED BY <1>3, <2>1, <2>2
<1>11. NoEventLost'
  BY <1>2 DEF RecoveryInv, NoEventLost
<1>12. EvidenceFirst'
  BY <1>2 DEF RecoveryInv, EvidenceFirst
<1> QED BY <1>4, <1>5, <1>6, <1>7, <1>9, <1>10, <1>11, <1>12 DEF RecoveryInv

LEMMA SavePlanKeeps ==
  ASSUME RecoveryInv, NEW p \in Plans, SavePlan(p)
  PROVE  RecoveryInv'
<1>1. /\ tool = "overlay" /\ plan[p] = None /\ ~Clean(shard)
      /\ UNCHANGED <<tool, shard, other, snapshot, auth, job, ever, raced, foreign>>
      /\ faults' \in 0..MaxFaults
  BY RowsKnown DEF SavePlan, Fault, RecoveryInv, TypeOK
<1>2. /\ shard \in Seq(Rows) /\ IsInjective(shard) /\ ToSet(shard) \subseteq ever /\ DOMAIN plan = Plans
  BY DEF RecoveryInv, TypeOK
<1>3. plan' = [plan EXCEPT ![p] = shard]
  BY DEF SavePlan
<1>4. DOMAIN plan' = Plans /\ plan'[p] = shard /\ \A q \in Plans \ {p} : plan'[q] = plan[q]
  BY <1>2, <1>3
<1>5. /\ art' \in [Plans -> [Artifacts -> ArtStates]]
      /\ \A q \in Plans, n \in Artifacts : q # p \/ n # "plan" => art'[q][n] = art[q][n]
  <2>1. PICK v \in ArtStates : art' = [art EXCEPT ![p]["plan"] = v]
    BY DEF SavePlan, ArtStates
  <2>2. "plan" \in Artifacts
    BY DEF Artifacts, Names
  <2> QED BY <2>1, <2>2, ArtWrite
<1>6. \A q \in Plans : plan[q] # None => q # p /\ plan'[q] = plan[q] /\ Evidence(q)' = Evidence(q)
                                         /\ \A n \in Artifacts : art'[q][n] = art[q][n]
  <2> SUFFICES ASSUME NEW q \in Plans, plan[q] # None
               PROVE  q # p /\ plan'[q] = plan[q] /\ Evidence(q)' = Evidence(q)
                      /\ \A n \in Artifacts : art'[q][n] = art[q][n]
    OBVIOUS
  <2>1. q # p /\ plan'[q] = plan[q]
    BY <1>1, <1>4
  <2>2. Evidence(q)' = Evidence(q)
    BY <1>1, <2>1 DEF Evidence
  <2> QED BY <1>5, <2>1, <2>2
<1>7. \A q \in Plans : /\ Kept(q, "receipt")' = Kept(q, "receipt")
                       /\ Kept(q, "back_receipt")' = Kept(q, "back_receipt")
  BY <1>5 DEF Kept, Artifacts, Names
<1>8. TypeOK'
  <2>1. \A q \in Plans : plan'[q] # None => plan'[q] \in Seq(Rows) /\ IsInjective(plan'[q])
    BY <1>2, <1>4 DEF RecoveryInv, TypeOK
  <2> QED BY <1>1, <1>4, <1>5, <2>1 DEF RecoveryInv, TypeOK
<1>9. PlansFounded'
  <2>1. \A q \in Plans : plan'[q] # None => ToSet(plan'[q]) \cap Bad # {} /\ ToSet(plan'[q]) \subseteq ever
    BY <1>1, <1>2, <1>4 DEF RecoveryInv, PlansFounded, Clean
  <2> QED BY <1>1, <2>1 DEF PlansFounded, Clean
<1>10. JobFounded'
  BY <1>1, <1>6 DEF RecoveryInv, JobFounded, ToPublish, Replacing
<1>11. ReceiptsOrdered'
  BY <1>1, <1>7 DEF RecoveryInv, ReceiptsOrdered, JobFounded, Holding, Replacing
<1>12. EvidenceKept'
  <2> SUFFICES ASSUME job.pc \in {"evidence", "check", "replace", "record"} PROVE EvidenceKept'
    BY <1>1 DEF EvidenceKept
  <2>1. PICK q \in Plans : q = job.p /\ plan[q] # None
    BY DEF RecoveryInv, JobFounded
  <2>2. Evidence(q)' = Evidence(q) /\ \A n \in Artifacts : Kept(q, n) => art'[q][n] = "kept"
    BY <1>6, <2>1 DEF Kept
  <2>3. ToSet(Evidence(q)) \subseteq Artifacts
    BY <2>1, EvidenceIs DEF ToSet, Published, Artifacts, Names
  <2>4. job.pc = "evidence" /\ job.kind = "apply" =>
          \A j \in 1..(job.at - 1) : Evidence(q)[j] \in Artifacts
    <3> SUFFICES ASSUME job.pc = "evidence", job.kind = "apply", NEW j \in 1..(job.at - 1)
                 PROVE  Evidence(q)[j] \in Artifacts
      OBVIOUS
    <3>1. job.at \in 1..Len(Evidence(q))
      BY <2>1 DEF RecoveryInv, JobFounded, ToPublish
    <3>2. j \in DOMAIN Evidence(q)
      BY <2>1, <3>1, EvidenceIs
    <3> QED BY <2>3, <3>2 DEF ToSet
  <2> QED BY <1>1, <2>1, <2>2, <2>3, <2>4 DEF RecoveryInv, EvidenceKept, Kept
<1>13. ImageInFront'
  BY <1>1, <1>6 DEF RecoveryInv, ImageInFront, JobFounded
<1>14. CleanIsApplied' /\ SnapshotFits'
  BY <1>1 DEF CleanIsApplied, SnapshotFits, Clean
<1>15. NoEventLost'
  BY <1>1 DEF RecoveryInv, NoEventLost
<1>16. EvidenceFirst'
  <2> SUFFICES ASSUME NEW b \in ever \cap Bad, b \notin ToSet(shard) \cup raced
               PROVE  \E q \in Plans :
                        /\ plan'[q] # None /\ b \in ToSet(plan'[q])
                        /\ \A n \in {"original", "intent"} \cup (IF tool = "overlay" THEN {b} ELSE {}) :
                             art'[q][n] # "absent"
    BY <1>1 DEF EvidenceFirst
  <2>1. PICK q \in Plans :
          /\ plan[q] # None /\ b \in ToSet(plan[q])
          /\ \A n \in {"original", "intent"} \cup (IF tool = "overlay" THEN {b} ELSE {}) :
               art[q][n] # "absent"
    BY DEF RecoveryInv, EvidenceFirst
  <2>2. {"original", "intent"} \cup (IF tool = "overlay" THEN {b} ELSE {}) \subseteq Artifacts
    BY DEF Artifacts, Names
  <2> QED BY <1>6, <2>1, <2>2
<1> QED BY <1>8, <1>9, <1>10, <1>11, <1>12, <1>13, <1>14, <1>15, <1>16 DEF RecoveryInv

-----------------------------------------------------------------------------
(* The calls *)

LEMMA BeginKeeps ==
  ASSUME RecoveryInv, NEW kind \in {"apply", "rollback"}, NEW p \in Plans, Begin(kind, p)
  PROVE  RecoveryInv'
<1>1. /\ job' = [pc |-> "locking", kind |-> kind, p |-> p, at |-> 0, raw |-> <<>>]
      /\ plan[p] # None
      /\ UNCHANGED <<tool, shard, other, plan, art, snapshot, auth, ever, raced, foreign, faults>>
  BY DEF Begin, Idle
<1>2. job' \in Jobs /\ job'.pc = "locking" /\ job'.p = p
  BY <1>1 DEF Jobs
<1>3. JobFounded' /\ EvidenceKept' /\ ImageInFront'
  BY <1>1, <1>2 DEF JobFounded, EvidenceKept, ImageInFront, Replacing
<1> QED BY <1>1, <1>2, <1>3, JobMoves DEF Holding, Replacing, RecoveryInv, TypeOK

LEMMA DecideKeeps ==
  ASSUME RecoveryInv, Decide
  PROVE  RecoveryInv'
<1>0. PICK q \in Plans : q = job.p
  BY DEF Decide, RecoveryInv, JobFounded
<1> DEFINE work(x) == job' = [job EXCEPT !.pc = x, !.at = 1, !.raw = shard]
<1>1. /\ UNCHANGED <<tool, shard, other, plan, art, snapshot, auth, ever, raced, foreign, faults>>
      /\ job \in Jobs /\ plan[q] # None /\ job.kind \in {"apply", "rollback"}
      /\ shard \in Seq(Rows) /\ faults \in 0..MaxFaults
  BY <1>0 DEF Decide, RecoveryInv, JobFounded, TypeOK, Jobs
<1>2. /\ plan[q] \in Seq(Rows) /\ Repaired(plan[q]) \in Seq(Rows)
      /\ IsPrefix(plan[q], plan[q]) /\ IsPrefix(Repaired(plan[q]), Repaired(plan[q]))
  BY <1>1, PlanFacts, PrefixItself
<1>3. \/ job' = Idle
      \/ job.kind = "apply" /\ \E x \in {"evidence", "record"} : ApplyPath(q) = x /\ work(x)
      \/ /\ job.kind = "rollback" /\ Kept(q, "receipt")
         /\ \E x \in {"evidence", "verify", "record"} : RollbackPath(q) = x /\ work(x)
  <2>1. job.kind = "apply" => ApplyPath(q) \in {"refuse", "return", "evidence", "record"}
    BY DEF ApplyPath
  <2>2. RollbackPath(q) \in {"refuse", "return", "evidence", "verify", "record"}
    BY DEF RollbackPath, RollbackOverlay, RollbackCard
  <2> QED BY <1>0, <1>1, <2>1, <2>2 DEF Decide
<1>4. CASE job' = Idle
  BY <1>1, <1>4, JobEnds
<1>5. ASSUME NEW x \in {"evidence", "verify", "record"}, work(x)
      PROVE  /\ job' \in Jobs /\ job'.pc = x /\ job'.kind = job.kind /\ job'.p = q /\ job'.at = 1
             /\ job'.raw = shard
  BY <1>0, <1>1, <1>5 DEF Jobs
<1>6. Evidence(q)' = Evidence(q)
  BY <1>1 DEF Evidence
<1>7. CASE job.kind = "apply" /\ \E x \in {"evidence", "record"} : ApplyPath(q) = x /\ work(x)
  <2>1. PICK x \in {"evidence", "record"} : ApplyPath(q) = x /\ work(x)
    BY <1>7
  <2>2. /\ job' \in Jobs /\ job'.pc = x /\ job'.kind = "apply" /\ job'.p = q /\ job'.at = 1
        /\ job'.raw = shard
    BY <1>5, <1>7, <2>1
  <2>3. /\ ~Kept(q, "receipt")
        /\ x = "evidence" => shard = plan[q]
        /\ x = "record" => shard = Repaired(plan[q]) /\ \A n \in ToSet(Evidence(q)) : Kept(q, n)
    BY <2>1 DEF ApplyPath
  <2>4. ~Kept(q, "back_receipt")
    BY <1>1, <2>3 DEF RecoveryInv, ReceiptsOrdered
  <2>5. ToPublish' = Evidence(q) /\ 1 \in 1..Len(Evidence(q))
    BY <1>1, <1>6, <2>2, EvidenceIs DEF ToPublish
  <2>6. JobFounded'
    BY <1>1, <2>2, <2>3, <2>5 DEF JobFounded, Replacing
  <2>7. EvidenceKept'
    <3>1. job'.pc = "evidence" => \A j \in 1..(job'.at - 1) : Kept(q, Evidence(q)[j])'
      BY <2>2
    <3> QED BY <1>1, <1>6, <2>2, <2>3, <3>1 DEF EvidenceKept, Kept
  <2>8. ImageInFront'
    BY <1>1, <1>2, <2>2, <2>3 DEF ImageInFront
  <2> QED BY <1>1, <2>2, <2>3, <2>4, <2>6, <2>7, <2>8, JobMoves DEF Replacing, RecoveryInv, TypeOK
<1>8. CASE /\ job.kind = "rollback" /\ Kept(q, "receipt")
           /\ \E x \in {"evidence", "verify", "record"} : RollbackPath(q) = x /\ work(x)
  <2>1. PICK x \in {"evidence", "verify", "record"} : RollbackPath(q) = x /\ work(x)
    BY <1>8
  <2>2. /\ job' \in Jobs /\ job'.pc = x /\ job'.kind = "rollback" /\ job'.p = q /\ job'.at = 1
        /\ job'.raw = shard
    BY <1>5, <1>8, <2>1
  <2>3. /\ x = "evidence" => shard = Repaired(plan[q]) /\ ~Kept(q, "back_receipt")
        /\ x = "record" => shard = plan[q]
    <3>1. CASE tool = "card"
      <4>1. RollbackCard(q) = x
        BY <2>1, <3>1 DEF RollbackPath
      <4>2. x = "evidence" =>
              /\ ~Kept(q, "back_receipt") /\ snapshot[1] = Repaired(plan[q])
              /\ <<shard, other>> = snapshot
        BY <4>1 DEF RollbackCard
      <4>3. x = "record" => shard = plan[q]
        BY <4>1 DEF RollbackCard
      <4>4. <<shard, other>>[1] = shard
        OBVIOUS
      <4> QED BY <4>2, <4>3, <4>4
    <3>2. CASE tool # "card"
      BY <2>1, <3>2 DEF RollbackPath, RollbackOverlay
    <3> QED BY <3>1, <3>2
  <2>4. ToPublish' = <<"back_intent">> /\ Len(<<"back_intent">>) = 1
    BY <2>2 DEF ToPublish
  <2>5. JobFounded'
    BY <1>1, <2>2, <2>3, <2>4 DEF JobFounded, Replacing
  <2>6. EvidenceKept'
    BY <2>2 DEF EvidenceKept
  <2>7. ImageInFront'
    BY <1>1, <1>2, <2>2, <2>3 DEF ImageInFront
  <2> QED BY <1>1, <1>8, <2>2, <2>3, <2>5, <2>6, <2>7, JobMoves DEF Replacing, RecoveryInv, TypeOK
<1> QED BY <1>3, <1>4, <1>7, <1>8

LEMMA CheckReplaceKeeps ==
  ASSUME RecoveryInv, CheckReplace
  PROVE  RecoveryInv'
<1>1. /\ job' = [job EXCEPT !.pc = "replace"] /\ job.pc = "check" /\ job \in Jobs
      /\ UNCHANGED <<tool, shard, other, plan, art, snapshot, auth, ever, raced, foreign, faults>>
  BY DEF CheckReplace, RecoveryInv, TypeOK
<1>2. /\ job' \in Jobs /\ job'.pc = "replace" /\ job'.kind = job.kind /\ job'.p = job.p
      /\ job'.raw = job.raw
  BY <1>1 DEF Jobs
<1>3. JobFounded' /\ EvidenceKept' /\ ImageInFront'
  BY <1>1, <1>2 DEF RecoveryInv, JobFounded, EvidenceKept, ImageInFront, Replacing, Evidence, Kept
<1>4. /\ job.kind = "rollback" => Kept(job.p, "receipt")
      /\ ~Kept(job.p, "back_receipt")
      /\ job.kind = "apply" => ~Kept(job.p, "receipt")
  BY <1>1 DEF RecoveryInv, ReceiptsOrdered, Holding, Replacing
<1> QED BY <1>1, <1>2, <1>3, <1>4, JobMoves DEF RecoveryInv, TypeOK

LEMMA VerifyRestoredKeeps ==
  ASSUME RecoveryInv, VerifyRestored
  PROVE  RecoveryInv'
<1>1. /\ job' = [job EXCEPT !.pc = "record"] /\ job.pc = "verify" /\ job \in Jobs /\ shard = plan[job.p]
      /\ UNCHANGED <<tool, shard, other, plan, art, snapshot, auth, ever, raced, foreign, faults>>
  BY DEF VerifyRestored, RecoveryInv, TypeOK
<1>2. job.kind = "rollback" /\ job.p \in Plans /\ plan[job.p] # None /\ Kept(job.p, "receipt")
  BY <1>1 DEF RecoveryInv, JobFounded, ReceiptsOrdered, Holding
<1>3. /\ job' \in Jobs /\ job'.pc = "record" /\ job'.kind = "rollback" /\ job'.p = job.p
  BY <1>1, <1>2 DEF Jobs
<1>4. JobFounded' /\ EvidenceKept'
  BY <1>1, <1>2, <1>3 DEF JobFounded, EvidenceKept, Replacing
<1>5. ImageInFront'
  <2>1. IsPrefix(plan[job.p], plan[job.p])
    BY <1>2, PlanFacts, PrefixItself
  <2> QED BY <1>1, <1>3, <2>1 DEF ImageInFront
<1> QED BY <1>1, <1>2, <1>3, <1>4, <1>5, JobMoves DEF Replacing, RecoveryInv, TypeOK

\* The artifact a call publishes next.
LEMMA NextArtifact ==
  ASSUME RecoveryInv, job.pc = "evidence"
  PROVE  /\ ToPublish[job.at] \in Published \cup {"back_intent"}
         /\ Published \cup {"back_intent"} \subseteq Artifacts \ {"receipt", "back_receipt"}
<1>1. PICK p \in Plans : p = job.p /\ plan[p] # None /\ job.at \in 1..Len(ToPublish)
  BY DEF RecoveryInv, JobFounded
<1>2. job.kind = "apply" => ToPublish[job.at] \in Published
  BY <1>1, EvidenceIs, ElementOfSeq DEF ToPublish
<1>3. job.kind # "apply" => ToPublish[job.at] = "back_intent"
  <2> SUFFICES ASSUME job.kind # "apply" PROVE ToPublish[job.at] = "back_intent"
    OBVIOUS
  <2>1. ToPublish = <<"back_intent">>
    BY DEF ToPublish
  <2>2. job.at = 1
    BY <1>1, <2>1
  <2> QED BY <2>1, <2>2
<1>4. Published \cup {"back_intent"} \subseteq Artifacts \ {"receipt", "back_receipt"}
  BY NamesApart DEF Published, Artifacts, Names
<1> QED BY <1>2, <1>3, <1>4

LEMMA PublishEvidenceKeeps ==
  ASSUME RecoveryInv, PublishEvidence
  PROVE  RecoveryInv'
<1>1. PICK q \in Plans, k \in 1..Len(ToPublish) :
        /\ q = job.p /\ k = job.at /\ job.pc = "evidence" /\ job \in Jobs /\ plan[q] # None
        /\ UNCHANGED <<tool, shard, other, plan, snapshot, auth, ever, raced, foreign, faults>>
  BY DEF PublishEvidence, RecoveryInv, JobFounded, TypeOK
<1> DEFINE n == ToPublish[k]
<1>2. n \in Artifacts \ {"receipt", "back_receipt"}
  BY <1>1, NextArtifact
<1>3. art' = [art EXCEPT ![q][n] = "kept"]
  BY <1>1 DEF PublishEvidence
<1>4. Evidence(q)' = Evidence(q) /\ Len(ToPublish) \in Nat /\ (job.kind = "apply" => n = Evidence(q)[k])
  <2>1. Evidence(q)' = Evidence(q)
    BY <1>1 DEF Evidence
  <2>2. Len(ToPublish) \in Nat
    <3>1. job.kind # "apply" => ToPublish = <<"back_intent">>
      BY DEF ToPublish
    <3>2. job.kind = "apply" => ToPublish = Evidence(q)
      BY <1>1 DEF ToPublish
    <3> QED BY <1>1, <3>1, <3>2, EvidenceIs
  <2> QED BY <1>1, <2>1, <2>2 DEF ToPublish
<1>5. job' = IF k < Len(ToPublish) THEN [job EXCEPT !.at = k + 1] ELSE [job EXCEPT !.pc = "check"]
  BY <1>1 DEF PublishEvidence
<1>6. /\ job' \in Jobs /\ job'.kind = job.kind /\ job'.p = q /\ job'.raw = job.raw
      /\ \/ job'.pc = "evidence" /\ k < Len(ToPublish) /\ job'.at = k + 1
         \/ job'.pc = "check" /\ k = Len(ToPublish)
  <2>1. CASE k < Len(ToPublish)
    <3>1. PICK a \in Nat : a = k + 1
      BY <1>1, <1>4
    <3>2. job' = [job EXCEPT !.at = a]
      BY <1>5, <2>1, <3>1
    <3>3. job \in Jobs /\ job.pc = "evidence" /\ job.p = q
      BY <1>1
    <3>4. /\ job' \in Jobs /\ job'.kind = job.kind /\ job'.p = q /\ job'.raw = job.raw
          /\ job'.pc = "evidence" /\ job'.at = a
      BY <3>1, <3>2, <3>3 DEF Jobs
    <3> QED BY <2>1, <3>1, <3>4
  <2>2. CASE ~(k < Len(ToPublish))
    BY <1>1, <1>4, <1>5, <2>2 DEF Jobs
  <2> QED BY <2>1, <2>2
<1> HIDE DEF n
<1>7. /\ art' \in [Plans -> [Artifacts -> ArtStates]]
      /\ \A p \in Plans, m \in Artifacts : art'[p][m] = IF p = q /\ m = n THEN "kept" ELSE art[p][m]
  <2>1. "kept" \in ArtStates
    BY DEF ArtStates
  <2> QED BY <1>2, <1>3, <2>1, ArtWrite
<1>8. \A p \in Plans : /\ Kept(p, "receipt")' = Kept(p, "receipt")
                       /\ Kept(p, "back_receipt")' = Kept(p, "back_receipt")
  <2>1. "receipt" \in Artifacts /\ "back_receipt" \in Artifacts
    BY DEF Artifacts, Names
  <2>2. n # "receipt" /\ n # "back_receipt"
    BY <1>2
  <2>3. \A p \in Plans : /\ art'[p]["receipt"] = art[p]["receipt"]
                         /\ art'[p]["back_receipt"] = art[p]["back_receipt"]
    BY <1>7, <2>1, <2>2
  <2> QED BY <2>3 DEF Kept
<1>9. TypeOK'
  BY <1>1, <1>6, <1>7 DEF RecoveryInv, TypeOK
<1>10. PlansFounded' /\ CleanIsApplied' /\ NoEventLost' /\ EvidenceFirst'
  <2>1. \A p \in Plans : art'[p]["back_receipt"] = "kept" => art[p]["back_receipt"] = "kept"
    BY <1>8 DEF Kept
  <2>2. \A p \in Plans, m \in Artifacts :
           /\ art[p][m] # "absent" => art'[p][m] # "absent"
           /\ art[p][m] = "kept" => art'[p][m] = "kept"
    BY <1>7
  <2> QED BY <1>1, <2>1, <2>2, LogKept
<1>11. JobFounded'
  <2>1. ToPublish' = ToPublish
    BY <1>1, <1>4, <1>6 DEF ToPublish
  <2>2. k + 1 \in 1..Len(ToPublish) \/ ~(k < Len(ToPublish))
    BY <1>4
  <2> QED BY <1>1, <1>6, <2>1, <2>2 DEF RecoveryInv, JobFounded, Replacing
<1>12. ReceiptsOrdered'
  BY <1>1, <1>6, <1>8 DEF RecoveryInv, ReceiptsOrdered, Holding, Replacing
<1>13. EvidenceKept'
  <2> SUFFICES ASSUME job.kind = "apply"
               PROVE  /\ job'.pc = "evidence" => \A j \in 1..k : art'[q][Evidence(q)[j]] = "kept"
                      /\ job'.pc = "check" => \A m \in ToSet(Evidence(q)) : art'[q][m] = "kept"
    BY <1>4, <1>6 DEF EvidenceKept, Kept
  <2>1. \A j \in 1..Len(Evidence(q)) : Evidence(q)[j] \in Artifacts
    BY <1>1, EvidenceIs, ElementOfSeq DEF Published, Artifacts, Names
  <2>2. \A j \in 1..(k - 1) : art[q][Evidence(q)[j]] = "kept"
    BY <1>1 DEF RecoveryInv, EvidenceKept, Kept
  <2>3. ToPublish = Evidence(q)
    BY <1>1 DEF ToPublish
  <2>4. \A j \in 1..k : art'[q][Evidence(q)[j]] = "kept"
    <3> SUFFICES ASSUME NEW j \in 1..k PROVE art'[q][Evidence(q)[j]] = "kept"
      OBVIOUS
    <3>1. j \in 1..Len(Evidence(q)) /\ (j = k \/ j \in 1..(k - 1))
      BY <1>4, <2>3
    <3>2. Evidence(q)[j] = n \/ art[q][Evidence(q)[j]] = "kept"
      BY <1>4, <2>2, <3>1
    <3> QED BY <1>7, <2>1, <3>1, <3>2
  <2>5. ToSet(Evidence(q)) = {Evidence(q)[j] : j \in 1..Len(Evidence(q))}
    BY <1>1, EvidenceIs DEF ToSet
  <2> QED BY <1>6, <2>3, <2>4, <2>5
<1>14. ImageInFront'
  BY <1>6 DEF ImageInFront
<1>15. SnapshotFits'
  BY <1>1, <1>8, RowsKnown DEF RecoveryInv, SnapshotFits, Clean
<1> QED BY <1>9, <1>10, <1>11, <1>12, <1>13, <1>14, <1>15 DEF RecoveryInv

LEMMA TornPublicationKeeps ==
  ASSUME RecoveryInv, TornPublication
  PROVE  RecoveryInv'
<1>1. PICK q \in Plans :
        /\ q = job.p /\ job.pc \in {"evidence", "record"} /\ job' = Idle /\ faults' \in 0..MaxFaults
        /\ UNCHANGED <<tool, shard, other, plan, snapshot, auth, ever, raced, foreign>>
  BY RowsKnown DEF TornPublication, Fault, RecoveryInv, JobFounded, TypeOK
<1>2. PICK n \in Artifacts : art[q][n] = "absent" /\ art' = [art EXCEPT ![q][n] = "linked"]
  <2>1. Record \in Artifacts
    BY DEF Record, Artifacts, Names
  <2> QED BY <1>1, <2>1, NextArtifact DEF TornPublication
<1>3. /\ art' \in [Plans -> [Artifacts -> ArtStates]]
      /\ \A p \in Plans, m \in Artifacts : art'[p][m] = IF p = q /\ m = n THEN "linked" ELSE art[p][m]
  <2>1. "linked" \in ArtStates
    BY DEF ArtStates
  <2> QED BY <1>2, <2>1, ArtWrite
<1>4. \A p \in Plans, m \in Artifacts : /\ Kept(p, m)' = Kept(p, m)
                                        /\ art[p][m] # "absent" => art'[p][m] # "absent"
  BY <1>2, <1>3 DEF Kept
<1>5. "receipt" \in Artifacts /\ "back_receipt" \in Artifacts
  BY DEF Artifacts, Names
<1>6. TypeOK'
  BY <1>1, <1>3, IdleMakesNoClaims DEF RecoveryInv, TypeOK
<1>7. PlansFounded' /\ CleanIsApplied' /\ NoEventLost' /\ EvidenceFirst'
  <2>1. \A p \in Plans : art'[p]["back_receipt"] = "kept" => art[p]["back_receipt"] = "kept"
    BY <1>4, <1>5 DEF Kept
  <2>2. \A p \in Plans, m \in Artifacts : art[p][m] = "kept" => art'[p][m] = "kept"
    BY <1>4 DEF Kept
  <2> QED BY <1>1, <1>4, <2>1, <2>2, LogKept
<1>8. ReceiptsOrdered'
  BY <1>1, <1>4, <1>5, IdleMakesNoClaims DEF RecoveryInv, ReceiptsOrdered
<1>9. SnapshotFits'
  BY <1>1, <1>4, <1>5, RowsKnown DEF RecoveryInv, SnapshotFits, Clean
<1> QED BY <1>1, <1>6, <1>7, <1>8, <1>9, IdleMakesNoClaims DEF RecoveryInv

LEMMA PublishReceiptKeeps ==
  ASSUME RecoveryInv, PublishReceipt
  PROVE  RecoveryInv'
<1>1. PICK q \in Plans :
        /\ q = job.p /\ plan[q] # None /\ job.pc = "record" /\ job' = Idle
        /\ job.kind \in {"apply", "rollback"}
        /\ UNCHANGED <<tool, shard, other, plan, auth, ever, raced, foreign, faults>>
  BY DEF PublishReceipt, RecoveryInv, JobFounded, TypeOK, Jobs
<1>2. IsPrefix(IF job.kind = "apply" THEN Repaired(plan[q]) ELSE plan[q], shard)
  BY <1>1 DEF RecoveryInv, ImageInFront
<1>3. shard \in Seq(Rows) /\ other \in Nat /\ IsPrefix(shard, shard)
  BY PrefixItself, RowsKnown DEF RecoveryInv, TypeOK
<1>4. job.kind = "rollback" => ~Clean(shard) /\ Kept(q, "receipt") /\ Record = "back_receipt"
  <2> SUFFICES ASSUME job.kind = "rollback" PROVE ~Clean(shard) /\ Kept(q, "receipt") /\ Record = "back_receipt"
    OBVIOUS
  <2>1. plan[q] \in Seq(Rows) /\ ~Clean(plan[q]) /\ IsPrefix(plan[q], shard)
    BY <1>1, <1>2, PlanFacts
  <2>2. ToSet(plan[q]) \subseteq ToSet(shard)
    BY <1>3, <2>1, PrefixRows
  <2>3. Kept(q, "receipt")
    BY <1>1 DEF RecoveryInv, ReceiptsOrdered, Holding
  <2> QED BY <2>1, <2>2, <2>3 DEF Clean, Record
<1>5. /\ Record \in {"receipt", "back_receipt"} /\ (job.kind = "apply" => Record = "receipt")
      /\ {"receipt", "back_receipt"} \subseteq Artifacts
  BY DEF Record, Artifacts, Names
<1>6. /\ art' \in [Plans -> [Artifacts -> ArtStates]]
      /\ \A p \in Plans, m \in Artifacts : art'[p][m] = IF p = q /\ m = Record THEN "kept" ELSE art[p][m]
  <2>1. art' = [art EXCEPT ![q][Record] = "kept"]
    BY <1>1 DEF PublishReceipt
  <2>2. "kept" \in ArtStates
    BY DEF ArtStates
  <2> QED BY <1>5, <2>1, <2>2, ArtWrite
<1>7. /\ snapshot' = None \/ snapshot' \in Seq(Rows) \X Nat
      /\ tool = "card" /\ job.kind = "apply" => snapshot' = <<shard, other>>
      /\ ~(tool = "card" /\ job.kind = "apply") => snapshot' = snapshot
  BY <1>3 DEF PublishReceipt, RecoveryInv, TypeOK
<1>8. TypeOK'
  BY <1>1, <1>6, <1>7, IdleMakesNoClaims DEF RecoveryInv, TypeOK
<1>9. PlansFounded' /\ CleanIsApplied' /\ NoEventLost' /\ EvidenceFirst'
  <2>1. Clean(shard) => \A p \in Plans : art'[p]["back_receipt"] = "kept" => art[p]["back_receipt"] = "kept"
    BY <1>1, <1>4, <1>5, <1>6
  <2>2. \A p \in Plans, m \in Artifacts :
           /\ art[p][m] # "absent" => art'[p][m] # "absent"
           /\ art[p][m] = "kept" => art'[p][m] = "kept"
    BY <1>6
  <2> QED BY <1>1, <2>1, <2>2, LogKept
<1>10. ReceiptsOrdered'
  <2>1. \A p \in Plans : Kept(p, "back_receipt")' => Kept(p, "receipt")'
    <3> SUFFICES ASSUME NEW p \in Plans, art'[p]["back_receipt"] = "kept" PROVE art'[p]["receipt"] = "kept"
      BY DEF Kept
    <3>1. CASE art[p]["back_receipt"] = "kept"
      BY <1>5, <1>6, <3>1 DEF RecoveryInv, ReceiptsOrdered, Kept
    <3>2. CASE art[p]["back_receipt"] # "kept"
      <4>1. p = q /\ Record = "back_receipt"
        BY <1>5, <1>6, <3>2
      <4> QED BY <1>1, <1>4, <1>5, <1>6, <4>1 DEF Kept
    <3> QED BY <3>1, <3>2
  <2> QED BY <1>1, <2>1, IdleMakesNoClaims DEF ReceiptsOrdered
<1>11. SnapshotFits'
  <2> SUFFICES ASSUME tool = "card", Kept(Pinned, "receipt")', Clean(shard)
               PROVE  /\ snapshot' # None
                      /\ IsPrefix(snapshot'[1], shard) /\ IsPrefix(Repaired(plan[Pinned]), snapshot'[1])
    BY <1>1 DEF SnapshotFits, Clean
  <2>1. q = Pinned /\ job.kind = "apply"
    BY <1>1, <1>4 DEF RecoveryInv, PlansFounded
  <2>2. snapshot' = <<shard, other>>
    BY <1>7, <2>1
  <2>3. snapshot' # None
    BY <1>3, <2>2, NamesApart
  <2>4. snapshot'[1] = shard
    BY <2>2
  <2> QED BY <1>2, <1>3, <2>1, <2>3, <2>4
<1> QED BY <1>1, <1>8, <1>9, <1>10, <1>11, IdleMakesNoClaims DEF RecoveryInv

\* os.replace takes rows out only if they were copied, or were never looked at.
LEMMA ReplaceKeeps ==
  ASSUME RecoveryInv, Replace
  PROVE  RecoveryInv'
<1>1. PICK q \in Plans :
        /\ q = job.p /\ plan[q] # None /\ job.pc = "replace" /\ job \in Jobs
        /\ job.kind \in {"apply", "rollback"}
        /\ UNCHANGED <<tool, other, plan, art, snapshot, auth, ever, foreign, faults>>
  BY DEF Replace, RecoveryInv, JobFounded, TypeOK, Jobs
<1> DEFINE image == IF job.kind = "apply" THEN Repaired(plan[q]) ELSE plan[q]
<1>2. /\ job.raw = IF job.kind = "apply" THEN plan[q] ELSE Repaired(plan[q])
      /\ ~Kept(q, "back_receipt")
      /\ job.kind = "apply" => ~Kept(q, "receipt") /\ \A n \in ToSet(Evidence(q)) : Kept(q, n)
      /\ job.kind = "rollback" => Kept(q, "receipt")
  BY <1>1 DEF RecoveryInv, JobFounded, ReceiptsOrdered, EvidenceKept, Replacing, Holding
<1>3. /\ plan[q] \in Seq(Rows) /\ IsInjective(plan[q]) /\ ~Clean(plan[q]) /\ ToSet(plan[q]) \subseteq ever
      /\ Repaired(plan[q]) \in Seq(Rows) /\ IsInjective(Repaired(plan[q]))
      /\ ToSet(Repaired(plan[q])) = ToSet(plan[q]) \ Bad /\ Clean(Repaired(plan[q]))
  BY <1>1, PlanFacts
<1>4. shard' = image /\ raced' = raced \cup (ToSet(shard) \ ToSet(job.raw))
  BY <1>1, <1>2 DEF Replace, Image
<1>5. /\ job' \in Jobs /\ job'.kind = job.kind /\ job'.p = q
      /\ job'.pc \in {"verify", "record"} /\ (job'.pc = "verify" => job.kind = "rollback")
  <2>1. PICK x \in {"verify", "record"} : job' = [job EXCEPT !.pc = x] /\ (x = "verify" => job.kind = "rollback")
    BY DEF Replace
  <2> QED BY <1>1, <2>1 DEF Jobs
<1>6. /\ image \in Seq(Rows) /\ IsInjective(image) /\ ToSet(image) \subseteq ever
      /\ job.kind = "rollback" => ~Clean(image)
  BY <1>1, <1>3
<1> DEFINE before == ToSet(shard)
           read == ToSet(job.raw)
<1>7. /\ before \subseteq ever /\ raced \subseteq ever /\ ever \subseteq Rows
  BY DEF RecoveryInv, TypeOK
<1>8. /\ job.kind = "apply" => read = ToSet(plan[q]) /\ ToSet(image) = ToSet(plan[q]) \ Bad
      /\ job.kind = "rollback" => read = ToSet(plan[q]) \ Bad /\ ToSet(image) = ToSet(plan[q])
  BY <1>2, <1>3
<1>9. ToSet(shard)' = ToSet(image) /\ raced' = raced \cup (before \ read)
  BY <1>4
<1>10. Evidence(q)' = Evidence(q)
  BY <1>1 DEF Evidence
<1>11. TypeOK'
  <2>1. ToSet(shard') \cup raced' \subseteq ever'
    BY <1>1, <1>6, <1>7, <1>9
  <2>2. shard' \in Seq(Rows) /\ IsInjective(shard')
    BY <1>4, <1>6
  <2> HIDE DEF image, before, read
  <2> QED BY <1>1, <1>5, <2>1, <2>2 DEF RecoveryInv, TypeOK
<1>12. PlansFounded'
  BY <1>1 DEF RecoveryInv, PlansFounded, Clean
<1>13. JobFounded' /\ ReceiptsOrdered'
  <2>1. JobFounded'
    BY <1>1, <1>5 DEF RecoveryInv, JobFounded, Replacing
  <2>2. ReceiptsOrdered'
    BY <1>1, <1>2, <1>5 DEF RecoveryInv, ReceiptsOrdered, Replacing, Holding, Kept
  <2> QED BY <2>1, <2>2
<1>14. EvidenceKept'
  <2>1. job.kind = "apply" => \A n \in ToSet(Evidence(q)) : Kept(q, n)'
    BY <1>1, <1>2 DEF Kept
  <2> QED BY <1>5, <1>10, <2>1 DEF EvidenceKept, Kept
<1>15. ImageInFront'
  <2>1. IsPrefix(image, image)
    BY <1>6, PrefixItself
  <2> QED BY <1>1, <1>4, <1>5, <2>1 DEF ImageInFront
<1>16. CleanIsApplied' /\ SnapshotFits'
  <2>1. CASE job.kind = "rollback"
    <3>1. ~Clean(shard)'
      BY <1>4, <1>6, <2>1 DEF Clean
    <3> QED BY <3>1 DEF CleanIsApplied, SnapshotFits
  <2>2. CASE job.kind = "apply"
    <3>1. shard' = Repaired(plan[q])
      BY <1>4, <2>2
    <3>2. IsPrefix(Repaired(plan[q]), shard') /\ Len(Repaired(plan[q])) \in Nat
      BY <1>3, <3>1, PrefixItself, LenProperties
    <3>3. (Len(Repaired(plan[q])) + 1)..Len(shard') = {}
      BY <3>1, <3>2
    <3>4. \A n \in ToSet(Evidence(q)) : Kept(q, n)'
      BY <1>1, <1>2, <2>2 DEF Kept
    <3>5. plan'[q] # None /\ ~Kept(q, "back_receipt")' /\ plan' = plan
      BY <1>1, <1>2 DEF Kept
    <3>6. Applied(q)'
      BY <1>10, <3>2, <3>3, <3>4, <3>5 DEF Applied
    <3>7. SnapshotFits'
      <4>1. tool = "card" => q = Pinned
        BY <1>1 DEF RecoveryInv, PlansFounded
      <4> QED BY <1>1, <1>2, <2>2, <4>1 DEF SnapshotFits, Kept
    <3> QED BY <3>6, <3>7 DEF CleanIsApplied
  <2> QED BY <1>1, <2>1, <2>2
<1>17. NoEventLost'
  <2> SUFFICES ASSUME NEW r \in ever \ Bad PROVE r \in ToSet(image) \cup (raced \cup (before \ read))
    BY <1>1, <1>4, <1>9 DEF NoEventLost
  <2>1. r \in before \cup raced
    BY DEF RecoveryInv, NoEventLost
  <2> HIDE DEF image, before, read
  <2> QED BY <1>1, <1>8, <2>1
<1>18. EvidenceFirst'
  <2> DEFINE under == {"original", "intent"}
  <2> SUFFICES ASSUME NEW b \in ever \cap Bad, b \notin ToSet(image) \cup (raced \cup (before \ read))
               PROVE  \E p \in Plans :
                        /\ plan[p] # None /\ b \in ToSet(plan[p])
                        /\ \A n \in under \cup (IF tool = "overlay" THEN {b} ELSE {}) : art[p][n] # "absent"
    BY <1>1, <1>4, <1>9 DEF EvidenceFirst
  <2>1. CASE b \in before
    <3>1. b \in read /\ job.kind = "apply" /\ b \in ToSet(plan[q])
      <4> HIDE DEF image, before, read
      <4> QED BY <1>1, <1>8, <2>1
    <3>2. \A n \in under \cup (IF tool = "overlay" THEN {b} ELSE {}) : n \in ToSet(Evidence(q))
      BY <1>1, <3>1, EvidenceIs
    <3>3. \A n \in under \cup (IF tool = "overlay" THEN {b} ELSE {}) : art[q][n] # "absent"
      BY <1>2, <3>1, <3>2 DEF Kept
    <3> QED BY <1>1, <3>1, <3>3
  <2>2. CASE b \notin before
    BY <2>2 DEF RecoveryInv, EvidenceFirst
  <2> QED BY <2>1, <2>2
<1> QED BY <1>11, <1>12, <1>13, <1>14, <1>15, <1>16, <1>17, <1>18 DEF RecoveryInv

LEMMA NextKeeps ==
  ASSUME RecoveryInv, [Next]_vars
  PROVE  RecoveryInv'
<1>1. ASSUME NEW r \in Rows, AppendEvent(r) PROVE RecoveryInv'
  <2>1. r \in Rows \ ever /\ foreign' \in 0..MaxForeign
    BY <1>1 DEF AppendEvent, RecoveryInv, TypeOK
  <2> QED BY <1>1, <2>1, AppendKeeps DEF AppendEvent
<1>2. ASSUME NEW r \in Rows, ForeignAppend(r) PROVE RecoveryInv'
  <2>1. r \in Rows \ ever /\ foreign' \in 0..MaxForeign
    BY <1>2, RowsKnown DEF ForeignAppend, RecoveryInv, TypeOK
  <2> QED BY <1>2, <2>1, AppendKeeps DEF ForeignAppend
<1>3. ASSUME AppendOther \/ ForeignOther \/ TurnAuthority \/ UNCHANGED vars PROVE RecoveryInv'
  <2>1. other' \in 0..MaxOther /\ foreign' \in 0..MaxForeign /\ faults' \in 0..MaxFaults
    BY <1>3, RowsKnown DEF AppendOther, ForeignOther, TurnAuthority, vars, RecoveryInv, TypeOK
  <2>3. auth' \in BOOLEAN
    <3>1. auth \in BOOLEAN /\ (auth' = auth \/ auth' = ~auth)
      BY <1>3 DEF AppendOther, ForeignOther, TurnAuthority, vars, RecoveryInv, TypeOK
    <3> QED BY <3>1
  <2>2. UNCHANGED <<tool, shard, plan, art, snapshot, job, ever, raced>>
    BY <1>3 DEF AppendOther, ForeignOther, TurnAuthority, vars
  <2> QED BY <2>1, <2>2, <2>3, OutsideMoves
<1>4. ASSUME Die \/ Refuse PROVE RecoveryInv'
  <2>1. faults' \in 0..MaxFaults
    BY <1>4, RowsKnown DEF Die, Refuse, Fault, RecoveryInv, TypeOK
  <2> QED BY <1>4, <2>1, JobEnds DEF Die, Refuse
<1> QED
  BY <1>1, <1>2, <1>3, <1>4, SavePlanKeeps, BeginKeeps, DecideKeeps, CheckReplaceKeeps, VerifyRestoredKeeps,
     PublishEvidenceKeeps, TornPublicationKeeps, PublishReceiptKeeps, ReplaceKeeps DEF Next, Work

-----------------------------------------------------------------------------
(* The theorems *)

\* The inductive invariant holds in every state of both tools, whatever the rows, the
\* plans, the damaged log and the numbers of faults and foreign writes.
THEOREM RecoveryInvHolds == Spec => []RecoveryInv
<1>1. Init => RecoveryInv
  BY InitInv
<1>2. RecoveryInv /\ [Next]_vars => RecoveryInv'
  BY NextKeeps
<1> QED BY <1>1, <1>2, PTL DEF Spec

\* The log stays a log of known rows, none of them twice.
THEOREM RecoveryTypeCorrect == Spec => []TypeOK
<1>1. RecoveryInv => TypeOK
  BY DEF RecoveryInv
<1> QED BY <1>1, RecoveryInvHolds, PTL

\* No apply, rollback, retry or crash loses an event, and no damaged row leaves the
\* log before it is kept elsewhere (apply_overlay_recovery, recover, _replace).
THEOREM NothingLostHolds == Spec => []NothingLost
<1>1. RecoveryInv => NothingLost
  BY DEF RecoveryInv, NothingLost
<1> QED BY <1>1, RecoveryInvHolds, PTL

\* A repaired log that nobody has written since can be brought forward or back.
LEMMA RestoreFromInv ==
  ASSUME RecoveryInv
  PROVE  RestorePossible
<1> SUFFICES ASSUME NEW p0 \in Plans, Clean(shard), plan[p0] # None, shard = Repaired(plan[p0]),
                    snapshot # None => snapshot[2] = other,
                    \A p \in Plans : ~Torn(p)
             PROVE  \E p \in Plans : plan[p] # None /\
                       \/ ApplyPath(p) = "record"
                       \/ Kept(p, "receipt") /\ RollbackPath(p) = "evidence"
  BY DEF RestorePossible
<1>1. PICK p \in Plans : Applied(p)
  BY DEF RecoveryInv, CleanIsApplied
<1> DEFINE mine == Repaired(plan[p])
<1>2. /\ plan[p] # None /\ ~Kept(p, "back_receipt") /\ \A n \in ToSet(Evidence(p)) : Kept(p, n)
      /\ IsPrefix(mine, shard)
      /\ \A i \in (Len(mine) + 1)..Len(shard), q \in Plans :
           plan[q] # None => shard[i] \notin ToSet(plan[q])
  BY <1>1 DEF Applied
<1>3. mine \in Seq(Rows) /\ shard \in Seq(Rows) /\ Len(mine) \in Nat /\ Len(shard) \in Nat /\ DOMAIN shard = 1..Len(shard)
  BY <1>2, PlanFacts, LenProperties DEF RecoveryInv, TypeOK
<1>4. ToSet(shard) \subseteq ToSet(plan[p0])
  BY PlanFacts
<1> HIDE DEF mine
\* The rows that follow those of p would be newer than the plan p0 that holds them.
<1>5. shard = mine
  <2>1. Len(shard) <= Len(mine)
    <3> SUFFICES ASSUME Len(mine) < Len(shard) PROVE FALSE
      BY <1>3
    <3>1. Len(shard) \in (Len(mine) + 1)..Len(shard) /\ Len(shard) \in DOMAIN shard
      BY <1>3
    <3>2. shard[Len(shard)] \in ToSet(plan[p0])
      BY <1>4, <3>1 DEF ToSet
    <3> QED BY <1>2, <3>1, <3>2
  <2> QED BY <1>2, <1>3, <2>1, PrefixAntisymmetric
<1>6. /\ Kept(p, "original") /\ Kept(p, "intent")
      /\ \A n \in Names : art[p][n] # "linked"
  <2>1. Kept(p, "original") /\ Kept(p, "intent")
    BY <1>2, EvidenceIs
  <2> QED BY <2>1 DEF Torn, Artifacts
<1>7. shard # plan[p]
  BY <1>2, PlanFacts
<1>8. CASE ~Kept(p, "receipt")
  <2>1. ApplyPath(p) = "record"
    BY <1>2, <1>5, <1>6, <1>7, <1>8 DEF ApplyPath, Names, mine
  <2> QED BY <1>2, <2>1
<1>9. CASE Kept(p, "receipt") /\ tool = "card"
  <2>1. p = Pinned
    BY <1>2, <1>9 DEF RecoveryInv, PlansFounded
  <2>2. snapshot # None /\ IsPrefix(snapshot[1], shard) /\ IsPrefix(mine, snapshot[1])
    BY <1>9, <2>1 DEF RecoveryInv, SnapshotFits, mine
  <2>3. snapshot \in Seq(Rows) \X Nat
    BY <2>2 DEF RecoveryInv, TypeOK
  <2>4. snapshot[1] = shard
    <3>1. snapshot[1] \in Seq(Rows) /\ Len(snapshot[1]) \in Nat
      BY <2>3, LenProperties
    <3>2. Len(shard) <= Len(snapshot[1])
      BY <1>3, <1>5, <2>2, <3>1, PrefixPoints
    <3> QED BY <1>3, <2>2, <3>1, <3>2, PrefixAntisymmetric
  <2>5. snapshot = <<shard, other>>
    BY <2>2, <2>3, <2>4
  <2>6. RollbackCard(p) = "evidence"
    BY <1>2, <1>5, <1>6, <1>7, <2>4, <2>5 DEF RollbackCard, Names, mine
  <2> QED BY <1>2, <1>9, <2>6 DEF RollbackPath
<1>10. CASE Kept(p, "receipt") /\ tool # "card"
  <2>1. RollbackOverlay(p) = "evidence"
    BY <1>2, <1>5, <1>6, <1>7 DEF RollbackOverlay, Names, mine
  <2> QED BY <1>2, <1>10, <2>1 DEF RollbackPath
<1> QED BY <1>8, <1>9, <1>10

\* Wherever calls were interrupted and however plans were mixed, some plan's apply can
\* finish its receipt or some receipt's rollback is accepted (apply_overlay_recovery,
\* rollback_overlay_recovery, recover, rollback).
THEOREM RestorePossibleHolds == Spec => []RestorePossible
<1>1. RecoveryInv => RestorePossible
  BY RestoreFromInv
<1> QED BY <1>1, RecoveryInvHolds, PTL

ReceiptStep ==
  \A p \in Plans :
    /\ IsNew(p, "receipt") => /\ \A n \in ToSet(Evidence(p)) : Kept(p, n)
                              /\ IsPrefix(Repaired(plan[p]), shard)
    /\ IsNew(p, "back_receipt") => Kept(p, "receipt") /\ IsPrefix(plan[p], shard)

\* Only PublishReceipt makes a receipt, and the invariant knows what the call has done.
LEMMA ReceiptsAreTrue ==
  ASSUME RecoveryInv, [Next]_vars
  PROVE  ReceiptStep
<1> SUFFICES ASSUME NEW p \in Plans, NEW m \in {"receipt", "back_receipt"}, IsNew(p, m)
             PROVE  /\ m = "receipt" => /\ \A n \in ToSet(Evidence(p)) : Kept(p, n)
                                        /\ IsPrefix(Repaired(plan[p]), shard)
                    /\ m = "back_receipt" => Kept(p, "receipt") /\ IsPrefix(plan[p], shard)
  BY DEF ReceiptStep
<1>1. art[p][m] # "kept" /\ art'[p][m] = "kept" /\ m \in Artifacts
  BY DEF IsNew, Artifacts, Names
<1>2. CASE PublishReceipt
  <2>1. art' = [art EXCEPT ![job.p][Record] = "kept"] /\ job.pc = "record" /\ job.p \in Plans
        /\ job.kind \in {"apply", "rollback"}
    BY <1>2 DEF PublishReceipt, RecoveryInv, JobFounded, TypeOK, Jobs
  <2>2. "kept" \in ArtStates /\ Record \in Artifacts
    BY DEF ArtStates, Record, Artifacts, Names
  <2>3. p = job.p /\ m = Record
    BY <1>1, <2>1, <2>2, ArtWrite
  <2> QED BY <2>1, <2>3 DEF RecoveryInv, EvidenceKept, ImageInFront, ReceiptsOrdered, Holding, Record
<1>3. CASE PublishEvidence
  <2>1. /\ art' = [art EXCEPT ![job.p][ToPublish[job.at]] = "kept"] /\ job.pc = "evidence" /\ job.p \in Plans
    BY <1>3 DEF PublishEvidence, RecoveryInv, JobFounded
  <2>2. "kept" \in ArtStates /\ ToPublish[job.at] \in Artifacts \ {"receipt", "back_receipt"}
    BY <2>1, NextArtifact DEF ArtStates
  <2> QED BY <1>1, <2>1, <2>2, ArtWrite
<1>4. CASE TornPublication
  <2>1. PICK n \in Artifacts : art' = [art EXCEPT ![job.p][n] = "linked"] /\ job.p \in Plans
    <3>1. Record \in Artifacts
      BY DEF Record, Artifacts, Names
    <3> QED BY <1>4, <3>1, NextArtifact DEF TornPublication, RecoveryInv, JobFounded
  <2>2. "linked" \in ArtStates
    BY DEF ArtStates
  <2> QED BY <1>1, <2>1, <2>2, ArtWrite
<1>5. CASE \E q \in Plans : SavePlan(q)
  <2>1. PICK q \in Plans, v \in ArtStates : art' = [art EXCEPT ![q]["plan"] = v]
    BY <1>5 DEF SavePlan, ArtStates
  <2>2. "plan" \in Artifacts
    BY DEF Artifacts, Names
  <2> QED BY <1>1, <2>1, <2>2, ArtWrite
<1>6. CASE UNCHANGED art
  BY <1>1, <1>6
<1> QED
  BY <1>2, <1>3, <1>4, <1>5, <1>6
     DEF Next, Work, vars, AppendEvent, ForeignAppend, AppendOther, ForeignOther, TurnAuthority, Begin, Decide,
         CheckReplace, Replace, VerifyRestored, Refuse, Die

\* What a receipt says is so when it is published (apply_overlay_recovery, recover), and
\* a plan that was rolled back never replaces the log again.
THEOREM ReceiptsBindHolds == Spec => ReceiptsBind
<1>1. RecoveryInv => SpentPlanIsInert
  BY DEF RecoveryInv, ReceiptsOrdered, SpentPlanIsInert, Replacing
<1>2. RecoveryInv /\ [Next]_vars => [ReceiptStep]_vars
  BY ReceiptsAreTrue
<1>3. Spec => [][ReceiptStep]_vars
  BY <1>2, RecoveryInvHolds, PTL DEF Spec
<1>4. Spec => ReceiptsTrue
  BY <1>3 DEF ReceiptsTrue, ReceiptStep
<1> QED BY <1>1, <1>4, RecoveryInvHolds, PTL DEF ReceiptsBind
=============================================================================
