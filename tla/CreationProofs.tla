--------------------------- MODULE CreationProofs ---------------------------
(***************************************************************************)
(* Proofs about the creation of cards.                                     *)
(*                                                                         *)
(* With an explicit ID (module ExplicitCreate): for every set of requests  *)
(* and every number of calls, failed writes and crashes.                   *)
(*                                                                         *)
(* With dependencies (module DependencyGraph): the graph stays acyclic     *)
(* unless two writers race, for every set of cards and of processes.       *)
(* GraphInv is inductive; what it needs is that reachability is monotone   *)
(* in the edges and that edges out of one card, checked in a graph that    *)
(* covers the present one, close no cycle.  The search that decides        *)
(* reachability (module CycleCheck) is correct on every graph.             *)
(***************************************************************************)
EXTENDS ExplicitCreate, DependencyGraph, CycleCheck, TLAPS

-----------------------------------------------------------------------------
(* What holds while a creation is under way *)

\* Before the first append of the operation, the ID is unbound.
Unbound ==
  op.pc \in {"writePending", "publish", "append", "replayAppend"} =>
    Attempts = {} /\ ~corrupt

\* What the operation carries is what was asked, and core.json is absent until
\* it publishes it and its own afterwards.
CoreOwn ==
  /\ op.pc # "idle" => op.req \in Requests
  /\ op.pc \in {"decide", "writePending", "publish", "append", "clear",
                "replayAppend", "replayClear", "legacy"} =>
       op.sem \in Semantics /\ op.sem.content = op.req.content
  /\ op.pc \in {"reserve", "writePending", "publish"} => core = None
  /\ op.pc \in {"rejectClear", "rejectAppend"} /\ op.why = "policy" => core = None
  /\ op.pc \in {"append", "clear", "replayAppend", "replayClear", "legacy"} =>
       core = op.sem

\* The operation publishes and accepts only what the intent on disk says.
IntentOwn ==
  op.pc \in {"publish", "append", "replayAppend"} =>
    pending = [digest |-> op.req.digest, sem |-> op.sem]

\* An acceptance of q is in the log, or the log went unreadable.
Accepted(q) == corrupt \/ <<q.digest, core, "accepted">> \in Attempts

\* The card is handed out only after its acceptance, to callers that asked the
\* same, and nobody has it while an operation may still write the log.
GrantOwn ==
  /\ op.pc \in {"clear", "replayClear", "legacy"} => Accepted(op.req)
  /\ op.pc \notin {"idle", "decide", "reserve", "legacy"} => granted = {}
  /\ op.pc = "legacy" => \A q \in granted : q = op.req

\* Without failed writes a rejection is logged only when the intent is gone.
ClearedFirst == op.pc = "rejectAppend" /\ faults = 0 => pending = None

OperationInv == Unbound /\ CoreOwn /\ IntentOwn /\ GrantOwn /\ ClearedFirst

\* Whoever has the card is named by an acceptance.
GrantsAccepted == \A q \in granted : Accepted(q)

\* Without failed writes an intent is alone: nothing but its own acceptance
\* binds the ID.
IntentAlone ==
  faults = 0 /\ pending # None =>
    /\ Attempts \subseteq {<<pending.digest, pending.sem, "accepted">>}
    /\ core \in {None, pending.sem}

FilesInv ==
  /\ AcceptedHasCore /\ RejectedStaysReserved /\ ExactReplay
  /\ GrantsAccepted /\ IntentAlone

\* The inductive invariant.
CreateInv == TypeOK /\ OperationInv /\ FilesInv

-----------------------------------------------------------------------------
(* The attempt log *)

\* Only the lines of the log decide what binds the ID.
LEMMA SameLog ==
  ASSUME UNCHANGED log
  PROVE  UNCHANGED <<Attempts, AttemptConflict, BoundRejected, BoundAccepted>>
BY DEF Attempts, Relevant, AttemptConflict, BoundRejected, BoundAccepted

\* A record that is appended binds the ID, unless it is a crash reject and
\* nothing has bound the ID before.
LEMMA AppendAttempts ==
  ASSUME log \in Seq(Records), NEW r \in Records, log' = Append(log, r)
  PROVE  Attempts' = IF Attempts = {} /\ IsCrashReject(r) THEN {} ELSE Attempts \cup {Key(r)}
<1> DEFINE n == Len(log)
<1>1. n \in Nat /\ DOMAIN log = 1..n /\ DOMAIN log' = 1..(n + 1)
  OBVIOUS
<1>2. \A i \in 1..n : log'[i] = log[i]
  OBVIOUS
<1>3. log'[n + 1] = r
  OBVIOUS
<1> HIDE DEF n
<1>4. \A i \in 1..n : i \in Relevant' <=> i \in Relevant
  BY <1>1, <1>2 DEF Relevant
<1>5. (n + 1) \in Relevant' <=> (Relevant # {} \/ ~IsCrashReject(r))
  <2>1. (n + 1) \in Relevant' <=> \E j \in 1..(n + 1) : ~IsCrashReject(log'[j])
    BY <1>1 DEF Relevant
  <2>2. (n + 1) \in Relevant' <=> (\E j \in 1..n : ~IsCrashReject(log[j])) \/ ~IsCrashReject(r)
    BY <1>1, <1>2, <1>3, <2>1
  <2>3. (\E j \in 1..n : ~IsCrashReject(log[j])) <=> Relevant # {}
    BY <1>1 DEF Relevant
  <2> QED
    BY <2>2, <2>3
<1>6. Relevant \subseteq 1..n /\ Relevant' \subseteq 1..(n + 1)
  BY <1>1 DEF Relevant
<1>7. Relevant' = IF Relevant = {} /\ IsCrashReject(r) THEN Relevant ELSE Relevant \cup {n + 1}
  <2>1. \A i \in 1..(n + 1) : i \in 1..n \/ i = n + 1
    BY <1>1
  <2>2. (n + 1) \notin Relevant
    BY <1>1, <1>6
  <2> QED
    BY <1>4, <1>5, <1>6, <2>1, <2>2
<1>8. Attempts = {} <=> Relevant = {}
  BY DEF Attempts
<1>9. \A i \in Relevant : log'[i] = log[i]
  BY <1>2, <1>6
<1>10. CASE Relevant = {} /\ IsCrashReject(r)
  BY <1>7, <1>8, <1>10 DEF Attempts
<1>11. CASE ~(Relevant = {} /\ IsCrashReject(r))
  <2>1. Relevant' = Relevant \cup {n + 1}
    BY <1>7, <1>11
  <2> QED
    BY <2>1, <1>3, <1>8, <1>9, <1>11 DEF Attempts
<1> QED
  BY <1>10, <1>11

\* A policy rejection and an acceptance always bind the ID.
LEMMA BoundByRecord ==
  ASSUME log \in Seq(Records), NEW i \in DOMAIN log, ~IsCrashReject(log[i])
  PROVE  Key(log[i]) \in Attempts
BY DEF Attempts, Relevant

LEMMA AppendedLine ==
  ASSUME log \in Seq(Records), tail \in {"clean", "torn"}, corrupt \in BOOLEAN,
         NEW r \in Records, NEW o, AppendLine(r, o)
  PROVE  /\ log' = log \/ log' = Append(log, r)
         /\ log' \in Seq(Records)
         /\ tail' \in {"clean", "torn"} /\ corrupt' \in BOOLEAN
         /\ corrupt => corrupt'
         /\ o = "ok" => corrupt' \/ log' = Append(log, r)
<1>0. Append(log, r) \in Seq(Records)
  OBVIOUS
<1>1. CASE o = "before"
  <2>1. UNCHANGED <<log, tail, corrupt>>
    BY <1>1 DEF AppendLine
  <2> QED
    BY <1>1, <2>1
<1>2. CASE o = "torn"
  <2>1. tail' = "torn" /\ UNCHANGED <<log, corrupt>>
    BY <1>2 DEF AppendLine
  <2> QED
    BY <1>2, <2>1
<1>3. CASE o \notin {"before", "torn"} /\ tail = "torn"
  <2>1. corrupt' = TRUE /\ tail' = "clean" /\ UNCHANGED log
    BY <1>3, Zenon DEF AppendLine
  <2> QED
    BY <2>1
<1>4. CASE o \notin {"before", "torn"} /\ tail # "torn"
  <2>1. log' = Append(log, r) /\ UNCHANGED <<tail, corrupt>>
    BY <1>4 DEF AppendLine
  <2> QED
    BY <1>0, <2>1
<1> QED
  BY <1>1, <1>2, <1>3, <1>4

\* The records of a longer log are the old ones and the new one.
LEMMA AppendedRecords ==
  ASSUME log \in Seq(Records), NEW r \in Records, log' = Append(log, r)
  PROVE  \A i \in DOMAIN log' : \/ i \in DOMAIN log /\ log'[i] = log[i]
                                \/ log'[i] = r
<1>1. DOMAIN log = 1..Len(log) /\ DOMAIN log' = 1..(Len(log) + 1) /\ Len(log) \in Nat
  OBVIOUS
<1> QED
  BY <1>1

-----------------------------------------------------------------------------
(* The parts of a step *)

LEMMA Charged ==
  ASSUME faults \in Nat, NEW o, Charge(o)
  PROVE  faults' \in Nat /\ (faults' = 0 => faults = 0 /\ o = "ok")
BY DEF Charge

\* An operation that has returned owes nothing.
LEMMA Returned == ASSUME op' = NoOperation PROVE OperationInv'
BY DEF NoOperation, OperationInv, Unbound, CoreOwn, IntentOwn, GrantOwn, ClearedFirst

LEMMA NothingUnderWay == NoOperation \in Operations
BY DEF NoOperation, Operations, Steps, Reasons

\* An operation that is refused or fails gives the card to nobody.
LEMMA ReturnedNothing ==
  ASSUME NEW v \in {"refused", "error"}, Return(v)
  PROVE  op' = NoOperation /\ result' = v /\ UNCHANGED granted
BY DEF Return

LEMMA WentTo ==
  ASSUME op \in Operations, NEW pc \in Steps, Goto(pc)
  PROVE  /\ op' \in Operations /\ UNCHANGED <<result, granted>>
         /\ op'.pc = pc /\ op'.req = op.req /\ op'.sem = op.sem /\ op'.why = op.why
BY DEF Goto, Operations

LEMMA Failed ==
  ASSUME op \in Operations, NEW why \in Reasons, Fail(why)
  PROVE  /\ op' \in Operations /\ UNCHANGED <<result, granted>>
         /\ op'.pc = "rejectClear" /\ op'.why = why /\ op'.req = op.req /\ op'.sem = op.sem
BY DEF Fail, Operations, Steps

\* Steps that write none of the files keep what holds of them; so do the lines
\* of other creations.
LEMMA FilesKept ==
  ASSUME FilesInv, UNCHANGED <<core, pending, log, legacy, granted>>, corrupt => corrupt',
         faults' = 0 => faults = 0
  PROVE  FilesInv'
<1>1. UNCHANGED Attempts
  BY SameLog
<1> QED
  BY <1>1 DEF FilesInv, AcceptedHasCore, RejectedStaysReserved, LogHas, ExactReplay,
              GrantsAccepted, Accepted, IntentAlone

\* A step that only clears the intent, or leaves it.
LEMMA FilesCleared ==
  ASSUME FilesInv, UNCHANGED <<core, log, corrupt, legacy, granted>>,
         faults' = 0 => faults = 0, pending' \in {pending, None}
  PROVE  FilesInv'
<1>1. UNCHANGED Attempts
  BY SameLog
<1> QED
  BY <1>1 DEF FilesInv, AcceptedHasCore, RejectedStaysReserved, LogHas, ExactReplay,
              GrantsAccepted, Accepted, IntentAlone

LEMMA CreateInitially == Init => CreateInv
<1> SUFFICES ASSUME Init PROVE CreateInv
  OBVIOUS
<1>1. Attempts = {}
  BY DEF Init, Attempts, Relevant
<1>2. TypeOK
  <2>1. NoOperation \in Operations
    BY DEF NoOperation, Operations, Steps, Reasons
  <2>2. log \in Seq(Records)
    BY DEF Init
  <2> QED
    BY <2>1, <2>2 DEF Init, TypeOK, Results
<1>3. OperationInv
  BY DEF Init, NoOperation, OperationInv, Unbound, CoreOwn, IntentOwn, GrantOwn, ClearedFirst
<1>4. FilesInv
  BY <1>1 DEF Init, FilesInv, AcceptedHasCore, RejectedStaysReserved, LogHas, ExactReplay,
              GrantsAccepted, Accepted, IntentAlone
<1> QED
  BY <1>2, <1>3, <1>4 DEF CreateInv

-----------------------------------------------------------------------------
(* One lemma per action *)

LEMMA ExplicitStep ==
  ASSUME CreateInv, NEW q \in Requests, CreateExplicitTask(q) PROVE CreateInv'
<1>1. TypeOK'
  <2>1. [content |-> q.content, rev |-> 0] \in Semantics
    BY DEF Requests, Semantics
  <2>2. op' \in Operations
    BY <2>1 DEF CreateExplicitTask, NoOperation, Operations, Steps, Reasons
  <2> QED
    BY <2>2 DEF CreateInv, TypeOK, CreateExplicitTask, files, Results
<1>2. OperationInv'
  BY DEF CreateInv, TypeOK, CreateExplicitTask, files, NoOperation, OperationInv, Unbound,
         CoreOwn, IntentOwn, GrantOwn, ClearedFirst, Requests, Semantics
<1>3. FilesInv'
  BY FilesKept DEF CreateInv, CreateExplicitTask, files
<1> QED
  BY <1>1, <1>2, <1>3 DEF CreateInv

LEMMA ClaimedStep ==
  ASSUME CreateInv, NEW q \in Requests, CreateClaimedTask(q) PROVE CreateInv'
<1> USE DEF CreateInv
<1>1. CASE core # None /\ core.rev = 0
  <2>1. op' = NoOperation /\ UNCHANGED <<files, faults, crashes, granted>>
        /\ calls' = calls + 1 /\ result' = "refused"
    BY <1>1 DEF CreateClaimedTask, Return
  <2>2. TypeOK'
    BY <2>1 DEF TypeOK, files, NoOperation, Operations, Steps, Reasons, Results
  <2> QED
    BY <2>1, <2>2, Returned, FilesKept DEF files
<1>2. CASE ~(core # None /\ core.rev = 0)
  <2>1. PICK pc \in {"decide", "reserve"} :
          /\ pc = "reserve" => core = None
          /\ op' = [NoOperation EXCEPT
                      !.pc = pc, !.kind = "claimed", !.req = q,
                      !.sem = [content |-> q.content,
                               rev |-> IF core = None THEN calls + 1 ELSE core.rev]]
    BY <1>2 DEF CreateClaimedTask
  <2>2. UNCHANGED <<files, faults, crashes, granted>> /\ calls' = calls + 1 /\ result' = "none"
    BY <1>2 DEF CreateClaimedTask
  <2> DEFINE rev == IF core = None THEN calls + 1 ELSE core.rev
             sem == [content |-> q.content, rev |-> rev]
  <2>3. rev \in Nat
    BY DEF TypeOK, Semantics
  <2>4. sem \in Semantics /\ sem.content = q.content
    BY <2>3 DEF Requests, Semantics
  <2> HIDE DEF sem, rev
  <2>5. /\ op' \in Operations /\ op'.pc = pc /\ op'.req = q /\ op'.sem = sem
    BY <2>1, <2>4 DEF sem, rev, NoOperation, Operations, Steps, Reasons
  <2>6. TypeOK'
    BY <2>2, <2>5 DEF TypeOK, files, Results
  <2>7. OperationInv'
    BY <2>1, <2>2, <2>4, <2>5 DEF files, OperationInv, Unbound,
         CoreOwn, IntentOwn, GrantOwn, ClearedFirst
  <2> QED
    BY <2>2, <2>6, <2>7, FilesKept DEF files
<1> QED
  BY <1>1, <1>2

LEMMA ReserveStep == ASSUME CreateInv, Reserve PROVE CreateInv'
<1> USE DEF CreateInv
<1>1. UNCHANGED <<files, calls, faults, crashes>> /\ op.pc = "reserve" /\ core = None
  BY DEF Reserve, OperationInv, CoreOwn
<1>2. CASE \E v \in {"error", "refused"} : Return(v)
  <2>1. op' = NoOperation /\ UNCHANGED granted /\ result' \in {"error", "refused"}
    BY <1>2 DEF Return
  <2>2. TypeOK'
    BY <1>1, <2>1 DEF TypeOK, files, NoOperation, Operations, Steps, Reasons, Results
  <2> QED
    BY <1>1, <2>1, <2>2, Returned, FilesKept DEF files
<1>3. CASE /\ op' = [op EXCEPT !.pc = "rejectClear", !.why = "policy", !.sem = None]
           /\ UNCHANGED <<result, granted>>
  <2>1. TypeOK'
    BY <1>1, <1>3 DEF TypeOK, files, Operations, Steps, Reasons
  <2>2. granted = {}
    BY <1>1 DEF FilesInv, ExactReplay
  <2>3. /\ op'.pc = "rejectClear" /\ op'.why = "policy" /\ op'.req = op.req
    BY <1>3 DEF TypeOK, Operations
  <2>4. OperationInv'
    BY <1>1, <1>3, <2>2, <2>3 DEF OperationInv, Unbound, CoreOwn, IntentOwn, GrantOwn,
         ClearedFirst, files
  <2> QED
    BY <1>1, <1>3, <2>1, <2>4, FilesKept DEF files
<1> QED
  BY <1>2, <1>3 DEF Reserve

\* Before its first write an operation that goes on knows that nothing binds
\* the ID, or that its own request does.
LEMMA DecideStep == ASSUME CreateInv, Decide PROVE CreateInv'
<1> USE DEF CreateInv
<1>1. /\ UNCHANGED <<files, calls, faults, crashes>> /\ op.pc = "decide"
      /\ op \in Operations /\ UNCHANGED Attempts
  BY SameLog DEF Decide, TypeOK, files
<1>2. op.req \in Requests /\ op.sem \in Semantics /\ op.sem.content = op.req.content
  BY <1>1 DEF OperationInv, CoreOwn
<1>3. FilesInv' \/ ~UNCHANGED granted
  BY <1>1, FilesKept DEF files
<1>4. CASE \E v \in {"error", "refused"} : Return(v)
  <2>1. op' = NoOperation /\ UNCHANGED granted /\ result' \in {"error", "refused"}
    BY <1>4, ReturnedNothing
  <2>2. TypeOK'
    BY <1>1, <2>1, NothingUnderWay DEF TypeOK, files, Results
  <2> QED
    BY <1>3, <2>1, <2>2, Returned
<1>5. CASE ~Unreadable /\ ~AttemptConflict /\ BoundAccepted /\ MatchesAccepted /\ Goto("legacy")
  <2>1. op' \in Operations /\ UNCHANGED <<result, granted>>
        /\ op'.pc = "legacy" /\ op'.req = op.req /\ op'.sem = op.sem
    BY <1>1, <1>5, WentTo DEF Steps
  <2>2. PICK x \in Attempts : x[1] = op.req.digest /\ x[2] = core
    BY <1>5 DEF MatchesAccepted
  <2>3. \A y \in Attempts : y = x
    BY <1>5, <2>2 DEF AttemptConflict
  <2>4. x[3] = "accepted"
    BY <1>5, <2>3 DEF BoundAccepted
  <2>5. x = <<op.req.digest, core, "accepted">>
    BY <2>2, <2>4 DEF Attempts, Key
  <2>6. Accepted(op.req)
    BY <2>5 DEF Accepted
  <2>7. \A q \in granted : q = op.req
    <3> SUFFICES ASSUME NEW q \in granted PROVE q = op.req
      OBVIOUS
    <3>1. <<q.digest, core, "accepted">> = x
      BY <1>5, <2>3 DEF FilesInv, GrantsAccepted, Accepted, Unreadable
    <3>2. q.digest = op.req.digest
      BY <2>5, <3>1
    <3>3. q.content = op.req.content
      BY <1>2, <1>5 DEF FilesInv, ExactReplay, MatchesAccepted
    <3> QED
      BY <1>2, <3>2, <3>3 DEF TypeOK, Requests
  <2>8. TypeOK'
    BY <1>1, <2>1 DEF TypeOK, files
  <2>9. OperationInv'
    BY <1>1, <1>2, <1>5, <2>1, <2>6, <2>7 DEF OperationInv, Unbound, CoreOwn, IntentOwn,
         GrantOwn, ClearedFirst, Accepted, MatchesAccepted, files
  <2> QED
    BY <1>3, <2>1, <2>8, <2>9
<1>6. ASSUME ~Unreadable, ~AttemptConflict, ~BoundRejected, ~BoundAccepted
      PROVE  Attempts = {} /\ granted = {} /\ ~corrupt
  <2>1. \A x \in Attempts : x[3] \in {"accepted", "rejected"}
    <3>1. log \in Seq(Records) /\ Relevant \subseteq DOMAIN log
      BY DEF TypeOK, Relevant
    <3>2. \A i \in Relevant : log[i] \in Records
      BY <3>1
    <3>3. \A i \in Relevant : log[i].outcome \in {"accepted", "rejected"}
      BY <3>2 DEF Records
    <3> QED
      BY <3>3 DEF Attempts, Key
  <2>2. Attempts = {}
    BY <1>6, <2>1 DEF BoundRejected, BoundAccepted
  <2> QED
    BY <1>6, <2>2 DEF FilesInv, GrantsAccepted, Accepted, Unreadable
<1>7. CASE /\ ~Unreadable /\ ~AttemptConflict /\ ~BoundRejected /\ ~BoundAccepted
           /\ pending # None /\ MatchesPending /\ core \in {None, op.sem}
           /\ Goto(IF core = None THEN "publish" ELSE "replayAppend")
  <2>1. PICK pc \in {"publish", "replayAppend"} :
          Goto(pc) /\ (pc = "publish" => core = None) /\ (pc = "replayAppend" => core = op.sem)
    BY <1>7
  <2>2. op' \in Operations /\ UNCHANGED <<result, granted>>
        /\ op'.pc = pc /\ op'.req = op.req /\ op'.sem = op.sem
    BY <1>1, <2>1, WentTo DEF Steps
  <2>3. TypeOK'
    BY <1>1, <2>2 DEF TypeOK, files
  <2>4. Attempts = {} /\ granted = {} /\ ~corrupt
    BY <1>6, <1>7
  <2>5. pending = [digest |-> op.req.digest, sem |-> op.sem]
    BY <1>7 DEF MatchesPending, TypeOK, Intents
  <2>6. OperationInv'
    BY <1>1, <1>2, <2>1, <2>2, <2>4, <2>5 DEF OperationInv, Unbound, CoreOwn, IntentOwn,
         GrantOwn, ClearedFirst, files
  <2> QED
    BY <1>3, <2>2, <2>3, <2>6
<1>8. CASE /\ ~Unreadable /\ ~AttemptConflict /\ ~BoundRejected /\ ~BoundAccepted
           /\ pending = None /\ core = None /\ (Goto("writePending") \/ Fail("policy"))
  <2>1. PICK pc \in {"writePending", "rejectClear"} :
        op' \in Operations /\ UNCHANGED <<result, granted>>
        /\ op'.pc = pc /\ op'.req = op.req /\ op'.sem = op.sem
    BY <1>1, <1>8, WentTo, Failed DEF Steps, Reasons
  <2>2. TypeOK'
    BY <1>1, <2>1 DEF TypeOK, files
  <2>3. Attempts = {} /\ granted = {} /\ ~corrupt
    BY <1>6, <1>8
  <2>4. OperationInv'
    BY <1>1, <1>2, <1>8, <2>1, <2>3 DEF OperationInv, Unbound, CoreOwn, IntentOwn,
         GrantOwn, ClearedFirst, files
  <2> QED
    BY <1>3, <2>1, <2>2, <2>4
<1> QED
  BY <1>4, <1>5, <1>7, <1>8 DEF Decide

LEMMA WritePendingStep ==
  ASSUME CreateInv, NEW o \in Outcomes, WritePending(o) PROVE CreateInv'
<1> USE DEF CreateInv
<1>1. /\ op.pc = "writePending" /\ Charge(o)
      /\ UNCHANGED <<core, log, others, tail, corrupt, legacy, calls, crashes>>
      /\ pending' \in {pending, [digest |-> op.req.digest, sem |-> op.sem]}
      /\ o = "ok" => pending' = [digest |-> op.req.digest, sem |-> op.sem]
      /\ op \in Operations /\ UNCHANGED Attempts
  BY SameLog DEF WritePending, TypeOK
<1>2. /\ op.req \in Requests /\ op.sem \in Semantics /\ op.sem.content = op.req.content
      /\ core = None /\ Attempts = {} /\ ~corrupt /\ granted = {}
  BY <1>1 DEF OperationInv, CoreOwn, Unbound, GrantOwn
<1>3. faults' \in Nat /\ (faults' = 0 => faults = 0 /\ o = "ok")
  BY <1>1, Charged DEF TypeOK
<1>4. PICK pc \in {"publish", "rejectClear"} :
        /\ op' \in Operations /\ UNCHANGED <<result, granted>>
        /\ op'.pc = pc /\ op'.req = op.req /\ op'.sem = op.sem
        /\ pc = "publish" => o = "ok"
  BY <1>1, WentTo, Failed DEF WritePending, Steps, Reasons
<1>5. pending' \in Intents \cup {None}
  BY <1>1, <1>2 DEF TypeOK, Intents, Requests
<1>6. TypeOK'
  BY <1>1, <1>3, <1>4, <1>5 DEF TypeOK
<1>7. OperationInv'
  BY <1>1, <1>2, <1>4 DEF OperationInv, Unbound, CoreOwn, IntentOwn, GrantOwn, ClearedFirst
<1>8. FilesInv'
  BY <1>1, <1>2, <1>4 DEF FilesInv, AcceptedHasCore, RejectedStaysReserved, LogHas, ExactReplay,
              GrantsAccepted, Accepted, IntentAlone
<1> QED
  BY <1>6, <1>7, <1>8

LEMMA PublishStep ==
  ASSUME CreateInv, NEW o \in Outcomes, NEW errno \in Errnos, Publish(o, errno)
  PROVE  CreateInv'
<1> USE DEF CreateInv
<1>1. /\ op.pc = "publish" /\ Charge(o)
      /\ UNCHANGED <<pending, log, others, tail, corrupt, legacy, calls, crashes>>
      /\ op \in Operations /\ UNCHANGED Attempts
  BY SameLog DEF Publish, TypeOK
<1>2. /\ op.req \in Requests /\ op.sem \in Semantics /\ op.sem.content = op.req.content
      /\ core = None /\ Attempts = {} /\ ~corrupt /\ granted = {}
      /\ pending = [digest |-> op.req.digest, sem |-> op.sem]
  BY <1>1 DEF OperationInv, CoreOwn, Unbound, GrantOwn, IntentOwn
<1>3. core' \in {None, op.sem} /\ (o = "ok" => core' = op.sem)
  BY <1>2 DEF Publish
<1>4. faults' \in Nat /\ (faults' = 0 => faults = 0 /\ o = "ok")
  BY <1>1, Charged DEF TypeOK
<1>5. PICK pc \in {"append", "rejectClear"} :
        /\ op' \in Operations /\ UNCHANGED <<result, granted>>
        /\ op'.pc = pc /\ op'.req = op.req /\ op'.sem = op.sem
        /\ pc = "append" => o = "ok"
        /\ pc = "rejectClear" => op'.why # "policy"
  <2>1. CASE o = "ok"
    BY <1>1, <2>1, WentTo DEF Publish, Steps
  <2>2. CASE o # "ok"
    <3>1. errno \in Reasons /\ errno # "policy"
      BY CreateAssumption DEF Reasons
    <3> QED
      BY <1>1, <2>2, <3>1, Failed DEF Publish
  <2> QED
    BY <2>1, <2>2
<1>6. TypeOK'
  BY <1>1, <1>2, <1>3, <1>4, <1>5 DEF TypeOK
<1>7. OperationInv'
  BY <1>1, <1>2, <1>3, <1>5 DEF OperationInv, Unbound, CoreOwn, IntentOwn, GrantOwn, ClearedFirst
<1>8. \A i \in DOMAIN log : IsCrashReject(log[i])
  BY <1>2, BoundByRecord DEF TypeOK
<1>9. FilesInv'
  BY <1>1, <1>2, <1>3, <1>5, <1>8 DEF FilesInv, AcceptedHasCore, RejectedStaysReserved, LogHas,
     ExactReplay, GrantsAccepted, Accepted, IntentAlone, IsCrashReject
<1> QED
  BY <1>6, <1>7, <1>9

\* The record an operation appends, and what the log makes of it.
LEMMA RecordTyped ==
  ASSUME op \in Operations, op.req \in Requests, NEW outcome \in {"accepted", "rejected"},
         NEW why \in Reasons
  PROVE  /\ Record(outcome, why) \in Records
         /\ Key(Record(outcome, why)) = <<op.req.digest, op.sem, outcome>>
         /\ Record(outcome, why).outcome = outcome /\ Record(outcome, why).why = why
         /\ Record(outcome, why).sem = op.sem
BY DEF Record, Key, Records, Operations, Requests

\* An acceptance is appended by an operation whose core is there, while nothing
\* binds the ID: from then on it does.
LEMMA AcceptanceAppended ==
  ASSUME CreateInv, op.pc \in {"append", "replayAppend"}, NEW o,
         AppendLine(Record("accepted", "none"), o),
         UNCHANGED <<core, pending, legacy, granted>>, faults' = 0 => faults = 0
  PROVE  /\ FilesInv' /\ (o = "ok" => corrupt' \/ <<op.req.digest, core, "accepted">> \in Attempts')
         /\ log' \in Seq(Records) /\ tail' \in {"clean", "torn"} /\ corrupt' \in BOOLEAN
<1> DEFINE r == Record("accepted", "none")
<1>1. /\ op \in Operations /\ op.req \in Requests /\ log \in Seq(Records)
      /\ core = op.sem /\ core \in Semantics /\ Attempts = {} /\ granted = {}
      /\ pending = [digest |-> op.req.digest, sem |-> op.sem]
      /\ tail \in {"clean", "torn"} /\ corrupt \in BOOLEAN
  BY DEF CreateInv, TypeOK, OperationInv, CoreOwn, Unbound, GrantOwn, IntentOwn
<1>2. /\ r \in Records /\ Key(r) = <<op.req.digest, core, "accepted">>
      /\ r.outcome = "accepted" /\ r.why = "none" /\ r.sem = core
  BY <1>1, RecordTyped DEF Reasons
<1>3. AppendLine(r, o)
  OBVIOUS
<1> HIDE DEF r
<1>4. /\ log' = log \/ log' = Append(log, r)
      /\ log' \in Seq(Records) /\ tail' \in {"clean", "torn"} /\ corrupt' \in BOOLEAN
      /\ o = "ok" => corrupt' \/ log' = Append(log, r)
  BY <1>1, <1>2, <1>3, AppendedLine
<1>5. core # None
  BY <1>1, NoneIsNoCard
<1>6. CASE log' = log
  <2>1. UNCHANGED Attempts
    BY <1>6, SameLog
  <2>2. FilesInv'
    BY <1>1, <1>6, <2>1 DEF CreateInv, FilesInv, AcceptedHasCore, RejectedStaysReserved, LogHas,
       ExactReplay, GrantsAccepted, Accepted, IntentAlone
  <2>3. Len(Append(log, r)) = Len(log) + 1 /\ Len(log) \in Nat
    BY <1>1, <1>2
  <2>4. log' # Append(log, r)
    BY <1>6, <2>3
  <2> QED
    BY <1>4, <2>2, <2>4
<1>7. CASE log' = Append(log, r)
  <2>1. Attempts' = {<<op.req.digest, core, "accepted">>}
    BY <1>1, <1>2, <1>7, AppendAttempts DEF IsCrashReject
  <2>2. \A i \in DOMAIN log' : (i \in DOMAIN log /\ log'[i] = log[i]) \/ log'[i] = r
    BY <1>1, <1>2, <1>7, AppendedRecords
  <2>3. AcceptedHasCore'
    BY <1>2, <1>5, <2>2 DEF CreateInv, FilesInv, AcceptedHasCore
  <2>4. RejectedStaysReserved'
    BY <1>2, <2>2 DEF CreateInv, FilesInv, RejectedStaysReserved, LogHas
  <2>5. FilesInv'
    BY <1>1, <2>1, <2>3, <2>4 DEF CreateInv, FilesInv, ExactReplay, GrantsAccepted, IntentAlone
  <2> QED
    BY <1>4, <2>1, <2>5
<1> QED
  BY <1>4, <1>6, <1>7

LEMMA AppendAcceptedStep ==
  ASSUME CreateInv, NEW o \in AppendOutcomes, AppendAccepted(o) PROVE CreateInv'
<1> USE DEF CreateInv
<1>1. /\ op.pc = "append" /\ Charge(o) /\ AppendLine(Record("accepted", "none"), o)
      /\ UNCHANGED <<core, pending, others, legacy, calls, crashes>> /\ op \in Operations
  BY DEF AppendAccepted, TypeOK
<1>2. /\ op.req \in Requests /\ op.sem \in Semantics /\ op.sem.content = op.req.content
      /\ core = op.sem /\ granted = {}
  BY <1>1 DEF OperationInv, CoreOwn, GrantOwn
<1>3. faults' \in Nat /\ (faults' = 0 => faults = 0 /\ o = "ok")
  BY <1>1, Charged DEF TypeOK
<1>4. PICK pc \in {"clear", "rejectClear"} :
        /\ op' \in Operations /\ UNCHANGED <<result, granted>>
        /\ op'.pc = pc /\ op'.req = op.req /\ op'.sem = op.sem
        /\ pc = "clear" => o = "ok"
        /\ pc = "rejectClear" => op'.why # "policy"
  BY <1>1, WentTo, Failed DEF AppendAccepted, Steps, Reasons
<1>5. /\ FilesInv' /\ (o = "ok" => corrupt' \/ <<op.req.digest, core, "accepted">> \in Attempts')
      /\ log' \in Seq(Records) /\ tail' \in {"clean", "torn"} /\ corrupt' \in BOOLEAN
  BY <1>1, <1>3, <1>4, AcceptanceAppended
<1>6. TypeOK'
  BY <1>1, <1>3, <1>4, <1>5 DEF TypeOK
<1>7. OperationInv'
  BY <1>1, <1>2, <1>4, <1>5 DEF OperationInv, Unbound, CoreOwn, IntentOwn, GrantOwn, ClearedFirst,
     Accepted
<1> QED
  BY <1>5, <1>6, <1>7

LEMMA ReplayAppendStep ==
  ASSUME CreateInv, NEW o \in AppendOutcomes, ReplayAppend(o) PROVE CreateInv'
<1> USE DEF CreateInv
<1>1. /\ op.pc = "replayAppend" /\ Charge(o) /\ AppendLine(Record("accepted", "none"), o)
      /\ UNCHANGED <<core, pending, others, legacy, calls, crashes>> /\ op \in Operations
  BY DEF ReplayAppend, TypeOK
<1>2. /\ op.req \in Requests /\ op.sem \in Semantics /\ op.sem.content = op.req.content
      /\ core = op.sem /\ granted = {}
  BY <1>1 DEF OperationInv, CoreOwn, GrantOwn
<1>3. faults' \in Nat /\ (faults' = 0 => faults = 0 /\ o = "ok")
  BY <1>1, Charged DEF TypeOK
<1>4. \/ /\ o = "ok" /\ op' \in Operations /\ UNCHANGED <<result, granted>>
         /\ op'.pc = "replayClear" /\ op'.req = op.req /\ op'.sem = op.sem
      \/ op' = NoOperation /\ result' = "error" /\ UNCHANGED granted
  BY <1>1, WentTo, ReturnedNothing DEF ReplayAppend, Steps
<1>5. /\ FilesInv' /\ (o = "ok" => corrupt' \/ <<op.req.digest, core, "accepted">> \in Attempts')
      /\ log' \in Seq(Records) /\ tail' \in {"clean", "torn"} /\ corrupt' \in BOOLEAN
  BY <1>1, <1>3, <1>4, AcceptanceAppended
<1>6. TypeOK'
  BY <1>1, <1>3, <1>4, <1>5, NothingUnderWay DEF TypeOK, Results
<1>7. CASE op' = NoOperation
  BY <1>5, <1>6, <1>7, Returned
<1>8. CASE op' # NoOperation
  <2>1. OperationInv'
    BY <1>1, <1>2, <1>4, <1>5, <1>8 DEF OperationInv, Unbound, CoreOwn, IntentOwn, GrantOwn,
       ClearedFirst, Accepted
  <2> QED
    BY <1>5, <1>6, <2>1
<1> QED
  BY <1>7, <1>8

LEMMA ClearPendingStep ==
  ASSUME CreateInv, NEW o \in Outcomes, ClearPending(o) PROVE CreateInv'
<1> USE DEF CreateInv
<1>1. /\ op.pc = "clear" /\ Charge(o)
      /\ UNCHANGED <<core, log, others, tail, corrupt, legacy, calls, crashes>>
      /\ pending' \in {pending, None} /\ op \in Operations /\ UNCHANGED Attempts
  BY SameLog DEF ClearPending, TypeOK
<1>2. /\ op.req \in Requests /\ op.sem \in Semantics /\ op.sem.content = op.req.content
      /\ core = op.sem /\ granted = {} /\ Accepted(op.req)
  BY <1>1 DEF OperationInv, CoreOwn, GrantOwn
<1>3. faults' \in Nat /\ (faults' = 0 => faults = 0 /\ o = "ok")
  BY <1>1, Charged DEF TypeOK
<1>4. PICK pc \in {"legacy", "rejectClear"} :
        /\ op' \in Operations /\ UNCHANGED <<result, granted>>
        /\ op'.pc = pc /\ op'.req = op.req /\ op'.sem = op.sem
        /\ pc = "rejectClear" => op'.why # "policy"
  <2>1. CASE o = "ok"
    BY <1>1, <2>1 DEF ClearPending, Operations, Steps
  <2>2. CASE o # "ok"
    BY <1>1, <2>2, Failed DEF ClearPending, Reasons
  <2> QED
    BY <2>1, <2>2
<1>5. TypeOK'
  BY <1>1, <1>3, <1>4 DEF TypeOK
<1>6. OperationInv'
  BY <1>1, <1>2, <1>4 DEF OperationInv, Unbound, CoreOwn, IntentOwn, GrantOwn, ClearedFirst,
     Accepted
<1>7. FilesInv'
  BY <1>1, <1>3, <1>4, FilesCleared
<1> QED
  BY <1>5, <1>6, <1>7

LEMMA ReplayClearStep ==
  ASSUME CreateInv, NEW o \in Outcomes, ReplayClear(o) PROVE CreateInv'
<1> USE DEF CreateInv
<1>1. /\ op.pc = "replayClear" /\ Charge(o)
      /\ UNCHANGED <<core, log, others, tail, corrupt, legacy, calls, crashes>>
      /\ pending' \in {pending, None} /\ op \in Operations /\ UNCHANGED Attempts
  BY SameLog DEF ReplayClear, TypeOK
<1>2. /\ op.req \in Requests /\ op.sem \in Semantics /\ op.sem.content = op.req.content
      /\ core = op.sem /\ granted = {} /\ Accepted(op.req)
  BY <1>1 DEF OperationInv, CoreOwn, GrantOwn
<1>3. faults' \in Nat /\ (faults' = 0 => faults = 0 /\ o = "ok")
  BY <1>1, Charged DEF TypeOK
<1>4. \/ /\ op' \in Operations /\ UNCHANGED <<result, granted>>
         /\ op'.pc = "legacy" /\ op'.req = op.req /\ op'.sem = op.sem
      \/ op' = NoOperation /\ result' = "error" /\ UNCHANGED granted
  BY <1>1, WentTo, ReturnedNothing DEF ReplayClear, Steps
<1>5. TypeOK'
  BY <1>1, <1>3, <1>4, NothingUnderWay DEF TypeOK, Results
<1>6. FilesInv'
  BY <1>1, <1>3, <1>4, FilesCleared
<1>7. CASE op' = NoOperation
  BY <1>5, <1>6, <1>7, Returned
<1>8. CASE op' # NoOperation
  <2>1. OperationInv'
    BY <1>1, <1>2, <1>4, <1>8 DEF OperationInv, Unbound, CoreOwn, IntentOwn, GrantOwn,
       ClearedFirst, Accepted
  <2> QED
    BY <1>5, <1>6, <2>1
<1> QED
  BY <1>7, <1>8

LEMMA RejectClearStep ==
  ASSUME CreateInv, NEW o \in Outcomes, RejectClear(o) PROVE CreateInv'
<1> USE DEF CreateInv
<1>1. /\ op.pc = "rejectClear" /\ Charge(o)
      /\ UNCHANGED <<core, log, others, tail, corrupt, legacy, calls, crashes>>
      /\ pending' \in {pending, None} /\ (o = "ok" => pending' = None) /\ op \in Operations
  BY DEF RejectClear, TypeOK
<1>2. op.req \in Requests /\ granted = {} /\ (op.why = "policy" => core = None)
  BY <1>1 DEF OperationInv, CoreOwn, GrantOwn
<1>3. faults' \in Nat /\ (faults' = 0 => faults = 0 /\ o = "ok")
  BY <1>1, Charged DEF TypeOK
<1>4. /\ op' \in Operations /\ UNCHANGED <<result, granted>>
      /\ op'.pc = "rejectAppend" /\ op'.req = op.req /\ op'.why = op.why
  BY <1>1, WentTo DEF RejectClear, Steps
<1>5. TypeOK'
  BY <1>1, <1>3, <1>4 DEF TypeOK
<1>6. OperationInv'
  BY <1>1, <1>2, <1>3, <1>4 DEF OperationInv, Unbound, CoreOwn, IntentOwn, GrantOwn, ClearedFirst
<1>7. FilesInv'
  BY <1>1, <1>3, <1>4, FilesCleared
<1> QED
  BY <1>5, <1>6, <1>7

\* A rejection is logged by an operation nobody has the card of; a policy
\* rejection only while there is no core, and without failed writes only once
\* the intent is gone.
LEMMA RejectAppendStep ==
  ASSUME CreateInv, NEW o \in AppendOutcomes, RejectAppend(o) PROVE CreateInv'
<1> USE DEF CreateInv
<1> DEFINE r == Record("rejected", op.why)
<1>1. /\ op.pc = "rejectAppend" /\ Charge(o) /\ AppendLine(r, o)
      /\ UNCHANGED <<core, pending, others, legacy, calls, crashes>> /\ op \in Operations
  BY DEF RejectAppend, TypeOK
<1>2. /\ op.req \in Requests /\ granted = {} /\ (op.why = "policy" => core = None)
      /\ faults = 0 => pending = None
  BY <1>1 DEF OperationInv, CoreOwn, GrantOwn, ClearedFirst
<1>3. faults' \in Nat /\ (faults' = 0 => faults = 0 /\ o = "ok")
  BY <1>1, Charged DEF TypeOK
<1>4. \/ /\ op' \in Operations /\ UNCHANGED <<result, granted>>
         /\ op'.pc = "clearAgain" /\ op'.req = op.req
      \/ op' = NoOperation /\ result' \in {"refused", "error"} /\ UNCHANGED granted
  <2>1. CASE o # "ok" /\ op.why # "policy"
    BY <1>1, <2>1, WentTo DEF RejectAppend, Steps
  <2>2. CASE ~(o # "ok" /\ op.why # "policy")
    <3>1. PICK v \in {"refused", "error"} : Return(v)
      BY <2>2 DEF RejectAppend
    <3> QED
      BY <3>1, ReturnedNothing
  <2> QED
    BY <2>1, <2>2
<1>5. r \in Records /\ r.outcome = "rejected" /\ r.why = op.why
  <2>1. op.why \in Reasons
    BY <1>1 DEF Operations
  <2> QED
    BY <1>1, <1>2, <2>1, RecordTyped
<1> HIDE DEF r
<1>6. /\ log' = log \/ log' = Append(log, r)
      /\ log' \in Seq(Records) /\ tail' \in {"clean", "torn"} /\ corrupt' \in BOOLEAN
  BY <1>1, <1>5, AppendedLine DEF TypeOK
<1>7. TypeOK'
  BY <1>1, <1>3, <1>4, <1>6, NothingUnderWay DEF TypeOK, Results
<1>8. OperationInv'
  <2>1. CASE op' = NoOperation
    BY <2>1, Returned
  <2>2. CASE op' # NoOperation
    BY <1>2, <1>4, <2>2 DEF OperationInv, Unbound, CoreOwn, IntentOwn, GrantOwn, ClearedFirst
  <2> QED
    BY <2>1, <2>2
<1>9. UNCHANGED granted
  BY <1>4
<1>10. CASE log' = log
  <2>1. UNCHANGED Attempts
    BY <1>10, SameLog
  <2>2. FilesInv'
    BY <1>1, <1>2, <1>3, <1>9, <1>10, <2>1 DEF FilesInv, AcceptedHasCore, RejectedStaysReserved,
       LogHas, ExactReplay, GrantsAccepted, Accepted, IntentAlone
  <2> QED
    BY <1>7, <1>8, <2>2
<1>11. CASE log' = Append(log, r)
  <2>1. \A i \in DOMAIN log' : (i \in DOMAIN log /\ log'[i] = log[i]) \/ log'[i] = r
    BY <1>5, <1>11, AppendedRecords DEF TypeOK
  <2>2. AcceptedHasCore'
    BY <1>1, <1>5, <2>1 DEF FilesInv, AcceptedHasCore
  <2>3. RejectedStaysReserved'
    BY <1>1, <1>2, <1>5, <1>9, <2>1 DEF FilesInv, RejectedStaysReserved, LogHas
  <2>4. FilesInv'
    BY <1>1, <1>2, <1>3, <1>9, <2>2, <2>3 DEF FilesInv, ExactReplay, GrantsAccepted, IntentAlone
  <2> QED
    BY <1>7, <1>8, <2>4
<1> QED
  BY <1>6, <1>10, <1>11

LEMMA ClearAgainStep ==
  ASSUME CreateInv, NEW o \in Outcomes, ClearAgain(o) PROVE CreateInv'
<1> USE DEF CreateInv
<1>1. /\ Charge(o) /\ UNCHANGED <<core, log, others, tail, corrupt, legacy, calls, crashes>>
      /\ pending' \in {pending, None}
  BY DEF ClearAgain
<1>2. faults' \in Nat /\ (faults' = 0 => faults = 0 /\ o = "ok")
  BY <1>1, Charged DEF TypeOK
<1>3. op' = NoOperation /\ result' = "error" /\ UNCHANGED granted
  BY ReturnedNothing DEF ClearAgain
<1>4. TypeOK'
  BY <1>1, <1>2, <1>3, NothingUnderWay DEF TypeOK, Results
<1> QED
  BY <1>1, <1>2, <1>3, <1>4, Returned, FilesCleared

\* The legacy file is written with what all who have the card asked for.
LEMMA LegacyWritten ==
  ASSUME CreateInv, op.pc = "legacy", UNCHANGED <<core, pending, log, corrupt>>,
         faults' = 0 => faults = 0, legacy' \in {legacy, op.req.content},
         \/ UNCHANGED granted
         \/ granted' = granted \cup {op.req} /\ legacy' = op.req.content
  PROVE  FilesInv'
<1>1. /\ op.req \in Requests /\ core = op.sem /\ core \in Semantics
      /\ core.content = op.req.content
      /\ Accepted(op.req) /\ \A q \in granted : q = op.req
  BY DEF CreateInv, OperationInv, CoreOwn, GrantOwn
<1>2. core # None
  BY <1>1, NoneIsNoCard
<1>3. UNCHANGED Attempts
  BY SameLog
<1>4. \A q \in granted' : q = op.req
  BY <1>1
<1>5. ExactReplay'
  BY <1>1, <1>2, <1>4 DEF CreateInv, FilesInv, ExactReplay
<1>6. GrantsAccepted'
  BY <1>1, <1>3, <1>4 DEF Accepted, GrantsAccepted
<1>7. RejectedStaysReserved'
  BY <1>2 DEF CreateInv, FilesInv, RejectedStaysReserved, LogHas
<1> QED
  BY <1>3, <1>5, <1>6, <1>7 DEF CreateInv, FilesInv, AcceptedHasCore, IntentAlone

LEMMA WriteLegacyStep ==
  ASSUME CreateInv, NEW o \in Outcomes, WriteLegacy(o) PROVE CreateInv'
<1> USE DEF CreateInv
<1>1. /\ op.pc = "legacy" /\ UNCHANGED <<core, pending, log, others, tail, corrupt, calls, crashes>>
      /\ op' = NoOperation
  BY DEF WriteLegacy, Return
<1>2. op.req \in Requests /\ op.req.content \in Contents
  BY <1>1 DEF OperationInv, CoreOwn, Requests
<1>3. /\ faults' \in Nat /\ (faults' = 0 => faults = 0)
      /\ legacy' \in {legacy, op.req.content} /\ result' \in Results
      /\ \/ UNCHANGED granted
         \/ granted' = granted \cup {op.req} /\ legacy' = op.req.content
  <2>1. CASE ~op.fresh /\ legacy # None
    BY <2>1 DEF WriteLegacy, Return, Results, TypeOK
  <2>2. CASE ~(~op.fresh /\ legacy # None)
    <3>1. faults' \in Nat /\ (faults' = 0 => faults = 0)
      BY <2>2, Charged DEF WriteLegacy, TypeOK
    <3> QED
      BY <2>2, <3>1 DEF WriteLegacy, Return, Results
  <2> QED
    BY <2>1, <2>2
<1>4. TypeOK'
  BY <1>1, <1>2, <1>3, NothingUnderWay DEF TypeOK
<1>5. FilesInv'
  BY <1>1, <1>3, LegacyWritten
<1> QED
  BY <1>1, <1>4, <1>5, Returned

LEMMA ClaimNotCurrentStep == ASSUME CreateInv, ClaimNotCurrent PROVE CreateInv'
<1> USE DEF CreateInv
<1>1. /\ UNCHANGED <<files, calls, faults, crashes>>
      /\ op' = NoOperation /\ result' = "refused" /\ UNCHANGED granted
  BY ReturnedNothing DEF ClaimNotCurrent
<1>2. TypeOK'
  BY <1>1, NothingUnderWay DEF TypeOK, Results, files
<1> QED
  BY <1>1, <1>2, Returned, FilesKept DEF files

LEMMA ClaimFailsStep == ASSUME CreateInv, ClaimFails PROVE CreateInv'
<1> USE DEF CreateInv
<1>1. /\ op.pc = "legacy" /\ legacy' = op.req.content
      /\ UNCHANGED <<core, pending, log, others, tail, corrupt, calls, faults, crashes>>
      /\ op' = NoOperation /\ result' = "error" /\ UNCHANGED granted
  BY ReturnedNothing DEF ClaimFails
<1>2. op.req.content \in Contents
  BY <1>1 DEF OperationInv, CoreOwn, Requests
<1>3. TypeOK'
  BY <1>1, <1>2, NothingUnderWay DEF TypeOK, Results
<1>4. FilesInv'
  BY <1>1, LegacyWritten
<1> QED
  BY <1>1, <1>3, <1>4, Returned

\* A crash leaves the files as they are, but for an incomplete last line.
LEMMA CrashStep == ASSUME CreateInv, Crash PROVE CreateInv'
<1> USE DEF CreateInv
<1>1. /\ UNCHANGED <<core, pending, log, others, corrupt, legacy, calls, faults, granted>>
      /\ op' = NoOperation /\ result' = "none" /\ crashes' = crashes + 1
      /\ tail' \in {tail, "torn"}
  BY DEF Crash
<1>2. TypeOK'
  BY <1>1, NothingUnderWay DEF TypeOK, Results
<1> QED
  BY <1>1, <1>2, Returned, FilesKept

\* Lines about other IDs bind nothing here.
LEMMA OtherStep == ASSUME CreateInv, OtherAppend \/ OtherTorn PROVE CreateInv'
<1> USE DEF CreateInv
<1>1. /\ UNCHANGED <<core, pending, log, legacy, op, result, calls, faults, granted>>
      /\ op.pc = "idle" /\ others' \in BOOLEAN /\ tail' \in {"clean", "torn"}
      /\ corrupt' \in BOOLEAN /\ (corrupt => corrupt') /\ crashes' \in Nat
  <2>1. CASE OtherAppend
    BY <2>1 DEF OtherAppend, TypeOK, Idle
  <2>2. CASE OtherTorn
    BY <2>2 DEF OtherTorn, TypeOK, Idle
  <2> QED
    BY <2>1, <2>2
<1>2. TypeOK'
  BY <1>1 DEF TypeOK
<1>3. OperationInv'
  BY <1>1 DEF OperationInv, Unbound, CoreOwn, IntentOwn, GrantOwn, ClearedFirst
<1> QED
  BY <1>1, <1>2, <1>3, FilesKept

LEMMA CreateStutter == ASSUME CreateInv, UNCHANGED vars PROVE CreateInv'
<1>1. UNCHANGED Attempts
  BY SameLog DEF vars, files
<1>2. FilesInv'
  BY FilesKept DEF CreateInv, vars, files
<1>3. OperationInv'
  BY <1>1 DEF CreateInv, vars, files, OperationInv, Unbound, CoreOwn, IntentOwn, GrantOwn,
     ClearedFirst, Accepted
<1> QED
  BY <1>2, <1>3 DEF CreateInv, TypeOK, vars, files

LEMMA CreateStep == CreateInv /\ [Next]_vars => CreateInv'
<1> SUFFICES ASSUME CreateInv, [Next]_vars PROVE CreateInv'
  OBVIOUS
<1>1. CASE UNCHANGED vars
  BY <1>1, CreateStutter
<1>2. CASE \E q \in Requests : CreateExplicitTask(q) \/ CreateClaimedTask(q)
  BY <1>2, ExplicitStep, ClaimedStep
<1>3. CASE \/ Reserve \/ Decide \/ ClaimNotCurrent \/ ClaimFails \/ Crash
           \/ OtherAppend \/ OtherTorn
  BY <1>3, OtherStep, ReserveStep, DecideStep, ClaimNotCurrentStep, ClaimFailsStep, CrashStep
<1>4. CASE \E o \in Outcomes : \/ WritePending(o) \/ ClearPending(o) \/ RejectClear(o)
                               \/ ClearAgain(o) \/ ReplayClear(o) \/ WriteLegacy(o)
  BY <1>4, WritePendingStep, ClearPendingStep, RejectClearStep, ClearAgainStep, ReplayClearStep,
     WriteLegacyStep
<1>5. CASE \E o \in Outcomes : \E errno \in Errnos : Publish(o, errno)
  BY <1>5, PublishStep
<1>6. CASE \E o \in AppendOutcomes : AppendAccepted(o) \/ RejectAppend(o) \/ ReplayAppend(o)
  BY <1>6, AppendAcceptedStep, RejectAppendStep, ReplayAppendStep
<1> QED
  BY <1>1, <1>2, <1>3, <1>4, <1>5, <1>6 DEF Next

\* The invariant holds for every set of requests and every number of calls, failed
\* writes and crashes.
THEOREM CreateInvHolds == Spec => []CreateInv
BY CreateInitially, CreateStep, PTL DEF Spec

\* Type correctness of creation under an explicit ID.
THEOREM CreateTypeCorrect == Spec => []TypeOK
<1>1. CreateInv => TypeOK
  BY DEF CreateInv
<1> QED
  BY <1>1, CreateInvHolds, PTL

\* No failed write, torn append or crash leaves an acceptance in the attempt log
\* without the core.json it accepts.
THEOREM AcceptedHasCoreHolds == Spec => []AcceptedHasCore
<1>1. CreateInv => AcceptedHasCore
  BY DEF CreateInv, FilesInv
<1> QED
  BY <1>1, CreateInvHolds, PTL

\* All callers of create_explicit_task and create_claimed_task that got the card
\* sent one request, and the card and its legacy file are what it asked for.
THEOREM ExactReplayHolds == Spec => []ExactReplay
<1>1. CreateInv => ExactReplay
  BY DEF CreateInv, FilesInv
<1> QED
  BY <1>1, CreateInvHolds, PTL

\* An ID whose policy rejection was logged never gets a card.
THEOREM RejectedStaysReservedHolds == Spec => []RejectedStaysReserved
<1>1. CreateInv => RejectedStaysReserved
  BY DEF CreateInv, FilesInv
<1> QED
  BY <1>1, CreateInvHolds, PTL

\* The intent a crash leaves can be resumed by the same request.
THEOREM ResumePossibleHolds == Spec => []ResumePossible
<1>1. CreateInv => ResumePossible
  <2> SUFFICES ASSUME CreateInv, faults = 0, ~Unreadable, pending # None
               PROVE  /\ ~AttemptConflict /\ ~BoundRejected
                      /\ core \in {None, pending.sem}
                      /\ BoundAccepted => core # None
    BY DEF ResumePossible
  <2>1. /\ Attempts \subseteq {<<pending.digest, pending.sem, "accepted">>}
        /\ core \in {None, pending.sem}
    BY DEF CreateInv, FilesInv, IntentAlone
  <2>2. ~AttemptConflict /\ ~BoundRejected
    BY <2>1 DEF AttemptConflict, BoundRejected
  <2>3. ASSUME BoundAccepted PROVE core # None
    <3>1. PICK i \in DOMAIN log : Key(log[i])[3] = "accepted"
      BY <2>3 DEF BoundAccepted, Attempts, Relevant
    <3> QED
      BY <3>1 DEF CreateInv, FilesInv, AcceptedHasCore, Key
  <2> QED
    BY <2>1, <2>2, <2>3
<1> QED
  BY <1>1, CreateInvHolds, PTL

\* A published core is never replaced, and no later creation turns the acceptance
\* of a granted card into a conflict.
THEOREM GrantKeptHolds == Spec => GrantKept
<1> DEFINE Keeps == /\ core # None => core' = core
                    /\ granted # {} /\ ~corrupt /\ BoundAccepted => (BoundAccepted)'
<1>1. CreateInv /\ Next => Keeps
  <2> SUFFICES ASSUME CreateInv, Next PROVE Keeps
    OBVIOUS
  <2>1. core # None => core' = core
    BY DEF Next, CreateExplicitTask, CreateClaimedTask, Reserve, Decide, ClaimNotCurrent,
       ClaimFails, Crash, OtherAppend, OtherTorn, WritePending, ClearPending, RejectClear, ClearAgain, ReplayClear,
       WriteLegacy, Publish, AppendAccepted, RejectAppend, ReplayAppend, files
  <2>2. log' = log \/ op.pc \in {"append", "rejectAppend", "replayAppend"}
    BY DEF Next, CreateExplicitTask, CreateClaimedTask, Reserve, Decide, ClaimNotCurrent,
       ClaimFails, Crash, OtherAppend, OtherTorn, WritePending, ClearPending, RejectClear, ClearAgain, ReplayClear,
       WriteLegacy, Publish, AppendAccepted, RejectAppend, ReplayAppend, files
  <2>3. op.pc \in {"append", "rejectAppend", "replayAppend"} => granted = {}
    BY DEF CreateInv, OperationInv, GrantOwn
  <2>4. log' = log => (BoundAccepted => (BoundAccepted)')
    BY SameLog
  <2> QED
    BY <2>1, <2>2, <2>3, <2>4
<1>2. CreateInv /\ [Next]_vars => [Keeps]_vars
  BY <1>1
<1> QED
  BY <1>2, CreateInvHolds, PTL DEF Spec, GrantKept

-----------------------------------------------------------------------------
(* Graphs *)

NoCycle(E) == \A x \in Cards : \A y \in E[x] : ~Reaches(E, y, x)

Covers(V, E) == \A x \in Cards : E[x] \subseteq V[x]

ReachSet(E, d) == {z \in Cards : Reaches(E, d, z)}

-----------------------------------------------------------------------------
(* Reachability *)

\* A path in a graph is a path in every graph that covers it.
LEMMA ReachesMonotone ==
  ASSUME NEW V, NEW E, Covers(V, E), NEW d, NEW c, Reaches(E, d, c)
  PROVE  Reaches(V, d, c)
<1> SUFFICES ASSUME NEW S \in SUBSET Cards, d \in S, Closed(V, S) PROVE c \in S
  BY DEF Reaches
<1>1. Closed(E, S)
  BY DEF Closed, Covers
<1> QED
  BY <1>1 DEF Reaches

LEMMA ReachesTransitive ==
  ASSUME NEW E, NEW a, NEW b, NEW c, Reaches(E, a, b), Reaches(E, b, c)
  PROVE  Reaches(E, a, c)
BY DEF Reaches

LEMMA ReachesItself == ASSUME NEW E, NEW x PROVE Reaches(E, x, x)
BY DEF Reaches

\* What a reachable card depends on is reachable.
LEMMA ReachesNext ==
  ASSUME NEW E, NEW d, NEW x \in Cards, Reaches(E, d, x), NEW y \in E[x]
  PROVE  Reaches(E, d, y)
BY DEF Reaches, Closed

\* What is reached from d holds d and is closed under the edges.
LEMMA ReachSetClosed ==
  ASSUME NEW E \in Edges, NEW d \in Cards
  PROVE  /\ d \in ReachSet(E, d)
         /\ Closed(E, ReachSet(E, d))
<1>1. d \in ReachSet(E, d)
  BY ReachesItself DEF ReachSet
<1>2. ASSUME NEW x \in ReachSet(E, d), NEW y \in E[x] PROVE y \in ReachSet(E, d)
  <2>1. x \in Cards /\ y \in Cards /\ Reaches(E, d, x)
    BY <1>2 DEF ReachSet, Edges
  <2>2. Reaches(E, d, y)
    BY <1>2, <2>1, ReachesNext
  <2> QED
    BY <2>1, <2>2 DEF ReachSet
<1> QED
  BY <1>1, <1>2 DEF Closed

\* Edges c -> W close no cycle if no member of W reaches c.
LEMMA AddEdges ==
  ASSUME NEW E \in Edges, NEW V, Covers(V, E), NoCycle(E),
         NEW c \in Cards, NEW W \in SUBSET Cards,
         \A d \in W : ~Reaches(V, d, c)
  PROVE  NoCycle([E EXCEPT ![c] = @ \cup W])
<1> DEFINE F == [E EXCEPT ![c] = @ \cup W]
<1>1. \A d \in W : ~Reaches(E, d, c)
  BY ReachesMonotone
<1>2. F \in Edges /\ F[c] = E[c] \cup W /\ \A z \in Cards : z # c => F[z] = E[z]
  BY DEF Edges
<1> HIDE DEF F
<1>3. ASSUME NEW x \in Cards, NEW y \in F[x] PROVE ~Reaches(F, y, x)
  <2> SUFFICES \E S \in SUBSET Cards : y \in S /\ Closed(F, S) /\ x \notin S
    BY DEF Reaches
  <2>1. y \in Cards
    BY <1>2, <1>3 DEF Edges
  <2> DEFINE R == ReachSet(E, y)
  <2>2. y \in R /\ Closed(E, R) /\ R \in SUBSET Cards
    BY <2>1, ReachSetClosed DEF ReachSet
  <2>3. CASE c \notin R /\ x \notin R
    <3>1. Closed(F, R)
      BY <1>2, <2>2, <2>3 DEF Closed
    <3> QED
      BY <2>2, <2>3, <3>1
  <2>4. CASE c \in R /\ y \in E[x]
    <3> DEFINE S == R \cup UNION {ReachSet(E, d) : d \in W}
    <3>1. S \in SUBSET Cards /\ y \in S
      BY <2>2 DEF ReachSet
    <3>2. W \subseteq S
      BY ReachSetClosed
    <3>3. Closed(E, S)
      BY <2>2, ReachSetClosed DEF Closed
    <3>4. Closed(F, S)
      BY <1>2, <3>1, <3>2, <3>3 DEF Closed
    <3>5. x \notin R
      BY <2>4 DEF NoCycle, ReachSet
    <3>6. ASSUME NEW d \in W, x \in ReachSet(E, d) PROVE FALSE
      <4>1. y \in ReachSet(E, d)
        BY <2>4, <3>6, ReachSetClosed DEF Closed
      <4>2. Reaches(E, d, y) /\ Reaches(E, y, c)
        BY <2>4, <4>1 DEF ReachSet
      <4> QED
        BY <1>1, <4>2, ReachesTransitive
    <3> QED
      BY <3>1, <3>4, <3>5, <3>6
  <2>5. CASE y \in E[x] /\ c \notin R
    BY <2>3, <2>5 DEF NoCycle, ReachSet
  <2>6. CASE y \notin E[x]
    <3>1. x = c /\ y \in W
      BY <1>2, <1>3, <2>6
    <3> QED
      BY <1>1, <2>3, <3>1 DEF ReachSet
  <2> QED
    BY <2>4, <2>5, <2>6
<1> QED
  BY <1>3 DEF NoCycle, F

\* Fewer edges have no more cycles.
LEMMA DropEdges ==
  ASSUME NEW E, NEW F, Covers(E, F), NoCycle(E) PROVE NoCycle(F)
BY ReachesMonotone DEF NoCycle, Covers

-----------------------------------------------------------------------------
(* The steps *)

LEMMA GraphStart == GraphInit => GraphInv
<1> SUFFICES ASSUME GraphInit PROVE GraphInv
  OBVIOUS
<1>1. GraphTypeOK
  BY DEF GraphInit, GraphTypeOK, Edges, NoEdges, GraphOperations, NoGraphOperation
<1>2. ViewCovers
  BY DEF GraphInit, ViewCovers, Resting, NoGraphOperation
<1>3. UnbornBare /\ AcyclicUnlessRaced
  BY DEF GraphInit, UnbornBare, AcyclicUnlessRaced, Acyclic, NoEdges
<1> QED
  BY <1>1, <1>2, <1>3 DEF GraphInv

\* A step that starts an operation changes nothing else.
LEMMA GraphBegin ==
  ASSUME GraphInv, NEW p \in Procs, NEW k \in {"add", "create"}, NEW c \in Cards,
         NEW W \in SUBSET Cards,
         proc' = [proc EXCEPT ![p] = [pc |-> "read", kind |-> k, card |-> c, want |-> W,
                                      unread |-> born, view |-> NoEdges]],
         UNCHANGED <<born, deps, raced>>
  PROVE  GraphInv'
<1>1. GraphTypeOK'
  BY DEF GraphInv, GraphTypeOK, GraphOperations, Edges, NoEdges
<1>2. ASSUME NEW q \in Procs, ~Resting(q)'
      PROVE  /\ proc'[q].card \in Cards
             /\ ~raced => /\ \A x \in Cards \ proc'[q].unread : deps[x] \subseteq proc'[q].view[x]
                          /\ proc'[q].pc = "write" =>
                               /\ proc'[q].unread = {}
                               /\ \A d \in proc'[q].want : ~Reaches(proc'[q].view, d, proc'[q].card)
  <2>1. CASE q = p
    BY <2>1 DEF GraphInv, GraphTypeOK, UnbornBare
  <2>2. CASE q # p
    BY <1>2, <2>2 DEF GraphInv, GraphTypeOK, ViewCovers, Resting
  <2> QED
    BY <2>1, <2>2
<1>3. ViewCovers'
  BY <1>2 DEF ViewCovers
<1>4. UnbornBare' /\ AcyclicUnlessRaced'
  BY DEF GraphInv, UnbornBare, AcyclicUnlessRaced, Acyclic, Reaches, Closed
<1> QED
  BY <1>1, <1>3, <1>4 DEF GraphInv

LEMMA GraphAdd ==
  ASSUME GraphInv, NEW p \in Procs, NEW c \in Cards, NEW d \in Cards, AddDependency(p, c, d)
  PROVE  GraphInv'
<1>1. /\ proc' = [proc EXCEPT ![p] = [pc |-> "read", kind |-> "add", card |-> c, want |-> {d},
                                      unread |-> born, view |-> NoEdges]]
      /\ UNCHANGED <<born, deps, raced>>
  BY DEF AddDependency
<1>2. {d} \in SUBSET Cards /\ "add" \in {"add", "create"}
  OBVIOUS
<1> QED
  BY ONLY GraphInv, <1>1, <1>2, p \in Procs, c \in Cards, GraphBegin

LEMMA GraphCreateDependent ==
  ASSUME GraphInv, NEW p \in Procs, NEW c \in Cards, NEW D \in SUBSET Cards,
         CreateDependent(p, c, D)
  PROVE  GraphInv'
<1>1. /\ proc' = [proc EXCEPT ![p] = [pc |-> "read", kind |-> "create", card |-> c, want |-> D,
                                      unread |-> born, view |-> NoEdges]]
      /\ UNCHANGED <<born, deps, raced>>
  BY DEF CreateDependent
<1>2. "create" \in {"add", "create"}
  OBVIOUS
<1> QED
  BY ONLY GraphInv, <1>1, <1>2, p \in Procs, c \in Cards, D \in SUBSET Cards, GraphBegin

LEMMA GraphRemove ==
  ASSUME GraphInv, NEW p \in Procs, NEW c \in Cards, NEW d \in Cards, RemoveDependency(p, c, d)
  PROVE  GraphInv'
<1>1. /\ deps' = [deps EXCEPT ![c] = @ \ {d}] /\ UNCHANGED <<born, proc, raced>>
      /\ GraphTypeOK /\ deps \in Edges
  BY DEF RemoveDependency, GraphInv, GraphTypeOK
<1>2. deps' \in Edges /\ Covers(deps, deps')
  BY <1>1 DEF Edges, Covers
<1>3. GraphTypeOK'
  BY <1>1, <1>2 DEF GraphTypeOK
<1>4. ViewCovers'
  BY <1>1, <1>2 DEF GraphInv, ViewCovers, Resting, Covers
<1>5. UnbornBare'
  BY <1>1, <1>2 DEF GraphInv, UnbornBare, Covers
<1>6. AcyclicUnlessRaced'
  <2>1. ~raced => NoCycle(deps')
    BY <1>2, DropEdges DEF GraphInv, AcyclicUnlessRaced, Acyclic, NoCycle
  <2> QED
    BY <1>1, <2>1 DEF AcyclicUnlessRaced, Acyclic, NoCycle
<1> QED
  BY <1>3, <1>4, <1>5, <1>6 DEF GraphInv

LEMMA GraphCreateFree ==
  ASSUME GraphInv, NEW p \in Procs, NEW c \in Cards, CreateFree(p, c) PROVE GraphInv'
<1>1. born' = born \cup {c} /\ UNCHANGED <<deps, proc, raced>>
  BY DEF CreateFree
<1>2. GraphTypeOK' /\ ViewCovers' /\ UnbornBare'
  BY <1>1 DEF GraphInv, GraphTypeOK, ViewCovers, Resting, UnbornBare
<1>3. AcyclicUnlessRaced'
  BY <1>1 DEF GraphInv, AcyclicUnlessRaced, Acyclic, Reaches, Closed
<1> QED
  BY <1>2, <1>3 DEF GraphInv

LEMMA GraphRead ==
  ASSUME GraphInv, NEW p \in Procs, NEW c \in Cards, ReadCard(p, c) PROVE GraphInv'
<1>1. /\ proc' = [proc EXCEPT ![p].unread = @ \ {c}, ![p].view[c] = deps[c]]
      /\ proc[p].pc = "read" /\ UNCHANGED <<born, deps, raced>>
  BY DEF ReadCard
<1>2. /\ proc \in [Procs -> GraphOperations] /\ deps \in Edges /\ proc[p] \in GraphOperations
      /\ proc[p].view \in Edges
  BY DEF GraphInv, GraphTypeOK, GraphOperations
<1>3. /\ \A q \in Procs : q # p => proc'[q] = proc[q]
      /\ proc'[p] = [proc[p] EXCEPT !.unread = @ \ {c}, !.view = [@ EXCEPT ![c] = deps[c]]]
  BY <1>1, <1>2 DEF GraphOperations, Edges
<1>4. /\ proc'[p] \in GraphOperations /\ proc'[p].pc = "read" /\ proc'[p].card = proc[p].card
      /\ proc'[p].unread = proc[p].unread \ {c} /\ proc'[p].view[c] = deps[c]
      /\ \A x \in Cards : x # c => proc'[p].view[x] = proc[p].view[x]
  BY <1>1, <1>2, <1>3 DEF GraphOperations, Edges
<1>5. GraphTypeOK'
  BY <1>1, <1>2, <1>3, <1>4 DEF GraphInv, GraphTypeOK
<1>6. ViewCovers'
  <2>1. ASSUME NEW q \in Procs, ~Resting(q)'
        PROVE  /\ proc'[q].card \in Cards
               /\ ~raced => /\ \A x \in Cards \ proc'[q].unread : deps[x] \subseteq proc'[q].view[x]
                            /\ proc'[q].pc = "write" =>
                                 /\ proc'[q].unread = {}
                                 /\ \A d \in proc'[q].want :
                                      ~Reaches(proc'[q].view, d, proc'[q].card)
    <3>1. CASE q = p
      <4>1. /\ proc[p].card \in Cards
            /\ ~raced => \A x \in Cards \ proc[p].unread : deps[x] \subseteq proc[p].view[x]
        BY <1>1 DEF GraphInv, ViewCovers, Resting
      <4>2. ~raced => \A x \in Cards \ proc'[p].unread : deps[x] \subseteq proc'[p].view[x]
        BY <1>4, <4>1
      <4> QED
        BY <1>4, <3>1, <4>1, <4>2
    <3>2. CASE q # p
      BY <1>3, <2>1, <3>2 DEF GraphInv, ViewCovers, Resting
    <3> QED
      BY <3>1, <3>2
  <2> QED
    BY <1>1, <2>1 DEF ViewCovers
<1>7. UnbornBare' /\ AcyclicUnlessRaced'
  BY <1>1 DEF GraphInv, UnbornBare, AcyclicUnlessRaced, Acyclic, Reaches, Closed
<1> QED
  BY <1>5, <1>6, <1>7 DEF GraphInv

LEMMA GraphCheck ==
  ASSUME GraphInv, NEW p \in Procs, Check(p) PROVE GraphInv'
<1>1. /\ proc[p].pc = "read" /\ proc[p].unread = {} /\ UNCHANGED <<born, deps, raced>>
      /\ proc \in [Procs -> GraphOperations] /\ proc[p] \in GraphOperations
  BY DEF Check, GraphInv, GraphTypeOK
<1>2. CASE \E d \in proc[p].want : Reaches(proc[p].view, d, proc[p].card)
  <2>1. proc' = [proc EXCEPT ![p] = NoGraphOperation]
    BY <1>2 DEF Check, Finish
  <2>2. GraphTypeOK'
    BY <1>1, <2>1 DEF GraphInv, GraphTypeOK, NoGraphOperation, GraphOperations, Edges, NoEdges
  <2>3. ViewCovers'
    BY <1>1, <2>1 DEF GraphInv, ViewCovers, Resting, NoGraphOperation
  <2>4. UnbornBare' /\ AcyclicUnlessRaced'
    BY <1>1 DEF GraphInv, UnbornBare, AcyclicUnlessRaced, Acyclic, Reaches, Closed
  <2> QED
    BY <2>2, <2>3, <2>4 DEF GraphInv
<1>3. CASE ~ \E d \in proc[p].want : Reaches(proc[p].view, d, proc[p].card)
  <2>1. proc' = [proc EXCEPT ![p].pc = "write"]
    BY <1>3 DEF Check
  <2>2. GraphTypeOK'
    BY <1>1, <2>1 DEF GraphInv, GraphTypeOK, GraphOperations
  <2>3. /\ \A q \in Procs : q # p => proc'[q] = proc[q]
        /\ proc'[p].card = proc[p].card /\ proc'[p].unread = {}
        /\ proc'[p].view = proc[p].view /\ proc'[p].want = proc[p].want
    BY <1>1, <2>1 DEF GraphOperations
  <2>4. ASSUME NEW q \in Procs, ~Resting(q)'
        PROVE  /\ proc'[q].card \in Cards
               /\ ~raced => /\ \A x \in Cards \ proc'[q].unread : deps[x] \subseteq proc'[q].view[x]
                            /\ proc'[q].pc = "write" =>
                                 /\ proc'[q].unread = {}
                                 /\ \A d \in proc'[q].want :
                                      ~Reaches(proc'[q].view, d, proc'[q].card)
    <3>1. CASE q = p
      BY <1>1, <1>3, <2>3, <3>1 DEF GraphInv, ViewCovers, Resting
    <3>2. CASE q # p
      BY <2>3, <2>4, <3>2 DEF GraphInv, ViewCovers, Resting
    <3> QED
      BY <3>1, <3>2
  <2>5. ViewCovers'
    BY <1>1, <2>4 DEF ViewCovers
  <2>6. UnbornBare' /\ AcyclicUnlessRaced'
    BY <1>1 DEF GraphInv, UnbornBare, AcyclicUnlessRaced, Acyclic, Reaches, Closed
  <2> QED
    BY <2>2, <2>5, <2>6 DEF GraphInv
<1> QED
  BY <1>2, <1>3

\* The only step that adds edges.
LEMMA GraphWrite ==
  ASSUME GraphInv, NEW p \in Procs, Write(p) PROVE GraphInv'
<1> DEFINE c == proc[p].card
           W == proc[p].want
           V == proc[p].view
<1>1. /\ proc[p].pc = "write" /\ born' = born \cup {c}
      /\ deps' = [deps EXCEPT ![c] = @ \cup W]
      /\ raced' = (raced \/ OthersChecking(p))
      /\ proc' = [proc EXCEPT ![p] = NoGraphOperation]
  BY DEF Write, Finish
<1>2. /\ proc \in [Procs -> GraphOperations] /\ deps \in Edges /\ W \in SUBSET Cards
      /\ V \in Edges /\ raced \in BOOLEAN /\ born \in SUBSET Cards
  BY DEF GraphInv, GraphTypeOK, GraphOperations
<1>3. c \in Cards
  BY <1>1 DEF GraphInv, ViewCovers, Resting
<1>4. GraphTypeOK'
  BY <1>1, <1>2, <1>3 DEF GraphTypeOK, NoGraphOperation, GraphOperations, Edges, NoEdges, OthersChecking
<1>5. ViewCovers'
  <2>1. \A q \in Procs : q # p => proc'[q] = proc[q]
    BY <1>1, <1>2
  <2>2. proc'[p].pc = "idle"
    BY <1>1, <1>2 DEF NoGraphOperation
  <2>3. ASSUME NEW q \in Procs, ~Resting(q)' PROVE proc'[q].card \in Cards /\ raced'
    BY <1>1, <2>1, <2>2, <2>3 DEF GraphInv, ViewCovers, Resting, OthersChecking
  <2> QED
    BY <2>3 DEF ViewCovers
<1>6. UnbornBare'
  BY <1>1, <1>2, <1>3 DEF GraphInv, UnbornBare, Edges
<1>7. AcyclicUnlessRaced'
  <2> SUFFICES ASSUME ~raced PROVE NoCycle(deps')
    BY <1>1 DEF AcyclicUnlessRaced, Acyclic, NoCycle
  <2>1. NoCycle(deps)
    BY DEF GraphInv, AcyclicUnlessRaced, Acyclic, NoCycle
  <2>2. Covers(V, deps) /\ \A d \in W : ~Reaches(V, d, c)
    BY <1>1 DEF GraphInv, ViewCovers, Resting, Covers
  <2> QED
    BY <1>1, <1>2, <1>3, <2>1, <2>2, AddEdges
<1> QED
  BY <1>4, <1>5, <1>6, <1>7 DEF GraphInv

LEMMA GraphStep == ASSUME GraphInv, [GraphNext]_graphVars PROVE GraphInv'
<1>1. CASE UNCHANGED graphVars
  BY <1>1 DEF graphVars, GraphInv, GraphTypeOK, ViewCovers, Resting, UnbornBare, AcyclicUnlessRaced,
              Acyclic, Reaches, Closed
<1>2. CASE GraphNext
  BY <1>2, GraphAdd, GraphRemove, GraphCreateFree, GraphCreateDependent, GraphRead,
     GraphCheck, GraphWrite DEF GraphNext
<1> QED
  BY <1>1, <1>2

\* Detection at write time works as long as writers do not race: for any cards
\* and any processes, amendments and births keep the graph acyclic unless an
\* edge is written while another process is checking its own.
THEOREM AcyclicHolds == GraphSpec => []AcyclicUnlessRaced
<1>1. GraphSpec => []GraphInv
  BY GraphStart, GraphStep, PTL DEF GraphSpec
<1>2. GraphInv => AcyclicUnlessRaced
  BY DEF GraphInv
<1> QED
  BY <1>1, <1>2, PTL

-----------------------------------------------------------------------------
(* The search behind Check *)

LEMMA SearchingInit == SearchInit => SearchInv
BY ReachesItself DEF SearchInit, SearchInv, SearchTypeOK

LEMMA SearchingVisit ==
  ASSUME SearchInv, NEW x \in Cards, Visit(x) PROVE SearchInv'
<1>1. /\ UNCHANGED <<edges, card, dep>> /\ x \in stack /\ verdict = "running"
      /\ SearchTypeOK
  BY DEF Visit, SearchInv
<1>2. \A y \in Cards : Reaches(edges, dep, y)' <=> Reaches(edges, dep, y)
  BY <1>1 DEF Reaches, Closed
<1>3. SearchTypeOK'
  BY <1>1 DEF Visit, SearchTypeOK, Edges
<1>4. CASE x = card
  <2>1. verdict' = "cycle" /\ stack' = stack \ {x} /\ seen' = seen
    BY <1>4 DEF Visit
  <2>2. Reaches(edges, dep, card)
    BY <1>1, <1>4 DEF SearchInv
  <2> QED
    BY <1>1, <1>2, <1>3, <2>1, <2>2 DEF SearchInv, SearchTypeOK
<1>5. CASE x # card /\ x \in seen
  <2>1. verdict' = "running" /\ stack' = stack \ {x} /\ seen' = seen
    BY <1>1, <1>5 DEF Visit
  <2>2. stack' \cup seen' = stack \cup seen
    BY <1>5, <2>1
  <2> QED
    BY <1>1, <1>2, <1>3, <2>1, <2>2 DEF SearchInv, SearchTypeOK
<1>6. CASE x # card /\ x \notin seen
  <2>1. /\ verdict' = "running" /\ stack' = (stack \ {x}) \cup edges[x]
        /\ seen' = seen \cup {x}
    BY <1>1, <1>6 DEF Visit
  <2>2. stack' \cup seen' = (stack \cup seen) \cup edges[x]
    BY <1>1, <2>1
  <2>3. \A y \in edges[x] : Reaches(edges, dep, y)
    BY <1>1, ReachesNext DEF SearchInv, SearchTypeOK
  <2>4. \A y \in stack' \cup seen' : Reaches(edges, dep, y)'
    BY <1>1, <1>2, <1>3, <2>2, <2>3 DEF SearchInv, SearchTypeOK
  <2>5. \A y \in seen' : edges'[y] \subseteq stack' \cup seen'
    BY <1>1, <2>1, <2>2 DEF SearchInv
  <2>6. dep' \in stack' \cup seen' /\ card' \notin seen'
    BY <1>1, <1>6, <2>1, <2>2 DEF SearchInv
  <2> QED
    BY <1>3, <2>1, <2>4, <2>5, <2>6 DEF SearchInv
<1> QED
  BY <1>4, <1>5, <1>6

LEMMA SearchingExhausted == ASSUME SearchInv, Exhausted PROVE SearchInv'
<1>1. \A y \in Cards : Reaches(edges, dep, y)' <=> Reaches(edges, dep, y)
  BY DEF Exhausted, Reaches, Closed
<1> QED
  BY <1>1 DEF Exhausted, SearchInv, SearchTypeOK

LEMMA SearchingStep == ASSUME SearchInv, [SearchNext]_searchVars PROVE SearchInv'
<1>1. CASE UNCHANGED searchVars
  <2>1. \A y \in Cards : Reaches(edges, dep, y)' <=> Reaches(edges, dep, y)
    BY <1>1 DEF searchVars, Reaches, Closed
  <2> QED
    BY <1>1, <2>1 DEF searchVars, SearchInv, SearchTypeOK
<1> QED
  BY <1>1, SearchingVisit, SearchingExhausted DEF SearchNext

\* When the stack is empty the expanded cards are closed and do not hold the
\* card, so nothing reaches it.
LEMMA SearchingCorrect == SearchInv => VerdictCorrect
<1> SUFFICES ASSUME SearchInv, verdict = "acyclic" PROVE ~Reaches(edges, dep, card)
  BY DEF SearchInv, VerdictCorrect
<1>1. dep \in seen /\ card \notin seen /\ seen \in SUBSET Cards
  BY DEF SearchInv, SearchTypeOK
<1>2. Closed(edges, seen)
  BY DEF SearchInv, Closed
<1> QED
  BY <1>1, <1>2 DEF Reaches

\* would_create_cycle is correct: on every graph and for every edge asked
\* about, it returns True exactly when the dependency reaches the card.
THEOREM CycleVerdict == SearchSpec => []VerdictCorrect
<1>1. SearchSpec => []SearchInv
  BY SearchingInit, SearchingStep, PTL DEF SearchSpec
<1> QED
  BY <1>1, SearchingCorrect, PTL
=============================================================================
