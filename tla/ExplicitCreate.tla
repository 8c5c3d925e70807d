--------------------------- MODULE ExplicitCreate ---------------------------
(***************************************************************************)
(* Creation of one card under a caller-supplied ID: CardStore.create_      *)
(* explicit, reserve_explicit_rejection, and the Board operations          *)
(* create_explicit_task and create_claimed_task around them.               *)
(*                                                                         *)
(* Four files take part and no transaction spans them: the pending intent, *)
(* core.json, the append-only attempt log and the legacy task file.  The   *)
(* governor lock admits one creation at a time, so only faults interleave: *)
(* a write may fail before or after it is durable, an append may leave an  *)
(* incomplete line, and the process may die between two writes.  A caller  *)
(* that got an error, or no answer, sends its request again.               *)
(*                                                                         *)
(* IDs are independent of each other except for the log file they share;   *)
(* one ID is modelled, with the lines that creations under other IDs add   *)
(* to the file.                                                            *)
(***************************************************************************)
EXTENDS Naturals, Sequences

CONSTANTS None,
          Digests,      \* request digests callers send
          Contents,     \* what a request asks the card to contain
          CallKinds,    \* subset of {"explicit", "claimed"}: operations called
          WriteFaults,  \* subset of {"before", "after", "torn"}
          Errnos,       \* subset of {"nospace", "io"}: what a failing write reports
          MaxCalls,     \* bound: operations called
          MaxFaults     \* bound: failed writes and crashes

ASSUME CreateAssumption ==
  /\ CallKinds \subseteq {"explicit", "claimed"}
  /\ WriteFaults \subseteq {"before", "after", "torn"}
  /\ Errnos \subseteq {"nospace", "io"} /\ Errnos # {}
  /\ None \notin Contents /\ None \notin Digests
  /\ MaxCalls \in Nat /\ MaxFaults \in Nat

VARIABLES
  core,     \* core.json, or None
  pending,  \* the pending intent, or None
  log,      \* the complete lines of the attempt log about this ID
  others,   \* whether the log also has complete lines about other IDs
  tail,     \* whether the log ends in an incomplete line
  corrupt,  \* whether the log holds an unreadable line that is not the last
  legacy,   \* the content of the legacy task file, or None
  op,       \* the creation that holds the governor lock, with its locals
  result,   \* how the last creation returned
  calls,    \* number of operations called so far
  faults,   \* number of failed writes so far
  crashes,  \* number of crashes so far
  granted   \* history: the requests that were answered with the card

files == <<core, pending, log, others, tail, corrupt, legacy>>
vars == <<files, op, result, calls, faults, crashes, granted>>

-----------------------------------------------------------------------------
(* Types *)

\* A request digest is canonical for the content only if the caller made it
\* so: nothing relates the two.
Requests == [digest : Digests, content : Contents]

\* What the semantic digest covers: the content and, for a card born claimed,
\* the claim revision drawn for it (0: not claimed).
Semantics == [content : Contents, rev : Nat]

\* A missing file is not mistaken for one that holds something.
ASSUME NoneIsNoCard == None \notin Semantics

Intents == [digest : Digests, sem : Semantics]

Reasons == {"none", "policy", "nospace", "io"}

\* A caller's rejection carries no semantic digest.
Records == [digest : Digests, sem : Semantics \cup {None},
            outcome : {"accepted", "rejected"}, why : Reasons]

Steps == {"idle", "decide", "reserve", "writePending", "publish", "append",
          "clear", "rejectClear", "rejectAppend", "clearAgain",
          "replayAppend", "replayClear", "legacy"}

\* why: the reason of the exception in flight; fresh: core.json was written by
\* this operation.
Operations == [pc : Steps, kind : {"none", "explicit", "claimed"},
               req : Requests \cup {None}, sem : Semantics \cup {None},
               why : Reasons, fresh : BOOLEAN]

NoOperation == [pc |-> "idle", kind |-> "none", req |-> None, sem |-> None,
                why |-> "none", fresh |-> FALSE]

Results == {"none", "created", "replayed", "refused", "error"}

\* The type invariant.
TypeOK ==
  /\ core \in Semantics \cup {None}
  /\ pending \in Intents \cup {None}
  /\ log \in Seq(Records) /\ others \in BOOLEAN
  /\ tail \in {"clean", "torn"} /\ corrupt \in BOOLEAN
  /\ legacy \in Contents \cup {None}
  /\ op \in Operations
  /\ result \in Results
  /\ calls \in Nat /\ faults \in Nat /\ crashes \in Nat
  /\ granted \subseteq Requests

-----------------------------------------------------------------------------
(* The attempt log *)

Record(outcome, why) ==
  [digest |-> op.req.digest, sem |-> op.sem, outcome |-> outcome, why |-> why]

\* _is_crash_reject_reason recognises "No space left on device" and the
\* wrapped "cannot be written" and "cannot be cleared", not the text of any
\* other OSError.
IsCrashReject(r) == r.outcome = "rejected" /\ r.why = "nospace"

\* Fault: reading stops at the first crash reject instead of skipping it.
RelevantUpToAbort == {i \in DOMAIN log : \A j \in 1..i : ~IsCrashReject(log[j])}

\* The records left once the leading crash rejects are dropped.
Relevant == {i \in DOMAIN log : \E j \in 1..i : ~IsCrashReject(log[j])}

Key(r) == <<r.digest, r.sem, r.outcome>>

\* _attempt_for: the keys of the records that bind the ID.  None binds it, one
\* does, or their disagreement makes every caller fail.
Attempts == {Key(log[i]) : i \in Relevant}

\* _read_creation_attempts drops an incomplete last line by cutting the data
\* after its last newline; where there is none it keeps the line, which is no
\* JSON.  (A sole line that lacks nothing but its newline would still be read;
\* it is taken for an incomplete one here.)
Unreadable == corrupt \/ (tail = "torn" /\ log = <<>> /\ ~others)

AttemptConflict == \E x, y \in Attempts : x # y

BoundRejected == ~AttemptConflict /\ \E x \in Attempts : x[3] = "rejected"

BoundAccepted == ~AttemptConflict /\ \E x \in Attempts : x[3] = "accepted"

\* Append r to a log.  A line appended after an incomplete one is glued to it,
\* and the log then has an unreadable line that is not its last.
AppendLine(r, o) ==
  CASE o = "before" -> UNCHANGED <<log, tail, corrupt>>
    [] o = "torn"   -> tail' = "torn" /\ UNCHANGED <<log, corrupt>>
    [] OTHER        -> IF tail = "torn"
                       THEN corrupt' = TRUE /\ tail' = "clean" /\ UNCHANGED log
                       ELSE log' = Append(log, r) /\ UNCHANGED <<tail, corrupt>>

-----------------------------------------------------------------------------
(* Writes *)

Charge(o) == IF o = "ok" THEN UNCHANGED faults
             ELSE faults + crashes < MaxFaults /\ faults' = faults + 1

\* The outcomes of a write that is not an append.
Outcomes == {"ok"} \cup (WriteFaults \ {"torn"})
AppendOutcomes == {"ok"} \cup WriteFaults

Idle == op.pc = "idle"

Goto(pc) == op' = [op EXCEPT !.pc = pc] /\ UNCHANGED <<result, granted>>

\* The handler of create_explicit's main path.
Fail(why) == op' = [op EXCEPT !.pc = "rejectClear", !.why = why] /\ UNCHANGED <<result, granted>>

Return(value) ==
  /\ op' = NoOperation /\ result' = value
  /\ granted' = IF value \in {"created", "replayed"} THEN granted \cup {op.req} ELSE granted

-----------------------------------------------------------------------------
(* The operations *)

\* create_explicit_task.
CreateExplicitTask(q) ==
  /\ Idle /\ calls < MaxCalls
  /\ calls' = calls + 1
  /\ op' = [NoOperation EXCEPT !.pc = "decide", !.kind = "explicit", !.req = q,
                               !.sem = [content |-> q.content, rev |-> 0]]
  /\ result' = "none"
  /\ UNCHANGED <<files, faults, crashes, granted>>

\* create_claimed_task: the revision is the stored one, or a fresh uuid4 (the
\* number of the call); without a core the dependencies are checked first and
\* may reserve the ID.
CreateClaimedTask(q) ==
  /\ Idle /\ calls < MaxCalls
  /\ calls' = calls + 1
  /\ IF core # None /\ core.rev = 0
     THEN Return("refused")
     ELSE /\ \E pc \in IF core = None THEN {"decide", "reserve"} ELSE {"decide"} :
               op' = [NoOperation EXCEPT
                        !.pc = pc, !.kind = "claimed", !.req = q,
                        !.sem = [content |-> q.content,
                                 rev |-> IF core = None THEN calls + 1 ELSE core.rev]]
          /\ result' = "none" /\ UNCHANGED granted
  /\ UNCHANGED <<files, faults, crashes>>

\* reserve_explicit_rejection, before create_claimed_task raises.
Reserve ==
  /\ op.pc = "reserve"
  /\ IF Unreadable \/ AttemptConflict
     THEN Return("error")
     ELSE IF core # None \/ Attempts # {}
     THEN Return("refused")
     ELSE /\ op' = [op EXCEPT !.pc = "rejectClear", !.why = "policy", !.sem = None]
          /\ UNCHANGED <<result, granted>>
  /\ UNCHANGED <<files, calls, faults, crashes>>

\* Fault: the caller's digest is trusted, the stored core is not compared.
MatchesAcceptedByDigest ==
  /\ core # None
  /\ \E x \in Attempts : x[1] = op.req.digest

MatchesAccepted ==
  /\ core # None
  /\ \E x \in Attempts : x[1] = op.req.digest /\ x[2] = core
  /\ core = op.sem

MatchesPending == pending.digest = op.req.digest /\ pending.sem = op.sem

\* Fault: another caller's intent is taken over.
DecideIgnoringIntent ==
  /\ op.pc = "decide"
  /\ IF Unreadable \/ AttemptConflict THEN Return("error")
     ELSE IF BoundRejected THEN Return("refused")
     ELSE IF BoundAccepted
     THEN IF MatchesAccepted THEN Goto("legacy") ELSE Return("refused")
     ELSE IF pending # None
     THEN Goto(IF core = None THEN "publish" ELSE "replayAppend")
     ELSE IF core # None THEN Return("refused")
     ELSE \/ Goto("writePending")
          \/ Fail("policy")
  /\ UNCHANGED <<files, calls, faults, crashes>>

\* Fault: a request that conflicts with the accepted one is logged as rejected.
DecideLoggingConflict ==
  /\ op.pc = "decide"
  /\ IF Unreadable \/ AttemptConflict THEN Return("error")
     ELSE IF BoundRejected THEN Return("refused")
     ELSE IF BoundAccepted
     THEN IF MatchesAccepted THEN Goto("legacy") ELSE Fail("policy")
     ELSE IF pending # None
     THEN IF ~MatchesPending \/ core \notin {None, op.sem} THEN Return("refused")
          ELSE Goto(IF core = None THEN "publish" ELSE "replayAppend")
     ELSE IF core # None THEN Return("refused")
     ELSE \/ Goto("writePending")
          \/ Fail("policy")
  /\ UNCHANGED <<files, calls, faults, crashes>>

\* create_explicit up to its first write.  The governor's verdict depends on
\* other cards and is arbitrary here.
Decide ==
  /\ op.pc = "decide"
  /\ IF Unreadable \/ AttemptConflict THEN Return("error")
     ELSE IF BoundRejected THEN Return("refused")
     ELSE IF BoundAccepted
     THEN IF MatchesAccepted THEN Goto("legacy") ELSE Return("refused")
     ELSE IF pending # None
     THEN IF ~MatchesPending \/ core \notin {None, op.sem} THEN Return("refused")
          ELSE Goto(IF core = None THEN "publish" ELSE "replayAppend")
     ELSE IF core # None THEN Return("refused")
     ELSE \/ Goto("writePending")
          \/ Fail("policy")
  /\ UNCHANGED <<files, calls, faults, crashes>>

\* Fault: the intent is stored without its semantic digest.
WritePendingDigestOnly(o) ==
  /\ op.pc = "writePending"
  /\ Charge(o)
  /\ pending' = IF o = "before" THEN pending ELSE [digest |-> op.req.digest]
  /\ IF o = "ok" THEN Goto("publish") ELSE Fail("nospace")
  /\ UNCHANGED <<core, log, others, tail, corrupt, legacy, calls, crashes>>

\* Fault: the acceptance is recorded before the core is written.
WritePendingThenAppend(o) ==
  /\ op.pc = "writePending"
  /\ Charge(o)
  /\ pending' = IF o = "before" THEN pending ELSE [digest |-> op.req.digest, sem |-> op.sem]
  /\ IF o = "ok" THEN Goto("append") ELSE Fail("nospace")
  /\ UNCHANGED <<core, log, others, tail, corrupt, legacy, calls, crashes>>

\* The intent is written to a temporary file and renamed.
WritePending(o) ==
  /\ op.pc = "writePending"
  /\ Charge(o)
  /\ pending' = IF o = "before" THEN pending ELSE [digest |-> op.req.digest, sem |-> op.sem]
  /\ IF o = "ok" THEN Goto("publish") ELSE Fail("nospace")
  /\ UNCHANGED <<core, log, others, tail, corrupt, legacy, calls, crashes>>

\* _publish_explicit_core; its OSError reaches the handler as it is.
Publish(o, errno) ==
  /\ op.pc = "publish"
  /\ Charge(o)
  /\ core' = IF o = "before" \/ core # None THEN core ELSE op.sem
  /\ IF o = "ok" THEN Goto("append") ELSE Fail(errno)
  /\ UNCHANGED <<pending, log, others, tail, corrupt, legacy, calls, crashes>>

AppendAccepted(o) ==
  /\ op.pc = "append"
  /\ Charge(o)
  /\ AppendLine(Record("accepted", "none"), o)
  /\ IF o = "ok" THEN Goto("clear") ELSE Fail("nospace")
  /\ UNCHANGED <<core, pending, others, legacy, calls, crashes>>

ClearPending(o) ==
  /\ op.pc = "clear"
  /\ Charge(o)
  /\ pending' = IF o = "before" THEN pending ELSE None
  /\ IF o = "ok"
     THEN /\ op' = [op EXCEPT !.pc = "legacy", !.fresh = TRUE]
          /\ UNCHANGED <<result, granted>>
     ELSE Fail("nospace")
  /\ UNCHANGED <<core, log, others, tail, corrupt, legacy, calls, crashes>>

\* _reject_explicit: clear the intent, ignoring an error.
RejectClear(o) ==
  /\ op.pc = "rejectClear"
  /\ Charge(o)
  /\ pending' = IF o = "before" THEN pending ELSE None
  /\ Goto("rejectAppend")
  /\ UNCHANGED <<core, log, others, tail, corrupt, legacy, calls, crashes>>

\* _reject_explicit: record the rejection, then re-raise.  On the main path an
\* error here clears the intent once more.
RejectAppend(o) ==
  /\ op.pc = "rejectAppend"
  /\ Charge(o)
  /\ AppendLine(Record("rejected", op.why), o)
  /\ IF o # "ok" /\ op.why # "policy"
     THEN Goto("clearAgain")
     ELSE Return(IF o = "ok" /\ op.why = "policy" THEN "refused" ELSE "error")
  /\ UNCHANGED <<core, pending, others, legacy, calls, crashes>>

ClearAgain(o) ==
  /\ op.pc = "clearAgain"
  /\ Charge(o)
  /\ pending' = IF o = "before" THEN pending ELSE None
  /\ Return("error")
  /\ UNCHANGED <<core, log, others, tail, corrupt, legacy, calls, crashes>>

\* An intent whose core is already there: finish it, with no handler.
ReplayAppend(o) ==
  /\ op.pc = "replayAppend"
  /\ Charge(o)
  /\ AppendLine(Record("accepted", "none"), o)
  /\ IF o = "ok" THEN Goto("replayClear") ELSE Return("error")
  /\ UNCHANGED <<core, pending, others, legacy, calls, crashes>>

ReplayClear(o) ==
  /\ op.pc = "replayClear"
  /\ Charge(o)
  /\ pending' = IF o = "before" THEN pending ELSE None
  /\ IF o = "ok" THEN Goto("legacy") ELSE Return("error")
  /\ UNCHANGED <<core, log, others, tail, corrupt, legacy, calls, crashes>>

\* Write the legacy task file, or compare it on a replay.
WriteLegacy(o) ==
  LET answer == IF op.fresh THEN "created" ELSE "replayed" IN
  /\ op.pc = "legacy"
  /\ IF ~op.fresh /\ legacy # None
     THEN /\ o = "ok"
          /\ Return(IF legacy = op.req.content THEN answer ELSE "refused")
          /\ UNCHANGED <<legacy, faults>>
     ELSE /\ Charge(o)
          /\ legacy' = IF o = "before" THEN legacy ELSE op.req.content
          /\ Return(IF o = "ok" THEN answer ELSE "error")
  /\ UNCHANGED <<core, pending, log, others, tail, corrupt, calls, crashes>>

\* A replayed claim that is no longer the card's current one is refused.
ClaimNotCurrent ==
  /\ op.pc = "legacy" /\ op.kind = "claimed" /\ ~op.fresh
  /\ Return("refused")
  /\ UNCHANGED <<files, calls, faults, crashes>>

\* A new card born claimed is then projected and the agent's current task
\* demoted, with no handler: what fails there undoes nothing.
ClaimFails ==
  /\ op.pc = "legacy" /\ op.kind = "claimed" /\ op.fresh
  /\ legacy' = op.req.content
  /\ Return("error")
  /\ UNCHANGED <<core, pending, log, others, tail, corrupt, calls, faults, crashes>>

\* A creation under another ID, which holds the governor lock for it, appends
\* its line.
OtherAppend ==
  /\ Idle /\ ~Unreadable
  /\ IF tail = "torn"
     THEN corrupt' = TRUE /\ tail' = "clean" /\ UNCHANGED others
     ELSE others' = TRUE /\ UNCHANGED <<tail, corrupt>>
  /\ UNCHANGED <<core, pending, log, legacy, op, result, calls, faults, crashes, granted>>

\* A creation under another ID dies in the middle of its line.
OtherTorn ==
  /\ Idle /\ ~Unreadable
  /\ "torn" \in WriteFaults /\ faults + crashes < MaxFaults
  /\ crashes' = crashes + 1 /\ tail' = "torn"
  /\ UNCHANGED <<core, pending, log, others, corrupt, legacy, op, result, calls, faults, granted>>

\* The process dies between two writes, or in the middle of an append.
Crash ==
  /\ ~Idle
  /\ faults + crashes < MaxFaults
  /\ crashes' = crashes + 1
  /\ op' = NoOperation /\ result' = "none"
  /\ \/ UNCHANGED tail
     \/ "torn" \in WriteFaults /\ op.pc \in {"append", "rejectAppend", "replayAppend"}
        /\ tail' = "torn"
  /\ UNCHANGED <<core, pending, log, others, corrupt, legacy, calls, faults, granted>>

-----------------------------------------------------------------------------
Init ==
  /\ core = None /\ pending = None
  /\ log = <<>> /\ others = FALSE /\ tail = "clean" /\ corrupt = FALSE
  /\ legacy = None
  /\ op = NoOperation /\ result = "none"
  /\ calls = 0 /\ faults = 0 /\ crashes = 0 /\ granted = {}

Next ==
  \/ \E q \in Requests :
       \/ "explicit" \in CallKinds /\ CreateExplicitTask(q)
       \/ "claimed" \in CallKinds /\ CreateClaimedTask(q)
  \/ Reserve \/ Decide \/ ClaimNotCurrent \/ ClaimFails \/ Crash \/ OtherAppend \/ OtherTorn
  \/ \E o \in Outcomes :
       \/ WritePending(o) \/ ClearPending(o) \/ RejectClear(o) \/ ClearAgain(o)
       \/ ReplayClear(o) \/ WriteLegacy(o)
       \/ \E errno \in Errnos : Publish(o, errno)
  \/ \E o \in AppendOutcomes : AppendAccepted(o) \/ RejectAppend(o) \/ ReplayAppend(o)

Spec == Init /\ [][Next]_vars

-----------------------------------------------------------------------------
(* Properties *)

LogHas(outcome, why) == \E i \in DOMAIN log : log[i].outcome = outcome /\ log[i].why = why

\* No failed write and no crash leaves an accepted attempt without its core:
\* every acceptance in the log is the acceptance of what core.json holds.
AcceptedHasCore ==
  \A i \in DOMAIN log : log[i].outcome = "accepted" => core # None /\ log[i].sem = core

\* However many callers race for the ID and whatever fails, all those that got
\* the card sent one and the same request, and the card is what they asked for.
ExactReplay ==
  /\ \A p, q \in granted : p = q
  /\ \A q \in granted : core # None /\ core.content = q.content /\ legacy = q.content

\* An ID the governor or the dependency check rejected never gets a card.
RejectedStaysReserved == LogHas("rejected", "policy") => core = None /\ granted = {}

\* A published core is never replaced or removed, and a granted card keeps its
\* acceptance: a later creation cannot turn it into a conflict.
GrantKept ==
  [][/\ core # None => core' = core
     /\ granted # {} /\ ~corrupt /\ BoundAccepted => (BoundAccepted)']_vars

\* Whatever step a crash hits, as long as no write failed and the log can be
\* read, the intent it leaves can be resumed: the log does not contradict it,
\* and the core is still to be published or is its own.  This leaves out the
\* crash in the middle of the first line the log ever gets, and the append that
\* follows an incomplete line: every later creation then fails to read the log,
\* and the intent stays where it is.
ResumePossible ==
  Idle /\ faults = 0 /\ ~Unreadable /\ pending # None =>
    /\ ~AttemptConflict /\ ~BoundRejected
    /\ core \in {None, pending.sem}
    /\ BoundAccepted => core # None

\* "Read safe attempt logs, tolerating only one incomplete final line": an
\* incomplete last line alone never makes the log unreadable.  The code does not
\* keep this: where it is the only line it does.
TornTailTolerated == Unreadable => corrupt

\* "Only policy rejects and accepted records bind creation": an accepted record
\* followed by an I/O abort still binds the ID to its card.  The code does not keep
\* this: the two records conflict.
AcceptanceBinds == LogHas("accepted", "none") => BoundAccepted
=============================================================================
