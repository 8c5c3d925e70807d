------------------------------ MODULE Recovery ------------------------------
(***************************************************************************)
(* card_event_recovery.py and card_recovery.py: removing damaged rows from *)
(* one append-only log, and putting them back.                             *)
(*                                                                         *)
(* Both tools follow one protocol under the lock of the log's writers:     *)
(* publish the original, the rejected rows and an intent, replace the log, *)
(* verify, publish a receipt; a rollback publishes its own intent, puts    *)
(* the original back and publishes its own receipt.  "overlay" recovers    *)
(* any shard of the kanban overlay from a plan an operator saved, "card"   *)
(* one known writer stream of one card, whose digests are constants of the *)
(* tool.  Writers that do not take the lock (older hosts, file             *)
(* synchronisation) may append at any time.                                *)
(***************************************************************************)
EXTENDS Naturals, Sequences, FiniteSets, SequencesExt

CONSTANTS Rows,        \* physical rows of the log, told apart by their bytes
          Bad,         \* those that do not validate
          Start,       \* the damaged log
          Plans,       \* plan artifacts; their ids differ by planned_at
          Pinned,      \* the plan that stands for the constants of card_recovery
          None,
          MaxOther,    \* bound on events of the card's other writers
          MaxForeign,  \* bound on appends without the lock
          MaxFaults    \* bound on crashes, errors and torn publications

ASSUME RowsKnown ==
  /\ Bad \subseteq Rows /\ Pinned \in Plans
  /\ Start \in Seq(Rows) /\ IsInjective(Start) /\ ToSet(Start) \cap Bad # {}
  /\ {MaxOther, MaxForeign, MaxFaults} \subseteq Nat

\* The names of the artifacts that every plan has; a rejected row has its own.
Names == {"plan", "original", "intent", "receipt", "back_intent", "back_receipt"}

ASSUME NamesApart == Bad \cap Names = {} /\ None \notin Seq(Rows) \X Nat

VARIABLES tool,     \* which of the two tools is run
          shard,    \* the log
          other,    \* events in the other writers' logs of the same card
          plan,     \* [Plans -> the log a plan was made from, or None]
          art,      \* [Plans -> [artifact -> "absent", "linked" or "kept"]]
          snapshot, \* the logs as the receipt of card_recovery records them
          auth,     \* the recovery card is doing and claimed by the actor
          job,      \* the running call and its locals
          ever,     \* history: rows that were in the log at any time
          raced,    \* history: rows appended between the last check and the replacement
          foreign, faults

vars == <<tool, shard, other, plan, art, snapshot, auth, job, ever, raced, foreign, faults>>

Clean(s) == ToSet(s) \cap Bad = {}

\* The rows of s that are not in D, in order.  (SelectSeq says the same; the proofs
\* need the recursion.)
Without(s, D) ==
  LET Left[n \in 0..Len(s)] == IF n = 0 THEN <<>>
                               ELSE IF s[n] \in D THEN Left[n - 1] ELSE Append(Left[n - 1], s[n])
  IN Left[Len(s)]

\* What is left of a log when every damaged row is taken out.
Repaired(s) == Without(s, Bad)

Rejected(s) == Without(s, Rows \ Bad)

\* Fault: the rejected rows are not copied.
EvidenceWithoutRows(p) == <<"original", "intent">>

\* What is published before the log is touched, in order.  The rejected rows of
\* the card stream are kept as part of the original only.
Evidence(p) ==
  IF tool = "card" THEN <<"original", "intent">>
  ELSE <<"original">> \o Rejected(plan[p]) \o <<"intent">>

Artifacts == Names \cup Bad

\* A crash of _publish between os.link and os.unlink leaves a file with two
\* links ("linked"), which _read refuses from then on.
ArtStates == {"absent", "linked", "kept"}

Kept(p, n) == art[p][n] = "kept"

Idle == [pc |-> "idle", kind |-> "apply", p |-> None, at |-> 0, raw |-> <<>>]

Fault == faults < MaxFaults /\ faults' = faults + 1

Jobs == [pc : {"idle", "locking", "evidence", "check", "replace", "verify", "record"},
         kind : {"apply", "rollback"}, p : Plans \cup {None}, at : Nat, raw : Seq(Rows)]

\* The log and the plans hold known rows, none of them twice.
TypeOK ==
  /\ tool \in {"overlay", "card"}
  /\ shard \in Seq(Rows) /\ IsInjective(shard)
  /\ other \in 0..MaxOther
  /\ DOMAIN plan = Plans
  /\ \A p \in Plans : plan[p] # None => plan[p] \in Seq(Rows) /\ IsInjective(plan[p])
  /\ art \in [Plans -> [Artifacts -> ArtStates]]
  /\ snapshot = None \/ snapshot \in Seq(Rows) \X Nat
  /\ auth \in BOOLEAN /\ job \in Jobs
  /\ ToSet(shard) \cup raced \subseteq ever /\ ever \subseteq Rows
  /\ foreign \in 0..MaxForeign /\ faults \in 0..MaxFaults

Init ==
  /\ tool \in {"overlay", "card"}
  /\ shard = Start /\ ever = ToSet(Start) /\ other = 0
  /\ plan = [p \in Plans |-> IF tool = "card" /\ p = Pinned THEN Start ELSE None]
  /\ art = [p \in Plans |-> [n \in Artifacts |-> "absent"]]
  /\ snapshot = None /\ auth = TRUE
  /\ job = Idle /\ raced = {} /\ foreign = 0 /\ faults = 0

-----------------------------------------------------------------------------
(* The writers of the log, and the recovery card *)

Unlocked == job.pc \in {"idle", "locking"}

\* CardEventLog.append, append_event: under the lock, and only to a log whose
\* rows all validate.
AppendEvent(r) ==
  /\ Unlocked /\ Clean(shard)
  /\ r \notin Bad \cup ever
  /\ shard' = Append(shard, r) /\ ever' = ever \cup {r}
  /\ UNCHANGED <<tool, other, plan, art, snapshot, auth, job, raced, foreign, faults>>

\* Another writer of the card; the damaged stream stops it as well.
AppendOther ==
  /\ tool = "card" /\ other < MaxOther
  /\ Unlocked /\ Clean(shard)
  /\ other' = other + 1
  /\ UNCHANGED <<tool, shard, plan, art, snapshot, auth, job, ever, raced, foreign, faults>>

\* A writer that does not know the lock, or a synchroniser.
ForeignAppend(r) ==
  /\ foreign < MaxForeign /\ foreign' = foreign + 1
  /\ r \notin ever
  /\ shard' = Append(shard, r) /\ ever' = ever \cup {r}
  /\ UNCHANGED <<tool, other, plan, art, snapshot, auth, job, raced, faults>>

ForeignOther ==
  /\ foreign < MaxForeign /\ foreign' = foreign + 1
  /\ tool = "card" /\ other < MaxOther /\ other' = other + 1
  /\ UNCHANGED <<tool, shard, plan, art, snapshot, auth, job, ever, raced, faults>>

\* The recovery card is released, completed or claimed again.
TurnAuthority ==
  /\ auth' = ~auth
  /\ UNCHANGED <<tool, shard, other, plan, art, snapshot, job, ever, raced, foreign, faults>>

-----------------------------------------------------------------------------
(* What a call decides once it holds the lock and has read the log *)

\* Fault: an apply goes by the log alone and forgets its receipt.
ApplyPathWithoutReceipt(p) ==
  IF shard = plan[p] THEN "evidence"
  ELSE IF shard = Repaired(plan[p]) /\ \A n \in ToSet(Evidence(p)) : Kept(p, n) THEN "record"
  ELSE "refuse"

\* Fault: a repaired log is left alone, as if there were nothing to finish.
ApplyPathNeverResumes(p) ==
  IF Kept(p, "receipt") /\ shard = Repaired(plan[p]) THEN "return"
  ELSE IF shard = plan[p] /\ ~Kept(p, "receipt") THEN "evidence" ELSE "refuse"

\* Fault: a repaired log is taken for this plan's work.
ApplyPathTrusting(p) ==
  IF Kept(p, "receipt") THEN "refuse"
  ELSE IF shard = plan[p] THEN "evidence"
  ELSE IF shard = Repaired(plan[p]) THEN "record" ELSE "refuse"

\* apply_overlay_recovery, recover.  A file with two links makes the read raise.
ApplyPath(p) ==
  LET repaired == shard = Repaired(plan[p])
      same     == tool = "card" => snapshot = <<shard, other>>
      complete == \A n \in ToSet(Evidence(p)) : Kept(p, n)
  IN IF Kept(p, "receipt") THEN IF repaired /\ same THEN "return" ELSE "refuse"
     ELSE IF art[p]["receipt"] = "linked" THEN "refuse"
     ELSE IF shard = plan[p] THEN "evidence"
     ELSE IF repaired /\ complete THEN "record" ELSE "refuse"

\* Fault: what was appended since the recovery is not looked at.
RollbackOverlayHasty(p) ==
  IF ~Kept(p, "original") \/ art[p]["back_receipt"] # "absent" THEN "refuse"
  ELSE IF shard = plan[p] THEN "verify" ELSE "evidence"

\* rollback_overlay_recovery
RollbackOverlay(p) ==
  IF Kept(p, "back_receipt") THEN IF shard = plan[p] THEN "return" ELSE "refuse"
  ELSE IF art[p]["back_receipt"] = "linked" \/ ~Kept(p, "original") THEN "refuse"
  ELSE IF shard = Repaired(plan[p]) THEN "evidence"
  ELSE IF shard = plan[p] /\ Kept(p, "back_intent") THEN "verify" ELSE "refuse"

\* rollback: all logs of the card must be as the receipt recorded them, except
\* that an interrupted rollback may already have replaced this one.
RollbackCard(p) ==
  LET restored == shard = plan[p] /\ Kept(p, "back_intent")
      expected == IF restored THEN <<plan[p], snapshot[2]>> ELSE snapshot
      unread   == \E n \in {"back_intent", "back_receipt"} : art[p][n] = "linked"
  IN IF \/ ~Kept(p, "intent") \/ ~Kept(p, "original") \/ unread
        \/ snapshot[1] # Repaired(plan[p]) \/ <<shard, other>> # expected
       THEN "refuse"
     ELSE IF Kept(p, "back_receipt") THEN IF restored THEN "return" ELSE "refuse"
     ELSE IF restored THEN "record" ELSE "evidence"

RollbackPath(p) == IF tool = "card" THEN RollbackCard(p) ELSE RollbackOverlay(p)

-----------------------------------------------------------------------------
(* The calls *)

\* plan_overlay_recovery, save_recovery_plan: read only, and only for a log that
\* is clean without the rows named.  All damaged rows are named, or it refuses.
SavePlan(p) ==
  /\ tool = "overlay" /\ plan[p] = None
  /\ ~Clean(shard)
  /\ plan' = [plan EXCEPT ![p] = shard]
  /\ \/ art' = [art EXCEPT ![p]["plan"] = "kept"] /\ UNCHANGED faults
     \/ Fault /\ art' = [art EXCEPT ![p]["plan"] = "linked"]
  /\ UNCHANGED <<tool, shard, other, snapshot, auth, job, ever, raced, foreign>>

\* A call begins.  The overlay tool asks for authority before it waits for the
\* lock; a rollback starts from the receipt.
Begin(kind, p) ==
  /\ job = Idle /\ plan[p] # None
  /\ tool = "overlay" => auth /\ Kept(p, IF kind = "apply" THEN "plan" ELSE "receipt")
  /\ job' = [Idle EXCEPT !.pc = "locking", !.kind = kind, !.p = p]
  /\ UNCHANGED <<tool, shard, other, plan, art, snapshot, auth, ever, raced, foreign, faults>>

\* The lock is taken, the log read and the way chosen.  The card tool asks for
\* authority here.
Decide ==
  /\ job.pc = "locking"
  /\ LET barred == \/ tool = "card" /\ ~auth
                   \/ job.kind = "rollback" /\ ~Kept(job.p, "receipt")
         path   == IF barred THEN "refuse"
                   ELSE IF job.kind = "apply" THEN ApplyPath(job.p) ELSE RollbackPath(job.p)
     IN job' = IF path \in {"refuse", "return"} THEN Idle
               ELSE [job EXCEPT !.pc = path, !.at = 1, !.raw = shard]
  /\ UNCHANGED <<tool, shard, other, plan, art, snapshot, auth, ever, raced, foreign, faults>>

ToPublish == IF job.kind = "apply" THEN Evidence(job.p) ELSE <<"back_intent">>

\* _publish, _create: an artifact that is there already is accepted.
PublishEvidence ==
  /\ job.pc = "evidence"
  /\ LET n == ToPublish[job.at] IN
     /\ art[job.p][n] # "linked"
     /\ art' = [art EXCEPT ![job.p][n] = "kept"]
  /\ job' = IF job.at < Len(ToPublish) THEN [job EXCEPT !.at = @ + 1]
            ELSE [job EXCEPT !.pc = "check"]
  /\ UNCHANGED <<tool, shard, other, plan, snapshot, auth, ever, raced, foreign, faults>>

\* _replace up to its second look at the log.
CheckReplace ==
  /\ job.pc = "check" /\ shard = job.raw
  /\ job' = [job EXCEPT !.pc = "replace"]
  /\ UNCHANGED <<tool, shard, other, plan, art, snapshot, auth, ever, raced, foreign, faults>>

Image == IF job.kind = "apply" THEN Repaired(job.raw) ELSE plan[job.p]

\* os.replace: what was appended since that look is lost.
Replace ==
  /\ job.pc = "replace"
  /\ shard' = Image
  /\ raced' = raced \cup (ToSet(shard) \ ToSet(job.raw))
  /\ job' = [job EXCEPT !.pc = IF job.kind = "rollback" /\ tool = "overlay"
                                 THEN "verify" ELSE "record"]
  /\ UNCHANGED <<tool, other, plan, art, snapshot, auth, ever, foreign, faults>>

\* rollback_overlay_recovery reads the log once more.
VerifyRestored ==
  /\ job.pc = "verify" /\ shard = plan[job.p]
  /\ job' = [job EXCEPT !.pc = "record"]
  /\ UNCHANGED <<tool, shard, other, plan, art, snapshot, auth, ever, raced, foreign, faults>>

Record == IF job.kind = "apply" THEN "receipt" ELSE "back_receipt"

\* The receipt.  card_recovery stores the digests of all logs of the card in it.
PublishReceipt ==
  /\ job.pc = "record"
  /\ art' = [art EXCEPT ![job.p][Record] = "kept"]
  /\ snapshot' = IF tool = "card" /\ job.kind = "apply" THEN <<shard, other>> ELSE snapshot
  /\ job' = Idle
  /\ UNCHANGED <<tool, shard, other, plan, auth, ever, raced, foreign, faults>>

\* The process dies in _publish between link and unlink.
TornPublication ==
  /\ job.pc \in {"evidence", "record"} /\ Fault
  /\ LET n == IF job.pc = "record" THEN Record ELSE ToPublish[job.at] IN
     /\ art[job.p][n] = "absent"
     /\ art' = [art EXCEPT ![job.p][n] = "linked"]
  /\ job' = Idle
  /\ UNCHANGED <<tool, shard, other, plan, snapshot, auth, ever, raced, foreign>>

\* It dies elsewhere, or a write or the verification of the board raises.
Die ==
  /\ job # Idle /\ Fault
  /\ job' = Idle
  /\ UNCHANGED <<tool, shard, other, plan, art, snapshot, auth, ever, raced, foreign>>

\* One of the checks above raises.
Refuse ==
  /\ \/ job.pc = "evidence" /\ art[job.p][ToPublish[job.at]] = "linked"
     \/ job.pc = "check" /\ shard # job.raw
     \/ job.pc = "verify" /\ shard # plan[job.p]
  /\ job' = Idle
  /\ UNCHANGED <<tool, shard, other, plan, art, snapshot, auth, ever, raced, foreign, faults>>

Work == Decide \/ PublishEvidence \/ CheckReplace \/ Replace \/ VerifyRestored
          \/ PublishReceipt \/ Refuse

Next ==
  \/ \E r \in Rows : AppendEvent(r) \/ ForeignAppend(r)
  \/ AppendOther \/ ForeignOther \/ TurnAuthority
  \/ \E p \in Plans : SavePlan(p) \/ \E kind \in {"apply", "rollback"} : Begin(kind, p)
  \/ Work \/ TornPublication \/ Die

Spec == Init /\ [][Next]_vars

-----------------------------------------------------------------------------
(* Properties *)

\* No recovery, rollback or retry loses an event: a valid row that was ever in the
\* log is still there.  The exception is a writer without the lock that appends
\* between the last check of _replace and os.replace (card_event_recovery.py 336);
\* the overlay tool makes the operator assert that there is none (writer_quiesced).
NoEventLost == \A r \in ever \ Bad : r \in ToSet(shard) \cup raced

\* A damaged row never leaves the log before the original that holds it is
\* durable, and with the overlay tool a copy of the row too, under a plan whose
\* intent is durable (apply_overlay_recovery, recover).
EvidenceFirst ==
  \A b \in ever \cap Bad : b \notin ToSet(shard) \cup raced =>
    \E p \in Plans :
      /\ plan[p] # None /\ b \in ToSet(plan[p])
      /\ \A n \in {"original", "intent"} \cup (IF tool = "overlay" THEN {b} ELSE {}) :
           art[p][n] # "absent"

\* Nothing that was ever in the log is gone: events stay in it, damaged rows are kept
\* aside.
NothingLost == NoEventLost /\ EvidenceFirst

Torn(p) == \E n \in Artifacts : art[p][n] = "linked"

\* A log that a recovery has repaired and nobody has written since can be brought
\* forward or back by calling a tool: some plan's apply finishes its receipt or
\* some receipt's rollback is accepted, wherever earlier calls were interrupted
\* and however the plans were mixed; publications that were torn are excepted.
RestorePossible ==
  /\ job = Idle /\ Clean(shard)
  /\ \E p \in Plans : plan[p] # None /\ shard = Repaired(plan[p])
  /\ snapshot # None => snapshot[2] = other
  /\ \A p \in Plans : ~Torn(p)
  => \E p \in Plans : plan[p] # None /\
       \/ ApplyPath(p) = "record"
       \/ Kept(p, "receipt") /\ RollbackPath(p) = "evidence"

\* What the documentation of the card tool says: "A failure after replacement must
\* be distinguishable by durable intent and byte hashes, and retry must finish
\* verification."  A torn publication is such a failure, and the code does not keep
\* this: _read refuses the file with two links.
RetryFinishes ==
  (job = Idle /\ tool = "card" /\ shard = Repaired(Start) /\ snapshot = None /\ foreign = 0)
    => ApplyPath(Pinned) # "refuse"

IsNew(p, n) == art[p][n] # "kept" /\ art'[p][n] = "kept"

\* A receipt is published only while what it says is so: the evidence is complete
\* and the log begins with the repaired rows; a rollback receipt, only while the log
\* begins with the original, byte for byte.
ReceiptsTrue ==
  [][\A p \in Plans :
       /\ IsNew(p, "receipt") => /\ \A n \in ToSet(Evidence(p)) : Kept(p, n)
                                 /\ IsPrefix(Repaired(plan[p]), shard)
       /\ IsNew(p, "back_receipt") => Kept(p, "receipt") /\ IsPrefix(plan[p], shard)]_vars

\* A plan that was applied and rolled back is spent: no retry of its apply or of its
\* rollback replaces the log again, even where another plan has made the log look
\* like the one it left.
SpentPlanIsInert == job.pc = "replace" => ~Kept(job.p, "back_receipt")

\* What a receipt says is so when it is written, and what it closes stays closed.
ReceiptsBind == ReceiptsTrue /\ []SpentPlanIsInert
=============================================================================
