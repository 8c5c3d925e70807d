# skcoord in TLA+

skcoord keeps a task board for a fleet of agents as plain files: every card is a
write-once `core.json` plus append-only event logs, every agent has one JSON
projection of what it has claimed and completed, and hosts exchange the files
with a synchroniser. There is no database and no transaction. This directory
models the protocols that make those files agree, checks them with TLC and
proves the most important results with TLAPS.

All source paths below are relative to `src/skcoord/` in the repository.

## 1. The system

| Component | State | Operations | What makes it correct |
|---|---|---|---|
| CardStore fold (`card_store.py`, `card.py`) | events of a card | `fold`, `append_event`, `_read_events` | one history, one card: owner, column and claim revision follow from the events alone |
| Board lifecycle (`coordination.py`) | agent projections, in-flight operation | `claim_task`, `release_claim`, `complete_task`, `release_stale_claims` | projections and store agree; no card is taken from its owner; gates hold |
| Explicit-ID creation (`card_store.py`, `coordination.py`) | pending intent, core, attempt ledger, legacy file | `create_explicit`, `reserve_explicit_rejection`, `create_explicit_task`, `create_claimed_task` | one ID, one request; a rejected ID stays rejected; an interrupted creation can be finished |
| Creation governor (`card_store.py`, `review_replacement.py`, `owner_helpers.py`) | all cards, authorisations, pending intents | `_govern_create`, `create`, `authorized_predecessor`, `validate_helper_request` | births close no cycle; no duplicate review; bounded review depth; an authorisation is used once; helpers write apart |
| Dependency amendments (`card_store.py`, `dependency_graph.py`) | dependency edges | `add_dependency`, `remove_dependency`, `would_create_cycle` | the graph stays acyclic |
| Kanban overlay (`card.py`) | per-host overlay log | `CardEventLog.append`, `read_all`, `fold_overlay` | overlay events mean the same in every fold |
| Lifecycle audit and repair (`lifecycle.py`) | receipts, projections | `audit_lifecycle`, `repair_lifecycle`, `transition_task` | repair converges and is resumable |
| Legacy parity and reconcile (`card_store.py`) | legacy files, store | `parity_check`, `reconcile_from_legacy`, `import_from_legacy`, `export_to_legacy` | a verdict is about one moment; each replay leaves one side as the other says |
| Replication | per-writer logs on each host | file synchronisation | late rows revive no owner; losers of concurrent claims are on record |
| ITIL (`itil.py`) | incidents, problems, changes, votes | transitions folded from logs | only legal transitions are folded; approvals count once |
| CMDB (`cmdb*.py`) and discovery (`discovery*.py`) | configuration items, run evidence, lease | scan, reconcile, ownership backfill | a partial scan retires nothing; one run at a time |
| Recovery tools (`card_event_recovery.py`, `card_recovery.py`) | one damaged log | plan, apply, rollback | no event is lost; evidence before change; every state can be carried on or put back |
| Review broker (`github_review_broker.py`) | journal | exact-head review | one remote review per head |
| Snapshots, truth, portfolio | none | pure reports | counts add up; one primary reason per card |

The components meet in three places. `Board` operations write the projection and
then the CardStore (`_mirror_card_store`), under the board lock and the locks of
the affected cards. Overlay events reach the same fold with no lock at all.
Creation and dependency amendments read *every* card while holding a lock that
covers only one.

The hard behaviours are: an append that raises before or after its event is
durable; a crash between two files; overlay events between two steps of an
operation; checks that read what another process is about to change; retries of
requests whose first attempt half succeeded; several hosts with different
clocks. `PROJECT.json` lists them as hazards, each with its line and the
properties that would catch it.

## 2. The modules

| Module | Models | Uses |
|---|---|---|
| `CardFold` | what one event does to a folded card (pure) | |
| `Board` | claim, release and complete on one host | `CardFold` |
| `AtomicBoard` | what the board promises: each operation is one step | |
| `BoardRefinement` | `Board` implements `AtomicBoard`: the mapping | `Board`, `AtomicBoard` |
| `BoardProofs` | theorems about `Board`, the refinement among them | `BoardRefinement` |
| `ExplicitCreate` | creation under a caller's ID | |
| `Reachability` | what it means that one card reaches another (pure) | |
| `CycleCheck` | `would_create_cycle`, one loop iteration per step | `Reachability` |
| `DependencyGraph` | amendments and births by several processes | `Reachability` |
| `CreationProofs` | creation under a caller's ID; the graph stays acyclic unless writers race; the search is correct | `ExplicitCreate`, `DependencyGraph`, `CycleCheck` |
| `ItilFold` | the folds of incidents, problems and changes (pure) | |
| `Itil` | one ITIL record on one replica and the calls that act on it | `ItilFold` |
| `Lifecycle` | audit, repair and transition of agent projections | |
| `Cmdb` | CMDB discovery runs, operators and the enrollment of legacy items | |
| `Recovery` | the two tools that take damaged rows out of a log and put them back | |
| `Governor` | births of reviews, repairs, replacements and helpers | |
| `Migration` | parity, reconcile, import and export between the legacy board and the store | `CardFold` |
| `Replicas` | one card on several hosts | `CardFold` |
| `GovernorProofs`, `LifecycleProofs`, `CmdbProofs`, `RecoveryProofs`, `ItilProofs` | theorems about the module of that name | that module |
| `StoreProofs` | theorems about `Migration` and about `Replicas` | `Migration`, `Replicas` |
| `MC...` | constants for TLC | |

Operators introduced by a comment that begins with "Fault:" are deliberately
wrong variants of the definition below them. No specification uses them; they
stand in for the definition when one wants to see that a property would notice.

### CardFold and Board

`card[c]` is the fold of card `c`: owner, column, claim revision, open claim
conflicts, archived, voided. `Apply` is the loop body of `CardStore.fold`, one
operator per event. `agent[a]` is the JSON projection: current, claimed and
completed tasks. `op` holds the operation that owns the board lock together with
its Python locals: the snapshot of the projection (`orig`) and of the target
card (`snap`), what it decided about the bumped task (`demote`, `drop`), the
revision it writes and which of its transitions `has_transition` would find.

| Action | Code |
|---|---|
| `ClaimTask`, `ClaimProject` | `claim_task` up to `_claim_task`; `_claim_task` (gate, then save) |
| `MirrorClaim`, `MirrorDemote`, `DemoteNothing` | the two appends of `claim_task` |
| `JudgeClaim` | its handler: `_store_transitions_are_applied`, then compensate or recover |
| `CompensateRelease/Reclaim/Move` | `_compensate_partial_claim` |
| `Recover` | `_recover_store_failure`, `_restore_agent_projection` |
| `ReleaseClaim`, `MirrorRelease`, `CheckRelease` | `_release_claim_locked` with `current_claim_precondition` and `_release_transition_is_applied` |
| `CompleteTask`, `CompleteAgain`, `ReturnExisting`, `MirrorComplete`, `JudgeComplete` | `complete_task` |
| `Overlay`, `StoreEvent`, `Crash` | `CardEventLog.append` (no lock), `append_event` by other callers (card lock), death of the process |

Every append has three outcomes: it succeeds, raises with nothing written, or
raises although it is durable. Simplifications: writing the recovery receipt and
restoring the projection are one step that succeeds or fails; dependencies do
not change while the board runs (`DependencyGraph` is about that); a completion
may promote any remaining claim, where the code takes the first; the Joule mint
after the lock is left out, as are legacy-only mode and cards without a core.

`disturbed` and `broken` are history variables. A card is *disturbed* once an
event from outside the protocol changed it, and *broken* once a crash, or a
recovery that itself failed, hit an operation on it (the code then says
"fail-closed"). `Agreement` is claimed for all other cards; repairing the rest
is the job of `lifecycle.py`.

`AtomicBoard` is the board as its callers may think of it: claim, release and
complete are one step each, and a claim puts the agent's other work aside in that
step. The mapping in `BoardRefinement` shows the cards of an operation in flight
as they were before it (the target as in the snapshot, the bumped card as still
in progress), so an operation takes effect when it returns. Disturbed and broken
cards are the abstract board's *loose* ones, of which it promises nothing.

### ExplicitCreate

One ID, four files: the pending intent, `core.json`, the attempt ledger and the
legacy task file. `Decide` is `create_explicit` up to its first write, and each
later action one write with its outcomes; `RejectClear`, `RejectAppend` and
`ClearAgain` are the handler. A request is a digest and a content that nothing
relates; the semantic digest is the content and the claim revision. The ledger
distinguishes what the code tells apart by text: a policy reject, an abort that
`_is_crash_reject_reason` recognises (`nospace`) and one that it does not (`io`).
IDs interact only through the shared ledger file, so one is enough, beside the lines
that other IDs append to it (`others`, `OtherAppend`, `OtherTorn`). A reader drops an
incomplete last line only if a complete one precedes it: a log that holds nothing but
a torn line is kept whole and is no JSON (`Unreadable`). A sole line that lacks no more
than its newline would still be read; the model counts it as torn. The ordinary
`create`, which never looks at the ledger, is not among the callers here. The
governor's verdict depends on other cards (`Governor`) and is arbitrary here.

### CycleCheck and DependencyGraph

`CycleCheck` runs the search on an arbitrary graph, cyclic ones included (the
source file was written because the live board had 23 cycles). The stack is a
set: neither order nor repetition shows in the answer. `DependencyGraph` lets
processes take the locks the code takes, read the cards one by one as
`list_cards` does, check, and write; where the code runs the search it uses
`Reaches` of `Reachability`, which is what `CycleCheck` shows the search to decide. Unreadable cards, which the code gives no edges, are left out.

### ItilFold and Itil

`ItilFold` holds the transition tables, what each event makes of a record (`Step`) and
the replay of a log (`Replayed`, a recursive function of the number of events).
`FoldRecord` is `_fold_record`. `CabResolved` is the
gate that `_fold_change` consults inside its loop, `Headline` the copy of it that
it applies after the loop; both are kept because they differ. `Itil` follows one
record on one replica. `log` is in fold order, so a late event is inserted
anywhere (`Arrive`), and a vote file may be overwritten at any time
(`SubmitCabVote`). Two local processes run the calls that read the fold and then
act: create on an existing incident (reopen, emit, link), resolve (append,
complete), automatic close, KEDB entry, approval of a change (append, emit,
link). GTD lists are external: emitting may fail, completing may stop half way.
`loose` is a history variable: a process died with a task in hand, two calls
overlapped between emit and link, or the record was closed from elsewhere; the
sweep `reconcile_gtd_orphans`, which is not modelled, exists for those cases.
Votes from before the provenance rule, migrated events, redirects, timelines and
reports are left out; a change is taken to name an implementer.

### Lifecycle

`lifecycle.py` rewrites agent files that disagree with the cards. `job` is the one
repair or transition under the board and lifecycle locks, with the locals of
`_repair_lifecycle_unlocked` (`orig`, `plan`, `todo`, `unresolved`); each action
is one write with its outcomes. The `task_ids` argument is a set `S`; `None` in it
marks the unscoped call, which also covers agents without a current task.
`Clean(S)` is the audit without issues, `ActiveConflict(S)` what is refused, and
`Repaired(a, S)` the two planning loops; where the code takes the first of a
sorted list, `First` takes a fixed member. A receipt is the set of phases logged
under its id. `transition_task` is the same job with a move before it; an error
undoes the move and repairs again (`attempt` 2), and a second error ends in
`broken`. The projections that need repair come from `KanbanEvent`, which takes no
lock, and from `ClaimTask` and `CompleteTask`, cut off after any of their writes
and passed by a host that had not seen the others' events. `disturbed` records a
kanban event during a job; what a repair promises, it promises without one.
Left out: refusal of voided cards, the caller's precondition, unsafe paths and
unreadable receipts, which refuse a call before it writes.

### Cmdb

`ci[i]` is item `i` as `get_ci` folds it: status, whether it carries the
`discovered` tag, its lifecycle scope and its miss counters, one per scope. A
status `torn` stands for a `core.json` that was created and never written. `run` is
the scheduled run under the lease with its locals, `files` the run artifacts,
`plan` the enrollment that was reviewed or is being applied, and `world` what the
collectors would see.

| Action | Code |
|---|---|
| `StartRun` | `ReconcileLease` |
| `Collect`, `Deadline` | `scan_network`, `_CoverageRunner` |
| `BeginLifecycle`, `CountMiss`, `Retire` | `apply_retirement_lifecycle` |
| `BeginReconcile`, `ReconcileItem`, `ReconcileInterrupted` | `discovery_reconcile.reconcile` and the appends below it |
| `WriteArtifact`, `WriteChecksum` | `run_reconcile` with `drift` and `scan_health_events`, `write_run_artifact` |
| `RouteIncidents`, `Prune`, `PruneInterrupted` | `cmdb_scheduler.py` |
| `PlanBackfill`, `StartBackfill`, `CheckItem`, `Enroll`, `EnrollInterrupted`, `WriteAudit` | `cmdb_ownership.py` |
| `SetStatus`, `Happen`, `Crash` | an operator, the machines, death of the process |

An enrollment reads the items one by one, without a lock, and compares each with the
review (`CheckItem`); only then it writes them. The plan that is reviewed reads all of
them at one moment: what it recorded of each item is what the comparison is with.

The order of these calls is the caller's, who is not in the repository: lifecycle,
reconcile, artifact, incidents, pruning, and the owned items are the ones that
carry the tag. `away`, `alarm` and `raced` are history variables: how often in a
row an item was missed for a reason, how often in a row a signal was recorded, and
which items changed after a run or an enrollment had read them. Left out: matching
by aliases, relationships and other tags, the findings about declared services,
closing of incidents, the schema migration and the projection.

### Recovery

`card_event_recovery.py` (any shard of the kanban overlay, by a plan an operator
saved) and `card_recovery.py` (one writer stream of one card, whose digests are
constants of the tool) follow one protocol, so `tool` chooses between them and
only what differs is written twice. `shard` is the log, `art[p]` the files
published under plan `p`, `job` the running call. `ApplyPath` and `RollbackPath`
are what a call decides once it holds the writers' lock and has compared the log
with its plan; then every artifact is one step (`PublishEvidence`), followed by
`CheckReplace`, `Replace`, `VerifyRestored`, `PublishReceipt`. `TornPublication`
is a crash between `os.link` and `os.unlink`, after which the file has two links
and `_read` refuses it; `Die` is any other crash, error or failed verification.
The overlay tool asks for authority before it waits for the lock, the card tool
after (`Begin`, `Decide`). `ForeignAppend` is a writer that does not take the
lock: an older host or the synchroniser. `Repaired` and `Rejected` take the damaged
rows out of a log and keep them apart, both by the recursive function `Without`.
`ever` and `raced` are history
variables: every row that was ever in the log, and those appended between the last
check and the replacement. The checks of paths, modes and owners of files only
refuse calls and are left out.

### Governor

`card[c]` is a card's core (class, parent, what the request said) with the parts of
its fold that the governor looks at. A process under the governor's lock is in one
of the steps `Governing`; `Judge` is `_govern_create` and what the callers do
around it, `Blocks` the duplicate rule with its exceptions, `ShallowAncestry` the
walk up the parents. Ordinary creations open `core.json` and then write it (`Open`,
`Fill`), explicit ones leave an intent first (`WriteIntent`, `Publish`;
`ExplicitCreate` has the steps in between). Replacements and helpers are checked
before the governor's lock, under the locks of the cards they name (`AskReplacement`,
`AskHelper`, `Govern`). Events of cards take the card's lock (`StoreEvent`) or none
(`OverlayEvent`); a replacement under way has cached the overlay and does not see
the latter: `unseen` records the cards that had such an event, `moved` those of them
whose state it changed, and when the governor judges, any of the moved ones may
still look to it as they did before. An authorisation binds the histories of two
cards by digest; here by the number of their events. Its writer is not in the
repository. Paths are atoms: that a directory overlaps what is below it is left to
equality. `reopened` and `resumed` are history variables.

### Migration

The legacy board (`task`, `agent`, `patch` for the overlay, `index` for archivals)
beside the store (`core`, `store`). The overlay and the archive index are read by
both sides, so an overlay event changes both. `LegacyCard` is the projection
`KanbanBoard.cards` gives with the store switched off, `Diff` the gating comparison
of `parity_check`. Of the processes that write beside the tools, the model has what
the tools can see: an agent file is saved, then its event appended (`Mutate`,
`Mirror`, or `LoseMirror` when the process dies between), moves, assignments and their
removal in the overlay, archivals,
and events that only the store gets. `ReadFile` is one file of the snapshot: in the
first pass its copy, in the second the check that it has not changed; a change
starts the next attempt. Corrections and imports are appended one event at a time
(`AppendNext`, the cards in the order of `CardList`), agent files exported one at a
time (`ExportAgent`). `seen` and
`clean` are history variables: the versions that were on disk since the tool began,
and that nobody else wrote since. Titles, descriptions and criteria, which the
comparison also covers, are left out.

### Replicas

One card, one file per agent and host. `got[h][a]` is how many rows of `a`'s file
host `h` has; `History` puts them in the order of `_read_events`, and `Folded` is the
card after each of them, by the operators of `CardFold` (`View` after the last). `ClaimTask`, `ReleaseClaim` and `CompleteTask` are the gates of
`coordination.py` and `current_claim_precondition`, evaluated on what the host has.
The owner's own claim of a card in progress appends no row (`coordination.py` 2328-2386
only makes the card current again), so it is no action here; one that draws a new
revision needs a demoted or moved card, and demotions and moves are left out.
A new row is later than every row its host has, and otherwise carries any timestamp:
hosts that have not heard of each other may disagree about the time, but a clock
behind what its own host has already read is excluded.

## 3. The runs

`tlc -config <cfg> <module>`.

| Run | Config | Shows |
|---|---|---|
| board_faults | `Board_faults.cfg` | 2 agents, 3 cards (one depends on another), 4 revisions, 2 failed writes or crashes: `DependencyGate`, `ErrorRestores`, `ImplementsAtomic`, and `LockReleased` under fairness |
| board_overlay | `Board_overlay.cfg` | 2 agents, 2 cards, 1 fault, 2 outside events between any two steps: `TypeOK`, `Agreement`, `NoTheft`, `SuccessIsApplied` |
| create_faults | `Create_faults.cfg` | 2 digests, 2 contents, both operations, 4 calls, 3 faults of every kind, lines of other IDs: `AcceptedHasCore`, `ExactReplay`, `RejectedStaysReserved`, `ResumePossible`, `GrantKept` |
| cycle_verdict | `Cycle_verdict.cfg` | all graphs of 3 cards: the search is right (`VerdictCorrect`) and ends (`Terminates`) |
| graph_write | `Graph_write.cfg` | 3 cards, 2 processes: `AcyclicUnlessRaced` |
| itil_record | `Itil_record.cfg` | every kind of record, 2 voters of whom one is human, 2 processes, 2 tasks, 4 events (3 for changes): `Authorised`, `ResolutionFits`, `SeverityNeverDrops`, and `TasksFollowRecord` (one task per change, none for a settled record) |
| lifecycle_repair | `Lifecycle_repair.cfg` | 2 agents, any of them active, 2 cards, any of them gone, 2 kanban events or board operations, 1 failed write or crash, 2 repairs: `RepairSound` (it converges; the intent comes first), `SuccessIsClean`, `ErrorUndoes`, `RecoveredWasClean`, `WorkKept` (completions, and claims of active agents) |
| cmdb_runs | `Cmdb_runs.cfg` | 2 items, 1 collector, 3 runs over 2 scopes with one of the items or 2 runs over one scope with both, 1 change of the world or by an operator, 1 failure; 2 misses retire, 2 signals alert, 1 artifact is kept: `RetirementEarned`, `RetirementKept`, `SignalAlerted`, `EnrolledAsReviewed` |
| recovery_runs | `Recovery_runs.cfg` | both tools, 5 rows (2 damaged), 2 plans, 1 event of another writer, 2 appends without the lock, 2 faults: `NothingLost`, `RestorePossible`, `ReceiptsBind` |
| governor_births | `Governor_births.cfg` | 4 identifiers (one in the old format), 2 processes, 1 path, 1 event, 1 crash: `ReviewsBounded` (no rivals, no third level), `HelpersDisjoint`, `ReplacementBound` |
| migration_tools | `Migration_tools.cfg` | 2 agents (one the exporter), 2 cards, 2 writes by others, 1 crash: `SnapshotReal`, `StoreFollowsLegacy` (reconcile and import), `ExportFaithful` |
| replicas_late | `Replicas_late.cfg` | 3 hosts, 4 timestamps, 4 rows: `NoGhostOwner`, `LosersRecorded` |

**Bounds.** Claim revisions (`MaxRev`) bound the number of claims; a claim and
its compensation need two, so four allow a claim, a second claim that bumps the
first, and its compensation. Two faults are what the interesting paths need: one
to enter a handler and one to hit the handler itself. Two outside events can
change a card and change it back, or hit target and bumped card. Three cards
give a target, a bumped card and a dependency. Four creation calls and three
faults let two callers each fail and retry. Three cards and two processes
suffice for a race to close a cycle, and the theorem shows that no other
interleaving does. Three events take a change
through its gate and two transitions in any arrival order; four let an incident
be emitted, linked, resolved and reopened. Two drifts make two
agents claim one card, or strand a claim and complete a card; cards are moved to
`ready` and `done`, which stand for a column with and one without claims. One fault
interrupts a repair and leaves the second undisturbed, which recovery needs; a
constraint follows a second job only after an interrupted one, since from
elsewhere it starts in states like those of a first. In scans, configuration items meet
only in the completeness, which one collector with all its outcomes decides, so one
item shows what retires it and what is alerted; two are what the window between the
comparison of one item and that of the next needs. The constraint `TwoOfOne` follows
either one item, in all its states, or two items that were both entered by hand, with
fewer runs; three runs let a count of two be broken by a sighting, a failed scan or another
scope, and one kept artifact is what an alert after two runs needs.

Two plans for one log are what a mix-up needs; two foreign rows can damage a log
again that was repaired, or append before and after the check; two faults interrupt
an apply and then its retry or rollback. The root task, one card of the old format
and two new ones give a parent, a predecessor and its replacement, or a chain of
three reviews; one event between asking and judging is a race. Two writes hit the
first and the second pass of a snapshot, or change a card and change it back; two
attempts (`PARITY_SNAPSHOT_RETRIES`) let one fail and the next succeed or give up. Four
rows let a card be claimed twice, released or completed, and claimed once more;
the fourth timestamp leaves room for a row in the middle of the others. Deadlock is
not checked where the bounds end the calls.

**Fairness.** `Board!LiveSpec` assumes weak fairness of `Continue`: a process
that holds the board lock keeps executing until it returns, raises or dies. None
of its steps waits for anyone, because the card locks are taken with the board
lock, and the kernel drops the locks of a dead process. Nothing is assumed about
callers or the environment. `CycleCheck!LiveSpec` assumes that the loop runs.

**Disagreements with the documentation.** Each of these properties states what a
docstring, comment or document says; it is defined in its module and marked there
as one that the code does not keep. TLC gives the counterexample when it is added to
the configuration named.

* `ClaimRaisesOnFailure` (`Board`, `Board_overlay.cfg`): `claim_task` decides to
  demote the current task even when it is the target; the demotion is then addressed
  to task `None`, and the call raises with the claim in place (`coordination.py`
  2398-2440; the errors documented at 2198 are others). It takes a kanban assign,
  which removes the revision of a card that is already current.
* `AcceptanceBinds` (`ExplicitCreate`, `Create_faults.cfg`): an abort logged after a
  durable acceptance makes the ID fail with "conflicting creation attempts" for ever
  (`card_store.py` 1128-1149), although crash rejects "do not reserve the ID"
  (`card_store.py` 1124).
* `TornTailTolerated` (`ExplicitCreate`, `Create_faults.cfg`): a log whose only line is
  incomplete is refused as corrupt (`card_store.py` 1050-1056: there is no newline
  after which to cut); the docstring of `_read_creation_attempts` (`card_store.py`
  1022) says "tolerating only one incomplete final line".
* `HeadlineIsGate` (`Itil`, `Itil_record.cfg` without its SYMMETRY): a passed
  validation moves a standard or auto-normal change to `reviewing`, where the
  headline derivation no longer approves it but the gate still does (`itil.py` 1263
  and 441), although both are "this exact derivation" (`itil.py` 404).
* `Acyclic` (`DependencyGraph`, `Graph_write.cfg`): two writers check before either
  writes (`card_store.py` 2304); "detection belongs at write time"
  (`dependency_graph.py` 9).
* `FailsClosed` (`Governor`, `Governor_births.cfg`): an explicit creation that left
  an intent is not judged again (`card_store.py` 1244), so that a review born in
  between gets a rival; the docstring of `_govern_create` (`card_store.py` 763) says
  "Fail closed on duplicate or over-depth review and repair creation".
* `NeverUncompletes` (`Migration`, `Migration_tools.cfg`): a card completed after the
  snapshot was taken is moved back by the corrections; the docstring of
  `reconcile_from_legacy` (`card_store.py` 3293) says that it never un-completes.
* `RetryFinishes` (`Recovery`, `Recovery_runs.cfg`): a publication that is torn
  between link and unlink leaves a file with two links, which every retry refuses;
  `docs/tasks/2026-09-22-cardchain-38c4-recovery.md` says "retry must finish
  verification".

Further states that the models reach and that no property excludes:

* `ExplicitCreate`: an I/O error other than a full disk, raised while the core is
  published, is recorded as a policy reject and reserves the ID (`card_store.py`
  83-92; this is why `RejectedStaysReserved` speaks of rejects whose reason is
  policy); the append after a torn line produces an unreadable line in the middle of
  the ledger, which every creation then refuses (`card_store.py` 1076), and so does a
  torn line that is the first of the log: one crash in the very first append stops
  every explicit creation on that host until someone repairs the file (hence the
  condition `~Unreadable` in `ResumePossible`); and the retry of an interrupted
  claimed creation draws a new revision and does not match its own intent
  (`card_store.py` 2606).
* `Lifecycle`: a card in progress that nobody owns keeps all its claimants, so its
  repair raises "did not converge" every time (`lifecycle.py` 544; the exception in
  `Converges`). The `recovered` receipts are written after the repair's own
  `committed` one, inside the same handler: when one of them fails the projections
  are put back although the repair is on record as committed (`lifecycle.py` 647).
* `Cmdb`: a collector some of whose commands fail counts as complete, so what it lost
  is counted as a miss, although `docs/adr/0003-chi-node-census-and-ci-contract.md`
  says that partial scans never increment absence (`cmdb_reconcile.py` 83; the
  exception in `RetirementEarned`); a retirement by an operator between the read and
  the write of reconcile is reverted (`raced` in `RetirementKept`); a collector all of
  whose commands fail makes every scan incomplete and yields no health event, so
  nobody is alerted (`cmdb_reconcile.py` 389); a torn core is never filled (`cmdb.py`
  230); an enrollment that was interrupted after a tag cannot be retried under
  its plan; an item that changes after it was compared with the review, while the
  others are still compared or written, is enrolled in a state nobody reviewed
  (`cmdb_ownership.py` 165-181; `raced` in `EnrolledAsReviewed`); and an alert after more than two runs needs a retention with room for
  them: with `Retention` 2 and `AlertRuns` 3 a crash between an artifact and its
  checksum leaves a file that takes a place in the retention and counts for nothing,
  and the third signal raises no incident (the condition in `SignalAlerted`). The code
  asks of both settings only that they are positive (`cmdb_scheduler.py` 53-63; its
  defaults are 96, and 2 and 3).
* `Recovery`: the overlay tool checks authority before it waits for the lock, so a
  recovery may run under a card that was released meanwhile; an append without the
  lock between the last check and `os.replace` is lost (`raced` in `NoEventLost`).
* `Governor`: a finished review that is reopened may have a rival; a core torn by a
  crash makes the strict listing raise and stops every governed creation until
  someone removes it (`card_store.py` 879); a kanban event during a replacement is
  not seen (`unseen` in `ReplacementBound`).
* `Migration`: task files that this code writes carry no status, so status drift is
  compared, and the guard against un-completing applied, only for records that do; a
  card that is done in the store and claimed in the legacy board gets its owner
  rewritten, although a comment says such cards are skipped whole; the export leaves
  overlay and archive index alone, so an overlay column overrides it for ever (the
  condition `patch[c] = NoPatch` in `ExportFaithful`); a correction of a voided card
  raises and leaves the rest undone; a card whose import was interrupted has a
  core, and no later import finishes it (it is `skipped` in `ImportFaithful`).
* `Replicas`: a claim by a host that has not seen a completion makes the card active
  again; once the winner of a conflict has released or finished the card, the loser
  can no longer release its own claim; a claim of the freed card drops the conflicts
  that were recorded (`card_store.py` 1723; the end of `LosersRecorded`).

## 4. The proofs

`tlapm <module>` checks them; they hold for every value of the constants that the
assumptions of the module admit. The theorems are listed in `PROJECT.json`. Each
component has one inductive invariant, a conjunction of named parts; its proof has
one lemma per action and below it one step per part that the action can disturb.

### What is assumed

`None` (`NoCard` in the dependency graph) is not one of the things it stands in for
(an agent, a card, a task, a recorded log); severities are among the four ranked; dependencies are cards; bounds are naturals, thresholds and retentions
positive; agents (in `Lifecycle`) are finitely many, and cards and agents of
`Migration` are listed in the order in which the tools take them; the agents of
`Replicas` are finitely many and their names are ordered; the log `Recovery`
starts from is damaged and holds no row twice, and damaged rows are not named like
the tool's files. Nothing is assumed
about the number of processes, calls, faults or outside events. The theorems about
`Lifecycle` and `Cmdb` also cover what `Lifecycle_repair.cfg` and `Cmdb_runs.cfg`
exclude by their constraints.

### The board (`BoardProofs`)

`AgreementHolds`, `NoTheftHolds`, `DependencyGateHolds`, `ErrorRestoresHolds`,
`SuccessIsAppliedHolds`, `Refinement`, `PromiseKept`.

`Agreement` speaks of moments without an operation, so it is not inductive: an
operation must carry the promise that it can end in agreement. `AgreementInv` adds
the steps an operation can be in (`StepShape`), what an undisturbed card looks like
(`CardsPlain`), that restoring the snapshot would give agreement (`RollbackAgrees`),
what the operation has done to its projection (`Projected`) and to the target
(`TargetProgress`), and what it knows of the bumped card (`BumpFacts`). `BoardInv`
adds what the other properties need: an operation past its gate still stands on done
dependencies (`GatePassed`), how far the bumped card has moved (`BumpProgress`), and
that a completion that only answers has found one (`FoundCompleted`).

`Refinement` is `Spec => ImplementsAtomic`. The middle of an operation does not show
(`HiddenMiddle`), nor its beginning; each way in which an operation can end is a
lemma: the operation takes effect there on all its cards (`EndMirrorClaim`,
`EndJudgeClaim`, `EndReleaseComplete`, ...) or on none (`EndRecover`, `EndCrash`).
`PromiseKept` then says of the real board what follows from the abstract one alone:
nobody works on two cards, and no card leaves the backlog before its dependencies.

### Cycles (`CreationProofs`)

`CycleVerdict`: the search answers "cycle" exactly when the dependency reaches the
card. Reachability is "every set that is closed under dependencies and holds the
dependency holds the card", which needs no induction: when the stack is empty the
expanded cards are such a set; the graph need not even be finite for that. `Check`
of `DependencyGraph` asks the same `Reaches`. `AcyclicHolds`: `GraphInv` adds that what a process
has read covers the present graph as long as nobody raced. The core is `AddEdges`:
edges out of one card, none of whose ends reaches it in a covering graph, close no
cycle.

### Explicit creation (`CreationProofs`)

`AcceptedHasCoreHolds`, `ExactReplayHolds`, `RejectedStaysReservedHolds`,
`ResumePossibleHolds`, `GrantKeptHolds`. `CreateInv` says what an operation may rely
on between two writes (`OperationInv`: the ID is unbound before the first append, the
core is absent or its own, the intent is its own) and what the four files say about
each other (`FilesInv`: whoever has the card is named by an acceptance, and without
failed writes an intent is alone). Lines of other IDs bind nothing: they change only
whether the log can be read (`OtherStep`), and a log that was corrupt stays so.

### The governor (`GovernorProofs`)

`ReviewsBoundedHolds`, `HelpersDisjointHolds`, `ReplacementBoundHolds`. `GovernorInv`
carries what was judged through the steps in which it is written (`Judged`): the
review is founded and has no rival but the one it replaces, and since the governor's
lock is held (`OneAtATime`) no birth can change that; events can only bring a card
back that was finished before, which makes it exempt (`MovedBack`).

### Repair and transition (`LifecycleProofs`)

`RepairSoundHolds`, `SuccessIsCleanHolds`, `ErrorUndoesHolds`,
`RecoveredWasCleanHolds`, `WorkKeptHolds`. The heart of `LifecycleInv` is `PlanFits`:
each planned projection would give an audit nothing to find (`Good`) and takes no
agent at work off its card, so that a repair which has saved all of the plan is clean
(`Projected`); `Audited` carries that through the receipts.

### Discovery (`CmdbProofs`)

`RetirementEarnedHolds`, `RetirementKeptHolds`, `EnrolledAsReviewedHolds`. No counter
in the store is ahead of the passes that missed the item for a reason
(`MissesFounded`), although counters are written in one store event each and a run
may die between any two; what reconcile or an enrollment has read still holds of the
items it has not reached, unless they raced (`ReadHolds`, `ReviewHolds`; the latter over
the items that were already compared, `Compared`).

`SignalAlertedHolds` rests on an invariant of the evidence, `AlarmInv`, beside that of
the store. What was recorded and what the artifacts show are not the same: files are
pruned, and a run that dies before its checksum leaves one that shows nothing. For
every signal there is a place in the files from which all sealed ones carry it
(`Shown`), and either they are as many as were recorded, or the stretch covers all that
is retained and a sealed one is among them. Between append and pruning the stretch is
one longer (`Longer`) and from the checksum on has one more that counts (`More`). Each
step moves the place: `ShownAppend`, `ShownSealed`, and `ShownPruned`, complete or not.
`EnoughShown` then compares the stretch with what `consecutive_event_count` counts.

### Recovery (`RecoveryProofs`)

`NothingLostHolds`, `RestorePossibleHolds`, `ReceiptsBindHolds`. A call in the middle
goes by a log that is the plan's or what the plan leaves of it (`JobFounded`), and an
apply that may replace the log has all its evidence (`EvidenceKept`). That a way
forward or back exists rests on `CleanIsApplied`: behind every clean log there is a
plan that was applied and not rolled back, and all rows after its own are newer than
every plan. So if the log is exactly what some plan leaves, it is exactly what that
one leaves, however the plans were mixed.

`Repaired` is a recursion over the log. The library states induction for an operator
as parameter, which the provers cannot instantiate; `Induction` derives it for sets
from the well-founded order of the naturals (`LeastNumber`), and `WithoutRows` is
proved with it: what is left are the rows that were not to be taken, none twice.

### ITIL (`ItilProofs`)

`AuthorisedHolds`, `ResolutionFitsHolds`, `SeverityNeverDropsHolds`,
`TasksFollowRecordHolds`. The log is of any length and an event may arrive anywhere in
it, so every step may change the whole fold; what the fold shows is therefore related
to the *log*, not to the fold before. `ReplayExists` and `ReplayIn` (by `Induction`,
derived as in `RecoveryProofs`) carry a claim from the new record over every event:

* a change that has left review is *founded* in the votes and its tags (`Gated`). One
  lemma per kind of event (`ChangeEvent`); the gate opens only where the change is
  founded (`GateFounded`), and no status event takes it out of review
  (`AcceptedPast`), so it does not matter which event came first;
* an incident is open or carries its time of resolution (`Timed`), links exactly the
  tasks that `gtd_link` events name (`Linked`) and shows the worst severity given
  (`WorstOf`, `Given`). A late event only adds to what is given (`GivenInsert`), which
  is `SeverityNeverDrops`.

`ItilInv` then follows the tasks: as long as no call died or overlapped on its way
(`loose`), a task is linked or in the hand of the process that emitted it
(`TasksKnown`), a change has one at most (`OneTask`), and whoever settles a record goes
on to complete what it links (`Settled`): a local step that closes an incident finds it
resolved already (`CloseStep`), and one that appends last is replayed last
(`ReplayAppend`).

### The maintenance tools (`StoreProofs`)

`SnapshotRealHolds`, `StoreFollowsLegacyHolds`, `ExportFaithfulHolds`, from one
inductive invariant, `MigrationInv`. Its parts follow a tool through its run:

* `Inventory`: after the first pass there was a *moment*. Every file whose version
  was read again unchanged had, between the two reads, the contents in the copy;
  files never get an old version back, so all of them had it at the end of the first
  pass, and what agreed on both passes was on disk then. That is `SnapshotReal`.
* `Undisturbed`, `Coreless`: while nobody else writes, what the tool has read is the
  disk, and a card without a core has of the store only what the overlay gives it.
* `CreatesFirst` and `Replayed`: every event that is still due is one that makes the
  card what legacy shows, and what is *not yet* right is due (`Promised`). An event
  that is appended makes its own field right and disturbs no field that was right
  and has no event due; when nothing is due, everything is right. The proof goes over
  the kinds of events, so it does not depend on how many a card gets.
* `ExportDone`: each agent file is rebuilt or still to be rebuilt. `ExportedFaithful`
  is then a statement about two states of data: the legacy projection of the exported
  files has the store's buckets and owners, although the projection takes the *last*
  agent that holds a card and the export lists a card with one agent only.

### Replicas (`StoreProofs`)

`NoGhostOwnerHolds`, `LosersRecordedHolds`. A row that arrives late falls somewhere
into the history, so nothing relates the fold a host had to the one it has. The
inductive invariant, `LogsInv`, therefore speaks of the files alone: the clock of a file
moves on, every claim has a revision of its own, and a release gives up exactly the
claim of the row before it. What a host folds is a *chronicle* of such files
(`HistoryChronicle`): finitely many rows, each once, in an order that keeps the order of
every file (`SortedByRank`: to choose the row with `i - 1` rows before it, again and
again, sorts).

The rest is about the fold of any chronicle, by induction on its rows. `Traced` says
that owner, revision and conflicts of a card come from claims in the chronicle.
`NoGhost` follows the last row of one agent: nobody else can make it the owner
(`OthersGiveNothing`), and a release that was decided on a card seen with fewer rows
still finds its claim, for the agent's revision is the one of the row before. That is
where `LogsInv` needs the gate: `PreconditionIsLast` shows, with what stands of an
agent's last claim (`Standing`), that `current_claim_precondition` never answers with
an older one. `NoLoserForgotten` follows a claim until the card is finished or taken
anew.

### What the proofs found

* `Migration`: the model had a history variable for imports that died half way, and
  `ImportFaithful` an exception for them. The proof did not need it: such a card has a
  core, the next import skips it, and the property speaks of cards not skipped. Both
  are gone.
* `Migration`: corrections were appended to cards in any order; the loop goes by the
  list of mismatches. `AppendNext` now takes the cards in their order.
* `Governor`: with one event per run TLC had not shown that an unseen event which
  does *not* change a card's state was treated as if it could hide a rival; the proof
  of `Unrivalled` failed, and `moved` separates the two.
* `Lifecycle`: the second half of `ErrorUndoes` primed the scope together with the
  audit, and after the job it is empty; the property now fixes the scope first.
* `Cmdb`: the arms of the CASE in `Reconciled` overlapped for an item that is torn
  and unknown to the read; `Migration!ExportFaithful` had a CASE of that kind, too.
  Both now decide in the order of the code.
* `Cmdb`: `SignalAlerted` does not follow from the thresholds being positive (see
  section 3). It now names the condition; the proof found it to depend on the files
  that lack a checksum at that moment, not on the faults there ever were, and with a
  threshold of two on neither, as the newest artifact is sealed whenever any is pruned.
* `Replicas`: no property says that an agent never releases a claim older than its last
  one, but both theorems rest on it (`PreconditionIsLast`).

### Only model-checked

* `LockReleased` and `Terminates`: liveness under fairness is out of the prover's
  reach.

`AgreementInv`, `GraphInv` and the other inductive invariants are proved and therefore
in no run; TLC can check them like any other invariant.

## 5. Not modelled

Discovery collectors, CMDB migration, relationships and projection, the review
broker, authorised snapshots, truth reports, portfolio and rollout packages: see the
components in `PROJECT.json` for the reason of each. Most keep no state: they read
files and print a report. Rendering, the command line, signing and parsing of host
tools hold no protocol either.

Known but outside the present models: a crash between the save and the append of
`complete_task` leaves a card that a retry reports as completed while the store
never says done; `release_stale_claims` abandons its sweep at the first claim it
cannot release; `create_claimed_task` projects and demotes without a handler;
ordinary `create` never consults the attempt ledger. In ITIL, an event that was
refused because its change was not approved takes effect when an approval arrives
later; `update_problem` completes the tasks of a problem whose resolution the fold
refuses; the sweep rewrites the GTD lists without their lock. In lifecycle repair,
a receipt line torn by a crash makes every later repair and transition raise. In
`parity_check`, differences of acceptance criteria gate, and nothing converges them.

## 6. Plan

Every invariant and action property of the runs is proved. What could come next is
more of the code: `reconcile_gtd_orphans` and the recovery note in `Itil`, the
relationships and the schema migration of the CMDB, `create_claimed_task` and
`release_stale_claims` in `Board`, and overlay events across hosts in `Replicas`, for
whose proof `Traced` would have to follow assignments as well as claims.
