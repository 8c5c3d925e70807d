----------------------------- MODULE Migration -----------------------------
(***************************************************************************)
(* The legacy board beside the CardStore: card_store.py (parity_check,     *)
(* reconcile_from_legacy, import_from_legacy, export_to_legacy) and the    *)
(* legacy projection of card.py and coordination.py.                       *)
(*                                                                         *)
(* The legacy board is made of task files, agent files, an archive index   *)
(* and the kanban overlay; the fold of the store reads its own logs and    *)
(* the last two.  The tools compare the sides or rebuild one from the      *)
(* other.  They take no lock while claims, completions, moves and          *)
(* archivals go on: each reads first and writes later.                     *)
(*                                                                         *)
(* Timestamps follow the order of the steps, so a card's fold is kept      *)
(* event by event.                                                         *)
(***************************************************************************)
EXTENDS CardFold, Sequences, FiniteSetsExt

CONSTANTS CardList,   \* the cards, in the order the tools visit them
          Names,      \* the agents' names, in the order their files are loaded
          Exporter,   \* the synthetic owner legacy-export, one of Names
          MaxWrites,  \* bound on what other processes write
          MaxFaults   \* bound on crashes

Cards == {CardList[i] : i \in DOMAIN CardList}

ASSUME NamesAssumption ==
  /\ CardList \in Seq(Cards) /\ Names \in Seq(Agents)
  /\ Agents = {Names[i] : i \in DOMAIN Names} /\ Exporter \in Agents /\ None \notin Cards

VARIABLES task,    \* [Cards -> task file: none, plain, or one that carries a status]
          core,    \* cards with a core.json
          store,   \* [Cards -> the card as the fold gives it]
          agent,   \* [Agents -> agent file]
          patch,   \* [Cards -> what the overlay sets: column and owner]
          index,   \* the archive index
          ver,     \* [Files -> how often a file was written]
          writer,  \* an event another process has yet to append, or None
          tool,    \* the maintenance tool that runs, if any
          seen,    \* history: the versions since the tool began to read
          clean,   \* history: nothing else was written since then
          writes, faults

disk == <<task, core, store, agent, patch, index>>
vars == <<disk, ver, writer, tool, seen, clean, writes, faults>>

\* What the parity snapshot copies, in that order; the overlay with the archive index.
Files == <<"agents", "overlay", "cards">>

NoHold == [current |-> None, claimed |-> {}, completed |-> {}]

NoPatch == [col |-> None, set |-> FALSE, owner |-> None]

Disk == [agents |-> agent, overlay |-> [patch |-> patch, index |-> index],
         cards |-> [core |-> core, store |-> store]]

NoTool == [op |-> "none"]

NoVer == [f \in {"agents", "overlay", "cards"} |-> 0]

-----------------------------------------------------------------------------
(* The two sides.  d is a disk, live or copied. *)

Held(h) == h.claimed \cup ({h.current} \ {None})

\* _legacy_task_views: completed before current before claimed; the last file that
\* names the card owns it.
ViewStatus(d, c) ==
  IF \E a \in Agents : c \in d.agents[a].completed THEN "done"
  ELSE IF \E a \in Agents : d.agents[a].current = c THEN "doing"
  ELSE IF \E a \in Agents : c \in d.agents[a].claimed THEN "ready"
  ELSE "backlog"

ViewOwner(d, c) ==
  LET holders == {i \in DOMAIN Names : c \in Held(d.agents[Names[i]])}
  IN IF holders = {} THEN None ELSE Names[Max(holders)]

\* KanbanBoard.cards under _forced_legacy_read: a void of the store wins, then the
\* overlay, whatever the agent files say since.
LegacyCard(d, c) ==
  LET p == d.overlay.patch[c]  void == c \in d.cards.core /\ d.cards.store[c].voided IN
  [status   |-> IF ~void /\ p.col # None THEN p.col ELSE ViewStatus(d, c),
   owner    |-> IF void THEN None ELSE IF p.set THEN p.owner ELSE ViewOwner(d, c),
   archived |-> void \/ c \in d.overlay.index]

\* The coarse lifecycle that both sides can express.
Bucket(col) ==
  CASE col = "backlog" -> "todo" [] col = "done" -> "done" [] OTHER -> "active"

\* The gating differences of parity_check for one card.  The status counts only if
\* the task file carries one.
Diff(d, c) ==
  LET l == LegacyCard(d, c)  s == d.cards.store[c] IN
  {f \in {"status", "owner", "archived"} :
     CASE f = "status"   -> task[c] = "status" /\ Bucket(l.status) # Bucket(s.status)
       [] f = "owner"    -> l.owner # s.owner
       [] f = "archived" -> l.archived # s.archived}

Compared(d) == {c \in Cards : task[c] # "none" /\ c \in d.cards.core}

WouldUncomplete(d, c) ==
  /\ "status" \in Diff(d, c)
  /\ d.cards.store[c].status = "done" /\ LegacyCard(d, c).status # "done"

-----------------------------------------------------------------------------
(* Other processes *)

TypeOK ==
  /\ task \in [Cards -> {"none", "plain", "status"}] /\ core \in SUBSET Cards
  /\ store \in [Cards -> CardStates]
  /\ agent \in [Agents -> [current : Cards \cup {None}, claimed : SUBSET Cards,
                           completed : SUBSET Cards]]
  /\ patch \in [Cards -> [col : Columns \cup {None}, set : BOOLEAN, owner : Agents \cup {None}]]
  /\ index \in SUBSET Cards
  /\ DOMAIN ver = DOMAIN NoVer /\ \A f \in DOMAIN ver : ver[f] \in Nat
  /\ clean \in BOOLEAN /\ writes \in Nat /\ faults \in Nat

\* One card is on both sides, on the store's only (born after the cutover) or on the
\* legacy side only, where it may be owned or done; the others are on both.
Init ==
  /\ \E c \in Cards, there \in {<<"none", TRUE>>, <<"plain", TRUE>>, <<"status", TRUE>>,
                              <<"plain", FALSE>>} :
       /\ task = [d \in Cards |-> IF d = c THEN there[1] ELSE "plain"]
       /\ core = {d \in Cards : d = c => there[2]}
  /\ \E a \in Agents \ {Exporter}, h \in {"open", "held", "done"} :
       agent = [b \in Agents |-> IF b # a THEN NoHold
                                 ELSE [NoHold EXCEPT !.claimed = IF h = "held" THEN Cards \ core ELSE {},
                                                     !.completed = IF h = "done" THEN Cards \ core ELSE {}]]
  /\ store = [c \in Cards |-> NewCard]
  /\ patch = [c \in Cards |-> NoPatch] /\ index = {}
  /\ ver = NoVer
  /\ writer = None /\ tool = NoTool /\ seen = {} /\ clean = TRUE
  /\ writes = 0 /\ faults = 0

Disturbs(f) ==
  /\ ver' = IF tool.op = "parity" THEN [ver EXCEPT ![f] = @ + 1] ELSE ver
  /\ seen' = IF tool.op = "parity" THEN seen \cup {ver'} ELSE seen
  /\ clean' = (tool = NoTool)

Wrote(f) ==
  /\ writes < MaxWrites /\ writes' = writes + 1
  /\ Disturbs(f)
  /\ UNCHANGED <<task, tool, faults>>

\* The agent file after a claim, completion or release of c.
Saved(h, k, c) ==
  IF k = "claim" THEN [h EXCEPT !.claimed = @ \cup {c}, !.current = c]
  ELSE [h EXCEPT !.claimed = @ \ {c}, !.current = IF @ = c THEN None ELSE @,
                 !.completed = IF k = "complete" THEN @ \cup {c} ELSE @]

\* Claim, complete or release: the agent's file is saved, then the store gets its event.
\* (Module Board has the whole operations, this one what the tools see of them.)
Mutate(a, c) ==
  /\ writer = None /\ c \in core /\ ~store[c].voided /\ ~store[c].archived
  /\ \E k \in {"claim", "complete", "release"} :
       /\ IF k = "claim" THEN store[c].owner = None /\ store[c].status # "done"
                         ELSE store[c].owner = a /\ store[c].rev # NoRev
       /\ writer' = [card |-> c, e |-> CASE k = "claim"    -> ClaimEvent(a, writes + 1)
                                         [] k = "complete" -> CompleteEvent
                                         [] k = "release"  -> ReleaseEvent(a, store[c].rev)]
       /\ agent' = [agent EXCEPT ![a] = Saved(@, k, c)]
  /\ Wrote("agents")
  /\ UNCHANGED <<core, store, patch, index>>

Mirror ==
  /\ writer # None
  /\ store' = [store EXCEPT ![writer.card] = Apply(@, writer.e)]
  /\ writer' = None /\ Disturbs("cards")
  /\ UNCHANGED <<task, core, agent, patch, index, tool, writes, faults>>

\* The process dies before the store has the event.
LoseMirror ==
  /\ writer # None /\ faults < MaxFaults /\ faults' = faults + 1
  /\ writer' = None
  /\ UNCHANGED <<disk, ver, tool, seen, clean, writes>>

OwnerEvent(a) == IF a = None THEN UnassignEvent ELSE AssignEvent(a)

\* A move, an assignment or (a = None) its removal in the kanban overlay; the fold of
\* the store reads it too.
Overlay(c) ==
  /\ \E col \in {"review", "done"}, a \in (Agents \ {Exporter}) \cup {None} :
       \/ /\ patch' = [patch EXCEPT ![c].col = col]
          /\ store' = [store EXCEPT ![c] = Apply(@, MoveEvent(col))]
       \/ /\ patch' = [patch EXCEPT ![c].set = TRUE, ![c].owner = a]
          /\ store' = [store EXCEPT ![c] = Apply(@, OwnerEvent(a))]
  /\ Wrote("overlay")
  /\ UNCHANGED <<core, agent, index, writer>>

ArchiveTask(c) ==
  /\ index' = index \cup {c} /\ store' = [store EXCEPT ![c] = Apply(@, ArchiveEvent)]
  /\ Wrote("overlay")
  /\ UNCHANGED <<core, agent, patch, writer>>

\* Events only the store gets: a move, a void, a reopening.
StoreOnly(c) ==
  /\ c \in core /\ ~store[c].voided
  /\ \E e \in {MoveEvent("ready"), VoidEvent, ReopenEvent("backlog")} :
       store' = [store EXCEPT ![c] = Apply(@, e)]
  /\ Wrote("cards")
  /\ UNCHANGED <<core, agent, patch, index, writer>>

-----------------------------------------------------------------------------
(* parity_check *)

\* A check begins to read; what it finds is reported or, by reconcile_from_legacy,
\* applied.
Quiet == ver' = NoVer /\ seen' = {} /\ clean' = TRUE

Fresh(tries) ==
  /\ tool' = [op |-> "parity", pass |-> 1, at |-> 1, tries |-> tries, snap |-> Disk, got |-> NoVer]
  /\ ver' = NoVer /\ seen' = {NoVer} /\ clean' = TRUE

StartParity ==
  /\ tool = NoTool /\ Fresh(1)
  /\ UNCHANGED <<disk, writer, writes, faults>>

\* The inventory before and the last look at each file: the inventory after, which
\* finds whatever the copy in between would have found.
Passes == 2

Retries == 2

\* Fault: only what the second inventory reads first is compared.
StableIfAgents(f) == f # "agents" \/ tool.got[f] = ver[f]

Stable(f) == tool.got[f] = ver[f]

\* One file of _parity_snapshot.  Each save of an agent file has a new time, so equal
\* hashes mean that it was not written.  A file that changed starts the next attempt;
\* after the last one the check ends without a verdict.
ReadFile ==
  /\ tool.op = "parity"
  /\ LET f == Files[tool.at]
         after == IF tool.at < Len(Files) THEN [tool EXCEPT !.at = @ + 1]
                  ELSE IF tool.pass < Passes THEN [tool EXCEPT !.at = 1, !.pass = @ + 1]
                  ELSE [tool EXCEPT !.op = "verdict"] IN
     \/ /\ tool.pass = 1
        /\ tool' = [after EXCEPT !.snap[f] = Disk[f], !.got[f] = ver[f]]
        /\ UNCHANGED <<ver, seen, clean>>
     \/ /\ tool.pass > 1 /\ Stable(f)
        /\ tool' = after
        /\ UNCHANGED <<ver, seen, clean>>
     \/ tool.pass > 1 /\ ~Stable(f) /\ tool.tries < Retries /\ Fresh(tool.tries + 1)
     \/ tool.pass > 1 /\ ~Stable(f) /\ tool.tries = Retries /\ tool' = NoTool /\ Quiet
  /\ UNCHANGED <<disk, writer, writes, faults>>

-----------------------------------------------------------------------------
(* Events to append, one at a time *)

\* A reopen without a column leaves the column alone.
Correct(k, e) ==
  IF e.act = "reopen" /\ e.col = None
  THEN IF k.voided THEN k ELSE [k EXCEPT !.archived = FALSE]
  ELSE Apply(k, e)

\* Fault: an owner that legacy no longer knows is kept.
CorrectionsKeepOwner(d, c) ==
  LET l == LegacyCard(d, c)  x == Diff(d, c) IN
  (IF "archived" \notin x THEN <<>>
   ELSE <<IF l.archived THEN ArchiveEvent
          ELSE ReopenEvent(IF "status" \in x THEN l.status ELSE None)>>)
  \o (IF "status" \in x THEN <<MoveEvent(l.status)>> ELSE <<>>)
  \o (IF "owner" \in x /\ l.owner # None THEN <<AssignEvent(l.owner)>> ELSE <<>>)

\* What reconcile_from_legacy appends for one mismatch.
Corrections(d, c) ==
  LET l == LegacyCard(d, c)  x == Diff(d, c) IN
  (IF "archived" \notin x THEN <<>>
   ELSE <<IF l.archived THEN ArchiveEvent
          ELSE ReopenEvent(IF "status" \in x THEN l.status ELSE None)>>)
  \o (IF "status" \in x THEN <<MoveEvent(l.status)>> ELSE <<>>)
  \o (IF "owner" \in x THEN <<OwnerEvent(l.owner)>> ELSE <<>>)

\* import_from_legacy: the core, then the events that reproduce the card.
Reproduction(d, c) ==
  LET l == LegacyCard(d, c) IN
  <<Event("create", None, NoRev, "backlog"), MoveEvent(l.status)>>
  \o (IF l.owner = None THEN <<>> ELSE <<AssignEvent(l.owner)>>)
  \o (IF l.archived THEN <<ArchiveEvent>> ELSE <<>>)

\* The events of each card; the cards take their turns in the order of CardList.
Work(events) == [c \in Cards |-> IF c \in DOMAIN events THEN events[c] ELSE <<>>]

Due(todo) == {i \in DOMAIN CardList : todo[CardList[i]] # <<>>}

NextCard(todo) == CardList[Min(Due(todo))]

\* The verdict of a check is reported, and the mismatches corrected unless this is a dry
\* run.  A card whose store state is done is skipped if legacy would take it back.
Report ==
  /\ tool.op = "verdict" /\ tool' = NoTool /\ Quiet
  /\ UNCHANGED <<disk, writer, writes, faults>>

Reconcile ==
  /\ tool.op = "verdict"
  /\ LET d == tool.snap
         fixable == {c \in Compared(d) : ~WouldUncomplete(d, c)} IN
     tool' = [op |-> "append", for |-> "reconciled", skipped |-> Compared(d) \ fixable,
              todo |-> Work([c \in fixable |-> Corrections(d, c)])]
  /\ ver' = NoVer /\ seen' = {}
  /\ UNCHANGED <<disk, writer, clean, writes, faults>>

\* The legacy board is read once, at the beginning.
StartImport ==
  /\ tool = NoTool
  /\ LET d == Disk IN
     tool' = [op |-> "append", for |-> "imported", skipped |-> core,
              todo |-> Work([c \in {x \in Cards : task[x] # "none"} |-> Reproduction(d, c)])]
  /\ UNCHANGED <<disk, ver, writer, seen, clean, writes, faults>>

\* The next event.  A card that has a core is not imported.  append_event raises on a
\* voided card, which ends the tool and leaves the rest undone.
AppendNext ==
  /\ tool.op = "append" /\ Due(tool.todo) # {}
  /\ LET c == NextCard(tool.todo)  e == Head(tool.todo[c]) IN
     \/ /\ e.act = "create" /\ c \in core
        /\ tool' = [tool EXCEPT !.todo[c] = <<>>]
        /\ UNCHANGED <<core, store>>
     \/ /\ e.act = "create" /\ c \notin core
        /\ core' = core \cup {c} /\ tool' = [tool EXCEPT !.todo[c] = Tail(@)]
        /\ UNCHANGED store
     \/ /\ e.act # "create" /\ ~(store[c].voided /\ e.act \in VoidTerminalActions)
        /\ store' = [store EXCEPT ![c] = Correct(@, e)]
        /\ tool' = [tool EXCEPT !.todo[c] = Tail(@)]
        /\ UNCHANGED core
     \/ /\ e.act # "create" /\ store[c].voided /\ e.act \in VoidTerminalActions
        /\ tool' = NoTool
        /\ UNCHANGED <<core, store>>
  /\ clean' = (clean \/ tool' = NoTool)
  /\ UNCHANGED <<task, agent, patch, index, ver, writer, seen, writes, faults>>

Appended ==
  /\ tool.op = "append" /\ Due(tool.todo) = {}
  /\ tool' = [tool EXCEPT !.op = tool.for]
  /\ UNCHANGED <<disk, ver, writer, seen, clean, writes, faults>>

-----------------------------------------------------------------------------
(* export_to_legacy *)

\* The store is read once.
StartExport ==
  /\ tool = NoTool
  /\ tool' = [op |-> "tasks", snap |-> Disk]
  /\ UNCHANGED <<disk, ver, writer, seen, clean, writes, faults>>

\* Task files for the cards that have none; they carry no status.
ExportTasks ==
  /\ tool.op = "tasks"
  /\ task' = [c \in Cards |-> IF task[c] = "none" /\ c \in tool.snap.cards.core
                              THEN "plain" ELSE task[c]]
  /\ tool' = [op |-> "agents", snap |-> tool.snap, todo |-> Names]
  /\ UNCHANGED <<core, store, agent, patch, index, ver, writer, seen, clean, writes, faults>>

\* The agent file the export gives a: a card without an owner is held by Exporter, and
\* only the first card in progress is the current one.
Exported(d, a) ==
  LET mine(cols) == {c \in d.cards.core :
        LET k == d.cards.store[c] IN
        /\ ~k.voided /\ k.status \in cols
        /\ (IF k.owner = None THEN Exporter ELSE k.owner) = a}
      busy == {i \in DOMAIN CardList : CardList[i] \in mine({"doing", "review"})}
  IN [current |-> IF busy = {} THEN None ELSE CardList[Min(busy)],
      claimed |-> mine({"ready", "doing", "review"}), completed |-> mine({"done"})]

\* Fault: only the files of agents that own a card are rebuilt.
RebuiltIfOwner(d, a) == IF Exported(d, a) = NoHold THEN agent[a] ELSE Exported(d, a)

Rebuilt(d, a) == Exported(d, a)

\* The coord status of one agent file is replaced.
ExportAgent ==
  /\ tool.op = "agents" /\ tool.todo # <<>>
  /\ LET a == Head(tool.todo) IN agent' = [agent EXCEPT ![a] = Rebuilt(tool.snap, a)]
  /\ tool' = IF Len(tool.todo) = 1 THEN [op |-> "exported"] ELSE [tool EXCEPT !.todo = Tail(@)]
  /\ UNCHANGED <<task, core, store, patch, index, ver, writer, seen, clean, writes, faults>>

-----------------------------------------------------------------------------
\* A tool ends, runs into the deadline of a check, or dies.
End ==
  /\ tool.op \in {"reconciled", "imported", "exported", "parity"}
  /\ tool' = NoTool /\ Quiet
  /\ UNCHANGED <<disk, writer, writes, faults>>

Crash ==
  /\ tool.op \in {"append", "tasks", "agents"} /\ faults < MaxFaults /\ faults' = faults + 1
  /\ tool' = NoTool /\ Quiet
  /\ UNCHANGED <<disk, writer, writes>>

Others ==
  \/ Mirror \/ LoseMirror
  \/ \E c \in Cards : Overlay(c) \/ ArchiveTask(c) \/ StoreOnly(c) \/
       \E a \in Agents \ {Exporter} : Mutate(a, c)

Next ==
  \/ Others \/ StartParity \/ ReadFile \/ Report \/ Reconcile \/ StartImport \/ AppendNext
  \/ Appended \/ StartExport \/ ExportTasks \/ ExportAgent \/ End \/ Crash

Spec == Init /\ [][Next]_vars

-----------------------------------------------------------------------------
(* Properties *)

\* A check gives a verdict only about two sides that were on disk at one and the same
\* moment, although it reads file after file while others write.
SnapshotReal == tool.op = "verdict" => tool.got \in seen

\* "A second run finds no diffs": when nobody else writes, a completed reconciliation
\* leaves no difference but in the cards it skipped.
ReconcileConverges ==
  tool.op = "reconciled" /\ clean =>
    \A c \in Compared(Disk) \ tool.skipped : Diff(Disk, c) = {}

\* When nobody else writes, a card that an import brings in is what the legacy board
\* shows, in column, owner and archival.  (A card whose import died half way has a core,
\* and the next import skips it.)
ImportFaithful ==
  tool.op = "imported" /\ clean =>
    \A c \in Cards \ tool.skipped : task[c] # "none" =>
      LET l == LegacyCard(Disk, c) IN
      /\ c \in core
      /\ <<store[c].status, store[c].owner, store[c].archived>> = <<l.status, l.owner, l.archived>>

\* Both directions into the store, reconcile_from_legacy and import_from_legacy, leave it
\* as the legacy board says.
StoreFollowsLegacy == ReconcileConverges /\ ImportFaithful

\* When nobody else writes, an export, also one that repeats an interrupted one, leaves
\* every card that the overlay never touched in the store's bucket and with the
\* store's owner.  (Finished and open cards have no owner there.)
ExportFaithful ==
  tool.op = "exported" /\ clean =>
    \A c \in core : patch[c] = NoPatch /\ ~store[c].voided =>
      LET l == LegacyCard(Disk, c)  k == store[c] IN
      /\ task[c] # "none" /\ Bucket(l.status) = Bucket(k.status)
      /\ l.owner = IF Bucket(k.status) # "active" THEN None
                   ELSE IF k.owner = None THEN Exporter ELSE k.owner

\* "NEVER un-completes work": no correction moves a card out of done.  The code does not
\* keep this: a card may be completed after the snapshot was taken.
NeverUncompletes ==
  [][AppendNext /\ tool.for = "reconciled" =>
       \A c \in Cards : store[c].status = "done" => store'[c].status = "done"]_vars
=============================================================================
