---------------------------- MODULE StoreProofs ----------------------------
(***************************************************************************)
(* Proofs about the two components that read the fold of the card store    *)
(* from outside the board's locks: the maintenance tools (Migration) and   *)
(* the hosts that share a card by synchronised files (Replicas).           *)
(*                                                                         *)
(* Migration, for every list of cards and of agents and every bound on     *)
(* writes and crashes: MigrationInv is inductive.  Its parts follow a tool *)
(* through its run: Inventory for the two passes of the snapshot,          *)
(* Undisturbed for what it has in its hands while nobody else writes,      *)
(* CreatesFirst and Replayed for the events it still has to append,        *)
(* ExportDone for the files it still has to rebuild.                       *)
(*                                                                         *)
(* Replicas, for every finite set of agents and any number of rows and of  *)
(* timestamps: LogsInv is inductive.  What a host has is sorted into a     *)
(* chronicle (HistoryChronicle); facts about the fold of any chronicle,    *)
(* by induction on its rows, say what can become of one agent's claim.     *)
(***************************************************************************)
EXTENDS Migration, Replicas,
        SequenceTheorems, FiniteSetTheorems, WellFoundedInduction, TLAPS

-----------------------------------------------------------------------------
(* Types *)

Holds == [current : Cards \cup {None}, claimed : SUBSET Cards, completed : SUBSET Cards]

Patches == [col : Columns \cup {None}, set : BOOLEAN, owner : Agents \cup {None}]

\* Events of the log of a card, and those the tools append.
Events == [act : {"move", "assign", "unassign", "claim", "release_claim", "complete",
                  "archive", "reopen", "void"},
           who : Agents \cup {None}, rev : Revisions, col : Columns]

WellFormed(e) == e \in Events /\ (e.act = "claim" => e.who \in Agents)

WorkEvents == [act : {"create", "move", "assign", "unassign", "archive", "reopen"},
               who : Agents \cup {None}, rev : Revisions, col : Columns \cup {None}]

WorkEvent(e) == e \in WorkEvents /\ (e.act = "move" => e.col \in Columns)

Vers == [{"agents", "overlay", "cards"} -> Nat]

\* A copy of the disk has the types of the disk.
DiskOK(d) ==
  /\ d = [agents |-> d.agents, overlay |-> d.overlay, cards |-> d.cards]
  /\ d.overlay = [patch |-> d.overlay.patch, index |-> d.overlay.index]
  /\ d.cards = [core |-> d.cards.core, store |-> d.cards.store]
  /\ d.agents \in [Agents -> Holds] /\ d.overlay.patch \in [Cards -> Patches]
  /\ d.overlay.index \in SUBSET Cards /\ d.cards.core \in SUBSET Cards
  /\ d.cards.store \in [Cards -> CardStates]

Checking == {"parity", "verdict"}
Ended == {"reconciled", "imported"}

ToolOK ==
  /\ tool.op \in Checking \cup Ended \cup {"none", "append", "tasks", "agents", "exported"}
  /\ tool.op = "none" => tool = NoTool
  /\ tool.op \in Checking =>
       /\ tool = [op |-> tool.op, pass |-> tool.pass, at |-> tool.at, tries |-> tool.tries,
                  snap |-> tool.snap, got |-> tool.got]
       /\ tool.pass \in 1..Passes /\ tool.at \in 1..Len(Files)
       /\ tool.got \in Vers /\ DiskOK(tool.snap)
  /\ tool.op \in {"append"} \cup Ended =>
       /\ tool = [op |-> tool.op, for |-> tool.for, skipped |-> tool.skipped, todo |-> tool.todo]
       /\ tool.for \in Ended /\ tool.skipped \in SUBSET Cards
       /\ \A c \in Cards : /\ tool.todo[c] \in Seq(WorkEvents)
                           /\ \A i \in DOMAIN tool.todo[c] : WorkEvent(tool.todo[c][i])
       /\ DOMAIN tool.todo = Cards
       /\ tool.op \in Ended => tool.for = tool.op
  /\ tool.op = "tasks" => tool = [op |-> "tasks", snap |-> tool.snap] /\ DiskOK(tool.snap)
  /\ tool.op = "agents" =>
       /\ tool = [op |-> "agents", snap |-> tool.snap, todo |-> tool.todo]
       /\ DiskOK(tool.snap) /\ tool.todo \in Seq(Agents)
  /\ tool.op = "exported" => tool = [op |-> "exported"]

WriterOK ==
  \/ writer = None
  \/ /\ writer = [card |-> writer.card, e |-> writer.e]
     /\ writer.card \in core /\ WellFormed(writer.e) /\ writer.e.act # "void"

-----------------------------------------------------------------------------
(* The inductive invariant *)

\* Versions only grow.  In the second pass there is a moment, when the pass began, that
\* lies between what was copied and what is on disk, and the files the pass has looked at
\* were copied as they were then.
Moment(v) ==
  /\ \A f \in DOMAIN NoVer : tool.got[f] <= v[f] /\ v[f] <= ver[f]
  /\ \A i \in 1..(tool.at - 1) : tool.got[Files[i]] = v[Files[i]]

Inventory ==
  /\ ver \in Vers /\ seen \in SUBSET Vers
  /\ tool.op = "parity" =>
       /\ ver \in seen
       /\ \A f \in DOMAIN NoVer : tool.got[f] <= ver[f]
       /\ tool.pass = 2 => \E v \in seen : Moment(v)

\* A tool that nobody disturbs has read what is on disk.  A core never goes away.
Undisturbed ==
  /\ tool.op \in Checking => tool.snap.cards.core \subseteq core
  /\ tool = NoTool => clean
  /\ clean /\ tool.op \in Checking \cup {"tasks"} => tool.snap = Disk
  /\ clean /\ tool.op = "agents" => tool.snap.cards = Disk.cards

\* A card without a core has of the store what the overlay gives it.
Coreless ==
  \A c \in Cards :
    /\ store[c].voided => c \in core
    /\ c \notin core => /\ store[c].owner = IF patch[c].set THEN patch[c].owner ELSE None
                        /\ store[c].archived = (c \in index)

Acts(c) == {tool.todo[c][i].act : i \in DOMAIN tool.todo[c]}

\* An event that is due makes the card what legacy shows.
Fits(e, l) ==
  /\ e.act = "move" => e.col = l.status
  /\ e.act = "assign" => e.who = l.owner
  /\ e.act = "unassign" => l.owner = None
  /\ e.act = "archive" => l.archived
  /\ e.act = "reopen" => ~l.archived /\ e.col \in {l.status, None}

\* The cards the tool answers for.
Mine ==
  IF tool.for = "reconciled" THEN Compared(Disk) \ tool.skipped
  ELSE {c \in Cards \ tool.skipped : task[c] # "none"}

StatusRight(c) ==
  LET l == LegacyCard(Disk, c)  k == store[c] IN
  IF tool.for = "imported" THEN k.status = l.status
  ELSE task[c] = "status" => Bucket(l.status) = Bucket(k.status)

\* What is not right yet is due.
Promised(c) ==
  LET l == LegacyCard(Disk, c)  k == store[c] IN
  /\ \A i \in DOMAIN tool.todo[c] : Fits(tool.todo[c][i], l)
  /\ StatusRight(c) \/ "move" \in Acts(c)
  /\ k.owner = l.owner \/ Acts(c) \cap {"assign", "unassign"} # {}
  /\ k.archived = l.archived \/ Acts(c) \cap {"archive", "reopen"} # {}
  /\ tool.for = "imported" => c \in core \/ "create" \in Acts(c)

\* A core is created first, and only for a card that had none.
CreatesFirst ==
  tool.op = "append" =>
    \A c \in Cards :
      /\ tool.for = "reconciled" => "create" \notin Acts(c)
      /\ \A i \in DOMAIN tool.todo[c] : tool.todo[c][i].act = "create" => i = 1
      /\ "create" \in Acts(c) /\ c \in core => c \in tool.skipped
      /\ tool.todo[c] # <<>> => c \in core \/ "create" \in Acts(c)

Replayed ==
  /\ tool.op \in {"append"} \cup Ended /\ clean => \A c \in Mine : Promised(c)
  /\ tool.op \in Ended => \A c \in Cards : tool.todo[c] = <<>>

\* Task files for every core; agent files rebuilt one after the other.
ExportDone ==
  clean =>
    /\ tool.op \in {"agents", "exported"} => \A c \in core : task[c] # "none"
    /\ tool.op = "agents" =>
         \A a \in Agents : \/ agent[a] = Exported(tool.snap, a)
                           \/ \E i \in DOMAIN tool.todo : tool.todo[i] = a
    /\ tool.op = "exported" => \A a \in Agents : agent[a] = Exported(Disk, a)

MigrationInv ==
  /\ TypeOK /\ ToolOK /\ WriterOK
  /\ Inventory /\ SnapshotReal /\ Undisturbed /\ Coreless
  /\ CreatesFirst /\ Replayed /\ ExportDone

-----------------------------------------------------------------------------
(* Least and greatest indices *)

LEMMA LeastNumber ==
  ASSUME NEW T \in SUBSET Nat, T # {}
  PROVE  \E n \in T : \A m \in T : n <= m
<1> DEFINE Less == OpToRel(<, Nat)
<1>1. Less = {ss \in Nat \X Nat : ss[1] < ss[2]}
  BY DEF OpToRel
<1>2. IsWellFoundedOn(Less, Nat)
  BY NatLessThanWellFounded
<1> HIDE DEF Less
<1>3. PICK n \in T : \A m \in T : ~ (<<m, n>> \in Less)
  BY <1>2, WFMin, Zenon
<1>4. \A m \in T : m \in Nat /\ n \in Nat /\ ~(m < n)
  BY <1>1, <1>3
<1>5. \A m \in T : n <= m
  BY <1>4
<1> QED BY <1>5

\* The first of a set of indices is one of them, and so is the last.
LEMMA MinIn == ASSUME NEW T \in SUBSET Nat, T # {} PROVE Min(T) \in T
<1>1. PICK n \in T : \A m \in T : n <= m
  BY LeastNumber
<1>2. \E x \in T : \A y \in T : x =< y
  BY <1>1
<1> QED BY <1>2 DEF Min

LEMMA MaxIn ==
  ASSUME NEW n \in Nat, NEW T \in SUBSET (1..n), T # {} PROVE Max(T) \in T
<1> DEFINE D == {n - x : x \in T}
<1>1. D \in SUBSET Nat /\ D # {}
  <2>1. \A x \in T : x \in 1..n /\ n - x \in Nat
    OBVIOUS
  <2> QED BY <2>1
<1> HIDE DEF D
<1>2. PICK k \in D : \A m \in D : k <= m
  BY <1>1, LeastNumber
<1>3. PICK x \in T : k = n - x
  BY <1>2 DEF D
<1>4. \A y \in T : n - x <= n - y
  BY <1>2, <1>3 DEF D
<1>5. \A y \in T : x >= y
  BY <1>4
<1>6. \E z \in T : \A y \in T : z >= y
  BY <1>5
<1> QED BY <1>6 DEF Max

LEMMA CardIndices ==
  /\ DOMAIN CardList = 1..Len(CardList) /\ Len(CardList) \in Nat
  /\ \A i \in DOMAIN CardList : CardList[i] \in Cards
  /\ \A c \in Cards : \E i \in DOMAIN CardList : CardList[i] = c
BY NamesAssumption DEF Cards

LEMMA NameIndices ==
  /\ DOMAIN Names = 1..Len(Names) /\ Len(Names) \in Nat
  /\ \A i \in DOMAIN Names : Names[i] \in Agents
  /\ \A a \in Agents : \E i \in DOMAIN Names : Names[i] = a
BY NamesAssumption

-----------------------------------------------------------------------------
(* The fold and the two sides keep their types *)

LEMMA ApplyClaimType ==
  ASSUME NEW k \in CardStates, NEW a \in Agents, NEW r \in Revisions
  PROVE  ApplyClaim(k, a, r) \in CardStates
<1>1. CASE ClaimCollides(k, a)
  <2>1. k.owner \in Agents
    BY <1>1 DEF ClaimCollides, CardStates
  <2>2. ClaimConflict(k, a, r) \in Conflicts
    BY <2>1 DEF ClaimConflict, Conflicts, CardStates
  <2> QED
    BY <1>1, <2>2 DEF ApplyClaim, CardStates
<1>2. CASE ~ClaimCollides(k, a)
  BY <1>2 DEF ApplyClaim, CardStates, Columns, Revisions
<1> QED
  BY <1>1, <1>2

LEMMA ApplyReleaseType ==
  ASSUME NEW k \in CardStates, NEW a, NEW r \in Revisions
  PROVE  ApplyRelease(k, a, r) \in CardStates
<1>1. k.conflicts \ MatchingConflicts(k, a, r) \in SUBSET Conflicts
  BY DEF CardStates
<1> QED
  BY <1>1 DEF ApplyRelease, CardStates, Columns, Revisions, NoRev

LEMMA ApplyType ==
  ASSUME NEW k \in CardStates, NEW e, WellFormed(e)
  PROVE  /\ Apply(k, e) \in CardStates
         /\ e.act # "void" => Apply(k, e).voided = k.voided
<1>1. /\ e.act = "claim" => ApplyClaim(k, e.who, e.rev) \in CardStates
      /\ ApplyClaim(k, e.who, e.rev).voided = k.voided
  BY ApplyClaimType DEF WellFormed, Events, ApplyClaim, CardStates
<1>2. /\ ApplyRelease(k, e.who, e.rev) \in CardStates
      /\ ApplyRelease(k, e.who, e.rev).voided = k.voided
  BY ApplyReleaseType DEF WellFormed, Events, ApplyRelease, CardStates
<1>3. e.who \in Agents \cup {None} /\ e.col \in Columns
  BY DEF WellFormed, Events
<1>4. /\ ApplyVoid(k) \in CardStates /\ ApplyComplete(k) \in CardStates
      /\ ApplyComplete(k).voided = k.voided
  BY DEF ApplyVoid, ApplyComplete, CardStates, Columns, Revisions, NoRev
<1>5. /\ ApplyAssign(k, e.who) \in CardStates /\ ApplyAssign(k, None) \in CardStates
      /\ ApplyAssign(k, e.who).voided = k.voided /\ ApplyAssign(k, None).voided = k.voided
  BY <1>3 DEF ApplyAssign, CardStates, Revisions, NoRev
<1> QED
  BY <1>1, <1>2, <1>3, <1>4, <1>5 DEF Apply, CardStates

\* What one event of a tool does to a card that takes it.
LEMMA CorrectEffect ==
  ASSUME NEW k \in CardStates, NEW e, WorkEvent(e), e.act # "create",
         ~(k.voided /\ e.act \in VoidTerminalActions)
  PROVE  LET n == Correct(k, e) IN
         /\ n \in CardStates
         /\ n.voided = k.voided
         /\ n.status = IF e.act = "move" \/ (e.act = "reopen" /\ e.col # None)
                       THEN e.col ELSE k.status
         /\ n.owner = CASE e.act = "assign" -> e.who [] e.act = "unassign" -> None
                        [] OTHER -> k.owner
         /\ n.archived = CASE e.act = "archive" -> TRUE [] e.act = "reopen" -> FALSE
                           [] OTHER -> k.archived
<1>1. /\ e.act \in {"move", "assign", "unassign", "archive", "reopen"}
      /\ e.who \in Agents \cup {None} /\ e.col \in Columns \cup {None}
      /\ e.act = "move" => e.col \in Columns
      /\ e.act # "archive" => ~k.voided
  BY DEF WorkEvent, WorkEvents, VoidTerminalActions
<1>2. CASE e.act = "reopen" /\ e.col = None
  BY <1>1, <1>2 DEF Correct, CardStates
<1>3. CASE e.act = "reopen" /\ e.col # None
  BY <1>1, <1>3 DEF Correct, Apply, CardStates, VoidTerminalActions
<1>4. CASE e.act = "move"
  BY <1>1, <1>4 DEF Correct, Apply, CardStates, VoidTerminalActions
<1>5. CASE e.act = "assign"
  BY <1>1, <1>5 DEF Correct, Apply, ApplyAssign, CardStates, VoidTerminalActions, Revisions, NoRev
<1>6. CASE e.act = "unassign"
  BY <1>1, <1>6 DEF Correct, Apply, ApplyAssign, CardStates, VoidTerminalActions, Revisions, NoRev
<1>7. CASE e.act = "archive"
  BY <1>1, <1>7 DEF Correct, Apply, CardStates, VoidTerminalActions
<1> QED
  BY <1>1, <1>2, <1>3, <1>4, <1>5, <1>6, <1>7

LEMMA ViewOwnerType ==
  ASSUME NEW d, NEW c PROVE ViewOwner(d, c) \in Agents \cup {None}
<1> DEFINE holders == {i \in DOMAIN Names : c \in Held(d.agents[Names[i]])}
<1>1. holders # {} => Max(holders) \in holders
  <2>1. holders \in SUBSET (1..Len(Names)) /\ Len(Names) \in Nat
    BY NameIndices
  <2> QED BY <2>1, MaxIn
<1>2. ViewOwner(d, c) = IF holders = {} THEN None ELSE Names[Max(holders)]
  BY DEF ViewOwner
<1> HIDE DEF holders
<1>3. holders \subseteq DOMAIN Names
  BY DEF holders
<1> QED
  BY <1>1, <1>2, <1>3, NameIndices

LEMMA LegacyType ==
  ASSUME NEW d, DiskOK(d), NEW c \in Cards
  PROVE  /\ LegacyCard(d, c).status \in Columns
         /\ LegacyCard(d, c).owner \in Agents \cup {None}
         /\ LegacyCard(d, c).archived \in BOOLEAN
<1>1. ViewStatus(d, c) \in Columns
  BY DEF ViewStatus, Columns
<1>2. d.overlay.patch[c] \in Patches /\ d.cards.store[c] \in CardStates
  BY DEF DiskOK
<1> QED
  BY <1>1, <1>2, ViewOwnerType DEF LegacyCard, Patches, CardStates

LEMMA DiskType == ASSUME TypeOK PROVE DiskOK(Disk)
BY DEF TypeOK, DiskOK, Disk, Holds, Patches

LEMMA ExportedType ==
  ASSUME NEW d, DiskOK(d), NEW a \in Agents PROVE Exported(d, a) \in Holds
<1> DEFINE mine(cols) == {c \in d.cards.core :
             LET k == d.cards.store[c] IN
             /\ ~k.voided /\ k.status \in cols
             /\ (IF k.owner = None THEN Exporter ELSE k.owner) = a}
           busy == {i \in DOMAIN CardList : CardList[i] \in mine({"doing", "review"})}
<1>1. busy # {} => Min(busy) \in busy
  <2>1. busy \in SUBSET Nat
    BY CardIndices
  <2> QED BY <2>1, MinIn
<1>2. Exported(d, a) =
        [current |-> IF busy = {} THEN None ELSE CardList[Min(busy)],
         claimed |-> mine({"ready", "doing", "review"}), completed |-> mine({"done"})]
  BY DEF Exported
<1>3. mine({"ready", "doing", "review"}) \in SUBSET Cards /\ mine({"done"}) \in SUBSET Cards
  BY DEF DiskOK
<1>4. \A i \in busy : CardList[i] \in Cards
  BY CardIndices
<1> HIDE DEF mine, busy
<1> QED
  BY <1>1, <1>2, <1>3, <1>4 DEF Holds

-----------------------------------------------------------------------------
(* The initial state, and the steps of other processes *)

LEMMA InitInv == Init => MigrationInv
<1> SUFFICES ASSUME Init PROVE MigrationInv
  OBVIOUS
<1>1. NewCard \in CardStates /\ NewCard.owner = None /\ NewCard.archived = FALSE
      /\ NewCard.voided = FALSE
  BY DEF NewCard, CardStates, Columns, Revisions, NoRev
<1>2. NoPatch \in Patches /\ ~NoPatch.set
  BY DEF NoPatch, Patches
<1>3. agent \in [Agents -> Holds]
  <2>1. PICK a \in Agents \ {Exporter}, h \in {"open", "held", "done"} :
          agent = [b \in Agents |-> IF b # a THEN NoHold
                     ELSE [NoHold EXCEPT !.claimed = IF h = "held" THEN Cards \ core ELSE {},
                                         !.completed = IF h = "done" THEN Cards \ core ELSE {}]]
    BY DEF Init
  <2>2. NoHold \in Holds
    BY DEF NoHold, Holds
  <2>3. [NoHold EXCEPT !.claimed = IF h = "held" THEN Cards \ core ELSE {},
                       !.completed = IF h = "done" THEN Cards \ core ELSE {}] \in Holds
    BY DEF NoHold, Holds
  <2> QED BY <2>1, <2>2, <2>3
<1>4. task \in [Cards -> {"none", "plain", "status"}] /\ core \in SUBSET Cards
  <2>1. PICK c \in Cards, there \in {<<"none", TRUE>>, <<"plain", TRUE>>, <<"status", TRUE>>,
                                     <<"plain", FALSE>>} :
          /\ task = [d \in Cards |-> IF d = c THEN there[1] ELSE "plain"]
          /\ core = {d \in Cards : d = c => there[2]}
    BY DEF Init
  <2>2. /\ <<"none", TRUE>>[1] = "none" /\ <<"plain", TRUE>>[1] = "plain"
        /\ <<"status", TRUE>>[1] = "status" /\ <<"plain", FALSE>>[1] = "plain"
    OBVIOUS
  <2>3. there[1] \in {"none", "plain", "status"}
    BY <2>2, Zenon
  <2> QED BY <2>1, <2>3
<1>5. ver \in Vers /\ DOMAIN ver = DOMAIN NoVer /\ \A f \in DOMAIN ver : ver[f] \in Nat
  BY DEF Init, NoVer, Vers
<1>6. tool.op = "none" /\ tool = NoTool /\ clean = TRUE /\ seen = {} /\ writer = None
  BY DEF Init, NoTool
<1>7. TypeOK
  BY <1>1, <1>2, <1>3, <1>4, <1>5 DEF Init, TypeOK, Holds, Patches
<1>8. ToolOK /\ WriterOK /\ SnapshotReal /\ Undisturbed /\ CreatesFirst /\ Replayed /\ ExportDone
  BY <1>6 DEF ToolOK, WriterOK, SnapshotReal, Undisturbed, CreatesFirst, Replayed, ExportDone,
              Checking, Ended
<1>9. Inventory
  BY <1>5, <1>6 DEF Inventory
<1>10. Coreless
  <2>3. \A c \in Cards : store[c] = NewCard /\ patch[c] = NoPatch
    BY DEF Init
  <2>2. ASSUME NEW c \in Cards PROVE (c \in index) = FALSE
    <3>1. index = {}
      BY DEF Init
    <3> QED BY <3>1
  <2>1. \A c \in Cards : store[c] = NewCard /\ patch[c] = NoPatch /\ (c \in index) = FALSE
    BY <2>2, <2>3
  <2> QED BY <1>1, <1>2, <2>1 DEF Coreless
<1> QED
  BY <1>7, <1>8, <1>9, <1>10 DEF MigrationInv

\* What every step of another process leaves alone.
LEMMA OthersShape ==
  ASSUME Others
  PROVE  /\ UNCHANGED <<task, core, tool>>
         /\ \/ \E f \in DOMAIN NoVer : Disturbs(f)
            \/ UNCHANGED <<disk, ver, seen, clean>>
<1>1. {"agents", "overlay", "cards"} = DOMAIN NoVer
  BY DEF NoVer
<1>2. CASE Mirror
  BY <1>1, <1>2 DEF Mirror
<1>3. CASE LoseMirror
  BY <1>3 DEF LoseMirror, disk
<1>4. CASE \E c \in Cards : \/ Overlay(c) \/ ArchiveTask(c) \/ StoreOnly(c)
                            \/ \E a \in Agents \ {Exporter} : Mutate(a, c)
  BY <1>1, <1>4 DEF Overlay, ArchiveTask, StoreOnly, Mutate, Wrote
<1> QED
  BY <1>2, <1>3, <1>4 DEF Others

\* Legacy's view of a card, and what is promised of it, go by what is on disk.
LEMMA LegacyStable ==
  ASSUME UNCHANGED Disk, NEW c PROVE LegacyCard(Disk, c)' = LegacyCard(Disk, c)
BY DEF LegacyCard, ViewStatus, ViewOwner, Held

LEMMA ReplayedStable ==
  ASSUME UNCHANGED <<Disk, task, store, core, tool, clean>>, Replayed PROVE Replayed'
<1>1. Mine' = Mine
  BY DEF Mine, Compared
<1>2. ASSUME NEW c \in Cards, Promised(c) PROVE Promised(c)'
  <2>1. LegacyCard(Disk, c)' = LegacyCard(Disk, c)
    BY LegacyStable
  <2>2. StatusRight(c)' = StatusRight(c) /\ Acts(c)' = Acts(c)
    BY <2>1 DEF StatusRight, Acts
  <2> QED
    BY <1>2, <2>1, <2>2 DEF Promised
<1>3. Mine \subseteq Cards
  BY DEF Mine, Compared
<1> QED
  BY <1>1, <1>2, <1>3 DEF Replayed

LEMMA ExportStable ==
  ASSUME UNCHANGED <<Disk, task, core, agent, tool, clean>>, ExportDone PROVE ExportDone'
<1>1. ASSUME NEW a \in Agents
      PROVE  /\ Exported(Disk, a)' = Exported(Disk, a)
             /\ Exported(tool.snap, a)' = Exported(tool.snap, a)
  BY DEF Exported
<1> QED
  BY <1>1 DEF ExportDone

\* They disturb the tool or leave it as it is.
LEMMA OthersTool ==
  ASSUME MigrationInv, Others
  PROVE  /\ ver' \in Vers /\ clean' \in BOOLEAN
         /\ ToolOK' /\ Inventory' /\ SnapshotReal' /\ Undisturbed'
         /\ CreatesFirst' /\ Replayed' /\ ExportDone'
<1>1. UNCHANGED <<task, core, tool>>
  BY OthersShape
<1>2. ToolOK'
  BY <1>1 DEF MigrationInv, ToolOK, DiskOK
<1>3. CreatesFirst'
  BY <1>1 DEF MigrationInv, CreatesFirst, Acts
<1>4. CASE UNCHANGED <<disk, ver, seen, clean>>
  <2>1. UNCHANGED <<task, core, store, agent, patch, index>>
    BY <1>4 DEF disk
  <2>2. Disk' = Disk
    BY <2>1 DEF Disk
  <2>3. Inventory' /\ SnapshotReal'
    BY <1>1, <1>4 DEF MigrationInv, Inventory, SnapshotReal, Moment
  <2>4. Undisturbed'
    BY <1>1, <1>4, <2>2 DEF MigrationInv, Undisturbed
  <2>5. Replayed'
    BY <1>1, <1>4, <2>1, <2>2, ReplayedStable DEF MigrationInv
  <2>6. ExportDone'
    BY <1>1, <1>4, <2>1, <2>2, ExportStable DEF MigrationInv
  <2> QED
    BY <1>2, <1>3, <1>4, <2>3, <2>4, <2>5, <2>6 DEF MigrationInv, TypeOK, Inventory
<1>5. ASSUME NEW f \in DOMAIN NoVer, Disturbs(f) PROVE ver' \in Vers /\ clean' \in BOOLEAN
         /\ Inventory' /\ SnapshotReal' /\ Undisturbed' /\ Replayed' /\ ExportDone'
  <2>1. clean' = (tool = NoTool)
    BY <1>5 DEF Disturbs
  <2>2. ver \in Vers /\ seen \in SUBSET Vers /\ DOMAIN NoVer = {"agents", "overlay", "cards"}
    BY DEF MigrationInv, Inventory, NoVer
  <2>8. clean' => tool'.op = "none"
    <3>1. clean' => tool = NoTool
      BY <2>1
    <3>2. NoTool.op = "none" /\ tool' = tool
      BY <1>1 DEF NoTool
    <3> QED BY <3>1, <3>2
  <2>3. Undisturbed'
    BY <1>1, <2>1, <2>8 DEF MigrationInv, Undisturbed, Checking
  <2>4. Replayed'
    <3>1. tool.op \in Ended => \A c \in Cards : tool.todo[c] = <<>>
      BY DEF MigrationInv, Replayed
    <3> QED
      BY <1>1, <2>8, <3>1 DEF Replayed, Ended
  <2>5. ExportDone'
    BY <1>1, <2>8 DEF ExportDone
  <2>6. CASE tool.op # "parity"
    <3>1. ver' = ver /\ seen' = seen
      BY <1>5, <2>6 DEF Disturbs
    <3> QED
      BY <1>1, <2>1, <2>2, <2>3, <2>4, <2>5, <2>6, <3>1 DEF MigrationInv, Inventory, SnapshotReal
  <2>7. CASE tool.op = "parity"
    <3>1. ver' = [ver EXCEPT ![f] = @ + 1] /\ seen' = seen \cup {ver'}
      BY <1>5, <2>7 DEF Disturbs
    <3>2. ver' \in Vers /\ \A g \in DOMAIN NoVer : ver[g] \in Nat /\ ver[g] <= ver'[g]
      BY <2>2, <3>1 DEF Vers
    <3>3. /\ tool.got \in Vers /\ \A g \in DOMAIN NoVer : tool.got[g] <= ver[g]
          /\ tool.pass = 2 => \E v \in seen : Moment(v)
      BY <2>7 DEF MigrationInv, Inventory, ToolOK, Checking
    <3>4. \A g \in DOMAIN NoVer : tool.got[g] \in Nat /\ tool.got[g] <= ver'[g]
      BY <2>2, <3>2, <3>3 DEF Vers
    <3>5. ASSUME NEW v \in seen, Moment(v) PROVE Moment(v)'
      <4>1. \A g \in DOMAIN NoVer : v[g] \in Nat /\ tool.got[g] <= v[g] /\ v[g] <= ver[g]
        BY <2>2, <3>5 DEF Moment, Vers
      <4>2. \A g \in DOMAIN NoVer : v[g] <= ver'[g] /\ ver'[g] \in Nat
        BY <3>2, <4>1, <2>2 DEF Vers
      <4> QED
        BY <1>1, <3>5, <4>1, <4>2 DEF Moment
    <3>6. Inventory'
      BY <1>1, <2>2, <3>1, <3>2, <3>3, <3>4, <3>5 DEF Inventory
    <3> QED
      BY <1>1, <2>1, <2>3, <2>4, <2>5, <2>7, <3>2, <3>6 DEF SnapshotReal
  <2> QED
    BY <2>6, <2>7
<1> QED
  BY <1>2, <1>3, <1>4, <1>5, OthersShape

\* They append well-formed events, and a core is never touched.
LEMMA OthersDisk ==
  ASSUME MigrationInv, Others, ver' \in Vers, clean' \in BOOLEAN
  PROVE  TypeOK' /\ WriterOK' /\ Coreless'
<1> USE DEF MigrationInv
<1>1. UNCHANGED <<task, core, tool>>
  BY OthersShape
<1>2. DOMAIN ver' = DOMAIN NoVer /\ \A f \in DOMAIN ver' : ver'[f] \in Nat
  BY DEF Vers, NoVer
<1>3. CASE Mirror
  <2>1. /\ writer.card \in core /\ writer.card \in Cards
        /\ WellFormed(writer.e) /\ writer.e.act # "void"
        /\ store[writer.card] \in CardStates
    BY <1>3 DEF Mirror, WriterOK, TypeOK
  <2>2. /\ store' = [store EXCEPT ![writer.card] = Apply(@, writer.e)]
        /\ UNCHANGED <<agent, patch, index, writes, faults>> /\ writer' = None
    BY <1>3 DEF Mirror
  <2>3. /\ Apply(store[writer.card], writer.e) \in CardStates
        /\ Apply(store[writer.card], writer.e).voided = store[writer.card].voided
    BY <2>1, ApplyType
  <2>4. TypeOK'
    BY <1>1, <1>2, <2>1, <2>2, <2>3 DEF TypeOK
  <2> QED
    BY <1>1, <2>1, <2>2, <2>3, <2>4 DEF Coreless, WriterOK, TypeOK
<1>4. CASE LoseMirror
  BY <1>1, <1>2, <1>4 DEF LoseMirror, disk, TypeOK, WriterOK, Coreless
<1>5. ASSUME NEW c \in Cards, Overlay(c) PROVE TypeOK' /\ WriterOK' /\ Coreless'
  <2>1. UNCHANGED <<agent, index, writer, faults>> /\ writes' = writes + 1
    BY <1>5 DEF Overlay, Wrote
  <2>2. PICK col \in {"review", "done"}, a \in (Agents \ {Exporter}) \cup {None} :
       \/ /\ patch' = [patch EXCEPT ![c].col = col]
          /\ store' = [store EXCEPT ![c] = Apply(@, MoveEvent(col))]
       \/ /\ patch' = [patch EXCEPT ![c].set = TRUE, ![c].owner = a]
          /\ store' = [store EXCEPT ![c] = Apply(@, OwnerEvent(a))]
    BY <1>5 DEF Overlay
  <2>3. patch[c] \in Patches /\ store[c] \in CardStates
    BY DEF TypeOK, Patches
  <2>4. WellFormed(MoveEvent(col)) /\ WellFormed(OwnerEvent(a))
    BY DEF WellFormed, Events, MoveEvent, OwnerEvent, AssignEvent, UnassignEvent, Event, Columns,
           Revisions, NoRev
  <2>5. /\ Apply(store[c], MoveEvent(col)) \in CardStates
        /\ Apply(store[c], OwnerEvent(a)) \in CardStates
        /\ Apply(store[c], MoveEvent(col)).voided = store[c].voided
        /\ Apply(store[c], OwnerEvent(a)).voided = store[c].voided
    BY <2>3, <2>4, ApplyType DEF MoveEvent, OwnerEvent, AssignEvent, UnassignEvent, Event
  <2>6. ~store[c].voided =>
          /\ Apply(store[c], MoveEvent(col)).owner = store[c].owner
          /\ Apply(store[c], MoveEvent(col)).archived = store[c].archived
          /\ Apply(store[c], OwnerEvent(a)).owner = a
          /\ Apply(store[c], OwnerEvent(a)).archived = store[c].archived
    BY <2>3 DEF Apply, ApplyAssign, MoveEvent, OwnerEvent, AssignEvent, UnassignEvent, Event, CardStates
  <2>7. TypeOK'
    <3>1. patch' \in [Cards -> Patches]
      <4>1. patch \in [Cards -> Patches] /\ a \in Agents \cup {None} /\ col \in Columns
        BY DEF TypeOK, Patches, Columns
      <4>2. [patch[c] EXCEPT !.col = col] \in Patches
        BY <2>3, <4>1 DEF Patches
      <4>3. [patch[c] EXCEPT !.set = TRUE, !.owner = a] \in Patches
        BY <2>3, <4>1 DEF Patches
      <4>4. CASE patch' = [patch EXCEPT ![c].col = col]
        <5>1. patch' = [patch EXCEPT ![c] = [patch[c] EXCEPT !.col = col]]
          BY <4>1, <4>4
        <5> QED BY <4>1, <4>2, <5>1
      <4>5. CASE patch' = [patch EXCEPT ![c].set = TRUE, ![c].owner = a]
        <5>1. patch' = [patch EXCEPT ![c] = [patch[c] EXCEPT !.set = TRUE, !.owner = a]]
          BY <4>1, <4>5
        <5> QED BY <4>1, <4>3, <5>1
      <4> QED
        BY <2>2, <4>4, <4>5
    <3>2. store' \in [Cards -> CardStates]
      BY <2>2, <2>3, <2>5 DEF TypeOK
    <3> QED BY <1>1, <1>2, <2>1, <3>1, <3>2 DEF TypeOK, Patches
  <2>8. Coreless'
    <3> SUFFICES ASSUME NEW b \in Cards
          PROVE  /\ store'[b].voided => b \in core'
                 /\ b \notin core' =>
                      /\ store'[b].owner = IF patch'[b].set THEN patch'[b].owner ELSE None
                      /\ store'[b].archived = (b \in index')
      BY DEF Coreless
    <3>1. CASE b # c
      <4>1. store'[b] = store[b] /\ patch'[b] = patch[b]
        BY <2>2, <3>1 DEF TypeOK
      <4> QED
        BY <1>1, <2>1, <4>1 DEF Coreless
    <3>2. CASE b = c
      <4>1. \/ patch'[c] = [patch[c] EXCEPT !.col = col] /\ store'[c] = Apply(store[c], MoveEvent(col))
            \/ /\ patch'[c] = [patch[c] EXCEPT !.set = TRUE, !.owner = a]
               /\ store'[c] = Apply(store[c], OwnerEvent(a))
        BY <2>2 DEF TypeOK
      <4>2. \/ patch'[c].set = patch[c].set /\ patch'[c].owner = patch[c].owner
               /\ store'[c] = Apply(store[c], MoveEvent(col))
            \/ /\ patch'[c].set /\ patch'[c].owner = a
               /\ store'[c] = Apply(store[c], OwnerEvent(a))
        BY <2>3, <4>1 DEF Patches
      <4> QED
        BY <1>1, <2>1, <2>5, <2>6, <3>2, <4>2 DEF Coreless
    <3> QED
      BY <3>1, <3>2
  <2> QED
    BY <1>1, <2>1, <2>7, <2>8 DEF WriterOK
<1>6. ASSUME NEW c \in Cards, ArchiveTask(c) PROVE TypeOK' /\ WriterOK' /\ Coreless'
  <2>1. /\ UNCHANGED <<agent, patch, writer, faults>> /\ writes' = writes + 1
        /\ index' = index \cup {c} /\ store' = [store EXCEPT ![c] = Apply(@, ArchiveEvent)]
    BY <1>6 DEF ArchiveTask, Wrote
  <2>2. store[c] \in CardStates
    BY DEF TypeOK
  <2>3. Apply(store[c], ArchiveEvent) = [store[c] EXCEPT !.archived = TRUE]
    BY DEF Apply, ArchiveEvent, Event, VoidTerminalActions
  <2>4. [store[c] EXCEPT !.archived = TRUE] \in CardStates
    BY <2>2 DEF CardStates
  <2>5. TypeOK'
    BY <1>1, <1>2, <2>1, <2>3, <2>4 DEF TypeOK
  <2>6. WriterOK'
    BY <1>1, <2>1 DEF WriterOK
  <2>7. ASSUME NEW b \in Cards
        PROVE  /\ store'[b].voided = store[b].voided /\ store'[b].owner = store[b].owner
               /\ b # c => store'[b] = store[b]
               /\ b = c => store'[b].archived = TRUE
    BY <2>1, <2>2, <2>3 DEF TypeOK, CardStates
  <2>8. Coreless'
    <3>1. ASSUME NEW b \in Cards, b \notin core
          PROVE  /\ store'[b].owner = IF patch'[b].set THEN patch'[b].owner ELSE None
                 /\ store'[b].archived = (b \in index')
      <4>1. store[b].archived = (b \in index)
        BY <3>1 DEF Coreless
      <4>2. CASE b = c
        <5>1. (b \in index') = TRUE
          BY <2>1, <4>2
        <5> QED BY <2>1, <2>7, <3>1, <4>2, <5>1 DEF Coreless
      <4>3. CASE b # c
        <5>1. (b \in index') = (b \in index)
          BY <2>1, <4>3
        <5> QED BY <2>1, <2>7, <3>1, <4>1, <4>3, <5>1 DEF Coreless
      <4> QED BY <4>2, <4>3
    <3> QED
      BY <1>1, <2>7, <3>1 DEF Coreless
  <2> QED
    BY <2>5, <2>6, <2>8
<1>7. ASSUME NEW c \in Cards, StoreOnly(c) PROVE TypeOK' /\ WriterOK' /\ Coreless'
  <2>1. /\ UNCHANGED <<agent, patch, index, writer, faults>> /\ writes' = writes + 1 /\ c \in core
    BY <1>7 DEF StoreOnly, Wrote
  <2>2. PICK e \in {MoveEvent("ready"), VoidEvent, ReopenEvent("backlog")} :
          store' = [store EXCEPT ![c] = Apply(@, e)]
    BY <1>7 DEF StoreOnly
  <2>3. WellFormed(e)
    BY DEF WellFormed, Events, MoveEvent, VoidEvent, ReopenEvent, Event, Columns, Revisions, NoRev
  <2>4. store[c] \in CardStates /\ Apply(store[c], e) \in CardStates
    BY <2>3, ApplyType DEF TypeOK
  <2>5. TypeOK'
    BY <1>1, <1>2, <2>1, <2>2, <2>4 DEF TypeOK
  <2> QED
    BY <1>1, <2>1, <2>2, <2>5 DEF WriterOK, Coreless, TypeOK
<1>8. ASSUME NEW c \in Cards, NEW a \in Agents \ {Exporter}, Mutate(a, c)
      PROVE  TypeOK' /\ WriterOK' /\ Coreless'
  <2>1. /\ UNCHANGED <<store, patch, index, faults>> /\ writes' = writes + 1 /\ c \in core
    BY <1>8 DEF Mutate, Wrote
  <2>2. PICK k \in {"claim", "complete", "release"} :
       /\ writer' = [card |-> c, e |-> CASE k = "claim"    -> ClaimEvent(a, writes + 1)
                                         [] k = "complete" -> CompleteEvent
                                         [] k = "release"  -> ReleaseEvent(a, store[c].rev)]
       /\ agent' = [agent EXCEPT ![a] = Saved(@, k, c)]
    BY <1>8 DEF Mutate
  <2>3. writes \in Nat /\ writes + 1 \in Revisions /\ store[c].rev \in Revisions
    BY DEF TypeOK, CardStates, Revisions
  <2>4. /\ WellFormed(ClaimEvent(a, writes + 1)) /\ WellFormed(CompleteEvent)
        /\ WellFormed(ReleaseEvent(a, store[c].rev))
    BY <2>3 DEF WellFormed, Events, ClaimEvent, CompleteEvent, ReleaseEvent, Event, Columns,
                Revisions, NoRev
  <2>5. WriterOK'
    BY <1>1, <2>1, <2>2, <2>4 DEF WriterOK, ClaimEvent, CompleteEvent, ReleaseEvent, Event
  <2>6. agent' \in [Agents -> Holds]
    <3>1. agent \in [Agents -> Holds] /\ agent[a] \in Holds
      BY DEF TypeOK, Holds
    <3>2. Saved(agent[a], k, c) \in Holds
      BY <3>1 DEF Saved, Holds
    <3> QED
      BY <2>2, <3>1, <3>2
  <2>7. TypeOK'
    BY <1>1, <1>2, <2>1, <2>3, <2>6 DEF TypeOK, Holds
  <2> QED
    BY <1>1, <2>1, <2>5, <2>7 DEF Coreless
<1> QED
  BY <1>3, <1>4, <1>5, <1>6, <1>7, <1>8 DEF Others

-----------------------------------------------------------------------------
(* Steps of the tools that leave the disk alone *)

LEMMA DiskKept ==
  ASSUME MigrationInv, UNCHANGED <<task, core, store, agent, patch, index, writer, writes>>,
         faults' \in Nat, ver' \in Vers, clean' \in BOOLEAN
  PROVE  TypeOK' /\ WriterOK' /\ Coreless' /\ Disk' = Disk
<1>1. DOMAIN ver' = DOMAIN NoVer /\ \A f \in DOMAIN ver' : ver'[f] \in Nat
  BY DEF Vers, NoVer
<1>2. TypeOK' /\ WriterOK' /\ Disk' = Disk
  BY <1>1 DEF MigrationInv, TypeOK, WriterOK, Disk
<1>3. Coreless'
  BY DEF MigrationInv, Coreless
<1> QED
  BY <1>2, <1>3

LEMMA NoVerType == NoVer \in Vers /\ DOMAIN NoVer = {"agents", "overlay", "cards"}
BY DEF NoVer, Vers

\* Once no tool runs, nothing is promised.
LEMMA ToolEnds ==
  ASSUME tool' = NoTool, ver' \in Vers, seen' \in SUBSET Vers, clean' = TRUE
  PROVE  ToolOK' /\ Inventory' /\ SnapshotReal' /\ Undisturbed' /\ CreatesFirst' /\ Replayed'
         /\ ExportDone'
<1>1. tool'.op = "none"
  BY DEF NoTool
<1> QED
  BY <1>1 DEF ToolOK, Inventory, SnapshotReal, Undisturbed, CreatesFirst, Replayed, ExportDone,
              Checking, Ended

LEMMA StopInv ==
  ASSUME MigrationInv, tool' = NoTool, Quiet, UNCHANGED <<disk, writer, writes>>, faults' \in Nat
  PROVE  MigrationInv'
<1>1. UNCHANGED <<task, core, store, agent, patch, index, writer, writes>>
  BY DEF disk
<1>2. ver' \in Vers /\ seen' \in SUBSET Vers /\ clean' = TRUE /\ clean' \in BOOLEAN
  BY NoVerType DEF Quiet
<1> QED
  BY <1>1, <1>2, DiskKept, ToolEnds DEF MigrationInv

LEMMA FreshInv ==
  ASSUME MigrationInv, NEW n, Fresh(n), UNCHANGED <<disk, writer, writes, faults>>
  PROVE  MigrationInv'
<1>1. UNCHANGED <<task, core, store, agent, patch, index, writer, writes, faults>>
  BY DEF disk
<1>2. ver' = NoVer /\ seen' = {NoVer} /\ clean' = TRUE /\ ver' \in Vers
  BY NoVerType DEF Fresh
<1>3. faults' \in Nat
  BY <1>1 DEF MigrationInv, TypeOK
<1>4. TypeOK' /\ WriterOK' /\ Coreless' /\ Disk' = Disk
  BY <1>1, <1>2, <1>3, DiskKept
<1>5. tool' = [op |-> "parity", pass |-> 1, at |-> 1, tries |-> n, snap |-> Disk, got |-> NoVer]
  BY DEF Fresh
<1>6. DiskOK(Disk)
  BY DiskType DEF MigrationInv
<1>7. ToolOK'
  BY <1>5, <1>6, NoVerType DEF ToolOK, Checking, Ended, Passes, Files
<1>8. \A f \in DOMAIN NoVer : NoVer[f] <= NoVer[f]
  BY NoVerType DEF Vers
<1>9. Inventory' /\ SnapshotReal'
  BY <1>2, <1>5, <1>8, NoVerType DEF Inventory, SnapshotReal
<1>10. Undisturbed' /\ CreatesFirst' /\ Replayed' /\ ExportDone'
  <2>1. Disk.cards.core = core
    BY DEF Disk
  <2>2. tool'.op = "parity" /\ tool'.snap = Disk /\ core' = core
    BY <1>1, <1>5
  <2> QED
    BY <1>2, <1>4, <2>1, <2>2 DEF Undisturbed, CreatesFirst, Replayed, ExportDone, Checking, Ended
<1> QED
  BY <1>4, <1>7, <1>9, <1>10 DEF MigrationInv

\* The next file of a pass that goes on; the first pass copies what it reads.
LEMMA ReadNext ==
  ASSUME MigrationInv, ReadFile, ~Fresh(tool.tries + 1), ~(tool' = NoTool /\ Quiet)
  PROVE  MigrationInv'
<1> DEFINE f == Files[tool.at]
           after == IF tool.at < Len(Files) THEN [tool EXCEPT !.at = @ + 1]
                    ELSE IF tool.pass < Passes THEN [tool EXCEPT !.at = 1, !.pass = @ + 1]
                    ELSE [tool EXCEPT !.op = "verdict"]
<1>20. /\ tool.op = "parity" /\ UNCHANGED <<disk, writer, writes, faults, ver, seen, clean>>
       /\ \/ tool.pass = 1 /\ tool' = [after EXCEPT !.snap[f] = Disk[f], !.got[f] = ver[f]]
          \/ tool.pass > 1 /\ Stable(f) /\ tool' = after
  BY DEF ReadFile
<1>21. f = Files[tool.at]
  OBVIOUS
<1>22. after = IF tool.at < Len(Files) THEN [tool EXCEPT !.at = @ + 1]
               ELSE IF tool.pass < Passes THEN [tool EXCEPT !.at = 1, !.pass = @ + 1]
               ELSE [tool EXCEPT !.op = "verdict"]
  OBVIOUS
<1> HIDE DEF f, after
<1> USE <1>20, <1>21, <1>22
<1>1. UNCHANGED <<task, core, store, agent, patch, index, writer, writes, faults>>
  BY DEF disk
<1>2. /\ ver \in Vers /\ seen \in SUBSET Vers /\ ver \in seen /\ clean \in BOOLEAN
      /\ \A g \in DOMAIN NoVer : tool.got[g] <= ver[g]
      /\ tool.pass = 2 => \E v \in seen : Moment(v)
  BY DEF MigrationInv, Inventory, TypeOK
<1>3. /\ tool = [op |-> "parity", pass |-> tool.pass, at |-> tool.at, tries |-> tool.tries,
                 snap |-> tool.snap, got |-> tool.got]
      /\ tool.pass \in 1..2 /\ tool.at \in 1..3 /\ tool.got \in Vers /\ DiskOK(tool.snap)
      /\ Len(Files) = 3 /\ Passes = 2
  BY DEF MigrationInv, ToolOK, Checking, Passes, Files
<1>4. faults' \in Nat /\ ver' \in Vers /\ clean' \in BOOLEAN
  BY <1>2 DEF MigrationInv, TypeOK
<1>5. TypeOK' /\ WriterOK' /\ Coreless' /\ Disk' = Disk
  BY <1>1, <1>4, DiskKept
<1>6. f \in DOMAIN NoVer /\ DOMAIN NoVer = {"agents", "overlay", "cards"}
  BY <1>3, NoVerType DEF Files
<1>7. /\ DiskOK(Disk)
      /\ Disk = [agents |-> Disk.agents, overlay |-> Disk.overlay, cards |-> Disk.cards]
  BY DiskType DEF MigrationInv, Disk
<1> DEFINE snap == IF tool.pass = 1 THEN [tool.snap EXCEPT ![f] = Disk[f]] ELSE tool.snap
           readings == IF tool.pass = 1 THEN [tool.got EXCEPT ![f] = ver[f]] ELSE tool.got
<1>9. /\ DiskOK(snap) /\ (tool.snap = Disk => snap = Disk)
      /\ snap.cards.core \in {tool.snap.cards.core, Disk.cards.core}
  BY <1>3, <1>6, <1>7 DEF DiskOK
<1>10. /\ readings \in Vers /\ \A g \in DOMAIN NoVer : readings[g] <= ver[g]
       /\ tool.pass # 1 => readings = tool.got
  BY <1>2, <1>3, <1>6 DEF Vers
<1> HIDE DEF snap, readings
<1>8. ASSUME NEW o, NEW p, NEW n,
             after = [op |-> o, pass |-> p, at |-> n, tries |-> tool.tries, snap |-> tool.snap,
                      got |-> tool.got]
      PROVE  tool' = [op |-> o, pass |-> p, at |-> n, tries |-> tool.tries, snap |-> snap, got |-> readings]
  <2>1. CASE tool.pass = 1
    <3>1. tool' = [after EXCEPT !.snap[f] = Disk[f], !.got[f] = ver[f]]
      BY <2>1
    <3>2. tool' = [after EXCEPT !.snap = [after.snap EXCEPT ![f] = Disk[f]],
                                !.got = [after.got EXCEPT ![f] = ver[f]]]
      BY <3>1, Zenon
    <3>3. after.snap = tool.snap /\ after.got = tool.got
      BY <1>8
    <3>4. snap = [tool.snap EXCEPT ![f] = Disk[f]] /\ readings = [tool.got EXCEPT ![f] = ver[f]]
      BY <2>1 DEF snap, readings
    <3>5. tool' = [after EXCEPT !.snap = snap, !.got = readings]
      BY ONLY <3>2, <3>3, <3>4
    <3> QED BY ONLY <1>8, <3>5
  <2>2. CASE tool.pass # 1
    BY <1>8, <2>2 DEF snap, readings
  <2> QED BY <2>1, <2>2
<1>11. \/ /\ tool.at < 3
          /\ tool' = [op |-> "parity", pass |-> tool.pass, at |-> tool.at + 1, tries |-> tool.tries,
                      snap |-> snap, got |-> readings]
       \/ /\ tool.at = 3 /\ tool.pass = 1
          /\ tool' = [op |-> "parity", pass |-> 2, at |-> 1, tries |-> tool.tries,
                      snap |-> snap, got |-> readings]
       \/ /\ tool.at = 3 /\ tool.pass = 2
          /\ tool' = [op |-> "verdict", pass |-> 2, at |-> 3, tries |-> tool.tries,
                      snap |-> snap, got |-> readings]
  <2>1. CASE tool.at < 3
    <3>1. after = [op |-> "parity", pass |-> tool.pass, at |-> tool.at + 1, tries |-> tool.tries,
                   snap |-> tool.snap, got |-> tool.got]
      BY <1>3, <2>1
    <3>2. tool' = [op |-> "parity", pass |-> tool.pass, at |-> tool.at + 1, tries |-> tool.tries,
                   snap |-> snap, got |-> readings]
      BY <3>1, <1>8
    <3> QED BY <2>1, <3>2
  <2>2. CASE tool.at = 3 /\ tool.pass = 1
    <3>1. after = [tool EXCEPT !.at = 1, !.pass = tool.pass + 1] /\ tool.pass + 1 = 2
      BY <1>3, <2>2
    <3>2. after = [op |-> "parity", pass |-> 2, at |-> 1, tries |-> tool.tries,
                   snap |-> tool.snap, got |-> tool.got]
      BY <1>3, <3>1
    <3>3. tool' = [op |-> "parity", pass |-> 2, at |-> 1, tries |-> tool.tries,
                   snap |-> snap, got |-> readings]
      BY <3>2, <1>8
    <3> QED BY <2>2, <3>3
  <2>3. CASE tool.at = 3 /\ tool.pass = 2
    <3>1. after = [op |-> "verdict", pass |-> 2, at |-> 3, tries |-> tool.tries,
                   snap |-> tool.snap, got |-> tool.got]
      BY <1>3, <2>3
    <3>2. tool' = [op |-> "verdict", pass |-> 2, at |-> 3, tries |-> tool.tries,
                   snap |-> snap, got |-> readings]
      BY <3>1, <1>8
    <3> QED BY <2>3, <3>2
  <2> QED BY <1>3, <2>1, <2>2, <2>3
<1>12. /\ tool'.op \in {"parity", "verdict"} /\ tool'.snap = snap /\ tool'.got = readings
       /\ tool'.pass \in 1..2 /\ tool'.at \in 1..3
       /\ tool' = [op |-> tool'.op, pass |-> tool'.pass, at |-> tool'.at, tries |-> tool'.tries,
                   snap |-> tool'.snap, got |-> tool'.got]
  BY <1>3, <1>11
<1>13. ToolOK'
  BY <1>3, <1>9, <1>10, <1>12 DEF ToolOK, Checking, Ended
<1>14. Undisturbed'
  <2>1. (clean => tool.snap = Disk) /\ tool.snap.cards.core \subseteq core
    BY DEF MigrationInv, Undisturbed, Checking
  <2>3. Disk.cards.core = core /\ core' = core
    BY <1>1 DEF Disk
  <2>2. tool' # NoTool
    BY <1>12 DEF NoTool
  <2> QED BY <1>5, <1>9, <1>12, <2>1, <2>2, <2>3 DEF Undisturbed
<1>15. CreatesFirst' /\ Replayed' /\ ExportDone'
  BY <1>12 DEF CreatesFirst, Replayed, ExportDone, Ended
<1>16. ASSUME tool.pass = 2, NEW v \in seen, Moment(v)
       PROVE  /\ \A g \in DOMAIN NoVer : readings[g] <= v[g] /\ v[g] <= ver[g]
              /\ \A j \in 1..tool.at : readings[Files[j]] = v[Files[j]]
  <2>1. /\ tool.got[f] = ver[f] /\ readings = tool.got
    BY <1>10, <1>16 DEF Stable
  <2>2. tool.got[f] = v[f]
    BY <1>2, <1>6, <1>16, <2>1 DEF Moment, Vers
  <2>3. \A j \in 1..tool.at : j = tool.at \/ j \in 1..(tool.at - 1)
    BY <1>3
  <2> QED
    BY <1>16, <2>1, <2>2, <2>3 DEF Moment
<1>17. Inventory'
  <2>1. CASE tool.pass = 1 /\ tool.at < 3
    <3>1. tool' = [op |-> "parity", pass |-> tool.pass, at |-> tool.at + 1, tries |-> tool.tries,
                   snap |-> snap, got |-> readings]
      BY ONLY <1>11, <2>1
    <3>2. tool'.op = "parity" /\ tool'.pass = 1 /\ tool'.got = readings
      BY <2>1, <3>1
    <3> QED BY <1>2, <1>10, <3>2 DEF Inventory
  <2>2. CASE tool.pass = 1 /\ tool.at = 3
    <3>3. tool' = [op |-> "parity", pass |-> 2, at |-> 1, tries |-> tool.tries,
                   snap |-> snap, got |-> readings]
      BY ONLY <1>11, <2>2
    <3>1. tool'.at = 1 /\ tool'.got = readings /\ tool'.op = "parity"
      BY <3>3
    <3>2. Moment(ver)'
      BY <1>2, <1>10, <3>1, NoVerType DEF Moment, Vers
    <3> QED BY <1>2, <1>10, <3>1, <3>2 DEF Inventory
  <2>3. CASE tool.pass = 2 /\ tool.at < 3
    <3>1. tool'.at = tool.at + 1 /\ tool'.got = readings /\ tool'.op = "parity"
      BY <1>11, <2>3
    <3>2. PICK v \in seen : Moment(v)
      BY <1>2, <2>3
    <3>3. Moment(v)'
      <4>1. (tool.at + 1) - 1 = tool.at
        BY <1>3
      <4> QED BY <1>2, <1>16, <2>3, <3>1, <3>2, <4>1 DEF Moment
    <3> QED BY <1>2, <1>10, <3>1, <3>3 DEF Inventory
  <2>4. CASE tool.pass = 2 /\ tool.at = 3
    <3>1. tool'.op = "verdict"
      BY <1>11, <2>4
    <3> QED BY <1>2, <3>1 DEF Inventory
  <2> QED BY <1>3, <2>1, <2>2, <2>3, <2>4
<1>18. SnapshotReal'
  <2>1. CASE tool'.op = "verdict"
    <3>1. tool.at = 3 /\ tool.pass = 2 /\ tool'.got = readings
      BY <1>11, <2>1
    <3>2. PICK v \in seen : Moment(v)
      BY <1>2, <3>1
    <3>3. readings["agents"] = v["agents"] /\ readings["overlay"] = v["overlay"] /\ readings["cards"] = v["cards"]
      <4>1. \A j \in {1, 2, 3} : readings[Files[j]] = v[Files[j]]
        BY <1>16, <3>1, <3>2
      <4> QED BY <4>1 DEF Files
    <3>4. readings = v
      BY <1>2, <1>10, <3>3 DEF Vers
    <3> QED BY <1>2, <3>1, <3>4 DEF SnapshotReal
  <2> QED BY <2>1 DEF SnapshotReal
<1> QED
  BY <1>5, <1>13, <1>14, <1>15, <1>17, <1>18 DEF MigrationInv

LEMMA ReadFileInv == ASSUME MigrationInv, ReadFile PROVE MigrationInv'
<1>1. UNCHANGED <<disk, writer, writes, faults>> /\ faults' \in Nat
  BY DEF ReadFile, MigrationInv, TypeOK
<1>2. CASE Fresh(tool.tries + 1)
  BY <1>1, <1>2, FreshInv
<1>3. CASE tool' = NoTool /\ Quiet
  BY <1>1, <1>3, StopInv
<1> QED
  BY <1>2, <1>3, ReadNext

-----------------------------------------------------------------------------
(* What the tools set out to append *)

LEMMA RangeOfConcat ==
  ASSUME NEW S, NEW s \in Seq(S), NEW t \in Seq(S)
  PROVE  s \o t \in Seq(S) /\ Range(s \o t) = Range(s) \cup Range(t)
<1>1. /\ s \o t \in Seq(S) /\ Len(s \o t) = Len(s) + Len(t)
      /\ \A i \in 1..Len(s) : (s \o t)[i] = s[i]
      /\ \A i \in 1..Len(t) : (s \o t)[i + Len(s)] = t[i]
  OBVIOUS
<1>2. Len(s) \in Nat /\ Len(t) \in Nat
  OBVIOUS
<1>3. DOMAIN s = 1..Len(s) /\ DOMAIN t = 1..Len(t) /\ DOMAIN (s \o t) = 1..(Len(s) + Len(t))
  OBVIOUS
<1>4. ASSUME NEW i \in DOMAIN (s \o t) PROVE (s \o t)[i] \in Range(s) \cup Range(t)
  <2>1. CASE i <= Len(s)
    <3>1. i \in DOMAIN s
      BY <1>2, <1>3, <1>4, <2>1
    <3> QED BY <1>1, <1>3, <3>1 DEF Range
  <2>2. CASE ~(i <= Len(s))
    <3>1. i - Len(s) \in DOMAIN t /\ (i - Len(s)) + Len(s) = i
      BY <1>2, <1>3, <1>4, <2>2
    <3> QED BY <1>1, <1>3, <3>1 DEF Range
  <2> QED BY <2>1, <2>2
<1>5. ASSUME NEW i \in DOMAIN s PROVE s[i] \in Range(s \o t)
  <2>1. i \in DOMAIN (s \o t)
    BY <1>2, <1>3
  <2> QED BY <1>1, <1>3, <2>1 DEF Range
<1>6. ASSUME NEW i \in DOMAIN t PROVE t[i] \in Range(s \o t)
  <2>1. i + Len(s) \in DOMAIN (s \o t)
    BY <1>2, <1>3
  <2> QED BY <1>1, <1>3, <2>1 DEF Range
<1> QED
  BY <1>1, <1>4, <1>5, <1>6 DEF Range

LEMMA RangeOfThree ==
  ASSUME NEW S, NEW s \in Seq(S), NEW t \in Seq(S), NEW u \in Seq(S)
  PROVE  /\ (s \o t) \o u \in Seq(S)
         /\ Range((s \o t) \o u) = (Range(s) \cup Range(t)) \cup Range(u)
         /\ Len((s \o t) \o u) = (Len(s) + Len(t)) + Len(u)
<1> DEFINE v == s \o t
<1>1. v \in Seq(S) /\ Range(v) = Range(s) \cup Range(t) /\ Len(v) = Len(s) + Len(t)
  BY RangeOfConcat
<1> HIDE DEF v
<1>2. v \o u \in Seq(S) /\ Range(v \o u) = Range(v) \cup Range(u) /\ Len(v \o u) = Len(v) + Len(u)
  BY <1>1, RangeOfConcat
<1> QED
  BY <1>1, <1>2 DEF v

LEMMA RangeOfFew ==
  /\ Range(<<>>) = {}
  /\ \A x : Range(<<x>>) = {x}
  /\ \A x, y : Range(<<x, y>>) = {x, y}
BY DEF Range

LEMMA CorrectionsFit ==
  ASSUME NEW d, DiskOK(d), NEW c \in Cards
  PROVE  LET s == Corrections(d, c)  acts == {s[i].act : i \in DOMAIN s} IN
         /\ s \in Seq(WorkEvents)
         /\ \A i \in DOMAIN s : WorkEvent(s[i]) /\ Fits(s[i], LegacyCard(d, c))
         /\ "create" \notin acts
         /\ "status" \in Diff(d, c) => "move" \in acts
         /\ "owner" \in Diff(d, c) => acts \cap {"assign", "unassign"} # {}
         /\ "archived" \in Diff(d, c) => acts \cap {"archive", "reopen"} # {}
<1> DEFINE l == LegacyCard(d, c)
           x == Diff(d, c)
           s1 == IF "archived" \notin x THEN <<>>
                 ELSE <<IF l.archived THEN ArchiveEvent
                        ELSE ReopenEvent(IF "status" \in x THEN l.status ELSE None)>>
           s2 == IF "status" \in x THEN <<MoveEvent(l.status)>> ELSE <<>>
           s3 == IF "owner" \in x THEN <<OwnerEvent(l.owner)>> ELSE <<>>
           s == Corrections(d, c)
<1>1. s = (s1 \o s2) \o s3
  BY DEF Corrections
<1>2. l.status \in Columns /\ l.owner \in Agents \cup {None} /\ l.archived \in BOOLEAN
  BY LegacyType
<1>3. /\ WorkEvent(ArchiveEvent) /\ WorkEvent(OwnerEvent(l.owner))
      /\ WorkEvent(MoveEvent(l.status)) /\ WorkEvent(ReopenEvent(l.status))
      /\ WorkEvent(ReopenEvent(None))
  BY <1>2 DEF WorkEvent, WorkEvents, ArchiveEvent, OwnerEvent, UnassignEvent, AssignEvent,
              MoveEvent, ReopenEvent, Event, Columns, Revisions, NoRev
<1>4. /\ l.archived => Fits(ArchiveEvent, l)
      /\ Fits(OwnerEvent(l.owner), l) /\ Fits(MoveEvent(l.status), l)
      /\ ~l.archived => Fits(ReopenEvent(l.status), l) /\ Fits(ReopenEvent(None), l)
  BY DEF Fits, ArchiveEvent, OwnerEvent, UnassignEvent, AssignEvent, MoveEvent, ReopenEvent, Event
<1>5. /\ ArchiveEvent.act = "archive" /\ OwnerEvent(l.owner).act \in {"assign", "unassign"}
      /\ MoveEvent(l.status).act = "move"
      /\ ReopenEvent(l.status).act = "reopen" /\ ReopenEvent(None).act = "reopen"
  BY DEF ArchiveEvent, OwnerEvent, UnassignEvent, AssignEvent, MoveEvent, ReopenEvent, Event
<1>6. s1 \in Seq(WorkEvents) /\ s2 \in Seq(WorkEvents) /\ s3 \in Seq(WorkEvents)
  BY <1>2, <1>3 DEF WorkEvent
<1>7. /\ \A e \in Range(s1) : /\ WorkEvent(e) /\ Fits(e, l) /\ e.act \in {"archive", "reopen"}
      /\ "archived" \in x => \E e \in Range(s1) : e.act \in {"archive", "reopen"}
  BY <1>2, <1>3, <1>4, <1>5, RangeOfFew
<1>8. /\ \A e \in Range(s2) : /\ WorkEvent(e) /\ Fits(e, l) /\ e.act = "move"
      /\ "status" \in x => \E e \in Range(s2) : e.act = "move"
  BY <1>2, <1>3, <1>4, <1>5, RangeOfFew
<1>9. /\ \A e \in Range(s3) : /\ WorkEvent(e) /\ Fits(e, l) /\ e.act \in {"assign", "unassign"}
      /\ "owner" \in x => \E e \in Range(s3) : e.act \in {"assign", "unassign"}
  BY <1>2, <1>3, <1>4, <1>5, RangeOfFew
<1> HIDE DEF s1, s2, s3, l, x, s
<1>10. s \in Seq(WorkEvents) /\ Range(s) = (Range(s1) \cup Range(s2)) \cup Range(s3)
  BY <1>1, <1>6, RangeOfThree
<1>11. /\ \A e \in Range(s) : WorkEvent(e) /\ Fits(e, l) /\ e.act # "create"
       /\ "status" \in x => \E e \in Range(s) : e.act = "move"
       /\ "owner" \in x => \E e \in Range(s) : e.act \in {"assign", "unassign"}
       /\ "archived" \in x => \E e \in Range(s) : e.act \in {"archive", "reopen"}
  BY <1>7, <1>8, <1>9, <1>10
<1>12. Range(s) = {s[i] : i \in DOMAIN s}
  BY DEF Range
<1> DEFINE acts == {s[i].act : i \in DOMAIN s}
<1>13. /\ \A i \in DOMAIN s : WorkEvent(s[i]) /\ Fits(s[i], l) /\ s[i].act # "create"
       /\ "status" \in x => \E i \in DOMAIN s : s[i].act = "move"
       /\ "owner" \in x => \E i \in DOMAIN s : s[i].act \in {"assign", "unassign"}
       /\ "archived" \in x => \E i \in DOMAIN s : s[i].act \in {"archive", "reopen"}
  BY <1>11, <1>12
<1>14. /\ s \in Seq(WorkEvents)
       /\ \A i \in DOMAIN s : WorkEvent(s[i]) /\ Fits(s[i], l)
       /\ "create" \notin acts
       /\ "status" \in x => "move" \in acts
       /\ "owner" \in x => acts \cap {"assign", "unassign"} # {}
       /\ "archived" \in x => acts \cap {"archive", "reopen"} # {}
  BY <1>10, <1>13
<1> QED
  BY <1>14 DEF s, l, x

LEMMA ReproductionFits ==
  ASSUME NEW d, DiskOK(d), NEW c \in Cards
  PROVE  LET s == Reproduction(d, c)  acts == {s[i].act : i \in DOMAIN s}  l == LegacyCard(d, c) IN
         /\ s \in Seq(WorkEvents)
         /\ \A i \in DOMAIN s : WorkEvent(s[i]) /\ Fits(s[i], l)
         /\ \A i \in DOMAIN s : s[i].act = "create" => i = 1
         /\ {"create", "move"} \subseteq acts
         /\ l.owner # None => "assign" \in acts
         /\ l.archived => "archive" \in acts
<1> DEFINE l == LegacyCard(d, c)
           e0 == Event("create", None, NoRev, "backlog")
           s1 == <<e0, MoveEvent(l.status)>>
           s2 == IF l.owner = None THEN <<>> ELSE <<AssignEvent(l.owner)>>
           s3 == IF l.archived THEN <<ArchiveEvent>> ELSE <<>>
           s == Reproduction(d, c)
<1>1. s = (s1 \o s2) \o s3
  BY DEF Reproduction
<1>2. l.status \in Columns /\ l.owner \in Agents \cup {None} /\ l.archived \in BOOLEAN
  BY LegacyType
<1>3. /\ WorkEvent(ArchiveEvent) /\ WorkEvent(AssignEvent(l.owner))
      /\ WorkEvent(MoveEvent(l.status)) /\ WorkEvent(e0)
  BY <1>2 DEF WorkEvent, WorkEvents, ArchiveEvent, AssignEvent, MoveEvent, Event, Columns, Revisions,
              NoRev
<1>4. /\ l.archived => Fits(ArchiveEvent, l)
      /\ Fits(AssignEvent(l.owner), l) /\ Fits(MoveEvent(l.status), l) /\ Fits(e0, l)
  BY DEF Fits, ArchiveEvent, AssignEvent, MoveEvent, Event
<1>5. /\ ArchiveEvent.act = "archive" /\ AssignEvent(l.owner).act = "assign"
      /\ MoveEvent(l.status).act = "move" /\ e0.act = "create"
  BY DEF ArchiveEvent, AssignEvent, MoveEvent, Event
<1> HIDE DEF e0
<1>6. s1 \in Seq(WorkEvents) /\ s2 \in Seq(WorkEvents) /\ s3 \in Seq(WorkEvents)
  BY <1>2, <1>3 DEF WorkEvent
<1>7. /\ Range(s1) = {e0, MoveEvent(l.status)} /\ Len(s1) = 2 /\ s1[1] = e0 /\ s1[2] = MoveEvent(l.status)
  BY RangeOfFew
<1>8. /\ \A e \in Range(s2) : WorkEvent(e) /\ Fits(e, l) /\ e.act = "assign"
      /\ l.owner # None => \E e \in Range(s2) : e.act = "assign"
  BY <1>2, <1>3, <1>4, <1>5, RangeOfFew
<1>9. /\ \A e \in Range(s3) : WorkEvent(e) /\ Fits(e, l) /\ e.act = "archive"
      /\ l.archived => \E e \in Range(s3) : e.act = "archive"
  BY <1>2, <1>3, <1>4, <1>5, RangeOfFew
<1> HIDE DEF s1, s2, s3, l, s
<1>10. /\ s \in Seq(WorkEvents) /\ Len(s) = (Len(s1) + Len(s2)) + Len(s3)
       /\ Range(s) = (Range(s1) \cup Range(s2)) \cup Range(s3)
  BY <1>1, <1>6, RangeOfThree
<1>11. ASSUME NEW i \in DOMAIN s, i # 1 PROVE s[i].act # "create"
  <2>1. DOMAIN s = 1..((2 + Len(s2)) + Len(s3)) /\ Len(s2) \in Nat /\ Len(s3) \in Nat
    <3>1. Len(s) = (2 + Len(s2)) + Len(s3)
      BY <1>7, <1>10
    <3>2. DOMAIN s = 1..Len(s) /\ Len(s2) \in Nat /\ Len(s3) \in Nat
      BY <1>6, <1>10
    <3> QED BY <3>1, <3>2
  <2>2. CASE i = 2
    <3>1. s[2] = s1[2]
      BY <1>1, <1>6, <1>7, <2>1
    <3> QED BY <1>5, <1>7, <2>2, <3>1
  <2>3. CASE i \in 3..(2 + Len(s2))
    <3>1. i - 2 \in 1..Len(s2) /\ s[i] = s2[i - 2]
      BY <1>1, <1>6, <1>7, <2>1, <2>3
    <3>2. s2[i - 2] \in Range(s2)
      BY <1>6, <3>1 DEF Range
    <3> QED BY <1>8, <3>1, <3>2
  <2>4. CASE i > 2 + Len(s2)
    <3>1. i - (2 + Len(s2)) \in 1..Len(s3) /\ s[i] = s3[i - (2 + Len(s2))]
      BY <1>1, <1>6, <1>7, <1>11, <2>1, <2>4
    <3>2. s3[i - (2 + Len(s2))] \in Range(s3)
      BY <1>6, <3>1 DEF Range
    <3> QED BY <1>9, <3>1, <3>2
  <2> QED BY <1>11, <2>1, <2>2, <2>3, <2>4
<1>12. Range(s) = {s[i] : i \in DOMAIN s}
  BY DEF Range
<1> DEFINE acts == {s[i].act : i \in DOMAIN s}
<1>13. /\ \A e \in Range(s) : WorkEvent(e) /\ Fits(e, l)
       /\ \E e \in Range(s) : e.act = "create"
       /\ \E e \in Range(s) : e.act = "move"
       /\ l.owner # None => \E e \in Range(s) : e.act = "assign"
       /\ l.archived => \E e \in Range(s) : e.act = "archive"
  BY <1>3, <1>4, <1>5, <1>7, <1>8, <1>9, <1>10
<1>14. /\ \A i \in DOMAIN s : WorkEvent(s[i]) /\ Fits(s[i], l)
       /\ "create" \in acts /\ "move" \in acts
       /\ l.owner # None => "assign" \in acts
       /\ l.archived => "archive" \in acts
  BY <1>12, <1>13
<1> QED
  BY <1>10, <1>11, <1>14 DEF s, l

-----------------------------------------------------------------------------
(* A tool sets out to append *)

\* What holds of the rest once the events are known.
LEMMA AppendStarts ==
  ASSUME MigrationInv, UNCHANGED <<disk, writer, writes, faults, clean>>,
         ver' \in Vers, seen' \in SUBSET Vers,
         tool'.op = "append"
  PROVE  /\ TypeOK' /\ WriterOK' /\ Coreless' /\ Disk' = Disk
         /\ UNCHANGED <<task, core, store, agent, patch, index>>
         /\ Inventory' /\ SnapshotReal' /\ Undisturbed' /\ ExportDone'
<1>1. UNCHANGED <<task, core, store, agent, patch, index>>
  BY DEF disk
<1>2. faults' \in Nat /\ clean' \in BOOLEAN
  BY DEF MigrationInv, TypeOK
<1>3. TypeOK' /\ WriterOK' /\ Coreless' /\ Disk' = Disk
  BY <1>1, <1>2, DiskKept
<1>4. tool' # NoTool
  BY DEF NoTool
<1> QED
  BY <1>1, <1>3, <1>4 DEF Inventory, SnapshotReal, Undisturbed, ExportDone, Checking

LEMMA WorkOf ==
  ASSUME NEW f
  PROVE  /\ \A c \in Cards : Work(f)[c] = IF c \in DOMAIN f THEN f[c] ELSE <<>>
         /\ DOMAIN Work(f) = Cards
BY DEF Work

LEMMA NoEvents == <<>> \in Seq(WorkEvents) /\ DOMAIN <<>> = {}
OBVIOUS

LEMMA ReconcileInv == ASSUME MigrationInv, Reconcile PROVE MigrationInv'
<1> DEFINE d == tool.snap
           fixable == {c \in Compared(d) : ~WouldUncomplete(d, c)}
           events == [c \in fixable |-> Corrections(d, c)]
<1>1. /\ tool.op = "verdict" /\ UNCHANGED <<disk, writer, writes, faults, clean>>
      /\ ver' = NoVer /\ seen' = {}
      /\ tool' = [op |-> "append", for |-> "reconciled", skipped |-> Compared(d) \ fixable,
                  todo |-> Work(events)]
  BY DEF Reconcile
<1>2. /\ tool'.op = "append" /\ tool'.for = "reconciled" /\ tool'.skipped = Compared(d) \ fixable
      /\ tool'.todo = Work(events)
      /\ tool' = [op |-> tool'.op, for |-> tool'.for, skipped |-> tool'.skipped, todo |-> tool'.todo]
  BY <1>1
<1>3. /\ DiskOK(d) /\ d.cards.core \subseteq core /\ (clean => d = Disk)
  BY <1>1 DEF MigrationInv, ToolOK, Checking, Undisturbed
<1>4. /\ TypeOK' /\ WriterOK' /\ Coreless' /\ Disk' = Disk
      /\ UNCHANGED <<task, core, store, agent, patch, index>>
      /\ Inventory' /\ SnapshotReal' /\ Undisturbed' /\ ExportDone'
  BY <1>1, <1>2, NoVerType, AppendStarts
<1>5. fixable \subseteq Compared(d) /\ Compared(d) \subseteq Cards /\ Compared(d) \subseteq core
  BY <1>3 DEF Compared
<1>6. DOMAIN events = fixable /\ \A c \in fixable : events[c] = Corrections(d, c)
  OBVIOUS
<1> HIDE DEF d, fixable, events
<1>7. /\ \A c \in Cards : tool'.todo[c] = IF c \in fixable THEN Corrections(d, c) ELSE <<>>
      /\ DOMAIN tool'.todo = Cards
  BY <1>2, <1>6, WorkOf
<1>8. ASSUME NEW c \in Cards
      PROVE  LET s == tool'.todo[c]  acts == {s[i].act : i \in DOMAIN s} IN
             /\ s \in Seq(WorkEvents)
             /\ \A i \in DOMAIN s : WorkEvent(s[i]) /\ Fits(s[i], LegacyCard(d, c))
             /\ "create" \notin acts
             /\ s # <<>> => c \in core
             /\ c \in fixable => /\ "status" \in Diff(d, c) => "move" \in acts
                                 /\ "owner" \in Diff(d, c) => acts \cap {"assign", "unassign"} # {}
                                 /\ "archived" \in Diff(d, c) => acts \cap {"archive", "reopen"} # {}
  <2>1. CASE c \in fixable
    <3>1. tool'.todo[c] = Corrections(d, c) /\ c \in core /\ DiskOK(d)
      BY <1>3, <1>5, <1>7, <2>1
    <3>2. LET s == Corrections(d, c)  acts == {s[i].act : i \in DOMAIN s} IN
          /\ s \in Seq(WorkEvents)
          /\ \A i \in DOMAIN s : WorkEvent(s[i]) /\ Fits(s[i], LegacyCard(d, c))
          /\ "create" \notin acts
          /\ "status" \in Diff(d, c) => "move" \in acts
          /\ "owner" \in Diff(d, c) => acts \cap {"assign", "unassign"} # {}
          /\ "archived" \in Diff(d, c) => acts \cap {"archive", "reopen"} # {}
      BY ONLY <3>1, c \in Cards, CorrectionsFit
    <3> QED BY ONLY <3>1, <3>2
  <2>2. CASE c \notin fixable
    <3>1. tool'.todo[c] = <<>>
      BY <1>7, <2>2
    <3> QED BY <2>2, <3>1, NoEvents
  <2> QED BY <2>1, <2>2
<1>9. ToolOK'
  BY <1>2, <1>5, <1>7, <1>8 DEF ToolOK, Checking, Ended
<1>10. CreatesFirst'
  <2>1. \A c \in Cards : /\ "create" \notin Acts(c)'
                         /\ \A i \in DOMAIN tool'.todo[c] : tool'.todo[c][i].act # "create"
                         /\ tool'.todo[c] # <<>> => c \in core'
    BY <1>4, <1>8 DEF Acts
  <2> QED BY <2>1 DEF CreatesFirst
<1>11. Replayed'
  <2> SUFFICES ASSUME clean', NEW c \in Mine' PROVE Promised(c)'
    BY <1>2 DEF Replayed, Ended
  <2>1. clean /\ d = Disk
    BY <1>1, <1>3
  <2>2. Compared(Disk)' = Compared(Disk)
    BY <1>4 DEF Compared
  <2>3. c \in fixable /\ c \in Cards
    BY <1>2, <1>5, <2>1, <2>2 DEF Mine
  <2>4. LegacyCard(Disk, c)' = LegacyCard(d, c)
    BY <1>4, <2>1, LegacyStable
  <2>5. /\ task[c] = "status" /\ Bucket(LegacyCard(d, c).status) # Bucket(store[c].status)
             => "status" \in Diff(d, c)
        /\ LegacyCard(d, c).owner # store[c].owner => "owner" \in Diff(d, c)
        /\ LegacyCard(d, c).archived # store[c].archived => "archived" \in Diff(d, c)
    <3>1. d.cards.store[c] = store[c]
      BY <2>1 DEF Disk
    <3> QED BY <3>1 DEF Diff
  <2>6. Acts(c)' = {tool'.todo[c][i].act : i \in DOMAIN tool'.todo[c]}
    BY DEF Acts
  <2>7. StatusRight(c)' \/ "move" \in Acts(c)'
    BY <1>2, <1>4, <1>8, <2>3, <2>4, <2>5, <2>6 DEF StatusRight
  <2>8. \/ (store[c].owner = LegacyCard(Disk, c).owner)'
        \/ Acts(c)' \cap {"assign", "unassign"} # {}
    BY <1>4, <1>8, <2>3, <2>4, <2>5, <2>6
  <2>9. \/ (store[c].archived = LegacyCard(Disk, c).archived)'
        \/ Acts(c)' \cap {"archive", "reopen"} # {}
    BY <1>4, <1>8, <2>3, <2>4, <2>5, <2>6
  <2>10. \A i \in DOMAIN tool'.todo[c] : Fits(tool'.todo[c][i], LegacyCard(Disk, c)')
    BY <1>8, <2>3, <2>4
  <2> QED
    BY <1>2, <2>7, <2>8, <2>9, <2>10 DEF Promised, Fits
<1> QED
  BY <1>4, <1>9, <1>10, <1>11 DEF MigrationInv

LEMMA StartImportInv == ASSUME MigrationInv, StartImport PROVE MigrationInv'
<1> DEFINE d == Disk
           live == {x \in Cards : task[x] # "none"}
           events == [c \in live |-> Reproduction(d, c)]
<1>1. /\ tool = NoTool /\ UNCHANGED <<disk, writer, writes, faults, clean, ver, seen>>
      /\ tool' = [op |-> "append", for |-> "imported", skipped |-> core, todo |-> Work(events)]
  BY DEF StartImport
<1>2. /\ tool'.op = "append" /\ tool'.for = "imported" /\ tool'.skipped = core
      /\ tool'.todo = Work(events)
      /\ tool' = [op |-> tool'.op, for |-> tool'.for, skipped |-> tool'.skipped, todo |-> tool'.todo]
  BY <1>1
<1>3. DiskOK(d)
  BY DiskType DEF MigrationInv
<1>4. /\ TypeOK' /\ WriterOK' /\ Coreless' /\ Disk' = Disk
      /\ UNCHANGED <<task, core, store, agent, patch, index>>
      /\ Inventory' /\ SnapshotReal' /\ Undisturbed' /\ ExportDone'
  <2>1. ver' \in Vers /\ seen' \in SUBSET Vers
    BY <1>1 DEF MigrationInv, Inventory
  <2> QED BY <1>1, <1>2, <2>1, AppendStarts
<1>5. live \subseteq Cards /\ core \subseteq Cards
  BY DEF MigrationInv, TypeOK
<1>6. DOMAIN events = live /\ \A c \in live : events[c] = Reproduction(d, c)
  OBVIOUS
<1> HIDE DEF d, live, events
<1>7. /\ \A c \in Cards : tool'.todo[c] = IF c \in live THEN Reproduction(d, c) ELSE <<>>
      /\ DOMAIN tool'.todo = Cards
  BY <1>2, <1>6, WorkOf
<1>8. ASSUME NEW c \in Cards
      PROVE  LET s == tool'.todo[c]  acts == {s[i].act : i \in DOMAIN s}  l == LegacyCard(d, c) IN
             /\ s \in Seq(WorkEvents)
             /\ \A i \in DOMAIN s : WorkEvent(s[i]) /\ Fits(s[i], l)
             /\ \A i \in DOMAIN s : s[i].act = "create" => i = 1
             /\ s # <<>> => "create" \in acts
             /\ c \in live => /\ {"create", "move"} \subseteq acts
                              /\ l.owner # None => "assign" \in acts
                              /\ l.archived => "archive" \in acts
  <2>1. CASE c \in live
    <3>1. tool'.todo[c] = Reproduction(d, c) /\ DiskOK(d)
      BY <1>3, <1>7, <2>1
    <3> QED BY <3>1, ReproductionFits
  <2>2. CASE c \notin live
    <3>1. tool'.todo[c] = <<>>
      BY <1>7, <2>2
    <3> QED BY <2>2, <3>1, NoEvents
  <2> QED BY <2>1, <2>2
<1>9. ToolOK'
  BY <1>2, <1>5, <1>7, <1>8 DEF ToolOK, Checking, Ended
<1>10. CreatesFirst'
  <2>1. \A c \in Cards : /\ \A i \in DOMAIN tool'.todo[c] : tool'.todo[c][i].act = "create" => i = 1
                         /\ tool'.todo[c] # <<>> => "create" \in Acts(c)'
    BY <1>8 DEF Acts
  <2> QED BY <1>2, <1>4, <2>1 DEF CreatesFirst
<1>11. Replayed'
  <2> SUFFICES ASSUME NEW c \in Mine' PROVE Promised(c)'
    BY <1>2 DEF Replayed, Ended
  <2>3. c \in live /\ c \in Cards /\ c \notin core
    BY <1>2, <1>4 DEF Mine, live
  <2>4. LegacyCard(Disk, c)' = LegacyCard(d, c)
    BY <1>4, LegacyStable DEF d
  <2> DEFINE l == LegacyCard(d, c)
  <2>5. l.owner = None => store[c].owner = None
    <3>1. l.owner = IF patch[c].set THEN patch[c].owner ELSE ViewOwner(d, c)
      BY <2>3 DEF LegacyCard, Disk, d
    <3>2. store[c].owner = IF patch[c].set THEN patch[c].owner ELSE None
      BY <2>3 DEF MigrationInv, Coreless
    <3> QED BY <3>1, <3>2
  <2>6. l.archived = store[c].archived
    <3>1. l.archived = (c \in index)
      BY <2>3 DEF LegacyCard, Disk, d
    <3> QED BY <2>3, <3>1 DEF MigrationInv, Coreless
  <2>7. Acts(c)' = {tool'.todo[c][i].act : i \in DOMAIN tool'.todo[c]}
    BY DEF Acts
  <2>8. /\ "move" \in Acts(c)' /\ "create" \in Acts(c)'
        /\ l.owner # None => "assign" \in Acts(c)'
    BY <1>8, <2>3, <2>7
  <2> HIDE DEF l
  <2>9. \A i \in DOMAIN tool'.todo[c] : Fits(tool'.todo[c][i], LegacyCard(Disk, c)')
    BY <1>8, <2>3, <2>4
  <2>10. store'[c] = store[c] /\ LegacyCard(Disk, c)' = l
    BY <1>4, <2>4 DEF l
  <2>11. \/ (store[c].owner = LegacyCard(Disk, c).owner)'
         \/ Acts(c)' \cap {"assign", "unassign"} # {}
    BY <2>5, <2>8, <2>10
  <2>12. (store[c].archived = LegacyCard(Disk, c).archived)'
    BY <2>6, <2>10
  <2> QED
    BY <2>8, <2>9, <2>11, <2>12 DEF Promised, Fits
<1> QED
  BY <1>4, <1>9, <1>10, <1>11 DEF MigrationInv

-----------------------------------------------------------------------------
(* The next event *)

LEMMA HeadTail ==
  ASSUME NEW s \in Seq(WorkEvents), s # <<>>
  PROVE  /\ Head(s) = s[1] /\ 1 \in DOMAIN s /\ Tail(s) \in Seq(WorkEvents)
         /\ \A j \in DOMAIN Tail(s) : j + 1 \in DOMAIN s /\ j + 1 # 1 /\ Tail(s)[j] = s[j + 1]
         /\ \A i \in DOMAIN s : i = 1 \/ (i - 1 \in DOMAIN Tail(s) /\ Tail(s)[i - 1] = s[i])
OBVIOUS

\* The next card has an event, which is well formed and fits what legacy shows.
LEMMA NextCardDue ==
  ASSUME ToolOK, tool.op = "append", Due(tool.todo) # {}
  PROVE  /\ NextCard(tool.todo) \in Cards
         /\ tool.todo[NextCard(tool.todo)] # <<>>
<1>1. Due(tool.todo) \in SUBSET Nat
  BY CardIndices DEF Due
<1>2. Min(Due(tool.todo)) \in Due(tool.todo)
  BY <1>1, MinIn
<1> QED
  BY <1>2, CardIndices DEF Due, NextCard

LEMMA TailTodo ==
  ASSUME MigrationInv, tool.op = "append", NEW c \in Cards, tool.todo[c] # <<>>,
         tool' = [tool EXCEPT !.todo[c] = Tail(@)]
  PROVE  /\ tool'.op = "append" /\ tool'.for = tool.for /\ tool'.skipped = tool.skipped
         /\ \A b \in Cards \ {c} : tool'.todo[b] = tool.todo[b] /\ Acts(b)' = Acts(b)
         /\ ToolOK'
         /\ WorkEvent(Head(tool.todo[c])) /\ Head(tool.todo[c]) = tool.todo[c][1]
         /\ 1 \in DOMAIN tool.todo[c]
         /\ Acts(c) \subseteq Acts(c)' \cup {Head(tool.todo[c]).act}
         /\ "create" \notin Acts(c)'
         /\ \A j \in DOMAIN tool'.todo[c] :
              /\ tool'.todo[c][j].act # "create"
              /\ \E i \in DOMAIN tool.todo[c] : tool'.todo[c][j] = tool.todo[c][i]
<1> DEFINE s == tool.todo[c]
<1>1. /\ tool = [op |-> "append", for |-> tool.for, skipped |-> tool.skipped, todo |-> tool.todo]
      /\ tool.for \in Ended /\ tool.skipped \in SUBSET Cards /\ DOMAIN tool.todo = Cards
      /\ \A b \in Cards : /\ tool.todo[b] \in Seq(WorkEvents)
                          /\ \A i \in DOMAIN tool.todo[b] : WorkEvent(tool.todo[b][i])
  BY DEF MigrationInv, ToolOK
<1>2. \A i \in DOMAIN s : s[i].act = "create" => i = 1
  BY DEF MigrationInv, CreatesFirst
<1>3. tool' = [tool EXCEPT !.todo = [tool.todo EXCEPT ![c] = Tail(tool.todo[c])]]
  OBVIOUS
<1>4. tool' = [op |-> "append", for |-> tool.for, skipped |-> tool.skipped,
               todo |-> [tool.todo EXCEPT ![c] = Tail(s)]]
  <2>1. \A x : tool' = [tool EXCEPT !.todo = x] =>
                tool' = [op |-> "append", for |-> tool.for, skipped |-> tool.skipped, todo |-> x]
    BY ONLY <1>1
  <2> QED BY <1>3, <2>1, Zenon
<1>5. /\ tool'.op = "append" /\ tool'.for = tool.for /\ tool'.skipped = tool.skipped
      /\ tool'.todo = [tool.todo EXCEPT ![c] = Tail(s)]
      /\ tool' = [op |-> tool'.op, for |-> tool'.for, skipped |-> tool'.skipped, todo |-> tool'.todo]
  BY <1>4
<1>6. /\ tool'.todo[c] = Tail(s) /\ DOMAIN tool'.todo = Cards
      /\ \A b \in Cards \ {c} : tool'.todo[b] = tool.todo[b]
  BY <1>1, <1>5
<1>7. /\ s \in Seq(WorkEvents) /\ s # <<>> /\ \A i \in DOMAIN s : WorkEvent(s[i])
  BY <1>1
<1> DEFINE t == Tail(s)
<1>8. /\ Head(s) = s[1] /\ 1 \in DOMAIN s /\ t \in Seq(WorkEvents)
      /\ \A j \in DOMAIN t : j + 1 \in DOMAIN s /\ j + 1 # 1 /\ t[j] = s[j + 1]
      /\ \A i \in DOMAIN s : i = 1 \/ (i - 1 \in DOMAIN t /\ t[i - 1] = s[i])
  BY <1>7, HeadTail
<1>9. tool'.todo[c] = t
  BY <1>6
<1> HIDE DEF s, t
<1>10. \A j \in DOMAIN t : /\ t[j].act # "create" /\ WorkEvent(t[j])
                           /\ \E i \in DOMAIN s : t[j] = s[i]
  BY <1>2, <1>7, <1>8
<1>11. ToolOK'
  <2>1. \A b \in Cards : /\ tool'.todo[b] \in Seq(WorkEvents)
                         /\ \A i \in DOMAIN tool'.todo[b] : WorkEvent(tool'.todo[b][i])
    BY <1>1, <1>6, <1>8, <1>9, <1>10
  <2> QED BY <1>1, <1>5, <1>6, <2>1 DEF ToolOK, Checking, Ended
<1>12. Acts(c) = {s[i].act : i \in DOMAIN s} /\ Acts(c)' = {t[j].act : j \in DOMAIN t}
  BY <1>9 DEF Acts, s
<1>13. Acts(c) \subseteq Acts(c)' \cup {Head(s).act} /\ "create" \notin Acts(c)'
  BY <1>8, <1>10, <1>12
<1>14. \A b \in Cards \ {c} : Acts(b)' = Acts(b)
  BY <1>6 DEF Acts
<1> QED
  BY <1>5, <1>6, <1>7, <1>8, <1>9, <1>10, <1>11, <1>13, <1>14 DEF s

\* While a tool appends, the other parts of the invariant go by what it leaves alone.
LEMMA AppendRest ==
  ASSUME MigrationInv, tool'.op = "append", UNCHANGED <<ver, seen, clean>>
  PROVE  Inventory' /\ SnapshotReal' /\ Undisturbed' /\ ExportDone'
<1>1. tool' # NoTool
  BY DEF NoTool
<1> QED
  BY <1>1 DEF MigrationInv, Inventory, SnapshotReal, Undisturbed, ExportDone, Checking

LEMMA LegacyKept ==
  ASSUME UNCHANGED <<agent, patch, index>>, NEW b,
         (b \in core /\ store[b].voided)' = (b \in core /\ store[b].voided)
  PROVE  LegacyCard(Disk, b)' = LegacyCard(Disk, b)
<1>1. /\ Disk.agents = agent /\ Disk.overlay.patch = patch /\ Disk.overlay.index = index
      /\ Disk.cards.core = core /\ Disk.cards.store = store
      /\ Disk'.agents = agent /\ Disk'.overlay.patch = patch /\ Disk'.overlay.index = index
      /\ Disk'.cards.core = core' /\ Disk'.cards.store = store'
  BY DEF Disk
<1>2. ViewStatus(Disk, b)' = ViewStatus(Disk, b) /\ ViewOwner(Disk, b)' = ViewOwner(Disk, b)
  BY <1>1 DEF ViewStatus, ViewOwner, Held
<1> QED
  BY <1>1, <1>2 DEF LegacyCard

LEMMA AppendSkip ==
  ASSUME MigrationInv, tool.op = "append", NEW c \in Cards, tool.todo[c] # <<>>,
         Head(tool.todo[c]).act = "create", c \in core,
         tool' = [tool EXCEPT !.todo[c] = <<>>],
         UNCHANGED <<task, core, store, agent, patch, index, ver, writer, seen, clean, writes, faults>>
  PROVE  MigrationInv'
<1>1. /\ tool = [op |-> "append", for |-> tool.for, skipped |-> tool.skipped, todo |-> tool.todo]
      /\ tool.for \in Ended /\ tool.skipped \in SUBSET Cards /\ DOMAIN tool.todo = Cards
      /\ \A b \in Cards : /\ tool.todo[b] \in Seq(WorkEvents)
                          /\ \A i \in DOMAIN tool.todo[b] : WorkEvent(tool.todo[b][i])
  BY DEF MigrationInv, ToolOK
<1>2. tool' = [op |-> "append", for |-> tool.for, skipped |-> tool.skipped,
               todo |-> [tool.todo EXCEPT ![c] = <<>>]]
  BY <1>1
<1>3. /\ tool'.op = "append" /\ tool'.for = tool.for /\ tool'.skipped = tool.skipped
      /\ tool' = [op |-> tool'.op, for |-> tool'.for, skipped |-> tool'.skipped, todo |-> tool'.todo]
      /\ tool'.todo = [tool.todo EXCEPT ![c] = <<>>]
  BY <1>2
<1>4. /\ tool'.todo[c] = <<>> /\ DOMAIN tool'.todo = Cards
      /\ \A b \in Cards \ {c} : tool'.todo[b] = tool.todo[b] /\ Acts(b)' = Acts(b)
  BY <1>1, <1>3 DEF Acts
<1>5. Acts(c)' = {}
  BY <1>4, NoEvents DEF Acts
<1>6. "create" \in Acts(c)
  <2>1. tool.todo[c][1] = Head(tool.todo[c]) /\ 1 \in DOMAIN tool.todo[c]
    BY <1>1, HeadTail
  <2> QED BY <2>1 DEF Acts
<1>7. c \in tool.skipped /\ tool.for = "imported"
  BY <1>1, <1>6 DEF MigrationInv, CreatesFirst, Ended
<1>8. ToolOK'
  <2>1. \A b \in Cards : /\ tool'.todo[b] \in Seq(WorkEvents)
                         /\ \A i \in DOMAIN tool'.todo[b] : WorkEvent(tool'.todo[b][i])
    BY <1>1, <1>4, NoEvents
  <2> QED BY <1>1, <1>3, <1>4, <2>1 DEF ToolOK, Checking, Ended
<1>9. CreatesFirst'
  <2> SUFFICES ASSUME NEW b \in Cards
        PROVE  /\ tool'.for = "reconciled" => "create" \notin Acts(b)'
               /\ \A i \in DOMAIN tool'.todo[b] : tool'.todo[b][i].act = "create" => i = 1
               /\ "create" \in Acts(b)' /\ b \in core' => b \in tool'.skipped
               /\ tool'.todo[b] # <<>> => b \in core' \/ "create" \in Acts(b)'
    BY DEF CreatesFirst
  <2>1. CASE b = c
    BY <1>4, <1>5, <2>1, NoEvents
  <2>2. CASE b # c
    BY <1>3, <1>4, <2>2 DEF MigrationInv, CreatesFirst
  <2> QED BY <2>1, <2>2
<1>10. Replayed'
  <2> SUFFICES ASSUME clean', NEW b \in Mine' PROVE Promised(b)'
    BY <1>3 DEF Replayed, Ended
  <2>1. b \in Mine /\ b # c /\ b \in Cards
    BY <1>3, <1>7 DEF Mine
  <2>2. Promised(b)
    BY <2>1 DEF MigrationInv, Replayed
  <2>3. LegacyCard(Disk, b)' = LegacyCard(Disk, b)
    BY LegacyKept
  <2>4. StatusRight(b)' = StatusRight(b)
    BY <1>3, <2>3 DEF StatusRight
  <2> QED
    BY <1>3, <1>4, <2>1, <2>2, <2>3, <2>4 DEF Promised, Fits
<1>11. TypeOK' /\ WriterOK' /\ Coreless'
  <2>1. ver' \in Vers /\ clean' \in BOOLEAN /\ faults' \in Nat
    BY DEF MigrationInv, TypeOK, Inventory
  <2> QED BY <2>1, DiskKept
<1> QED
  BY <1>3, <1>8, <1>9, <1>10, <1>11, AppendRest DEF MigrationInv

LEMMA AppendCreate ==
  ASSUME MigrationInv, tool.op = "append", NEW c \in Cards, tool.todo[c] # <<>>,
         Head(tool.todo[c]).act = "create", c \notin core,
         core' = core \cup {c}, tool' = [tool EXCEPT !.todo[c] = Tail(@)],
         UNCHANGED <<task, store, agent, patch, index, ver, writer, seen, clean, writes, faults>>
  PROVE  MigrationInv'
<1>1. /\ tool'.op = "append" /\ tool'.for = tool.for /\ tool'.skipped = tool.skipped
      /\ \A b \in Cards \ {c} : tool'.todo[b] = tool.todo[b] /\ Acts(b)' = Acts(b)
      /\ ToolOK'
      /\ Head(tool.todo[c]) = tool.todo[c][1] /\ 1 \in DOMAIN tool.todo[c]
      /\ Acts(c) \subseteq Acts(c)' \cup {"create"}
      /\ "create" \notin Acts(c)'
      /\ \A j \in DOMAIN tool'.todo[c] :
           /\ tool'.todo[c][j].act # "create"
           /\ \E i \in DOMAIN tool.todo[c] : tool'.todo[c][j] = tool.todo[c][i]
  BY TailTodo
<1>2. "create" \in Acts(c)
  BY <1>1 DEF Acts
<1>3. tool.for = "imported"
  BY <1>2 DEF MigrationInv, CreatesFirst, ToolOK, Ended
<1>4. store[c].voided = FALSE
  BY DEF MigrationInv, Coreless, TypeOK, CardStates
<1>5. CreatesFirst'
  <2> SUFFICES ASSUME NEW b \in Cards
        PROVE  /\ tool'.for = "reconciled" => "create" \notin Acts(b)'
               /\ \A i \in DOMAIN tool'.todo[b] : tool'.todo[b][i].act = "create" => i = 1
               /\ "create" \in Acts(b)' /\ b \in core' => b \in tool'.skipped
               /\ tool'.todo[b] # <<>> => b \in core' \/ "create" \in Acts(b)'
    BY DEF CreatesFirst
  <2>1. CASE b = c
    BY <1>1, <2>1
  <2>2. CASE b # c
    BY <1>1, <2>2 DEF MigrationInv, CreatesFirst
  <2> QED BY <2>1, <2>2
<1>6. Replayed'
  <2> SUFFICES ASSUME clean', NEW b \in Mine' PROVE Promised(b)'
    BY <1>1 DEF Replayed, Ended
  <2>1. b \in Mine /\ b \in Cards
    BY <1>1, <1>3 DEF Mine
  <2>2. Promised(b)
    BY <2>1 DEF MigrationInv, Replayed
  <2>3. LegacyCard(Disk, b)' = LegacyCard(Disk, b)
    <3>1. (b \in core /\ store[b].voided)' = (b \in core /\ store[b].voided)
      BY <1>4
    <3> QED BY <3>1, LegacyKept
  <2>4. StatusRight(b)' = StatusRight(b)
    BY <1>1, <2>3 DEF StatusRight
  <2>5. CASE b # c
    BY <1>1, <2>1, <2>2, <2>3, <2>4, <2>5 DEF Promised, Fits
  <2>6. CASE b = c
    <3>1. \A j \in DOMAIN tool'.todo[c] : Fits(tool'.todo[c][j], LegacyCard(Disk, c))
      BY <1>1, <2>2, <2>6 DEF Promised
    <3>2. /\ StatusRight(c) \/ "move" \in Acts(c)'
          /\ store[c].owner = LegacyCard(Disk, c).owner \/ Acts(c)' \cap {"assign", "unassign"} # {}
          /\ store[c].archived = LegacyCard(Disk, c).archived \/ Acts(c)' \cap {"archive", "reopen"} # {}
      BY <1>1, <2>2, <2>6 DEF Promised
    <3> QED
      BY <2>3, <2>4, <2>6, <3>1, <3>2 DEF Promised, Fits
  <2> QED BY <2>5, <2>6
<1>7. TypeOK' /\ WriterOK' /\ Coreless'
  BY <1>4 DEF MigrationInv, TypeOK, WriterOK, Coreless
<1> QED
  BY <1>1, <1>5, <1>6, <1>7, AppendRest DEF MigrationInv

LEMMA AppendApply ==
  ASSUME MigrationInv, tool.op = "append", NEW c \in Cards, tool.todo[c] # <<>>,
         NEW e, e = Head(tool.todo[c]), e.act # "create",
         ~(store[c].voided /\ e.act \in VoidTerminalActions),
         store' = [store EXCEPT ![c] = Correct(@, e)], tool' = [tool EXCEPT !.todo[c] = Tail(@)],
         UNCHANGED <<task, core, agent, patch, index, ver, writer, seen, clean, writes, faults>>
  PROVE  MigrationInv'
<1>1. /\ tool'.op = "append" /\ tool'.for = tool.for /\ tool'.skipped = tool.skipped
      /\ \A b \in Cards \ {c} : tool'.todo[b] = tool.todo[b] /\ Acts(b)' = Acts(b)
      /\ ToolOK'
      /\ WorkEvent(e) /\ e = tool.todo[c][1] /\ 1 \in DOMAIN tool.todo[c]
      /\ Acts(c) \subseteq Acts(c)' \cup {e.act}
      /\ "create" \notin Acts(c)'
      /\ \A j \in DOMAIN tool'.todo[c] :
           /\ tool'.todo[c][j].act # "create"
           /\ \E i \in DOMAIN tool.todo[c] : tool'.todo[c][j] = tool.todo[c][i]
  BY TailTodo
<1>2. c \in core
  <2>1. ASSUME "create" \in Acts(c) PROVE FALSE
    <3>1. PICK i \in DOMAIN tool.todo[c] : tool.todo[c][i].act = "create"
      BY <2>1 DEF Acts
    <3>2. i = 1
      BY <3>1 DEF MigrationInv, CreatesFirst
    <3> QED BY <1>1, <3>1, <3>2
  <2> QED BY <2>1 DEF MigrationInv, CreatesFirst
<1>3. store \in [Cards -> CardStates] /\ store[c] \in CardStates
  BY DEF MigrationInv, TypeOK
<1>4. /\ store'[c] = Correct(store[c], e)
      /\ \A b \in Cards \ {c} : store'[b] = store[b]
  BY <1>3
<1>5. /\ store'[c] \in CardStates
      /\ store'[c].voided = store[c].voided
      /\ store'[c].status = IF e.act = "move" \/ (e.act = "reopen" /\ e.col # None)
                            THEN e.col ELSE store[c].status
      /\ store'[c].owner = CASE e.act = "assign" -> e.who [] e.act = "unassign" -> None
                             [] OTHER -> store[c].owner
      /\ store'[c].archived = CASE e.act = "archive" -> TRUE [] e.act = "reopen" -> FALSE
                                [] OTHER -> store[c].archived
  BY <1>1, <1>3, <1>4, CorrectEffect
<1>6. CreatesFirst'
  <2> SUFFICES ASSUME NEW b \in Cards
        PROVE  /\ tool'.for = "reconciled" => "create" \notin Acts(b)'
               /\ \A i \in DOMAIN tool'.todo[b] : tool'.todo[b][i].act = "create" => i = 1
               /\ "create" \in Acts(b)' /\ b \in core' => b \in tool'.skipped
               /\ tool'.todo[b] # <<>> => b \in core' \/ "create" \in Acts(b)'
    BY DEF CreatesFirst
  <2>1. CASE b = c
    BY <1>1, <1>2, <2>1
  <2>2. CASE b # c
    BY <1>1, <2>2 DEF MigrationInv, CreatesFirst
  <2> QED BY <2>1, <2>2
<1>7. Replayed'
  <2> SUFFICES ASSUME clean', NEW b \in Mine' PROVE Promised(b)'
    BY <1>1 DEF Replayed, Ended
  <2>1. b \in Mine /\ b \in Cards
    BY <1>1 DEF Mine, Compared, Disk
  <2>2. Promised(b)
    BY <2>1 DEF MigrationInv, Replayed
  <2>3. LegacyCard(Disk, b)' = LegacyCard(Disk, b)
    <3>1. store'[b].voided = store[b].voided
      BY <1>4, <1>5, <2>1
    <3> QED BY <3>1, LegacyKept
  <2>5. CASE b # c
    <3>1. store'[b] = store[b]
      BY <1>4, <2>1, <2>5
    <3>2. StatusRight(b)' = StatusRight(b)
      BY <1>1, <2>3, <3>1 DEF StatusRight
    <3> QED
      BY <1>1, <2>1, <2>2, <2>3, <2>5, <3>1, <3>2 DEF Promised, Fits
  <2>6. CASE b = c
    <3> DEFINE l == LegacyCard(Disk, c)
    <3>0. l.archived \in BOOLEAN
      BY DiskType, LegacyType DEF MigrationInv
    <3> HIDE DEF l
    <3>1. /\ \A i \in DOMAIN tool.todo[c] : Fits(tool.todo[c][i], l)
          /\ StatusRight(c) \/ "move" \in Acts(c)
          /\ store[c].owner = l.owner \/ Acts(c) \cap {"assign", "unassign"} # {}
          /\ store[c].archived = l.archived \/ Acts(c) \cap {"archive", "reopen"} # {}
      BY <2>2, <2>6 DEF Promised, l
    <3>2. Fits(e, l) /\ \A j \in DOMAIN tool'.todo[c] : Fits(tool'.todo[c][j], l)
      BY <1>1, <3>1
    <3>3. StatusRight(c)' \/ "move" \in Acts(c)'
      <4>1. CASE e.act = "move" \/ (e.act = "reopen" /\ e.col # None)
        <5>1. store'[c].status = l.status
          BY <1>5, <3>2, <4>1 DEF Fits
        <5> QED BY <2>3, <2>6, <5>1 DEF StatusRight, l
      <4>2. CASE ~(e.act = "move" \/ (e.act = "reopen" /\ e.col # None))
        <5>1. store'[c].status = store[c].status
          BY <1>5, <4>2
        <5>2. StatusRight(c)' = StatusRight(c)
          BY <1>1, <2>3, <2>6, <5>1 DEF StatusRight
        <5> QED BY <1>1, <3>1, <4>2, <5>2
      <4> QED BY <4>1, <4>2
    <3>4. store'[c].owner = l.owner \/ Acts(c)' \cap {"assign", "unassign"} # {}
      <4>1. CASE e.act \in {"assign", "unassign"}
        BY <1>5, <3>2, <4>1 DEF Fits
      <4>2. CASE e.act \notin {"assign", "unassign"}
        <5>1. store'[c].owner = store[c].owner
          BY <1>5, <4>2
        <5> QED BY <1>1, <3>1, <4>2, <5>1
      <4> QED BY <4>1, <4>2
    <3>5. store'[c].archived = l.archived \/ Acts(c)' \cap {"archive", "reopen"} # {}
      <4>1. CASE e.act \in {"archive", "reopen"}
        <5>1. e.act = "archive" => store'[c].archived = TRUE /\ l.archived = TRUE
          BY <1>5, <3>0, <3>2 DEF Fits
        <5>2. e.act = "reopen" => store'[c].archived = FALSE /\ l.archived = FALSE
          BY <1>5, <3>0, <3>2 DEF Fits
        <5> QED BY <4>1, <5>1, <5>2
      <4>2. CASE e.act \notin {"archive", "reopen"}
        <5>1. store'[c].archived = store[c].archived
          BY <1>5, <4>2
        <5> QED BY <1>1, <3>1, <4>2, <5>1
      <4> QED BY <4>1, <4>2
    <3>6. LegacyCard(Disk, c)' = l
      BY <2>3, <2>6 DEF l
    <3> QED
      BY <1>2, <2>6, <3>2, <3>3, <3>4, <3>5, <3>6 DEF Promised, Fits
  <2> QED BY <2>5, <2>6
<1>8. TypeOK' /\ WriterOK' /\ Coreless'
  <2>1. store' \in [Cards -> CardStates]
    BY <1>3, <1>4, <1>5
  <2>2. TypeOK' /\ WriterOK'
    BY <2>1 DEF MigrationInv, TypeOK, WriterOK
  <2>3. Coreless'
    BY <1>2, <1>4 DEF MigrationInv, Coreless
  <2> QED BY <2>2, <2>3
<1> QED
  BY <1>1, <1>6, <1>7, <1>8, AppendRest DEF MigrationInv

LEMMA AppendNextInv == ASSUME MigrationInv, AppendNext PROVE MigrationInv'
<1>1. PICK c \in Cards : c = NextCard(tool.todo)
  BY NextCardDue DEF AppendNext, MigrationInv
<1>2. PICK e : e = Head(tool.todo[c])
  OBVIOUS
<1>3. /\ tool.op = "append" /\ tool.todo[c] # <<>> /\ e = Head(tool.todo[c])
      /\ clean' = (clean \/ tool' = NoTool)
      /\ UNCHANGED <<task, agent, patch, index, ver, writer, seen, writes, faults>>
  BY <1>1, <1>2, NextCardDue DEF AppendNext, MigrationInv
<1>4. \/ /\ e.act = "create" /\ c \in core
         /\ tool' = [tool EXCEPT !.todo[c] = <<>>]
         /\ UNCHANGED <<core, store>>
      \/ /\ e.act = "create" /\ c \notin core
         /\ core' = core \cup {c} /\ tool' = [tool EXCEPT !.todo[c] = Tail(@)]
         /\ UNCHANGED store
      \/ /\ e.act # "create" /\ ~(store[c].voided /\ e.act \in VoidTerminalActions)
         /\ store' = [store EXCEPT ![c] = Correct(@, e)]
         /\ tool' = [tool EXCEPT !.todo[c] = Tail(@)]
         /\ UNCHANGED core
      \/ tool' = NoTool /\ UNCHANGED <<core, store>>
  BY <1>1, <1>2 DEF AppendNext
<1>5. CASE tool' = NoTool /\ UNCHANGED <<core, store>>
  <2>1. clean' = TRUE /\ ver' \in Vers /\ seen' \in SUBSET Vers /\ faults' \in Nat
    BY <1>3, <1>5 DEF MigrationInv, Inventory, TypeOK
  <2> QED
    BY <1>3, <1>5, <2>1, ToolEnds, DiskKept DEF MigrationInv
<1>6. ASSUME tool' # NoTool PROVE clean' = clean
  BY <1>3, <1>6 DEF MigrationInv, TypeOK
<1>7. NoTool.op = "none"
  BY DEF NoTool
<1>8. tool = [op |-> "append", for |-> tool.for, skipped |-> tool.skipped, todo |-> tool.todo]
  BY <1>3 DEF MigrationInv, ToolOK
<1>9. \A x : [tool EXCEPT !.todo = x].op = "append"
  BY ONLY <1>8
<1>10. CASE e.act = "create" /\ c \in core /\ tool' = [tool EXCEPT !.todo[c] = <<>>]
            /\ UNCHANGED <<core, store>>
  <2>1. clean' = clean
    BY <1>6, <1>7, <1>9, <1>10
  <2> QED BY <1>3, <1>10, <2>1, AppendSkip
<1>11. CASE e.act = "create" /\ c \notin core /\ core' = core \cup {c}
            /\ tool' = [tool EXCEPT !.todo[c] = Tail(@)] /\ UNCHANGED store
  <2>1. clean' = clean
    BY <1>6, <1>7, <1>9, <1>11
  <2> QED BY <1>3, <1>11, <2>1, AppendCreate
<1>12. CASE e.act # "create" /\ ~(store[c].voided /\ e.act \in VoidTerminalActions)
            /\ store' = [store EXCEPT ![c] = Correct(@, e)]
            /\ tool' = [tool EXCEPT !.todo[c] = Tail(@)] /\ UNCHANGED core
  <2>1. clean' = clean
    BY <1>6, <1>7, <1>9, <1>12
  <2> QED BY <1>3, <1>12, <2>1, AppendApply
<1> QED
  BY <1>4, <1>5, <1>10, <1>11, <1>12

LEMMA AppendedInv == ASSUME MigrationInv, Appended PROVE MigrationInv'
<1>1. /\ tool.op = "append" /\ Due(tool.todo) = {} /\ tool' = [tool EXCEPT !.op = tool.for]
      /\ UNCHANGED <<task, core, store, agent, patch, index, ver, writer, seen, clean, writes, faults>>
  BY DEF Appended, disk
<1>2. /\ tool = [op |-> "append", for |-> tool.for, skipped |-> tool.skipped, todo |-> tool.todo]
      /\ tool.for \in Ended /\ tool.skipped \in SUBSET Cards /\ DOMAIN tool.todo = Cards
      /\ \A c \in Cards : /\ tool.todo[c] \in Seq(WorkEvents)
                          /\ \A i \in DOMAIN tool.todo[c] : WorkEvent(tool.todo[c][i])
  BY <1>1 DEF MigrationInv, ToolOK
<1>3. /\ tool' = [op |-> tool.for, for |-> tool.for, skipped |-> tool.skipped, todo |-> tool.todo]
  BY <1>1, <1>2
<1>4. /\ tool'.op = tool.for /\ tool'.for = tool.for /\ tool'.skipped = tool.skipped
      /\ tool'.todo = tool.todo /\ tool'.op \in {"reconciled", "imported"}
  BY <1>2, <1>3 DEF Ended
<1>5. \A c \in Cards : tool.todo[c] = <<>>
  BY <1>1, CardIndices DEF Due
<1>6. ToolOK'
  BY <1>2, <1>3, <1>4 DEF ToolOK, Checking, Ended
<1>7. TypeOK' /\ WriterOK' /\ Coreless' /\ Disk' = Disk
  <2>1. ver' \in Vers /\ clean' \in BOOLEAN /\ faults' \in Nat
    BY <1>1 DEF MigrationInv, TypeOK, Inventory
  <2> QED BY <1>1, <2>1, DiskKept
<1>8. Inventory' /\ SnapshotReal' /\ Undisturbed' /\ CreatesFirst' /\ ExportDone'
  <2>1. tool' # NoTool
    BY <1>4 DEF NoTool
  <2> QED
    BY <1>1, <1>4, <2>1 DEF MigrationInv, Inventory, SnapshotReal, Undisturbed, CreatesFirst,
                            ExportDone, Checking
<1>9. Replayed'
  <2> SUFFICES ASSUME clean', NEW c \in Mine' PROVE Promised(c)'
    BY <1>4, <1>5 DEF Replayed
  <2>1. c \in Mine
    BY <1>1, <1>4 DEF Mine, Compared, Disk
  <2>2. Promised(c)
    BY <1>1, <2>1 DEF MigrationInv, Replayed
  <2>3. LegacyCard(Disk, c)' = LegacyCard(Disk, c)
    BY <1>7, LegacyStable
  <2>4. StatusRight(c)' = StatusRight(c) /\ Acts(c)' = Acts(c)
    BY <1>1, <1>4, <2>3 DEF StatusRight, Acts
  <2> QED
    BY <1>1, <1>4, <2>2, <2>3, <2>4 DEF Promised, Fits
<1> QED
  BY <1>6, <1>7, <1>8, <1>9 DEF MigrationInv

-----------------------------------------------------------------------------
(* The export *)

LEMMA StartExportInv == ASSUME MigrationInv, StartExport PROVE MigrationInv'
<1>1. /\ tool = NoTool /\ tool' = [op |-> "tasks", snap |-> Disk]
      /\ UNCHANGED <<task, core, store, agent, patch, index, ver, writer, seen, clean, writes, faults>>
  BY DEF StartExport, disk
<1>2. tool'.op = "tasks" /\ tool'.snap = Disk
  BY <1>1
<1>3. TypeOK' /\ WriterOK' /\ Coreless' /\ Disk' = Disk
  <2>1. ver' \in Vers /\ clean' \in BOOLEAN /\ faults' \in Nat
    BY <1>1 DEF MigrationInv, TypeOK, Inventory
  <2> QED BY <1>1, <2>1, DiskKept
<1>4. DiskOK(Disk)
  BY DiskType DEF MigrationInv
<1>5. ToolOK'
  BY <1>1, <1>2, <1>4 DEF ToolOK, Checking, Ended
<1>6. tool' # NoTool
  BY <1>2 DEF NoTool
<1>7. Inventory' /\ SnapshotReal' /\ Undisturbed' /\ CreatesFirst' /\ Replayed' /\ ExportDone'
  BY <1>1, <1>2, <1>3, <1>6 DEF MigrationInv, Inventory, SnapshotReal, Undisturbed, CreatesFirst,
                                Replayed, ExportDone, Checking, Ended
<1> QED
  BY <1>3, <1>5, <1>7 DEF MigrationInv

LEMMA ExportTasksInv == ASSUME MigrationInv, ExportTasks PROVE MigrationInv'
<1>1. /\ tool.op = "tasks" /\ tool' = [op |-> "agents", snap |-> tool.snap, todo |-> Names]
      /\ task' = [c \in Cards |-> IF task[c] = "none" /\ c \in tool.snap.cards.core
                                  THEN "plain" ELSE task[c]]
      /\ UNCHANGED <<core, store, agent, patch, index, ver, writer, seen, clean, writes, faults>>
  BY DEF ExportTasks
<1>2. tool'.op = "agents" /\ tool'.snap = tool.snap /\ tool'.todo = Names
  BY <1>1
<1>3. DiskOK(tool.snap) /\ (clean => tool.snap = Disk)
  BY <1>1 DEF MigrationInv, ToolOK, Undisturbed
<1>4. TypeOK' /\ WriterOK' /\ Coreless' /\ Disk' = Disk
  BY <1>1 DEF MigrationInv, TypeOK, WriterOK, Coreless, Disk
<1>5. ToolOK'
  BY <1>1, <1>2, <1>3, NamesAssumption DEF ToolOK, Checking, Ended
<1>6. tool' # NoTool
  BY <1>2 DEF NoTool
<1>7. Inventory' /\ SnapshotReal' /\ Undisturbed' /\ CreatesFirst' /\ Replayed'
  BY <1>1, <1>2, <1>3, <1>4, <1>6 DEF MigrationInv, Inventory, SnapshotReal, Undisturbed,
                                      CreatesFirst, Replayed, Checking, Ended
<1>8. ExportDone'
  <2>1. clean => \A c \in core : task'[c] # "none"
    <3>1. core \subseteq Cards /\ Disk.cards.core = core
      BY DEF MigrationInv, TypeOK, Disk
    <3> QED BY <1>1, <1>3, <3>1
  <2>2. \A a \in Agents : \E i \in DOMAIN Names : Names[i] = a
    BY NameIndices
  <2> QED
    BY <1>1, <1>2, <2>1, <2>2 DEF ExportDone
<1> QED
  BY <1>4, <1>5, <1>7, <1>8 DEF MigrationInv

\* A list is its head and its tail.
LEMMA TailRest ==
  ASSUME NEW S, NEW s \in Seq(S), s # <<>>
  PROVE  /\ Tail(s) \in Seq(S)
         /\ Len(s) = 1 => DOMAIN Tail(s) = {}
         /\ \A i \in DOMAIN s :
              s[i] = Head(s) \/ (i - 1 \in DOMAIN Tail(s) /\ Tail(s)[i - 1] = s[i])
<1>1. /\ Tail(s) \in Seq(S) /\ Len(s) \in Nat /\ DOMAIN s = 1 .. Len(s)
      /\ Len(Tail(s)) = Len(s) - 1 /\ DOMAIN Tail(s) = 1 .. Len(s) - 1
      /\ Head(s) = s[1]
  OBVIOUS
<1>2. \A i \in 1 .. Len(s) - 1 : Tail(s)[i] = s[i + 1]
  BY <1>1
<1>3. ASSUME NEW i \in DOMAIN s, i # 1
      PROVE  i - 1 \in DOMAIN Tail(s) /\ Tail(s)[i - 1] = s[i]
  <2>1. i - 1 \in 1 .. Len(s) - 1 /\ (i - 1) + 1 = i
    BY <1>1, <1>3
  <2> QED BY <1>1, <1>2, <2>1
<1> QED
  BY <1>1, <1>3

LEMMA ExportAgentInv == ASSUME MigrationInv, ExportAgent PROVE MigrationInv'
<1>1. /\ tool.op = "agents" /\ tool.todo # <<>>
      /\ agent' = [agent EXCEPT ![Head(tool.todo)] = Exported(tool.snap, Head(tool.todo))]
      /\ tool' = IF Len(tool.todo) = 1 THEN [op |-> "exported"] ELSE [tool EXCEPT !.todo = Tail(@)]
      /\ UNCHANGED <<task, core, store, patch, index, ver, writer, seen, clean, writes, faults>>
  BY DEF ExportAgent, Rebuilt
<1>2. /\ tool = [op |-> "agents", snap |-> tool.snap, todo |-> tool.todo]
      /\ DiskOK(tool.snap) /\ tool.todo \in Seq(Agents)
      /\ clean => tool.snap.cards = Disk.cards
      /\ clean => \A c \in core : task[c] # "none"
      /\ clean => \A b \in Agents : \/ agent[b] = Exported(tool.snap, b)
                                    \/ \E i \in DOMAIN tool.todo : tool.todo[i] = b
  BY <1>1 DEF MigrationInv, ToolOK, Undisturbed, ExportDone
<1>3. PICK a \in Agents : a = Head(tool.todo)
  BY <1>1, <1>2
<1>4. /\ agent \in [Agents -> Holds] /\ Exported(tool.snap, a) \in Holds
  BY <1>2, ExportedType DEF MigrationInv, TypeOK, Holds
<1>5. /\ agent' \in [Agents -> Holds] /\ agent'[a] = Exported(tool.snap, a)
      /\ \A b \in Agents \ {a} : agent'[b] = agent[b]
  BY <1>1, <1>3, <1>4
<1>6. TypeOK' /\ WriterOK' /\ Coreless'
  BY <1>1, <1>5 DEF MigrationInv, TypeOK, Holds, WriterOK, Coreless
<1>7. /\ Tail(tool.todo) \in Seq(Agents)
      /\ Len(tool.todo) = 1 => DOMAIN Tail(tool.todo) = {}
      /\ \A i \in DOMAIN tool.todo :
           \/ tool.todo[i] = a
           \/ i - 1 \in DOMAIN Tail(tool.todo) /\ Tail(tool.todo)[i - 1] = tool.todo[i]
  BY <1>1, <1>2, <1>3, TailRest
<1>8. clean => \A b \in Agents : \/ agent'[b] = Exported(tool.snap, b)
                                 \/ \E i \in DOMAIN Tail(tool.todo) : Tail(tool.todo)[i] = b
  <2> SUFFICES ASSUME clean, NEW b \in Agents, b # a, agent[b] # Exported(tool.snap, b)
        PROVE  \E i \in DOMAIN Tail(tool.todo) : Tail(tool.todo)[i] = b
    BY <1>5
  <2>1. PICK i \in DOMAIN tool.todo : tool.todo[i] = b
    BY <1>2
  <2> QED BY <1>7, <2>1
<1>9. Disk'.cards = Disk.cards
  BY <1>1 DEF Disk
<1>10. CASE Len(tool.todo) = 1
  <2>1. tool' = [op |-> "exported"] /\ tool'.op = "exported" /\ tool' # NoTool
    BY <1>1, <1>10 DEF NoTool
  <2>2. ToolOK'
    BY <2>1 DEF ToolOK, Checking, Ended
  <2>3. Inventory' /\ SnapshotReal' /\ Undisturbed' /\ CreatesFirst' /\ Replayed'
    BY <1>1, <2>1 DEF MigrationInv, Inventory, SnapshotReal, Undisturbed, CreatesFirst, Replayed,
                      Checking, Ended
  <2>4. clean => \A b \in Agents : agent'[b] = Exported(tool.snap, b)
    BY <1>7, <1>8, <1>10
  <2>8. clean => Disk'.cards = tool.snap.cards
    BY <1>2, <1>9
  <2>5. clean => \A b \in Agents : Exported(Disk', b) = Exported(tool.snap, b)
    BY ONLY <2>8 DEF Exported
  <2>6. \A b \in Agents : Exported(Disk, b)' = Exported(Disk', b)
    BY DEF Exported
  <2>7. ExportDone'
    BY <1>1, <1>2, <2>1, <2>4, <2>5, <2>6 DEF ExportDone
  <2> QED BY <1>6, <2>2, <2>3, <2>7 DEF MigrationInv
<1>11. CASE Len(tool.todo) # 1
  <2>1. tool' = [op |-> "agents", snap |-> tool.snap, todo |-> Tail(tool.todo)]
    BY <1>1, <1>2, <1>11
  <2>2. tool'.op = "agents" /\ tool'.snap = tool.snap /\ tool'.todo = Tail(tool.todo) /\ tool' # NoTool
    BY <2>1 DEF NoTool
  <2>3. ToolOK'
    BY <1>2, <1>7, <2>1, <2>2 DEF ToolOK, Checking, Ended
  <2>4. Inventory' /\ SnapshotReal' /\ Undisturbed' /\ CreatesFirst' /\ Replayed'
    BY <1>1, <1>2, <1>9, <2>2 DEF MigrationInv, Inventory, SnapshotReal, Undisturbed, CreatesFirst,
                                  Replayed, Checking, Ended
  <2>5. \A b \in Agents : Exported(tool.snap, b)' = Exported(tool.snap, b)
    BY <2>2 DEF Exported
  <2>6. ExportDone'
    BY <1>1, <1>2, <1>8, <2>2, <2>5 DEF ExportDone
  <2> QED BY <1>6, <2>3, <2>4, <2>6 DEF MigrationInv
<1> QED
  BY <1>10, <1>11

LEMMA ToolStops == ASSUME MigrationInv, Report \/ End \/ Crash PROVE MigrationInv'
<1>1. tool' = NoTool /\ Quiet /\ UNCHANGED <<disk, writer, writes>> /\ faults' \in Nat
  BY DEF Report, End, Crash, MigrationInv, TypeOK
<1> QED
  BY <1>1, StopInv

-----------------------------------------------------------------------------
(* Every step keeps the invariant, and the invariant gives the properties *)

LEMMA StepInv == ASSUME MigrationInv, [Next]_vars PROVE MigrationInv'
<1>1. CASE UNCHANGED vars
  <2>1. UNCHANGED <<task, core, store, agent, patch, index, ver, writer, tool, seen, clean, writes,
                    faults>>
    BY <1>1 DEF vars, disk
  <2>2. Disk' = Disk
    BY <2>1 DEF Disk
  <2>3. TypeOK' /\ ToolOK' /\ WriterOK' /\ Inventory' /\ SnapshotReal' /\ Undisturbed' /\ Coreless'
        /\ CreatesFirst'
    BY <2>1, <2>2 DEF MigrationInv, TypeOK, ToolOK, DiskOK, WriterOK, Inventory, Moment, SnapshotReal,
                      Undisturbed, Coreless, CreatesFirst, Acts
  <2>4. Replayed' /\ ExportDone'
    BY <2>1, <2>2, ReplayedStable, ExportStable DEF MigrationInv
  <2> QED BY <2>3, <2>4 DEF MigrationInv
<1>2. CASE Others
  BY <1>2, OthersTool, OthersDisk DEF MigrationInv
<1>3. CASE StartParity
  <2>1. Fresh(1) /\ UNCHANGED <<disk, writer, writes, faults>>
    BY <1>3 DEF StartParity
  <2> QED BY <2>1, FreshInv
<1> QED
  BY <1>1, <1>2, <1>3, ReadFileInv, ToolStops, ReconcileInv, StartImportInv, AppendNextInv,
     AppendedInv, StartExportInv, ExportTasksInv, ExportAgentInv DEF Next

LEMMA ReplayedFaithful == ASSUME MigrationInv PROVE StoreFollowsLegacy
<1> DEFINE l(c) == LegacyCard(Disk, c)
<1>1. ASSUME tool.op \in Ended, clean, NEW c \in Mine
      PROVE  /\ StatusRight(c) /\ store[c].owner = l(c).owner /\ store[c].archived = l(c).archived
             /\ tool.for = tool.op
             /\ tool.for = "imported" => c \in core
  <2>1. c \in Cards /\ tool.for = tool.op
    BY <1>1 DEF Mine, Compared, MigrationInv, ToolOK
  <2>2. tool.todo[c] = <<>>
    BY <1>1, <2>1 DEF MigrationInv, Replayed
  <2>3. Acts(c) = {}
    BY <2>2, NoEvents DEF Acts
  <2>4. Promised(c)
    BY <1>1 DEF MigrationInv, Replayed
  <2> QED BY <2>1, <2>3, <2>4 DEF Promised
<1>2. ReconcileConverges
  <2> SUFFICES ASSUME tool.op = "reconciled", clean, NEW c \in Compared(Disk) \ tool.skipped
        PROVE  Diff(Disk, c) = {}
    BY DEF ReconcileConverges
  <2>1. tool.op \in Ended /\ tool.for = "reconciled"
    BY DEF Ended, MigrationInv, ToolOK
  <2>2. c \in Mine
    BY <2>1 DEF Mine
  <2>3. /\ task[c] = "status" => Bucket(l(c).status) = Bucket(store[c].status)
        /\ store[c].owner = l(c).owner /\ store[c].archived = l(c).archived
    BY <1>1, <2>1, <2>2 DEF StatusRight
  <2>4. Disk.cards.store = store
    BY DEF Disk
  <2> QED BY <2>3, <2>4 DEF Diff
<1>3. ImportFaithful
  <2> SUFFICES ASSUME tool.op = "imported", clean, NEW c \in Cards \ tool.skipped, task[c] # "none"
        PROVE  /\ c \in core
               /\ <<store[c].status, store[c].owner, store[c].archived>>
                    = <<l(c).status, l(c).owner, l(c).archived>>
    BY DEF ImportFaithful
  <2>1. tool.op \in Ended /\ tool.for = "imported"
    BY DEF Ended, MigrationInv, ToolOK
  <2>2. c \in Mine
    BY <2>1 DEF Mine
  <2> QED BY <1>1, <2>1, <2>2 DEF StatusRight
<1> QED
  BY <1>2, <1>3 DEF StoreFollowsLegacy

\* After an export the one that holds an active card is its owner, or the exporter, and
\* nobody holds a card that is open or done.
LEMMA ExportedHolds ==
  ASSUME TypeOK, NEW a \in Agents, NEW c \in core, ~store[c].voided, agent[a] = Exported(Disk, a)
  PROVE  LET o == IF store[c].owner = None THEN Exporter ELSE store[c].owner IN
         /\ c \in agent[a].completed <=> store[c].status = "done" /\ o = a
         /\ c \in agent[a].claimed <=> store[c].status \in {"ready", "doing", "review"} /\ o = a
         /\ agent[a].current = c => store[c].status \in {"doing", "review"} /\ o = a
<1> DEFINE d == Disk
           mine(cols) == {x \in d.cards.core :
             LET k == d.cards.store[x] IN
             /\ ~k.voided /\ k.status \in cols
             /\ (IF k.owner = None THEN Exporter ELSE k.owner) = a}
           busy == {i \in DOMAIN CardList : CardList[i] \in mine({"doing", "review"})}
           o == IF store[c].owner = None THEN Exporter ELSE store[c].owner
<1>1. busy # {} => Min(busy) \in busy
  <2>1. busy \in SUBSET Nat
    BY CardIndices
  <2> QED BY <2>1, MinIn
<1>2. agent[a] =
        [current |-> IF busy = {} THEN None ELSE CardList[Min(busy)],
         claimed |-> mine({"ready", "doing", "review"}), completed |-> mine({"done"})]
  BY DEF Exported
<1>3. d.cards.core = core /\ d.cards.store = store
  BY DEF Disk
<1>4. /\ c \in mine({"done"}) <=> store[c].status = "done" /\ o = a
      /\ c \in mine({"ready", "doing", "review"})
           <=> store[c].status \in {"ready", "doing", "review"} /\ o = a
      /\ c \in mine({"doing", "review"}) <=> store[c].status \in {"doing", "review"} /\ o = a
  BY <1>3
<1>5. \A i \in busy : CardList[i] \in mine({"doing", "review"})
  OBVIOUS
<1>6. c # None
  BY NamesAssumption DEF TypeOK
<1> HIDE DEF mine, busy, o
<1>7. agent[a].current = c => c \in mine({"doing", "review"})
  BY <1>1, <1>2, <1>5, <1>6
<1> QED
  BY <1>2, <1>4, <1>7 DEF o

LEMMA ExportedFaithful == ASSUME MigrationInv PROVE ExportFaithful
<1> SUFFICES ASSUME tool.op = "exported", clean, NEW c \in core, patch[c] = NoPatch, ~store[c].voided
      PROVE  LET l == LegacyCard(Disk, c)  k == store[c] IN
             /\ task[c] # "none" /\ Bucket(l.status) = Bucket(k.status)
             /\ l.owner = IF Bucket(k.status) # "active" THEN None
                          ELSE IF k.owner = None THEN Exporter ELSE k.owner
  BY DEF ExportFaithful
<1> DEFINE k == store[c]
           o == IF k.owner = None THEN Exporter ELSE k.owner
<1>1. /\ TypeOK /\ task[c] # "none" /\ \A a \in Agents : agent[a] = Exported(Disk, a)
  BY DEF MigrationInv, ExportDone
<1>2. c \in Cards /\ c # None /\ k.status \in Columns /\ o \in Agents
  BY <1>1, NamesAssumption DEF TypeOK, CardStates
<1>3. Disk.agents = agent /\ Disk.overlay.patch[c] = NoPatch /\ Disk.cards.store[c] = store[c]
  BY DEF Disk
<1>4. /\ LegacyCard(Disk, c).status = ViewStatus(Disk, c)
      /\ LegacyCard(Disk, c).owner = ViewOwner(Disk, c)
  BY <1>3 DEF LegacyCard, NoPatch
<1>5. \A a \in Agents :
         /\ c \in agent[a].completed <=> k.status = "done" /\ o = a
         /\ c \in agent[a].claimed <=> k.status \in {"ready", "doing", "review"} /\ o = a
         /\ agent[a].current = c => k.status \in {"doing", "review"} /\ o = a
  BY <1>1, ExportedHolds
<1> HIDE DEF k, o
<1>6. Bucket(ViewStatus(Disk, c)) = Bucket(k.status)
  BY <1>2, <1>3, <1>5 DEF ViewStatus, Bucket, Columns
<1>7. \A a \in Agents : c \in Held(agent[a]) <=> k.status \in {"ready", "doing", "review"} /\ o = a
  BY <1>2, <1>5 DEF Held
<1>8. ViewOwner(Disk, c) = IF k.status \in {"ready", "doing", "review"} THEN o ELSE None
  <2> DEFINE holders == {i \in DOMAIN Names : c \in Held(Disk.agents[Names[i]])}
  <2>1. holders # {} => Max(holders) \in holders
    <3>1. holders \in SUBSET (1..Len(Names)) /\ Len(Names) \in Nat
      BY NameIndices
    <3> QED BY <3>1, MaxIn
  <2>2. ViewOwner(Disk, c) = IF holders = {} THEN None ELSE Names[Max(holders)]
    BY DEF ViewOwner
  <2>3. \A i \in DOMAIN Names :
          i \in holders <=> k.status \in {"ready", "doing", "review"} /\ o = Names[i]
    BY <1>3, <1>7, NameIndices
  <2>4. holders \subseteq DOMAIN Names
    OBVIOUS
  <2>5. PICK j \in DOMAIN Names : Names[j] = o
    BY <1>2, NameIndices
  <2> HIDE DEF holders
  <2>6. CASE k.status \in {"ready", "doing", "review"}
    <3>1. j \in holders
      BY <2>3, <2>5, <2>6
    <3>2. Max(holders) \in holders /\ Names[Max(holders)] = o
      BY <2>1, <2>3, <2>4, <3>1
    <3> QED BY <2>2, <2>6, <3>1, <3>2
  <2>7. CASE k.status \notin {"ready", "doing", "review"}
    <3>1. holders = {}
      BY <2>3, <2>4, <2>7
    <3> QED BY <2>2, <2>7, <3>1
  <2> QED BY <2>6, <2>7
<1>9. Bucket(k.status) = "active" <=> k.status \in {"ready", "doing", "review"}
  BY <1>2 DEF Bucket, Columns
<1>10. ViewOwner(Disk, c) = IF Bucket(k.status) # "active" THEN None ELSE o
  BY <1>8, <1>9
<1> QED
  BY <1>1, <1>4, <1>6, <1>10 DEF k, o

\* The strengthening is invariant.
THEOREM MigrationInvHolds == Spec => []MigrationInv
<1> QED
  BY InitInv, StepInv, PTL DEF Spec

\* Every reachable state has the types of TypeOK.
THEOREM MigrationTypeCorrect == Spec => []TypeOK
<1>1. MigrationInv => TypeOK
  BY DEF MigrationInv
<1> QED
  BY <1>1, MigrationInvHolds, PTL

\* parity_check: whatever other processes write while the snapshot is taken, a verdict is
\* about two sides that were on disk at one moment.
THEOREM SnapshotRealHolds == Spec => []SnapshotReal
<1>1. MigrationInv => SnapshotReal
  BY DEF MigrationInv
<1> QED
  BY <1>1, MigrationInvHolds, PTL

\* reconcile_from_legacy and import_from_legacy: what they leave undisturbed is what the
\* legacy board shows, though they append their events one by one.
THEOREM StoreFollowsLegacyHolds == Spec => []StoreFollowsLegacy
<1>1. MigrationInv => StoreFollowsLegacy
  BY ReplayedFaithful
<1> QED
  BY <1>1, MigrationInvHolds, PTL

\* export_to_legacy: file after file, it ends with the store's buckets and owners on the
\* legacy side.
THEOREM ExportFaithfulHolds == Spec => []ExportFaithful
<1>1. MigrationInv => ExportFaithful
  BY ExportedFaithful
<1> QED
  BY <1>1, MigrationInvHolds, PTL

-----------------------------------------------------------------------------
(* Replicas: induction, and the fold as a function on the length of a history *)

LEMMA Induction ==
  ASSUME NEW S, 0 \in S, \A n \in Nat : n \in S => n + 1 \in S
  PROVE  Nat \subseteq S
<1> SUFFICES ASSUME ~(Nat \subseteq S) PROVE FALSE
  OBVIOUS
<1> DEFINE T == Nat \ S
<1>1. T \in SUBSET Nat /\ T # {}
  OBVIOUS
<1> HIDE DEF T
<1>2. PICK n \in T : \A m \in T : n <= m
  BY <1>1, LeastNumber
<1>3. n \in Nat /\ n \notin S
  BY <1>2 DEF T
<1>4. n # 0 /\ n - 1 \in Nat
  BY <1>3
<1>5. n - 1 \notin T
  BY <1>2, <1>3, <1>4
<1>6. n - 1 \in S /\ (n - 1) + 1 = n
  BY <1>3, <1>4, <1>5 DEF T
<1> QED BY <1>3, <1>4, <1>6

\* Induction from p upwards to n.
LEMMA InductionFrom ==
  ASSUME NEW p \in Nat, NEW n \in Nat, p <= n, NEW S, p \in S,
         \A m \in p..n : m \in S /\ m < n => m + 1 \in S
  PROVE  \A m \in p..n : m \in S
<1> DEFINE T == {d \in Nat : p + d <= n => p + d \in S}
<1>1. 0 \in T
  OBVIOUS
<1>2. ASSUME NEW d \in Nat, d \in T PROVE d + 1 \in T
  <2> SUFFICES ASSUME p + (d + 1) <= n PROVE p + (d + 1) \in S
    OBVIOUS
  <2>1. p + d \in p..n /\ p + d < n /\ p + d \in S /\ (p + d) + 1 = p + (d + 1)
    BY <1>2
  <2> QED BY <2>1
<1> HIDE DEF T
<1>3. Nat \subseteq T
  BY <1>1, <1>2, Induction
<1> SUFFICES ASSUME NEW m \in p..n PROVE m \in S
  OBVIOUS
<1>4. m - p \in T /\ p + (m - p) = m /\ m <= n
  BY <1>3
<1> QED BY <1>4 DEF T

\* The card after row n, from the cards before.
CardAfter(rows, F, n) == IF n = 0 THEN NewCard ELSE Apply(F[n - 1], rows[n].e)

FoldsUpTo(rows, k, F) == F = [n \in 0..k |-> CardAfter(rows, F, n)]

LEMMA FoldExists ==
  ASSUME NEW rows
  PROVE  \A k \in Nat : \E F : FoldsUpTo(rows, k, F)
<1> DEFINE S == {k \in Nat : \E F : FoldsUpTo(rows, k, F)}
<1>1. 0 \in S
  <2> DEFINE F == [n \in 0..0 |-> NewCard]
  <2>1. \A n \in 0..0 : CardAfter(rows, F, n) = NewCard
    BY DEF CardAfter
  <2>2. F = [n \in 0..0 |-> CardAfter(rows, F, n)]
    BY <2>1
  <2> QED BY <2>2 DEF FoldsUpTo
<1>2. ASSUME NEW k \in Nat, k \in S PROVE k + 1 \in S
  <2>1. PICK F : F = [n \in 0..k |-> CardAfter(rows, F, n)]
    BY <1>2 DEF FoldsUpTo
  <2> DEFINE G == [n \in 0..(k + 1) |-> IF n <= k THEN F[n] ELSE CardAfter(rows, F, k + 1)]
  <2>2. \A n \in 0..k : G[n] = F[n] /\ F[n] = CardAfter(rows, F, n)
    BY <2>1
  <2>3. \A n \in 0..(k + 1) : CardAfter(rows, G, n) = CardAfter(rows, F, n)
    <3> SUFFICES ASSUME NEW n \in 0..(k + 1), n # 0 PROVE G[n - 1] = F[n - 1]
      BY DEF CardAfter
    <3>1. n - 1 \in 0..k
      OBVIOUS
    <3> QED BY <2>2, <3>1
  <2>4. \A n \in 0..(k + 1) : G[n] = CardAfter(rows, G, n)
    <3> SUFFICES ASSUME NEW n \in 0..(k + 1) PROVE G[n] = CardAfter(rows, F, n)
      BY <2>3
    <3>1. CASE n \in 0..k
      BY <2>2, <3>1
    <3>2. CASE n = k + 1
      BY <3>2
    <3> QED BY <3>1, <3>2
  <2>5. G = [n \in 0..(k + 1) |-> CardAfter(rows, G, n)]
    <3>1. \A n \in 0..(k + 1) : G[n] = [i \in 0..(k + 1) |-> CardAfter(rows, G, i)][n]
      BY <2>4
    <3>2. DOMAIN G = 0..(k + 1)
      OBVIOUS
    <3> QED BY <3>1, <3>2, Zenon
  <2> HIDE DEF G
  <2> QED BY <2>5 DEF FoldsUpTo
<1> HIDE DEF S
<1>3. Nat \subseteq S
  BY <1>1, <1>2, Induction
<1> QED BY <1>3 DEF S

LEMMA FoldUnique ==
  ASSUME NEW rows, NEW k \in Nat, NEW l \in Nat, k <= l, NEW F, NEW G,
         FoldsUpTo(rows, k, F), FoldsUpTo(rows, l, G)
  PROVE  \A n \in 0..k : F[n] = G[n]
<1> DEFINE T == {n \in Nat : n <= k => F[n] = G[n]}
<1>0. /\ \A n \in 0..k : F[n] = CardAfter(rows, F, n)
      /\ \A n \in 0..k : G[n] = CardAfter(rows, G, n)
  BY DEF FoldsUpTo
<1>1. 0 \in T
  BY <1>0 DEF CardAfter
<1>2. ASSUME NEW n \in Nat, n \in T PROVE n + 1 \in T
  <2> SUFFICES ASSUME n + 1 <= k PROVE F[n + 1] = G[n + 1]
    OBVIOUS
  <2>1. n + 1 \in 0..k /\ n + 1 # 0 /\ (n + 1) - 1 = n /\ F[n] = G[n]
    BY <1>2
  <2> QED BY <1>0, <2>1 DEF CardAfter
<1> HIDE DEF T
<1>3. Nat \subseteq T
  BY <1>1, <1>2, Induction
<1> QED BY <1>3 DEF T

\* Folded is what its recursion says.
LEMMA FoldedRuns ==
  ASSUME NEW rows
  PROVE  /\ Folded(rows)[0] = NewCard
         /\ \A n \in Nat \ {0} : Folded(rows)[n] = Apply(Folded(rows)[n - 1], rows[n].e)
<1> DEFINE Part(k) == CHOOSE F : FoldsUpTo(rows, k, F)
           G == [n \in Nat |-> Part(n)[n]]
<1>1. \A k \in Nat : FoldsUpTo(rows, k, Part(k))
  BY FoldExists
<1> HIDE DEF Part
<1>2. \A n \in Nat : G[n] = CardAfter(rows, G, n)
  <2> TAKE n \in Nat
  <2>1. Part(n)[n] = CardAfter(rows, Part(n), n)
    BY <1>1 DEF FoldsUpTo
  <2>2. CASE n = 0
    BY <2>1, <2>2 DEF CardAfter
  <2>3. CASE n # 0
    <3>1. n - 1 \in Nat /\ n - 1 <= n /\ n - 1 \in 0..(n - 1)
      BY <2>3
    <3>2. Part(n - 1)[n - 1] = Part(n)[n - 1]
      BY <1>1, <3>1, FoldUnique
    <3> QED BY <2>1, <2>3, <3>1, <3>2 DEF CardAfter
  <2> QED BY <2>2, <2>3
<1>3. G = [n \in Nat |-> CardAfter(rows, G, n)]
  <2>1. \A n \in Nat : G[n] = [i \in Nat |-> CardAfter(rows, G, i)][n]
    BY <1>2
  <2>2. DOMAIN G = Nat
    OBVIOUS
  <2> QED BY <2>1, <2>2, Zenon
<1> HIDE DEF G
<1> DEFINE L == CHOOSE F : F = [n \in Nat |-> CardAfter(rows, F, n)]
<1>4. L = [n \in Nat |-> CardAfter(rows, L, n)]
  BY <1>3
<1>5. Folded(rows) = L
  BY DEF Folded, CardAfter
<1> HIDE DEF L
<1>6. \A n \in Nat : L[n] = CardAfter(rows, L, n)
  BY <1>4
<1> QED BY <1>5, <1>6 DEF CardAfter

-----------------------------------------------------------------------------
(* The fold of a history *)

\* The revision that the n-th row of a gives its claim.
Revision(a, n) == 10 * Rank[a] + n

IsClaim(x) == x.e = ClaimEvent(x.by, Revision(x.by, x.seq))
IsRelease(x) == x.seq > 1 /\ x.e = ReleaseEvent(x.by, Revision(x.by, x.seq - 1))
IsComplete(x) == x.e = CompleteEvent

\* The first n rows of H are the rows of some agents' files up to some point, in an order
\* that keeps that of each file; a release gives up the claim of the row before it.
Chronicle(H, n) ==
  /\ n \in Nat
  /\ \A i \in 1..n : /\ H[i].by \in Agents /\ H[i].seq \in Nat \ {0}
                     /\ IsClaim(H[i]) \/ IsRelease(H[i]) \/ IsComplete(H[i])
  /\ \A i \in 1..n : IsRelease(H[i]) =>
       \E j \in 1..n : H[j].by = H[i].by /\ H[j].seq = H[i].seq - 1 /\ IsClaim(H[j])
  /\ \A i, j \in 1..n : H[i].by = H[j].by =>
       /\ H[i].seq < H[j].seq => i < j
       /\ H[i].seq = H[j].seq => i = j

LEMMA EventsApart ==
  ASSUME NEW a, NEW b, NEW r, NEW s
  PROVE  /\ ClaimEvent(a, r) # ReleaseEvent(b, s) /\ ClaimEvent(a, r) # CompleteEvent
         /\ ReleaseEvent(a, r) # CompleteEvent
         /\ ClaimEvent(a, r) = ClaimEvent(b, s) <=> a = b /\ r = s
         /\ ClaimEvent(a, r).act = "claim" /\ CompleteEvent.act = "complete"
         /\ ReleaseEvent(a, r).act = "release_claim"
BY DEF ClaimEvent, ReleaseEvent, CompleteEvent, Event

LEMMA RevisionType ==
  ASSUME NEW a \in Agents, NEW n \in Nat \ {0}
  PROVE  Revision(a, n) \in Revisions /\ Revision(a, n) # NoRev
BY RankAssumption DEF Revision, Revisions, NoRev

LEMMA RevisionInjective ==
  ASSUME NEW a \in Agents, NEW n \in Nat, NEW m \in Nat, Revision(a, n) = Revision(a, m)
  PROVE  n = m
BY RankAssumption DEF Revision

LEMMA ClaimOnce ==
  ASSUME NEW H, NEW n, Chronicle(H, n), NEW i \in 1..n, NEW j \in 1..n, NEW a, NEW r,
         H[i].e = ClaimEvent(a, r), H[j].e = ClaimEvent(a, r)
  PROVE  i = j
<1>1. IsClaim(H[i]) /\ IsClaim(H[j])
  BY EventsApart DEF Chronicle, IsClaim, IsRelease, IsComplete
<1>2. H[i].by = a /\ H[j].by = a /\ r = Revision(a, H[i].seq) /\ r = Revision(a, H[j].seq)
  BY <1>1 DEF IsClaim, ClaimEvent, Event
<1>3. H[i].by \in Agents /\ H[i].seq \in Nat /\ H[j].seq \in Nat
  BY DEF Chronicle
<1>4. H[i].seq = H[j].seq
  BY <1>2, <1>3, RevisionInjective
<1> QED BY <1>2, <1>4 DEF Chronicle

LEMMA ApplyByAct ==
  ASSUME NEW k \in CardStates, ~k.voided, NEW e
  PROVE  /\ e.act = "claim" => Apply(k, e) = ApplyClaim(k, e.who, e.rev)
         /\ e.act = "release_claim" => Apply(k, e) = ApplyRelease(k, e.who, e.rev)
         /\ e.act = "complete" => Apply(k, e) = ApplyComplete(k)
BY DEF Apply, VoidTerminalActions

LEMMA ApplyOf ==
  ASSUME NEW k \in CardStates, ~k.voided, NEW a, NEW r
  PROVE  /\ Apply(k, ClaimEvent(a, r)) = ApplyClaim(k, a, r)
         /\ Apply(k, ReleaseEvent(a, r)) = ApplyRelease(k, a, r)
         /\ Apply(k, CompleteEvent) = ApplyComplete(k)
<1>1. ClaimEvent(a, r).act = "claim" /\ ClaimEvent(a, r).who = a /\ ClaimEvent(a, r).rev = r
  BY DEF ClaimEvent, Event
<1>2. /\ ReleaseEvent(a, r).act = "release_claim"
      /\ ReleaseEvent(a, r).who = a /\ ReleaseEvent(a, r).rev = r
  BY DEF ReleaseEvent, Event
<1>3. CompleteEvent.act = "complete"
  BY DEF CompleteEvent, Event
<1> QED BY <1>1, <1>2, <1>3, ApplyByAct

\* What a claim does.
LEMMA ClaimEffect ==
  ASSUME NEW k \in CardStates, NEW a \in Agents, NEW r \in Revisions,
         k.owner # None => k.status = "doing"
  PROVE  LET new == ApplyClaim(k, a, r)
             x == [owner |-> a, rev |-> r, existingOwner |-> k.owner, existingRev |-> k.rev]
         IN  /\ new \in CardStates /\ new.voided = k.voided
             /\ \/ /\ k.owner \notin {None, a} /\ new.owner = k.owner /\ new.rev = k.rev
                   /\ new.status = k.status /\ x \in Conflicts
                   /\ new.conflicts = k.conflicts \cup {x}
                \/ /\ k.owner \in {None, a} /\ new.owner = a /\ new.rev = r
                   /\ new.status = "doing"
                   /\ \/ new.conflicts = k.conflicts
                      \/ k.owner = None /\ new.conflicts = {}
<1> DEFINE x == [owner |-> a, rev |-> r, existingOwner |-> k.owner, existingRev |-> k.rev]
<1>1. CASE k.owner \notin {None, a}
  <2>1. ClaimCollides(k, a)
    BY <1>1 DEF ClaimCollides, ActiveColumns
  <2>2. x \in Conflicts
    BY <1>1 DEF CardStates, Conflicts
  <2>3. ApplyClaim(k, a, r) = [k EXCEPT !.conflicts = @ \cup {x}]
    BY <2>1 DEF ApplyClaim, ClaimConflict
  <2> QED BY <1>1, <2>2, <2>3 DEF CardStates
<1>2. CASE k.owner \in {None, a}
  <2>1. ~ClaimCollides(k, a)
    BY <1>2 DEF ClaimCollides
  <2>2. \/ ApplyClaim(k, a, r) = [k EXCEPT !.owner = a, !.status = "doing", !.rev = r]
        \/ /\ k.owner = None
           /\ ApplyClaim(k, a, r) = [k EXCEPT !.owner = a, !.status = "doing", !.rev = r,
                                              !.conflicts = {}]
    BY <2>1 DEF ApplyClaim, CardStates
  <2> QED BY <1>2, <2>2, NoneAssumption DEF CardStates, Columns
<1> QED BY <1>1, <1>2

\* What a release does.
LEMMA ReleaseEffect ==
  ASSUME NEW k \in CardStates, NEW a \in Agents, NEW r \in Revisions, r # NoRev
  PROVE  LET new == ApplyRelease(k, a, r)
         IN  /\ new \in CardStates /\ new.voided = k.voided
             /\ \/ /\ k.owner = a /\ k.rev = r /\ new.owner = None /\ new.conflicts = k.conflicts
                \/ /\ ~(k.owner = a /\ k.rev = r)
                   /\ new.owner = k.owner /\ new.rev = k.rev /\ new.status = k.status
                   /\ new.conflicts \subseteq k.conflicts
                   /\ \A x \in k.conflicts : x.owner # a => x \in new.conflicts
<1>1. CASE ReleasesCurrent(k, a, r)
  <2>1. ApplyRelease(k, a, r) = [k EXCEPT !.owner = None, !.status = "backlog", !.rev = NoRev]
    BY <1>1 DEF ApplyRelease
  <2>2. k.owner = a /\ k.rev = r
    BY <1>1 DEF ReleasesCurrent
  <2>3. /\ ApplyRelease(k, a, r) \in CardStates /\ ApplyRelease(k, a, r).voided = k.voided
        /\ ApplyRelease(k, a, r).owner = None /\ ApplyRelease(k, a, r).conflicts = k.conflicts
    <3> DEFINE new == [k EXCEPT !.owner = None, !.status = "backlog", !.rev = NoRev]
    <3>1. /\ new \in CardStates /\ new.voided = k.voided
          /\ new.owner = None /\ new.conflicts = k.conflicts
      BY DEF CardStates, Columns, Revisions, NoRev
    <3> QED BY <2>1, <3>1
  <2> QED BY <2>2, <2>3
<1>2. CASE ~ReleasesCurrent(k, a, r)
  <2> DEFINE M == MatchingConflicts(k, a, r)
  <2>1. \A x \in M : x.owner = a
    BY DEF MatchingConflicts
  <2> HIDE DEF M
  <2>2. ApplyRelease(k, a, r) \in {k, [k EXCEPT !.conflicts = @ \ M]}
    BY <1>2 DEF ApplyRelease, M
  <2>3. ~(k.owner = a /\ k.rev = r)
    BY <1>2 DEF ReleasesCurrent
  <2>4. CASE ApplyRelease(k, a, r) = k
    BY <2>3, <2>4
  <2>5. CASE ApplyRelease(k, a, r) = [k EXCEPT !.conflicts = @ \ M]
    BY <2>1, <2>3, <2>5 DEF CardStates
  <2> QED BY <2>2, <2>4, <2>5
<1> QED BY <1>1, <1>2

LEMMA CompleteEffect ==
  ASSUME NEW k \in CardStates
  PROVE  LET new == ApplyComplete(k)
         IN  /\ new \in CardStates /\ new.voided = k.voided
             /\ new.owner = None /\ new.conflicts = k.conflicts
BY DEF ApplyComplete, CardStates, Columns, Revisions, NoRev

\* Whoever owns the card after m rows claimed it in one of them, and so did both sides of
\* every conflict, the loser later.
Traced(H, m) ==
  {k \in CardStates :
     /\ ~k.voided /\ IsFiniteSet(k.conflicts)
     /\ k.owner # None => /\ k.status = "doing"
                          /\ \E i \in 1..m : H[i].e = ClaimEvent(k.owner, k.rev)
     /\ \A x \in k.conflicts :
          \E i, j \in 1..m : /\ i < j
                             /\ H[i].e = ClaimEvent(x.existingOwner, x.existingRev)
                             /\ H[j].e = ClaimEvent(x.owner, x.rev)}

LEMMA TracedStep ==
  ASSUME NEW H, NEW n, Chronicle(H, n), NEW m \in 1..n, NEW k \in Traced(H, m - 1)
  PROVE  Apply(k, H[m].e) \in Traced(H, m)
<1> DEFINE a == H[m].by
           new == Apply(k, H[m].e)
<1>1. /\ m \in Nat /\ m - 1 \in Nat /\ m \in 1..m /\ \A i \in 1..(m - 1) : i \in 1..m /\ i < m
      /\ a \in Agents /\ H[m].seq \in Nat \ {0}
  BY DEF Chronicle
<1>2. /\ k \in CardStates /\ ~k.voided /\ IsFiniteSet(k.conflicts)
      /\ k.owner # None => /\ k.status = "doing"
                           /\ \E i \in 1..(m - 1) : H[i].e = ClaimEvent(k.owner, k.rev)
      /\ \A x \in k.conflicts :
           \E i, j \in 1..(m - 1) : /\ i < j
                                    /\ H[i].e = ClaimEvent(x.existingOwner, x.existingRev)
                                    /\ H[j].e = ClaimEvent(x.owner, x.rev)
  BY DEF Traced
<1>3. \A x \in k.conflicts :
        \E i, j \in 1..m : /\ i < j
                           /\ H[i].e = ClaimEvent(x.existingOwner, x.existingRev)
                           /\ H[j].e = ClaimEvent(x.owner, x.rev)
  BY <1>1, <1>2
<1>4. CASE IsClaim(H[m])
  <2> DEFINE r == Revision(a, H[m].seq)
             c == [owner |-> a, rev |-> r, existingOwner |-> k.owner, existingRev |-> k.rev]
  <2>1. r \in Revisions
    BY <1>1, RevisionType
  <2>2. H[m].e = ClaimEvent(a, r) /\ new = ApplyClaim(k, a, r)
    BY <1>2, <1>4, ApplyOf DEF IsClaim
  <2>c. c.owner = a /\ c.rev = r /\ c.existingOwner = k.owner /\ c.existingRev = k.rev
    OBVIOUS
  <2> HIDE DEF a, r, new, c
  <2>3. /\ new \in CardStates /\ new.voided = k.voided
        /\ \/ /\ k.owner \notin {None, a} /\ new.owner = k.owner /\ new.rev = k.rev
              /\ new.status = k.status
              /\ new.conflicts = k.conflicts \cup {c}
           \/ /\ k.owner \in {None, a} /\ new.owner = a /\ new.rev = r
              /\ new.status = "doing" /\ new.conflicts \subseteq k.conflicts
    <3>1. k \in CardStates /\ a \in Agents /\ r \in Revisions /\ (k.owner # None => k.status = "doing")
      BY <1>1, <1>2, <2>1
    <3> DEFINE l == ApplyClaim(k, a, r)
    <3>2. /\ l \in CardStates /\ l.voided = k.voided
          /\ \/ /\ k.owner \notin {None, a} /\ l.owner = k.owner /\ l.rev = k.rev
                /\ l.status = k.status /\ c \in Conflicts
                /\ l.conflicts = k.conflicts \cup {c}
             \/ /\ k.owner \in {None, a} /\ l.owner = a /\ l.rev = r
                /\ l.status = "doing"
                /\ \/ l.conflicts = k.conflicts
                   \/ k.owner = None /\ l.conflicts = {}
      BY <3>1, ClaimEffect DEF c
    <3> HIDE DEF l
    <3>3. l.conflicts = {} => l.conflicts \subseteq k.conflicts
      OBVIOUS
    <3>4. new = l
      BY <2>2 DEF l
    <3> QED BY <3>2, <3>3, <3>4
  <2>4. new.owner # None => new.status = "doing" /\ \E i \in 1..m : H[i].e = ClaimEvent(new.owner, new.rev)
    BY <1>1, <1>2, <2>2, <2>3
  <2>5. k.owner # None =>
          \E i, j \in 1..m : /\ i < j
                             /\ H[i].e = ClaimEvent(c.existingOwner, c.existingRev)
                             /\ H[j].e = ClaimEvent(c.owner, c.rev)
    BY <1>1, <1>2, <2>2, <2>c
  <2>6. \A x \in new.conflicts : x \in k.conflicts \/ (x = c /\ k.owner # None)
    BY <2>3
  <2>7. IsFiniteSet(new.conflicts)
    <3>1. IsFiniteSet(k.conflicts \cup {c})
      BY <1>2, FS_AddElement
    <3> QED BY <1>2, <2>3, <3>1, FS_Subset
  <2> QED BY <1>2, <1>3, <2>3, <2>4, <2>5, <2>6, <2>7 DEF Traced, new
<1>5. CASE IsRelease(H[m])
  <2> DEFINE r == Revision(a, H[m].seq - 1)
  <2>1. r \in Revisions /\ r # NoRev
    BY <1>1, <1>5, RevisionType DEF IsRelease
  <2>2. new = ApplyRelease(k, a, r)
    BY <1>2, <1>5, ApplyOf DEF IsRelease
  <2> HIDE DEF a, r, new
  <2>3. /\ new \in CardStates /\ new.voided = k.voided
        /\ new.conflicts \subseteq k.conflicts
        /\ new.owner = None \/ (new.owner = k.owner /\ new.rev = k.rev /\ new.status = k.status)
    BY <1>1, <1>2, <2>1, <2>2, ReleaseEffect DEF a
  <2>4. IsFiniteSet(new.conflicts)
    BY <1>2, <2>3, FS_Subset
  <2> QED BY <1>1, <1>2, <1>3, <2>3, <2>4 DEF Traced, new
<1>6. CASE IsComplete(H[m])
  <2>1. new = ApplyComplete(k)
    BY <1>2, <1>6, ApplyOf DEF IsComplete
  <2> HIDE DEF new
  <2>2. new \in CardStates /\ new.voided = k.voided /\ new.owner = None /\ new.conflicts = k.conflicts
    BY <1>2, <2>1, CompleteEffect
  <2> QED BY <1>1, <1>2, <1>3, <2>2 DEF Traced, new
<1> QED BY <1>1, <1>4, <1>5, <1>6 DEF Chronicle

LEMMA FoldTraced ==
  ASSUME NEW H, NEW n, Chronicle(H, n)
  PROVE  \A m \in 0..n : Folded(H)[m] \in Traced(H, m)
<1> DEFINE T == {m \in Nat : m <= n => Folded(H)[m] \in Traced(H, m)}
<1>1. 0 \in T
  <2>1. NewCard \in Traced(H, 0)
    BY FS_EmptySet DEF Traced, NewCard, CardStates, Columns, Revisions, NoRev
  <2> QED BY <2>1, FoldedRuns
<1>2. ASSUME NEW m \in Nat, m \in T PROVE m + 1 \in T
  <2> SUFFICES ASSUME m + 1 <= n PROVE Folded(H)[m + 1] \in Traced(H, m + 1)
    OBVIOUS
  <2>1. n \in Nat /\ m + 1 \in 1..n /\ (m + 1) - 1 = m /\ m + 1 \in Nat \ {0} /\ Folded(H)[m] \in Traced(H, m)
    BY <1>2 DEF Chronicle
  <2>2. Folded(H)[m + 1] = Apply(Folded(H)[m], H[m + 1].e)
    BY <2>1, FoldedRuns
  <2> QED BY <2>1, <2>2, TracedStep
<1> HIDE DEF T
<1>3. Nat \subseteq T
  BY <1>1, <1>2, Induction
<1> QED BY <1>3 DEF T

-----------------------------------------------------------------------------
(* What a host has, in the order of the fold *)

\* The order of a finite set by the number of predecessors.
LEMMA SortedByRank ==
  ASSUME NEW R, IsFiniteSet(R),
         \A x \in R : ~Before(x, x),
         \A x, y, z \in R : Before(x, y) /\ Before(y, z) => Before(x, z),
         \A x, y \in R : x = y \/ Before(x, y) \/ Before(y, x)
  PROVE  LET n == Cardinality(R)
             H == [i \in 1..n |-> CHOOSE x \in R : Cardinality({y \in R : Before(y, x)}) = i - 1]
         IN  /\ n \in Nat /\ H \in [1..n -> R]
             /\ \A x \in R : \E i \in 1..n : H[i] = x
             /\ \A i, j \in 1..n : i < j => Before(H[i], H[j])
<1> DEFINE n == Cardinality(R)
           Below(x) == {y \in R : Before(y, x)}
           p(x) == Cardinality(Below(x))
           H == [i \in 1..n |-> CHOOSE x \in R : p(x) = i - 1]
           f == [x \in R |-> p(x) + 1]
<1>1. n \in Nat
  BY FS_CardinalityType
<1>2. \A x \in R : /\ Below(x) \in SUBSET R /\ x \notin Below(x)
                   /\ \A y \in R : Before(x, y) => /\ Below(x) \in SUBSET Below(y)
                                                        /\ x \in Below(y)
  OBVIOUS
<1> HIDE DEF Below
<1>3. \A x \in R : IsFiniteSet(Below(x)) /\ p(x) \in Nat /\ p(x) < n
  <2> TAKE x \in R
  <2>1. IsFiniteSet(Below(x)) /\ p(x) <= n /\ (n = p(x) => R = Below(x))
    BY <1>2, FS_Subset
  <2>2. p(x) \in Nat
    BY <2>1, FS_CardinalityType
  <2>3. R # Below(x)
    BY <1>2
  <2> HIDE DEF n, p
  <2> QED BY <1>1, <2>1, <2>2, <2>3
<1>4. \A x, y \in R : Before(x, y) => p(x) < p(y)
  <2> SUFFICES ASSUME NEW x \in R, NEW y \in R, Before(x, y) PROVE p(x) < p(y)
    OBVIOUS
  <2>1. p(x) <= p(y) /\ (p(y) = p(x) => Below(y) = Below(x))
    BY <1>2, <1>3, FS_Subset
  <2>2. Below(y) # Below(x)
    BY <1>2
  <2>3. p(x) \in Nat /\ p(y) \in Nat
    BY <1>3
  <2> HIDE DEF p
  <2> QED BY <2>1, <2>2, <2>3
<1> HIDE DEF n, p
<1>5. \A x, y \in R : p(x) = p(y) => x = y
  <2> SUFFICES ASSUME NEW x \in R, NEW y \in R, p(x) = p(y), x # y PROVE FALSE
    OBVIOUS
  <2>1. p(x) \in Nat /\ p(y) \in Nat
    BY <1>3
  <2>2. p(x) < p(y) \/ p(y) < p(x)
    BY <1>4
  <2> QED BY <2>1, <2>2
<1>6. f \in Surjection(R, 1..n)
  <2>1. f \in Injection(R, 1..n)
    <3>1. \A x \in R : p(x) + 1 \in 1..n
      BY <1>1, <1>3
    <3>2. \A x, y \in R : p(x) + 1 = p(y) + 1 => x = y
      BY <1>3, <1>5
    <3>3. f \in [R -> 1..n] /\ \A x \in R : f[x] = p(x) + 1
      BY <3>1
    <3> HIDE DEF f
    <3> QED BY <3>2, <3>3 DEF Injection, IsInjective
  <2>2. IsFiniteSet(1..n) /\ Cardinality(1..n) = n
    BY <1>1, FS_Interval
  <2>3. Cardinality(R) = Cardinality(1..n)
    BY <2>2 DEF n
  <2> HIDE DEF f
  <2> QED BY <2>1, <2>2, <2>3, FS_Injection
<1>7. \A i \in 1..n : \E x \in R : p(x) = i - 1
  <2> TAKE i \in 1..n
  <2>1. PICK x \in R : f[x] = i
    BY <1>6 DEF Surjection
  <2>2. p(x) \in Nat /\ p(x) + 1 = i
    BY <1>3, <2>1
  <2> QED BY <2>2
<1>8. \A i \in 1..n : H[i] \in R /\ p(H[i]) = i - 1
  BY <1>7
<1>9. H \in [1..n -> R]
  BY <1>8
<1> HIDE DEF H
<1>10. \A x \in R : \E i \in 1..n : H[i] = x
  <2> TAKE x \in R
  <2>1. p(x) + 1 \in 1..n /\ (p(x) + 1) - 1 = p(x)
    BY <1>1, <1>3
  <2> QED BY <1>5, <1>8, <2>1
<1>11. \A i, j \in 1..n : i < j => Before(H[i], H[j])
  <2> SUFFICES ASSUME NEW i \in 1..n, NEW j \in 1..n, i < j PROVE Before(H[i], H[j])
    OBVIOUS
  <2>1. H[i] \in R /\ H[j] \in R /\ p(H[i]) = i - 1 /\ p(H[j]) = j - 1
    BY <1>8
  <2>2. ~(p(H[j]) < p(H[i])) /\ p(H[i]) # p(H[j])
    BY <2>1
  <2> QED BY <1>4, <2>1, <2>2
<1> QED BY <1>1, <1>9, <1>10, <1>11 DEF n, H, p, Below

\* Row i of a's file, as the fold sees it.
RowOf(a, i) == [ts |-> log[a][i].ts, by |-> a, seq |-> i, e |-> log[a][i].e]

\* The file of a: its clock moves on, a claim has a revision of its own, and a release
\* gives up the claim of the row before it.
FileFits(rows, a) ==
  /\ \A i, j \in 1..Len(rows) : i < j => rows[i].ts < rows[j].ts
  /\ \A i \in 1..Len(rows) :
       \/ rows[i].e = ClaimEvent(a, Revision(a, i))
       \/ /\ i > 1 /\ rows[i].e = ReleaseEvent(a, Revision(a, i - 1))
          /\ rows[i - 1].e = ClaimEvent(a, Revision(a, i - 1))
       \/ rows[i].e = CompleteEvent

\* The inductive invariant.  A host has all of its own agent's file.
LogsInv ==
  /\ LogsTypeOK
  /\ \A a \in Agents :
       /\ got[a][a] = Len(log[a]) /\ FileFits(log[a], a)
       /\ file[a] = "claimed" => /\ Len(log[a]) > 0
                                 /\ log[a][Len(log[a])].e.act = "claim"

\* What some host may have: a prefix of every file.
Prefix(have) == have \in [Agents -> Nat] /\ \A a \in Agents : have[a] <= Len(log[a])

LEMMA RowsAre ==
  ASSUME NEW have, NEW x
  PROVE  x \in Rows(have) <=> \E a \in Agents : \E i \in 1..have[a] : x = RowOf(a, i)
BY DEF Rows, RowOf

LEMMA RowsFinite ==
  ASSUME NEW have, have \in [Agents -> Nat]
  PROVE  IsFiniteSet(Rows(have))
<1> DEFINE Of(a) == {[ts |-> log[a][i].ts, by |-> a, seq |-> i, e |-> log[a][i].e] : i \in 1..have[a]}
           U == {Of(a) : a \in Agents}
<1>1. \A T \in U : IsFiniteSet(T)
  <2> SUFFICES ASSUME NEW a \in Agents PROVE IsFiniteSet(Of(a))
    OBVIOUS
  <2> DEFINE g == [i \in 1..have[a] |-> [ts |-> log[a][i].ts, by |-> a, seq |-> i, e |-> log[a][i].e]]
  <2>1. g \in Surjection(1..have[a], Of(a))
    BY DEF Surjection
  <2>2. IsFiniteSet(1..have[a])
    BY FS_Interval
  <2> HIDE DEF g, Of
  <2> QED BY <2>1, <2>2, FS_Surjection
<1>2. IsFiniteSet(U)
  <2> DEFINE g == [a \in Agents |-> Of(a)]
  <2> HIDE DEF Of
  <2>1. g \in Surjection(Agents, U)
    BY DEF Surjection
  <2> HIDE DEF g, U
  <2> QED BY <2>1, FS_Surjection, RankAssumption
<1>3. Rows(have) = UNION U
  BY DEF Rows
<1> HIDE DEF U
<1> QED BY <1>1, <1>2, <1>3, FS_UNION

LEMMA RowOfType ==
  ASSUME LogsTypeOK, NEW a \in Agents, NEW i \in 1..Len(log[a])
  PROVE  /\ RowOf(a, i).by = a /\ RowOf(a, i).seq = i /\ RowOf(a, i).e = log[a][i].e
         /\ RowOf(a, i).ts = log[a][i].ts /\ RowOf(a, i).ts \in Nat /\ i \in Nat \ {0}
<1>1. log[a] \in Seq(LogRows) /\ log[a][i] \in LogRows
  BY DEF LogsTypeOK
<1>2. log[a][i].ts \in 1..MaxTime
  BY <1>1 DEF LogRows
<1>3. Len(log[a]) \in Nat
  BY <1>1, LenProperties
<1> QED BY <1>2, <1>3, RankAssumption DEF RowOf

LEMMA BeforeOrders ==
  ASSUME LogsTypeOK, NEW have, Prefix(have)
  PROVE  /\ \A x \in Rows(have) : ~Before(x, x)
         /\ \A x, y, z \in Rows(have) : Before(x, y) /\ Before(y, z) => Before(x, z)
         /\ \A x, y \in Rows(have) : x = y \/ Before(x, y) \/ Before(y, x)
<1>1. \A x \in Rows(have) : /\ x.ts \in Nat /\ x.by \in Agents /\ x.seq \in Nat \ {0}
                            /\ Rank[x.by] \in Nat /\ x = RowOf(x.by, x.seq)
  <2> TAKE x \in Rows(have)
  <2>1. PICK a \in Agents : \E i \in 1..have[a] : x = RowOf(a, i)
    BY RowsAre
  <2>b. PICK i \in 1..have[a] : x = RowOf(a, i)
    BY <2>1
  <2>2. i \in 1..Len(log[a])
    BY LenProperties DEF Prefix, LogsTypeOK
  <2> QED BY <2>b, <2>2, RowOfType, RankAssumption
<1>2. \A x \in Rows(have) : ~Before(x, x)
  BY <1>1 DEF Before
<1>3. \A x, y, z \in Rows(have) : Before(x, y) /\ Before(y, z) => Before(x, z)
  BY <1>1 DEF Before
<1>4. \A x, y \in Rows(have) : x = y \/ Before(x, y) \/ Before(y, x)
  <2> SUFFICES ASSUME NEW x \in Rows(have), NEW y \in Rows(have), ~Before(x, y), ~Before(y, x)
               PROVE  x = y
    OBVIOUS
  <2>1. x.ts = y.ts /\ Rank[x.by] = Rank[y.by]
    BY <1>1 DEF Before
  <2>2. x.by = y.by
    BY <1>1, <2>1, RankAssumption
  <2>3. x.seq = y.seq
    BY <1>1, <2>1, <2>2 DEF Before
  <2> QED BY <1>1, <2>2, <2>3
<1> QED BY <1>2, <1>3, <1>4

LEMMA HistoryOrders ==
  ASSUME LogsTypeOK, NEW have, Prefix(have)
  PROVE  LET H == History(have) n == Len(H) IN
         /\ n \in Nat /\ H \in [1..n -> Rows(have)] /\ DOMAIN H = 1..n
         /\ \A x \in Rows(have) : \E i \in 1..n : H[i] = x
         /\ \A i, j \in 1..n : i < j => Before(H[i], H[j])
<1> DEFINE R == Rows(have)
           n == Cardinality(R)
           H == History(have)
<1>1. IsFiniteSet(R)
  BY RowsFinite DEF Prefix
<1>2. /\ n \in Nat /\ H \in [1..n -> R]
      /\ \A x \in R : \E i \in 1..n : H[i] = x
      /\ \A i, j \in 1..n : i < j => Before(H[i], H[j])
  <2>1. H = [i \in 1..n |-> CHOOSE x \in R : Cardinality({y \in R : Before(y, x)}) = i - 1]
    BY DEF History
  <2>2. /\ \A x \in R : ~Before(x, x)
        /\ \A x, y, z \in R : Before(x, y) /\ Before(y, z) => Before(x, z)
        /\ \A x, y \in R : x = y \/ Before(x, y) \/ Before(y, x)
    BY BeforeOrders
  <2> HIDE DEF H, R
  <2> QED BY <1>1, <2>1, <2>2, SortedByRank
<1> HIDE DEF H, R, n
<1>3. H \in Seq(R) /\ Len(H) = n /\ DOMAIN H = 1..n
  <2>1. H \in Seq(R)
    BY <1>2, SeqDef
  <2> QED BY <1>2, <2>1, LenProperties
<1> QED BY <1>2, <1>3 DEF H, R

\* What a host has folds as a chronicle, in which every row it has has a place.
LEMMA HistoryChronicle ==
  ASSUME LogsInv, NEW have, Prefix(have)
  PROVE  LET H == History(have) n == Len(H) IN
         /\ Chronicle(H, n)
         /\ \A i \in 1..n : H[i].by \in Agents /\ H[i].seq \in 1..have[H[i].by]
         /\ \A i \in 1..n : H[i].e = log[H[i].by][H[i].seq].e
         /\ \A a \in Agents : \A s \in 1..have[a] : \E i \in 1..n : H[i].by = a /\ H[i].seq = s
<1> DEFINE H == History(have)
           n == Len(H)
<1>0. LogsTypeOK /\ \A a \in Agents : FileFits(log[a], a)
  BY DEF LogsInv
<1>a. \A a \in Agents : Len(log[a]) \in Nat /\ have[a] \in Nat /\ have[a] <= Len(log[a])
  BY <1>0, LenProperties DEF LogsTypeOK, Prefix
<1>1. /\ n \in Nat /\ H \in [1..n -> Rows(have)]
      /\ \A x \in Rows(have) : \E i \in 1..n : H[i] = x
      /\ \A i, j \in 1..n : i < j => Before(H[i], H[j])
  BY <1>0, HistoryOrders
<1> HIDE DEF n, H
<1>2. \A i \in 1..n : /\ H[i].by \in Agents /\ H[i].seq \in 1..have[H[i].by]
                      /\ H[i].seq \in 1..Len(log[H[i].by]) /\ H[i].seq \in Nat \ {0}
                      /\ H[i] = RowOf(H[i].by, H[i].seq)
                      /\ H[i].e = log[H[i].by][H[i].seq].e
                      /\ H[i].ts = log[H[i].by][H[i].seq].ts
  <2> TAKE i \in 1..n
  <2>1. PICK a \in Agents : \E s \in 1..have[a] : H[i] = RowOf(a, s)
    BY <1>1, RowsAre
  <2>b. PICK s \in 1..have[a] : H[i] = RowOf(a, s)
    BY <2>1
  <2>2. s \in 1..Len(log[a])
    BY <1>a
  <2> QED BY <1>0, <2>b, <2>2, RowOfType
<1>3. \A a \in Agents : \A s \in 1..have[a] : \E i \in 1..n : H[i].by = a /\ H[i].seq = s
  <2> TAKE a \in Agents
  <2> TAKE s \in 1..have[a]
  <2>1. RowOf(a, s) \in Rows(have) /\ s \in 1..Len(log[a])
    BY <1>a, RowsAre
  <2> QED BY <1>0, <1>1, <2>1, RowOfType
<1>4. \A i \in 1..n : IsClaim(H[i]) \/ IsRelease(H[i]) \/ IsComplete(H[i])
  <2> TAKE i \in 1..n
  <2> DEFINE a == H[i].by
             s == H[i].seq
  <2>1. a \in Agents /\ s \in 1..Len(log[a]) /\ H[i].e = log[a][s].e /\ FileFits(log[a], a)
    BY <1>0, <1>2
  <2> QED BY <2>1 DEF FileFits, IsClaim, IsRelease, IsComplete
<1>5. \A i \in 1..n : IsRelease(H[i]) =>
        \E j \in 1..n : H[j].by = H[i].by /\ H[j].seq = H[i].seq - 1 /\ IsClaim(H[j])
  <2> SUFFICES ASSUME NEW i \in 1..n, IsRelease(H[i])
               PROVE  \E j \in 1..n : H[j].by = H[i].by /\ H[j].seq = H[i].seq - 1 /\ IsClaim(H[j])
    OBVIOUS
  <2> DEFINE a == H[i].by
             s == H[i].seq
  <2>1. /\ a \in Agents /\ s \in 1..Len(log[a]) /\ s \in 1..have[a]
        /\ H[i].e = log[a][s].e /\ FileFits(log[a], a)
    BY <1>0, <1>2
  <2>2. s > 1 /\ log[a][s].e = ReleaseEvent(a, Revision(a, s - 1))
    BY <2>1 DEF IsRelease
  <2> HIDE DEF a, s
  <2>3. log[a][s - 1].e = ClaimEvent(a, Revision(a, s - 1))
    BY <2>1, <2>2, EventsApart DEF FileFits
  <2>4. s - 1 \in 1..have[a]
    BY <1>a, <2>1, <2>2
  <2>5. PICK j \in 1..n : H[j].by = a /\ H[j].seq = s - 1
    BY <1>3, <2>1, <2>4
  <2>6. IsClaim(H[j])
    BY <1>2, <2>3, <2>5 DEF IsClaim
  <2> QED BY <2>5, <2>6 DEF a, s
<1>6. \A i, j \in 1..n : H[i].by = H[j].by =>
        /\ H[i].seq < H[j].seq => i < j
        /\ H[i].seq = H[j].seq => i = j
  <2> SUFFICES ASSUME NEW i \in 1..n, NEW j \in 1..n, H[i].by = H[j].by
               PROVE  /\ H[i].seq < H[j].seq => i < j
                      /\ H[i].seq = H[j].seq => i = j
    OBVIOUS
  <2> DEFINE a == H[i].by
  <2>1. /\ a \in Agents /\ H[i].seq \in 1..Len(log[a]) /\ H[j].seq \in 1..Len(log[a])
        /\ H[i].ts = log[a][H[i].seq].ts /\ H[j].ts = log[a][H[j].seq].ts
        /\ H[i].ts \in Nat /\ H[j].ts \in Nat
    BY <1>0, <1>2, RowOfType
  <2> HIDE DEF a
  <2>2. H[i].seq < H[j].seq => H[i].ts < H[j].ts
    BY <1>0, <2>1 DEF FileFits
  <2>3. H[j].seq < H[i].seq => H[j].ts < H[i].ts
    BY <1>0, <2>1 DEF FileFits
  <2>4. i < j => Before(H[i], H[j])
    BY <1>1
  <2>5. j < i => Before(H[j], H[i])
    BY <1>1
  <2>6. H[i].seq \in Nat /\ H[j].seq \in Nat /\ i \in Nat /\ j \in Nat /\ Rank[H[i].by] \in Nat
    BY <1>1, <1>2, RankAssumption
  <2>7. H[i].seq = H[j].seq => H[i] = H[j]
    BY <1>2
  <2> QED BY <2>1, <2>2, <2>3, <2>4, <2>5, <2>6, <2>7 DEF Before
<1> QED BY <1>1, <1>2, <1>3, <1>4, <1>5, <1>6 DEF Chronicle, n, H

-----------------------------------------------------------------------------
(* What becomes of one agent in the fold *)

\* The row of another agent.
LEMMA OthersRow ==
  ASSUME NEW H, NEW n, Chronicle(H, n), NEW m \in 1..n, NEW k \in Traced(H, m - 1),
         NEW a \in Agents, H[m].by # a
  PROVE  LET new == Apply(k, H[m].e) IN
         /\ new.owner = a => k.owner = a /\ new.rev = k.rev
         /\ \A x \in new.conflicts : x.owner = a => x \in k.conflicts
         /\ k.owner = a => new.owner = a \/ H[m].e.act = "complete"
         /\ \/ \A x \in k.conflicts : x.owner = a => x \in new.conflicts
            \/ new.conflicts = {} /\ H[m].e.act = "claim" /\ k.owner = None
         /\ \/ new.owner = None
            \/ new.owner = k.owner /\ new.rev = k.rev
            \/ H[m].e = ClaimEvent(new.owner, new.rev)
<1> DEFINE b == H[m].by
           new == Apply(k, H[m].e)
<1>1. b \in Agents /\ H[m].seq \in Nat \ {0} /\ b # a /\ a # None
  BY NoneAssumption DEF Chronicle
<1>2. k \in CardStates /\ ~k.voided /\ (k.owner # None => k.status = "doing")
  BY DEF Traced
<1>4. CASE IsClaim(H[m])
  <2> DEFINE r == Revision(b, H[m].seq)
             l == ApplyClaim(k, b, r)
  <2>1. r \in Revisions
    BY <1>1, RevisionType
  <2>2. H[m].e = ClaimEvent(b, r) /\ new = l /\ H[m].e.act = "claim"
    BY <1>2, <1>4, ApplyOf, EventsApart DEF IsClaim
  <2> DEFINE c == [owner |-> b, rev |-> r, existingOwner |-> k.owner, existingRev |-> k.rev]
  <2>c. c.owner = b
    OBVIOUS
  <2> HIDE DEF b, r
  <2>3. /\ l \in CardStates /\ l.voided = k.voided
        /\ \/ /\ k.owner \notin {None, b} /\ l.owner = k.owner /\ l.rev = k.rev
              /\ l.status = k.status /\ c \in Conflicts
              /\ l.conflicts = k.conflicts \cup {c}
           \/ /\ k.owner \in {None, b} /\ l.owner = b /\ l.rev = r
              /\ l.status = "doing"
              /\ \/ l.conflicts = k.conflicts
                 \/ k.owner = None /\ l.conflicts = {}
    BY <1>1, <1>2, <2>1, ClaimEffect
  <2> HIDE DEF l, c, new
  <2> QED BY <1>1, <2>2, <2>3, <2>c DEF new
<1>5. CASE IsRelease(H[m])
  <2> DEFINE r == Revision(b, H[m].seq - 1)
             l == ApplyRelease(k, b, r)
  <2>1. r \in Revisions /\ r # NoRev
    BY <1>1, <1>5, RevisionType DEF IsRelease
  <2>2. new = l
    BY <1>2, <1>5, ApplyOf DEF IsRelease
  <2> HIDE DEF b, r
  <2>3. \/ k.owner = b /\ l.owner = None /\ l.conflicts = k.conflicts
        \/ /\ l.owner = k.owner /\ l.rev = k.rev /\ l.conflicts \subseteq k.conflicts
           /\ \A x \in k.conflicts : x.owner # b => x \in l.conflicts
    BY <1>1, <1>2, <2>1, ReleaseEffect
  <2> HIDE DEF l, new
  <2> QED BY <1>1, <2>2, <2>3 DEF new
<1>6. CASE IsComplete(H[m])
  <2>1. new = ApplyComplete(k) /\ H[m].e.act = "complete"
    BY <1>2, <1>6, ApplyOf, EventsApart DEF IsComplete
  <2>2. new.owner = None /\ new.conflicts = k.conflicts
    BY <1>2, <2>1, CompleteEffect
  <2> HIDE DEF new
  <2> QED BY <1>1, <2>1, <2>2 DEF new
<1> QED BY <1>4, <1>5, <1>6 DEF Chronicle

\* The claim of the agent itself.
LEMMA OwnClaim ==
  ASSUME NEW H, NEW n, Chronicle(H, n), NEW m \in 1..n, NEW k \in Traced(H, m - 1),
         IsClaim(H[m])
  PROVE  LET new == Apply(k, H[m].e)
             a == H[m].by
             r == Revision(a, H[m].seq)
         IN  \/ new.owner # a /\ \E x \in new.conflicts : x.owner = a /\ x.rev = r
             \/ new.owner = a /\ new.rev = r /\ new.conflicts \subseteq k.conflicts
<1> DEFINE a == H[m].by
           r == Revision(a, H[m].seq)
           l == ApplyClaim(k, a, r)
           c == [owner |-> a, rev |-> r, existingOwner |-> k.owner, existingRev |-> k.rev]
<1>1. a \in Agents /\ H[m].seq \in Nat \ {0}
  BY DEF Chronicle
<1>2. k \in CardStates /\ ~k.voided /\ (k.owner # None => k.status = "doing")
  BY DEF Traced
<1>3. r \in Revisions
  BY <1>1, RevisionType
<1>4. Apply(k, H[m].e) = l
  BY <1>2, ApplyOf DEF IsClaim
<1>5. c.owner = a /\ c.rev = r
  OBVIOUS
<1> HIDE DEF a, r
<1>6. /\ l \in CardStates /\ l.voided = k.voided
      /\ \/ /\ k.owner \notin {None, a} /\ l.owner = k.owner /\ l.rev = k.rev
            /\ l.status = k.status /\ c \in Conflicts
            /\ l.conflicts = k.conflicts \cup {c}
         \/ /\ k.owner \in {None, a} /\ l.owner = a /\ l.rev = r
            /\ l.status = "doing"
            /\ \/ l.conflicts = k.conflicts
               \/ k.owner = None /\ l.conflicts = {}
  BY <1>1, <1>2, <1>3, ClaimEffect
<1> HIDE DEF l, c
<1>7. \/ l.owner # a /\ \E x \in l.conflicts : x.owner = a /\ x.rev = r
      \/ l.owner = a /\ l.rev = r /\ l.conflicts \subseteq k.conflicts
  BY <1>5, <1>6
<1> QED BY <1>4, <1>7 DEF a, r

LEMMA FoldStep ==
  ASSUME NEW H, NEW n, Chronicle(H, n), NEW m \in 1..n
  PROVE  /\ Folded(H)[m] = Apply(Folded(H)[m - 1], H[m].e)
         /\ Folded(H)[m - 1] \in Traced(H, m - 1)
<1>1. n \in Nat /\ m \in Nat \ {0} /\ m - 1 \in 0..n
  BY DEF Chronicle
<1> QED BY <1>1, FoldedRuns, FoldTraced

\* p holds the last row of a in H.
LastOf(H, n, a, p) == H[p].by = a /\ \A i \in 1..n : H[i].by = a => i <= p

\* While only others write, a does not come to own the card, nor under another revision.
LEMMA OthersGiveNothing ==
  ASSUME NEW H, NEW n, Chronicle(H, n), NEW a \in Agents, NEW p \in 1..n, NEW q \in p..n,
         \A i \in (p + 1)..q : H[i].by # a
  PROVE  Folded(H)[q].owner = a => Folded(H)[p].owner = a /\ Folded(H)[q].rev = Folded(H)[p].rev
<1> DEFINE S == {m \in Nat : Folded(H)[m].owner = a =>
                              Folded(H)[p].owner = a /\ Folded(H)[m].rev = Folded(H)[p].rev}
<1>1. n \in Nat /\ p \in Nat /\ q \in Nat /\ p <= q /\ p \in S /\ q \in p..q /\ q <= n
  BY DEF Chronicle
<1>2. ASSUME NEW m \in p..q, m \in S, m < q PROVE m + 1 \in S
  <2>1. /\ m + 1 \in (p + 1)..q /\ m + 1 \in 1..n /\ (m + 1) - 1 = m /\ m + 1 \in Nat
    BY <1>1, <1>2
  <2>2. H[m + 1].by # a
    BY <2>1
  <2>3. Folded(H)[m + 1] = Apply(Folded(H)[m], H[m + 1].e) /\ Folded(H)[m] \in Traced(H, m)
    BY <2>1, FoldStep
  <2>4. Folded(H)[m + 1].owner = a =>
          Folded(H)[m].owner = a /\ Folded(H)[m + 1].rev = Folded(H)[m].rev
    BY <2>1, <2>2, <2>3, OthersRow
  <2> QED BY <1>2, <2>1, <2>4
<1> HIDE DEF S
<1>3. \A m \in p..q : m \in S
  BY <1>1, <1>2, InductionFrom
<1> QED BY <1>1, <1>3 DEF S

\* Whoever gave the card up, or finished it, in the last row does not own it.
LEMMA NoGhost ==
  ASSUME NEW H, NEW n, Chronicle(H, n), NEW a \in Agents, NEW p \in 1..n,
         LastOf(H, n, a, p), ~IsClaim(H[p])
  PROVE  Folded(H)[n].owner # a
<1>1. n \in Nat /\ p \in Nat /\ H[p].by = a /\ n \in p..n /\ a # None /\ p \in 1..n
  BY NoneAssumption DEF Chronicle, LastOf
<1>2. Folded(H)[p].owner # a
  <2>1. Folded(H)[p] = Apply(Folded(H)[p - 1], H[p].e) /\ Folded(H)[p - 1] \in Traced(H, p - 1)
    BY <1>1, FoldStep
  <2> DEFINE k == Folded(H)[p - 1]
  <2>2. k \in CardStates /\ ~k.voided
    BY <2>1 DEF Traced
  <2>3. CASE IsComplete(H[p])
    <3>1. Folded(H)[p] = ApplyComplete(k)
      BY <2>1, <2>2, <2>3, ApplyOf DEF IsComplete
    <3> HIDE DEF k
    <3> QED BY <1>1, <2>2, <3>1, CompleteEffect
  <2>4. CASE IsRelease(H[p])
    <3> DEFINE r == Revision(a, H[p].seq - 1)
    <3>1. PICK c \in 1..n : H[c].by = a /\ H[c].seq = H[p].seq - 1 /\ IsClaim(H[c])
      BY <1>1, <2>4 DEF Chronicle
    <3>2. H[c].seq \in Nat \ {0} /\ H[p].seq \in Nat \ {0}
      BY <1>1 DEF Chronicle
    <3>3. c < p /\ \A i \in (c + 1)..(p - 1) : H[i].by # a
      <4>1. c < p
        BY <1>1, <3>1, <3>2 DEF Chronicle
      <4>2. ASSUME NEW i \in (c + 1)..(p - 1), H[i].by = a PROVE FALSE
        <5>1. i \in 1..n /\ c < i /\ i < p
          BY <1>1, <3>1
        <5>2. H[i].seq \in Nat
          BY <5>1 DEF Chronicle
        <5>3. ~(H[i].seq < H[c].seq) /\ ~(H[p].seq < H[i].seq)
          BY <1>1, <3>1, <4>2, <5>1 DEF Chronicle
        <5>4. H[i].seq # H[c].seq /\ H[i].seq # H[p].seq
          BY <1>1, <3>1, <4>2, <5>1 DEF Chronicle
        <5> QED BY <3>1, <3>2, <5>2, <5>3, <5>4
      <4> QED BY <4>1, <4>2
    <3>4. Folded(H)[c].owner = a => Folded(H)[c].rev = r
      <4>1. Folded(H)[c] = Apply(Folded(H)[c - 1], H[c].e) /\ Folded(H)[c - 1] \in Traced(H, c - 1)
        BY <3>1, FoldStep
      <4> QED BY <3>1, <4>1, OwnClaim
    <3>5. k.owner = a => k.rev = r
      <4>1. c \in 1..n /\ p - 1 \in c..n
        BY <1>1, <3>1, <3>3
      <4> HIDE DEF r
      <4> QED BY <3>3, <3>4, <4>1, OthersGiveNothing
    <3>6. r \in Revisions /\ r # NoRev
      BY <3>1, <3>2, RevisionType
    <3>7. Folded(H)[p] = ApplyRelease(k, a, r)
      BY <1>1, <2>1, <2>2, <2>4, ApplyOf DEF IsRelease
    <3> HIDE DEF r, k
    <3> DEFINE l == ApplyRelease(k, a, r)
    <3>8. \/ l.owner = None
          \/ ~(k.owner = a /\ k.rev = r) /\ l.owner = k.owner
      BY <2>2, <3>6, ReleaseEffect
    <3> HIDE DEF l
    <3>9. l.owner # a
      BY <1>1, <3>5, <3>8
    <3> QED BY <3>7, <3>9 DEF l
  <2> QED BY <1>1, <2>3, <2>4 DEF Chronicle
<1>3. \A i \in (p + 1)..n : H[i].by # a
  BY <1>1 DEF LastOf
<1> QED BY <1>1, <1>2, <1>3, OthersGiveNothing


\* Where a stands after its last row, a claim: it is on record against the present owner,
\* or it is on no record, or its records are older than that claim and the owner is younger.
Standing(H, p, m, k) ==
  \/ \E x \in k.conflicts : x.owner = H[p].by /\ x.rev = Revision(H[p].by, H[p].seq)
  \/ \A x \in k.conflicts : x.owner # H[p].by
  \/ /\ k.owner # None => \E i \in p..m : H[i].e = ClaimEvent(k.owner, k.rev)
     /\ \A x \in k.conflicts : x.owner = H[p].by =>
          \E i \in 1..(p - 1) : H[i].e = ClaimEvent(x.existingOwner, x.existingRev)

LEMMA StandingKept ==
  ASSUME NEW H, NEW n, Chronicle(H, n), NEW a \in Agents, NEW p \in 1..n,
         LastOf(H, n, a, p), IsClaim(H[p])
  PROVE  Standing(H, p, n, Folded(H)[n])
<1> DEFINE S == {m \in Nat : Standing(H, p, m, Folded(H)[m])}
           r == Revision(a, H[p].seq)
<1>1. n \in Nat /\ p \in Nat /\ H[p].by = a /\ p <= n /\ n \in p..n /\ p - 1 \in Nat /\ p \in p..p
  BY DEF Chronicle, LastOf
<1>2. p \in S
  <2> DEFINE k == Folded(H)[p - 1]
             new == Folded(H)[p]
  <2>1. new = Apply(k, H[p].e) /\ k \in Traced(H, p - 1)
    BY FoldStep
  <2>2. \/ new.owner # a /\ \E x \in new.conflicts : x.owner = a /\ x.rev = r
        \/ new.owner = a /\ new.rev = r /\ new.conflicts \subseteq k.conflicts
    BY <1>1, <2>1, OwnClaim
  <2>3. \A x \in k.conflicts : \E i \in 1..(p - 1) :
          H[i].e = ClaimEvent(x.existingOwner, x.existingRev)
    BY <2>1 DEF Traced
  <2>4. H[p].e = ClaimEvent(a, r)
    BY <1>1 DEF IsClaim
  <2> HIDE DEF new, k, r
  <2>5. Standing(H, p, p, new)
    BY <1>1, <2>2, <2>3, <2>4 DEF Standing, r
  <2> QED BY <1>1, <2>5 DEF new
<1>3. ASSUME NEW m \in p..n, m \in S, m < n PROVE m + 1 \in S
  <2> DEFINE k == Folded(H)[m]
             new == Folded(H)[m + 1]
  <2>1. /\ m \in Nat /\ m + 1 \in 1..n /\ (m + 1) - 1 = m /\ m + 1 \in Nat /\ m + 1 > p
        /\ m + 1 \in p..(m + 1) /\ \A i \in p..m : i \in p..(m + 1)
    BY <1>1, <1>3
  <2>2. H[m + 1].by # a
    BY <1>1, <2>1 DEF LastOf
  <2>3. new = Apply(k, H[m + 1].e) /\ k \in Traced(H, m)
    BY <2>1, FoldStep
  <2>4. /\ \A x \in new.conflicts : x.owner = a => x \in k.conflicts
        /\ \/ \A x \in k.conflicts : x.owner = a => x \in new.conflicts
           \/ new.conflicts = {}
        /\ \/ new.owner = None
           \/ new.owner = k.owner /\ new.rev = k.rev
           \/ H[m + 1].e = ClaimEvent(new.owner, new.rev)
    BY <2>1, <2>2, <2>3, OthersRow
  <2>5. Standing(H, p, m, k)
    BY <1>3
  <2> HIDE DEF new, k
  <2>6. Standing(H, p, m + 1, new)
    <3>1. CASE \E x \in k.conflicts : x.owner = a /\ x.rev = r
      BY <1>1, <2>4, <3>1 DEF Standing
    <3>2. CASE \A x \in k.conflicts : x.owner # a
      BY <1>1, <2>4, <3>2 DEF Standing
    <3>3. CASE /\ k.owner # None => \E i \in p..m : H[i].e = ClaimEvent(k.owner, k.rev)
               /\ \A x \in k.conflicts : x.owner = a =>
                    \E i \in 1..(p - 1) : H[i].e = ClaimEvent(x.existingOwner, x.existingRev)
      <4>1. new.owner # None => \E i \in p..(m + 1) : H[i].e = ClaimEvent(new.owner, new.rev)
        BY <2>1, <2>4, <3>3
      <4>2. \A x \in new.conflicts : x.owner = a =>
              \E i \in 1..(p - 1) : H[i].e = ClaimEvent(x.existingOwner, x.existingRev)
        BY <2>4, <3>3
      <4> QED BY <1>1, <4>1, <4>2 DEF Standing
    <3> QED BY <1>1, <2>5, <3>1, <3>2, <3>3 DEF Standing
  <2> QED BY <2>1, <2>6 DEF new
<1> HIDE DEF S
<1>4. \A m \in p..n : m \in S
  BY <1>1, <1>2, <1>3, InductionFrom
<1> QED BY <1>1, <1>4 DEF S

\* current_claim_precondition finds no claim of a but its last.
LEMMA PreconditionIsLast ==
  ASSUME NEW H, NEW n, Chronicle(H, n), NEW a \in Agents, NEW p \in 1..n,
         LastOf(H, n, a, p), IsClaim(H[p]), NEW r \in Precondition(a, Folded(H)[n])
  PROVE  r = Revision(a, H[p].seq)
<1> DEFINE k == Folded(H)[n]
           c == Revision(a, H[p].seq)
           C == {z \in k.conflicts : z.owner = a}
<1>1. n \in Nat /\ p \in Nat /\ H[p].by = a /\ p <= n /\ n \in p..n /\ n \in 0..n
  BY DEF Chronicle, LastOf
<1>2. k \in Traced(H, n)
  BY <1>1, FoldTraced
<1>3. k \in CardStates /\ IsFiniteSet(k.conflicts)
  BY <1>2 DEF Traced
<1>4. Standing(H, p, n, k)
  BY StandingKept
<1>5. \A i \in (p + 1)..n : H[i].by # a
  BY <1>1 DEF LastOf
<1>6. k.owner = a => k.rev = c
  <2>1. k.owner = a => Folded(H)[p].owner = a /\ k.rev = Folded(H)[p].rev
    BY <1>1, <1>5, OthersGiveNothing
  <2>2. Folded(H)[p] = Apply(Folded(H)[p - 1], H[p].e) /\ Folded(H)[p - 1] \in Traced(H, p - 1)
    BY FoldStep
  <2>3. Folded(H)[p].owner = a => Folded(H)[p].rev = c
    BY <1>1, <2>2, OwnClaim
  <2> QED BY <2>1, <2>3
<1> HIDE DEF k, c
<1>7. CASE k.owner = a
  <2>1. r \in {k.rev} \ {NoRev}
    BY <1>7 DEF Precondition, k
  <2> QED BY <1>6, <1>7, <2>1 DEF c
<1>8. CASE k.owner # a
  <2>1. PICK y \in k.conflicts : /\ y.owner = a /\ Cardinality(C) = 1 /\ r = y.rev
                                 /\ y.existingOwner = k.owner /\ y.existingRev = k.rev
    BY <1>8 DEF Precondition, k
  <2>2. IsFiniteSet(C)
    BY <1>3, FS_Subset
  <2>3. \A x \in k.conflicts : x.owner = a => x = y
    <3>1. y \in C /\ \A x \in k.conflicts : x.owner = a => x \in C
      BY <2>1
    <3> HIDE DEF C
    <3>2. PICK z : C = {z}
      BY <2>1, <2>2, FS_Singleton
    <3> QED BY <3>1, <3>2
  <2>4. k.owner # None
    BY <1>3, <2>1, NoneAssumption DEF CardStates, Conflicts
  <2>5. CASE \E x \in k.conflicts : x.owner = a /\ x.rev = c
    BY <2>1, <2>3, <2>5 DEF c
  <2>6. CASE /\ \E i \in p..n : H[i].e = ClaimEvent(k.owner, k.rev)
             /\ \E i \in 1..(p - 1) : H[i].e = ClaimEvent(y.existingOwner, y.existingRev)
    <3>1. PICK i \in p..n : H[i].e = ClaimEvent(k.owner, k.rev)
      BY <2>6
    <3>2. PICK j \in 1..(p - 1) : H[j].e = ClaimEvent(y.existingOwner, y.existingRev)
      BY <2>6
    <3>3. i \in 1..n /\ j \in 1..n /\ i # j
      BY <1>1
    <3>4. H[j].e = ClaimEvent(k.owner, k.rev)
      BY <2>1, <3>2
    <3> QED BY <3>1, <3>3, <3>4, ClaimOnce
  <2> QED BY <1>1, <1>4, <2>1, <2>4, <2>5, <2>6 DEF Standing, c
<1> QED BY <1>7, <1>8

\* An agent whose last row is a claim owns the card or is on record, unless the card was
\* finished or taken anew since.
LEMMA NoLoserForgotten ==
  ASSUME NEW H, NEW n, Chronicle(H, n), NEW a \in Agents, NEW p \in 1..n,
         LastOf(H, n, a, p), IsClaim(H[p]),
         \A j \in (p + 1)..n : ~(H[j].e.act = "complete" \/ TakesAnew(Folded(H)[j - 1], H[j]))
  PROVE  Folded(H)[n].owner = a \/ \E x \in Folded(H)[n].conflicts : x.owner = a
<1> DEFINE S == {m \in Nat : \/ Folded(H)[m].owner = a
                             \/ \E x \in Folded(H)[m].conflicts : x.owner = a}
<1>1. n \in Nat /\ p \in Nat /\ H[p].by = a /\ p <= n /\ n \in p..n
  BY DEF Chronicle, LastOf
<1>2. p \in S
  <2>1. Folded(H)[p] = Apply(Folded(H)[p - 1], H[p].e) /\ Folded(H)[p - 1] \in Traced(H, p - 1)
    BY FoldStep
  <2> QED BY <1>1, <2>1, OwnClaim
<1>3. ASSUME NEW m \in p..n, m \in S, m < n PROVE m + 1 \in S
  <2> DEFINE k == Folded(H)[m]
             new == Folded(H)[m + 1]
  <2>1. /\ m \in Nat /\ m + 1 \in 1..n /\ (m + 1) - 1 = m /\ m + 1 \in Nat
        /\ m + 1 \in (p + 1)..n /\ m + 1 > p
    BY <1>1, <1>3
  <2>2. H[m + 1].by # a
    BY <1>1, <2>1 DEF LastOf
  <2>3. new = Apply(k, H[m + 1].e) /\ k \in Traced(H, m)
    BY <2>1, FoldStep
  <2>4. /\ k.owner = a => new.owner = a \/ H[m + 1].e.act = "complete"
        /\ \/ \A x \in k.conflicts : x.owner = a => x \in new.conflicts
           \/ H[m + 1].e.act = "claim" /\ k.owner = None
    BY <2>1, <2>2, <2>3, OthersRow
  <2>5. H[m + 1].e.act # "complete" /\ ~TakesAnew(k, H[m + 1])
    BY <2>1
  <2>6. k.owner = a \/ \E x \in k.conflicts : x.owner = a
    BY <1>3
  <2> HIDE DEF new, k
  <2>7. new.owner = a \/ \E x \in new.conflicts : x.owner = a
    BY <2>4, <2>5, <2>6 DEF TakesAnew
  <2> QED BY <2>1, <2>7 DEF new
<1> HIDE DEF S
<1>4. \A m \in p..n : m \in S
  BY <1>1, <1>2, <1>3, InductionFrom
<1> QED BY <1>1, <1>4 DEF S

-----------------------------------------------------------------------------
(* Every step keeps the logs as LogsInv says *)

LEMMA LogType ==
  ASSUME LogsTypeOK, NEW a \in Agents
  PROVE  /\ log[a] \in Seq(LogRows) /\ Len(log[a]) \in Nat
         /\ DOMAIN log[a] = 1..Len(log[a])
BY LenProperties DEF LogsTypeOK

\* The place of a's last row in what a host has, when it has all of a's file up to s.
LEMMA LastRow ==
  ASSUME LogsInv, NEW have, Prefix(have), NEW a \in Agents, have[a] > 0
  PROVE  LET H == History(have) n == Len(H) IN
         \E p \in 1..n : LastOf(H, n, a, p) /\ H[p].seq = have[a] /\ H[p].e = log[a][have[a]].e
<1> DEFINE H == History(have)
           n == Len(H)
<1>1. /\ Chronicle(H, n)
      /\ \A i \in 1..n : H[i].by \in Agents /\ H[i].seq \in 1..have[H[i].by]
      /\ \A i \in 1..n : H[i].e = log[H[i].by][H[i].seq].e
      /\ \A b \in Agents : \A s \in 1..have[b] : \E i \in 1..n : H[i].by = b /\ H[i].seq = s
  BY HistoryChronicle
<1> HIDE DEF n, H
<1>2. n \in Nat /\ have[a] \in Nat /\ have[a] \in 1..have[a]
  BY <1>1 DEF Chronicle, Prefix
<1>3. PICK p \in 1..n : H[p].by = a /\ H[p].seq = have[a]
  BY <1>1, <1>2
<1>4. \A i \in 1..n : H[i].by = a => i <= p
  <2> SUFFICES ASSUME NEW i \in 1..n, H[i].by = a PROVE i <= p
    OBVIOUS
  <2>1. H[i].seq \in Nat /\ H[i].seq <= have[a]
    BY <1>1, <1>2
  <2>2. CASE H[i].seq < have[a]
    BY <1>1, <1>2, <1>3, <2>2 DEF Chronicle
  <2>3. CASE H[i].seq = have[a]
    BY <1>1, <1>2, <1>3, <2>3 DEF Chronicle
  <2> QED BY <1>2, <2>1, <2>2, <2>3
<1> QED BY <1>1, <1>3, <1>4 DEF LastOf, n, H

LEMMA HostPrefix ==
  ASSUME LogsInv, NEW h \in Agents
  PROVE  Prefix(got[h])
BY DEF LogsInv, LogsTypeOK, Prefix

LEMMA EverythingPrefix ==
  ASSUME LogsInv
  PROVE  Prefix(Everything)
BY LogType DEF LogsInv, Prefix, Everything

LEMMA FoldRowsIs == ASSUME NEW H PROVE FoldRows(H) = Folded(H)[Len(H)]
BY DEF FoldRows

LEMMA ClaimRow ==
  ASSUME NEW x, NEW n \in Nat \ {0}, x.seq = n, x.by \in Agents,
         IsClaim(x) \/ IsRelease(x) \/ IsComplete(x)
  PROVE  x.e.act = "claim" <=> IsClaim(x)
BY EventsApart DEF IsClaim, IsRelease, IsComplete

\* A row that fits is appended.
LEMMA FitsAppend ==
  ASSUME NEW rows \in Seq(LogRows), NEW row \in LogRows, NEW a, FileFits(rows, a),
         \A i \in 1..Len(rows) : rows[i].ts < row.ts,
         \/ row.e = ClaimEvent(a, Revision(a, Len(rows) + 1))
         \/ /\ Len(rows) > 0 /\ row.e = ReleaseEvent(a, Revision(a, Len(rows)))
            /\ rows[Len(rows)].e = ClaimEvent(a, Revision(a, Len(rows)))
         \/ row.e = CompleteEvent
  PROVE  FileFits(Append(rows, row), a)
<1> DEFINE more == Append(rows, row)
           L == Len(rows)
<1>1. /\ L \in Nat /\ Len(more) = L + 1 /\ more[L + 1] = row
      /\ \A i \in 1..L : more[i] = rows[i]
  BY LenProperties, AppendProperties
<1> HIDE DEF more
<1>2. \A i, j \in 1..(L + 1) : i < j => more[i].ts < more[j].ts
  <2> SUFFICES ASSUME NEW i \in 1..(L + 1), NEW j \in 1..(L + 1), i < j
               PROVE  more[i].ts < more[j].ts
    OBVIOUS
  <2>1. i \in 1..L
    BY <1>1
  <2>2. CASE j \in 1..L
    BY <1>1, <2>1, <2>2 DEF FileFits
  <2>3. CASE j = L + 1
    BY <1>1, <2>1, <2>3
  <2> QED BY <1>1, <2>2, <2>3
<1>3. ASSUME NEW i \in 1..(L + 1)
      PROVE  \/ more[i].e = ClaimEvent(a, Revision(a, i))
             \/ /\ i > 1 /\ more[i].e = ReleaseEvent(a, Revision(a, i - 1))
                /\ more[i - 1].e = ClaimEvent(a, Revision(a, i - 1))
             \/ more[i].e = CompleteEvent
  <2>1. CASE i \in 1..L
    <3>1. i > 1 => i - 1 \in 1..L
      BY <1>1
    <3> QED BY <1>1, <2>1, <3>1 DEF FileFits
  <2>2. CASE i = L + 1
    <3>1. i - 1 = L /\ (L > 0 => i > 1 /\ L \in 1..L)
      BY <1>1, <2>2
    <3> QED BY <1>1, <2>2, <3>1
  <2> QED BY <1>1, <2>1, <2>2
<1> QED BY <1>1, <1>2, <1>3 DEF FileFits, more

\* append_event keeps the files as they should be.
LEMMA AppendKeeps ==
  ASSUME LogsInv, NEW a \in Agents, NEW e, Append1(a, e),
         e \in [act : {"claim", "release_claim", "complete"}, who : Agents \cup {None},
                rev : Revisions, col : Columns],
         \/ e = ClaimEvent(a, Revision(a, Len(log[a]) + 1))
         \/ /\ Len(log[a]) > 0 /\ e = ReleaseEvent(a, Revision(a, Len(log[a])))
            /\ log[a][Len(log[a])].e = ClaimEvent(a, Revision(a, Len(log[a])))
         \/ e = CompleteEvent
  PROVE  /\ log' \in [Agents -> Seq(LogRows)]
         /\ got' \in [Agents -> [Agents -> Nat]]
         /\ \A b, c \in Agents : got'[b][c] <= Len(log'[c])
         /\ \A b \in Agents : got'[b][b] = Len(log'[b]) /\ FileFits(log'[b], b)
         /\ \A b \in Agents : b # a => log'[b] = log[b]
         /\ Len(log'[a]) = Len(log[a]) + 1 /\ log'[a][Len(log'[a])].e = e
<1>0. LogsTypeOK /\ \A b \in Agents : got[b][b] = Len(log[b]) /\ FileFits(log[b], b)
  BY DEF LogsInv
<1>1. PICK ts \in 1..MaxTime : /\ \A t \in Now(a) : t < ts
                               /\ log' = [log EXCEPT ![a] = Append(@, [ts |-> ts, e |-> e])]
  BY DEF Append1
<1>2. got' = [got EXCEPT ![a][a] = @ + 1]
  BY DEF Append1
<1> DEFINE row == [ts |-> ts, e |-> e]
           rows == log[a]
           L == Len(rows)
<1>3. row \in LogRows /\ row.ts = ts /\ row.e = e
  BY DEF LogRows
<1>4. rows \in Seq(LogRows) /\ L \in Nat
  BY <1>0, LogType
<1>5. \A i \in 1..L : rows[i].ts < ts
  <2> TAKE i \in 1..L
  <2>1. RowOf(a, i) \in Rows(got[a])
    BY <1>0, RowsAre
  <2>2. RowOf(a, i).ts \in Now(a)
    BY <2>1 DEF Now
  <2> QED BY <1>0, <1>1, <2>2, RowOfType
<1> HIDE DEF row
<1>6. FileFits(Append(rows, row), a)
  BY <1>0, <1>3, <1>4, <1>5, FitsAppend
<1>7. /\ Append(rows, row) \in Seq(LogRows) /\ Len(Append(rows, row)) = L + 1
      /\ Append(rows, row)[L + 1] = row
  BY <1>3, <1>4, AppendProperties
<1>8. /\ log \in [Agents -> Seq(LogRows)] /\ got \in [Agents -> [Agents -> Nat]]
      /\ \A b, c \in Agents : got[b][c] <= Len(log[c])
  BY <1>0 DEF LogsTypeOK
<1>9. /\ log'[a] = Append(rows, row) /\ \A b \in Agents : b # a => log'[b] = log[b]
      /\ log' \in [Agents -> Seq(LogRows)]
  BY <1>1, <1>7, <1>8 DEF row
<1>10. /\ \A b, c \in Agents : got'[b][c] = IF b = a /\ c = a THEN got[b][c] + 1 ELSE got[b][c]
       /\ got' \in [Agents -> [Agents -> Nat]]
  <2>1. got[a] \in [Agents -> Nat] /\ got[a][a] + 1 \in Nat
    BY <1>8
  <2>2. got' = [got EXCEPT ![a] = [got[a] EXCEPT ![a] = got[a][a] + 1]]
    BY <1>2
  <2> DEFINE mine == [got[a] EXCEPT ![a] = got[a][a] + 1]
  <2>3. mine \in [Agents -> Nat] /\ \A c \in Agents : mine[c] = IF c = a THEN got[a][c] + 1 ELSE got[a][c]
    BY <2>1
  <2> HIDE DEF mine
  <2>4. got' = [got EXCEPT ![a] = mine]
    BY <2>2 DEF mine
  <2>5. got' \in [Agents -> [Agents -> Nat]] /\ \A b \in Agents : got'[b] = IF b = a THEN mine ELSE got[b]
    BY <1>8, <2>3, <2>4
  <2> QED BY <2>3, <2>5
<1>11. \A b, c \in Agents : got'[b][c] <= Len(log'[c])
  <2> SUFFICES ASSUME NEW b \in Agents, NEW c \in Agents PROVE got'[b][c] <= Len(log'[c])
    OBVIOUS
  <2>1. got[b][c] <= Len(log[c]) /\ got[b][c] \in Nat /\ Len(log[c]) \in Nat
    BY <1>0, <1>8, LogType
  <2>2. Len(log'[c]) = IF c = a THEN Len(log[c]) + 1 ELSE Len(log[c])
    BY <1>7, <1>9
  <2>3. CASE b = a /\ c = a
    BY <1>10, <2>1, <2>2, <2>3
  <2>4. CASE ~(b = a /\ c = a)
    <3>1. got'[b][c] = got[b][c]
      BY <1>10, <2>4
    <3> QED BY <2>1, <2>2, <3>1
  <2> QED BY <2>3, <2>4
<1>12. \A b \in Agents : got'[b][b] = Len(log'[b]) /\ FileFits(log'[b], b)
  BY <1>0, <1>6, <1>7, <1>9, <1>10
<1> QED BY <1>3, <1>7, <1>9, <1>10, <1>11, <1>12

LEMMA LogsInit == ReplicaInit => LogsInv
<1> SUFFICES ASSUME ReplicaInit PROVE LogsInv
  OBVIOUS
<1>1. \A a \in Agents : log[a] = <<>> /\ file[a] = "none"
  BY DEF ReplicaInit
<1>2. <<>> \in Seq(LogRows) /\ Len(<<>>) = 0
  BY EmptySeq
<1>3. LogsTypeOK
  BY <1>2 DEF ReplicaInit, LogsTypeOK
<1>4. \A a \in Agents : got[a][a] = Len(log[a]) /\ FileFits(log[a], a)
  BY <1>1, <1>2 DEF ReplicaInit, FileFits
<1> QED BY <1>1, <1>3, <1>4 DEF LogsInv

\* The agent's last row, when its file says it has the card.
LEMMA ClaimedLast ==
  ASSUME LogsInv, NEW a \in Agents, file[a] = "claimed"
  PROVE  /\ Len(log[a]) \in Nat \ {0}
         /\ log[a][Len(log[a])].e = ClaimEvent(a, Revision(a, Len(log[a])))
<1>1. /\ Len(log[a]) > 0 /\ log[a][Len(log[a])].e.act = "claim" /\ FileFits(log[a], a)
      /\ Len(log[a]) \in Nat
  BY LogType DEF LogsInv
<1> DEFINE L == Len(log[a])
<1>2. L \in 1..L
  BY <1>1
<1> HIDE DEF L
<1>3. L \in 1..L /\ log[a][L].e.act = "claim" /\ L = Len(log[a])
  BY <1>1, <1>2 DEF L
<1>4. log[a][L].e = ClaimEvent(a, Revision(a, L))
  BY <1>1, <1>3, EventsApart DEF FileFits
<1> QED BY <1>1, <1>3, <1>4

LEMMA FileKept ==
  ASSUME LogsInv, NEW a \in Agents, NEW w \in {"none", "claimed", "completed"},
         file' = [file EXCEPT ![a] = w],
         \A b \in Agents : b # a => log'[b] = log[b],
         w = "claimed" => Len(log'[a]) > 0 /\ log'[a][Len(log'[a])].e.act = "claim"
  PROVE  /\ file' \in [Agents -> {"none", "claimed", "completed"}]
         /\ \A b \in Agents : file'[b] = "claimed" =>
              Len(log'[b]) > 0 /\ log'[b][Len(log'[b])].e.act = "claim"
<1>1. /\ file \in [Agents -> {"none", "claimed", "completed"}]
      /\ \A b \in Agents : file[b] = "claimed" =>
           Len(log[b]) > 0 /\ log[b][Len(log[b])].e.act = "claim"
  BY DEF LogsInv, LogsTypeOK
<1>2. \A b \in Agents : file'[b] = IF b = a THEN w ELSE file[b]
  BY <1>1
<1>3. file' \in [Agents -> {"none", "claimed", "completed"}]
  BY <1>1
<1> QED BY <1>1, <1>2, <1>3

LEMMA ClaimKeeps == ASSUME LogsInv, NEW a \in Agents, ClaimTask(a) PROVE LogsInv'
<1> DEFINE L == Len(log[a])
           e == ClaimEvent(a, Revision(a, L + 1))
<1>1. L \in Nat
  BY LogType DEF LogsInv
<1>2. Append1(a, e) /\ file' = [file EXCEPT ![a] = "claimed"]
  <2>1. 10 * Rank[a] + Len(log[a]) + 1 = Revision(a, L + 1)
    BY <1>1, RankAssumption DEF Revision
  <2>2. Append1(a, ClaimEvent(a, 10 * Rank[a] + Len(log[a]) + 1)) /\ file' = [file EXCEPT ![a] = "claimed"]
    BY DEF ClaimTask
  <2> HIDE DEF L
  <2> QED BY <2>1, <2>2
<1>3. /\ e \in [act : {"claim", "release_claim", "complete"}, who : Agents \cup {None},
                rev : Revisions, col : Columns]
      /\ e.act = "claim"
  <2>1. Revision(a, L + 1) \in Revisions
    BY <1>1, RevisionType
  <2> QED BY <2>1 DEF ClaimEvent, Event, Columns
<1> HIDE DEF e
<1>4. /\ log' \in [Agents -> Seq(LogRows)]
      /\ got' \in [Agents -> [Agents -> Nat]]
      /\ \A b, c \in Agents : got'[b][c] <= Len(log'[c])
      /\ \A b \in Agents : got'[b][b] = Len(log'[b]) /\ FileFits(log'[b], b)
      /\ \A b \in Agents : b # a => log'[b] = log[b]
      /\ Len(log'[a]) = L + 1 /\ log'[a][Len(log'[a])].e = e
  BY <1>2, <1>3, AppendKeeps DEF e
<1>5. Len(log'[a]) > 0 /\ log'[a][Len(log'[a])].e.act = "claim"
  BY <1>1, <1>3, <1>4
<1>6. /\ file' \in [Agents -> {"none", "claimed", "completed"}]
      /\ \A b \in Agents : file'[b] = "claimed" =>
           Len(log'[b]) > 0 /\ log'[b][Len(log'[b])].e.act = "claim"
  BY <1>2, <1>4, <1>5, FileKept
<1> QED BY <1>4, <1>6 DEF LogsInv, LogsTypeOK

LEMMA CompleteKeeps == ASSUME LogsInv, NEW a \in Agents, CompleteTask(a) PROVE LogsInv'
<1>1. Append1(a, CompleteEvent) /\ file' = [file EXCEPT ![a] = "completed"]
  BY DEF CompleteTask
<1>2. CompleteEvent \in [act : {"claim", "release_claim", "complete"}, who : Agents \cup {None},
                         rev : Revisions, col : Columns]
  BY DEF CompleteEvent, Event, Columns, Revisions, NoRev
<1>3. /\ log' \in [Agents -> Seq(LogRows)]
      /\ got' \in [Agents -> [Agents -> Nat]]
      /\ \A b, c \in Agents : got'[b][c] <= Len(log'[c])
      /\ \A b \in Agents : got'[b][b] = Len(log'[b]) /\ FileFits(log'[b], b)
      /\ \A b \in Agents : b # a => log'[b] = log[b]
  BY <1>1, <1>2, AppendKeeps
<1>4. /\ file' \in [Agents -> {"none", "claimed", "completed"}]
      /\ \A b \in Agents : file'[b] = "claimed" =>
           Len(log'[b]) > 0 /\ log'[b][Len(log'[b])].e.act = "claim"
  BY <1>1, <1>3, FileKept
<1> QED BY <1>3, <1>4 DEF LogsInv, LogsTypeOK

LEMMA ReleaseKeeps == ASSUME LogsInv, NEW a \in Agents, ReleaseClaim(a) PROVE LogsInv'
<1> DEFINE L == Len(log[a])
           H == History(got[a])
           n == Len(H)
<1>1. PICK r \in Precondition(a, View(got[a])) : Append1(a, ReleaseEvent(a, r))
  BY DEF ReleaseClaim
<1>2. file[a] = "claimed" /\ file' = [file EXCEPT ![a] = "none"]
  BY DEF ReleaseClaim
<1>3. L \in Nat \ {0} /\ log[a][L].e = ClaimEvent(a, Revision(a, L))
  BY <1>2, ClaimedLast
<1>4. got[a][a] = L /\ Prefix(got[a])
  BY HostPrefix DEF LogsInv
<1>5. Chronicle(H, n)
  BY <1>4, HistoryChronicle
<1>6. \E p \in 1..n : LastOf(H, n, a, p) /\ H[p].seq = got[a][a] /\ H[p].e = log[a][got[a][a]].e
  BY <1>3, <1>4, LastRow
<1>7. r \in Precondition(a, Folded(H)[n])
  BY <1>1 DEF View, FoldRows
<1> HIDE DEF L, H, n
<1>8. PICK p \in 1..n : LastOf(H, n, a, p) /\ H[p].seq = L /\ H[p].e = log[a][L].e
  BY <1>4, <1>6
<1>9. IsClaim(H[p])
  BY <1>3, <1>8 DEF IsClaim, LastOf
<1>10. r = Revision(a, L)
  BY <1>5, <1>7, <1>8, <1>9, PreconditionIsLast
<1> DEFINE e == ReleaseEvent(a, Revision(a, L))
<1>11. e \in [act : {"claim", "release_claim", "complete"}, who : Agents \cup {None},
              rev : Revisions, col : Columns]
  <2>1. Revision(a, L) \in Revisions
    BY <1>3, RevisionType
  <2> QED BY <2>1 DEF ReleaseEvent, Event, Columns
<1> HIDE DEF e
<1>12. Append1(a, e)
  BY <1>1, <1>10 DEF e
<1>13. L > 0
  BY <1>3
<1>14. /\ log' \in [Agents -> Seq(LogRows)]
       /\ got' \in [Agents -> [Agents -> Nat]]
       /\ \A b, c \in Agents : got'[b][c] <= Len(log'[c])
       /\ \A b \in Agents : got'[b][b] = Len(log'[b]) /\ FileFits(log'[b], b)
       /\ \A b \in Agents : b # a => log'[b] = log[b]
  BY <1>3, <1>11, <1>12, <1>13, AppendKeeps DEF e, L
<1>15. /\ file' \in [Agents -> {"none", "claimed", "completed"}]
       /\ \A b \in Agents : file'[b] = "claimed" =>
            Len(log'[b]) > 0 /\ log'[b][Len(log'[b])].e.act = "claim"
  BY <1>2, <1>14, FileKept
<1> QED BY <1>14, <1>15 DEF LogsInv, LogsTypeOK

LEMMA DeliverKeeps ==
  ASSUME LogsInv, NEW a \in Agents, NEW b \in Agents, Deliver(a, b) PROVE LogsInv'
<1>1. a # b /\ log' = log /\ file' = file
  BY DEF Deliver
<1>2. PICK n \in (got[a][b] + 1)..Len(log[b]) : got' = [got EXCEPT ![a][b] = n]
  BY DEF Deliver
<1>3. /\ got \in [Agents -> [Agents -> Nat]] /\ \A c, d \in Agents : got[c][d] <= Len(log[d])
      /\ LogsTypeOK
  BY DEF LogsInv, LogsTypeOK
<1>4. n \in Nat /\ n <= Len(log[b])
  BY <1>2, <1>3, LogType
<1>5. /\ \A c, d \in Agents : got'[c][d] = IF c = a /\ d = b THEN n ELSE got[c][d]
      /\ got' \in [Agents -> [Agents -> Nat]]
  BY <1>2, <1>3, <1>4
<1>6. LogsTypeOK'
  BY <1>1, <1>3, <1>4, <1>5 DEF LogsTypeOK
<1>7. \A c \in Agents : got'[c][c] = got[c][c]
  BY <1>1, <1>5
<1> QED BY <1>1, <1>6, <1>7 DEF LogsInv

LEMMA LogsNext == ASSUME LogsInv, [ReplicaNext]_replicaVars PROVE LogsInv'
<1>1. CASE UNCHANGED replicaVars
  BY <1>1 DEF replicaVars, LogsInv, LogsTypeOK
<1>2. CASE ReplicaNext
  <2>1. PICK a \in Agents : \/ ClaimTask(a) \/ ReleaseClaim(a) \/ CompleteTask(a)
                            \/ \E b \in Agents : Deliver(a, b)
    BY <1>2 DEF ReplicaNext
  <2> QED BY <2>1, ClaimKeeps, ReleaseKeeps, CompleteKeeps, DeliverKeeps
<1> QED BY <1>1, <1>2

\* The files keep their types, each moves on in time, a host has all of its own agent's
\* file, an agent that says it has the card has claimed it last, and every release ever
\* written gives up exactly the claim of the row before it: what current_claim_precondition
\* finds is never a claim of an earlier time.
THEOREM LogsInvHolds == ReplicaSpec => []LogsInv
BY LogsInit, LogsNext, PTL DEF ReplicaSpec

\* Types of the files, of what hosts have of them and of what agents say.
THEOREM ReplicaTypeCorrect == ReplicaSpec => []LogsTypeOK
<1>1. LogsInv => LogsTypeOK
  BY DEF LogsInv
<1> QED BY <1>1, LogsInvHolds, PTL

LEMMA NoGhostFromInv == LogsInv => NoGhostOwner
<1> SUFFICES ASSUME LogsInv, NEW h \in Agents, NEW a, a = View(got[h]).owner, a # None
             PROVE  log[a][got[h][a]].e.act = "claim"
  BY DEF NoGhostOwner
<1> DEFINE H == History(got[h])
           n == Len(H)
<1>1. Prefix(got[h])
  BY HostPrefix
<1>2. /\ Chronicle(H, n)
      /\ \A i \in 1..n : H[i].by \in Agents /\ H[i].seq \in 1..got[h][H[i].by]
  BY <1>1, HistoryChronicle
<1>3. a = Folded(H)[n].owner
  BY DEF View, FoldRows
<1>4. a \in Agents => (got[h][a] > 0 =>
        \E p \in 1..n : LastOf(H, n, a, p) /\ H[p].seq = got[h][a] /\ H[p].e = log[a][got[h][a]].e)
  BY <1>1, LastRow
<1> HIDE DEF H, n
<1>5. n \in 0..n /\ n \in Nat
  BY <1>2 DEF Chronicle
<1>6. Folded(H)[n] \in Traced(H, n)
  BY <1>2, <1>5, FoldTraced
<1>7. PICK i \in 1..n : H[i].e = ClaimEvent(a, Folded(H)[n].rev)
  BY <1>3, <1>6 DEF Traced
<1>8. IsClaim(H[i]) /\ H[i].by = a /\ a \in Agents
  <2>1. IsClaim(H[i])
    BY <1>2, <1>7, EventsApart DEF Chronicle, IsClaim, IsRelease, IsComplete
  <2> QED BY <1>2, <1>7, <2>1 DEF IsClaim, ClaimEvent, Event
<1>9. got[h][a] > 0 /\ got[h][a] \in Nat
  BY <1>1, <1>2, <1>8 DEF Prefix
<1>10. PICK p \in 1..n : /\ LastOf(H, n, a, p) /\ H[p].seq = got[h][a]
                         /\ H[p].e = log[a][got[h][a]].e
  BY <1>4, <1>8, <1>9
<1>11. IsClaim(H[p])
  BY <1>2, <1>3, <1>8, <1>10, NoGhost
<1> QED BY <1>10, <1>11, EventsApart DEF IsClaim

\* On no host, whatever has arrived there, does a card have an owner whose last row there
\* gave it up or finished it.
THEOREM NoGhostOwnerHolds == ReplicaSpec => []NoGhostOwner
BY LogsInvHolds, NoGhostFromInv, PTL

LEMMA LosersFromInv == LogsInv => LosersRecorded
<1> DEFINE H == History(Everything)
           n == Len(H)
<1> SUFFICES ASSUME LogsInv, NEW a \in Agents, file[a] = "claimed",
                    \A i, j \in DOMAIN H :
                      i < j /\ H[i].by = a /\ H[i].seq = Len(log[a]) =>
                        ~(H[j].e.act = "complete" \/ TakesAnew(Folded(H)[j - 1], H[j]))
             PROVE  Folded(H)[n].owner = a \/ \E x \in Folded(H)[n].conflicts : x.owner = a
  BY DEF LosersRecorded
<1>1. Prefix(Everything) /\ LogsTypeOK
  BY EverythingPrefix DEF LogsInv
<1>2. Chronicle(H, n)
  BY <1>1, HistoryChronicle
<1>3. DOMAIN H = 1..n /\ n \in Nat
  BY <1>1, HistoryOrders
<1>4. Everything[a] = Len(log[a])
  BY DEF Everything
<1>5. Len(log[a]) \in Nat \ {0} /\ log[a][Len(log[a])].e = ClaimEvent(a, Revision(a, Len(log[a])))
  BY ClaimedLast
<1>6. \E p \in 1..n : LastOf(H, n, a, p) /\ H[p].seq = Everything[a] /\ H[p].e = log[a][Everything[a]].e
  BY <1>1, <1>4, <1>5, LastRow
<1> HIDE DEF H, n
<1>7. PICK p \in 1..n : /\ LastOf(H, n, a, p) /\ H[p].seq = Len(log[a])
                        /\ H[p].e = ClaimEvent(a, Revision(a, Len(log[a])))
  BY <1>4, <1>5, <1>6
<1>8. IsClaim(H[p]) /\ H[p].by = a
  BY <1>7 DEF IsClaim, LastOf
<1>9. \A j \in (p + 1)..n : ~(H[j].e.act = "complete" \/ TakesAnew(Folded(H)[j - 1], H[j]))
  <2> TAKE j \in (p + 1)..n
  <2>1. p \in DOMAIN H /\ j \in DOMAIN H /\ p < j
    BY <1>3
  <2> QED BY <1>7, <1>8, <2>1
<1> QED BY <1>2, <1>7, <1>8, <1>9, NoLoserForgotten

\* A loser of concurrent claims is on record, until the card is finished or taken anew.
THEOREM LosersRecordedHolds == ReplicaSpec => []LosersRecorded
BY LogsInvHolds, LosersFromInv, PTL
=============================================================================
