------------------------------ MODULE Replicas ------------------------------
(***************************************************************************)
(* One card on several hosts: card_store.py (_read_events, append_event,   *)
(* current_claim_precondition) and the gates of coordination.py, over a    *)
(* folder that is synchronised file by file.                               *)
(*                                                                         *)
(* Each agent works on a host of its own and appends to its own file; the  *)
(* other hosts see a prefix of that file, later.  Board and card locks are *)
(* local.  Every host folds the rows it has in the order of their          *)
(* timestamps, so a row that arrives late changes the past of a card that  *)
(* others have already acted on.                                           *)
(*                                                                         *)
(* Clocks: a new row is later than every row its host has.  Between hosts  *)
(* that have not heard of each other, timestamps are in any order.         *)
(***************************************************************************)
EXTENDS CardFold, Sequences

CONSTANTS Rank,      \* [Agents -> Nat], the order of writers' names
          MaxTime,   \* bound on timestamps
          MaxRows    \* bound on the rows of all files

ASSUME RankAssumption ==
  /\ IsFiniteSet(Agents) /\ Rank \in [Agents -> Nat] /\ MaxTime \in Nat
  /\ \A a, b \in Agents : Rank[a] = Rank[b] => a = b

VARIABLES log,   \* [Agents -> the rows of the agent's file]
          got,   \* [Agents -> [Agents -> how many rows of a file its host has]]
          file   \* [Agents -> what the agent's own file says: none, claimed, completed]

replicaVars == <<log, got, file>>

Rows(have) ==
  UNION {{[ts |-> log[a][i].ts, by |-> a, seq |-> i, e |-> log[a][i].e] : i \in 1..have[a]} :
           a \in Agents}

\* The order of the fold: timestamp, writer, sequence number.
Before(x, y) ==
  \/ x.ts < y.ts
  \/ x.ts = y.ts /\ Rank[x.by] < Rank[y.by]
  \/ x.ts = y.ts /\ x.by = y.by /\ x.seq < y.seq

History(have) ==
  LET rows == Rows(have) IN
  [i \in 1..Cardinality(rows) |->
     CHOOSE x \in rows : Cardinality({y \in rows : Before(y, x)}) = i - 1]

\* The card after each row of a history.
Folded(rows) ==
  LET After[n \in Nat] ==
        IF n = 0 THEN NewCard ELSE Apply(After[n - 1], rows[n].e)
  IN After

FoldRows(rows) == Folded(rows)[Len(rows)]

View(have) == FoldRows(History(have))

Everything == [a \in Agents |-> Len(log[a])]

Now(a) == {0} \cup {row.ts : row \in Rows(got[a])}

\* The rows that append_event writes for claims, releases and completions.
LogRows ==
  [ts : 1..MaxTime,
   e : [act : {"claim", "release_claim", "complete"}, who : Agents \cup {None},
        rev : Revisions, col : Columns]]

\* A file holds rows that append_event writes; a host has a prefix of every file, never
\* more than there is.
LogsTypeOK ==
  /\ log \in [Agents -> Seq(LogRows)]
  /\ got \in [Agents -> [Agents -> Nat]]
  /\ \A a, b \in Agents : got[a][b] <= Len(log[b])
  /\ file \in [Agents -> {"none", "claimed", "completed"}]

ReplicaInit ==
  /\ log = [a \in Agents |-> <<>>]
  /\ got = [a \in Agents |-> [b \in Agents |-> 0]]
  /\ file = [a \in Agents |-> "none"]

\* append_event, on the agent's own host.
Append1(a, e) ==
  /\ Cardinality(Rows(Everything)) < MaxRows
  /\ \E ts \in 1..MaxTime :
       /\ \A t \in Now(a) : t < ts
       /\ log' = [log EXCEPT ![a] = Append(@, [ts |-> ts, e |-> e])]
  /\ got' = [got EXCEPT ![a][a] = @ + 1]

\* claim_task: the card is open or active without an owner, as far as the host knows.
\* The revision is a fresh one.  The owner's own claim of a card in progress appends
\* nothing (it only makes the card current again); it would draw a new revision after a
\* demotion or a move, which are not among the rows here.
ClaimTask(a) ==
  LET k == View(got[a]) IN
  /\ k.status # "done" /\ k.owner = None
  /\ Append1(a, ClaimEvent(a, 10 * Rank[a] + Len(log[a]) + 1))
  /\ file' = [file EXCEPT ![a] = "claimed"]

\* Fault: the revision is that of the agent's first claim.
FirstRevision(a, k) ==
  {log[a][i].e.rev : i \in {j \in DOMAIN log[a] : j = 1 /\ log[a][j].e.act = "claim"}}

\* current_claim_precondition: the revision of the card's claim if it is a's, or that of
\* a's one recorded conflict with the present claim.  Otherwise a release raises.
Precondition(a, k) ==
  IF k.owner = a THEN {k.rev} \ {NoRev}
  ELSE {x.rev : x \in {y \in k.conflicts : /\ y.owner = a
                                           /\ Cardinality({z \in k.conflicts : z.owner = a}) = 1
                                           /\ y.existingOwner = k.owner /\ y.existingRev = k.rev}}

ReleaseClaim(a) ==
  /\ file[a] = "claimed"
  /\ \E r \in Precondition(a, View(got[a])) : Append1(a, ReleaseEvent(a, r))
  /\ file' = [file EXCEPT ![a] = "none"]

\* complete_task is refused while the host knows of a conflict or of another owner.
CompleteTask(a) ==
  LET k == View(got[a]) IN
  /\ k.conflicts = {} /\ k.owner \in {None, a} /\ file[a] # "completed"
  /\ Append1(a, CompleteEvent)
  /\ file' = [file EXCEPT ![a] = "completed"]

\* A version of b's file arrives at a's host; versions may be skipped, not undone.
Deliver(a, b) ==
  /\ a # b
  /\ \E n \in (got[a][b] + 1)..Len(log[b]) : got' = [got EXCEPT ![a][b] = n]
  /\ UNCHANGED <<log, file>>

ReplicaNext ==
  \E a \in Agents : \/ ClaimTask(a) \/ ReleaseClaim(a) \/ CompleteTask(a)
                    \/ \E b \in Agents : Deliver(a, b)

ReplicaSpec == ReplicaInit /\ [][ReplicaNext]_replicaVars

-----------------------------------------------------------------------------
(* Properties *)

\* On no host, whatever has arrived there, is the card owned by an agent whose last row
\* there gave it up or finished it.
NoGhostOwner ==
  \A h \in Agents :
    LET a == View(got[h]).owner IN
    a # None => log[a][got[h][a]].e.act = "claim"

\* The row claims a card that nobody owns before it.
TakesAnew(k, row) == row.e.act = "claim" /\ k.owner = None

\* An agent that claimed the card and lost to a claim it had not heard of is named by the
\* fold of all rows, until the card is finished or, given up by its owner, taken anew.
LosersRecorded ==
  LET all == History(Everything)  cards == Folded(all)  k == cards[Len(all)] IN
  \A a \in Agents : file[a] = "claimed" =>
    \/ k.owner = a \/ \E x \in k.conflicts : x.owner = a
    \/ \E i, j \in DOMAIN all : /\ i < j /\ all[i].by = a /\ all[i].seq = Len(log[a])
                                /\ all[j].e.act = "complete" \/ TakesAnew(cards[j - 1], all[j])
=============================================================================
