------------------------------ MODULE Governor ------------------------------
(***************************************************************************)
(* Governed births: card_store.py (_govern_create, create,                 *)
(* create_explicit), review_replacement.py and owner_helpers.py.           *)
(*                                                                         *)
(* A review or repair names one parent.  It is refused while the parent    *)
(* has a live card of its class, or when it would be a review of a review  *)
(* of a review.  One operator authorisation lets one review replace an     *)
(* invalidated one; a repair may replace a superseded card of the old ID   *)
(* format.  The owner of a claimed card may create helpers whose write     *)
(* paths do not overlap.                                                   *)
(*                                                                         *)
(* Births are serialised by the governor's lock.  What they look at is     *)
(* not: events of existing cards take that card's lock, or none when they  *)
(* come through the kanban overlay.                                        *)
(***************************************************************************)
EXTENDS Naturals, Sequences, FiniteSets

CONSTANTS Ids,        \* card identifiers
          Root,       \* a task that exists from the beginning
          Legacy,     \* identifiers in the old format
          Procs, Paths, None,
          MaxEvents,  \* bound on events of existing cards
          MaxFaults   \* bound on crashes

ASSUME IdsKnown == Root \in Ids /\ Legacy \subseteq Ids \ {Root} /\ None \notin Ids

ASSUME BoundsKnown == MaxEvents \in Nat /\ MaxFaults \in Nat

VARIABLES card,     \* [Ids -> a card's core and its folded state]
          auth,     \* [Ids -> the replacement authorisations in a review's history]
          pending,  \* [Ids -> the request of an interrupted explicit creation, or None]
          refused,  \* identifiers reserved by a rejected explicit creation
          proc,     \* [Procs -> what a process is doing]
          reopened, \* history: cards that became live again
          resumed,  \* history: cards born from a pending intent
          events, faults

vars == <<card, auth, pending, refused, proc, reopened, resumed, events, faults>>

\* What a caller asks for.  A replacement is a review with a predecessor, a helper a
\* task with a parent.
Requests == [class : {"task", "review", "repair"}, parent : Ids \cup {None},
             override : BOOLEAN, pred : Ids \cup {None}, paths : SUBSET Paths,
             under : 0..(MaxEvents + 1)]   \* a helper's request names its parent's claim

Ask(class, parent) ==
  [class |-> class, parent |-> parent, override |-> FALSE, pred |-> None, paths |-> {},
   under |-> 0]

\* The governed requests: reviews of any card, a repair of the first one, and a review
\* of it that a human forces.
Governed ==
  {Ask("review", c) : c \in Ids}
  \cup {Ask("repair", Root), [Ask("review", Root) EXCEPT !.override = TRUE]}

\* rev counts the events of a card, claim is its claim revision (0: unowned), owned
\* says whether it ever had one, successor is the link superseded_by.
Born(req, core) ==
  [core |-> core, req |-> req, state |-> "live", rev |-> 0, claim |-> 0, owned |-> FALSE,
   successor |-> None]

Absent == Born(Ask("task", None), "absent")

Known(c) == c \in Ids /\ card[c].core = "ok"

Class(c) == card[c].req.class

Parent(c) == card[c].req.parent

Live(c) == Known(c) /\ card[c].state = "live"

Helper(c) == Known(c) /\ Class(c) = "task" /\ Parent(c) # None

\* unseen are the cards the overlay changed after a replacement read it, moved those
\* among them it moved.
Idle == [pc |-> "idle", id |-> None, req |-> Ask("task", None), explicit |-> FALSE,
         locked |-> {}, unseen |-> {}, moved |-> {}]

Governing == {"open", "fill", "intent", "publish"}

GovernorFree == \A p \in Procs : proc[p].pc \notin Governing

CardLockFree(c) == \A p \in Procs : c \notin proc[p].locked

Cards == [core : {"absent", "torn", "ok"}, req : Requests,
          state : {"live", "over", "void"}, rev : 0..MaxEvents,
          claim : 0..(MaxEvents + 1), owned : BOOLEAN, successor : Ids \cup {None}]

Jobs == [pc : {"idle", "asked"} \cup Governing, id : Ids \cup {None}, req : Requests,
         explicit : BOOLEAN, locked : SUBSET Ids, unseen : SUBSET Ids, moved : SUBSET Ids]

Authorisations == [new : Ids, source : Nat, old : Nat]

TypeOK ==
  /\ card \in [Ids -> Cards] /\ proc \in [Procs -> Jobs]
  /\ auth \in [Ids -> Seq(Authorisations)]
  /\ pending \in [Ids -> Requests \cup {None}]
  /\ refused \in SUBSET Ids /\ reopened \in SUBSET Ids /\ resumed \in SUBSET Ids
  /\ events \in 0..MaxEvents /\ faults \in 0..MaxFaults

\* The board starts with a claimed task and at most one review or repair of it: in the
\* old format and unclaimed, or in the new one and claimed.
Claimed(x) == [x EXCEPT !.claim = 1, !.owned = TRUE]

Init ==
  /\ \E c \in Ids \ {Root}, class \in {"review", "repair"}, there \in BOOLEAN :
       LET x == Born(Ask(class, Root), "ok")
           new == IF ~there THEN Absent ELSE IF c \in Legacy THEN x ELSE Claimed(x)
       IN card = [d \in Ids |-> IF d = Root THEN Claimed(Born(Ask("task", None), "ok"))
                                ELSE IF d = c THEN new ELSE Absent]
  /\ auth = [c \in Ids |-> <<>>]
  /\ pending = [c \in Ids |-> None] /\ refused = {}
  /\ proc = [p \in Procs |-> Idle]
  /\ reopened = {} /\ resumed = {} /\ events = 0 /\ faults = 0

-----------------------------------------------------------------------------
(* Events of existing cards *)

Happened(c, new) ==
  /\ events < MaxEvents /\ events' = events + 1
  /\ card' = [card EXCEPT ![c] = [new EXCEPT !.rev = @ + 1]]
  /\ reopened' = IF ~Live(c) /\ new.state = "live" THEN reopened \cup {c} ELSE reopened

\* append_event, under the card's lock: complete or archive, void, reopen, claim,
\* release, supersede.  Nothing brings a voided card back.
StoreEvent(c) ==
  /\ Known(c) /\ CardLockFree(c) /\ card[c].state # "void"
  /\ LET x == card[c] IN \E new \in
       {[x EXCEPT !.state = s, !.claim = 0] : s \in {"live", "over", "void"} \ {x.state}}
       \cup (IF Live(c) THEN {[x EXCEPT !.claim = IF @ = 0 THEN events + 2 ELSE 0, !.owned = TRUE]}
             ELSE {})
       \cup {[x EXCEPT !.successor = n] : n \in IF c \in Legacy THEN Ids \ {c, Root} ELSE {}} :
       Happened(c, new)
  /\ UNCHANGED <<auth, pending, refused, proc, resumed, faults>>

\* The kanban overlay moves or reassigns a card without its lock.  A replacement that
\* is under way has read the overlay and does not see it.
OverlayEvent(c) ==
  /\ Known(c) /\ card[c].state # "void"
  /\ LET x == card[c] IN \E new \in
       {[x EXCEPT !.state = IF @ = "live" THEN "over" ELSE "live"], [x EXCEPT !.claim = 0]} :
       /\ Happened(c, new)
       /\ proc' = [p \in Procs |-> IF proc[p].req.pred = None THEN proc[p]
                      ELSE [proc[p] EXCEPT !.unseen = @ \cup {c},
                                           !.moved = IF new.state # x.state THEN @ \cup {c} ELSE @]]
  /\ UNCHANGED <<auth, pending, refused, resumed, faults>>

\* The operator authorises the replacement of the claimed review c by card n (the tool
\* that appends the event is not in this repository).  The event binds the histories
\* of source and predecessor as they are.
Authorize(c, n) ==
  /\ Live(c) /\ Class(c) = "review" /\ CardLockFree(c) /\ Known(Parent(c))
  /\ card[c].claim # 0 /\ card[Parent(c)].claim # 0
  /\ Len(auth[c]) < 2 /\ ~Known(n)
  /\ auth' = [auth EXCEPT ![c] = Append(@, [new |-> n, source |-> card[Parent(c)].rev,
                                            old |-> card[c].rev])]
  /\ UNCHANGED <<card, pending, refused, proc, reopened, resumed, events, faults>>

-----------------------------------------------------------------------------
(* What the governor decides *)

\* authorized_predecessor: one authorisation, for this card, of histories that have
\* not changed; both cards are owned and live, and the predecessor is no replacement.
AuthorizedPredecessor(id, req) ==
  LET old == req.pred  src == req.parent IN
  /\ old # src /\ {old, src} \cap Legacy = {} /\ Live(old) /\ Live(src) /\ card[old].claim # 0 /\ card[src].claim # 0
  /\ Class(src) # "review"
  /\ Class(old) = "review" /\ Parent(old) = src /\ card[old].req.pred = None
  /\ auth[old] = <<[new |-> id, source |-> card[src].rev, old |-> card[old].rev]>>

\* _is_exact_legacy_successor
ExactLegacySuccessor(e, id, req) ==
  /\ req.class = "repair" /\ id \notin Legacy /\ e \in Legacy
  /\ card[e].claim = 0 /\ ~card[e].owned
  /\ card[e].successor = id /\ card[e].req = req

\* A card counts as live as the governor reads it: blind are the cards whose overlay
\* it read too early.
Appears(e, blind) == Known(e) /\ ((card[e].state = "live") # (e \in blind))

\* Fault: a card nobody has claimed is taken for a finished one.
BlocksIfClaimed(e, id, req, blind) ==
  /\ Appears(e, blind) /\ card[e].claim # 0 /\ Class(e) = req.class /\ Parent(e) = req.parent
  /\ e # req.pred

\* An existing card that stands in the way.
Blocks(e, id, req, blind) ==
  /\ Appears(e, blind) /\ Class(e) = req.class /\ Parent(e) = req.parent
  /\ e # req.pred /\ ~ExactLegacySuccessor(e, id, req)

\* Fault: reviews three deep.
AncestryOneDeeper(id, c) == c # id /\ Known(c)

\* The walk up the parents: it must meet a card that is no review after one review at
\* most, and neither the new card nor an unknown one.
ShallowAncestry(id, c) ==
  /\ c # id /\ Known(c)
  /\ Class(c) = "review" =>
       Parent(c) \notin {id, c} /\ Known(Parent(c)) /\ Class(Parent(c)) # "review"

Readable == \A c \in Ids : card[c].core # "torn"

\* _govern_create, without the cycle check of dependencies (module DependencyGraph).
\* A torn core makes the strict listing raise.
Governs(id, req, blind) ==
  \/ req.class = "task" \/ req.override
  \/ /\ Readable /\ Known(req.parent)
     /\ \A e \in Ids : ~Blocks(e, id, req, blind)
     /\ req.class = "review" => ShallowAncestry(id, req.parent)

\* Fault: the other helpers are not looked at.
HelperAllowedOnce(id, req) ==
  /\ Live(req.parent) /\ card[req.parent].claim # 0 /\ Class(req.parent) = "task"

\* validate_helper_request: the parent is claimed, is a task and no helper itself, and
\* no live helper of it writes where the new one would.
HelperAllowed(id, req) ==
  /\ Live(req.parent) /\ card[req.parent].claim # 0
  /\ Class(req.parent) = "task" /\ ~Helper(req.parent)
  /\ req.paths # {} =>
       /\ Readable
       /\ \A e \in Ids \ {id} : Live(e) /\ Helper(e) /\ Parent(e) = req.parent =>
            card[e].req.paths \cap req.paths = {}

-----------------------------------------------------------------------------
(* Births *)

\* Under the governor's lock.  A card that is there ends the call.  An explicit request
\* that left an intent goes on where it stopped and is not judged again; one that is
\* refused reserves its identifier.
Judge(p, job, blind) ==
  LET id == job.id  req == job.req
      resumes == job.explicit /\ pending[id] # None
      fresh == card[id].core = "absent" /\ ~(job.explicit /\ id \in refused)
      goes == fresh /\ IF resumes THEN pending[id] = req ELSE Governs(id, req, blind)
  IN /\ GovernorFree
     /\ proc' = [proc EXCEPT ![p] =
          IF ~goes THEN Idle
          ELSE [job EXCEPT !.pc = IF resumes THEN "publish"
                                  ELSE IF job.explicit THEN "intent" ELSE "open"]]
     /\ refused' = IF job.explicit /\ fresh /\ ~resumes /\ ~goes THEN refused \cup {id}
                                                                ELSE refused
     /\ resumed' = IF goes /\ resumes THEN resumed \cup {id} ELSE resumed
     /\ UNCHANGED <<card, auth, pending, reopened, events, faults>>

\* create or create_explicit of a review or repair: nothing is read before the lock.
CreateGoverned(p, id, req, explicit) ==
  /\ proc[p] = Idle
  /\ Judge(p, [Idle EXCEPT !.id = id, !.explicit = explicit, !.req = req], {})

\* Fault: the predecessor is not locked.
LockedForReplacementLess(req) == {req.parent}

LockedForReplacement(req) == {req.parent, req.pred}

\* creation_guard: lock source and predecessor, then check the authorisation.
AskReplacement(p, id, old) ==
  /\ proc[p] = Idle /\ Known(old)
  /\ LET req == [Ask("review", Parent(old)) EXCEPT !.pred = old] IN
     /\ \A c \in LockedForReplacement(req) : CardLockFree(c)
     /\ AuthorizedPredecessor(id, req)
     /\ proc' = [proc EXCEPT ![p] = [Idle EXCEPT !.pc = "asked", !.id = id, !.req = req,
                                     !.locked = LockedForReplacement(req)]]
  /\ UNCHANGED <<card, auth, pending, refused, reopened, resumed, events, faults>>

\* create_helper_task: the board lock keeps helpers apart, the parent's lock its claim.
AskHelper(p, id, parent, paths) ==
  /\ proc[p] = Idle /\ CardLockFree(parent)
  /\ \A q \in Procs : proc[q].pc = "idle" \/ proc[q].req.class # "task"
  /\ LET req == [Ask("task", parent) EXCEPT !.paths = paths, !.under = card[parent].claim] IN
     /\ HelperAllowed(id, req)
     /\ proc' = [proc EXCEPT ![p] = [Idle EXCEPT !.pc = "asked", !.id = id, !.req = req,
                                     !.explicit = TRUE, !.locked = {parent}]]
  /\ UNCHANGED <<card, auth, pending, refused, reopened, resumed, events, faults>>

\* The replacement or helper, its cards locked, reaches the governor.
Govern(p) == proc[p].pc = "asked" /\ \E blind \in SUBSET proc[p].moved : Judge(p, proc[p], blind)

\* _create_governed: core.json is created, then written.
Open(p) ==
  /\ proc[p].pc = "open"
  /\ card' = [card EXCEPT ![proc[p].id] = Born(proc[p].req, "torn")]
  /\ proc' = [proc EXCEPT ![p].pc = "fill"]
  /\ UNCHANGED <<auth, pending, refused, reopened, resumed, events, faults>>

Fill(p) ==
  /\ proc[p].pc = "fill"
  /\ card' = [card EXCEPT ![proc[p].id].core = "ok"]
  /\ proc' = [proc EXCEPT ![p] = Idle]
  /\ UNCHANGED <<auth, pending, refused, reopened, resumed, events, faults>>

\* create_explicit: the intent, then the core in one piece (module ExplicitCreate has
\* the steps in between).
WriteIntent(p) ==
  /\ proc[p].pc = "intent"
  /\ pending' = [pending EXCEPT ![proc[p].id] = proc[p].req]
  /\ proc' = [proc EXCEPT ![p].pc = "publish"]
  /\ UNCHANGED <<card, auth, refused, reopened, resumed, events, faults>>

Publish(p) ==
  /\ proc[p].pc = "publish"
  /\ card' = [card EXCEPT ![proc[p].id] = Born(proc[p].req, "ok")]
  /\ pending' = [pending EXCEPT ![proc[p].id] = None]
  /\ proc' = [proc EXCEPT ![p] = Idle]
  /\ UNCHANGED <<auth, refused, reopened, resumed, events, faults>>

\* The process dies; its locks go with it, the intent stays.
Crash(p) ==
  /\ proc[p] # Idle /\ faults < MaxFaults /\ faults' = faults + 1
  /\ proc' = [proc EXCEPT ![p] = Idle]
  /\ UNCHANGED <<card, auth, pending, refused, reopened, resumed, events>>

Create(p) == Govern(p) \/ Open(p) \/ Fill(p) \/ WriteIntent(p) \/ Publish(p)

Next ==
  \/ \E c \in Ids : StoreEvent(c) \/ OverlayEvent(c) \/ \E n \in Ids : Authorize(c, n)
  \/ \E p \in Procs :
       \/ Create(p) \/ Crash(p)
       \/ \E id \in Ids \ ({Root} \cup Legacy) :
            \/ \E req \in Governed, explicit \in BOOLEAN :
                 (explicit => req.class = "review" /\ ~req.override)
                 /\ CreateGoverned(p, id, req, explicit)
            \/ \E c \in Ids : AskReplacement(p, id, c)
            \/ \E c \in Ids, paths \in SUBSET Paths : AskHelper(p, id, c, paths)

Spec == Init /\ [][Next]_vars

-----------------------------------------------------------------------------
(* Properties *)

Replaced(c) == \E r \in Ids : Known(r) /\ card[r].req.pred = c

Superseded(c) == card[c].successor # None

\* Live cards of one class under one parent that nobody exempted.
Rivals(class, parent, exempt) ==
  {c \in Ids \ exempt : Live(c) /\ Class(c) = class /\ Parent(c) = parent
                          /\ ~card[c].req.override /\ ~Replaced(c) /\ ~Superseded(c)}

\* A card has at most one live review and one live repair, however creations, events
\* and crashes interleave.  Excepted are cards a human forced, the predecessor of an
\* authorised replacement, superseded cards of the old format, cards that were
\* finished and came back, and cards born from the intent of an earlier call.
OneLiveReview ==
  \A class \in {"review", "repair"}, c \in Ids :
    Cardinality(Rivals(class, c, reopened \cup resumed)) <= 1

\* "Fail closed on duplicate or over-depth review and repair creation": the same for
\* cards whose explicit creation was interrupted and repeated.  The code does not keep
\* this: a pending intent is not judged again.
FailsClosed ==
  \A class \in {"review", "repair"}, c \in Ids : Cardinality(Rivals(class, c, reopened)) <= 1

\* There is no review of a review of a review, however parents were forced or resumed.
ReviewsShallow ==
  \A c \in Ids : Known(c) /\ Class(c) = "review" /\ ~card[c].req.override =>
    \E n \in {Parent(c), Parent(Parent(c))} : Known(n) /\ Class(n) # "review"

\* What the governor is for: neither rival nor endless reviews.
ReviewsBounded == OneLiveReview /\ ReviewsShallow

\* Helpers of one card that are at work never write to the same paths.
HelpersDisjoint ==
  \A c, d \in Ids \ reopened :
    c # d /\ Live(c) /\ Live(d) /\ Helper(c) /\ Helper(d) /\ Parent(c) = Parent(d) =>
      card[c].req.paths \cap card[d].req.paths = {}

\* A replacement is born only under the one authorisation of its predecessor, while
\* both histories are what the operator saw (events that ignore the locks excepted),
\* and no predecessor is replaced twice.
ReplacementBound ==
  [][\A p \in Procs : proc[p].pc = "fill" /\ card'[proc[p].id].core = "ok" =>
       LET old == proc[p].req.pred IN old # None =>
         /\ Len(auth[old]) = 1 /\ ~Replaced(old)
         /\ {old, Parent(old)} \cap proc[p].unseen # {}
            \/ /\ auth[old][1].old = card[old].rev
               /\ auth[old][1].source = card[Parent(old)].rev]_vars
=============================================================================
