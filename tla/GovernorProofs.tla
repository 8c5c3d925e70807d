--------------------------- MODULE GovernorProofs ---------------------------
(***************************************************************************)
(* Proofs about module Governor, for every set of cards, processes and     *)
(* paths and every number of events and crashes.                           *)
(***************************************************************************)
EXTENDS Governor, FiniteSetTheorems, TLAPS

-----------------------------------------------------------------------------
(* What holds of a process at work *)

Busy(p) == proc[p].pc # "idle"

Asks(p) == proc[p].req

\* The card it names, and what is on the disk of it.
JobSound(p) ==
  /\ Busy(p) => proc[p].id \in Ids
  /\ ~Busy(p) => Asks(p).pred = None
  /\ proc[p].pc \in {"open", "intent", "publish"} => card[proc[p].id].core = "absent"
  /\ proc[p].pc = "fill" => card[proc[p].id].core = "torn" /\ card[proc[p].id].req = Asks(p)
  /\ proc[p].pc \in {"open", "fill"} => ~proc[p].explicit
  /\ Busy(p) /\ Asks(p).class = "task" => proc[p].explicit

\* A helper under way writes nowhere where another one does.
HelperApart(p) ==
  Busy(p) /\ Asks(p).class = "task" =>
    \A e \in Ids : e # proc[p].id /\ e \notin reopened
                     /\ Live(e) /\ Helper(e) /\ Parent(e) = Asks(p).parent =>
      card[e].req.paths \cap Asks(p).paths = {}

\* What the overlay brought back unseen has been finished before.
MovedBack(p) ==
  \A e \in Ids : e \in proc[p].moved => Known(e) /\ (Live(e) => e \in reopened)

\* A replacement holds the locks of its source and predecessor, and unless an unlocked
\* event came in between, the one authorisation is of what they are now.
Authorised(p) ==
  Busy(p) /\ Asks(p).pred # None =>
    /\ Known(Asks(p).pred) /\ Known(Asks(p).parent) /\ Parent(Asks(p).pred) = Asks(p).parent
    /\ Asks(p).pred \in proc[p].locked /\ Asks(p).parent \in proc[p].locked
    /\ Len(auth[Asks(p).pred]) = 1 /\ auth[Asks(p).pred][1].new = proc[p].id
    /\ \/ Asks(p).pred \in proc[p].unseen \/ Asks(p).parent \in proc[p].unseen
       \/ /\ auth[Asks(p).pred][1].old = card[Asks(p).pred].rev
          /\ auth[Asks(p).pred][1].source = card[Asks(p).parent].rev

\* A review has a parent that is no review, or a grandparent.
Founded(req) ==
  req.class = "review" /\ ~req.override =>
    /\ Known(req.parent)
    /\ Class(req.parent) = "review" =>
         Known(Parent(req.parent)) /\ Class(Parent(req.parent)) # "review"

Rival(e, class, parent) ==
  /\ Live(e) /\ Class(e) = class /\ Parent(e) = parent
  /\ ~card[e].req.override /\ ~Replaced(e) /\ ~Superseded(e)

Exempt(e) == e \in reopened \/ e \in resumed

\* Behind the governor, a review or repair has no rival but the one it replaces.
Unrivalled(p) ==
  Asks(p).class # "task" /\ ~Asks(p).override /\ proc[p].id \notin resumed =>
    \A e \in Ids : e # proc[p].id /\ ~Exempt(e) /\ Rival(e, Asks(p).class, Asks(p).parent) =>
      e = Asks(p).pred

Judged(p) == proc[p].pc \in Governing => Founded(Asks(p)) /\ Unrivalled(p)

JobInv(p) == JobSound(p) /\ HelperApart(p) /\ MovedBack(p) /\ Authorised(p) /\ Judged(p)

\* The governor's lock and, for helpers, the board's lock.
OneAtATime ==
  \A p, q \in Procs :
    /\ proc[p].pc \in Governing /\ proc[q].pc \in Governing => p = q
    /\ Busy(p) /\ Busy(q) /\ Asks(p).class = "task" /\ Asks(q).class = "task" => p = q

-----------------------------------------------------------------------------
(* What holds of the cards *)

CardsFounded ==
  \A c \in Ids : /\ Known(c) => Founded(card[c].req)
                 /\ pending[c] # None => Founded(pending[c])

NoTwoRivals ==
  \A c, d \in Ids : \A class \in {"review", "repair"}, parent \in Ids :
    ~Exempt(c) /\ ~Exempt(d) /\ Rival(c, class, parent) /\ Rival(d, class, parent) => c = d

\* The first authorisation of a predecessor names its replacement.
ReplacedOnce ==
  \A r \in Ids : Known(r) /\ card[r].req.pred # None =>
    Len(auth[card[r].req.pred]) >= 1 /\ auth[card[r].req.pred][1].new = r

Dated == \A c \in Ids : card[c].rev <= events

CardsInv == CardsFounded /\ NoTwoRivals /\ ReplacedOnce /\ Dated /\ HelpersDisjoint

\* The inductive invariant.
GovernorInv == TypeOK /\ CardsInv /\ OneAtATime /\ \A p \in Procs : JobInv(p)

-----------------------------------------------------------------------------
(* What a step keeps *)

\* Cards that are there stay, with what was asked of them; one that is finished comes
\* back only as a reopened one; a successor is not forgotten.
Steady ==
  /\ reopened \subseteq reopened' /\ resumed \subseteq resumed'
  /\ \A c \in Ids : card[c].core = "ok" =>
       /\ card'[c].core = "ok" /\ card'[c].req = card[c].req
       /\ card'[c].state = "live" /\ c \notin reopened' => card[c].state = "live"
       /\ card[c].successor # None => card'[c].successor # None

\* No card is born or begun.
NoBirth == \A c \in Ids : card'[c].core = card[c].core /\ card'[c].req = card[c].req

NoneNew == \A c \in Ids : card'[c].core = "ok" => card[c].core = "ok"

\* When no card is begun, none is born.
LEMMA NoBirthNoneNew == NoBirth => NoneNew
BY DEF NoBirth, NoneNew

\* Ancestors stay what they are, so a request stays founded.
LEMMA FoundedKept ==
  ASSUME Steady, NEW req, Founded(req) PROVE Founded(req)'
BY DEF Steady, Founded, Known, Class, Parent

\* A card that was there and is a rival now was one before.
LEMMA RivalKept ==
  ASSUME Steady, NEW e \in Ids, NEW class, NEW parent, Known(e), e \notin reopened',
         Rival(e, class, parent)'
  PROVE  Rival(e, class, parent)
<1>1. Live(e) /\ Class(e) = class /\ Parent(e) = parent /\ ~card[e].req.override
  BY DEF Steady, Rival, Live, Known, Class, Parent
<1>2. ~Superseded(e)
  BY DEF Steady, Rival, Superseded, Known
<1>3. ~Replaced(e)
  BY DEF Steady, Rival, Replaced, Known
<1> QED
  BY <1>1, <1>2, <1>3 DEF Rival

\* A step without a birth makes no rivals.
LEMMA NoTwoRivalsKept ==
  ASSUME Steady, NoneNew, NoTwoRivals PROVE NoTwoRivals'
<1> SUFFICES ASSUME NEW c \in Ids, NEW d \in Ids, NEW class \in {"review", "repair"},
                    NEW parent \in Ids, ~Exempt(c)', ~Exempt(d)',
                    Rival(c, class, parent)', Rival(d, class, parent)'
             PROVE  c = d
  BY DEF NoTwoRivals
<1>1. Known(c) /\ Known(d)
  BY DEF Rival, Live, Known, NoneNew
<1>2. Rival(c, class, parent) /\ Rival(d, class, parent)
  BY <1>1, RivalKept DEF Exempt
<1>3. ~Exempt(c) /\ ~Exempt(d)
  BY DEF Steady, Exempt
<1> QED
  BY <1>2, <1>3 DEF NoTwoRivals

\* A step without a birth makes no helpers overlap.
LEMMA HelpersKept ==
  ASSUME Steady, NoneNew, HelpersDisjoint PROVE HelpersDisjoint'
BY DEF Steady, NoneNew, HelpersDisjoint, Live, Known, Helper, Class, Parent

\* A step without a birth keeps every card and every intent founded.
LEMMA CardsFoundedKept ==
  ASSUME Steady, NoneNew, CardsFounded, UNCHANGED pending PROVE CardsFounded'
<1> SUFFICES ASSUME NEW c \in Ids
             PROVE  /\ Known(c)' => Founded(card[c].req)'
                    /\ (pending[c])' # None => Founded(pending[c])'
  BY DEF CardsFounded
<1>1. \A r : Founded(r) => Founded(r)'
  BY FoundedKept
<1>2. Known(c)' => Known(c) /\ card'[c].req = card[c].req
  BY DEF NoneNew, Steady, Known
<1>3. ASSUME Known(c)' PROVE Founded(card[c].req)'
  <2>1. PICK r : r = card[c].req
    OBVIOUS
  <2>2. Founded(r)
    BY <1>2, <1>3, <2>1 DEF CardsFounded
  <2>3. Founded(r)'
    BY <1>1, <2>2
  <2> QED
    BY <1>2, <1>3, <2>1, <2>3 DEF Founded
<1>4. ASSUME pending'[c] # None PROVE Founded(pending[c])'
  <2>1. PICK r : r = pending[c]
    OBVIOUS
  <2>2. Founded(r)
    BY <1>4, <2>1 DEF CardsFounded
  <2>3. Founded(r)'
    BY <1>1, <2>2
  <2> QED
    BY <2>1, <2>3 DEF Founded
<1> QED
  BY <1>3, <1>4

\* Authorisations are only appended, so each replacement keeps its own.
LEMMA ReplacedOnceKept ==
  ASSUME TypeOK, Steady, NoneNew, ReplacedOnce,
         \A c \in Ids : Len(auth[c]) >= 1 => Len(auth'[c]) >= 1 /\ auth'[c][1] = auth[c][1]
  PROVE  ReplacedOnce'
<1> SUFFICES ASSUME NEW r \in Ids, Known(r)', card'[r].req.pred # None
             PROVE  Len(auth'[card'[r].req.pred]) >= 1 /\ auth'[card'[r].req.pred][1].new = r
  BY DEF ReplacedOnce
<1>1. Known(r) /\ card'[r].req = card[r].req
  BY DEF NoneNew, Steady, Known
<1>2. card[r].req.pred \in Ids
  BY <1>1 DEF TypeOK, Cards, Requests
<1> QED
  BY <1>1, <1>2 DEF ReplacedOnce

SameJob(p) ==
  /\ proc'[p].pc = proc[p].pc /\ proc'[p].id = proc[p].id /\ proc'[p].req = proc[p].req
  /\ proc'[p].explicit = proc[p].explicit

\* The same job, perhaps one step further.
GoesOn(p) ==
  /\ proc'[p].id = proc[p].id /\ proc'[p].req = proc[p].req
  /\ proc'[p].pc # "idle" => proc[p].pc # "idle"
  /\ proc'[p].pc \in Governing => proc[p].pc \in Governing

\* What was judged of a job holds as long as no card is born.
LEMMA JobGoesOn ==
  ASSUME Steady, NoneNew, NEW p \in Procs, JobInv(p), GoesOn(p),
         JobSound(p)', MovedBack(p)', Authorised(p)'
  PROVE  JobInv(p)'
<1>2. HelperApart(p)'
  BY DEF JobInv, HelperApart, GoesOn, Busy, Asks, Steady, NoneNew, Live, Helper, Known, Class, Parent
<1>3. ASSUME proc'[p].pc \in Governing PROVE Founded(Asks(p))'
  <2>1. PICK r : r = proc[p].req /\ r = proc'[p].req
    BY DEF GoesOn
  <2>2. Founded(r)
    BY <1>3, <2>1 DEF JobInv, Judged, GoesOn, Asks
  <2>3. Founded(r)'
    BY <2>2, FoundedKept
  <2> QED
    BY <2>1, <2>3 DEF Founded, Asks
<1>4. ASSUME proc'[p].pc \in Governing PROVE Unrivalled(p)'
  <2>1. PICK r : r = proc[p].req /\ r = proc'[p].req
    BY DEF GoesOn
  <2> SUFFICES ASSUME r.class # "task", ~r.override, proc[p].id \notin resumed',
                      NEW e \in Ids, e # proc[p].id, ~Exempt(e)', Rival(e, r.class, r.parent)'
               PROVE  e = r.pred
    BY <2>1 DEF Unrivalled, Asks, GoesOn
  <2>2. Known(e)
    BY DEF Rival, Live, Known, NoneNew
  <2>3. Rival(e, r.class, r.parent)
    BY <2>2, RivalKept DEF Exempt
  <2>4. ~Exempt(e) /\ proc[p].id \notin resumed
    BY DEF Exempt, Steady
  <2> QED
    BY <1>4, <2>1, <2>3, <2>4 DEF JobInv, Judged, Unrivalled, GoesOn, Asks
<1> QED
  BY <1>2, <1>3, <1>4 DEF JobInv, Judged

\* A job left alone goes on.
LEMMA SameGoesOn == ASSUME NEW p \in Procs, SameJob(p) PROVE GoesOn(p)
BY DEF SameJob, GoesOn

\* A job left alone while cards change but none is begun.
LEMMA JobKept ==
  ASSUME Steady, NoBirth, NEW p \in Procs, JobInv(p), SameJob(p), MovedBack(p)', Authorised(p)'
  PROVE  JobInv(p)'
<1>1. JobSound(p)'
  <2>1. Busy(p) => proc[p].id \in Ids
    BY DEF JobInv, JobSound
  <2>2. proc[p].pc \in {"open", "intent", "publish", "fill"} => Busy(p)
    BY DEF Busy
  <2> QED
    BY <2>1, <2>2 DEF JobInv, JobSound, SameJob, NoBirth, Busy, Asks
<1>2. GoesOn(p)
  BY SameGoesOn
<1> QED
  BY <1>1, <1>2, NoBirthNoneNew, JobGoesOn

\* What the overlay brought back stays reopened.
LEMMA MovedBackKept ==
  ASSUME Steady, NEW p \in Procs, MovedBack(p), proc'[p].moved = proc[p].moved
  PROVE  MovedBack(p)'
BY DEF Steady, MovedBack, Known, Live

\* An authorisation holds while the locked cards change only unseen.
LEMMA AuthorisedKept ==
  ASSUME Steady, NEW p \in Procs, JobInv(p), GoesOn(p),
         proc'[p].locked = proc[p].locked, proc[p].unseen \subseteq proc'[p].unseen,
         \A c \in proc[p].locked : auth'[c] = auth[c],
         \A c \in Ids : c \in proc[p].locked /\ Known(c) =>
           card'[c].rev = card[c].rev \/ (Asks(p).pred # None => c \in proc'[p].unseen)
  PROVE  Authorised(p)'
<1> SUFFICES ASSUME Busy(p), Asks(p).pred # None PROVE Authorised(p)'
  BY DEF Authorised, Busy, Asks, GoesOn
<1>0. PICK old, src : old = Asks(p).pred /\ src = Asks(p).parent
  OBVIOUS
<1>1. /\ Known(old) /\ Known(src) /\ Parent(old) = src
      /\ old \in proc[p].locked /\ src \in proc[p].locked
      /\ Len(auth[old]) = 1 /\ auth[old][1].new = proc[p].id
      /\ \/ old \in proc[p].unseen \/ src \in proc[p].unseen
         \/ auth[old][1].old = card[old].rev /\ auth[old][1].source = card[src].rev
  BY <1>0 DEF JobInv, Authorised
<1>2. old \in Ids /\ src \in Ids
  BY <1>1 DEF Known
<1>3. Known(old)' /\ Known(src)' /\ card'[old].req.parent = src
  <2>1. card'[old].core = "ok" /\ card'[src].core = "ok" /\ card'[old].req = card[old].req
    BY <1>1, <1>2 DEF Steady, Known
  <2> QED
    BY <1>1, <1>2, <2>1 DEF Known, Parent
<1>4. auth'[old] = auth[old]
  BY <1>1
<1>5. \/ old \in proc'[p].unseen \/ src \in proc'[p].unseen
      \/ auth[old][1].old = card'[old].rev /\ auth[old][1].source = card'[src].rev
  BY <1>0, <1>1, <1>2
<1>6. proc'[p].req.pred = old /\ proc'[p].req.parent = src
  BY <1>0 DEF Asks, GoesOn
<1> QED
  BY <1>1, <1>2, <1>3, <1>4, <1>5, <1>6 DEF Authorised, GoesOn, Parent, Known, Asks

\* A job that has not reached the governor while another process gives birth.
LEMMA AskedKept ==
  ASSUME Steady, NEW p \in Procs, JobInv(p), proc'[p] = proc[p], proc[p].pc \notin Governing,
         UNCHANGED auth,
         \A c \in Ids : Known(c) => card'[c].rev = card[c].rev,
         Busy(p) /\ Asks(p).class = "task" => \A c \in Ids : Helper(c)' => Known(c)
  PROVE  JobInv(p)'
<1>1. GoesOn(p)
  BY DEF GoesOn
<1>2. MovedBack(p)'
  BY MovedBackKept DEF JobInv
<1>3. Authorised(p)'
  BY <1>1, AuthorisedKept
<1>4. JobSound(p)' /\ Judged(p)'
  BY DEF JobInv, JobSound, Judged, Busy, Asks, Governing
<1>5. HelperApart(p)'
  <2> SUFFICES ASSUME Busy(p), Asks(p).class = "task", NEW e \in Ids, e # proc[p].id,
                      e \notin reopened', Live(e)', Helper(e)', Parent(e)' = Asks(p).parent
               PROVE  card'[e].req.paths \cap Asks(p).paths = {}
    BY DEF HelperApart, Busy, Asks
  <2>1. Known(e)
    OBVIOUS
  <2>2. Live(e) /\ Helper(e) /\ Parent(e) = Asks(p).parent /\ card'[e].req = card[e].req
        /\ e \notin reopened
    BY <2>1 DEF Steady, Live, Helper, Known, Class, Parent
  <2> QED
    BY <2>2 DEF JobInv, HelperApart
<1> QED
  BY <1>2, <1>3, <1>4, <1>5 DEF JobInv

\* An idle process promises nothing.
LEMMA IdleJob == ASSUME NEW p \in Procs, proc'[p] = Idle PROVE JobInv(p)'
BY DEF Idle, Ask, JobInv, JobSound, HelperApart, MovedBack, Authorised, Judged, Busy, Asks, Governing

-----------------------------------------------------------------------------
(* One lemma per action *)

\* Kept is the birth certificate of a card, and its successor if it has one.
Changes(c, new) ==
  /\ new \in Cards /\ new.core = card[c].core /\ new.req = card[c].req /\ new.rev = card[c].rev
  /\ card[c].successor # None => new.successor # None

\* The changes events make keep a card's type, core, request and successor.
LEMMA Variants ==
  ASSUME NEW c, NEW x \in Cards, x = card[c]
  PROVE  /\ \A s \in {"live", "over", "void"} : Changes(c, [x EXCEPT !.state = s, !.claim = 0])
         /\ \A s \in {"live", "over", "void"} : Changes(c, [x EXCEPT !.state = s])
         /\ \A k \in 0..(MaxEvents + 1) : Changes(c, [x EXCEPT !.claim = k])
         /\ \A k \in 0..(MaxEvents + 1) : Changes(c, [x EXCEPT !.claim = k, !.owned = TRUE])
         /\ \A n \in Ids : Changes(c, [x EXCEPT !.successor = n])
<1>0. 0 \in 0..(MaxEvents + 1)
  BY BoundsKnown
<1>1. ASSUME NEW s \in {"live", "over", "void"} PROVE Changes(c, [x EXCEPT !.state = s, !.claim = 0])
  BY <1>0 DEF Changes, Cards
<1>2. ASSUME NEW s \in {"live", "over", "void"} PROVE Changes(c, [x EXCEPT !.state = s])
  BY DEF Changes, Cards
<1>3. ASSUME NEW k \in 0..(MaxEvents + 1) PROVE Changes(c, [x EXCEPT !.claim = k])
  BY DEF Changes, Cards
<1>4. ASSUME NEW k \in 0..(MaxEvents + 1) PROVE Changes(c, [x EXCEPT !.claim = k, !.owned = TRUE])
  BY DEF Changes, Cards
<1>5. ASSUME NEW n \in Ids PROVE Changes(c, [x EXCEPT !.successor = n])
  BY IdsKnown DEF Changes, Cards
<1> QED
  BY <1>1, <1>2, <1>3, <1>4, <1>5

\* One event of one card.
LEMMA AfterEvent ==
  ASSUME TypeOK, Dated, NEW c \in Ids, Known(c), NEW new, Changes(c, new), Happened(c, new),
         UNCHANGED resumed
  PROVE  /\ Steady /\ NoBirth /\ Dated'
         /\ card' \in [Ids -> Cards] /\ reopened' \in SUBSET Ids /\ events' \in 0..MaxEvents
         /\ \A d \in Ids : d # c => card'[d] = card[d]
         /\ card'[c].state = new.state
<1>1. /\ events \in Nat /\ events < MaxEvents /\ events' = events + 1 /\ card[c].rev <= events
      /\ card \in [Ids -> Cards] /\ card[c].rev \in Nat /\ MaxEvents \in Nat
  BY BoundsKnown DEF TypeOK, Happened, Dated, Cards
<1> DEFINE x == [new EXCEPT !.rev = @ + 1]
<1>2. x.rev = card[c].rev + 1 /\ card[c].rev + 1 \in 0..MaxEvents
  BY <1>1 DEF Changes, Cards
<1>3. /\ x \in Cards /\ x.core = card[c].core /\ x.req = card[c].req /\ x.state = new.state
      /\ x.successor = new.successor
  BY <1>2 DEF Changes, Cards
<1>4. card' = [card EXCEPT ![c] = x]
  BY DEF Happened
<1> HIDE DEF x
<1>5. card' \in [Ids -> Cards] /\ card'[c] = x /\ \A d \in Ids : d # c => card'[d] = card[d]
  BY <1>1, <1>3, <1>4
<1>6. reopened' \in SUBSET Ids /\ reopened \subseteq reopened'
  BY DEF Happened, TypeOK
<1>7. x.state = "live" /\ c \notin reopened' => card[c].state = "live"
  BY <1>3 DEF Happened, Live
<1>8. Steady
  BY <1>3, <1>5, <1>6, <1>7 DEF Steady, Changes
<1>9. NoBirth
  BY <1>3, <1>5 DEF NoBirth
<1>10. Dated'
  <2>1. \A d \in Ids : card[d].rev <= events /\ card[d].rev \in Nat
    BY <1>1 DEF Dated, Cards
  <2>2. \A d \in Ids : card'[d].rev <= events + 1
    BY <1>1, <1>2, <1>5, <2>1
  <2> QED
    BY <1>1, <2>2 DEF Dated
<1> QED
  BY <1>1, <1>3, <1>5, <1>6, <1>8, <1>9, <1>10

\* What follows of an event for the cards.
LEMMA CardsKept ==
  ASSUME TypeOK, CardsInv, Steady, NoneNew, Dated', UNCHANGED <<pending, auth>>
  PROVE  CardsInv'
<1>1. \A c \in Ids : Len(auth[c]) >= 1 => Len(auth'[c]) >= 1 /\ auth'[c][1] = auth[c][1]
  OBVIOUS
<1> QED
  BY <1>1, NoTwoRivalsKept, HelpersKept, CardsFoundedKept, ReplacedOnceKept DEF CardsInv

\* An event of the store, under its card's lock.
LEMMA StoreEventStep ==
  ASSUME GovernorInv, NEW c \in Ids, StoreEvent(c) PROVE GovernorInv'
<1>1. /\ TypeOK /\ CardsInv /\ OneAtATime /\ Known(c) /\ CardLockFree(c)
      /\ UNCHANGED <<auth, pending, refused, proc, resumed, faults>>
  BY DEF GovernorInv, StoreEvent
<1>2. PICK new : Changes(c, new) /\ Happened(c, new)
  <2>1. PICK x \in Cards : x = card[c]
    BY <1>1 DEF TypeOK
  <2> DEFINE S ==
         {[x EXCEPT !.state = s, !.claim = 0] : s \in {"live", "over", "void"} \ {x.state}}
         \cup (IF Live(c)
               THEN {[x EXCEPT !.claim = IF @ = 0 THEN events + 2 ELSE 0, !.owned = TRUE]}
               ELSE {})
         \cup {[x EXCEPT !.successor = n] : n \in IF c \in Legacy THEN Ids \ {c, Root} ELSE {}}
  <2>0. \E new \in S : Happened(c, new)
    BY <2>1, Zenon DEF StoreEvent
  <2>2. PICK new : Happened(c, new) /\ new \in S
    BY <2>0
  <2>3. CASE new \in {[x EXCEPT !.state = s, !.claim = 0] :
                        s \in {"live", "over", "void"} \ {x.state}}
    <3>1. PICK s \in {"live", "over", "void"} : new = [x EXCEPT !.state = s, !.claim = 0]
      BY <2>3
    <3>2. Changes(c, [x EXCEPT !.state = s, !.claim = 0])
      BY <2>1, Variants
    <3> QED
      BY <2>2, <3>1, <3>2
  <2>4. CASE new = [x EXCEPT !.claim = IF @ = 0 THEN events + 2 ELSE 0, !.owned = TRUE]
    <3>1. events < MaxEvents
      BY <2>2, Zenon DEF Happened
    <3>2. PICK k \in 0..(MaxEvents + 1) : k = IF x.claim = 0 THEN events + 2 ELSE 0
      <4>1. events \in Nat /\ MaxEvents \in Nat
        BY <1>1, BoundsKnown DEF TypeOK
      <4> QED
        BY <3>1, <4>1
    <3>3. new = [x EXCEPT !.claim = k, !.owned = TRUE]
      BY <2>4, <3>2
    <3>4. Changes(c, [x EXCEPT !.claim = k, !.owned = TRUE])
      BY <2>1, Variants
    <3>5. Changes(c, new)
      BY <3>3, <3>4
    <3> QED
      BY <2>2, <3>5
  <2>5. CASE new \in {[x EXCEPT !.successor = n] :
                        n \in IF c \in Legacy THEN Ids \ {c, Root} ELSE {}}
    BY <2>1, <2>2, <2>5, Variants
  <2> QED
    BY <2>2, <2>3, <2>4, <2>5
<1>3. /\ Steady /\ NoBirth /\ Dated'
      /\ card' \in [Ids -> Cards] /\ reopened' \in SUBSET Ids /\ events' \in 0..MaxEvents
      /\ \A d \in Ids : d # c => card'[d] = card[d]
  BY <1>1, <1>2, AfterEvent DEF CardsInv
<1>4. TypeOK'
  BY <1>1, <1>3 DEF TypeOK
<1>5. CardsInv'
  BY <1>1, <1>3, NoBirthNoneNew, CardsKept
<1>6. OneAtATime'
  BY <1>1 DEF OneAtATime, Busy, Asks
<1>7. ASSUME NEW p \in Procs PROVE JobInv(p)'
  <2>1. JobInv(p) /\ SameJob(p)
    BY <1>1 DEF GovernorInv, SameJob
  <2>2. MovedBack(p)'
    BY <1>1, <1>3, <2>1, MovedBackKept DEF JobInv
  <2>3. c \notin proc[p].locked
    BY <1>1 DEF CardLockFree
  <2>4. Authorised(p)'
    BY <1>1, <1>3, <2>1, <2>3, SameGoesOn, AuthorisedKept
  <2> QED
    BY <1>3, <2>1, <2>2, <2>4, JobKept
<1> QED
  BY <1>4, <1>5, <1>6, <1>7 DEF GovernorInv

\* An event of the overlay, which no lock holds up.
LEMMA OverlayEventStep ==
  ASSUME GovernorInv, NEW c \in Ids, OverlayEvent(c) PROVE GovernorInv'
<1>1. /\ TypeOK /\ CardsInv /\ OneAtATime /\ Known(c)
      /\ UNCHANGED <<auth, pending, refused, resumed, faults>>
  BY DEF GovernorInv, OverlayEvent
<1>2. PICK new : /\ Changes(c, new) /\ Happened(c, new)
                 /\ proc' = [p \in Procs |-> IF proc[p].req.pred = None THEN proc[p]
                      ELSE [proc[p] EXCEPT !.unseen = @ \cup {c},
                              !.moved = IF new.state # card[c].state THEN @ \cup {c} ELSE @]]
  <2>1. PICK x \in Cards : x = card[c]
    BY <1>1 DEF TypeOK
  <2>2. PICK new :
           /\ new \in {[x EXCEPT !.state = IF @ = "live" THEN "over" ELSE "live"],
                       [x EXCEPT !.claim = 0]}
           /\ Happened(c, new)
           /\ proc' = [p \in Procs |-> IF proc[p].req.pred = None THEN proc[p]
                ELSE [proc[p] EXCEPT !.unseen = @ \cup {c},
                        !.moved = IF new.state # x.state THEN @ \cup {c} ELSE @]]
    BY <2>1, Zenon DEF OverlayEvent
  <2>3. PICK s \in {"live", "over", "void"} : s = IF x.state = "live" THEN "over" ELSE "live"
    OBVIOUS
  <2>4. Changes(c, new)
    <3>1. 0 \in 0..(MaxEvents + 1)
      BY BoundsKnown
    <3>2. Changes(c, [x EXCEPT !.state = s]) /\ Changes(c, [x EXCEPT !.claim = 0])
      BY <2>1, <3>1, Variants
    <3>3. new = [x EXCEPT !.state = s] \/ new = [x EXCEPT !.claim = 0]
      BY <2>2, <2>3
    <3> QED
      BY <3>2, <3>3
  <2>5. proc' = [p \in Procs |-> IF proc[p].req.pred = None THEN proc[p]
                ELSE [proc[p] EXCEPT !.unseen = @ \cup {c},
                        !.moved = IF new.state # card[c].state THEN @ \cup {c} ELSE @]]
    BY <2>1, <2>2
  <2> QED
    BY <2>2, <2>4, <2>5
<1>3. /\ Steady /\ NoBirth /\ Dated'
      /\ card' \in [Ids -> Cards] /\ reopened' \in SUBSET Ids /\ events' \in 0..MaxEvents
      /\ \A d \in Ids : d # c => card'[d] = card[d]
      /\ card'[c].state = new.state
  BY <1>1, <1>2, AfterEvent DEF CardsInv
<1>4. ASSUME NEW p \in Procs
      PROVE  /\ proc'[p] \in Jobs /\ SameJob(p) /\ proc'[p].locked = proc[p].locked
             /\ proc[p].unseen \subseteq proc'[p].unseen
             /\ Asks(p).pred # None => c \in proc'[p].unseen
             /\ proc'[p].moved \subseteq proc[p].moved \cup {c}
             /\ c \in proc'[p].moved => c \in proc[p].moved \/ new.state # card[c].state
  <2>1. proc[p] \in Jobs
    BY <1>1 DEF TypeOK
  <2>2. CASE proc[p].req.pred = None
    BY <1>2, <2>1, <2>2 DEF SameJob, Asks
  <2>3. CASE proc[p].req.pred # None
    <3>1. PICK m \in SUBSET Ids :
            /\ m = IF new.state # card[c].state THEN proc[p].moved \cup {c} ELSE proc[p].moved
      BY <2>1 DEF Jobs
    <3>2. proc'[p] = [proc[p] EXCEPT !.unseen = proc[p].unseen \cup {c}, !.moved = m]
      BY <1>2, <2>3, <3>1
    <3>3. /\ proc'[p] \in Jobs /\ SameJob(p) /\ proc'[p].locked = proc[p].locked
          /\ proc'[p].unseen = proc[p].unseen \cup {c} /\ proc'[p].moved = m
      BY <2>1, <3>2 DEF Jobs, SameJob
    <3> QED
      BY <3>1, <3>3
  <2> QED
    BY <2>2, <2>3
<1>5. TypeOK'
  <2>1. proc' \in [Procs -> Jobs]
    BY <1>2, <1>4
  <2> QED
    BY <1>1, <1>3, <2>1 DEF TypeOK
<1>6. CardsInv'
  BY <1>1, <1>3, NoBirthNoneNew, CardsKept
<1>7. OneAtATime'
  BY <1>1, <1>4 DEF OneAtATime, Busy, Asks, SameJob
<1>8. ASSUME NEW p \in Procs PROVE JobInv(p)'
  <2>1. JobInv(p)
    BY DEF GovernorInv
  <2>2. new.state = "live" /\ new.state # card[c].state => c \in reopened'
    BY <1>2 DEF Happened, Live
  <2>3. MovedBack(p)'
    <3> SUFFICES ASSUME NEW e \in Ids, e \in proc'[p].moved
                 PROVE  Known(e)' /\ (Live(e)' => e \in reopened')
      BY DEF MovedBack
    <3>1. CASE e \in proc[p].moved
      BY <1>3, <2>1, <3>1 DEF JobInv, MovedBack, Steady, Known, Live
    <3>2. CASE e \notin proc[p].moved
      <4>1. e = c /\ new.state # card[c].state
        BY <1>4, <3>2
      <4> QED
        BY <1>1, <1>3, <2>2, <4>1 DEF Steady, Known, Live
    <3> QED
      BY <3>1, <3>2
  <2>4. Authorised(p)'
    BY <1>1, <1>3, <1>4, <2>1, SameGoesOn, AuthorisedKept
  <2> QED
    BY <1>3, <1>4, <2>1, <2>3, <2>4, JobKept
<1> QED
  BY <1>5, <1>6, <1>7, <1>8 DEF GovernorInv

\* Steps that leave the cards alone keep what holds of them.
LEMMA CardsUntouched ==
  ASSUME CardsInv, UNCHANGED <<card, reopened>>, resumed \subseteq resumed'
  PROVE  Steady /\ NoBirth
BY DEF Steady, NoBirth

\* An authorisation, which needs the predecessor's lock.
LEMMA AuthorizeStep ==
  ASSUME GovernorInv, NEW c \in Ids, NEW n \in Ids, Authorize(c, n) PROVE GovernorInv'
<1> DEFINE a == [new |-> n, source |-> card[Parent(c)].rev, old |-> card[c].rev]
<1>1. /\ TypeOK /\ CardsInv /\ OneAtATime /\ CardLockFree(c) /\ Known(Parent(c))
      /\ auth' = [auth EXCEPT ![c] = Append(@, a)]
      /\ UNCHANGED <<card, pending, refused, proc, reopened, resumed, events, faults>>
  BY DEF GovernorInv, Authorize
<1>2. a \in Authorisations
  <2>1. card[Parent(c)] \in Cards /\ card[c] \in Cards
    BY <1>1 DEF TypeOK, Known
  <2>2. card[Parent(c)].rev \in Nat /\ card[c].rev \in Nat
    BY <2>1 DEF Cards
  <2> QED
    BY <2>2 DEF Authorisations
<1> HIDE DEF a
<1>3. auth \in [Ids -> Seq(Authorisations)]
  BY <1>1 DEF TypeOK
<1>4. auth'[c] = Append(auth[c], a) /\ \A d \in Ids : d # c => auth'[d] = auth[d]
  BY <1>1, <1>3
<1>5. auth[c] \in Seq(Authorisations) /\ auth'[c] \in Seq(Authorisations)
  BY <1>2, <1>3, <1>4
<1>6. auth' \in [Ids -> Seq(Authorisations)]
  BY <1>1, <1>3, <1>4, <1>5
<1>7. TypeOK'
  BY <1>1, <1>6 DEF TypeOK
<1>8. Steady /\ NoBirth
  BY <1>1, CardsUntouched
<1>9. \A d \in Ids : Len(auth[d]) >= 1 => Len(auth'[d]) >= 1 /\ auth'[d][1] = auth[d][1]
  <2>1. ASSUME Len(auth[c]) >= 1 PROVE Len(auth'[c]) >= 1 /\ auth'[c][1] = auth[c][1]
    BY <1>2, <1>4, <1>5, <2>1
  <2> QED
    BY <1>4, <2>1
<1>10. CardsInv'
  <2>1. Dated'
    BY <1>1 DEF CardsInv, Dated
  <2> QED
    BY <1>1, <1>8, <1>9, <2>1, NoBirthNoneNew, NoTwoRivalsKept, HelpersKept, CardsFoundedKept, ReplacedOnceKept
    DEF CardsInv
<1>11. OneAtATime'
  BY <1>1 DEF OneAtATime, Busy, Asks
<1>12. ASSUME NEW p \in Procs PROVE JobInv(p)'
  <2>1. JobInv(p) /\ SameJob(p)
    BY <1>1 DEF GovernorInv, SameJob
  <2>2. MovedBack(p)'
    BY <1>1, <1>8, <2>1, MovedBackKept DEF JobInv
  <2>3. c \notin proc[p].locked
    BY <1>1 DEF CardLockFree
  <2>4. proc[p].locked \subseteq Ids
    BY <1>1 DEF TypeOK, Jobs
  <2>5. Authorised(p)'
    BY <1>1, <1>4, <1>8, <2>1, <2>3, <2>4, SameGoesOn, AuthorisedKept
  <2> QED
    BY <1>8, <2>1, <2>2, <2>5, JobKept
<1> QED
  BY <1>7, <1>10, <1>11, <1>12 DEF GovernorInv

\* A step of one process on what is not a card: the others keep their jobs.
LEMMA OthersKept ==
  ASSUME GovernorInv, UNCHANGED <<card, auth, reopened>>, resumed \subseteq resumed',
         NEW q \in Procs, proc'[q] = proc[q]
  PROVE  JobInv(q)'
<1>1. JobInv(q) /\ SameJob(q) /\ CardsInv
  BY DEF GovernorInv, SameJob
<1>2. Steady /\ NoBirth
  BY <1>1, CardsUntouched
<1>3. MovedBack(q)'
  BY <1>1, <1>2, MovedBackKept DEF JobInv
<1>4. Authorised(q)'
  BY <1>1, <1>2, SameGoesOn, AuthorisedKept
<1> QED
  BY <1>1, <1>2, <1>3, <1>4, JobKept

\* Nothing about the cards changes when they and their histories do not.
LEMMA CardsStay ==
  ASSUME GovernorInv, UNCHANGED <<card, auth, pending, reopened, events>>,
         resumed \subseteq resumed'
  PROVE  CardsInv'
<1>1. Steady /\ NoBirth /\ TypeOK /\ CardsInv
  BY CardsUntouched DEF GovernorInv
<1>2. Dated'
  BY <1>1 DEF CardsInv, Dated
<1> QED
  BY <1>1, <1>2, NoBirthNoneNew, CardsKept

\* The idle process is well typed.
LEMMA IdleTyped == Idle \in Jobs
<1>1. Ask("task", None) \in Requests
  BY BoundsKnown DEF Ask, Requests
<1> QED
  BY <1>1 DEF Idle, Jobs

\* A crash leaves an idle process.
LEMMA CrashStep ==
  ASSUME GovernorInv, NEW p \in Procs, Crash(p) PROVE GovernorInv'
<1>1. /\ TypeOK /\ CardsInv /\ OneAtATime /\ proc' = [proc EXCEPT ![p] = Idle]
      /\ UNCHANGED <<card, auth, pending, refused, reopened, resumed, events>>
      /\ faults' \in 0..MaxFaults
  BY BoundsKnown DEF GovernorInv, Crash, TypeOK
<1>2. TypeOK'
  BY <1>1, IdleTyped DEF TypeOK
<1>3. CardsInv'
  BY <1>1, CardsStay
<1>4. proc'[p] = Idle /\ \A q \in Procs : q # p => proc'[q] = proc[q]
  BY <1>1 DEF TypeOK
<1>5. OneAtATime'
  <2>1. ~Busy(p)' /\ proc'[p].pc \notin Governing
    BY <1>4 DEF Idle, Busy, Governing
  <2> QED
    BY <1>1, <1>4, <2>1 DEF OneAtATime, Busy, Asks
<1>6. ASSUME NEW q \in Procs PROVE JobInv(q)'
  BY <1>1, <1>4, OthersKept, IdleJob
<1> QED
  BY <1>2, <1>3, <1>5, <1>6 DEF GovernorInv

-----------------------------------------------------------------------------
(* Requests and judgements *)

\* What the checks before the governor's lock have made sure of job j.
Prepared(j) ==
  /\ j \in Jobs /\ j.id \in Ids /\ (j.req.class = "task" => j.explicit)
  /\ j.req.class = "task" =>
       \A e \in Ids : e # j.id /\ e \notin reopened
                       /\ Live(e) /\ Helper(e) /\ Parent(e) = j.req.parent =>
         card[e].req.paths \cap j.req.paths = {}
  /\ \A e \in Ids : e \in j.moved => Known(e) /\ (Live(e) => e \in reopened)
  /\ j.req.pred # None =>
       /\ Known(j.req.pred) /\ Known(j.req.parent) /\ Parent(j.req.pred) = j.req.parent
       /\ j.req.pred \in j.locked /\ j.req.parent \in j.locked
       /\ Len(auth[j.req.pred]) = 1 /\ auth[j.req.pred][1].new = j.id
       /\ \/ j.req.pred \in j.unseen \/ j.req.parent \in j.unseen
          \/ /\ auth[j.req.pred][1].old = card[j.req.pred].rev
             /\ auth[j.req.pred][1].source = card[j.req.parent].rev

\* A job under way is fit to be judged.
LEMMA BusyPrepared ==
  ASSUME TypeOK, NEW p \in Procs, JobInv(p), Busy(p) PROVE Prepared(proc[p])
BY DEF TypeOK, JobInv, JobSound, HelperApart, MovedBack, Authorised, Prepared, Asks

\* A prepared job that starts or goes on, and has been judged if it is behind the
\* governor.
LEMMA JobBegins ==
  ASSUME NEW p \in Procs, NEW j, Prepared(j), NEW pc \in {"asked", "open", "intent", "publish"},
         UNCHANGED <<card, auth, reopened>>, proc'[p] = [j EXCEPT !.pc = pc],
         pc # "asked" => card[j.id].core = "absent" /\ Founded(j.req)
                         /\ (j.req.class # "task" /\ ~j.req.override /\ j.id \notin resumed' =>
                              \A e \in Ids : e # j.id /\ e \notin reopened /\ e \notin resumed'
                                               /\ Rival(e, j.req.class, j.req.parent) =>
                                e = j.req.pred),
         pc = "open" => ~j.explicit
  PROVE  JobInv(p)' /\ Busy(p)' /\ proc'[p] \in Jobs
<1>1. /\ proc'[p] \in Jobs /\ proc'[p].pc = pc /\ proc'[p].id = j.id /\ proc'[p].req = j.req
      /\ proc'[p].explicit = j.explicit /\ proc'[p].locked = j.locked
      /\ proc'[p].unseen = j.unseen /\ proc'[p].moved = j.moved
  BY DEF Prepared, Jobs, Governing
<1>2. Busy(p)' /\ JobSound(p)'
  BY <1>1 DEF Prepared, Busy, JobSound, Asks
<1>3. HelperApart(p)'
  BY <1>1 DEF Prepared, HelperApart, Asks, Live, Known, Helper, Class, Parent
<1>4. MovedBack(p)'
  BY <1>1 DEF Prepared, MovedBack, Live, Known
<1>5. Authorised(p)'
  BY <1>1 DEF Prepared, Authorised, Asks, Known, Parent
<1>6. ASSUME proc'[p].pc \in Governing PROVE Founded(Asks(p))'
  BY <1>1, <1>6 DEF Founded, Asks, Known, Class, Parent, Governing
<1>7. ASSUME proc'[p].pc \in Governing PROVE Unrivalled(p)'
  <2>1. pc # "asked"
    BY <1>1, <1>7 DEF Governing
  <2>2. \A e \in Ids : Exempt(e)' <=> (e \in reopened \/ e \in resumed')
    BY DEF Exempt
  <2>3. \A e \in Ids : Rival(e, Asks(p).class, Asks(p).parent)' =>
                         Rival(e, j.req.class, j.req.parent)
    BY <1>1 DEF Rival, Live, Known, Class, Parent, Replaced, Superseded, Asks
  <2> QED
    BY <1>1, <2>1, <2>2, <2>3 DEF Unrivalled, Asks
<1> QED
  BY <1>1, <1>2, <1>3, <1>4, <1>5, <1>6, <1>7 DEF JobInv, Judged

\* A process that was idle asks: the governor and the cards are not touched.
LEMMA AskStep ==
  ASSUME GovernorInv, NEW p \in Procs, NEW j, Prepared(j), proc[p] = Idle,
         proc' = [proc EXCEPT ![p] = [j EXCEPT !.pc = "asked"]],
         j.req.class = "task" =>
           \A q \in Procs : proc[q].pc = "idle" \/ proc[q].req.class # "task",
         UNCHANGED <<card, auth, pending, refused, reopened, resumed, events, faults>>
  PROVE  GovernorInv'
<1>1. TypeOK /\ CardsInv /\ OneAtATime
  BY DEF GovernorInv
<1>2. proc'[p] = [j EXCEPT !.pc = "asked"] /\ \A q \in Procs : q # p => proc'[q] = proc[q]
  BY <1>1 DEF TypeOK
<1>3. JobInv(p)' /\ proc'[p] \in Jobs
  BY <1>2, JobBegins
<1>4. TypeOK'
  <2>1. proc' \in [Procs -> Jobs]
    BY <1>1, <1>2, <1>3 DEF TypeOK
  <2> QED
    BY <1>1, <2>1 DEF TypeOK
<1>5. CardsInv'
  BY CardsStay
<1>6. OneAtATime'
  <2>1. proc'[p].pc \notin Governing /\ proc'[p].req = j.req
    BY <1>2 DEF Prepared, Jobs, Governing
  <2> QED
    BY <1>1, <1>2, <2>1 DEF OneAtATime, Busy, Asks
<1>7. ASSUME NEW q \in Procs PROVE JobInv(q)'
  BY <1>2, <1>3, OthersKept
<1> QED
  BY <1>4, <1>5, <1>6, <1>7 DEF GovernorInv

\* What a plain request asks for.
LEMMA Asked ==
  ASSUME NEW class \in {"task", "review", "repair"}, NEW parent \in Ids \cup {None}
  PROVE  /\ Ask(class, parent) \in Requests
         /\ Ask(class, parent).class = class /\ Ask(class, parent).parent = parent
         /\ Ask(class, parent).pred = None /\ Ask(class, parent).override = FALSE
         /\ Ask(class, parent).paths = {}
<1>1. 0 \in 0..(MaxEvents + 1)
  BY BoundsKnown
<1> QED
  BY <1>1 DEF Ask, Requests

\* A replacement that has locked its cards is authorised.
LEMMA AskReplacementStep ==
  ASSUME GovernorInv, NEW p \in Procs, NEW id \in Ids, NEW old \in Ids, AskReplacement(p, id, old)
  PROVE  GovernorInv'
<1> DEFINE req == [Ask("review", Parent(old)) EXCEPT !.pred = old]
           j == [Idle EXCEPT !.pc = "asked", !.id = id, !.req = req,
                             !.locked = LockedForReplacement(req)]
<1>1. /\ proc[p] = Idle /\ Known(old) /\ AuthorizedPredecessor(id, req)
      /\ proc' = [proc EXCEPT ![p] = j]
      /\ UNCHANGED <<card, auth, pending, refused, reopened, resumed, events, faults>>
  BY DEF AskReplacement
<1>2. PICK src \in Ids \cup {None} : src = Parent(old)
  BY DEF GovernorInv, TypeOK, Cards, Requests, Parent
<1>3. /\ req.pred = old /\ req.parent = src /\ req.class = "review" /\ req \in Requests
  <2>1. /\ Ask("review", src) \in Requests /\ Ask("review", src).parent = src
        /\ Ask("review", src).class = "review"
    BY Asked
  <2>2. req = [Ask("review", src) EXCEPT !.pred = old]
    BY <1>2
  <2> HIDE DEF req
  <2> QED
    BY <2>1, <2>2 DEF Requests
<1> HIDE DEF req
<1>4. /\ Known(src) /\ auth[old] = <<[new |-> id, source |-> card[src].rev, old |-> card[old].rev]>>
  BY <1>1, <1>3 DEF AuthorizedPredecessor, Live
<1>5. src \in Ids
  BY <1>4 DEF Known
<1>7. LockedForReplacement(req) = {src, old}
  BY <1>3 DEF LockedForReplacement
<1>8. /\ j \in Jobs /\ j.id = id /\ j.req = req /\ j.locked = {src, old} /\ j.moved = {}
      /\ j.pc = "asked"
  BY <1>3, <1>5, <1>7, IdleTyped DEF Idle, Jobs
<1>9. j = [j EXCEPT !.pc = "asked"]
  BY <1>8 DEF Jobs
<1> HIDE DEF j
<1>10. /\ Len(auth[old]) = 1 /\ auth[old][1].new = id
       /\ auth[old][1].source = card[src].rev /\ auth[old][1].old = card[old].rev
  BY <1>4
<1>11. Prepared(j)
  BY <1>1, <1>2, <1>3, <1>4, <1>8, <1>10 DEF Prepared
<1> QED
  BY <1>1, <1>3, <1>8, <1>9, <1>11, AskStep

\* A helper that has locked its parent is apart from the others.
LEMMA AskHelperStep ==
  ASSUME GovernorInv, NEW p \in Procs, NEW id \in Ids, NEW parent \in Ids,
         NEW paths \in SUBSET Paths, AskHelper(p, id, parent, paths)
  PROVE  GovernorInv'
<1> DEFINE req == [Ask("task", parent) EXCEPT !.paths = paths, !.under = card[parent].claim]
           j == [Idle EXCEPT !.pc = "asked", !.id = id, !.req = req,
                             !.explicit = TRUE, !.locked = {parent}]
<1>1. /\ proc[p] = Idle /\ HelperAllowed(id, req) /\ proc' = [proc EXCEPT ![p] = j]
      /\ \A q \in Procs : proc[q].pc = "idle" \/ proc[q].req.class # "task"
      /\ UNCHANGED <<card, auth, pending, refused, reopened, resumed, events, faults>>
  BY DEF AskHelper
<1>2. PICK k \in 0..(MaxEvents + 1) : k = card[parent].claim
  BY DEF GovernorInv, TypeOK, Cards
<1>3. /\ req.pred = None /\ req.parent = parent /\ req.class = "task" /\ req.paths = paths
      /\ req \in Requests
  <2>1. /\ Ask("task", parent) \in Requests /\ Ask("task", parent).parent = parent
        /\ Ask("task", parent).class = "task" /\ Ask("task", parent).pred = None
    BY Asked
  <2>2. req = [Ask("task", parent) EXCEPT !.paths = paths, !.under = k]
    BY <1>2
  <2> HIDE DEF req
  <2> QED
    BY <2>1, <2>2 DEF Requests
<1> HIDE DEF req
<1>5. /\ j \in Jobs /\ j.id = id /\ j.req = req /\ j.explicit /\ j.moved = {} /\ j.pc = "asked"
  BY <1>3, IdleTyped DEF Idle, Jobs
<1>6. j = [j EXCEPT !.pc = "asked"]
  BY <1>5 DEF Jobs
<1> HIDE DEF j
<1>7. \A e \in Ids : e # id /\ Live(e) /\ Helper(e) /\ Parent(e) = parent =>
        card[e].req.paths \cap paths = {}
  BY <1>1, <1>3 DEF HelperAllowed
<1>8. Prepared(j)
  BY <1>3, <1>5, <1>7 DEF Prepared
<1> QED
  BY <1>1, <1>5, <1>6, <1>8, AskStep

\* The governor lets a card be born only if it stands on something and has no rival.
LEMMA GovernsSound ==
  ASSUME NEW id \in Ids, NEW req, NEW blind, Governs(id, req, blind),
         req.class \in {"task", "review", "repair"},
         \A e \in Ids : e \in blind => Known(e) /\ (Live(e) => e \in reopened)
  PROVE  /\ Founded(req)
         /\ req.class # "task" /\ ~req.override =>
              \A e \in Ids : e # id /\ e \notin reopened /\ Rival(e, req.class, req.parent) =>
                e = req.pred
<1>1. Founded(req)
  BY DEF Governs, Founded, ShallowAncestry
<1>2. ASSUME req.class # "task", ~req.override, NEW e \in Ids, e \notin reopened,
             Rival(e, req.class, req.parent), e # req.pred
      PROVE  FALSE
  <2>1. ~Blocks(e, id, req, blind) /\ Live(e) /\ Class(e) = req.class /\ Parent(e) = req.parent
    BY <1>2 DEF Governs, Rival
  <2>2. ~ExactLegacySuccessor(e, id, req)
    BY <1>2, IdsKnown DEF Rival, Superseded, ExactLegacySuccessor
  <2>3. e \notin blind
    BY <1>2, <2>1
  <2> QED
    BY <1>2, <2>1, <2>2, <2>3 DEF Blocks, Appears, Live
<1> QED
  BY <1>1, <1>2

\* The governor's judgement founds a request and finds it no rival.
LEMMA JudgeStep ==
  ASSUME GovernorInv, NEW p \in Procs, NEW j, Prepared(j), NEW blind \in SUBSET j.moved,
         j.req.class = "task" => Busy(p) /\ Asks(p).class = "task",
         Judge(p, j, blind)
  PROVE  GovernorInv'
<1> DEFINE resumes == j.explicit /\ pending[j.id] # None
           fresh == card[j.id].core = "absent" /\ ~(j.explicit /\ j.id \in refused)
           goes == fresh /\ IF resumes THEN pending[j.id] = j.req ELSE Governs(j.id, j.req, blind)
           pc == IF resumes THEN "publish" ELSE IF j.explicit THEN "intent" ELSE "open"
<1>1. /\ GovernorFree
      /\ proc' = [proc EXCEPT ![p] = IF ~goes THEN Idle ELSE [j EXCEPT !.pc = pc]]
      /\ refused' = IF j.explicit /\ fresh /\ ~resumes /\ ~goes THEN refused \cup {j.id} ELSE refused
      /\ resumed' = IF goes /\ resumes THEN resumed \cup {j.id} ELSE resumed
      /\ UNCHANGED <<card, auth, pending, reopened, events, faults>>
  BY Zenon DEF Judge
<1>2. TypeOK /\ CardsInv /\ OneAtATime /\ j \in Jobs /\ j.id \in Ids
  BY DEF GovernorInv, Prepared
<1>3. /\ pc \in {"publish", "intent", "open"} /\ (pc = "open" => ~j.explicit)
      /\ goes => card[j.id].core = "absent"
      /\ goes /\ resumes => Founded(j.req)
      /\ goes /\ ~resumes => Governs(j.id, j.req, blind)
  <2>1. pending[j.id] # None => Founded(pending[j.id])
    BY <1>2 DEF CardsInv, CardsFounded
  <2> QED
    BY <2>1
<1>4. resumed \subseteq resumed' /\ resumed' \subseteq Ids /\ refused' \subseteq Ids
      /\ (goes /\ resumes => j.id \in resumed')
  BY <1>1, <1>2 DEF TypeOK
<1> HIDE DEF resumes, fresh, goes, pc
<1>5. \A q \in Procs : q # p => proc'[q] = proc[q]
  BY <1>1, <1>2 DEF TypeOK
<1>6. CardsInv'
  BY <1>1, <1>4, CardsStay
<1>7. OneAtATime' /\ JobInv(p)' /\ proc'[p] \in Jobs
  <2>1. CASE ~goes
    <3>1. proc'[p] = Idle
      BY <1>1, <1>2, <2>1 DEF TypeOK
    <3>2. ~Busy(p)' /\ proc'[p].pc \notin Governing
      BY <3>1 DEF Idle, Busy, Governing
    <3>3. OneAtATime'
      BY <1>2, <1>5, <3>2 DEF OneAtATime, Busy, Asks
    <3> QED
      BY <3>1, <3>3, IdleJob, IdleTyped
  <2>2. CASE goes
    <3>1. proc'[p] = [j EXCEPT !.pc = pc]
      BY <1>1, <1>2, <2>2 DEF TypeOK
    <3>2. proc'[p].req = j.req
      BY <1>2, <3>1 DEF Jobs
    <3>3. OneAtATime'
      <4>1. \A q \in Procs : q # p => proc'[q].pc \notin Governing
        BY <1>1, <1>5 DEF GovernorFree
      <4> QED
        BY <1>2, <1>5, <3>2, <4>1 DEF OneAtATime, Busy, Asks
    <3>4. /\ Founded(j.req)
          /\ ~resumes /\ j.req.class # "task" /\ ~j.req.override =>
               \A e \in Ids : e # j.id /\ e \notin reopened
                                /\ Rival(e, j.req.class, j.req.parent) => e = j.req.pred
      <4>1. CASE resumes
        BY <1>3, <2>2, <4>1
      <4>2. CASE ~resumes
        <5>1. j.req.class \in {"task", "review", "repair"}
          BY <1>2 DEF Jobs, Requests
        <5>2. \A e \in Ids : e \in blind => Known(e) /\ (Live(e) => e \in reopened)
          BY DEF Prepared
        <5> QED
          BY <1>2, <1>3, <2>2, <4>2, <5>1, <5>2, GovernsSound
      <4> QED
        BY <4>1, <4>2
    <3>5. resumes => j.id \in resumed'
      BY <1>4, <2>2
    <3> QED
      BY <1>1, <1>3, <2>2, <3>1, <3>3, <3>4, <3>5, JobBegins
  <2> QED
    BY <2>1, <2>2
<1>8. TypeOK'
  <2>1. proc' \in [Procs -> Jobs]
    BY <1>1, <1>2, <1>5, <1>7 DEF TypeOK
  <2> QED
    BY <1>1, <1>2, <1>4, <2>1 DEF TypeOK
<1>9. ASSUME NEW q \in Procs PROVE JobInv(q)'
  BY <1>1, <1>4, <1>5, <1>7, OthersKept
<1> QED
  BY <1>6, <1>7, <1>8, <1>9 DEF GovernorInv

\* A prepared job is judged.
LEMMA GovernStep == ASSUME GovernorInv, NEW p \in Procs, Govern(p) PROVE GovernorInv'
<1>1. PICK blind \in SUBSET proc[p].moved : Judge(p, proc[p], blind)
  BY DEF Govern
<1>2. Busy(p)
  BY DEF Govern, Busy
<1>3. PICK j : j = proc[p]
  OBVIOUS
<1>4. Prepared(j) /\ blind \in SUBSET j.moved
  BY <1>1, <1>2, <1>3, BusyPrepared DEF GovernorInv
<1>5. Judge(p, j, blind)
  BY <1>1, <1>3
<1> QED
  BY <1>2, <1>3, <1>4, <1>5, JudgeStep DEF Asks

\* A plain creation is prepared and judged in one step.
LEMMA CreateGovernedStep ==
  ASSUME GovernorInv, NEW p \in Procs, NEW id \in Ids, NEW req \in Governed,
         NEW explicit \in BOOLEAN, CreateGoverned(p, id, req, explicit)
  PROVE  GovernorInv'
<1>1. req \in Requests /\ req.class \in {"review", "repair"} /\ req.pred = None
  <2>1. CASE \E c \in Ids : req = Ask("review", c)
    <3>1. PICK c \in Ids : req = Ask("review", c)
      BY <2>1
    <3>2. /\ Ask("review", c) \in Requests /\ Ask("review", c).class = "review"
          /\ Ask("review", c).pred = None
      BY Asked
    <3> QED
      BY <3>1, <3>2
  <2>2. CASE req = Ask("repair", Root)
    BY <2>2, Asked, IdsKnown
  <2>3. CASE req = [Ask("review", Root) EXCEPT !.override = TRUE]
    <3>1. /\ Ask("review", Root) \in Requests /\ Ask("review", Root).class = "review"
          /\ Ask("review", Root).pred = None
      BY Asked, IdsKnown
    <3> QED
      BY <2>3, <3>1 DEF Requests
  <2> QED
    BY <2>1, <2>2, <2>3 DEF Governed
<1> DEFINE j == [Idle EXCEPT !.id = id, !.explicit = explicit, !.req = req]
<1>2. /\ j \in Jobs /\ j.id = id /\ j.req = req /\ j.moved = {}
  BY <1>1, IdleTyped DEF Idle, Jobs
<1>3. Judge(p, j, {})
  BY DEF CreateGoverned
<1> HIDE DEF j
<1>4. Prepared(j)
  BY <1>1, <1>2 DEF Prepared
<1> QED
  BY <1>1, <1>2, <1>3, <1>4, JudgeStep

-----------------------------------------------------------------------------
(* Births *)

\* A card at its birth.
LEMMA BornTyped ==
  ASSUME NEW req \in Requests, NEW core \in {"absent", "torn", "ok"}
  PROVE  /\ Born(req, core) \in Cards /\ Born(req, core).core = core
         /\ Born(req, core).req = req /\ Born(req, core).rev = 0
<1>1. 0 \in 0..(MaxEvents + 1) /\ 0 \in 0..MaxEvents
  BY BoundsKnown
<1> QED
  BY <1>1 DEF Born, Cards

\* Only the process that has the governor's lock touches a card that is not there.
LEMMA BirthFrame ==
  ASSUME GovernorInv, NEW p \in Procs, proc[p].pc \in {"open", "fill", "publish"},
         \A c \in Ids : c # proc[p].id => card'[c] = card[c],
         UNCHANGED <<reopened, resumed>>
  PROVE  /\ Steady /\ proc[p].id \in Ids /\ ~Known(proc[p].id)
         /\ \A c \in Ids : Known(c) => c # proc[p].id /\ card'[c] = card[c]
<1>1. proc[p].id \in Ids /\ card[proc[p].id].core # "ok"
  BY DEF GovernorInv, JobInv, JobSound, Busy
<1>2. \A c \in Ids : card[c].core = "ok" => c # proc[p].id /\ card'[c] = card[c]
  BY <1>1
<1> QED
  BY <1>1, <1>2 DEF Steady, Known

\* The empty core of a card nobody had is no card yet.
LEMMA OpenStep == ASSUME GovernorInv, NEW p \in Procs, Open(p) PROVE GovernorInv'
<1> DEFINE id == proc[p].id
           new == Born(proc[p].req, "torn")
<1>1. /\ TypeOK /\ CardsInv /\ OneAtATime /\ JobInv(p) /\ proc[p].pc = "open"
      /\ card' = [card EXCEPT ![id] = new] /\ proc' = [proc EXCEPT ![p].pc = "fill"]
      /\ UNCHANGED <<auth, pending, refused, reopened, resumed, events, faults>>
  BY DEF GovernorInv, Open
<1>2. proc[p] \in Jobs /\ proc[p].req \in Requests
  BY <1>1 DEF TypeOK, Jobs
<1>3. new \in Cards /\ new.core = "torn" /\ new.req = proc[p].req /\ new.rev = 0
  BY <1>2, BornTyped
<1> HIDE DEF new
<1>4. id \in Ids
  BY <1>1 DEF JobInv, JobSound, Busy
<1>5. /\ card' \in [Ids -> Cards] /\ card'[id] = new
      /\ \A c \in Ids : c # id => card'[c] = card[c]
  BY <1>1, <1>3, <1>4 DEF TypeOK
<1>6. Steady /\ ~Known(id) /\ \A c \in Ids : Known(c) => card'[c] = card[c]
  BY <1>1, <1>5, BirthFrame
<1>7. NoneNew
  BY <1>3, <1>5 DEF NoneNew
<1>8. /\ proc'[p] \in Jobs /\ proc'[p].pc = "fill" /\ proc'[p].id = id
      /\ proc'[p].req = proc[p].req /\ proc'[p].explicit = proc[p].explicit
      /\ proc'[p].locked = proc[p].locked /\ proc'[p].unseen = proc[p].unseen
      /\ proc'[p].moved = proc[p].moved
      /\ \A q \in Procs : q # p => proc'[q] = proc[q]
      /\ proc' \in [Procs -> Jobs]
  <2>1. proc'[p] = [proc[p] EXCEPT !.pc = "fill"] /\ \A q \in Procs : q # p => proc'[q] = proc[q]
    BY <1>1 DEF TypeOK
  <2>2. /\ proc'[p] \in Jobs /\ proc'[p].pc = "fill" /\ proc'[p].id = id
        /\ proc'[p].req = proc[p].req /\ proc'[p].explicit = proc[p].explicit
        /\ proc'[p].locked = proc[p].locked /\ proc'[p].unseen = proc[p].unseen
        /\ proc'[p].moved = proc[p].moved
    BY <1>2, <2>1 DEF Jobs, Governing
  <2> QED
    BY <1>1, <2>1, <2>2 DEF TypeOK
<1>9. TypeOK'
  BY <1>1, <1>5, <1>8 DEF TypeOK
<1>10. CardsInv'
  <2>1. Dated'
    BY <1>1, <1>3, <1>5 DEF CardsInv, Dated, TypeOK
  <2> QED
    BY <1>1, <1>6, <1>7, <2>1, CardsKept
<1>11. OneAtATime'
  BY <1>1, <1>8 DEF OneAtATime, Busy, Asks, Governing
<1>12. JobInv(p)'
  <2>1. GoesOn(p)
    BY <1>1, <1>8 DEF GoesOn, Governing
  <2>2. JobSound(p)'
    BY <1>1, <1>3, <1>4, <1>5, <1>8 DEF JobInv, JobSound, Busy, Asks
  <2>3. MovedBack(p)'
    BY <1>1, <1>6, <1>8, MovedBackKept DEF JobInv
  <2>4. Authorised(p)'
    BY <1>1, <1>6, <1>8, <2>1, AuthorisedKept
  <2> QED
    BY <1>1, <1>6, <1>7, <2>1, <2>2, <2>3, <2>4, JobGoesOn
<1>13. ASSUME NEW q \in Procs, q # p PROVE JobInv(q)'
  <2>1. JobInv(q) /\ proc[q].pc \notin Governing
    BY <1>1, <1>13 DEF GovernorInv, OneAtATime, Governing
  <2>2. \A c \in Ids : Helper(c)' => Known(c)
    BY <1>7 DEF Helper, Known, NoneNew
  <2> QED
    BY <1>1, <1>6, <1>8, <1>13, <2>1, <2>2, AskedKept
<1> QED
  BY <1>9, <1>10, <1>11, <1>12, <1>13 DEF GovernorInv

\* The step that makes a card of what was asked.
LEMMA BirthStep ==
  ASSUME GovernorInv, NEW p \in Procs, proc[p].pc \in {"fill", "publish"},
         proc' = [proc EXCEPT ![p] = Idle], card' \in [Ids -> Cards],
         \A c \in Ids : c # proc[p].id => card'[c] = card[c],
         card'[proc[p].id].core = "ok", card'[proc[p].id].req = Asks(p),
         card'[proc[p].id].rev <= events,
         pending' \in [Ids -> Requests \cup {None}],
         \A c \in Ids : pending'[c] \in {pending[c], None},
         UNCHANGED <<auth, refused, reopened, resumed, events, faults>>
  PROVE  GovernorInv'
<1>1. TypeOK /\ CardsInv /\ OneAtATime /\ JobInv(p)
  BY DEF GovernorInv
<1>2. PICK id \in Ids : id = proc[p].id
  BY <1>1 DEF JobInv, JobSound, Busy
<1>3. PICK r \in Requests : r = Asks(p)
  BY <1>1 DEF TypeOK, Jobs, Asks
<1>4. /\ Steady /\ ~Known(id) /\ \A c \in Ids : Known(c) => c # id /\ card'[c] = card[c]
  BY <1>2, BirthFrame
<1>5. card'[id].core = "ok" /\ card'[id].req = r /\ \A c \in Ids : c # id => card'[c] = card[c]
  BY <1>2, <1>3
<1>6. proc'[p] = Idle /\ \A q \in Procs : q # p => proc'[q] = proc[q]
  BY <1>1 DEF TypeOK
<1>7. TypeOK'
  BY <1>1, IdleTyped DEF TypeOK
<1>8. OneAtATime'
  <2>1. ~Busy(p)' /\ proc'[p].pc \notin Governing
    BY <1>6 DEF Idle, Busy, Governing
  <2> QED
    BY <1>1, <1>6, <2>1 DEF OneAtATime, Busy, Asks
<1>9. Founded(r) /\ Unrivalled(p) /\ Busy(p)
  BY <1>1, <1>3 DEF JobInv, Judged, Governing, Busy
<1>10. CardsFounded'
  <2> SUFFICES ASSUME NEW c \in Ids
               PROVE  /\ Known(c)' => Founded(card[c].req)'
                      /\ (pending[c])' # None => Founded(pending[c])'
    BY DEF CardsFounded
  <2>1. ASSUME Known(c)' PROVE Founded(card[c].req)'
    <3>1. PICK s : s = card'[c].req /\ Founded(s)
      <4>1. CASE c = id
        BY <1>5, <1>9, <4>1
      <4>2. CASE c # id
        BY <1>1, <1>5, <2>1, <4>2 DEF CardsInv, CardsFounded, Known
      <4> QED
        BY <4>1, <4>2
    <3>2. Founded(s)'
      BY <1>4, <3>1, FoundedKept
    <3> QED
      BY <3>1, <3>2 DEF Founded
  <2>2. ASSUME pending'[c] # None PROVE Founded(pending[c])'
    <3>1. PICK s : s = pending'[c] /\ Founded(s)
      BY <1>1, <2>2 DEF CardsInv, CardsFounded
    <3>2. Founded(s)'
      BY <1>4, <3>1, FoundedKept
    <3> QED
      BY <3>1, <3>2 DEF Founded
  <2> QED
    BY <2>1, <2>2
<1>11. ASSUME NEW d \in Ids, NEW class \in {"review", "repair"}, NEW parent \in Ids, d # id,
              ~Exempt(id)', ~Exempt(d)', Rival(id, class, parent)', Rival(d, class, parent)'
       PROVE  FALSE
  <2>1. class = r.class /\ parent = r.parent /\ ~r.override
    BY <1>5, <1>11 DEF Rival, Class, Parent
  <2>2. id \notin resumed /\ ~Exempt(d) /\ d \notin reopened'
    BY <1>11 DEF Exempt
  <2>3. Known(d)
    BY <1>5, <1>11 DEF Rival, Live, Known
  <2>4. Rival(d, class, parent)
    BY <1>4, <1>11, <2>2, <2>3, RivalKept
  <2>5. d = r.pred
    BY <1>2, <1>3, <1>9, <1>11, <2>1, <2>2, <2>4 DEF Unrivalled
  <2>6. Replaced(d)'
    BY <1>2, <1>5, <2>5 DEF Replaced, Known
  <2> QED
    BY <1>11, <2>6 DEF Rival
<1>12. NoTwoRivals'
  <2> SUFFICES ASSUME NEW c \in Ids, NEW d \in Ids, NEW class \in {"review", "repair"},
                      NEW parent \in Ids, ~Exempt(c)', ~Exempt(d)',
                      Rival(c, class, parent)', Rival(d, class, parent)', c # d
               PROVE  FALSE
    BY DEF NoTwoRivals
  <2>1. c # id /\ d # id
    BY <1>11
  <2>2. Known(c) /\ Known(d) /\ c \notin reopened' /\ d \notin reopened'
    BY <1>5, <2>1 DEF Rival, Live, Known, Exempt
  <2>3. Rival(c, class, parent) /\ Rival(d, class, parent)
    BY <1>4, <2>2, RivalKept
  <2> QED
    BY <1>1, <2>3 DEF CardsInv, NoTwoRivals, Exempt
<1>13. ReplacedOnce'
  <2> SUFFICES ASSUME NEW c \in Ids, Known(c)', card'[c].req.pred # None
               PROVE  Len(auth[card'[c].req.pred]) >= 1 /\ auth[card'[c].req.pred][1].new = c
    BY DEF ReplacedOnce
  <2>1. CASE c = id
    BY <1>1, <1>2, <1>3, <1>5, <1>9, <2>1 DEF JobInv, Authorised
  <2>2. CASE c # id
    BY <1>1, <1>5, <2>2 DEF CardsInv, ReplacedOnce, Known
  <2> QED
    BY <2>1, <2>2
<1>14. Dated'
  BY <1>1, <1>2, <1>5 DEF CardsInv, Dated
<1>15. ASSUME NEW d \in Ids, d # id, d \notin reopened, id \notin reopened, Live(d)', Live(id)',
              Helper(d)', Helper(id)', Parent(d)' = Parent(id)'
       PROVE  card'[d].req.paths \cap r.paths = {}
  <2>1. r.class = "task" /\ card'[d] = card[d] /\ Parent(d) = r.parent
    BY <1>5, <1>15 DEF Helper, Class, Parent
  <2>2. Live(d) /\ Helper(d)
    BY <1>15, <2>1 DEF Live, Helper, Known, Class, Parent
  <2> QED
    BY <1>1, <1>2, <1>3, <1>9, <1>15, <2>1, <2>2 DEF JobInv, HelperApart
<1>16. HelpersDisjoint'
  <2> SUFFICES ASSUME NEW c \in Ids, NEW d \in Ids, c \notin reopened, d \notin reopened, c # d,
                      Live(c)', Live(d)', Helper(c)', Helper(d)', Parent(c)' = Parent(d)'
               PROVE  card'[c].req.paths \cap card'[d].req.paths = {}
    BY DEF HelpersDisjoint
  <2>1. CASE c = id
    BY <1>5, <1>15, <2>1
  <2>2. CASE d = id
    BY <1>5, <1>15, <2>2
  <2>3. CASE c # id /\ d # id
    <3>1. /\ Live(c) /\ Live(d) /\ Helper(c) /\ Helper(d) /\ Parent(c) = Parent(d)
          /\ card'[c] = card[c] /\ card'[d] = card[d]
      BY <1>5, <2>3 DEF Live, Helper, Known, Class, Parent
    <3> QED
      BY <1>1, <3>1 DEF CardsInv, HelpersDisjoint
  <2> QED
    BY <2>1, <2>2, <2>3
<1>17. ASSUME NEW q \in Procs, q # p PROVE JobInv(q)'
  <2>1. JobInv(q) /\ proc[q].pc \notin Governing
    BY <1>1, <1>17 DEF GovernorInv, OneAtATime, Governing
  <2>2. ASSUME Busy(q), Asks(q).class = "task", NEW c \in Ids, Helper(c)' PROVE Known(c)
    <3>1. r.class # "task"
      BY <1>1, <1>3, <1>9, <1>17, <2>2 DEF OneAtATime
    <3>2. c # id
      BY <1>5, <2>2, <3>1 DEF Helper, Class
    <3> QED
      BY <1>5, <2>2, <3>2 DEF Helper, Known
  <2> QED
    BY <1>1, <1>4, <1>6, <1>17, <2>1, <2>2, AskedKept
<1>18. JobInv(p)'
  BY <1>6, IdleJob
<1> QED
  BY <1>7, <1>8, <1>10, <1>12, <1>13, <1>14, <1>16, <1>17, <1>18 DEF GovernorInv, CardsInv

\* An ordinary creation ends in a birth.
LEMMA FillStep == ASSUME GovernorInv, NEW p \in Procs, Fill(p) PROVE GovernorInv'
<1>1. /\ TypeOK /\ CardsInv /\ JobInv(p) /\ proc[p].pc = "fill"
      /\ card' = [card EXCEPT ![proc[p].id].core = "ok"] /\ proc' = [proc EXCEPT ![p] = Idle]
      /\ UNCHANGED <<auth, pending, refused, reopened, resumed, events, faults>>
  BY DEF GovernorInv, Fill
<1>2. PICK id \in Ids : id = proc[p].id
  BY <1>1 DEF JobInv, JobSound, Busy
<1>3. card'[id] = [card[id] EXCEPT !.core = "ok"] /\ \A c \in Ids : c # id => card'[c] = card[c]
  BY <1>1, <1>2 DEF TypeOK
<1>4. card[id] \in Cards /\ card[id].req = Asks(p) /\ card[id].rev <= events
  BY <1>1, <1>2 DEF TypeOK, JobInv, JobSound, Asks, CardsInv, Dated
<1>5. /\ card'[id] \in Cards /\ card'[id].core = "ok" /\ card'[id].req = Asks(p)
      /\ card'[id].rev <= events
  BY <1>3, <1>4 DEF Cards
<1>6. card' \in [Ids -> Cards]
  BY <1>1, <1>2, <1>3, <1>5 DEF TypeOK
<1> QED
  BY <1>1, <1>2, <1>3, <1>5, <1>6, BirthStep DEF TypeOK

\* An explicit one too, and its intent is gone.
LEMMA PublishStep == ASSUME GovernorInv, NEW p \in Procs, Publish(p) PROVE GovernorInv'
<1> DEFINE new == Born(proc[p].req, "ok")
<1>1. /\ TypeOK /\ CardsInv /\ JobInv(p) /\ proc[p].pc = "publish"
      /\ card' = [card EXCEPT ![proc[p].id] = new] /\ proc' = [proc EXCEPT ![p] = Idle]
      /\ pending' = [pending EXCEPT ![proc[p].id] = None]
      /\ UNCHANGED <<auth, refused, reopened, resumed, events, faults>>
  BY DEF GovernorInv, Publish
<1>2. PICK id \in Ids : id = proc[p].id
  BY <1>1 DEF JobInv, JobSound, Busy
<1>3. new \in Cards /\ new.core = "ok" /\ new.req = Asks(p) /\ new.rev = 0
  <2>1. proc[p].req \in Requests
    BY <1>1 DEF TypeOK, Jobs
  <2> QED
    BY <2>1, BornTyped DEF Asks
<1> HIDE DEF new
<1>4. /\ card' \in [Ids -> Cards] /\ card'[id] = new
      /\ \A c \in Ids : c # id => card'[c] = card[c]
  BY <1>1, <1>2, <1>3 DEF TypeOK
<1>5. /\ pending' \in [Ids -> Requests \cup {None}]
      /\ \A c \in Ids : pending'[c] \in {pending[c], None}
  BY <1>1, <1>2 DEF TypeOK
<1>6. 0 <= events
  BY <1>1, BoundsKnown DEF TypeOK
<1> QED
  BY <1>1, <1>2, <1>3, <1>4, <1>5, <1>6, BirthStep

\* The intent of a founded request is founded.
LEMMA WriteIntentStep == ASSUME GovernorInv, NEW p \in Procs, WriteIntent(p) PROVE GovernorInv'
<1>1. /\ TypeOK /\ CardsInv /\ OneAtATime /\ JobInv(p) /\ proc[p].pc = "intent"
      /\ pending' = [pending EXCEPT ![proc[p].id] = proc[p].req]
      /\ proc' = [proc EXCEPT ![p].pc = "publish"]
      /\ UNCHANGED <<card, auth, refused, reopened, resumed, events, faults>>
  BY DEF GovernorInv, WriteIntent
<1>2. PICK id \in Ids : id = proc[p].id
  BY <1>1 DEF JobInv, JobSound, Busy
<1>3. proc[p] \in Jobs /\ proc[p].req \in Requests
  BY <1>1 DEF TypeOK, Jobs
<1>4. proc'[p] = [proc[p] EXCEPT !.pc = "publish"] /\ \A q \in Procs : q # p => proc'[q] = proc[q]
  BY <1>1 DEF TypeOK
<1>5. /\ proc'[p] \in Jobs /\ proc'[p].pc = "publish" /\ proc'[p].id = id
      /\ proc'[p].req = proc[p].req /\ proc'[p].explicit = proc[p].explicit
      /\ proc'[p].locked = proc[p].locked /\ proc'[p].unseen = proc[p].unseen
      /\ proc'[p].moved = proc[p].moved
  BY <1>2, <1>3, <1>4 DEF Jobs, Governing
<1>6. TypeOK'
  <2>1. proc' \in [Procs -> Jobs] /\ pending' \in [Ids -> Requests \cup {None}]
    BY <1>1, <1>2, <1>3, <1>4, <1>5 DEF TypeOK
  <2> QED
    BY <1>1, <2>1 DEF TypeOK
<1>7. Steady /\ NoBirth
  BY <1>1, CardsUntouched
<1>8. CardsFounded'
  <2>1. Founded(proc[p].req)
    BY <1>1 DEF JobInv, Judged, Governing, Asks
  <2>2. \A c \in Ids : pending'[c] = IF c = id THEN proc[p].req ELSE pending[c]
    BY <1>1, <1>2 DEF TypeOK
  <2>3. \A c \in Ids : pending'[c] # None => Founded(pending'[c])
    BY <1>1, <2>1, <2>2 DEF CardsInv, CardsFounded
  <2>4. \A c \in Ids : Known(c) => Founded(card[c].req)
    BY <1>1 DEF CardsInv, CardsFounded
  <2> QED
    BY <1>1, <2>3, <2>4 DEF CardsFounded, Founded, Known, Class, Parent
<1>9. CardsInv'
  <2>1. Dated'
    BY <1>1 DEF CardsInv, Dated
  <2> QED
    BY <1>1, <1>7, <1>8, <2>1, NoBirthNoneNew, NoTwoRivalsKept, HelpersKept, ReplacedOnceKept
    DEF CardsInv
<1>10. OneAtATime'
  BY <1>1, <1>4, <1>5 DEF OneAtATime, Busy, Asks, Governing
<1>11. JobInv(p)'
  <2>1. GoesOn(p)
    BY <1>1, <1>2, <1>5 DEF GoesOn, Governing
  <2>2. JobSound(p)'
    BY <1>1, <1>2, <1>5 DEF JobInv, JobSound, Busy, Asks
  <2>3. MovedBack(p)'
    BY <1>1, <1>5, <1>7, MovedBackKept DEF JobInv
  <2>4. Authorised(p)'
    BY <1>1, <1>5, <1>7, <2>1, AuthorisedKept
  <2> QED
    BY <1>1, <1>7, <2>1, <2>2, <2>3, <2>4, NoBirthNoneNew, JobGoesOn
<1>12. ASSUME NEW q \in Procs, q # p PROVE JobInv(q)'
  BY <1>1, <1>4, <1>12, OthersKept
<1> QED
  BY <1>6, <1>9, <1>10, <1>11, <1>12 DEF GovernorInv

-----------------------------------------------------------------------------
(* The theorems *)

\* A claimed card at its birth.
LEMMA ClaimedTyped ==
  ASSUME NEW r \in Requests
  PROVE  LET x == Claimed(Born(r, "ok")) IN
         x \in Cards /\ x.core = "ok" /\ x.req = r /\ x.rev = 0
<1> DEFINE x == Born(r, "ok")
           y == [x EXCEPT !.claim = 1]
           z == [y EXCEPT !.owned = TRUE]
<1>1. MaxEvents \in Nat
  BY BoundsKnown
<1>2. x \in Cards /\ x.core = "ok" /\ x.req = r /\ x.rev = 0
  BY BornTyped
<1>3. y \in Cards /\ y.core = "ok" /\ y.req = r /\ y.rev = 0
  <2> HIDE DEF x
  <2> QED
    BY <1>1, <1>2 DEF Cards
<1>4. z \in Cards /\ z.core = "ok" /\ z.req = r /\ z.rev = 0
  <2> HIDE DEF y
  <2> QED
    BY <1>3 DEF Cards
<1>5. Claimed(x) = z
  BY Zenon DEF Claimed
<1> HIDE DEF z
<1> QED
  BY <1>4, <1>5, Zenon

\* The board begins with one task and at most one review or repair of it.
LEMMA GovernorInitially == Init => GovernorInv
<1> SUFFICES ASSUME Init PROVE GovernorInv
  OBVIOUS
<1>1. PICK c \in Ids \ {Root}, class \in {"review", "repair"}, there \in BOOLEAN :
        card = [d \in Ids |-> IF d = Root THEN Claimed(Born(Ask("task", None), "ok"))
                              ELSE IF d = c
                              THEN IF ~there THEN Absent
                                   ELSE IF c \in Legacy THEN Born(Ask(class, Root), "ok")
                                   ELSE Claimed(Born(Ask(class, Root), "ok"))
                              ELSE Absent]
  BY Zenon DEF Init
<1>2. /\ auth = [d \in Ids |-> <<>>] /\ pending = [d \in Ids |-> None] /\ refused = {}
      /\ proc = [p \in Procs |-> Idle] /\ reopened = {} /\ resumed = {} /\ events = 0 /\ faults = 0
  BY DEF Init
<1>3. Root \in Ids /\ None \notin Ids
  BY IdsKnown
<1>4. ASSUME NEW d \in Ids
      PROVE  /\ card[d] \in Cards /\ card[d].rev = 0 /\ card[d].req.pred = None
             /\ card[d].core = "ok" => d = Root \/ d = c
             /\ d = Root => card[d].core = "ok" /\ card[d].req.class = "task"
                            /\ card[d].req.parent = None
             /\ d = c /\ card[d].core = "ok" =>
                  card[d].req.class \in {"review", "repair"} /\ card[d].req.parent = Root
  <2>1. PICK t, r : t = Ask("task", None) /\ r = Ask(class, Root)
    OBVIOUS
  <2>2. t \in Requests /\ t.class = "task" /\ t.parent = None /\ t.pred = None
    <3>1. "task" \in {"task", "review", "repair"} /\ None \in Ids \cup {None}
      OBVIOUS
    <3> QED
      BY <2>1, <3>1, Asked, Zenon
  <2>3. r \in Requests /\ r.class = class /\ r.parent = Root /\ r.pred = None
    <3>1. class = "review" \/ class = "repair"
      OBVIOUS
    <3>2. Root \in Ids \cup {None}
      BY <1>3
    <3>3. CASE class = "review"
      BY <2>1, <3>2, <3>3, Asked
    <3>4. CASE class = "repair"
      BY <2>1, <3>2, <3>4, Asked
    <3> QED
      BY <3>1, <3>3, <3>4
  <2>4. CASE d = Root
    <3>1. card[d] = Claimed(Born(t, "ok"))
      BY <1>1, <2>1, <2>4
    <3>2. card[d] \in Cards /\ card[d].core = "ok" /\ card[d].req = t /\ card[d].rev = 0
      BY <2>2, <3>1, ClaimedTyped, Zenon
    <3> QED
      BY <1>1, <2>2, <2>4, <3>2
  <2>5. CASE d # Root
    <3>1. \/ card[d] = Born(t, "absent")
          \/ d = c /\ card[d] = Born(r, "ok")
          \/ d = c /\ card[d] = Claimed(Born(r, "ok"))
      BY <1>1, <2>1, <2>5 DEF Absent
    <3>2. CASE card[d] = Born(t, "absent")
      <4>1. card[d] \in Cards /\ card[d].core = "absent" /\ card[d].req = t /\ card[d].rev = 0
        BY <2>2, <3>2, BornTyped
      <4> QED
        BY <2>2, <2>5, <4>1
    <3>3. CASE d = c /\ (card[d] = Born(r, "ok") \/ card[d] = Claimed(Born(r, "ok")))
      <4>1. card[d] \in Cards /\ card[d].core = "ok" /\ card[d].req = r /\ card[d].rev = 0
        BY <2>3, <3>3, BornTyped, ClaimedTyped
      <4> QED
        BY <2>3, <2>5, <3>3, <4>1
    <3> QED
      BY <3>1, <3>2, <3>3
  <2> QED
    BY <2>4, <2>5
<1>5. TypeOK
  <2>1. card \in [Ids -> Cards]
    BY <1>1, <1>4
  <2>2. proc \in [Procs -> Jobs]
    BY <1>2, IdleTyped
  <2>3. auth \in [Ids -> Seq(Authorisations)]
    BY <1>2
  <2> QED
    BY <1>2, <2>1, <2>2, <2>3, BoundsKnown DEF TypeOK
<1>6. CardsFounded
  BY <1>2, <1>3, <1>4 DEF CardsFounded, Founded, Known, Class, Parent
<1>7. NoTwoRivals
  BY <1>4 DEF NoTwoRivals, Rival, Live, Known, Class
<1>8. ReplacedOnce
  BY <1>4 DEF ReplacedOnce
<1>9. Dated
  BY <1>2, <1>4 DEF Dated
<1>10. HelpersDisjoint
  BY <1>4 DEF HelpersDisjoint, Helper, Known, Class, Parent
<1>11. OneAtATime
  BY <1>2 DEF OneAtATime, Idle, Busy, Governing
<1>12. ASSUME NEW p \in Procs PROVE JobInv(p)
  BY <1>2 DEF Idle, Ask, JobInv, JobSound, HelperApart, MovedBack, Authorised, Judged, Busy,
     Asks, Governing
<1> QED
  BY <1>5, <1>6, <1>7, <1>8, <1>9, <1>10, <1>11, <1>12 DEF GovernorInv, CardsInv

\* The invariant is about the variables of the specification.
LEMMA GovernorStutter == ASSUME GovernorInv, UNCHANGED vars PROVE GovernorInv'
<1>1. /\ UNCHANGED <<card, auth, pending, refused, proc, reopened, resumed, events, faults>>
      /\ TypeOK /\ OneAtATime
  BY DEF vars, GovernorInv
<1>2. TypeOK'
  BY <1>1 DEF TypeOK
<1>3. CardsInv'
  BY <1>1, CardsStay
<1>4. OneAtATime'
  BY <1>1 DEF OneAtATime, Busy, Asks
<1>5. ASSUME NEW p \in Procs PROVE JobInv(p)'
  BY <1>1, OthersKept
<1> QED
  BY <1>2, <1>3, <1>4, <1>5 DEF GovernorInv

\* Every step keeps the invariant.
LEMMA GovernorStep == GovernorInv /\ [Next]_vars => GovernorInv'
<1> SUFFICES ASSUME GovernorInv, [Next]_vars PROVE GovernorInv'
  OBVIOUS
<1>1. CASE UNCHANGED vars
  BY <1>1, GovernorStutter
<1>2. CASE \E c \in Ids : StoreEvent(c) \/ OverlayEvent(c) \/ \E n \in Ids : Authorize(c, n)
  BY <1>2, StoreEventStep, OverlayEventStep, AuthorizeStep
<1>3. CASE \E p \in Procs : Create(p) \/ Crash(p)
  BY <1>3, GovernStep, OpenStep, FillStep, WriteIntentStep, PublishStep, CrashStep DEF Create
<1>4. CASE \E p \in Procs, id \in Ids \ ({Root} \cup Legacy) :
             \E req \in Governed, explicit \in BOOLEAN : CreateGoverned(p, id, req, explicit)
  BY <1>4, CreateGovernedStep
<1>5. CASE \E p \in Procs, id \in Ids \ ({Root} \cup Legacy) :
             \E c \in Ids : AskReplacement(p, id, c)
  BY <1>5, AskReplacementStep
<1>6. CASE \E p \in Procs, id \in Ids \ ({Root} \cup Legacy) :
             \E c \in Ids, paths \in SUBSET Paths : AskHelper(p, id, c, paths)
  BY <1>6, AskHelperStep
<1> QED
  BY <1>1, <1>2, <1>3, <1>4, <1>5, <1>6, Zenon DEF Next

\* The invariant holds for every set of cards and processes and every number of events
\* and crashes.
THEOREM GovernorInvHolds == Spec => []GovernorInv
BY GovernorInitially, GovernorStep, PTL DEF Spec

\* Type correctness of governed births.
THEOREM GovernorTypeCorrect == Spec => []TypeOK
<1>1. GovernorInv => TypeOK
  BY DEF GovernorInv
<1> QED
  BY <1>1, GovernorInvHolds, PTL

\* A set any two members of which are equal has at most one.
LEMMA AtMostOne ==
  ASSUME NEW S, \A c, d \in S : c = d PROVE Cardinality(S) <= 1
<1>1. CASE S = {}
  BY <1>1, FS_EmptySet
<1>2. CASE S # {}
  <2>1. PICK c : S = {c}
    BY <1>2
  <2>2. Cardinality({c}) = 1
    BY FS_Singleton
  <2> QED
    BY <2>1, <2>2
<1> QED
  BY <1>1, <1>2

\* A card has at most one live review and one live repair that nobody exempted, and
\* there is no review of a review of a review, however _govern_create interleaves with
\* events, resumed intents and crashes.
THEOREM ReviewsBoundedHolds == Spec => []ReviewsBounded
<1>1. GovernorInv => OneLiveReview
  <2> SUFFICES ASSUME GovernorInv, NEW class \in {"review", "repair"}, NEW parent \in Ids
               PROVE  Cardinality(Rivals(class, parent, reopened \cup resumed)) <= 1
    BY DEF OneLiveReview
  <2>1. \A c, d \in Rivals(class, parent, reopened \cup resumed) : c = d
    BY DEF GovernorInv, CardsInv, NoTwoRivals, Rivals, Rival, Exempt
  <2> QED
    BY <2>1, AtMostOne
<1>2. GovernorInv => ReviewsShallow
  BY DEF GovernorInv, CardsInv, CardsFounded, Founded, ReviewsShallow, Class, Parent, Known
<1>3. GovernorInv => ReviewsBounded
  BY <1>1, <1>2 DEF ReviewsBounded
<1> QED
  BY <1>3, GovernorInvHolds, PTL

\* Helpers of one card that are at work never write to the same paths, although
\* validate_helper_request runs before the governor's lock is taken.
THEOREM HelpersDisjointHolds == Spec => []HelpersDisjoint
<1>1. GovernorInv => HelpersDisjoint
  BY DEF GovernorInv, CardsInv
<1> QED
  BY <1>1, GovernorInvHolds, PTL

\* A replacement is born only under the one authorisation of its predecessor, of the
\* histories the operator saw, and no predecessor is replaced twice.
THEOREM ReplacementBoundHolds == Spec => ReplacementBound
<1> DEFINE Bound(p) ==
      LET old == proc[p].req.pred IN old # None =>
         /\ Len(auth[old]) = 1 /\ ~Replaced(old)
         /\ {old, Parent(old)} \cap proc[p].unseen # {}
            \/ /\ auth[old][1].old = card[old].rev
               /\ auth[old][1].source = card[Parent(old)].rev
<1>1. ASSUME GovernorInv, NEW p \in Procs, proc[p].pc = "fill" PROVE Bound(p)
  <2> SUFFICES ASSUME Asks(p).pred # None PROVE Bound(p)
    BY DEF Asks
  <2>1. PICK old : old = Asks(p).pred
    OBVIOUS
  <2>2. /\ Known(old) /\ Parent(old) = Asks(p).parent
        /\ Len(auth[old]) = 1 /\ auth[old][1].new = proc[p].id
        /\ \/ old \in proc[p].unseen \/ Parent(old) \in proc[p].unseen
           \/ auth[old][1].old = card[old].rev /\ auth[old][1].source = card[Parent(old)].rev
    BY <1>1, <2>1 DEF GovernorInv, JobInv, Authorised, Busy
  <2>3. card[proc[p].id].core # "ok"
    BY <1>1 DEF GovernorInv, JobInv, JobSound
  <2>4. ~Replaced(old)
    BY <1>1, <2>1, <2>2, <2>3 DEF Replaced, Known, GovernorInv, CardsInv, ReplacedOnce
  <2> QED
    BY <2>1, <2>2, <2>4 DEF Asks
<1>2. GovernorInv /\ [Next]_vars =>
        [\A p \in Procs : proc[p].pc = "fill" /\ card'[proc[p].id].core = "ok" => Bound(p)]_vars
  BY <1>1
<1> QED
  BY <1>2, GovernorInvHolds, PTL DEF Spec, ReplacementBound
=============================================================================
