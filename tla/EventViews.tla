----------------------------- MODULE EventViews -----------------------------
(***************************************************************************)
(* The lists of events: an operator reads all of them (EventService.findAll)*)
(* or a user the available ones (findActiveEvents), page after page, while *)
(* the collection changes.  The user's list says of every event whether a  *)
(* request for it would be approved (RequestEligibilityService).           *)
(***************************************************************************)
EXTENDS EventStore, FiniteSets

CONSTANT Limit  \* events on a page

ASSUME LimitAssumption == Limit \in Nat \ {0}

VARIABLES
  view,   \* the list being read: "all" or "active"; "none" before it is asked for
  page,   \* the page to read next, or 0 after the last
  items,  \* the page read last: [id, event]
  got,    \* ids on the pages read so far
  began,  \* ids that were in the list when the reading began (history)
  left    \* some event left the list since then (history)

readerVars == <<view, page, items, got, began, left>>
allVars == <<vars, readerVars>>

InitViews ==
  /\ Init
  /\ view = "none"
  /\ page = 1
  /\ items = {}
  /\ got = {}
  /\ began = {}
  /\ left = FALSE

\* The filters: not deleted, and for users ACTIVE.
InView(v, i) == Live(i) /\ (v = "active" => store[i].status = "ACTIVE")

\* The ids in the list being read.
List == {i \in Ids : view # "none" /\ InView(view, i)}

\* The orders in which a query may return the events of list v, as the place of each:
\* the newest first.  Events created at the same time come in any order, and in another
\* one in the next query: the sort names no second field.
Orders(v) ==
  LET listed == {i \in Ids : InView(v, i)} IN
  {place \in [listed -> 0 .. Cardinality(listed) - 1] :
     \A i, j \in listed :
       /\ place[i] = place[j] => i = j
       /\ store[i].createdAt > store[j].createdAt => place[i] < place[j]}

\* Mutant of Skip: pages are counted from 0.
SkipFromZero(p) == p * Limit

Skip(p) == (p - 1) * Limit

\* The ids on page p, when a query returns the events at these places.
OnPage(place, p) == {i \in DOMAIN place : place[i] \in Skip(p) .. Skip(p) + Limit - 1}

BeginReading(v) ==
  /\ view = "none"
  /\ view' = v
  /\ began' = {i \in Ids : InView(v, i)}
  /\ UNCHANGED <<vars, page, items, got, left>>

\* A page is read; a page that is not full is the last.
ReadPage ==
  /\ view # "none" /\ page # 0
  /\ \E place \in Orders(view) :
       LET ids == OnPage(place, page) IN
       /\ items' = {[id |-> i, event |-> store[i]] : i \in ids}
       /\ got' = got \cup ids
       /\ page' = IF Cardinality(ids) < Limit THEN 0 ELSE page + 1
  /\ UNCHANGED <<vars, view, began, left>>

\* The collection changes meanwhile.
ChangeStore ==
  /\ Next
  /\ UNCHANGED <<view, page, items, got, began>>
  /\ left' = (left \/ ~ (List \subseteq List'))

NextViews == (\E v \in {"all", "active"} : BeginReading(v)) \/ ReadPage \/ ChangeStore

SpecViews == InitViews /\ [][NextViews]_allVars

-----------------------------------------------------------------------------
InPeriod(e, now) == ~ (now < e.start \/ now > e.end)

\* validateCondition: the strategies of the types of events.  LOGIN's fails every user,
\* and a type without a strategy of its own has one that fails too.
ConditionMet(type) == type = "FRIEND_INVITATION"

\* Mutant of Eligible: the list does not look at the condition.
EligibleByDates(e, now) == e.status = "ACTIVE" /\ InPeriod(e, now)

\* checkEligibility.  Its rule about an existing request never applies: the controller
\* asks with an undefined user id.
Eligible(e, now) == e.status = "ACTIVE" /\ InPeriod(e, now) /\ ConditionMet(e.type)

\* createEventRewardRequest: what a request for event i must pass at time now.
Admitted(i, now) ==
  /\ Live(i)
  /\ store[i].status = "ACTIVE"
  /\ store[i].start <= now /\ now <= store[i].end

\* The status stored for it, if its user has none for this event yet.
Verdict(i, now) ==
  IF ~ Admitted(i, now) THEN "refused"
  ELSE IF ConditionMet(store[i].type) THEN "APPROVED" ELSE "FAILED"

-----------------------------------------------------------------------------
(* Properties.                                                             *)

\* No other event of the list being read bears event i's time of creation.
OnlyOneThen(i) ==
  \A j \in List \ {i} : store[j].createdAt # store[i].createdAt

\* Who reads a list page by page sees every event that was in it all the time,
\* whatever is created or restored meanwhile: new events only shift others to
\* later pages.  Excepted are events that share their time of creation, to the
\* millisecond, with another of the list: those two may come in another order for
\* every page.  (An event that leaves the list shifts others to pages already read.)
ReaderMissesNothing ==
  page = 0 /\ ~ left => \A i \in began : OnlyOneThen(i) => i \in got

\* The list and the processing of requests agree: as long as an event that was shown
\* has the version it was shown with, it is eligible at a time just when a request of
\* a user without one is approved at that time, neither refused nor stored as failed.
EligibleIsApproved ==
  \A t \in items, now \in Times :
    Stored(t.id) /\ store[t.id].version = t.event.version =>
      (Eligible(t.event, now) <=> Verdict(t.id, now) = "APPROVED")
=============================================================================
