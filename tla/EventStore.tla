----------------------------- MODULE EventStore -----------------------------
(***************************************************************************)
(* The events collection of game-event-server as EventService keeps it, and*)
(* the two calls that read it before they write: EventController.update,   *)
(* with its optimistic lock, and RewardService.create, which checks the    *)
(* event of a new reward.  One action is the code between two awaits.      *)
(***************************************************************************)
EXTENDS Integers

CONSTANTS
  Times,         \* start and end dates
  Types,         \* types of events
  Moments,       \* times of creation, as the process that creates an event stamps it
  Drafts,        \* events as they are created
  Keep,          \* a field the body of an update leaves out
  NoEvent,       \* findOne finds no document
  Calls,         \* update and reward calls; each is served once
  Targets,       \* ids that calls name
  Changes,       \* the fields that bodies of updates give
  Versions,      \* versions that updates name
  Carries,       \* whether the body that is written also holds the version: the
                 \* controller's always does (UpdateEventDto), FALSE is the lock of
                 \* EventService.update itself, which takes the version apart
  FailingCalls,  \* calls whose MongoDB calls may fail
  NoCall,        \* a call that has not arrived
  MaxEvents,     \* bound on the events that are created
  MaxVersion     \* bound on the version up to which events are removed or restored

Status == {"ACTIVE", "INACTIVE"}
Change == [start : Times \cup {Keep}, end : Times \cup {Keep},
           status : Status \cup {Keep}, type : Types \cup {Keep}]

ASSUME TimesAssumption ==
  /\ Times \subseteq Int /\ Moments \subseteq Int
  /\ Keep \notin Times /\ Keep \notin Status /\ Keep \notin Types
ASSUME ChangesAssumption ==
  Changes \subseteq Change /\ Versions \subseteq Nat /\ Carries \subseteq BOOLEAN
ASSUME EventBounds == MaxEvents \in Nat /\ MaxVersion \in Nat

\* Ids in the order in which events are stored; none is given out twice.
Ids == 1 .. MaxEvents

Event == [start : Times, end : Times, status : Status, type : Types,
          createdAt : Moments, version : Nat, deleted : BOOLEAN]

\* What an event is like when it is created: version 0, not deleted.
Draft == [start : Times, end : Times, status : Status, type : Types,
          createdAt : Moments, version : {0}, deleted : {FALSE}]

ASSUME DraftsAssumption == Drafts \subseteq Draft

UpdateCall == [op : {"update"}, id : Targets, version : Versions, change : Changes,
               carries : Carries]
RewardCall == [op : {"reward"}, id : Targets]

ASSUME TargetsAssumption == Targets \subseteq Ids
ASSUME NoneAssumption == NoEvent \notin Event /\ NoCall \notin UpdateCall \cup RewardCall

VARIABLES
  store,    \* the events collection: store[i] is the event with id i, or NoEvent
  created,  \* how many events were ever created
  rewards,  \* the rewards collection: [by, event]
  pc,       \* phase of each call, or the outcome of one that has ended
  call,     \* what each call asks for
  event,    \* the document each call read last, or was given
  before    \* the event a call names, as it was when the call arrived (history)

vars == <<store, created, rewards, pc, call, event, before>>

Phases == {"idle", "find", "write", "latest", "check", "save"}
Outcomes == {"ok", "badRequest", "notFound", "conflict", "error"}

TypeOK ==
  /\ store \in [Ids -> Event \cup {NoEvent}]
  /\ created \in 0 .. MaxEvents
  /\ rewards \in SUBSET [by : Calls, event : Ids]
  /\ pc \in [Calls -> Phases \cup Outcomes]
  /\ call \in [Calls -> UpdateCall \cup RewardCall \cup {NoCall}]
  /\ event \in [Calls -> Event \cup {NoEvent}]
  /\ before \in [Calls -> Event \cup {NoEvent}]

Init ==
  /\ store = [i \in Ids |-> NoEvent]
  /\ created = 0
  /\ rewards = {}
  /\ pc = [k \in Calls |-> "idle"]
  /\ call = [k \in Calls |-> NoCall]
  /\ event = [k \in Calls |-> NoEvent]
  /\ before = [k \in Calls |-> NoEvent]

callVars == <<pc, call, event, before>>

Goto(k, from, to) == pc[k] = from /\ pc' = [pc EXCEPT ![k] = to]

Stored(i) == store[i] # NoEvent
Live(i) == Stored(i) /\ ~ store[i].deleted

Put(i, e) == store' = [store EXCEPT ![i] = e]

-----------------------------------------------------------------------------
(* Calls of one database call each.                                        *)

\* create: end dates not after the start are refused.  The time of creation is the
\* process's own, taken before the document is sent: events may be stored in another
\* order, and several may bear one time.
Create(e) ==
  /\ created < MaxEvents
  /\ e.start < e.end
  /\ created' = created + 1
  /\ Put(created + 1, e)
  /\ UNCHANGED <<rewards, callVars>>

\* Mutant of Deleted: the version is not increased.
DeletedKeepingVersion(e, b) == [e EXCEPT !.deleted = b]

\* deletedAt set or cleared, the version increased.
Deleted(e, b) == [e EXCEPT !.deleted = b, !.version = @ + 1]

\* remove: soft deletion, of events not deleted.
Remove(i) ==
  /\ Live(i) /\ store[i].version < MaxVersion
  /\ Put(i, Deleted(store[i], TRUE))
  /\ UNCHANGED <<created, rewards, callVars>>

\* restore: of deleted events only.
Restore(i) ==
  /\ Stored(i) /\ store[i].deleted /\ store[i].version < MaxVersion
  /\ Put(i, Deleted(store[i], FALSE))
  /\ UNCHANGED <<created, rewards, callVars>>

\* permanentlyRemove: deleted or not.
Purge(i) ==
  /\ Stored(i)
  /\ Put(i, NoEvent)
  /\ UNCHANGED <<created, rewards, callVars>>

-----------------------------------------------------------------------------
(* EventController.update and EventService.update.                         *)

\* A call arrives.  It names an id that was given out; the event may be gone.
Arrive(k, c) ==
  /\ c.id <= created
  /\ Goto(k, "idle", IF c.op = "update" THEN "find" ELSE "check")
  /\ call' = [call EXCEPT ![k] = c]
  /\ before' = [before EXCEPT ![k] = store[c.id]]
  /\ UNCHANGED <<store, created, rewards, event>>

\* Mutant of Finds: deleted events are found too.
FindsDeleted(i) == Stored(i)

\* findOne without includeDeleted.
Finds(i) == Live(i)

\* What findOne gives call k, which goes on to one phase or the other.
FindOne(k, from, found, missing) ==
  LET i == call[k].id IN
  /\ Goto(k, from, IF Finds(i) THEN found ELSE missing)
  /\ event' = [event EXCEPT ![k] = IF Finds(i) THEN store[i] ELSE NoEvent]
  /\ UNCHANGED <<store, created, rewards, call, before>>

New(value, old) == IF value = Keep THEN old ELSE value

\* The dates an update will write: those of its body, or else those it read.
StartDate(e, c) == New(c.start, e.start)
EndDate(e, c) == New(c.end, e.end)

\* Mutant of DatesOk: dates are compared only when the body gives both.
DatesOkIfBoth(e, c) == c.start = Keep \/ c.end = Keep \/ c.start < c.end

DatesOk(e, c) == StartDate(e, c) < EndDate(e, c)

\* update, up to the write: the event is found, the dates and then the version
\* are compared.  A conflict makes the controller look the event up again.
AfterRead(k, e) ==
  IF ~ DatesOk(e, call[k].change) THEN "badRequest"
  ELSE IF e.version # call[k].version THEN "latest" ELSE "write"

FindForUpdate(k) == FindOne(k, "find", AfterRead(k, store[call[k].id]), "notFound")

\* Mutant of Matches: the version is not part of the filter.
MatchesAnyVersion(k) == Live(call[k].id)

\* The filter of findOneAndUpdate: id, version, not deleted.
Matches(k) == Live(call[k].id) /\ store[call[k].id].version = call[k].version

\* Mutant of Written: the dates are written as the body gives them.
WrittenFromBody(k) ==
  LET c == call[k].change IN
  [store[call[k].id] EXCEPT !.start = c.start, !.end = c.end,
                            !.status = New(c.status, @), !.type = New(c.type, @),
                            !.version = @ + 1]

\* The update document: both dates as computed from the document read, the other
\* fields of the body, and the version increased.
Written(k) ==
  LET c == call[k].change IN
  [store[call[k].id] EXCEPT !.start = StartDate(event[k], c),
                            !.end = EndDate(event[k], c),
                            !.status = New(c.status, @),
                            !.type = New(c.type, @),
                            !.version = @ + 1]

\* $set and $inc of one path: MongoDB refuses the update document.
SetsVersion(k) == call[k].carries

Write(k) ==
  /\ pc[k] = "write"
  /\ \/ /\ SetsVersion(k)
        /\ Goto(k, "write", "error")
        /\ UNCHANGED <<store, event>>
     \/ /\ ~ SetsVersion(k) /\ ~ Matches(k)
        /\ Goto(k, "write", "latest")
        /\ UNCHANGED <<store, event>>
     \/ /\ ~ SetsVersion(k) /\ Matches(k)
        /\ Goto(k, "write", "ok")
        /\ Put(call[k].id, Written(k))
        /\ event' = [event EXCEPT ![k] = Written(k)]
  /\ UNCHANGED <<created, rewards, call, before>>

\* Mutant of FindLatest: the conflict carries the document read first.
ShowFirstRead(k) ==
  /\ Goto(k, "latest", "conflict")
  /\ UNCHANGED <<store, created, rewards, call, event, before>>

\* The controller puts the event as it is now into the conflict it throws.
FindLatest(k) == FindOne(k, "latest", "conflict", "notFound")

-----------------------------------------------------------------------------
(* RewardService.create.                                                   *)

\* Any failure of the look-up counts as an invalid event id.
CheckEvent(k) == FindOne(k, "check", "save", "badRequest")

AddReward(k) == rewards' = rewards \cup {[by |-> k, event |-> call[k].id]}

SaveReward(k) ==
  /\ Goto(k, "save", "ok")
  /\ AddReward(k)
  /\ UNCHANGED <<store, created, call, event, before>>

-----------------------------------------------------------------------------
\* A database call fails before it takes effect.
Fail(k) ==
  /\ k \in FailingCalls
  /\ \/ \E from \in {"find", "write", "latest", "save"} : Goto(k, from, "error")
     \/ Goto(k, "check", "badRequest")
  /\ UNCHANGED <<store, created, rewards, call, event, before>>

\* A write takes effect and its reply is lost.
ReplyLost(k) ==
  /\ k \in FailingCalls
  /\ \/ /\ Goto(k, "write", "error")
        /\ ~ SetsVersion(k) /\ Matches(k)
        /\ Put(call[k].id, Written(k))
        /\ UNCHANGED rewards
     \/ /\ Goto(k, "save", "error")
        /\ AddReward(k)
        /\ UNCHANGED store
  /\ UNCHANGED <<created, call, event, before>>

Serve(k) ==
  \/ FindForUpdate(k) \/ Write(k) \/ FindLatest(k)
  \/ CheckEvent(k) \/ SaveReward(k)
  \/ Fail(k) \/ ReplyLost(k)

Next ==
  \/ \E e \in Drafts : Create(e)
  \/ \E i \in Ids : Remove(i) \/ Restore(i) \/ Purge(i)
  \/ \E k \in Calls : (\E c \in UpdateCall \cup RewardCall : Arrive(k, c)) \/ Serve(k)

Spec == Init /\ [][Next]_vars

-----------------------------------------------------------------------------
(* Properties.                                                             *)

\* An event always ends after it starts, although the two dates of an update may
\* come from different places: its body and a document read earlier.
DatesAreOrdered == \A i \in Ids : Stored(i) => store[i].start < store[i].end

\* A version stands for one state of its event: what a call read or was given is
\* what is stored, as long as the version is the same.
VersionIdentifiesContent ==
  \A k \in Calls :
    LET e == event[k] IN
    call[k] # NoCall /\ e # NoEvent /\ Stored(call[k].id)
      /\ store[call[k].id].version = e.version => store[call[k].id] = e

\* The event a conflict hands out is newer than the one the client had: otherwise
\* the advice to read again and retry (event.service.ts:172) leads nowhere.
ConflictShowsNewer ==
  \A k \in Calls :
    /\ pc[k] = "conflict"
    /\ before[k] # NoEvent /\ call[k].version <= before[k].version
    => event[k].version > call[k].version

\* An event that was deleted when a reward was asked for gets that reward only if
\* it was restored since, and an event purged before never does.
RewardsFollowRemovals ==
  \A r \in rewards :
    LET b == before[r.by] IN
    /\ b # NoEvent
    /\ b.deleted /\ Stored(r.event) => store[r.event].version > b.version

\* An update that names the current version is accepted (event.service.ts:169),
\* when its dates are in order and no database call fails.
CurrentVersionIsAccepted ==
  \A k \in Calls \ FailingCalls :
    pc[k] = "error" => call[k].version # before[k].version \/ store[call[k].id] # before[k]

\* The updates asked for so far.
Asked ==
  {[id |-> call[k].id, version |-> call[k].version, change |-> call[k].change] :
     k \in {j \in Calls : call[j] # NoCall /\ call[j].op = "update"}}

Register == INSTANCE EventRegister WITH asked <- Asked

\* Every update that gets through changes the very version its caller named, and
\* nothing but what it asks for, however calls overlap and fail.
ImplementsRegister == Register!Spec
=============================================================================
