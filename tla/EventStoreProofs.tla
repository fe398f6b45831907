-------------------------- MODULE EventStoreProofs --------------------------
(***************************************************************************)
(* Proofs about EventStore, for every number of events and calls, every    *)
(* set of dates, changes and versions, and every set of failing calls.     *)
(***************************************************************************)
EXTENDS EventStore, TLAPS

USE TimesAssumption, ChangesAssumption, DraftsAssumption, EventBounds,
    TargetsAssumption, NoneAssumption

-----------------------------------------------------------------------------
(* The inductive invariant.                                                *)

\* Only ids given out hold events, and an event ends after it starts.
StoreInv ==
  \A i \in Ids : Stored(i) => i <= created /\ store[i].start < store[i].end

\* Document e was event i at some time: since then the event is gone, has a higher
\* version, or is the same.
Follows(i, e) ==
  e # NoEvent /\ Stored(i) =>
    e.version <= store[i].version /\ (e.version = store[i].version => store[i] = e)

\* The same between the document a call found on arrival and what it read later.
ReadFollows(k) ==
  event[k] # NoEvent =>
    /\ before[k] # NoEvent
    /\ before[k].version <= event[k].version
    /\ before[k].version = event[k].version => before[k] = event[k]

\* What call k knows of its event.
Tracks(k) ==
  /\ call[k] # NoCall
  /\ call[k].id <= created
  /\ Follows(call[k].id, event[k])
  /\ Follows(call[k].id, before[k])
  /\ before[k] = NoEvent => ~ Stored(call[k].id)
  /\ ReadFollows(k)

\* The version an update names is one that its event has had.
Named(k) == before[k] # NoEvent /\ call[k].version <= before[k].version

PhaseInv(k) ==
  /\ pc[k] \in {"find", "write", "latest", "conflict"} => call[k] \in UpdateCall
  /\ pc[k] \in {"check", "save"} => call[k] \in RewardCall
  /\ pc[k] \in {"write", "save", "conflict"} => event[k] # NoEvent
  /\ pc[k] \in {"write", "save"} => ~ event[k].deleted
  /\ pc[k] = "write" =>
       event[k].version = call[k].version /\ DatesOk(event[k], call[k].change)
  /\ pc[k] = "latest" /\ Named(k) /\ Stored(call[k].id) =>
       store[call[k].id].version > call[k].version
  /\ pc[k] = "conflict" /\ Named(k) => event[k].version > call[k].version

CallInv(k) ==
  /\ pc[k] = "idle" => event[k] = NoEvent /\ before[k] = NoEvent /\ call[k] = NoCall
  /\ pc[k] # "idle" => Tracks(k)
  /\ PhaseInv(k)

RewardInv ==
  \A r \in rewards :
    /\ pc[r.by] # "idle" /\ call[r.by].id = r.event
    /\ before[r.by] # NoEvent
    /\ before[r.by].deleted /\ Stored(r.event) =>
         store[r.event].version > before[r.by].version

Inv == TypeOK /\ StoreInv /\ (\A k \in Calls : CallInv(k)) /\ RewardInv

LEMMA InitInv == Init => Inv
<1> SUFFICES ASSUME Init PROVE Inv
  OBVIOUS
<1>1. TypeOK
  BY DEF Init, TypeOK, Phases
<1>2. StoreInv /\ RewardInv
  BY DEF Init, StoreInv, RewardInv, Stored
<1>3. \A k \in Calls : CallInv(k)
  BY DEF Init, CallInv, PhaseInv
<1> QED BY <1>1, <1>2, <1>3 DEF Inv

-----------------------------------------------------------------------------
(* Documents.                                                              *)

\* An update writes an event with a higher version and dates in order.
LEMMA WrittenEvent ==
  ASSUME NEW k \in Calls, Inv, pc[k] = "write", Matches(k)
  PROVE  /\ Written(k) \in Event
         /\ call[k].id \in Ids /\ call[k].id <= created
         /\ store[call[k].id] = event[k]
         /\ Written(k).version = store[call[k].id].version + 1
         /\ ~ Written(k).deleted
         /\ Written(k).start < Written(k).end
         /\ Written(k).start = StartDate(event[k], call[k].change)
         /\ Written(k).end = EndDate(event[k], call[k].change)
         /\ Written(k).status = New(call[k].change.status, event[k].status)
         /\ Written(k).type = New(call[k].change.type, event[k].type)
         /\ Written(k).createdAt = event[k].createdAt
<1> DEFINE i == call[k].id
           c == call[k].change
<1>1. call[k] \in UpdateCall /\ i \in Ids /\ c \in Change
  BY DEF Inv, CallInv, PhaseInv, UpdateCall
<1>2. event[k] \in Event /\ store[i] \in Event /\ ~ store[i].deleted
  BY <1>1 DEF Inv, TypeOK, CallInv, PhaseInv, Matches, Live, Stored
<1>3. store[i] = event[k] /\ i <= created
  BY <1>1, <1>2 DEF Inv, CallInv, PhaseInv, Tracks, Follows, Matches, Live
<1>4. /\ StartDate(event[k], c) \in Times /\ EndDate(event[k], c) \in Times
      /\ New(c.status, store[i].status) \in Status
      /\ New(c.type, store[i].type) \in Types
  BY <1>1, <1>2 DEF StartDate, EndDate, New, Change, Event
<1>5. StartDate(event[k], c) < EndDate(event[k], c)
  BY DEF Inv, CallInv, PhaseInv, DatesOk
<1>6. /\ Written(k) \in Event
      /\ Written(k).start = StartDate(event[k], c)
      /\ Written(k).end = EndDate(event[k], c)
      /\ Written(k).status = New(c.status, store[i].status)
      /\ Written(k).type = New(c.type, store[i].type)
      /\ Written(k).createdAt = store[i].createdAt
      /\ Written(k).version = store[i].version + 1
      /\ Written(k).deleted = store[i].deleted
  <2>1. store[i].version + 1 \in Nat
    BY <1>2 DEF Event
  <2> DEFINE s == StartDate(event[k], c)
             t == EndDate(event[k], c)
             u == New(c.status, store[i].status)
             x == New(c.type, store[i].type)
             v == store[i].version + 1
             w == [store[i] EXCEPT !.start = s, !.end = t, !.status = u, !.type = x,
                                   !.version = v]
  <2>2. Written(k) = w
    BY DEF Written
  <2>3. s \in Times /\ t \in Times /\ u \in Status /\ x \in Types /\ v \in Nat
    BY <1>4, <2>1
  <2> HIDE DEF s, t, u, x, v
  <2>4. w \in Event /\ w.start = s /\ w.end = t /\ w.status = u /\ w.type = x
        /\ w.createdAt = store[i].createdAt /\ w.version = v
        /\ w.deleted = store[i].deleted
    BY <1>2, <2>3 DEF Event
  <2> HIDE DEF w
  <2> QED BY <2>2, <2>4 DEF s, t, u, x, v
<1> HIDE DEF i, c
<1> QED BY <1>1, <1>2, <1>3, <1>5, <1>6 DEF i, c

LEMMA DeletedEvent ==
  ASSUME NEW e \in Event, NEW b \in BOOLEAN
  PROVE  /\ Deleted(e, b) \in Event
         /\ Deleted(e, b).version = e.version + 1
         /\ Deleted(e, b).start = e.start /\ Deleted(e, b).end = e.end
         /\ Deleted(e, b).createdAt = e.createdAt
<1> DEFINE v == e.version + 1
           w == [e EXCEPT !.deleted = b, !.version = v]
<1>1. v \in Nat
  BY DEF Event
<1>2. Deleted(e, b) = w
  BY DEF Deleted
<1> HIDE DEF v
<1>3. w \in Event /\ w.start = e.start /\ w.end = e.end /\ w.createdAt = e.createdAt
      /\ w.version = v
  BY <1>1 DEF Event
<1> HIDE DEF w
<1> QED BY <1>2, <1>3 DEF v

\* How a step may change the collection.
StoreSteps ==
  \/ UNCHANGED <<store, created>>
  \/ \E e \in Drafts : Create(e)
  \/ \E i \in Ids : Remove(i) \/ Restore(i) \/ Purge(i)
  \/ \E k \in Calls : /\ pc[k] = "write" /\ Matches(k)
                      /\ Put(call[k].id, Written(k))
                      /\ created' = created

LEMMA StoreStep == [Next]_vars => StoreSteps
<1> SUFFICES ASSUME [Next]_vars PROVE StoreSteps
  OBVIOUS
<1>1. ASSUME NEW k \in Calls, NEW c \in UpdateCall \cup RewardCall, Arrive(k, c)
      PROVE  StoreSteps
  BY <1>1 DEF Arrive, StoreSteps
<1>2. ASSUME NEW k \in Calls, Serve(k) PROVE StoreSteps
  BY <1>2 DEF Serve, FindForUpdate, FindLatest, CheckEvent, FindOne, Write, SaveReward,
              Fail, ReplyLost, Goto, StoreSteps
<1>3. CASE UNCHANGED vars
  BY <1>3 DEF vars, StoreSteps
<1> QED BY <1>1, <1>2, <1>3 DEF Next, StoreSteps

\* Events that were given out are never replaced by others: they go for good, stay as
\* they are or get a higher version.
Grows ==
  /\ created <= created'
  /\ \A i \in Ids :
       i <= created /\ store'[i] # NoEvent =>
         /\ store[i] # NoEvent
         /\ store'[i] = store[i] \/ store'[i].version > store[i].version
         /\ store'[i].createdAt = store[i].createdAt

LEMMA StoreGrows ==
  ASSUME Inv, StoreSteps
  PROVE  /\ store' \in [Ids -> Event \cup {NoEvent}]
         /\ created' \in 0 .. MaxEvents
         /\ StoreInv'
         /\ Grows
<1>1. store \in [Ids -> Event \cup {NoEvent}] /\ created \in 0 .. MaxEvents /\ StoreInv
  BY DEF Inv, TypeOK
<1>2. CASE UNCHANGED <<store, created>>
  BY <1>1, <1>2 DEF StoreInv, Grows, Stored
<1>3. ASSUME NEW e \in Drafts, Create(e)
      PROVE  /\ store' \in [Ids -> Event \cup {NoEvent}]
             /\ created' \in 0 .. MaxEvents
             /\ StoreInv'
             /\ Grows
  <2>1. e \in Event /\ e.start < e.end
    <3>1. {0} \subseteq Nat /\ {FALSE} \subseteq BOOLEAN
      OBVIOUS
    <3>2. Draft \subseteq Event
      BY <3>1, Zenon DEF Draft, Event
    <3> QED BY <1>3, <3>2 DEF Create
  <2>2. created' = created + 1 /\ created' \in Ids
        /\ store' = [store EXCEPT ![created + 1] = e]
    BY <1>1, <1>3 DEF Create, Put, Ids
  <2> QED BY <1>1, <2>1, <2>2 DEF StoreInv, Grows, Stored, Ids
<1>4. ASSUME NEW i \in Ids, Stored(i), NEW e \in Event \cup {NoEvent},
             Put(i, e), created' = created,
             e # NoEvent => e.version = store[i].version + 1 /\ e.start < e.end
                            /\ e.createdAt = store[i].createdAt
      PROVE  /\ store' \in [Ids -> Event \cup {NoEvent}]
             /\ created' \in 0 .. MaxEvents
             /\ StoreInv'
             /\ Grows
  <2>1. store' = [store EXCEPT ![i] = e] /\ store[i] \in Event /\ i <= created
    BY <1>1, <1>4 DEF Put, Stored, StoreInv
  <2>2. store[i].version \in Nat
    BY <2>1 DEF Event
  <2> QED BY <1>1, <1>4, <2>1, <2>2 DEF StoreInv, Grows, Stored
<1>5. ASSUME NEW i \in Ids, Remove(i) \/ Restore(i)
      PROVE  /\ store' \in [Ids -> Event \cup {NoEvent}]
             /\ created' \in 0 .. MaxEvents
             /\ StoreInv'
             /\ Grows
  <2>1. Stored(i) /\ store[i] \in Event /\ created' = created
    BY <1>1, <1>5 DEF Remove, Restore, Live, Stored
  <2>2. Put(i, Deleted(store[i], TRUE)) \/ Put(i, Deleted(store[i], FALSE))
    BY <1>5 DEF Remove, Restore
  <2>3. store[i].start < store[i].end
    BY <1>1, <2>1 DEF StoreInv
  <2> QED BY <1>4, <2>1, <2>2, <2>3, DeletedEvent
<1>6. ASSUME NEW i \in Ids, Purge(i)
      PROVE  /\ store' \in [Ids -> Event \cup {NoEvent}]
             /\ created' \in 0 .. MaxEvents
             /\ StoreInv'
             /\ Grows
  BY <1>4, <1>6 DEF Purge
<1>7. ASSUME NEW k \in Calls, pc[k] = "write", Matches(k),
             Put(call[k].id, Written(k)), created' = created
      PROVE  /\ store' \in [Ids -> Event \cup {NoEvent}]
             /\ created' \in 0 .. MaxEvents
             /\ StoreInv'
             /\ Grows
  BY <1>4, <1>7, WrittenEvent DEF Matches, Live
<1> QED BY <1>2, <1>3, <1>5, <1>6, <1>7 DEF StoreSteps

-----------------------------------------------------------------------------
(* Calls and rewards, step by step.                                        *)

\* The ids and the versions of calls and of the documents they hold.
LEMMA CallTypes ==
  ASSUME Inv, NEW k \in Calls, pc[k] # "idle"
  PROVE  /\ call[k] \in UpdateCall \cup RewardCall
         /\ call[k].id \in Ids /\ call[k].id <= created
         /\ call[k] \in UpdateCall => call[k].version \in Nat
         /\ event[k] # NoEvent => event[k] \in Event /\ event[k].version \in Nat
         /\ before[k] # NoEvent => before[k] \in Event /\ before[k].version \in Nat
<1>1. call[k] \in UpdateCall \cup RewardCall /\ call[k].id <= created
  BY DEF Inv, TypeOK, CallInv, Tracks
<1> QED BY <1>1 DEF Inv, TypeOK, UpdateCall, RewardCall, Event

\* The versions of stored events are numbers.
LEMMA StoredTypes ==
  ASSUME Inv, NEW i \in Ids, Stored(i)
  PROVE  store[i] \in Event /\ store[i].version \in Nat
BY DEF Inv, TypeOK, Stored, Event

\* What a document says of its event stays true as the collection grows.
LEMMA FollowsOn ==
  ASSUME Inv, StoreSteps, NEW i \in Ids, i <= created,
         NEW e \in Event \cup {NoEvent}, Follows(i, e)
  PROVE  (e # NoEvent /\ Stored(i)' =>
            e.version <= store'[i].version
            /\ (e.version = store'[i].version => store'[i] = e))
<1> SUFFICES ASSUME e # NoEvent, store'[i] # NoEvent
             PROVE  /\ e.version <= store'[i].version
                    /\ e.version = store'[i].version => store'[i] = e
  BY DEF Stored
<1>1. /\ store[i] # NoEvent
      /\ store'[i] = store[i] \/ store'[i].version > store[i].version
      /\ store'[i] \in Event
  BY StoreGrows DEF Grows
<1>2. store[i].version \in Nat /\ store'[i].version \in Nat /\ e.version \in Nat
  BY <1>1, StoredTypes DEF Stored, Event
<1> QED BY <1>1, <1>2 DEF Follows, Stored

\* What holds of a call that has arrived goes on to hold when the step changes
\* neither the call nor its documents, whatever happens to the collection.
LEMMA TracksOn ==
  ASSUME Inv, StoreSteps, NEW k \in Calls, pc[k] # "idle",
         call'[k] = call[k], event'[k] = event[k], before'[k] = before[k]
  PROVE  Tracks(k)'
<1> DEFINE i == call[k].id
<1>1. i \in Ids /\ i <= created /\ Tracks(k)
  BY CallTypes DEF Inv, CallInv
<1>2. event[k] \in Event \cup {NoEvent} /\ before[k] \in Event \cup {NoEvent}
  BY DEF Inv, TypeOK
<1>3. Follows(i, event[k])' /\ Follows(i, before[k])'
  BY <1>1, <1>2, FollowsOn DEF Follows, Tracks
<1>4. created <= created' /\ (store'[i] # NoEvent => store[i] # NoEvent)
      /\ created \in Nat /\ created' \in Nat
  BY <1>1, StoreGrows DEF Grows, Inv, TypeOK
<1>5. i <= created'
  BY <1>1, <1>4 DEF Ids
<1> HIDE DEF i
<1>6. (before[k] = NoEvent => ~ Stored(i))' /\ ReadFollows(k)'
  BY <1>1, <1>4 DEF Tracks, ReadFollows, Stored, i
<1> QED BY <1>1, <1>3, <1>5, <1>6 DEF Tracks, i

LEMMA Undisturbed ==
  ASSUME Inv, StoreSteps, NEW k \in Calls,
         pc'[k] = pc[k], call'[k] = call[k], event'[k] = event[k],
         before'[k] = before[k]
  PROVE  CallInv(k)'
<1>1. CASE pc[k] = "idle"
  BY <1>1 DEF CallInv, PhaseInv, Inv
<1>2. CASE pc[k] # "idle"
  <2>1. Tracks(k)'
    BY <1>2, TracksOn
  <2>2. PhaseInv(k)
    BY DEF Inv, CallInv
  <2>3. ASSUME pc[k] = "latest", Named(k), Stored(call[k].id)'
        PROVE  store'[call[k].id].version > call[k].version
    <3>1. call[k].id \in Ids /\ call[k].id <= created /\ call[k].version \in Nat
      BY <2>2, <2>3, CallTypes DEF PhaseInv
    <3>2. /\ store[call[k].id] # NoEvent
          /\ \/ store'[call[k].id] = store[call[k].id]
             \/ store'[call[k].id].version > store[call[k].id].version
          /\ store'[call[k].id] \in Event
      BY <2>3, <3>1, StoreGrows DEF Grows, Stored
    <3>3. store[call[k].id].version \in Nat /\ store'[call[k].id].version \in Nat
      BY <3>1, <3>2, StoredTypes DEF Stored, Event
    <3> QED BY <2>2, <2>3, <3>1, <3>2, <3>3 DEF PhaseInv, Stored
  <2>4. PhaseInv(k)'
    BY <2>2, <2>3 DEF PhaseInv, Named
  <2> QED BY <1>2, <2>1, <2>4 DEF CallInv
<1> QED BY <1>1, <1>2

\* A call that ends with an error or a refusal keeps what it knows.
LEMMA Ended ==
  ASSUME Inv, StoreSteps, NEW k \in Calls, pc[k] # "idle",
         pc'[k] \in {"ok", "badRequest", "notFound", "error"},
         call'[k] = call[k], event'[k] = event[k], before'[k] = before[k]
  PROVE  CallInv(k)'
BY TracksOn DEF CallInv, PhaseInv

\* Types of what is kept of calls.
CallsTyped ==
  /\ pc \in [Calls -> Phases \cup Outcomes]
  /\ call \in [Calls -> UpdateCall \cup RewardCall \cup {NoCall}]
  /\ event \in [Calls -> Event \cup {NoEvent}]
  /\ before \in [Calls -> Event \cup {NoEvent}]

\* A step of call k leaves the other calls alone.
OnlyCall(k) ==
  \A j \in Calls \ {k} : /\ pc'[j] = pc[j] /\ call'[j] = call[j]
                         /\ event'[j] = event[j] /\ before'[j] = before[j]

LEMMA ArriveStep ==
  ASSUME Inv, NEW k \in Calls, NEW c \in UpdateCall \cup RewardCall, Arrive(k, c)
  PROVE  CallsTyped' /\ OnlyCall(k) /\ CallInv(k)'
<1>1. /\ c.id \in Ids /\ c # NoCall /\ c.id <= created
      /\ c.op = "update" => c \in UpdateCall
      /\ c.op # "update" => c \in RewardCall
  BY DEF Arrive, UpdateCall, RewardCall
<1>2. CallsTyped /\ store[c.id] \in Event \cup {NoEvent}
  BY <1>1 DEF Inv, TypeOK, CallsTyped
<1>3. /\ pc[k] = "idle" /\ event[k] = NoEvent
      /\ pc' = [pc EXCEPT ![k] = IF c.op = "update" THEN "find" ELSE "check"]
      /\ call' = [call EXCEPT ![k] = c]
      /\ before' = [before EXCEPT ![k] = store[c.id]]
      /\ event' = event /\ store' = store /\ created' = created
  BY DEF Arrive, Goto, Inv, CallInv
<1>4. CallsTyped' /\ OnlyCall(k)
  BY <1>2, <1>3 DEF CallsTyped, OnlyCall, Phases
<1>5. /\ pc'[k] \in {"find", "check"} /\ call'[k] = c /\ before'[k] = store[c.id]
      /\ event'[k] = NoEvent
      /\ pc'[k] = "find" => c \in UpdateCall
      /\ pc'[k] = "check" => c \in RewardCall
  BY <1>1, <1>2, <1>3 DEF CallsTyped
<1>6. Follows(c.id, store[c.id])
  BY <1>1, StoredTypes DEF Follows, Stored
<1>7. Tracks(k)'
  BY <1>1, <1>3, <1>5, <1>6 DEF Tracks, Follows, ReadFollows, Stored
<1> QED BY <1>4, <1>5, <1>7 DEF CallInv, PhaseInv

\* A call that looks its event up knows of it what it finds.
LEMMA FindOneStep ==
  ASSUME Inv, NEW k \in Calls, NEW from \in Phases \ {"idle"},
         NEW found \in Phases \cup Outcomes, NEW missing \in Phases \cup Outcomes,
         FindOne(k, from, found, missing)
  PROVE  /\ CallsTyped' /\ OnlyCall(k) /\ StoreSteps /\ Tracks(k)'
         /\ call' = call /\ before' = before /\ store' = store
         /\ \/ /\ pc'[k] = found
               /\ Live(call[k].id) /\ event'[k] = store[call[k].id]
            \/ pc'[k] = missing /\ event'[k] = NoEvent
<1> DEFINE i == call[k].id
<1>1. pc[k] = from /\ pc[k] # "idle"
  BY DEF FindOne, Goto, Phases
<1>2. i \in Ids /\ i <= created /\ Tracks(k) /\ CallsTyped
  BY <1>1, CallTypes DEF Inv, CallInv, TypeOK, CallsTyped
<1>3. store[i] \in Event \cup {NoEvent}
  BY <1>2 DEF Inv, TypeOK
<1>4. /\ pc' = [pc EXCEPT ![k] = IF Live(i) THEN found ELSE missing]
      /\ event' = [event EXCEPT ![k] = IF Live(i) THEN store[i] ELSE NoEvent]
      /\ UNCHANGED <<store, created, rewards, call, before>>
  BY DEF FindOne, Goto, Finds
<1> HIDE DEF i
<1>5. CallsTyped' /\ OnlyCall(k)
  BY <1>2, <1>3, <1>4 DEF CallsTyped, OnlyCall
<1>6. \/ pc'[k] = found /\ Live(i) /\ event'[k] = store[i]
      \/ pc'[k] = missing /\ event'[k] = NoEvent
  BY <1>2, <1>4 DEF CallsTyped
<1>7. Follows(i, event'[k])
  <2>1. CASE event'[k] = NoEvent
    BY <2>1 DEF Follows
  <2>2. CASE event'[k] # NoEvent
    <3>1. event'[k] = store[i] /\ Stored(i)
      BY <1>6, <2>2 DEF Live
    <3> QED BY <1>2, <3>1, StoredTypes DEF Follows
  <2> QED BY <2>1, <2>2
<1>8. ReadFollows(k)'
  <2> SUFFICES ASSUME event'[k] # NoEvent
               PROVE  /\ before[k] # NoEvent
                      /\ before[k].version <= event'[k].version
                      /\ before[k].version = event'[k].version => before[k] = event'[k]
    BY <1>4 DEF ReadFollows
  <2>1. event'[k] = store[i] /\ Stored(i)
    BY <1>6 DEF Live
  <2> QED BY <1>2, <2>1 DEF Tracks, Follows, i
<1>9. Tracks(k)'
  BY <1>2, <1>4, <1>7, <1>8 DEF Tracks, Follows, Stored, i
<1>10. StoreSteps
  BY <1>4 DEF StoreSteps
<1> QED BY <1>4, <1>5, <1>6, <1>9, <1>10 DEF i

LEMMA FindForUpdateStep ==
  ASSUME Inv, NEW k \in Calls, FindForUpdate(k)
  PROVE  CallsTyped' /\ OnlyCall(k) /\ CallInv(k)'
<1> DEFINE i == call[k].id
           found == AfterRead(k, store[i])
<1>1. FindOne(k, "find", found, "notFound") /\ pc[k] = "find"
  BY DEF FindForUpdate, FindOne, Goto
<1>2. /\ call[k] \in UpdateCall /\ i \in Ids /\ call[k].version \in Nat
      /\ CallInv(k) /\ Tracks(k)
  BY <1>1, CallTypes DEF Inv, CallInv, PhaseInv
<1>3. /\ found \in {"badRequest", "latest", "write"}
      /\ found = "latest" => store[i].version # call[k].version
      /\ found = "write" =>
           store[i].version = call[k].version /\ DatesOk(store[i], call[k].change)
  BY DEF AfterRead
<1> HIDE DEF found
<1>4. "find" \in Phases \ {"idle"} /\ found \in Phases \cup Outcomes
      /\ "notFound" \in Phases \cup Outcomes
  BY <1>3 DEF Phases, Outcomes
<1>5. /\ CallsTyped' /\ OnlyCall(k) /\ Tracks(k)'
      /\ call' = call /\ before' = before /\ store' = store
      /\ \/ pc'[k] = found /\ Live(i) /\ event'[k] = store[i]
         \/ pc'[k] = "notFound" /\ event'[k] = NoEvent
  BY <1>1, <1>4, FindOneStep
<1> HIDE DEF i
<1>6. CASE pc'[k] = "notFound"
  BY <1>5, <1>6 DEF CallInv, PhaseInv
<1>7. CASE pc'[k] = found /\ Live(i) /\ event'[k] = store[i]
  <2>1. Stored(i) /\ ~ store[i].deleted /\ store[i].version \in Nat
    BY <1>2, <1>7, StoredTypes DEF Live
  <2>2. Named(k) => store[i].version >= call[k].version
    <3> SUFFICES ASSUME Named(k) PROVE store[i].version >= call[k].version
      OBVIOUS
    <3>1. before[k] # NoEvent /\ before[k].version \in Nat
          /\ call[k].version <= before[k].version
      BY <1>1, CallTypes DEF Named
    <3>2. before[k].version <= store[i].version
      BY <1>2, <2>1, <3>1 DEF Tracks, Follows, i
    <3> QED BY <1>2, <2>1, <3>1, <3>2
  <2>3. PhaseInv(k)'
    BY <1>2, <1>3, <1>5, <1>7, <2>1, <2>2 DEF PhaseInv, Named, Stored, i
  <2> QED BY <1>3, <1>5, <1>7, <2>3 DEF CallInv
<1> QED BY <1>5, <1>6, <1>7

LEMMA FindLatestStep ==
  ASSUME Inv, NEW k \in Calls, FindLatest(k)
  PROVE  CallsTyped' /\ OnlyCall(k) /\ CallInv(k)'
<1> DEFINE i == call[k].id
<1>1. FindOne(k, "latest", "conflict", "notFound") /\ pc[k] = "latest"
  BY DEF FindLatest, FindOne, Goto
<1>2. call[k] \in UpdateCall /\ PhaseInv(k)
  BY <1>1 DEF Inv, CallInv, PhaseInv
<1>3. /\ CallsTyped' /\ OnlyCall(k) /\ Tracks(k)'
      /\ call' = call /\ before' = before /\ store' = store
      /\ \/ pc'[k] = "conflict" /\ Live(i) /\ event'[k] = store[i]
         \/ pc'[k] = "notFound" /\ event'[k] = NoEvent
  BY <1>1, FindOneStep DEF Phases, Outcomes
<1>4. PhaseInv(k)'
  BY <1>1, <1>2, <1>3 DEF PhaseInv, Named, Live, Stored
<1> QED BY <1>3, <1>4 DEF CallInv

LEMMA CheckEventStep ==
  ASSUME Inv, NEW k \in Calls, CheckEvent(k)
  PROVE  CallsTyped' /\ OnlyCall(k) /\ CallInv(k)'
<1> DEFINE i == call[k].id
<1>1. FindOne(k, "check", "save", "badRequest") /\ pc[k] = "check"
  BY DEF CheckEvent, FindOne, Goto
<1>2. call[k] \in RewardCall
  BY <1>1 DEF Inv, CallInv, PhaseInv
<1>3. /\ CallsTyped' /\ OnlyCall(k) /\ Tracks(k)'
      /\ call' = call /\ before' = before /\ store' = store
      /\ \/ pc'[k] = "save" /\ Live(i) /\ event'[k] = store[i]
         \/ pc'[k] = "badRequest" /\ event'[k] = NoEvent
  BY <1>1, FindOneStep DEF Phases, Outcomes
<1>4. PhaseInv(k)'
  BY <1>1, <1>2, <1>3 DEF PhaseInv, Named, Live, Stored
<1> QED BY <1>3, <1>4 DEF CallInv

\* A write that goes through gives the caller the event it stored.
LEMMA WriteStep ==
  ASSUME Inv, NEW k \in Calls, Write(k)
  PROVE  CallsTyped' /\ OnlyCall(k) /\ CallInv(k)'
<1> DEFINE i == call[k].id
<1>1. /\ pc[k] = "write" /\ call' = call /\ before' = before /\ created' = created
      /\ call[k] \in UpdateCall /\ Tracks(k) /\ PhaseInv(k) /\ CallsTyped
      /\ i \in Ids /\ i <= created /\ call[k].version \in Nat
      /\ event[k] # NoEvent /\ event[k].version \in Nat
  BY CallTypes DEF Write, Inv, CallInv, PhaseInv, TypeOK, CallsTyped
<1>2. Next
  BY DEF Next, Serve
<1>3. StoreSteps
  BY <1>2, StoreStep
<1>4. ASSUME NEW to \in {"error", "latest"},
             Goto(k, "write", to), UNCHANGED <<store, event>>,
             to = "latest" => ~ Matches(k)
      PROVE  CallsTyped' /\ OnlyCall(k) /\ CallInv(k)'
  <2>1. CallsTyped' /\ OnlyCall(k) /\ pc'[k] = to
    BY <1>1, <1>4 DEF CallsTyped, OnlyCall, Goto, Phases, Outcomes
  <2>2. Tracks(k)'
    BY <1>1, <1>3, <1>4, TracksOn
  <2>3. to = "latest" /\ Stored(i) => store[i].version > call[k].version
    <3> SUFFICES ASSUME to = "latest", Stored(i)
                 PROVE  store[i].version > call[k].version
      OBVIOUS
    <3>1. event[k].version <= store[i].version
          /\ (event[k].version = store[i].version => store[i] = event[k])
      BY <1>1 DEF Tracks, Follows
    <3>2. event[k].version = call[k].version /\ ~ event[k].deleted
      BY <1>1 DEF PhaseInv
    <3>3. store[i].version # call[k].version
      BY <1>4, <3>1, <3>2 DEF Matches, Live
    <3>4. store[i].version \in Nat
      BY <1>1, StoredTypes
    <3> QED BY <1>1, <3>1, <3>2, <3>3, <3>4
  <2>4. PhaseInv(k)'
    BY <1>1, <1>4, <2>1, <2>3 DEF PhaseInv, Named, Stored
  <2> QED BY <2>1, <2>2, <2>4 DEF CallInv
<1>5. ASSUME Matches(k), Goto(k, "write", "ok"), Put(i, Written(k)),
             event' = [event EXCEPT ![k] = Written(k)]
      PROVE  CallsTyped' /\ OnlyCall(k) /\ CallInv(k)'
  <2> DEFINE w == Written(k)
  <2>1. /\ w \in Event /\ store[i] = event[k]
        /\ w.version = event[k].version + 1 /\ w.version \in Nat
    BY <1>1, <1>5, WrittenEvent
  <2> HIDE DEF w
  <2>2. CallsTyped' /\ OnlyCall(k) /\ pc'[k] = "ok" /\ event'[k] = w
    BY <1>1, <1>5, <2>1 DEF CallsTyped, OnlyCall, Goto, Phases, Outcomes, w
  <2>3. store'[i] = w
    BY <1>1, <1>5, StoreGrows DEF Put, w, Inv, TypeOK
  <2>4. w # NoEvent
    BY <2>1, NoneAssumption
  <2>5. Follows(i, event[k])'
    BY <1>1, <2>1, <2>2, <2>3 DEF Follows
  <2>6. /\ before[k] # NoEvent /\ before[k].version \in Nat
        /\ before[k].version < w.version
    <3>1. before[k] # NoEvent /\ before[k].version <= event[k].version
      BY <1>1 DEF Tracks, ReadFollows
    <3>2. before[k].version \in Nat
      BY <1>1, <3>1, CallTypes
    <3> QED BY <1>1, <2>1, <3>1, <3>2
  <2>7. Follows(i, before[k])'
    BY <1>1, <2>1, <2>3, <2>6 DEF Follows
  <2>8. Tracks(k)'
    BY <1>1, <2>1, <2>2, <2>4, <2>5, <2>6, <2>7 DEF Tracks, ReadFollows
  <2> QED BY <2>2, <2>8 DEF CallInv, PhaseInv
<1> QED BY <1>4, <1>5 DEF Write

LEMMA SaveRewardStep ==
  ASSUME Inv, NEW k \in Calls, SaveReward(k)
  PROVE  CallsTyped' /\ OnlyCall(k) /\ CallInv(k)'
<1>1. /\ pc[k] = "save" /\ pc' = [pc EXCEPT ![k] = "ok"]
      /\ UNCHANGED <<store, created, call, event, before>> /\ CallsTyped
  BY DEF SaveReward, Goto, Inv, TypeOK, CallsTyped
<1>2. CallsTyped' /\ OnlyCall(k) /\ pc'[k] = "ok"
  BY <1>1 DEF CallsTyped, OnlyCall, Outcomes
<1> QED BY <1>1, <1>2, Ended DEF StoreSteps

LEMMA FailStep ==
  ASSUME Inv, NEW k \in Calls, Fail(k)
  PROVE  CallsTyped' /\ OnlyCall(k) /\ CallInv(k)'
<1>1. PICK to \in {"error", "badRequest"} :
        pc[k] # "idle" /\ pc' = [pc EXCEPT ![k] = to]
  BY DEF Fail, Goto
<1>2. UNCHANGED <<store, created, call, event, before>> /\ CallsTyped
  BY DEF Fail, Inv, TypeOK, CallsTyped
<1>3. CallsTyped' /\ OnlyCall(k) /\ pc'[k] = to
  BY <1>1, <1>2 DEF CallsTyped, OnlyCall, Outcomes
<1> QED BY <1>1, <1>2, <1>3, Ended DEF StoreSteps

LEMMA ReplyLostStep ==
  ASSUME Inv, NEW k \in Calls, ReplyLost(k)
  PROVE  CallsTyped' /\ OnlyCall(k) /\ CallInv(k)'
<1>1. pc[k] # "idle" /\ pc' = [pc EXCEPT ![k] = "error"]
  BY DEF ReplyLost, Goto
<1>2. UNCHANGED <<created, call, event, before>> /\ CallsTyped
  BY DEF ReplyLost, Inv, TypeOK, CallsTyped
<1>3. CallsTyped' /\ OnlyCall(k) /\ pc'[k] = "error"
  BY <1>1, <1>2 DEF CallsTyped, OnlyCall, Outcomes
<1>4. StoreSteps
  BY StoreStep DEF Next, Serve
<1> QED BY <1>1, <1>2, <1>3, <1>4, Ended

\* The types and the invariants of calls, whatever the step.
LEMMA CallsStep ==
  ASSUME Inv, [Next]_vars
  PROVE  CallsTyped' /\ \A k \in Calls : CallInv(k)'
<1>1. StoreSteps /\ CallsTyped
  BY StoreStep DEF Inv, TypeOK, CallsTyped
<1>2. CASE UNCHANGED callVars
  BY <1>1, <1>2, Undisturbed DEF CallsTyped, callVars
<1>3. ASSUME NEW k \in Calls, OnlyCall(k), CallsTyped', CallInv(k)'
      PROVE  CallsTyped' /\ \A j \in Calls : CallInv(j)'
  BY <1>1, <1>3, Undisturbed DEF OnlyCall
<1>4. ASSUME NEW k \in Calls, NEW c \in UpdateCall \cup RewardCall, Arrive(k, c)
      PROVE  CallsTyped' /\ \A j \in Calls : CallInv(j)'
  BY <1>3, <1>4, ArriveStep
<1>5. ASSUME NEW k \in Calls, Serve(k)
      PROVE  CallsTyped' /\ \A j \in Calls : CallInv(j)'
  BY <1>3, <1>5, FindForUpdateStep, FindLatestStep, CheckEventStep, WriteStep,
     SaveRewardStep, FailStep, ReplyLostStep DEF Serve
<1>6. CASE \/ \E e \in Drafts : Create(e)
           \/ \E i \in Ids : Remove(i) \/ Restore(i) \/ Purge(i)
           \/ UNCHANGED vars
  BY <1>2, <1>6 DEF Create, Remove, Restore, Purge, vars, callVars
<1> QED BY <1>4, <1>5, <1>6 DEF Next

\* A reward is added by the call that asked for it, when it saves it.
LEMMA NewReward ==
  ASSUME Inv, [Next]_vars, NEW r \in rewards', r \notin rewards
  PROVE  /\ r.by \in Calls /\ r.event = call[r.by].id /\ pc[r.by] = "save"
         /\ r \in [by : Calls, event : Ids]
<1>1. PICK k \in Calls : SaveReward(k) \/ ReplyLost(k)
  BY DEF Next, Serve, Create, Remove, Restore, Purge, Arrive, FindForUpdate, FindLatest,
         CheckEvent, FindOne, Write, Fail, vars
<1>2. pc[k] = "save" /\ AddReward(k)
  BY <1>1 DEF SaveReward, ReplyLost, Goto
<1>3. r = [by |-> k, event |-> call[k].id]
  BY <1>2 DEF AddReward
<1> QED BY <1>2, <1>3, CallTypes

\* Once a call has arrived it does not go back, and what it was given stays.
LEMMA CallsStay ==
  ASSUME Inv, [Next]_vars, NEW k \in Calls, pc[k] # "idle"
  PROVE  pc'[k] # "idle" /\ call'[k] = call[k] /\ before'[k] = before[k]
<1> USE DEF Inv, TypeOK
<1>1. ASSUME NEW j \in Calls, NEW c \in UpdateCall \cup RewardCall, Arrive(j, c)
      PROVE  pc'[k] # "idle" /\ call'[k] = call[k] /\ before'[k] = before[k]
  BY <1>1 DEF Arrive, Goto
<1>2. ASSUME NEW j \in Calls, Serve(j)
      PROVE  pc'[k] # "idle" /\ call'[k] = call[k] /\ before'[k] = before[k]
  <2>1. call' = call /\ before' = before
    BY <1>2 DEF Serve, FindForUpdate, FindLatest, CheckEvent, FindOne, Write, SaveReward,
                Fail, ReplyLost
  <2>2. \E from \in Phases, to \in (Phases \cup Outcomes) \ {"idle"} : Goto(j, from, to)
    BY <1>2 DEF Serve, FindForUpdate, FindLatest, CheckEvent, FindOne, Write, SaveReward,
                Fail, ReplyLost, AfterRead, Phases, Outcomes, Goto
  <2> QED BY <2>1, <2>2 DEF Goto
<1>3. CASE UNCHANGED callVars
  BY <1>3 DEF callVars
<1> QED BY <1>1, <1>2, <1>3 DEF Next, Create, Remove, Restore, Purge, vars, callVars

LEMMA RewardsStep ==
  ASSUME Inv, [Next]_vars
  PROVE  rewards' \in SUBSET [by : Calls, event : Ids] /\ RewardInv'
<1>1. rewards \in SUBSET [by : Calls, event : Ids] /\ StoreSteps
  BY StoreStep DEF Inv, TypeOK
<1>2. ASSUME NEW r \in rewards'
      PROVE  /\ r \in [by : Calls, event : Ids]
             /\ pc'[r.by] # "idle" /\ call'[r.by].id = r.event
             /\ before'[r.by] # NoEvent
             /\ before'[r.by].deleted /\ Stored(r.event)' =>
                  store'[r.event].version > before'[r.by].version
  <2> DEFINE k == r.by
             i == r.event
             b == before[k]
  <2>1. /\ r \in [by : Calls, event : Ids]
        /\ pc[k] # "idle" /\ call[k].id = i /\ b # NoEvent
        /\ r \notin rewards => pc[k] = "save"
    <3>1. CASE r \in rewards
      BY <1>1, <3>1 DEF Inv, RewardInv
    <3>2. CASE r \notin rewards
      BY <3>2, NewReward DEF Inv, CallInv, Tracks, ReadFollows, PhaseInv
    <3> QED BY <3>1, <3>2
  <2>2. k \in Calls /\ i \in Ids /\ i <= created /\ b.version \in Nat
    BY <2>1, CallTypes
  <2>3. pc'[k] # "idle" /\ call'[k] = call[k] /\ before'[k] = b
    BY <2>1, <2>2, CallsStay
  <2>4. ASSUME b.deleted, store'[i] # NoEvent
        PROVE  store'[i].version > b.version
    <3>1. /\ store[i] # NoEvent /\ store'[i] \in Event
          /\ store'[i] = store[i] \/ store'[i].version > store[i].version
      BY <1>1, <2>2, <2>4, StoreGrows DEF Grows
    <3>2. store[i].version \in Nat /\ store'[i].version \in Nat
      BY <2>2, <3>1, StoredTypes DEF Stored, Event
    <3>3. CASE r \in rewards
      <4>1. store[i].version > b.version
        BY <2>4, <3>1, <3>3 DEF Inv, RewardInv, Stored
      <4> QED BY <2>2, <3>1, <3>2, <4>1
    <3>4. CASE r \notin rewards
      <4>1. event[k] # NoEvent /\ ~ event[k].deleted /\ Tracks(k)
        BY <2>1, <2>2, <3>4 DEF Inv, CallInv, PhaseInv
      <4>2. b.version <= event[k].version /\ b.version # event[k].version
        BY <2>4, <4>1 DEF Tracks, ReadFollows
      <4>3. event[k].version <= store[i].version
        BY <2>1, <3>1, <4>1 DEF Tracks, Follows, Stored
      <4>4. event[k].version \in Nat
        BY <2>1, <2>2, <4>1, CallTypes
      <4> QED BY <2>2, <3>1, <3>2, <4>2, <4>3, <4>4
    <3> QED BY <3>3, <3>4
  <2> QED BY <2>1, <2>3, <2>4 DEF Stored
<1> QED BY <1>2 DEF RewardInv

LEMMA InvStep == Inv /\ [Next]_vars => Inv'
<1> SUFFICES ASSUME Inv, [Next]_vars PROVE Inv'
  OBVIOUS
<1>1. /\ store' \in [Ids -> Event \cup {NoEvent}]
      /\ created' \in 0 .. MaxEvents
      /\ StoreInv'
  BY StoreStep, StoreGrows
<1>2. CallsTyped' /\ \A k \in Calls : CallInv(k)'
  BY CallsStep
<1>3. rewards' \in SUBSET [by : Calls, event : Ids] /\ RewardInv'
  BY RewardsStep
<1> QED BY <1>1, <1>2, <1>3 DEF Inv, TypeOK, CallsTyped

LEMMA InvHolds == Spec => []Inv
BY InitInv, InvStep, PTL DEF Spec

-----------------------------------------------------------------------------
(* Theorems.                                                               *)

\* The collections and what calls hold of them keep their types: among others, what
\* findOneAndUpdate writes is always a complete event with dates and a status.
THEOREM EventTypes == Spec => []TypeOK
<1>1. Inv => TypeOK
  BY DEF Inv
<1> QED BY <1>1, InvHolds, PTL

\* However updates overlap, an event ends after it starts: the date an update takes
\* from its read is still the stored one when its filter matches.
THEOREM DatesAreOrderedHolds == Spec => []DatesAreOrdered
<1>1. Inv => DatesAreOrdered
  BY DEF Inv, StoreInv, DatesAreOrdered
<1> QED BY <1>1, InvHolds, PTL

\* A document that a call read or was given is what is stored, as long as the version
\* has not changed.
THEOREM VersionIdentifiesContentHolds == Spec => []VersionIdentifiesContent
<1>1. Inv => VersionIdentifiesContent
  BY DEF Inv, CallInv, Tracks, Follows, VersionIdentifiesContent
<1> QED BY <1>1, InvHolds, PTL

\* A conflict hands out an event newer than the one its caller had.
THEOREM ConflictShowsNewerHolds == Spec => []ConflictShowsNewer
<1>1. Inv => ConflictShowsNewer
  BY DEF Inv, CallInv, PhaseInv, Named, ConflictShowsNewer
<1> QED BY <1>1, InvHolds, PTL

\* An event deleted when a reward was asked for gets it only after it was restored, a
\* purged one never.
THEOREM RewardsFollowRemovalsHolds == Spec => []RewardsFollowRemovals
<1>1. Inv => RewardsFollowRemovals
  BY DEF Inv, RewardInv, RewardsFollowRemovals
<1> QED BY <1>1, InvHolds, PTL

-----------------------------------------------------------------------------
(* The store implements the register.                                      *)

\* An event is what its fields are.
LEMMA EventAsRecord ==
  ASSUME NEW e \in Event, NEW s \in Times, NEW t \in Times, NEW u \in Status,
         NEW x \in Types, NEW y \in Moments, NEW v \in Nat, e.start = s, e.end = t,
         e.status = u, e.type = x, e.createdAt = y, e.version = v, ~ e.deleted
  PROVE  e = [start |-> s, end |-> t, status |-> u, type |-> x, createdAt |-> y,
              version |-> v, deleted |-> FALSE]
BY DEF Event

\* What an update writes depends on the stored event alone.
LEMMA WriteUpdates ==
  ASSUME Inv, NEW k \in Calls, pc[k] = "write", Matches(k), Put(call[k].id, Written(k)),
         UNCHANGED <<created, call>>
  PROVE  Register!Next
<1> DEFINE i == call[k].id
           c == call[k].change
           r == [id |-> i, version |-> call[k].version, change |-> c]
           w == Written(k)
           s == New(c.start, store[i].start)
           t == New(c.end, store[i].end)
           u == New(c.status, store[i].status)
           x == New(c.type, store[i].type)
           y == store[i].createdAt
<1>1. call[k] \in UpdateCall /\ call[k].op = "update" /\ call[k] # NoCall
  BY NoneAssumption DEF Inv, CallInv, PhaseInv, UpdateCall
<1>2. r \in Asked /\ Asked' = Asked
  BY <1>1 DEF Asked
<1>3. /\ w \in Event /\ ~ w.deleted /\ store[i] = event[k]
      /\ w.start = s /\ w.end = t /\ w.status = u /\ w.type = x /\ w.createdAt = y
      /\ w.version = call[k].version + 1
  BY WrittenEvent DEF StartDate, EndDate, Matches
<1>4. store' = [store EXCEPT ![i] = w]
  BY DEF Put
<1> HIDE DEF w, s, t, u, x, y
<1>5. /\ s \in Times /\ t \in Times /\ u \in Status /\ x \in Types /\ y \in Moments
      /\ call[k].version + 1 \in Nat
  BY <1>3 DEF Event
<1>6. w = [start |-> s, end |-> t, status |-> u, type |-> x, createdAt |-> y,
           version |-> call[k].version + 1, deleted |-> FALSE]
  BY <1>3, <1>5, EventAsRecord
<1>7. Register!Live(i) /\ store[i].version = call[k].version
  BY DEF Matches, Live, Stored, Register!Live
<1>8. Register!Update(r)
  BY <1>2, <1>4, <1>6, <1>7 DEF Register!Update, Register!Put, Register!New, New,
                                    s, t, u, x, y
<1> QED BY <1>2, <1>8 DEF Register!Next

LEMMA RegisterInit == Init => Register!Init
<1> SUFFICES ASSUME Init PROVE Register!Init
  OBVIOUS
<1>1. Asked = {}
  BY DEF Init, Asked
<1> QED BY <1>1 DEF Init, Register!Init

LEMMA RegisterStep ==
  ASSUME Inv, [Next]_vars
  PROVE  [Register!Next]_(Register!vars)
<1>1. CASE UNCHANGED <<store, created>>
  <2>1. Asked \subseteq Asked'
    <3> SUFFICES ASSUME NEW a \in Asked PROVE a \in Asked'
      OBVIOUS
    <3>1. PICK k \in Calls :
            /\ call[k] # NoCall /\ call[k].op = "update"
            /\ a = [id |-> call[k].id, version |-> call[k].version,
                    change |-> call[k].change]
      BY DEF Asked
    <3>2. call'[k] = call[k]
      BY <3>1, CallsStay DEF Inv, CallInv
    <3> QED BY <3>1, <3>2 DEF Asked
  <2> QED BY <1>1, <2>1 DEF Register!Next, Register!Ask
<1>2. CASE UNCHANGED callVars /\ ~ UNCHANGED <<store, created>>
  <2>1. Asked' = Asked
    BY <1>2 DEF Asked, callVars
  <2>2. ASSUME NEW e \in Drafts, Create(e) PROVE Register!Next
    <3>1. /\ created + 1 \in Ids /\ created' = created + 1
          /\ store \in [Ids -> Event \cup {NoEvent}]
      BY <2>2 DEF Create, Ids, Inv, TypeOK
    <3>2. store'[created + 1] = e /\ Put(created + 1, e) /\ e.start < e.end
      BY <2>2, <3>1 DEF Create, Put
    <3>3. Register!Create(created + 1)
      BY <2>1, <3>1, <3>2 DEF Draft, Put, Register!Create, Register!Put
    <3> QED BY <3>1, <3>3 DEF Register!Next
  <2>3. ASSUME NEW i \in Ids, Remove(i) PROVE Register!Next
    <3>1. Register!Remove(i)
      BY <2>1, <2>3 DEF Remove, Live, Stored, Put, Deleted, Register!Remove, Register!Live,
                       Register!Put
    <3> QED BY <3>1 DEF Register!Next
  <2>4. ASSUME NEW i \in Ids, Restore(i) PROVE Register!Next
    <3>1. Register!Restore(i)
      BY <2>1, <2>4 DEF Restore, Stored, Put, Deleted, Register!Restore, Register!Put
    <3> QED BY <3>1 DEF Register!Next
  <2>5. ASSUME NEW i \in Ids, Purge(i) PROVE Register!Next
    <3>1. Register!Purge(i)
      BY <2>1, <2>5 DEF Purge, Stored, Put, Register!Purge, Register!Put
    <3> QED BY <3>1 DEF Register!Next
  <2>6. ASSUME NEW k \in Calls, Serve(k) PROVE Register!Next
    BY <1>2, <2>6, WriteUpdates
    DEF Serve, FindForUpdate, FindLatest, CheckEvent, FindOne, Write, SaveReward, Fail,
        ReplyLost, Goto, callVars
  <2> QED BY <1>2, <2>2, <2>3, <2>4, <2>5, <2>6 DEF Next, Arrive, vars
<1>3. CASE ~ UNCHANGED callVars /\ ~ UNCHANGED <<store, created>>
  <2>1. PICK k \in Calls : Serve(k)
    BY <1>3 DEF Next, Create, Remove, Restore, Purge, Arrive, vars, callVars
  <2> QED BY <1>3, <2>1, WriteUpdates
    DEF Serve, FindForUpdate, FindLatest, CheckEvent, FindOne, Write, SaveReward, Fail,
        ReplyLost, Goto
<1> QED BY <1>1, <1>2, <1>3

\* The store implements EventRegister: an update that gets through, also one whose reply
\* is lost, changes the version its caller named and nothing but what it asks for.
THEOREM RegisterImplemented == Spec => ImplementsRegister
<1>1. Inv /\ [Next]_vars => [Register!Next]_(Register!vars)
  BY RegisterStep
<1> QED BY <1>1, RegisterInit, InvHolds, PTL DEF Spec, ImplementsRegister, Register!Spec
=============================================================================
