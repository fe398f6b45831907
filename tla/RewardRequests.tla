--------------------------- MODULE RewardRequests ---------------------------
(***************************************************************************)
(* The reward request pipeline of game-event-server: the durable RabbitMQ  *)
(* queue the gateway publishes to, the consumer processes that take        *)
(* messages from it, MessageInterceptor that settles deliveries and        *)
(* republishes failed ones, and RewardRequestService, which turns a        *)
(* message into at most one document of the rewardrequests collection.     *)
(*                                                                         *)
(* One action is the code a handler runs between two awaits.  The broker   *)
(* (acknowledgements, delivery tags, requeueing) is external and modelled  *)
(* from the way the consumer uses it.                                      *)
(***************************************************************************)
EXTENDS Integers, Sequences

CONSTANTS
  Users,         \* user ids
  Events,        \* event ids
  EventType,     \* EventType[e]: the type of event e, fixed when it is created: no update
                 \* a client sends ever takes effect (EventStore)
  Consumers,     \* consumer processes, one channel each
  Slots,         \* places for handlers in a process: bounds how many run at a
                 \* time; the slot of a delivery also serves as its tag
  NoTag,         \* no delivery tag
  Configs,       \* configurations the service may be started with
  MaxRetries,    \* MQ_MAX_RETRIES
  MaxMessages,   \* bound on the messages the gateway publishes
  MaxCrashes,    \* bound on process crashes and lost connections
  MaxErrors,     \* bound on MongoDB and Redis calls that fail
  NoMessage      \* stands for the message of a slot that never had one

Types == {"LOGIN", "FRIEND_INVITATION", "LEVEL_UP", "TIME_PERIOD", "ACHIEVEMENT",
          "PURCHASE", "DAILY_MISSION", "ITEM_COLLECTION"}

Handlers == Consumers \X Slots
Pairs == Users \X Events
Ids == 1 .. MaxMessages

\* A message: the id the gateway gives it, its user and event, whether the
\* client's body carries a metadata object, and the x-retry-count header.
Message == [id : Ids, user : Users, event : Events, meta : BOOLEAN,
            retry : 0 .. MaxRetries]

Verdicts == {"APPROVED", "FAILED"}
Document == [user : Users, event : Events, status : Verdicts]

\* A timer of retryMessage: the message it will publish and the layer that set it.
Timer == [msg : Message, layer : Nat]

\* The text of RABBIT_MQ_NO_ACK, and how many times MessageInterceptor wraps the
\* handler: 2 as the code is, 1 for the protocol one binding implements.
Config == [noAck : {"unset", "false", "true"}, layers : Nat \ {0}]

\* What a consumer writes to its channel: an ack or reject of a delivery tag,
\* or a publish.  Neither ack nor reject requeues, so the broker treats both
\* alike: the delivery is gone.
Settlement == [op : {"settle"}, tag : Slots]
Publication == [op : {"publish"}, msg : Message]
Frame == Settlement \cup Publication

ASSUME BoundsAssumption ==
  /\ MaxRetries \in Nat
  /\ MaxMessages \in Nat
  /\ MaxCrashes \in Nat
  /\ MaxErrors \in Nat
ASSUME ConfigAssumption == Configs \subseteq Config
ASSUME TypesAssumption == EventType \in [Events -> Types]
ASSUME NoMessageAssumption == NoMessage \notin Message
ASSUME NoTagAssumption == NoTag \notin Slots

VARIABLES
  config,     \* what the processes were started with; never changes
  events,     \* state of each event document
  nextId,     \* id of the next message the gateway publishes
  submitted,  \* pairs published so far (history)
  queue,      \* ready messages, in queue order
  channel,    \* channel of each consumer: "open" or "closed"
  unacked,    \* delivery tag the broker waits for on each channel, or NoTag
  wire,       \* frames written to each channel and not yet handled by the broker
  timers,     \* pending republications of each consumer
  pc,         \* phase of each handler
  job,        \* message of each handler
  live,       \* TRUE while the handler runs for a delivery of the current channel
  requests,   \* the rewardrequests collection, in insertion order
  outcomes,   \* outcomes[i]: how handlers of message i ended so far (history)
  crashes,    \* crashes and lost connections so far
  errors      \* failed database calls so far

vars == <<config, events, nextId, submitted, queue, channel, unacked, wire, timers, pc,
          job, live, requests, outcomes, crashes, errors>>

brokerVars == <<queue, channel, unacked, wire, timers>>
handlerVars == <<job, live>>
sourceVars == <<config, events, nextId, submitted>>

EventStates == {"absent", "inactive", "before", "during", "after"}
Phases == {"idle", "lookup", "existing", "save", "done", "failed"}

TypeOK ==
  /\ config \in Configs
  /\ events \in [Events -> EventStates]
  /\ nextId \in 1 .. MaxMessages + 1
  /\ submitted \in SUBSET Pairs
  /\ queue \in Seq(Message)
  /\ channel \in [Consumers -> {"open", "closed"}]
  /\ unacked \in [Consumers -> Slots \cup {NoTag}]
  /\ wire \in [Consumers -> Seq(Frame)]
  /\ timers \in [Consumers -> SUBSET Timer]
  /\ pc \in [Handlers -> Phases]
  /\ job \in [Handlers -> Message \cup {NoMessage}]
  /\ live \in [Handlers -> BOOLEAN]
  /\ requests \in Seq(Document)
  /\ outcomes \in [Ids -> SUBSET {"completed", "retried", "exhausted", "dropped"}]
  /\ crashes \in 0 .. MaxCrashes
  /\ errors \in 0 .. MaxErrors

Init ==
  /\ config \in Configs
  /\ events = [e \in Events |-> "absent"]
  /\ nextId = 1
  /\ submitted = {}
  /\ queue = <<>>
  /\ channel = [c \in Consumers |-> "open"]
  /\ unacked = [c \in Consumers |-> NoTag]
  /\ wire = [c \in Consumers |-> <<>>]
  /\ timers = [c \in Consumers |-> {}]
  /\ pc = [h \in Handlers |-> "idle"]
  /\ job = [h \in Handlers |-> NoMessage]
  /\ live = [h \in Handlers |-> FALSE]
  /\ requests = <<>>
  /\ outcomes = [i \in Ids |-> {}]
  /\ crashes = 0
  /\ errors = 0

-----------------------------------------------------------------------------
(* Configuration and pure helpers.                                         *)

\* Mutant of NoAck: the option never reaches the broker.
AlwaysAck == FALSE

\* Mutant of NoAck: acknowledgements are off whatever the environment says.
AlwaysNoAck == TRUE

\* Nothing parses the variable, so ConfigService returns its text: any text,
\* "false" included, is true as a condition and turns acknowledgements off.
NoAck == config.noAck # "unset"

\* The strategies are stubs: only friend invitations are ever met.
ConditionMet(type) == type = "FRIEND_INVITATION"

\* The status a request for an event is stored with.
Verdict == [e \in Events |-> IF ConditionMet(EventType[e]) THEN "APPROVED" ELSE "FAILED"]

\* findExistingRequest, and the key of the unique index on the collection.
Exists(u, e) == \E i \in DOMAIN requests : requests[i].user = u /\ requests[i].event = e

\* Mutant of DuplicateKey: the index is not unique.
IndexNotUnique(u, e) == FALSE

\* Mutant of DuplicateKey: the index is on eventId alone.
IndexOnEvent(u, e) == \E i \in DOMAIN requests : requests[i].event = e

\* The unique index {userId, eventId}: the insert is refused.
DuplicateKey(u, e) == Exists(u, e)

\* Mutant of Admits: the period is not checked.
AdmitsAnyPeriod(e) == events[e] \in {"before", "during", "after"}

\* The checks on the event that precede the try block: found, ACTIVE, in period.
Admits(e) == events[e] = "during"

-----------------------------------------------------------------------------
(* The sources: the event API, the clock and the gateway.                  *)

\* An operator creates an event, INACTIVE by default or ACTIVE with any period.
CreateEvent(e) ==
  /\ events[e] = "absent"
  /\ \E s \in EventStates \ {"absent"} : events' = [events EXCEPT ![e] = s]
  /\ UNCHANGED <<config, nextId, submitted, brokerVars, pc, handlerVars, requests,
                 outcomes, crashes, errors>>

\* The clock passes the start or the end of an event.
PassTime(e) ==
  /\ \/ events[e] = "before" /\ events' = [events EXCEPT ![e] = "during"]
     \/ events[e] = "during" /\ events' = [events EXCEPT ![e] = "after"]
  /\ UNCHANGED <<config, nextId, submitted, brokerVars, pc, handlerVars, requests,
                 outcomes, crashes, errors>>

\* The gateway publishes a request.  Every publication has a fresh messageId, so
\* a client that submits twice causes two messages.
Emit(u, e, m) ==
  /\ nextId <= MaxMessages
  /\ queue' = Append(queue, [id |-> nextId, user |-> u, event |-> e, meta |-> m,
                             retry |-> 0])
  /\ nextId' = nextId + 1
  /\ submitted' = submitted \cup {<<u, e>>}
  /\ UNCHANGED <<config, events, channel, unacked, wire, timers, pc, handlerVars,
                 requests, outcomes, crashes, errors>>

-----------------------------------------------------------------------------
(* The broker's side of a channel (external).                              *)

\* A tag is not given to a new delivery while frames about it are on their way.
TagFree(h) ==
  \A i \in DOMAIN wire[h[1]] : wire[h[1]][i].op = "settle" => wire[h[1]][i].tag # h[2]

\* With acknowledgements the prefetch count of 1 holds the next message back;
\* without, the broker forgets a message as it sends it and sends at will.
Deliver(h) ==
  /\ channel[h[1]] = "open"
  /\ pc[h] = "idle"
  /\ TagFree(h)
  /\ queue # <<>>
  /\ NoAck \/ unacked[h[1]] = NoTag
  /\ queue' = Tail(queue)
  /\ unacked' = [unacked EXCEPT ![h[1]] = IF NoAck THEN NoTag ELSE h[2]]
  /\ pc' = [pc EXCEPT ![h] = "lookup"]
  /\ job' = [job EXCEPT ![h] = Head(queue)]
  /\ live' = [live EXCEPT ![h] = TRUE]
  /\ UNCHANGED <<sourceVars, channel, wire, timers, requests, outcomes, crashes, errors>>

\* A channel that closes: its unsettled delivery goes back to the front of the
\* queue and frames the broker has not read are lost.  Handlers go on, but what
\* they and their timers send on the dead channel has no effect any more.
CloseChannel(c) ==
  /\ channel' = [channel EXCEPT ![c] = "closed"]
  /\ queue' = IF unacked[c] = NoTag THEN queue ELSE <<job[<<c, unacked[c]>>]>> \o queue
  /\ unacked' = [unacked EXCEPT ![c] = NoTag]
  /\ wire' = [wire EXCEPT ![c] = <<>>]
  /\ timers' = [timers EXCEPT ![c] = {}]
  /\ live' = [h \in Handlers |-> IF h[1] = c THEN FALSE ELSE live[h]]

\* The broker handles an ack or a reject.  A tag it does not wait for is a
\* protocol error, answered by closing the channel.
BrokerSettles(c) ==
  /\ wire[c] # <<>> /\ Head(wire[c]).op = "settle"
  /\ \/ /\ Head(wire[c]).tag = unacked[c]
        /\ unacked' = [unacked EXCEPT ![c] = NoTag]
        /\ wire' = [wire EXCEPT ![c] = Tail(@)]
        /\ UNCHANGED <<queue, channel, timers, live>>
     \/ /\ Head(wire[c]).tag # unacked[c]
        /\ CloseChannel(c)
  /\ UNCHANGED <<sourceVars, pc, job, requests, outcomes, crashes, errors>>

\* The broker routes a republished message back to the queue.
BrokerPublishes(c) ==
  /\ wire[c] # <<>> /\ Head(wire[c]).op = "publish"
  /\ queue' = Append(queue, Head(wire[c]).msg)
  /\ wire' = [wire EXCEPT ![c] = Tail(@)]
  /\ UNCHANGED <<sourceVars, channel, unacked, timers, pc, handlerVars, requests,
                 outcomes, crashes, errors>>

\* The client library opens a new channel, or the process is restarted.
Reopen(c) ==
  /\ channel[c] = "closed"
  /\ channel' = [channel EXCEPT ![c] = "open"]
  /\ UNCHANGED <<sourceVars, queue, unacked, wire, timers, pc, handlerVars, requests,
                 outcomes, crashes, errors>>

LoseConnection(c) ==
  /\ channel[c] = "open" /\ crashes < MaxCrashes
  /\ crashes' = crashes + 1
  /\ CloseChannel(c)
  /\ UNCHANGED <<sourceVars, pc, job, requests, outcomes, errors>>

Crash(c) ==
  /\ crashes < MaxCrashes
  /\ crashes' = crashes + 1
  /\ CloseChannel(c)
  /\ pc' = [h \in Handlers |-> IF h[1] = c THEN "idle" ELSE pc[h]]
  /\ UNCHANGED <<sourceVars, job, requests, outcomes, errors>>

-----------------------------------------------------------------------------
(* createEventRewardRequest, from one await to the next.                   *)

Goto(h, from, to) == pc[h] = from /\ pc' = [pc EXCEPT ![h] = to]

\* metadata.messageId is read from the client's body, and throws when the body
\* has no metadata; then the event is read and checked.
ReadEvent(h) ==
  /\ Goto(h, "lookup", IF job[h].meta /\ Admits(job[h].event) THEN "existing"
                       ELSE "failed")
  /\ UNCHANGED <<sourceVars, brokerVars, handlerVars, requests, outcomes, crashes, errors>>

\* Redis is asked for an idempotency key that no code ever writes, so the answer
\* is always null and the collection is searched.
FindExisting(h) ==
  /\ Goto(h, "existing", IF Exists(job[h].user, job[h].event) THEN "failed" ELSE "save")
  /\ UNCHANGED <<sourceVars, brokerVars, handlerVars, requests, outcomes, crashes, errors>>

\* Mutant of NewDocument: the two statuses are swapped.
SwappedDocument(m) ==
  [user |-> m.user, event |-> m.event,
   status |-> IF Verdict[m.event] = "APPROVED" THEN "FAILED" ELSE "APPROVED"]

NewDocument(m) == [user |-> m.user, event |-> m.event, status |-> Verdict[m.event]]

\* The insert, which the unique index refuses for a pair already stored.
Save(h) ==
  /\ \/ /\ Goto(h, "save", "done")
        /\ ~ DuplicateKey(job[h].user, job[h].event)
        /\ requests' = Append(requests, NewDocument(job[h]))
     \/ /\ Goto(h, "save", "failed")
        /\ DuplicateKey(job[h].user, job[h].event)
        /\ UNCHANGED requests
  /\ UNCHANGED <<sourceVars, brokerVars, handlerVars, outcomes, crashes, errors>>

\* A database call fails before it takes effect.
StepFails(h) ==
  /\ errors < MaxErrors
  /\ \E from \in {"lookup", "existing", "save"} : Goto(h, from, "failed")
  /\ errors' = errors + 1
  /\ UNCHANGED <<sourceVars, brokerVars, handlerVars, requests, outcomes, crashes>>

\* The insert takes effect but its reply is lost.
SaveReplyLost(h) ==
  /\ errors < MaxErrors
  /\ Goto(h, "save", "failed")
  /\ ~ DuplicateKey(job[h].user, job[h].event)
  /\ requests' = Append(requests, NewDocument(job[h]))
  /\ errors' = errors + 1
  /\ UNCHANGED <<sourceVars, brokerVars, handlerVars, outcomes, crashes>>

-----------------------------------------------------------------------------
(* MessageInterceptor.                                                     *)

\* Mutant of Outcome: the retry limit is off by one.
OneRetryTooMany(h) ==
  CASE pc[h] = "done"                            -> "completed"
    [] pc[h] = "failed" /\ NoAck                 -> "dropped"
    [] pc[h] = "failed" /\ ~NoAck
         /\ job[h].retry <= MaxRetries           -> "retried"
    [] OTHER                                     -> "exhausted"

Outcome(h) ==
  CASE pc[h] = "done"                            -> "completed"
    [] pc[h] = "failed" /\ NoAck                 -> "dropped"
    [] pc[h] = "failed" /\ ~NoAck
         /\ job[h].retry < MaxRetries            -> "retried"
    [] OTHER                                     -> "exhausted"

\* The result of a handler whose delivery was taken back does not count.
Record(h) ==
  outcomes' = IF NoAck \/ live[h]
              THEN [outcomes EXCEPT ![job[h].id] = @ \cup {Outcome(h)}]
              ELSE outcomes

\* Mutant of Settlements: the delivery is neither acked nor rejected.
NoSettlement(h) == <<>>

\* Every layer of the interceptor acks or rejects the delivery in the same turn.
Settlements(h) == [i \in 1 .. config.layers |-> [op |-> "settle", tag |-> h[2]]]

\* Mutant of RetryTimers: a rejected message is not republished.
NoRetryTimers(h) == {}

\* Every layer that rejects also sets a timer, which republishes the message
\* with its retry count increased.
RetryTimers(h) ==
  {[msg |-> [job[h] EXCEPT !.retry = @ + 1], layer |-> l] : l \in 1 .. config.layers}

\* The handler's result or error passes the interceptor.  With acknowledgements
\* off, or on a dead channel, it does nothing to the broker.
Settle(h) ==
  /\ pc[h] \in {"done", "failed"}
  /\ pc' = [pc EXCEPT ![h] = "idle"]
  /\ Record(h)
  /\ live' = [live EXCEPT ![h] = FALSE]
  /\ IF NoAck \/ ~live[h]
     THEN UNCHANGED <<wire, timers>>
     ELSE /\ wire' = [wire EXCEPT ![h[1]] = @ \o Settlements(h)]
          /\ timers' = IF Outcome(h) = "retried"
                       THEN [timers EXCEPT ![h[1]] = @ \cup RetryTimers(h)]
                       ELSE timers
  /\ UNCHANGED <<sourceVars, queue, channel, unacked, job, requests, crashes, errors>>

\* A retry timer fires and publishes on the channel that delivered the message.
FireTimer(c, t) ==
  /\ t \in timers[c]
  /\ timers' = [timers EXCEPT ![c] = @ \ {t}]
  /\ wire' = [wire EXCEPT ![c] = Append(@, [op |-> "publish", msg |-> t.msg])]
  /\ UNCHANGED <<sourceVars, queue, channel, unacked, pc, handlerVars, requests,
                 outcomes, crashes, errors>>

-----------------------------------------------------------------------------
Source ==
  \/ \E e \in Events : CreateEvent(e) \/ PassTime(e)
  \/ \E u \in Users, e \in Events, m \in BOOLEAN : Emit(u, e, m)

Faults ==
  \/ \E c \in Consumers : LoseConnection(c) \/ Crash(c)
  \/ \E h \in Handlers : StepFails(h) \/ SaveReplyLost(h)

Broker(c) == BrokerSettles(c) \/ BrokerPublishes(c) \/ Reopen(c)

Handle(h) == ReadEvent(h) \/ FindExisting(h) \/ Save(h) \/ Settle(h)

Fire(c) == \E t \in timers[c] : FireTimer(c, t)

Next ==
  \/ Source
  \/ Faults
  \/ \E c \in Consumers : Broker(c) \/ Fire(c)
  \/ \E h \in Handlers : Deliver(h) \/ Handle(h)

Spec == Init /\ [][Next]_vars

\* What the runtime keeps going: the event loop resumes awaits and timers, the
\* broker handles frames and delivers while a consumer is free, the client
\* library reconnects.  Clients, operators, the clock and faults owe nothing.
Fairness ==
  /\ \A c \in Consumers :
       /\ WF_vars(BrokerSettles(c)) /\ WF_vars(BrokerPublishes(c))
       /\ WF_vars(Reopen(c)) /\ WF_vars(Fire(c))
       /\ WF_vars(\E s \in Slots : Deliver(<<c, s>>))
  /\ \A h \in Handlers : WF_vars(Handle(h))

FairSpec == Spec /\ Fairness

-----------------------------------------------------------------------------
(* Properties.                                                             *)

\* A (user, event) pair has at most one reward request, however many messages,
\* redeliveries, retries and concurrent handlers ask for it: the search before
\* the insert is not enough, the unique index is (reward-request.schema.ts:43).
OneRequestPerPair ==
  \A i, j \in DOMAIN requests :
    requests[i].user = requests[j].user /\ requests[i].event = requests[j].event => i = j

\* No request is stored for an event that is missing, inactive or not yet begun,
\* although the event is read two awaits before the insert.
RequestsAreForStartedEvents ==
  \A i \in DOMAIN requests : events[requests[i].event] \in {"during", "after"}

\* Where message i still is: ready, or taken by a handler that has not ended.
InQueue(i) == \E k \in DOMAIN queue : queue[k].id = i
Running(i) == \E h \in Handlers : pc[h] # "idle" /\ job[h].id = i

\* No published message left the system before a handler ran for it to the end.
NothingIsLost ==
  \A i \in 1 .. nextId - 1 : InQueue(i) \/ Running(i) \/ outcomes[i] # {}

\* With acknowledgements a crash, a lost connection or a closed channel never
\* swallows a message that was merely delivered: the queue is durable and takes an
\* unsettled delivery back.
NoLossBeforeAttempt == config.noAck = "unset" => NothingIsLost

\* The same for every text but "true": .env.example:14 sets "false", and
\* message.interceptor.ts:67 acknowledges when noAck is false.
FalseKeepsMessages == config.noAck # "true" => NothingIsLost

\* Where message i waits to come back to the queue.
Held(i) == \E c \in Consumers : unacked[c] # NoTag /\ job[<<c, unacked[c]>>].id = i
AboutToReturn(i) ==
  \E c \in Consumers :
    \/ \E t \in timers[c] : t.msg.id = i
    \/ \E k \in DOMAIN wire[c] : wire[c][k].op = "publish" /\ wire[c][k].msg.id = i

\* With acknowledgements a message is given up only when it was processed or failed
\* at its last retry ("the retry limit is exceeded", message.interceptor.ts:108).
DroppedOnlyWhenExhausted ==
  config.noAck = "unset" =>
    \A i \in 1 .. nextId - 1 :
      \/ InQueue(i) \/ Running(i) \/ Held(i) \/ AboutToReturn(i)
      \/ outcomes[i] \cap {"completed", "exhausted"} # {}

\* The protocol of one binding keeps that promise as long as no process crashes and
\* no connection is lost: a rejection and its republication lose nothing, whatever
\* fails in the handler.
OneBindingRetries == config.layers = 1 /\ crashes = 0 => DroppedOnlyWhenExhausted

\* The broker never holds two copies of one message, ready or delivered: retries
\* replace the delivery they follow and redeliveries replace lost ones.
SingleCopy ==
  /\ \A j, k \in DOMAIN queue : queue[j].id = queue[k].id => j = k
  /\ \A k \in DOMAIN queue : ~ Held(queue[k].id)
  /\ \A c, d \in Consumers :
       /\ unacked[c] # NoTag /\ unacked[d] # NoTag
       /\ job[<<c, unacked[c]>>].id = job[<<d, unacked[d]>>].id
       => c = d

\* With RABBIT_MQ_NO_ACK=true, which asks the broker to forget what it delivers, a
\* message is handled at most once: never again after a handler took it, not even
\* after a failure or a crash.
HandledAtMostOnce ==
  config.noAck = "true" =>
    \A g, h \in Handlers :
      pc[g] # "idle" =>
        /\ ~ InQueue(job[g].id)
        /\ outcomes[job[g].id] = {}
        /\ pc[h] # "idle" /\ job[h].id = job[g].id => g = h

\* A ready request for a running event is decided, unless the event ends first;
\* "meta" says whether the body carries the optional metadata.
Decided(u, e) == Exists(u, e)
Ready(u, e, m) ==
  \E k \in DOMAIN queue : queue[k].user = u /\ queue[k].event = e /\ queue[k].meta = m

Answered(m) ==
  \A u \in Users, e \in Events :
    Ready(u, e, m) /\ events[e] = "during" ~> Decided(u, e) \/ events[e] = "after"

\* A request whose body has metadata is decided, when no call fails and no
\* process crashes.
RequestsAreDecided == Answered(TRUE)

\* The same for a body without metadata, which CreateRewardRequestDto declares
\* optional (create-reward-request.dto.ts:12).
MetadataIsOptional == Answered(FALSE)

\* The queue empties: failing messages do not come back for ever, and a channel
\* closed by a protocol error does not stop consumption for good.
QueueDrains == []<>(queue = <<>>)

\* The collection, seen as a function from pairs to decisions.
DecisionOf(p) ==
  IF Exists(p[1], p[2])
  THEN requests[CHOOSE i \in DOMAIN requests :
                  requests[i].user = p[1] /\ requests[i].event = p[2]].status
  ELSE "none"

Ledger == INSTANCE RewardLedger WITH decision <- [p \in Pairs |-> DecisionOf(p)]

\* The pipeline implements the ledger: a decision is made only for a submitted
\* pair, once, with the event's verdict, and never changes.
ImplementsLedger == Ledger!Spec
=============================================================================
