------------------------ MODULE RewardRequestsProofs ------------------------
(***************************************************************************)
(* Proofs about RewardRequests, for every number of users, events,         *)
(* consumers, slots, messages, retries, configurations and faults.         *)
(***************************************************************************)
EXTENDS RewardRequests, TLAPS

\* The message of a running handler, and that of a delivery the broker may have
\* to requeue, is a message and not the placeholder.
JobsAreMessages ==
  /\ \A h \in Handlers : pc[h] # "idle" => job[h] \in Message
  /\ \A c \in Consumers : unacked[c] # NoTag => job[<<c, unacked[c]>>] \in Message

TypeInv == TypeOK /\ JobsAreMessages

USE BoundsAssumption, ConfigAssumption, TypesAssumption, NoMessageAssumption, NoTagAssumption

LEMMA TypeInit == Init => TypeInv
BY DEF Init, TypeInv, TypeOK, JobsAreMessages, EventStates, Phases, Ids

\* Closing a channel keeps the broker's state well typed: what it requeues is a
\* message.
LEMMA CloseChannelType ==
  ASSUME TypeInv, NEW c \in Consumers, CloseChannel(c)
  PROVE  /\ queue' \in Seq(Message)
         /\ channel' \in [Consumers -> {"open", "closed"}]
         /\ unacked' \in [Consumers -> Slots \cup {NoTag}]
         /\ wire' \in [Consumers -> Seq(Frame)]
         /\ timers' \in [Consumers -> SUBSET Timer]
         /\ live' \in [Handlers -> BOOLEAN]
         /\ \A d \in Consumers : unacked'[d] # NoTag => unacked'[d] = unacked[d]
<1>1. queue' \in Seq(Message)
  BY DEF CloseChannel, TypeInv, TypeOK, JobsAreMessages
<1>2. channel' \in [Consumers -> {"open", "closed"}]
  BY DEF CloseChannel, TypeInv, TypeOK
<1>3. /\ unacked' \in [Consumers -> Slots \cup {NoTag}]
      /\ \A d \in Consumers : unacked'[d] # NoTag => unacked'[d] = unacked[d]
  BY DEF CloseChannel, TypeInv, TypeOK
<1>4. wire' \in [Consumers -> Seq(Frame)]
  BY DEF CloseChannel, TypeInv, TypeOK
<1>5. timers' \in [Consumers -> SUBSET Timer]
  BY DEF CloseChannel, TypeInv, TypeOK
<1>6. live' \in [Handlers -> BOOLEAN]
  BY DEF CloseChannel, TypeInv, TypeOK
<1> QED BY <1>1, <1>2, <1>3, <1>4, <1>5, <1>6

LEMMA TypeSource == TypeInv /\ Source => TypeInv'
<1> SUFFICES ASSUME TypeInv, Source PROVE TypeInv'
  OBVIOUS
<1> USE DEF TypeInv, TypeOK, JobsAreMessages, brokerVars, handlerVars
<1>1. ASSUME NEW e \in Events, CreateEvent(e) PROVE TypeInv'
  BY <1>1 DEF CreateEvent
<1>2. ASSUME NEW e \in Events, PassTime(e) PROVE TypeInv'
  BY <1>2 DEF PassTime, EventStates
<1>3. ASSUME NEW u \in Users, NEW e \in Events, NEW m \in BOOLEAN, Emit(u, e, m)
      PROVE TypeInv'
  <2> DEFINE msg == [id |-> nextId, user |-> u, event |-> e, meta |-> m, retry |-> 0]
  <2>1. msg \in Message
    BY <1>3 DEF Emit, Message, Ids
  <2>2. queue' \in Seq(Message)
    BY <1>3, <2>1 DEF Emit
  <2>3. nextId' \in 1 .. MaxMessages + 1 /\ submitted' \in SUBSET Pairs
    BY <1>3 DEF Emit, Pairs
  <2> QED BY <1>3, <2>2, <2>3 DEF Emit
<1> QED BY <1>1, <1>2, <1>3 DEF Source

LEMMA TypeDeliver == ASSUME NEW h \in Handlers, TypeInv, Deliver(h) PROVE TypeInv'
<1> USE DEF TypeInv, TypeOK, JobsAreMessages
<1>1. PICK c \in Consumers, s \in Slots : h = <<c, s>>
  BY DEF Handlers
<1>2. Head(queue) \in Message /\ queue' \in Seq(Message)
  BY DEF Deliver
<1>3. /\ unacked' \in [Consumers -> Slots \cup {NoTag}]
      /\ pc' \in [Handlers -> Phases]
      /\ job' \in [Handlers -> Message \cup {NoMessage}]
      /\ live' \in [Handlers -> BOOLEAN]
  BY <1>1, <1>2 DEF Deliver, Phases
<1>4. JobsAreMessages'
  BY <1>1, <1>2 DEF Deliver, Handlers
<1> QED BY <1>2, <1>3, <1>4 DEF Deliver, sourceVars

LEMMA TypeBroker == ASSUME NEW c \in Consumers, TypeInv, Broker(c) PROVE TypeInv'
<1> USE DEF TypeInv, TypeOK, JobsAreMessages
<1>1. CASE BrokerSettles(c)
  <2>1. CASE CloseChannel(c)
    <3> HIDE DEF TypeInv, TypeOK, JobsAreMessages
    <3>1. /\ queue' \in Seq(Message)
          /\ channel' \in [Consumers -> {"open", "closed"}]
          /\ unacked' \in [Consumers -> Slots \cup {NoTag}]
          /\ wire' \in [Consumers -> Seq(Frame)]
          /\ timers' \in [Consumers -> SUBSET Timer]
          /\ live' \in [Handlers -> BOOLEAN]
          /\ \A d \in Consumers : unacked'[d] # NoTag => unacked'[d] = unacked[d]
      BY <2>1, CloseChannelType
    <3> QED BY <1>1, <3>1 DEF BrokerSettles, sourceVars, TypeInv, TypeOK, JobsAreMessages
  <2>2. CASE /\ unacked' = [unacked EXCEPT ![c] = NoTag]
             /\ wire' = [wire EXCEPT ![c] = Tail(@)]
             /\ UNCHANGED <<queue, channel, timers, live>>
    <3>1. wire' \in [Consumers -> Seq(Frame)]
      BY <1>1, <2>2 DEF BrokerSettles
    <3>2. unacked' \in [Consumers -> Slots \cup {NoTag}]
      BY <2>2
    <3> QED BY <1>1, <2>2, <3>1, <3>2 DEF BrokerSettles, sourceVars
  <2> QED BY <1>1, <2>1, <2>2 DEF BrokerSettles
<1>2. CASE BrokerPublishes(c)
  <2>1. Head(wire[c]) \in Publication
    BY <1>2 DEF BrokerPublishes, Frame, Settlement, Publication
  <2>2. queue' \in Seq(Message) /\ wire' \in [Consumers -> Seq(Frame)]
    BY <1>2, <2>1 DEF BrokerPublishes, Publication
  <2> QED BY <1>2, <2>2 DEF BrokerPublishes, sourceVars, handlerVars
<1>3. CASE Reopen(c)
  BY <1>3 DEF Reopen, sourceVars, handlerVars
<1> QED BY <1>1, <1>2, <1>3 DEF Broker

LEMMA TypeFaults == TypeInv /\ Faults => TypeInv'
<1> SUFFICES ASSUME TypeInv, Faults PROVE TypeInv'
  OBVIOUS
<1>1. ASSUME NEW c \in Consumers, LoseConnection(c) \/ Crash(c) PROVE TypeInv'
  <2>1. /\ queue' \in Seq(Message)
        /\ channel' \in [Consumers -> {"open", "closed"}]
        /\ unacked' \in [Consumers -> Slots \cup {NoTag}]
        /\ wire' \in [Consumers -> Seq(Frame)]
        /\ timers' \in [Consumers -> SUBSET Timer]
        /\ live' \in [Handlers -> BOOLEAN]
        /\ \A d \in Consumers : unacked'[d] # NoTag => unacked'[d] = unacked[d]
    BY <1>1, CloseChannelType DEF LoseConnection, Crash
  <2>2. crashes' \in 0 .. MaxCrashes
    BY <1>1 DEF LoseConnection, Crash, TypeInv, TypeOK
  <2>3. CASE LoseConnection(c)
    BY <2>1, <2>2, <2>3 DEF LoseConnection, sourceVars, TypeInv, TypeOK, JobsAreMessages
  <2>4. CASE Crash(c)
    <3>1. /\ pc' \in [Handlers -> Phases]
          /\ \A h \in Handlers : pc'[h] # "idle" => pc[h] = pc'[h]
      BY <2>4 DEF Crash, TypeInv, TypeOK, Phases
    <3> QED BY <2>1, <2>2, <2>4, <3>1 DEF Crash, sourceVars, TypeInv, TypeOK, JobsAreMessages
  <2> QED BY <1>1, <2>3, <2>4
<1>2. ASSUME NEW h \in Handlers, StepFails(h) PROVE TypeInv'
  BY <1>2 DEF StepFails, Goto, Phases, TypeInv, TypeOK, JobsAreMessages, sourceVars,
              brokerVars, handlerVars
<1>3. ASSUME NEW h \in Handlers, SaveReplyLost(h) PROVE TypeInv'
  <2>1. NewDocument(job[h]) \in Document
    BY <1>3 DEF SaveReplyLost, Goto, TypeInv, TypeOK, JobsAreMessages, NewDocument,
                Document, Verdict, Verdicts, Message
  <2> QED
    BY <1>3, <2>1 DEF SaveReplyLost, Goto, Phases, TypeInv, TypeOK, JobsAreMessages,
                      sourceVars, brokerVars, handlerVars
<1> QED BY <1>1, <1>2, <1>3 DEF Faults

LEMMA SettleType ==
  ASSUME NEW h \in Handlers, TypeInv, Settle(h)
  PROVE  /\ wire' \in [Consumers -> Seq(Frame)]
         /\ timers' \in [Consumers -> SUBSET Timer]
         /\ outcomes' \in [Ids -> SUBSET {"completed", "retried", "exhausted", "dropped"}]
<1>1. PICK c \in Consumers, s \in Slots : h = <<c, s>>
  BY DEF Handlers
<1>2. job[h] \in Message
  BY DEF Settle, TypeInv, JobsAreMessages
<1>3. Outcome(h) \in {"completed", "retried", "exhausted", "dropped"}
  BY DEF Outcome
<1>4. outcomes' \in [Ids -> SUBSET {"completed", "retried", "exhausted", "dropped"}]
  <2>1. job[h].id \in Ids
    BY <1>2 DEF Message
  <2> QED BY <1>3, <2>1 DEF Settle, Record, TypeInv, TypeOK
<1>5. Settlements(h) \in Seq(Frame)
  <2>1. [op |-> "settle", tag |-> s] \in Frame
    BY DEF Frame, Settlement
  <2>2. config.layers \in Nat
    BY DEF TypeInv, TypeOK, Config
  <2> QED BY <1>1, <2>1, <2>2 DEF Settlements
<1>6. wire' \in [Consumers -> Seq(Frame)]
  <2>1. wire \in [Consumers -> Seq(Frame)] /\ h[1] = c
    BY <1>1 DEF TypeInv, TypeOK
  <2>2. wire[c] \o Settlements(h) \in Seq(Frame)
    BY <1>5, <2>1
  <2>3. wire' = wire \/ wire' = [wire EXCEPT ![h[1]] = @ \o Settlements(h)]
    BY DEF Settle
  <2> QED BY <2>1, <2>2, <2>3
<1>7. ASSUME Outcome(h) = "retried" PROVE RetryTimers(h) \subseteq Timer
  <2>1. job[h].retry < MaxRetries
    BY <1>7 DEF Outcome
  <2>2. [job[h] EXCEPT !.retry = @ + 1] \in Message
    BY <1>2, <2>1 DEF Message
  <2> QED BY <2>2 DEF RetryTimers, Timer
<1>8. timers' \in [Consumers -> SUBSET Timer]
  <2>1. timers \in [Consumers -> SUBSET Timer] /\ h[1] = c
    BY <1>1 DEF TypeInv, TypeOK
  <2>2. \/ timers' = timers
        \/ /\ Outcome(h) = "retried"
           /\ timers' = [timers EXCEPT ![h[1]] = @ \cup RetryTimers(h)]
    BY DEF Settle
  <2> QED BY <1>7, <2>1, <2>2
<1> QED BY <1>4, <1>6, <1>8

LEMMA TypeHandle == ASSUME NEW h \in Handlers, TypeInv, Handle(h) PROVE TypeInv'
<1>1. CASE ReadEvent(h)
  BY <1>1 DEF ReadEvent, Goto, Phases, TypeInv, TypeOK, JobsAreMessages, sourceVars,
              brokerVars, handlerVars
<1>2. CASE FindExisting(h)
  BY <1>2 DEF FindExisting, Goto, Phases, TypeInv, TypeOK, JobsAreMessages, sourceVars,
              brokerVars, handlerVars
<1>3. CASE Save(h)
  <2>1. NewDocument(job[h]) \in Document
    BY <1>3 DEF Save, Goto, TypeInv, TypeOK, JobsAreMessages, NewDocument, Document,
                Verdict, Verdicts, Message
  <2>2. requests' \in Seq(Document)
    <3>1. requests \in Seq(Document)
      BY DEF TypeInv, TypeOK
    <3>2. requests' = requests \/ requests' = Append(requests, NewDocument(job[h]))
      BY <1>3 DEF Save
    <3> QED BY <2>1, <3>1, <3>2
  <2>3. /\ pc' \in [Handlers -> Phases]
        /\ \A g \in Handlers : pc'[g] # "idle" => pc[g] # "idle"
    BY <1>3 DEF Save, Goto, Phases, TypeInv, TypeOK
  <2>4. UNCHANGED <<sourceVars, brokerVars, handlerVars, outcomes, crashes, errors>>
    BY <1>3 DEF Save
  <2> QED
    BY <2>2, <2>3, <2>4 DEF TypeInv, TypeOK, JobsAreMessages, sourceVars, brokerVars,
                            handlerVars
<1>4. CASE Settle(h)
  <2>1. pc' \in [Handlers -> Phases] /\ live' \in [Handlers -> BOOLEAN]
    BY <1>4 DEF Settle, Phases, TypeInv, TypeOK
  <2>2. JobsAreMessages'
    BY <1>4 DEF Settle, TypeInv, TypeOK, JobsAreMessages
  <2> QED BY <1>4, <2>1, <2>2, SettleType DEF Settle, TypeInv, TypeOK, sourceVars
<1> QED BY <1>1, <1>2, <1>3, <1>4 DEF Handle

LEMMA TypeFire == ASSUME NEW c \in Consumers, TypeInv, Fire(c) PROVE TypeInv'
<1>1. PICK t \in timers[c] : FireTimer(c, t)
  BY DEF Fire
<1>2. t \in Timer
  BY DEF TypeInv, TypeOK
<1>3. [op |-> "publish", msg |-> t.msg] \in Frame
  BY <1>2 DEF Timer, Frame, Publication
<1>4. wire' \in [Consumers -> Seq(Frame)] /\ timers' \in [Consumers -> SUBSET Timer]
  BY <1>1, <1>3 DEF FireTimer, TypeInv, TypeOK
<1> QED BY <1>1, <1>4 DEF FireTimer, TypeInv, TypeOK, JobsAreMessages, sourceVars,
                          handlerVars

LEMMA TypeStep == TypeInv /\ [Next]_vars => TypeInv'
<1> SUFFICES ASSUME TypeInv, [Next]_vars PROVE TypeInv'
  OBVIOUS
<1>1. CASE Next
  BY <1>1, TypeSource, TypeFaults, TypeBroker, TypeFire, TypeDeliver, TypeHandle DEF Next
<1>2. CASE UNCHANGED vars
  BY <1>2 DEF vars, TypeInv, TypeOK, JobsAreMessages
<1> QED BY <1>1, <1>2

LEMMA TypeInvariant == Spec => []TypeInv
BY TypeInit, TypeStep, PTL DEF Spec

\* Every variable keeps its type: in particular no republished message exceeds
\* the retry limit, and what is requeued is always a message.
THEOREM TypeCorrect == Spec => []TypeOK
BY TypeInvariant, PTL DEF TypeInv
-----------------------------------------------------------------------------
(* Stored requests.                                                        *)

\* Handler h inserts the document of its message, which the index admits.
Inserts(h) ==
  /\ pc[h] = "save"
  /\ ~ Exists(job[h].user, job[h].event)
  /\ requests' = Append(requests, NewDocument(job[h]))
  /\ UNCHANGED <<events, submitted>>

\* The collection changes only by such inserts.
LEMMA RequestsStep ==
  ASSUME [Next]_vars
  PROVE  requests' = requests \/ \E h \in Handlers : Inserts(h)
<1>1. CASE Source
  BY <1>1 DEF Source, CreateEvent, PassTime, Emit
<1>2. CASE Faults
  BY <1>2 DEF Faults, LoseConnection, Crash, StepFails, SaveReplyLost, Goto, Inserts,
              DuplicateKey, sourceVars
<1>3. ASSUME NEW c \in Consumers, Broker(c) \/ Fire(c) PROVE requests' = requests
  BY <1>3 DEF Broker, BrokerSettles, BrokerPublishes, Reopen, Fire, FireTimer
<1>4. ASSUME NEW h \in Handlers, Deliver(h) \/ Handle(h)
      PROVE requests' = requests \/ Inserts(h)
  BY <1>4 DEF Deliver, Handle, ReadEvent, FindExisting, Save, Settle, Goto, Inserts,
              DuplicateKey, sourceVars
<1>5. CASE UNCHANGED vars
  BY <1>5 DEF vars
<1> QED BY <1>1, <1>2, <1>3, <1>4, <1>5 DEF Next

\* What an insert does to the collection.
LEMMA InsertedDocument ==
  ASSUME TypeInv, NEW h \in Handlers, Inserts(h)
  PROVE  /\ job[h] \in Message
         /\ requests \in Seq(Document)
         /\ requests' \in Seq(Document)
         /\ Len(requests') = Len(requests) + 1
         /\ \A i \in DOMAIN requests : requests'[i] = requests[i]
         /\ requests'[Len(requests) + 1] = NewDocument(job[h])
<1>1. job[h] \in Message
  BY DEF Inserts, TypeInv, JobsAreMessages
<1>2. NewDocument(job[h]) \in Document
  BY <1>1 DEF NewDocument, Document, Verdict, Verdicts, Message
<1>3. requests \in Seq(Document)
  BY DEF TypeInv, TypeOK
<1> QED BY <1>1, <1>2, <1>3 DEF Inserts

LEMMA OneRequestStep ==
  TypeInv /\ OneRequestPerPair /\ [Next]_vars => OneRequestPerPair'
<1> SUFFICES ASSUME TypeInv, OneRequestPerPair, [Next]_vars PROVE OneRequestPerPair'
  OBVIOUS
<1>1. CASE requests' = requests
  BY <1>1 DEF OneRequestPerPair
<1>2. ASSUME NEW h \in Handlers, Inserts(h) PROVE OneRequestPerPair'
  <2>1. SUFFICES ASSUME NEW i \in DOMAIN requests', NEW j \in DOMAIN requests',
                        requests'[i].user = requests'[j].user,
                        requests'[i].event = requests'[j].event
                 PROVE  i = j
    BY DEF OneRequestPerPair
  <2> DEFINE n == Len(requests) + 1
  <2>2. /\ requests \in Seq(Document) /\ requests' \in Seq(Document)
        /\ Len(requests') = n
        /\ \A k \in DOMAIN requests : requests'[k] = requests[k]
        /\ requests'[n].user = job[h].user /\ requests'[n].event = job[h].event
    <3>1. requests'[n] = NewDocument(job[h])
      BY <1>2, InsertedDocument
    <3> QED BY <1>2, <3>1, InsertedDocument DEF NewDocument
  <2>3. \A k \in DOMAIN requests :
          ~ (requests[k].user = job[h].user /\ requests[k].event = job[h].event)
    BY <1>2 DEF Inserts, Exists
  <2>4. DOMAIN requests = 1 .. n - 1 /\ DOMAIN requests' = 1 .. n /\ n \in Nat
    BY <2>2
  <2>5. CASE i \in DOMAIN requests /\ j \in DOMAIN requests
    BY <2>1, <2>2, <2>5 DEF OneRequestPerPair
  <2>6. CASE i = n /\ j \in DOMAIN requests
    BY <2>1, <2>2, <2>3, <2>6
  <2>7. CASE j = n /\ i \in DOMAIN requests
    BY <2>1, <2>2, <2>3, <2>7
  <2>8. i = n \/ i \in DOMAIN requests
    BY <2>4
  <2>9. j = n \/ j \in DOMAIN requests
    BY <2>4
  <2> QED BY <2>5, <2>6, <2>7, <2>8, <2>9
<1> QED BY <1>1, <1>2, RequestsStep

\* A pair has at most one stored request, whatever the consumers do: in every
\* configuration of acknowledgements, layers and retries, and through crashes.
THEOREM OneRequestPerPairHolds == Spec => []OneRequestPerPair
<1>1. Init => OneRequestPerPair
  BY DEF Init, OneRequestPerPair
<1> QED BY <1>1, TypeInvariant, OneRequestStep, PTL DEF Spec
-----------------------------------------------------------------------------
(* Requests and the events they are for.                                   *)

Started(e) == events[e] \in {"during", "after"}

\* A handler past the event checks, and a stored request, belong to an event
\* that has begun; events never go back.
StartedInv ==
  /\ \A h \in Handlers : pc[h] \in {"existing", "save"} => Started(job[h].event)
  /\ RequestsAreForStartedEvents

LEMMA EventsAdvance ==
  ASSUME TypeInv, [Next]_vars, NEW e \in Events, Started(e)
  PROVE  Started(e)'
<1>1. CASE Source
  BY <1>1 DEF Source, CreateEvent, PassTime, Emit, TypeInv, TypeOK, Started
<1>2. CASE Faults
  BY <1>2 DEF Faults, LoseConnection, Crash, StepFails, SaveReplyLost, sourceVars, Started
<1>3. ASSUME NEW c \in Consumers, Broker(c) \/ Fire(c) PROVE Started(e)'
  BY <1>3 DEF Broker, BrokerSettles, BrokerPublishes, Reopen, Fire, FireTimer, sourceVars,
              Started
<1>4. ASSUME NEW h \in Handlers, Deliver(h) \/ Handle(h) PROVE Started(e)'
  BY <1>4 DEF Deliver, Handle, ReadEvent, FindExisting, Save, Settle, sourceVars, Started
<1>5. CASE UNCHANGED vars
  BY <1>5 DEF vars, Started
<1> QED BY <1>1, <1>2, <1>3, <1>4, <1>5 DEF Next

\* A handler is past the event checks only because it was so before, with the
\* same message, or because it has just passed them.
LEMMA AdmittedStep ==
  ASSUME TypeInv, [Next]_vars, NEW g \in Handlers, pc'[g] \in {"existing", "save"}
  PROVE  /\ job'[g] = job[g]
         /\ pc[g] \in {"existing", "save"} \/ Started(job[g].event)
<1> USE DEF TypeInv, TypeOK
<1>1. CASE Source
  BY <1>1 DEF Source, CreateEvent, PassTime, Emit, handlerVars
<1>2. CASE Faults
  <2>1. ASSUME NEW c \in Consumers, LoseConnection(c) \/ Crash(c)
        PROVE  job'[g] = job[g] /\ pc'[g] = pc[g]
    BY <2>1 DEF LoseConnection, Crash
  <2>2. ASSUME NEW h \in Handlers, StepFails(h) \/ SaveReplyLost(h)
        PROVE  job'[g] = job[g] /\ pc'[g] = pc[g]
    BY <2>2 DEF StepFails, SaveReplyLost, Goto, handlerVars
  <2> QED BY <1>2, <2>1, <2>2 DEF Faults
<1>3. ASSUME NEW c \in Consumers, Broker(c) \/ Fire(c)
      PROVE  pc'[g] = pc[g] /\ job'[g] = job[g]
  BY <1>3 DEF Broker, BrokerSettles, BrokerPublishes, Reopen, Fire, FireTimer, handlerVars
<1>4. ASSUME NEW h \in Handlers, Deliver(h) \/ FindExisting(h) \/ Save(h) \/ Settle(h)
      PROVE  job'[g] = job[g] /\ pc[g] \in {"existing", "save"}
  BY <1>4 DEF Deliver, FindExisting, Save, Settle, Goto, handlerVars
<1>5. ASSUME NEW h \in Handlers, ReadEvent(h)
      PROVE  /\ job'[g] = job[g]
             /\ pc[g] \in {"existing", "save"} \/ Started(job[g].event)
  BY <1>5 DEF ReadEvent, Goto, handlerVars, Admits, Started
<1>6. CASE UNCHANGED vars
  BY <1>6 DEF vars
<1> QED BY <1>1, <1>2, <1>3, <1>4, <1>5, <1>6 DEF Next, Handle

LEMMA StartedStep == TypeInv /\ StartedInv /\ [Next]_vars => StartedInv'
<1> SUFFICES ASSUME TypeInv, StartedInv, [Next]_vars PROVE StartedInv'
  OBVIOUS
<1>1. ASSUME NEW g \in Handlers, pc'[g] \in {"existing", "save"}
      PROVE  Started(job[g].event)' /\ job'[g] = job[g]
  <2>1. /\ job'[g] = job[g]
        /\ pc[g] \in {"existing", "save"} \/ Started(job[g].event)
    BY <1>1, AdmittedStep
  <2>2. Started(job[g].event)
    BY <2>1 DEF StartedInv
  <2>3. TypeInv'
    BY TypeStep
  <2>4. job[g].event \in Events
    BY <1>1, <2>1, <2>3 DEF TypeInv, JobsAreMessages, Message
  <2>5. \A e \in Events : Started(e) => Started(e)'
    BY EventsAdvance
  <2> QED BY <2>1, <2>2, <2>4, <2>5 DEF Started
<1>2. RequestsAreForStartedEvents'
  <2>1. SUFFICES ASSUME NEW i \in DOMAIN requests'
                 PROVE  events'[requests'[i].event] \in {"during", "after"}
    BY DEF RequestsAreForStartedEvents
  <2>2. \A e \in Events : Started(e) => events'[e] \in {"during", "after"}
    BY EventsAdvance DEF Started
  <2>3. \A k \in DOMAIN requests :
          requests[k].event \in Events /\ Started(requests[k].event)
    <3>1. requests \in Seq(Document)
      BY DEF TypeInv, TypeOK
    <3>2. \A k \in DOMAIN requests : requests[k] \in Document
      BY <3>1
    <3>3. \A k \in DOMAIN requests : requests[k].event \in Events
      BY <3>2 DEF Document
    <3> QED BY <3>3 DEF StartedInv, RequestsAreForStartedEvents, Started
  <2>4. CASE requests' = requests
    BY <2>1, <2>2, <2>3, <2>4
  <2>5. ASSUME NEW h \in Handlers, Inserts(h)
        PROVE  events'[requests'[i].event] \in {"during", "after"}
    <3>1. /\ requests \in Seq(Document) /\ requests' \in Seq(Document)
          /\ Len(requests') = Len(requests) + 1
          /\ \A k \in DOMAIN requests : requests'[k] = requests[k]
          /\ requests'[Len(requests) + 1] = NewDocument(job[h])
          /\ job[h] \in Message
      BY <2>5, InsertedDocument
    <3>2. NewDocument(job[h]).event = job[h].event /\ job[h].event \in Events
      BY <3>1 DEF NewDocument, Message
    <3>3. Started(job[h].event)
      BY <2>5 DEF Inserts, StartedInv
    <3>4. i \in DOMAIN requests \/ i = Len(requests) + 1
      BY <3>1
    <3>5. CASE i \in DOMAIN requests
      BY <2>2, <2>3, <3>1, <3>5
    <3>6. CASE i = Len(requests) + 1
      BY <2>2, <3>1, <3>2, <3>3, <3>6
    <3> QED BY <3>4, <3>5, <3>6
  <2> QED BY <2>4, <2>5, RequestsStep
<1> QED BY <1>1, <1>2 DEF StartedInv, Started

\* The two awaits between reading the event and inserting never let a request
\* through for an event that has not begun.
THEOREM StartedEventsHold == Spec => []RequestsAreForStartedEvents
<1>1. Init => StartedInv
  BY DEF Init, StartedInv, RequestsAreForStartedEvents
<1>2. StartedInv => RequestsAreForStartedEvents
  BY DEF StartedInv
<1> QED BY <1>1, <1>2, TypeInvariant, StartedStep, PTL DEF Spec
-----------------------------------------------------------------------------
(* Messages and the submissions they come from.                            *)

Asked(m) == <<m.user, m.event>> \in submitted

\* Every message in the queue, with a handler, awaiting its settlement, held by
\* a timer or on its way back to the queue is for a submitted pair.
AskedInv ==
  /\ \A k \in DOMAIN queue : Asked(queue[k])
  /\ \A h \in Handlers : pc[h] # "idle" => Asked(job[h])
  /\ \A c \in Consumers : unacked[c] # NoTag => Asked(job[<<c, unacked[c]>>])
  /\ \A c \in Consumers : \A t \in timers[c] : Asked(t.msg)
  /\ \A c \in Consumers : \A k \in DOMAIN wire[c] :
       wire[c][k].op = "publish" => Asked(wire[c][k].msg)

LEMMA AskedInit == Init => AskedInv
BY DEF Init, AskedInv

\* Closing a channel moves only messages that were asked for.
LEMMA AskedClose ==
  ASSUME TypeInv, AskedInv, NEW c \in Consumers, CloseChannel(c)
  PROVE  /\ \A k \in DOMAIN queue' : Asked(queue'[k])
         /\ \A d \in Consumers : unacked'[d] # NoTag => unacked'[d] = unacked[d]
         /\ \A d \in Consumers : \A t \in timers'[d] : Asked(t.msg)
         /\ \A d \in Consumers : \A k \in DOMAIN wire'[d] :
              wire'[d][k].op = "publish" => Asked(wire'[d][k].msg)
<1>1. \A k \in DOMAIN queue' : Asked(queue'[k])
  <2>1. queue \in Seq(Message) /\ \A k \in DOMAIN queue : Asked(queue[k])
    BY DEF TypeInv, TypeOK, AskedInv
  <2>2. CASE queue' = queue
    BY <2>1, <2>2
  <2>3. CASE /\ unacked[c] # NoTag
             /\ queue' = <<job[<<c, unacked[c]>>]>> \o queue
    <3>1. Asked(job[<<c, unacked[c]>>])
      BY <2>3 DEF AskedInv
    <3>2. /\ Len(queue') = Len(queue) + 1
          /\ queue'[1] = job[<<c, unacked[c]>>]
          /\ \A k \in 2 .. Len(queue) + 1 : queue'[k] = queue[k - 1]
          /\ DOMAIN queue' = 1 .. Len(queue) + 1
      BY <2>1, <2>3
    <3>3. ASSUME NEW k \in DOMAIN queue' PROVE Asked(queue'[k])
      <4>1. CASE k = 1
        BY <3>1, <3>2, <4>1
      <4>2. CASE k # 1
        <5>1. k - 1 \in DOMAIN queue /\ queue'[k] = queue[k - 1]
          BY <2>1, <3>2, <3>3, <4>2
        <5> QED BY <2>1, <5>1
      <4> QED BY <4>1, <4>2
    <3> QED BY <3>3
  <2> QED BY <2>2, <2>3 DEF CloseChannel
<1>2. \A d \in Consumers : unacked'[d] # NoTag => unacked'[d] = unacked[d]
  BY DEF CloseChannel, TypeInv, TypeOK
<1>3. \A d \in Consumers : \A t \in timers'[d] : Asked(t.msg)
  BY DEF CloseChannel, TypeInv, TypeOK, AskedInv
<1>4. \A d \in Consumers : \A k \in DOMAIN wire'[d] :
        wire'[d][k].op = "publish" => Asked(wire'[d][k].msg)
  BY DEF CloseChannel, TypeInv, TypeOK, AskedInv
<1> QED BY <1>1, <1>2, <1>3, <1>4

LEMMA AskedSource == TypeInv /\ AskedInv /\ Source => AskedInv'
<1> SUFFICES ASSUME TypeInv, AskedInv, Source PROVE AskedInv'
  OBVIOUS
<1>1. CASE UNCHANGED <<submitted, brokerVars, pc, handlerVars>>
  BY <1>1 DEF AskedInv, Asked, brokerVars, handlerVars
<1>2. ASSUME NEW u \in Users, NEW e \in Events, NEW m \in BOOLEAN, Emit(u, e, m)
      PROVE AskedInv'
  <2>1. submitted \subseteq submitted' /\ <<u, e>> \in submitted'
    BY <1>2 DEF Emit
  <2>2. \A k \in DOMAIN queue' : Asked(queue[k])'
    <3>1. queue \in Seq(Message) /\ \A k \in DOMAIN queue : Asked(queue[k])
      BY DEF TypeInv, TypeOK, AskedInv
    <3> DEFINE msg == [id |-> nextId, user |-> u, event |-> e, meta |-> m, retry |-> 0]
    <3>2. msg.user = u /\ msg.event = e /\ queue' = Append(queue, msg)
      BY <1>2 DEF Emit
    <3> HIDE DEF msg
    <3>3. \A k \in DOMAIN queue' : k \in DOMAIN queue \/ queue'[k] = msg
      BY <3>1, <3>2
    <3>4. \A k \in DOMAIN queue : queue'[k] = queue[k]
      BY <3>1, <3>2
    <3> QED BY <2>1, <3>1, <3>2, <3>3, <3>4 DEF Asked
  <2> QED BY <1>2, <2>1, <2>2 DEF Emit, AskedInv, Asked, handlerVars
<1> QED BY <1>1, <1>2 DEF Source, CreateEvent, PassTime, brokerVars

LEMMA AskedDeliver ==
  ASSUME NEW h \in Handlers, TypeInv, AskedInv, Deliver(h) PROVE AskedInv'
<1>1. PICK c \in Consumers, s \in Slots : h = <<c, s>>
  BY DEF Handlers
<1>2. queue \in Seq(Message) /\ queue # <<>> /\ \A k \in DOMAIN queue : Asked(queue[k])
  BY DEF Deliver, TypeInv, TypeOK, AskedInv
<1>3. Asked(Head(queue))
  BY <1>2
<1>4. \A k \in DOMAIN queue' : Asked(queue'[k])
  <2>1. \A k \in DOMAIN Tail(queue) :
          k + 1 \in DOMAIN queue /\ Tail(queue)[k] = queue[k + 1]
    BY <1>2
  <2> QED BY <1>2, <2>1 DEF Deliver
<1>5. \A g \in Handlers : pc'[g] # "idle" => Asked(job'[g])
  BY <1>3 DEF Deliver, AskedInv, TypeInv, TypeOK
<1>6. \A d \in Consumers : unacked'[d] # NoTag => Asked(job'[<<d, unacked'[d]>>])
  BY <1>1, <1>3 DEF Deliver, AskedInv, TypeInv, TypeOK, Handlers
<1>7. UNCHANGED <<submitted, timers, wire>>
  BY DEF Deliver, sourceVars
<1> QED BY <1>4, <1>5, <1>6, <1>7 DEF AskedInv, Asked

LEMMA AskedBroker ==
  ASSUME NEW c \in Consumers, TypeInv, AskedInv, Broker(c) PROVE AskedInv'
<1>1. CASE BrokerSettles(c)
  <2>1. CASE CloseChannel(c)
    BY <1>1, <2>1, AskedClose DEF BrokerSettles, sourceVars, AskedInv, Asked
  <2>2. CASE /\ unacked' = [unacked EXCEPT ![c] = NoTag]
             /\ wire' = [wire EXCEPT ![c] = Tail(@)]
             /\ UNCHANGED <<queue, channel, timers, live>>
    <3>1. \A d \in Consumers : unacked'[d] # NoTag => unacked'[d] = unacked[d]
      BY <2>2 DEF TypeInv, TypeOK
    <3>2. wire[c] \in Seq(Frame) /\ wire[c] # <<>>
      BY <1>1 DEF BrokerSettles, TypeInv, TypeOK
    <3>3. \A d \in Consumers : \A k \in DOMAIN wire'[d] :
            wire'[d][k].op = "publish" => Asked(wire'[d][k].msg)
      <4>1. \A k \in DOMAIN Tail(wire[c]) :
              k + 1 \in DOMAIN wire[c] /\ Tail(wire[c])[k] = wire[c][k + 1]
        BY <3>2
      <4>2. wire \in [Consumers -> Seq(Frame)]
        BY DEF TypeInv, TypeOK
      <4>3. wire'[c] = Tail(wire[c]) /\ \A d \in Consumers \ {c} : wire'[d] = wire[d]
        BY <2>2, <4>2
      <4>4. \A d \in Consumers : \A k \in DOMAIN wire[d] :
              wire[d][k].op = "publish" => Asked(wire[d][k].msg)
        BY DEF AskedInv
      <4>5. \A k \in DOMAIN Tail(wire[c]) :
              Tail(wire[c])[k].op = "publish" => Asked(Tail(wire[c])[k].msg)
        BY <4>1, <4>4
      <4> QED BY <4>3, <4>4, <4>5
    <3>4. UNCHANGED <<submitted, pc, job>>
      BY <1>1 DEF BrokerSettles, sourceVars
    <3>5. \A d \in Consumers : unacked'[d] # NoTag => Asked(job[<<d, unacked'[d]>>])
      BY <3>1 DEF AskedInv
    <3>6. UNCHANGED <<queue, timers>>
      BY <2>2
    <3> QED BY <3>3, <3>4, <3>5, <3>6 DEF AskedInv, Asked
  <2> QED BY <1>1, <2>1, <2>2 DEF BrokerSettles
<1>2. CASE BrokerPublishes(c)
  <2>1. /\ wire[c] \in Seq(Frame) /\ wire[c] # <<>>
        /\ wire \in [Consumers -> Seq(Frame)] /\ queue \in Seq(Message)
    BY <1>2 DEF BrokerPublishes, TypeInv, TypeOK
  <2>2. \A d \in Consumers : \A k \in DOMAIN wire'[d] :
          wire'[d][k].op = "publish" => Asked(wire'[d][k].msg)
    <3>1. \A k \in DOMAIN Tail(wire[c]) :
            k + 1 \in DOMAIN wire[c] /\ Tail(wire[c])[k] = wire[c][k + 1]
      BY <2>1
    <3> QED BY <1>2, <2>1, <3>1 DEF BrokerPublishes, AskedInv
  <2>3. \A k \in DOMAIN queue' : Asked(queue'[k])
    <3>1. Head(wire[c]) = wire[c][1] /\ 1 \in DOMAIN wire[c]
      BY <2>1
    <3>2. Asked(Head(wire[c]).msg)
      BY <1>2, <3>1 DEF BrokerPublishes, AskedInv
    <3> DEFINE msg == Head(wire[c]).msg
    <3>3. queue' = Append(queue, msg)
      BY <1>2 DEF BrokerPublishes
    <3>4. \A k \in DOMAIN queue : Asked(queue[k])
      BY DEF AskedInv
    <3> HIDE DEF msg
    <3>5. \A k \in DOMAIN queue' : queue'[k] = msg \/ k \in DOMAIN queue
      BY <2>1, <3>3
    <3>6. \A k \in DOMAIN queue : queue'[k] = queue[k]
      BY <2>1, <3>3
    <3> QED BY <3>2, <3>4, <3>5, <3>6 DEF msg
  <2> QED BY <1>2, <2>2, <2>3 DEF BrokerPublishes, sourceVars, handlerVars, AskedInv, Asked
<1>3. CASE Reopen(c)
  BY <1>3 DEF Reopen, sourceVars, handlerVars, AskedInv, Asked
<1> QED BY <1>1, <1>2, <1>3 DEF Broker

LEMMA AskedFaults == TypeInv /\ AskedInv /\ Faults => AskedInv'
<1> SUFFICES ASSUME TypeInv, AskedInv, Faults PROVE AskedInv'
  OBVIOUS
<1>1. ASSUME NEW c \in Consumers, LoseConnection(c) \/ Crash(c) PROVE AskedInv'
  <2>1. /\ \A h \in Handlers : pc'[h] # "idle" => pc[h] # "idle"
        /\ UNCHANGED <<submitted, job>>
    BY <1>1 DEF LoseConnection, Crash, sourceVars
  <2> QED BY <1>1, <2>1, AskedClose DEF LoseConnection, Crash, AskedInv, Asked
<1>2. ASSUME NEW h \in Handlers, StepFails(h) \/ SaveReplyLost(h) PROVE AskedInv'
  <2>1. /\ \A g \in Handlers : pc'[g] # "idle" => pc[g] # "idle"
        /\ UNCHANGED <<submitted, brokerVars, job>>
    BY <1>2 DEF StepFails, SaveReplyLost, Goto, sourceVars, handlerVars, TypeInv, TypeOK
  <2> QED BY <2>1 DEF brokerVars, AskedInv, Asked
<1> QED BY <1>1, <1>2 DEF Faults

LEMMA AskedHandle ==
  ASSUME NEW h \in Handlers, TypeInv, AskedInv, Handle(h) PROVE AskedInv'
<1>1. CASE ReadEvent(h) \/ FindExisting(h) \/ Save(h)
  <2>1. /\ \A g \in Handlers : pc'[g] # "idle" => pc[g] # "idle"
        /\ UNCHANGED <<submitted, brokerVars, job>>
    BY <1>1 DEF ReadEvent, FindExisting, Save, Goto, sourceVars, handlerVars, TypeInv, TypeOK
  <2> QED BY <2>1 DEF brokerVars, AskedInv, Asked
<1>2. CASE Settle(h)
  <2>1. PICK c \in Consumers, s \in Slots : h = <<c, s>>
    BY DEF Handlers
  <2>2. /\ \A g \in Handlers : pc'[g] # "idle" => pc[g] # "idle"
        /\ UNCHANGED <<submitted, queue, unacked, job>>
    BY <1>2 DEF Settle, sourceVars, TypeInv, TypeOK
  <2>3. job[h] \in Message /\ Asked(job[h])
    BY <1>2 DEF Settle, AskedInv, TypeInv, JobsAreMessages
  <2>4. \A d \in Consumers : \A t \in timers'[d] : Asked(t.msg)
    <3>1. \A t \in RetryTimers(h) : Asked(t.msg)
      BY <2>3 DEF RetryTimers, Asked, Message
    <3>2. \/ timers' = timers
          \/ timers' = [timers EXCEPT ![h[1]] = @ \cup RetryTimers(h)]
      BY <1>2 DEF Settle
    <3>3. timers \in [Consumers -> SUBSET Timer] /\ h[1] = c
      BY <2>1 DEF TypeInv, TypeOK
    <3> QED BY <3>1, <3>2, <3>3 DEF AskedInv
  <2>5. \A d \in Consumers : \A k \in DOMAIN wire'[d] :
          wire'[d][k].op = "publish" => Asked(wire'[d][k].msg)
    <3>1. wire' = wire \/ wire' = [wire EXCEPT ![h[1]] = @ \o Settlements(h)]
      BY <1>2 DEF Settle
    <3>2. wire \in [Consumers -> Seq(Frame)] /\ h[1] = c
      BY <2>1 DEF TypeInv, TypeOK
    <3>3. /\ Settlements(h) \in Seq(Settlement)
          /\ \A k \in DOMAIN Settlements(h) : Settlements(h)[k].op = "settle"
      <4>1. config.layers \in Nat
        BY DEF TypeInv, TypeOK, Config
      <4>2. [op |-> "settle", tag |-> s] \in Settlement
        BY DEF Settlement
      <4>3. Settlements(h) \in Seq(Settlement)
        BY <2>1, <4>1, <4>2 DEF Settlements
      <4>4. \A k \in DOMAIN Settlements(h) : Settlements(h)[k].op = "settle"
        BY <2>1, <4>1 DEF Settlements
      <4> QED BY <4>3, <4>4
    <3>4. ASSUME NEW k \in DOMAIN (wire[c] \o Settlements(h)),
                 (wire[c] \o Settlements(h))[k].op = "publish"
          PROVE  Asked((wire[c] \o Settlements(h))[k].msg)
      <4>1. wire[c] \in Seq(Frame)
        BY <3>2
      <4> DEFINE ws == wire[c]
                 ss == Settlements(h)
      <4>2. \A j \in DOMAIN ws : ws[j].op = "publish" => Asked(ws[j].msg)
        BY DEF AskedInv
      <4> HIDE DEF ws, ss
      <4>3. \/ k \in DOMAIN ws /\ (ws \o ss)[k] = ws[k]
            \/ k - Len(ws) \in DOMAIN ss /\ (ws \o ss)[k] = ss[k - Len(ws)]
        BY <3>3, <3>4, <4>1 DEF ws, ss
      <4> QED BY <3>3, <3>4, <4>2, <4>3 DEF ws, ss
    <3> QED BY <3>1, <3>2, <3>4 DEF AskedInv
  <2> QED BY <2>2, <2>4, <2>5 DEF AskedInv, Asked
<1> QED BY <1>1, <1>2 DEF Handle

LEMMA AskedFire ==
  ASSUME NEW c \in Consumers, TypeInv, AskedInv, Fire(c) PROVE AskedInv'
<1>1. PICK t \in timers[c] : FireTimer(c, t)
  BY DEF Fire
<1>2. Asked(t.msg)
  BY DEF AskedInv
<1>3. \A d \in Consumers : \A k \in DOMAIN wire'[d] :
        wire'[d][k].op = "publish" => Asked(wire'[d][k].msg)
  <2> DEFINE frame == [op |-> "publish", msg |-> t.msg]
  <2>1. frame.msg = t.msg /\ wire' = [wire EXCEPT ![c] = Append(@, frame)]
    BY <1>1 DEF FireTimer
  <2> HIDE DEF frame
  <2>2. wire \in [Consumers -> Seq(Frame)] /\ wire[c] \in Seq(Frame)
    BY DEF TypeInv, TypeOK
  <2>3. \A k \in DOMAIN Append(wire[c], frame) :
          \/ k \in DOMAIN wire[c] /\ Append(wire[c], frame)[k] = wire[c][k]
          \/ Append(wire[c], frame)[k] = frame
    BY <2>2
  <2> QED BY <1>2, <2>1, <2>2, <2>3 DEF AskedInv
<1>4. \A d \in Consumers : timers'[d] \subseteq timers[d]
  BY <1>1 DEF FireTimer, TypeInv, TypeOK
<1> QED BY <1>1, <1>3, <1>4 DEF FireTimer, sourceVars, handlerVars, AskedInv, Asked

LEMMA AskedStep == TypeInv /\ AskedInv /\ [Next]_vars => AskedInv'
<1> SUFFICES ASSUME TypeInv, AskedInv, [Next]_vars PROVE AskedInv'
  OBVIOUS
<1>1. CASE Next
  BY <1>1, AskedSource, AskedFaults, AskedBroker, AskedFire, AskedDeliver, AskedHandle
     DEF Next
<1>2. CASE UNCHANGED vars
  BY <1>2 DEF vars, AskedInv, Asked
<1> QED BY <1>1, <1>2
-----------------------------------------------------------------------------
(* The pipeline implements the ledger.                                     *)

\* How a step changes the variables the ledger sees.
LEMMA VisibleStep ==
  ASSUME [Next]_vars
  PROVE  \/ UNCHANGED <<submitted, requests>>
         \/ \E p \in Pairs : submitted' = submitted \cup {p} /\ UNCHANGED requests
         \/ \E h \in Handlers : Inserts(h)
<1>1. CASE Source
  BY <1>1 DEF Source, CreateEvent, PassTime, Emit, Pairs
<1>2. CASE Faults
  <2>1. submitted' = submitted
    BY <1>2 DEF Faults, LoseConnection, Crash, StepFails, SaveReplyLost, sourceVars
  <2> QED BY <2>1, RequestsStep
<1>3. ASSUME NEW c \in Consumers, Broker(c) \/ Fire(c) PROVE submitted' = submitted
  BY <1>3 DEF Broker, BrokerSettles, BrokerPublishes, Reopen, Fire, FireTimer, sourceVars
<1>4. ASSUME NEW h \in Handlers, Deliver(h) \/ Handle(h) PROVE submitted' = submitted
  BY <1>4 DEF Deliver, Handle, ReadEvent, FindExisting, Save, Settle, sourceVars
<1>5. CASE UNCHANGED vars
  BY <1>5 DEF vars
<1> QED BY <1>1, <1>2, <1>3, <1>4, <1>5, RequestsStep DEF Next

\* A stored request is the decision of its pair, whichever one CHOOSE picks.
DecisionsAreStored ==
  \A p \in Pairs : \A i \in DOMAIN requests :
    requests[i].user = p[1] /\ requests[i].event = p[2]
    => DecisionOf(p) = requests[i].status

LEMMA DecisionIsStored == OneRequestPerPair => DecisionsAreStored
<1> SUFFICES ASSUME OneRequestPerPair, NEW p \in Pairs, NEW i \in DOMAIN requests,
                    requests[i].user = p[1], requests[i].event = p[2]
             PROVE  DecisionOf(p) = requests[i].status
  BY DEF DecisionsAreStored
<1> DEFINE For(j) == requests[j].user = p[1] /\ requests[j].event = p[2]
           found == CHOOSE j \in DOMAIN requests : For(j)
<1>1. found \in DOMAIN requests /\ For(found)
  OBVIOUS
<1>2. found = i
  BY <1>1 DEF OneRequestPerPair
<1>3. Exists(p[1], p[2])
  BY DEF Exists
<1> QED BY <1>2, <1>3 DEF DecisionOf

\* An insert is the ledger's decision of the pair of its message.
LEMMA InsertDecides ==
  ASSUME TypeInv, AskedInv, DecisionsAreStored, DecisionsAreStored',
         NEW h \in Handlers, Inserts(h)
  PROVE  \E q \in Pairs : Ledger!Decide(q)
<1> DEFINE n == Len(requests) + 1
<1>1. /\ job[h] \in Message
      /\ requests \in Seq(Document) /\ requests' \in Seq(Document)
      /\ Len(requests') = n
      /\ \A i \in DOMAIN requests : requests'[i] = requests[i]
      /\ requests'[n] = NewDocument(job[h])
  BY InsertedDocument
<1>2. PICK q \in Pairs : q = <<job[h].user, job[h].event>>
  BY <1>1 DEF Message, Pairs
<1>3. /\ DOMAIN requests' = DOMAIN requests \cup {n}
      /\ n \in DOMAIN requests'
  BY <1>1
<1>4. q \in submitted /\ UNCHANGED submitted
  BY <1>2 DEF Inserts, AskedInv, Asked
<1>5. DecisionOf(q) = "none"
  BY <1>2 DEF Inserts, DecisionOf
<1>6. DecisionOf(q)' = Verdict[q[2]]
  <2>1. /\ requests'[n].user = q[1]
        /\ requests'[n].event = q[2]
        /\ requests'[n].status = Verdict[q[2]]
    BY <1>1, <1>2 DEF NewDocument
  <2> QED BY <1>2, <1>3, <2>1 DEF DecisionsAreStored
<1>7. ASSUME NEW p \in Pairs, p # q PROVE DecisionOf(p)' = DecisionOf(p)
  <2>1. ~ (requests'[n].user = p[1] /\ requests'[n].event = p[2])
    <3>1. p = <<p[1], p[2]>>
      BY DEF Pairs
    <3>2. requests'[n].user = job[h].user /\ requests'[n].event = job[h].event
      BY <1>1 DEF NewDocument
    <3> QED BY <1>2, <1>7, <3>1, <3>2
  <2>2. CASE Exists(p[1], p[2])
    <3>1. PICK i \in DOMAIN requests : requests[i].user = p[1] /\ requests[i].event = p[2]
      BY <2>2 DEF Exists
    <3>2. DecisionOf(p) = requests[i].status
      BY <3>1 DEF DecisionsAreStored
    <3>3. i \in DOMAIN requests' /\ requests'[i] = requests[i]
      BY <1>1, <1>3
    <3>4. DecisionOf(p)' = requests'[i].status
      BY <3>1, <3>3 DEF DecisionsAreStored
    <3> QED BY <3>2, <3>3, <3>4
  <2>3. CASE ~ Exists(p[1], p[2])
    <3>1. ~ Exists(p[1], p[2])'
      BY <1>1, <1>3, <2>1, <2>3 DEF Exists
    <3> QED BY <2>3, <3>1 DEF DecisionOf
  <2> QED BY <2>2, <2>3
<1>8. [p \in Pairs |-> DecisionOf(p)']
        = [[p \in Pairs |-> DecisionOf(p)] EXCEPT ![q] = Verdict[q[2]]]
  <2>1. \A p \in Pairs : DecisionOf(p)' = IF p = q THEN Verdict[q[2]] ELSE DecisionOf(p)
    BY <1>6, <1>7
  <2> QED BY <1>2, <2>1
<1> QED BY <1>2, <1>4, <1>5, <1>8 DEF Ledger!Decide

LEMMA LedgerStep ==
  ASSUME TypeInv, AskedInv, DecisionsAreStored, DecisionsAreStored', [Next]_vars
  PROVE  [Ledger!Next]_(Ledger!vars)
<1>1. CASE UNCHANGED <<submitted, requests>>
  BY <1>1 DEF Ledger!vars, DecisionOf, Exists
<1>2. ASSUME NEW p \in Pairs, submitted' = submitted \cup {p}, UNCHANGED requests
      PROVE  Ledger!Next
  <2>1. Ledger!Submit(p)
    BY <1>2 DEF Ledger!Submit, DecisionOf, Exists
  <2> QED BY <2>1 DEF Ledger!Next, Ledger!Pairs, Pairs
<1>3. ASSUME NEW h \in Handlers, Inserts(h) PROVE Ledger!Next
  BY <1>3, InsertDecides DEF Ledger!Next, Ledger!Pairs, Pairs
<1> QED BY <1>1, <1>2, <1>3, VisibleStep

\* The pipeline implements the ledger: whatever the queue, the retries, the
\* concurrent handlers and the crashes do, a submitted pair is decided at most
\* once, with its event's verdict, and the decision stands.
THEOREM LedgerImplemented == Spec => ImplementsLedger
<1>1. Init => Ledger!Init
  BY DEF Init, Ledger!Init, DecisionOf, Exists, Ledger!Pairs, Pairs
<1>2. TypeInv /\ AskedInv /\ DecisionsAreStored /\ DecisionsAreStored' /\ [Next]_vars
      => [Ledger!Next]_(Ledger!vars)
  BY LedgerStep
<1>3. Spec => []AskedInv
  BY AskedInit, AskedStep, TypeInvariant, PTL DEF Spec
<1>4. Spec => []DecisionsAreStored
  BY DecisionIsStored, OneRequestPerPairHolds, PTL
<1> QED
  BY <1>1, <1>2, <1>3, <1>4, TypeInvariant, PTL
     DEF Spec, ImplementsLedger, Ledger!Spec
=============================================================================
