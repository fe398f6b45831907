--------------------------- MODULE DeliveryProofs ---------------------------
(***************************************************************************)
(* Proofs about where the messages of RewardRequests are: that none is     *)
(* lost before it was tried, that none exists twice, that a rejection and  *)
(* its republication lose nothing when the interceptor is bound once, and  *)
(* that nothing is ever republished when it is bound more than once.       *)
(***************************************************************************)
EXTENDS RewardRequestsProofs

AckOn == config.noAck = "unset"

-----------------------------------------------------------------------------
(* The invariants.                                                         *)

\* Only ids that were given out are in use.
IdsInv ==
  /\ \A k \in DOMAIN queue : queue[k].id < nextId
  /\ \A h \in Handlers : pc[h] # "idle" => job[h].id < nextId
  /\ \A c \in Consumers : unacked[c] # NoTag => job[<<c, unacked[c]>>].id < nextId
  /\ \A c \in Consumers : \A t \in timers[c] : t.msg.id < nextId
  /\ \A c \in Consumers : \A k \in DOMAIN wire[c] :
       wire[c][k].op = "publish" => wire[c][k].msg.id < nextId
  /\ \A i \in Ids : i >= nextId => outcomes[i] = {}

\* Without acknowledgements nothing is ever taken back or republished.
Unsettled ==
  \A c \in Consumers : unacked[c] = NoTag /\ wire[c] = <<>> /\ timers[c] = {}

QueueDistinct == \A j, k \in DOMAIN queue : queue[j].id = queue[k].id => j = k
ReadyUntried == \A k \in DOMAIN queue : outcomes[queue[k].id] = {}

\* A running handler is the only one for its message, which is neither ready nor over.
Alone(g) ==
  /\ \A k \in DOMAIN queue : queue[k].id # job[g].id
  /\ outcomes[job[g].id] = {}
  /\ \A h \in Handlers : pc[h] # "idle" /\ job[h].id = job[g].id => g = h
AllAlone == \A g \in Handlers : pc[g] # "idle" => Alone(g)

\* Without acknowledgements a message is ready, or with one handler, or over.
OnceInv == ~ AckOn => Unsettled /\ QueueDistinct /\ ReadyUntried /\ AllAlone

\* With acknowledgements the broker waits for the tag of every handler that works
\* for the current channel, and a frame about a tag is sent after its handler ended.
LiveIsUnacked == \A h \in Handlers : live[h] => unacked[h[1]] = h[2]
SettledIsOver ==
  \A c \in Consumers : \A k \in DOMAIN wire[c] :
    wire[c][k].op = "settle" => ~ live[<<c, wire[c][k].tag>>]
TagInv == AckOn => LiveIsUnacked /\ SettledIsOver

\* A handler works for the current delivery of message i.
Working(i) == \E h \in Handlers : pc[h] # "idle" /\ live[h] /\ job[h].id = i

\* A message is ready, worked on, or was tried: a handler of a dead channel does not
\* count, for its message went back to the queue.
TriedInv ==
  AckOn => \A i \in 1 .. nextId - 1 : InQueue(i) \/ Working(i) \/ outcomes[i] # {}

\* One layer: the only settlement on a channel is the one the broker waits for.
OneSettlement ==
  \A c \in Consumers : \A j, k \in DOMAIN wire[c] :
    wire[c][j].op = "settle" =>
      /\ wire[c][j].tag = unacked[c]
      /\ wire[c][k].op = "settle" => j = k

\* Several layers: the first settlement on a channel has been, or will be, answered by
\* closing it, because the second finds the delivery gone.
Doomed(c) ==
  /\ wire[c][1].op = "settle"
  /\ \/ wire[c][1].tag # unacked[c]
     \/ 2 \in DOMAIN wire[c] /\ wire[c][2].op = "settle" /\ wire[c][2].tag = wire[c][1].tag
AllDoomed ==
  \A c \in Consumers :
    /\ wire[c] # <<>> => Doomed(c)
    /\ timers[c] # {} => wire[c] # <<>>

SettleInv ==
  AckOn => /\ config.layers = 1 => OneSettlement
           /\ config.layers # 1 => AllDoomed

\* With several layers no message was ever rejected and came back.
FirstTries ==
  /\ \A k \in DOMAIN queue : queue[k].retry = 0
  /\ \A c \in Consumers : unacked[c] # NoTag => job[<<c, unacked[c]>>].retry = 0

\* With the interceptor bound more than once, as main.ts and the
\* controller bind it, no failed message ever comes back: a message that is
\* republished would have its retry count raised.
NothingComesBack == AckOn /\ config.layers # 1 => FirstTries

\* Message i is about to return through channel c, from a timer or the wire.
Timed(c, i) == \E t \in timers[c] : t.msg.id = i
Sent(c, k, i) == wire[c][k].op = "publish" /\ wire[c][k].msg.id = i
Returning(c, i) == Timed(c, i) \/ \E k \in DOMAIN wire[c] : Sent(c, k, i)

\* It is about to return once.
OneTimer == \A c \in Consumers : \A t, u \in timers[c] : t.msg.id = u.msg.id => t = u
OneFrame ==
  \A c \in Consumers, i \in Ids : \A j, k \in DOMAIN wire[c] :
    Sent(c, j, i) /\ Sent(c, k, i) => j = k
TimerOrFrame ==
  \A c \in Consumers, i \in Ids : \A k \in DOMAIN wire[c] : Sent(c, k, i) => ~ Timed(c, i)
OneWayBack ==
  \A c, d \in Consumers, i \in Ids : Returning(c, i) /\ Returning(d, i) => c = d

\* The settlement of the delivery it replaces goes before it.
HeldId(c) == job[<<c, unacked[c]>>].id
SettlementFirst ==
  \A c, d \in Consumers :
    unacked[c] # NoTag =>
      /\ Timed(d, HeldId(c)) => c = d /\ \E j \in DOMAIN wire[c] : wire[c][j].op = "settle"
      /\ \A k \in DOMAIN wire[d] : Sent(d, k, HeldId(c)) =>
           c = d /\ \E j \in DOMAIN wire[c] : j < k /\ wire[c][j].op = "settle"

\* One layer: a message that is about to return is not ready, is about to return
\* once, and after its settlement.
ReadyStays == \A c \in Consumers : \A k \in DOMAIN queue : ~ Returning(c, queue[k].id)
ReturnParts ==
  ReadyStays /\ OneTimer /\ OneFrame /\ TimerOrFrame /\ OneWayBack /\ SettlementFirst
ReturnInv == AckOn /\ config.layers = 1 => ReturnParts

\* One layer, no crash: a message is ready, worked on, about to return, or ended.
RetriedInv ==
  AckOn /\ config.layers = 1 /\ crashes = 0 =>
    \A i \in 1 .. nextId - 1 :
      \/ InQueue(i) \/ Working(i) \/ AboutToReturn(i)
      \/ outcomes[i] \cap {"completed", "exhausted"} # {}

-----------------------------------------------------------------------------
(* Sequences, element by element.                                          *)

LEMMA AppendItems ==
  ASSUME NEW S, NEW q \in Seq(S), NEW x \in S
  PROVE  /\ \A k \in DOMAIN q : k \in DOMAIN Append(q, x) /\ Append(q, x)[k] = q[k]
         /\ \A k \in DOMAIN Append(q, x) :
              \/ k \in DOMAIN q /\ Append(q, x)[k] = q[k]
              \/ k = Len(q) + 1 /\ Append(q, x)[k] = x
         /\ Len(q) + 1 \in DOMAIN Append(q, x) /\ Append(q, x)[Len(q) + 1] = x
OBVIOUS

LEMMA TailItems ==
  ASSUME NEW S, NEW q \in Seq(S), q # <<>>
  PROVE  /\ 1 \in DOMAIN q /\ Head(q) = q[1] /\ Head(q) \in S
         /\ \A k \in DOMAIN Tail(q) : k \in Int /\ k + 1 \in DOMAIN q /\ Tail(q)[k] = q[k + 1]
         /\ \A k \in DOMAIN q :
              k \in Int /\ (k = 1 \/ (k - 1 \in DOMAIN Tail(q) /\ Tail(q)[k - 1] = q[k]))
<1>1. Len(q) \in Nat /\ Len(q) >= 1 /\ DOMAIN q = 1 .. Len(q)
  OBVIOUS
<1>2. DOMAIN Tail(q) = 1 .. Len(q) - 1 /\ \A k \in 1 .. Len(q) - 1 : Tail(q)[k] = q[k + 1]
  OBVIOUS
<1>3. Head(q) = q[1] /\ q[1] \in S
  BY <1>1
<1>4. ASSUME NEW k \in DOMAIN q, k # 1
      PROVE  k - 1 \in DOMAIN Tail(q) /\ Tail(q)[k - 1] = q[k]
  <2>1. k \in Int /\ k - 1 \in 1 .. Len(q) - 1 /\ (k - 1) + 1 = k
    BY <1>1, <1>4
  <2> QED BY <1>2, <2>1
<1>5. ASSUME NEW k \in DOMAIN Tail(q)
      PROVE  k \in Int /\ k + 1 \in DOMAIN q /\ Tail(q)[k] = q[k + 1]
  BY <1>1, <1>2, <1>5
<1> QED BY <1>1, <1>3, <1>4, <1>5

LEMMA ConcatItems ==
  ASSUME NEW S, NEW q \in Seq(S), NEW r \in Seq(S)
  PROVE  /\ \A k \in DOMAIN q : k \in DOMAIN (q \o r) /\ (q \o r)[k] = q[k]
         /\ \A k \in DOMAIN (q \o r) :
              \/ k \in DOMAIN q /\ (q \o r)[k] = q[k]
              \/ /\ k - Len(q) \in DOMAIN r /\ (q \o r)[k] = r[k - Len(q)]
                 /\ k > Len(q)
         /\ \A k \in DOMAIN r :
              k + Len(q) \in DOMAIN (q \o r) /\ (q \o r)[k + Len(q)] = r[k]
<1>1. /\ Len(q) \in Nat /\ DOMAIN q = 1 .. Len(q)
      /\ Len(r) \in Nat /\ DOMAIN r = 1 .. Len(r)
  OBVIOUS
<1>2. DOMAIN (q \o r) = 1 .. Len(q) + Len(r)
  OBVIOUS
<1>3. \A k \in 1 .. Len(q) + Len(r) :
        (q \o r)[k] = IF k <= Len(q) THEN q[k] ELSE r[k - Len(q)]
  OBVIOUS
<1> QED BY <1>1, <1>2, <1>3

-----------------------------------------------------------------------------
(* The steps, as they move messages.                                       *)

deliveryVars == <<config, nextId, queue, unacked, wire, timers, job, live, outcomes, crashes>>

\* Handlers advance and the rest of the system moves, but no message does.
Stays == UNCHANGED deliveryVars /\ \A h \in Handlers : pc'[h] = "idle" <=> pc[h] = "idle"

Emits(m) ==
  /\ m \in Message /\ m.id = nextId /\ m.retry = 0
  /\ queue' = Append(queue, m) /\ nextId' = nextId + 1
  /\ UNCHANGED <<config, unacked, wire, timers, pc, job, live, outcomes, crashes>>

Acks(c) ==
  /\ wire[c] # <<>> /\ Head(wire[c]).op = "settle" /\ Head(wire[c]).tag = unacked[c]
  /\ unacked' = [unacked EXCEPT ![c] = NoTag]
  /\ wire' = [wire EXCEPT ![c] = Tail(@)]
  /\ UNCHANGED <<config, nextId, queue, timers, pc, job, live, outcomes, crashes>>

\* A channel closes, by a settlement the broker does not wait for or by a fault.
Closes(c) ==
  /\ CloseChannel(c)
  /\ \/ /\ wire[c] # <<>> /\ Head(wire[c]).op = "settle" /\ Head(wire[c]).tag # unacked[c]
        /\ crashes' = crashes
     \/ crashes' = crashes + 1
  /\ \A h \in Handlers : pc'[h] = pc[h] \/ (h[1] = c /\ pc'[h] = "idle")
  /\ UNCHANGED <<config, nextId, job, outcomes>>

LEMMA Moves ==
  ASSUME TypeInv, [Next]_vars
  PROVE  \/ Stays
         \/ \E m \in Message : Emits(m)
         \/ \E h \in Handlers : Deliver(h) \/ Settle(h)
         \/ \E c \in Consumers : Acks(c) \/ Closes(c) \/ BrokerPublishes(c) \/ Fire(c)
<1> USE DEF sourceVars, brokerVars, handlerVars
<1>1. CASE Source
  <2>1. ASSUME NEW u \in Users, NEW e \in Events, NEW b \in BOOLEAN, Emit(u, e, b)
        PROVE  \E m \in Message : Emits(m)
    <3> DEFINE m == [id |-> nextId, user |-> u, event |-> e, meta |-> b, retry |-> 0]
    <3>1. m \in Message
      BY <2>1, BoundsAssumption DEF Emit, Message, Ids, TypeInv, TypeOK
    <3> QED BY <2>1, <3>1 DEF Emit, Emits
  <2> QED BY <1>1, <2>1 DEF Source, CreateEvent, PassTime, Stays, deliveryVars
<1>2. CASE Faults
  <2>1. ASSUME NEW c \in Consumers, LoseConnection(c) \/ Crash(c) PROVE Closes(c)
    <3>1. CloseChannel(c)
      BY <2>1 DEF LoseConnection, Crash
    <3>3. crashes' = crashes + 1 /\ UNCHANGED <<config, nextId, job, outcomes>>
      BY <2>1 DEF LoseConnection, Crash
    <3>2. \A h \in Handlers : pc'[h] = pc[h] \/ (h[1] = c /\ pc'[h] = "idle")
      BY <2>1 DEF LoseConnection, Crash
    <3> QED BY <3>1, <3>2, <3>3 DEF Closes
  <2>2. ASSUME NEW h \in Handlers, StepFails(h) \/ SaveReplyLost(h) PROVE Stays
    BY <2>2 DEF StepFails, SaveReplyLost, Goto, Stays, deliveryVars, TypeInv, TypeOK
  <2> QED BY <1>2, <2>1, <2>2 DEF Faults
<1>3. ASSUME NEW c \in Consumers, Broker(c)
      PROVE  Stays \/ Acks(c) \/ Closes(c) \/ BrokerPublishes(c)
  <2>1. CASE BrokerSettles(c)
    <3>1. /\ wire[c] # <<>> /\ Head(wire[c]).op = "settle"
          /\ UNCHANGED <<config, nextId, pc, job, outcomes, crashes>>
      BY <2>1 DEF BrokerSettles
    <3>2. CASE Head(wire[c]).tag = unacked[c]
      BY <2>1, <3>1, <3>2 DEF BrokerSettles, Acks
    <3>3. CASE Head(wire[c]).tag # unacked[c]
      <4>1. CloseChannel(c)
        BY <2>1, <3>3 DEF BrokerSettles
      <4>2. \A h \in Handlers : pc'[h] = pc[h] \/ (h[1] = c /\ pc'[h] = "idle")
        BY <3>1
      <4>3. UNCHANGED <<config, nextId, job, outcomes>> /\ crashes' = crashes
        BY <3>1
      <4> QED BY <3>1, <3>3, <4>1, <4>2, <4>3 DEF Closes
    <3> QED BY <3>2, <3>3
  <2>2. CASE Reopen(c)
    BY <2>2 DEF Reopen, Stays, deliveryVars
  <2> QED BY <1>3, <2>1, <2>2 DEF Broker
<1>4. ASSUME NEW h \in Handlers, ReadEvent(h) \/ FindExisting(h) \/ Save(h) PROVE Stays
  BY <1>4 DEF ReadEvent, FindExisting, Save, Goto, Stays, deliveryVars, TypeInv, TypeOK
<1>5. CASE UNCHANGED vars
  BY <1>5 DEF vars, Stays, deliveryVars
<1> QED BY <1>1, <1>2, <1>3, <1>4, <1>5 DEF Next, Handle

-----------------------------------------------------------------------------
(* What each step does to the queue, the wire and the timers, one by one.  *)

LEMMA EmitItems ==
  ASSUME TypeInv, NEW m \in Message, Emits(m)
  PROVE  /\ \A k \in DOMAIN queue : k \in DOMAIN queue' /\ queue'[k] = queue[k]
         /\ \A k \in DOMAIN queue' :
              \/ k \in DOMAIN queue /\ queue'[k] = queue[k]
              \/ k = Len(queue) + 1 /\ queue'[k] = m
         /\ Len(queue) + 1 \in DOMAIN queue' /\ queue'[Len(queue) + 1] = m
BY AppendItems DEF Emits, TypeInv, TypeOK

\* The head of the queue moves to the handler, the rest moves up.
LEMMA DeliverItems ==
  ASSUME TypeInv, NEW c \in Consumers, NEW s \in Slots, Deliver(<<c, s>>)
  PROVE  /\ 1 \in DOMAIN queue /\ job'[<<c, s>>] = queue[1]
         /\ \A k \in DOMAIN queue' :
              k \in Int /\ k + 1 \in DOMAIN queue /\ queue'[k] = queue[k + 1]
         /\ \A k \in DOMAIN queue :
              k = 1 \/ (k - 1 \in DOMAIN queue' /\ queue'[k - 1] = queue[k])
         /\ live'[<<c, s>>] /\ pc'[<<c, s>>] = "lookup" /\ pc[<<c, s>>] = "idle"
         /\ \A g \in Handlers \ {<<c, s>>} :
              pc'[g] = pc[g] /\ job'[g] = job[g] /\ live'[g] = live[g]
         /\ unacked'[c] = IF AckOn THEN s ELSE NoTag
         /\ AckOn => unacked[c] = NoTag
         /\ \A d \in Consumers \ {c} : unacked'[d] = unacked[d]
         /\ UNCHANGED <<config, nextId, wire, timers, outcomes, crashes>>
<1>1. queue \in Seq(Message) /\ queue # <<>> /\ queue' = Tail(queue)
  BY DEF Deliver, TypeInv, TypeOK
<1>2. /\ 1 \in DOMAIN queue /\ Head(queue) = queue[1]
      /\ \A k \in DOMAIN queue' :
           k \in Int /\ k + 1 \in DOMAIN queue /\ queue'[k] = queue[k + 1]
      /\ \A k \in DOMAIN queue :
           k = 1 \/ (k - 1 \in DOMAIN queue' /\ queue'[k - 1] = queue[k])
  BY <1>1, TailItems
<1>3. <<c, s>> \in Handlers
  BY DEF Handlers
<1>4. /\ job'[<<c, s>>] = queue[1]
      /\ live'[<<c, s>>] /\ pc'[<<c, s>>] = "lookup" /\ pc[<<c, s>>] = "idle"
      /\ \A g \in Handlers \ {<<c, s>>} :
           pc'[g] = pc[g] /\ job'[g] = job[g] /\ live'[g] = live[g]
  BY <1>2, <1>3 DEF Deliver, TypeInv, TypeOK
<1>5. /\ unacked'[c] = IF AckOn THEN s ELSE NoTag
      /\ AckOn => unacked[c] = NoTag
      /\ \A d \in Consumers \ {c} : unacked'[d] = unacked[d]
  BY DEF Deliver, NoAck, AckOn, TypeInv, TypeOK
<1>6. UNCHANGED <<config, nextId, wire, timers, outcomes, crashes>>
  BY DEF Deliver, sourceVars
<1> QED BY <1>2, <1>4, <1>5, <1>6

\* What a channel that closes requeues comes to the front.
LEMMA CloseItems ==
  ASSUME TypeInv, NEW c \in Consumers, Closes(c)
  PROVE  /\ unacked[c] = NoTag => queue' = queue
         /\ unacked[c] # NoTag =>
              /\ 1 \in DOMAIN queue' /\ queue'[1] = job[<<c, unacked[c]>>]
              /\ \A k \in DOMAIN queue' :
                   k = 1 \/ (k \in Int /\ k - 1 \in DOMAIN queue /\ queue'[k] = queue[k - 1])
              /\ \A k \in DOMAIN queue :
                   k \in Int /\ k + 1 \in DOMAIN queue' /\ queue'[k + 1] = queue[k]
         /\ unacked'[c] = NoTag /\ wire'[c] = <<>> /\ timers'[c] = {}
         /\ \A d \in Consumers \ {c} :
              unacked'[d] = unacked[d] /\ wire'[d] = wire[d] /\ timers'[d] = timers[d]
         /\ \A h \in Handlers : live'[h] = IF h[1] = c THEN FALSE ELSE live[h]
         /\ \A h \in Handlers : pc'[h] # "idle" => pc[h] # "idle"
         /\ \A h \in Handlers : h[1] # c => pc'[h] = pc[h]
         /\ UNCHANGED <<config, nextId, job, outcomes>>
<1>1. queue \in Seq(Message)
  BY DEF TypeInv, TypeOK
<1>2. ASSUME unacked[c] # NoTag
      PROVE  /\ 1 \in DOMAIN queue' /\ queue'[1] = job[<<c, unacked[c]>>]
             /\ \A k \in DOMAIN queue' :
                  k = 1 \/ (k \in Int /\ k - 1 \in DOMAIN queue /\ queue'[k] = queue[k - 1])
             /\ \A k \in DOMAIN queue :
                  k \in Int /\ k + 1 \in DOMAIN queue' /\ queue'[k + 1] = queue[k]
  <2> DEFINE m == job[<<c, unacked[c]>>]
  <2>1. m \in Message /\ queue' = <<m>> \o queue
    BY <1>2 DEF Closes, CloseChannel, TypeInv, JobsAreMessages
  <2> HIDE DEF m
  <2>2. /\ <<m>> \in Seq(Message) /\ Len(<<m>>) = 1 /\ DOMAIN <<m>> = {1} /\ <<m>>[1] = m
    BY <2>1
  <2>3. /\ \A k \in DOMAIN <<m>> : k \in DOMAIN queue' /\ queue'[k] = <<m>>[k]
        /\ \A k \in DOMAIN queue' :
             \/ k \in DOMAIN <<m>> /\ queue'[k] = <<m>>[k]
             \/ k - 1 \in DOMAIN queue /\ queue'[k] = queue[k - 1] /\ k > 1
        /\ \A k \in DOMAIN queue :
             k + 1 \in DOMAIN queue' /\ queue'[k + 1] = queue[k]
    BY <1>1, <2>1, <2>2, ConcatItems
  <2>4. /\ \A k \in DOMAIN queue : k \in Int
        /\ \A k \in DOMAIN queue' : k \in Int
    BY <1>1, <2>1, <2>2
  <2> QED BY <2>2, <2>3, <2>4 DEF m
<1>3. unacked[c] = NoTag => queue' = queue
  BY DEF Closes, CloseChannel
<1>4. /\ unacked'[c] = NoTag /\ wire'[c] = <<>> /\ timers'[c] = {}
      /\ \A d \in Consumers \ {c} :
           unacked'[d] = unacked[d] /\ wire'[d] = wire[d] /\ timers'[d] = timers[d]
      /\ \A h \in Handlers : live'[h] = IF h[1] = c THEN FALSE ELSE live[h]
  BY DEF Closes, CloseChannel, TypeInv, TypeOK
<1>5. /\ \A h \in Handlers : pc'[h] # "idle" => pc[h] # "idle"
      /\ \A h \in Handlers : h[1] # c => pc'[h] = pc[h]
      /\ UNCHANGED <<config, nextId, job, outcomes>>
  BY DEF Closes
<1> QED BY <1>2, <1>3, <1>4, <1>5

\* The frames of a channel move up when the broker handles the first.
LEMMA AckItems ==
  ASSUME TypeInv, NEW c \in Consumers, wire[c] # <<>>,
         wire' = [wire EXCEPT ![c] = Tail(@)]
  PROVE  /\ 1 \in DOMAIN wire[c] /\ Head(wire[c]) = wire[c][1] /\ Head(wire[c]) \in Frame
         /\ \A k \in DOMAIN wire'[c] :
              k \in Int /\ k + 1 \in DOMAIN wire[c] /\ wire'[c][k] = wire[c][k + 1]
         /\ \A k \in DOMAIN wire[c] :
              k \in Int /\
                  (k = 1 \/ (k - 1 \in DOMAIN wire'[c] /\ wire'[c][k - 1] = wire[c][k]))
         /\ \A d \in Consumers \ {c} : wire'[d] = wire[d]
<1>1. wire \in [Consumers -> Seq(Frame)] /\ wire[c] \in Seq(Frame)
  BY DEF TypeInv, TypeOK
<1>2. wire'[c] = Tail(wire[c]) /\ \A d \in Consumers \ {c} : wire'[d] = wire[d]
  BY <1>1
<1> QED BY <1>1, <1>2, TailItems

LEMMA PublishItems ==
  ASSUME TypeInv, NEW c \in Consumers, BrokerPublishes(c)
  PROVE  /\ wire[c][1].op = "publish" /\ wire[c][1].msg \in Message
         /\ \A k \in DOMAIN queue : k \in DOMAIN queue' /\ queue'[k] = queue[k]
         /\ \A k \in DOMAIN queue' :
              \/ k \in DOMAIN queue /\ queue'[k] = queue[k]
              \/ k = Len(queue) + 1 /\ queue'[k] = wire[c][1].msg
         /\ Len(queue) + 1 \in DOMAIN queue' /\ queue'[Len(queue) + 1] = wire[c][1].msg
         /\ UNCHANGED <<config, nextId, unacked, timers, pc, job, live, outcomes, crashes>>
<1>1. wire[c] # <<>> /\ Head(wire[c]).op = "publish"
      /\ wire' = [wire EXCEPT ![c] = Tail(@)]
  BY DEF BrokerPublishes
<1>2. Head(wire[c]) = wire[c][1] /\ Head(wire[c]) \in Frame
  BY <1>1, AckItems
<1>3. wire[c][1].op = "publish" /\ wire[c][1].msg \in Message
  BY <1>1, <1>2 DEF Frame, Settlement, Publication
<1>4. queue \in Seq(Message) /\ queue' = Append(queue, wire[c][1].msg)
  BY <1>2 DEF BrokerPublishes, TypeInv, TypeOK
<1>5. UNCHANGED <<config, nextId, unacked, timers, pc, job, live, outcomes, crashes>>
  BY DEF BrokerPublishes, sourceVars, handlerVars
<1> QED BY <1>3, <1>4, <1>5, AppendItems

LEMMA FireItems ==
  ASSUME TypeInv, NEW c \in Consumers, NEW t \in timers[c], FireTimer(c, t)
  PROVE  /\ \A k \in DOMAIN wire[c] : k \in DOMAIN wire'[c] /\ wire'[c][k] = wire[c][k]
         /\ \A k \in DOMAIN wire'[c] :
              \/ k \in DOMAIN wire[c] /\ wire'[c][k] = wire[c][k]
              \/ /\ k = Len(wire[c]) + 1
                 /\ wire'[c][k].op = "publish" /\ wire'[c][k].msg = t.msg
         /\ Len(wire[c]) + 1 \in DOMAIN wire'[c]
         /\ wire'[c][Len(wire[c]) + 1].op = "publish"
         /\ wire'[c][Len(wire[c]) + 1].msg = t.msg
         /\ timers'[c] = timers[c] \ {t}
         /\ \A d \in Consumers \ {c} : wire'[d] = wire[d] /\ timers'[d] = timers[d]
         /\ UNCHANGED <<config, nextId, queue, unacked, pc, job, live, outcomes, crashes>>
<1> DEFINE frame == [op |-> "publish", msg |-> t.msg]
<1>1. t.msg \in Message
  BY DEF TypeInv, TypeOK, Timer
<1>2. frame \in Frame /\ frame.op = "publish" /\ frame.msg = t.msg
  BY <1>1 DEF Frame, Publication
<1>3. /\ wire' = [wire EXCEPT ![c] = Append(@, frame)]
      /\ timers' = [timers EXCEPT ![c] = @ \ {t}]
      /\ UNCHANGED <<config, nextId, queue, unacked, pc, job, live, outcomes, crashes>>
  BY DEF FireTimer, sourceVars, handlerVars
<1> HIDE DEF frame
<1>4. wire \in [Consumers -> Seq(Frame)] /\ wire[c] \in Seq(Frame)
  BY DEF TypeInv, TypeOK
<1>5. wire'[c] = Append(wire[c], frame)
  BY <1>3, <1>4
<1>6. /\ timers'[c] = timers[c] \ {t}
      /\ \A d \in Consumers \ {c} : wire'[d] = wire[d] /\ timers'[d] = timers[d]
  BY <1>3, <1>4 DEF TypeInv, TypeOK
<1> QED BY <1>2, <1>3, <1>4, <1>5, <1>6, AppendItems

\* A handler that ends for a live delivery settles it, after what was sent before.
LEMMA SettleItems ==
  ASSUME TypeInv, NEW c \in Consumers, NEW s \in Slots, Settle(<<c, s>>)
  PROVE  /\ \A k \in DOMAIN wire[c] : k \in DOMAIN wire'[c] /\ wire'[c][k] = wire[c][k]
         /\ \A k \in DOMAIN wire'[c] :
              \/ k \in DOMAIN wire[c] /\ wire'[c][k] = wire[c][k]
              \/ /\ AckOn /\ live[<<c, s>>]
                 /\ k - Len(wire[c]) \in 1 .. config.layers /\ k > Len(wire[c])
                 /\ wire'[c][k].op = "settle" /\ wire'[c][k].tag = s
         /\ AckOn /\ live[<<c, s>>] =>
              \A l \in 1 .. config.layers :
                /\ l + Len(wire[c]) \in DOMAIN wire'[c]
                /\ wire'[c][l + Len(wire[c])].op = "settle"
                /\ wire'[c][l + Len(wire[c])].tag = s
         /\ AckOn /\ live[<<c, s>>] => wire'[c] # <<>>
         /\ timers[c] \subseteq timers'[c]
         /\ \A t \in timers'[c] \ timers[c] :
              /\ AckOn /\ live[<<c, s>>] /\ Outcome(<<c, s>>) = "retried"
              /\ t \in RetryTimers(<<c, s>>)
         /\ AckOn /\ live[<<c, s>>] /\ Outcome(<<c, s>>) = "retried" =>
              RetryTimers(<<c, s>>) \subseteq timers'[c]
         /\ \A d \in Consumers \ {c} : wire'[d] = wire[d] /\ timers'[d] = timers[d]
         /\ ~ live'[<<c, s>>] /\ pc'[<<c, s>>] = "idle" /\ pc[<<c, s>>] # "idle"
         /\ \A g \in Handlers \ {<<c, s>>} : pc'[g] = pc[g] /\ live'[g] = live[g]
         /\ \A i \in Ids : outcomes[i] \subseteq outcomes'[i]
         /\ \A i \in Ids : i = job[<<c, s>>].id \/ outcomes'[i] = outcomes[i]
         /\ AckOn /\ live[<<c, s>>] => Outcome(<<c, s>>) \in outcomes'[job[<<c, s>>].id]
         /\ job[<<c, s>>] \in Message
         /\ UNCHANGED <<config, nextId, queue, unacked, job, crashes>>
<1> DEFINE h == <<c, s>>
           ws == wire[c]
           ss == Settlements(h)
<1>1. h \in Handlers /\ h[1] = c /\ h[2] = s
  BY DEF Handlers
<1>2. config.layers \in Nat /\ config.layers >= 1
  BY ConfigAssumption DEF TypeInv, TypeOK, Config
<1>3. /\ DOMAIN ss = 1 .. config.layers /\ Len(ss) = config.layers
      /\ \A k \in DOMAIN ss : ss[k].op = "settle" /\ ss[k].tag = s
      /\ ss \in Seq(Frame)
  <2>1. [op |-> "settle", tag |-> s] \in Frame
    BY DEF Frame, Settlement
  <2> QED BY <1>1, <1>2, <2>1 DEF Settlements
<1>4. wire \in [Consumers -> Seq(Frame)] /\ ws \in Seq(Frame) /\
          timers \in [Consumers -> SUBSET Timer]
  BY DEF TypeInv, TypeOK
<1>5. \A d \in Consumers \ {c} : wire'[d] = wire[d] /\ timers'[d] = timers[d]
  BY <1>1, <1>4 DEF Settle
<1>6. /\ ~ live'[h] /\ pc'[h] = "idle" /\ pc[h] # "idle"
      /\ \A g \in Handlers \ {h} : pc'[g] = pc[g] /\ live'[g] = live[g]
      /\ UNCHANGED <<config, nextId, queue, unacked, job, crashes>>
      /\ job[h] \in Message
  BY <1>1 DEF Settle, sourceVars, TypeInv, TypeOK, JobsAreMessages
<1>7. /\ \A i \in Ids : outcomes[i] \subseteq outcomes'[i]
      /\ \A i \in Ids : i = job[h].id \/ outcomes'[i] = outcomes[i]
      /\ AckOn /\ live[h] => Outcome(h) \in outcomes'[job[h].id]
  <2>1. job[h].id \in Ids
    BY <1>6 DEF Message
  <2> HIDE DEF h
  <2>2. Record(h)
    BY DEF Settle, h
  <2> DEFINE n == job[h].id
             o == Outcome(h)
  <2>3. outcomes' = IF NoAck \/ live[h] THEN [outcomes EXCEPT ![n] = @ \cup {o}] ELSE outcomes
    BY <2>2 DEF Record
  <2> HIDE DEF n, o
  <2>4. n \in Ids /\
        outcomes \in [Ids -> SUBSET {"completed", "retried", "exhausted", "dropped"}]
    BY <2>1 DEF n, TypeInv, TypeOK
  <2>5. /\ \A i \in Ids : outcomes[i] \subseteq outcomes'[i]
        /\ \A i \in Ids : i = n \/ outcomes'[i] = outcomes[i]
        /\ live[h] => o \in outcomes'[n]
    BY <2>3, <2>4
  <2> QED BY <2>5 DEF n, o
<1>8. CASE AckOn /\ live[h]
  <2>1. wire'[c] = ws \o ss
    BY <1>1, <1>4, <1>8 DEF Settle, NoAck, AckOn
  <2>2. /\ timers[c] \subseteq timers'[c]
        /\ \A t \in timers'[c] \ timers[c] : Outcome(h) = "retried" /\ t \in RetryTimers(h)
        /\ Outcome(h) = "retried" => RetryTimers(h) \subseteq timers'[c]
    <3>1. timers' = IF Outcome(h) = "retried"
                    THEN [timers EXCEPT ![c] = @ \cup RetryTimers(h)]
                    ELSE timers
      BY <1>1, <1>8 DEF Settle, NoAck, AckOn
    <3> QED BY <1>4, <3>1
  <2> HIDE DEF ws, ss
  <2>3. /\ \A k \in DOMAIN ws : k \in DOMAIN wire'[c] /\ wire'[c][k] = ws[k]
        /\ \A k \in DOMAIN wire'[c] :
             \/ k \in DOMAIN ws /\ wire'[c][k] = ws[k]
             \/ k - Len(ws) \in DOMAIN ss /\ wire'[c][k] = ss[k - Len(ws)] /\ k > Len(ws)
        /\ \A k \in DOMAIN ss :
             k + Len(ws) \in DOMAIN wire'[c] /\ wire'[c][k + Len(ws)] = ss[k]
    <3>1. ws \in Seq(Frame) /\ ss \in Seq(Frame)
      BY <1>3, <1>4
    <3> QED BY <2>1, <3>1, ConcatItems
  <2>4. 1 \in DOMAIN ss
    BY <1>2, <1>3
  <2>5. wire'[c] # <<>>
    BY <2>3, <2>4
  <2> HIDE DEF h
  <2>6. \A k \in DOMAIN wire'[c] :
          \/ k \in DOMAIN ws /\ wire'[c][k] = ws[k]
          \/ /\ k - Len(ws) \in 1 .. config.layers /\ k > Len(ws)
             /\ wire'[c][k].op = "settle" /\ wire'[c][k].tag = s
    BY <1>3, <2>3
  <2>7. \A l \in 1 .. config.layers :
          /\ l + Len(ws) \in DOMAIN wire'[c]
          /\ wire'[c][l + Len(ws)].op = "settle" /\ wire'[c][l + Len(ws)].tag = s
    <3>1. TAKE l \in 1 .. config.layers
    <3>2. l \in DOMAIN ss /\ ss[l].op = "settle" /\ ss[l].tag = s
      BY <1>3
    <3>3. l + Len(ws) \in DOMAIN wire'[c] /\ wire'[c][l + Len(ws)] = ss[l]
      BY <2>3, <3>2
    <3> QED BY <3>2, <3>3
  <2> QED BY <1>5, <1>6, <1>7, <1>8, <2>2, <2>3, <2>5, <2>6, <2>7 DEF h, ws
<1>9. CASE ~ (AckOn /\ live[h])
  <2>1. UNCHANGED <<wire, timers>>
    BY <1>9 DEF Settle, NoAck, AckOn
  <2> QED BY <1>5, <1>6, <1>7, <1>9, <2>1
<1> QED BY <1>8, <1>9

\* What is in each place is a message.
LEMMA MessagesTyped ==
  ASSUME TypeInv
  PROVE  /\ \A k \in DOMAIN queue : queue[k] \in Message
         /\ \A h \in Handlers : pc[h] # "idle" => job[h] \in Message
         /\ \A c \in Consumers : unacked[c] # NoTag => job[<<c, unacked[c]>>] \in Message
         /\ \A c \in Consumers : \A t \in timers[c] : t.msg \in Message
         /\ \A c \in Consumers : \A k \in DOMAIN wire[c] :
              /\ wire[c][k].op = "publish" => wire[c][k].msg \in Message
              /\ wire[c][k].op # "publish" =>
                   wire[c][k].op = "settle" /\ wire[c][k].tag \in Slots
<1>1. \A k \in DOMAIN queue : queue[k] \in Message
  BY DEF TypeInv, TypeOK
<1>2. \A c \in Consumers : \A t \in timers[c] : t.msg \in Message
  BY DEF TypeInv, TypeOK, Timer
<1>3. \A c \in Consumers : \A k \in DOMAIN wire[c] : wire[c][k] \in Frame
  BY DEF TypeInv, TypeOK
<1>4. \A f \in Frame : /\ f.op = "publish" => f.msg \in Message
                       /\ f.op # "publish" => f.op = "settle" /\ f.tag \in Slots
  BY DEF Frame, Settlement, Publication
<1> QED BY <1>1, <1>2, <1>3, <1>4 DEF TypeInv, JobsAreMessages

-----------------------------------------------------------------------------
(* Ids in use were given out.                                              *)

\* Reading a frame leaves the others as they are.
LEMMA PublishedIds ==
  ASSUME TypeInv, IdsInv, NEW c \in Consumers, wire[c] # <<>>,
         wire' = [wire EXCEPT ![c] = Tail(@)]
  PROVE  \A d \in Consumers : \A k \in DOMAIN wire'[d] :
           wire'[d][k].op = "publish" => wire'[d][k].msg.id < nextId
<1>1. \A d \in Consumers : \A k \in DOMAIN wire[d] :
        wire[d][k].op = "publish" => wire[d][k].msg.id < nextId
  BY DEF IdsInv
<1>2. \A k \in DOMAIN wire'[c] : k + 1 \in DOMAIN wire[c] /\ wire'[c][k] = wire[c][k + 1]
  BY AckItems
<1>3. \A d \in Consumers \ {c} : wire'[d] = wire[d]
  BY AckItems
<1>4. \A k \in DOMAIN wire'[c] :
        wire'[c][k].op = "publish" => wire'[c][k].msg.id < nextId
  BY <1>1, <1>2
<1>5. ASSUME NEW d \in Consumers \ {c}
      PROVE  \A k \in DOMAIN wire'[d] :
               wire'[d][k].op = "publish" => wire'[d][k].msg.id < nextId
  BY <1>1, <1>3
<1> QED BY <1>4, <1>5

LEMMA IdsStep == TypeInv /\ IdsInv /\ [Next]_vars => IdsInv'
<1> SUFFICES ASSUME TypeInv, IdsInv, [Next]_vars PROVE IdsInv'
  OBVIOUS
<1>1. CASE Stays
  BY <1>1 DEF Stays, deliveryVars, IdsInv
<1>2. ASSUME NEW m \in Message, Emits(m) PROVE IdsInv'
  <2>1. nextId \in Int /\ nextId' = nextId + 1 /\ Ids \subseteq Int
    BY <1>2, BoundsAssumption DEF Emits, TypeInv, TypeOK, Ids
  <2>2. \A k \in DOMAIN queue' : queue'[k].id < nextId'
    <3>1. ASSUME NEW k \in DOMAIN queue', k \in DOMAIN queue, queue'[k] = queue[k]
          PROVE  queue'[k].id < nextId'
      <4>1. queue[k] \in Message
        BY <3>1 DEF TypeInv, TypeOK
      <4>2. queue[k].id \in Int /\ queue[k].id < nextId
        BY <2>1, <3>1, <4>1 DEF IdsInv, Message
      <4> QED BY <2>1, <3>1, <4>2
    <3>2. m.id < nextId'
      BY <1>2, <2>1 DEF Emits
    <3> QED BY <1>2, <3>1, <3>2, EmitItems
  <2>3. \A i \in Int : i < nextId => i < nextId'
    BY <2>1
  <2>4. \A h \in Handlers : pc[h] # "idle" => job[h].id < nextId'
    BY <2>1, <2>3 DEF IdsInv, TypeInv, JobsAreMessages, Message
  <2>5. \A c \in Consumers : unacked[c] # NoTag => job[<<c, unacked[c]>>].id < nextId'
    BY <2>1, <2>3 DEF IdsInv, TypeInv, JobsAreMessages, Message
  <2>6. \A c \in Consumers : \A t \in timers[c] : t.msg.id < nextId'
    <3>1. \A c \in Consumers : \A t \in timers[c] : t.msg \in Message
      BY DEF TypeInv, TypeOK, Timer
    <3> QED BY <2>1, <2>3, <3>1 DEF IdsInv, Message
  <2>7. \A c \in Consumers : \A k \in DOMAIN wire[c] :
          wire[c][k].op = "publish" => wire[c][k].msg.id < nextId'
    <3>1. SUFFICES ASSUME NEW c \in Consumers, NEW k \in DOMAIN wire[c],
                          wire[c][k].op = "publish"
                   PROVE  wire[c][k].msg.id < nextId'
      OBVIOUS
    <3>2. wire[c][k] \in Frame
      BY DEF TypeInv, TypeOK
    <3>3. wire[c][k].msg.id \in Int
      BY <2>1, <3>1, <3>2 DEF Frame, Settlement, Publication, Message
    <3> QED BY <2>3, <3>1, <3>3 DEF IdsInv
  <2>8. \A i \in Ids : i >= nextId' => outcomes[i] = {}
    BY <2>1 DEF IdsInv
  <2>9. UNCHANGED <<unacked, wire, timers, pc, job, outcomes>>
    BY <1>2 DEF Emits
  <2> QED BY <2>2, <2>4, <2>5, <2>6, <2>7, <2>8, <2>9 DEF IdsInv
<1>3. ASSUME NEW c \in Consumers, NEW s \in Slots, Deliver(<<c, s>>) PROVE IdsInv'
  <2>1. /\ 1 \in DOMAIN queue /\ job'[<<c, s>>] = queue[1]
        /\ \A k \in DOMAIN queue' : k + 1 \in DOMAIN queue /\ queue'[k] = queue[k + 1]
        /\ \A g \in Handlers \ {<<c, s>>} : pc'[g] = pc[g] /\ job'[g] = job[g]
        /\ unacked'[c] = s \/ unacked'[c] = NoTag
        /\ \A d \in Consumers \ {c} : unacked'[d] = unacked[d]
        /\ UNCHANGED <<nextId, wire, timers, outcomes>>
    BY <1>3, DeliverItems
  <2>2. ASSUME NEW d \in Consumers \ {c}, unacked'[d] # NoTag
        PROVE  job'[<<d, unacked'[d]>>] = job[<<d, unacked[d]>>]
    <3>1. unacked'[d] = unacked[d]
      BY <2>1
    <3>2. <<d, unacked[d]>> \in Handlers
      BY <2>2, <3>1 DEF TypeInv, TypeOK, Handlers
    <3> QED BY <2>1, <3>1, <3>2
  <2>3. \A d \in Consumers : unacked'[d] # NoTag => job'[<<d, unacked'[d]>>].id < nextId
    <3>1. unacked'[c] # NoTag => job'[<<c, unacked'[c]>>].id < nextId
      BY <2>1 DEF IdsInv
    <3>2. ASSUME NEW d \in Consumers \ {c}, unacked'[d] # NoTag
          PROVE  job'[<<d, unacked'[d]>>].id < nextId
      BY <2>1, <2>2, <3>2 DEF IdsInv
    <3> QED BY <3>1, <3>2
  <2>4. \A k \in DOMAIN queue' : queue'[k].id < nextId
    BY <2>1 DEF IdsInv
  <2>5. \A h \in Handlers : pc'[h] # "idle" => job'[h].id < nextId
    BY <2>1 DEF IdsInv
  <2> QED BY <2>1, <2>3, <2>4, <2>5 DEF IdsInv
<1>4. ASSUME NEW c \in Consumers, NEW s \in Slots, Settle(<<c, s>>) PROVE IdsInv'
  <2> DEFINE h == <<c, s>>
  <2>1. h \in Handlers /\ pc[h] # "idle" /\ job[h] \in Message /\ job[h].id < nextId
    BY <1>4, SettleItems DEF IdsInv, Handlers
  <2>2. \A d \in Consumers : \A t \in timers'[d] : t.msg.id < nextId
    <3>1. \A t \in RetryTimers(h) : t.msg.id = job[h].id
      BY <2>1 DEF RetryTimers, Message
    <3>2. \A t \in timers'[c] : t \in timers[c] \/ t \in RetryTimers(h)
      BY <1>4, SettleItems
    <3>3. \A d \in Consumers \ {c} : timers'[d] = timers[d]
      BY <1>4, SettleItems
    <3> QED BY <2>1, <3>1, <3>2, <3>3 DEF IdsInv
  <2>3. \A d \in Consumers : \A k \in DOMAIN wire'[d] :
          wire'[d][k].op = "publish" => wire'[d][k].msg.id < nextId
    BY <1>4, SettleItems DEF IdsInv
  <2>4. \A i \in Ids : i >= nextId => outcomes'[i] = {}
    <3>1. \A i \in Ids : i >= nextId => i # job[h].id
      BY <2>1, BoundsAssumption DEF Ids, Message, TypeInv, TypeOK
    <3> QED BY <1>4, <3>1, SettleItems DEF IdsInv
  <2>5. /\ \A g \in Handlers : pc'[g] # "idle" => pc[g] # "idle"
        /\ UNCHANGED <<nextId, queue, unacked, job>>
    BY <1>4, SettleItems
  <2> QED BY <2>2, <2>3, <2>4, <2>5 DEF IdsInv
<1>5. ASSUME NEW c \in Consumers, Acks(c) PROVE IdsInv'
  <2>1. \A d \in Consumers : unacked'[d] # NoTag => unacked'[d] = unacked[d]
    BY <1>5 DEF Acks, TypeInv, TypeOK
  <2>2. \A d \in Consumers : \A k \in DOMAIN wire'[d] :
          wire'[d][k].op = "publish" => wire'[d][k].msg.id < nextId
    <3>1. wire[c] # <<>> /\ wire' = [wire EXCEPT ![c] = Tail(@)]
      BY <1>5 DEF Acks
    <3> QED BY <3>1, PublishedIds
  <2> QED BY <1>5, <2>1, <2>2 DEF Acks, IdsInv
<1>6. ASSUME NEW c \in Consumers, Closes(c) PROVE IdsInv'
  <2>1. \A k \in DOMAIN queue' : queue'[k].id < nextId
    <3>1. CASE unacked[c] = NoTag
      BY <1>6, <3>1, CloseItems DEF IdsInv
    <3>2. CASE unacked[c] # NoTag
      <4>1. /\ queue'[1] = job[<<c, unacked[c]>>]
            /\ \A k \in DOMAIN queue' :
                 k = 1 \/ (k - 1 \in DOMAIN queue /\ queue'[k] = queue[k - 1])
        BY <1>6, <3>2, CloseItems
      <4> QED BY <3>2, <4>1 DEF IdsInv
    <3> QED BY <3>1, <3>2
  <2>2. /\ \A d \in Consumers : unacked'[d] # NoTag => unacked'[d] = unacked[d]
        /\ \A d \in Consumers : timers'[d] \subseteq timers[d]
        /\ \A d \in Consumers : wire'[d] = <<>> \/ wire'[d] = wire[d]
        /\ \A h \in Handlers : pc'[h] # "idle" => pc[h] # "idle"
        /\ UNCHANGED <<nextId, job, outcomes>>
    BY <1>6, CloseItems
  <2> QED BY <2>1, <2>2 DEF IdsInv
<1>7. ASSUME NEW c \in Consumers, BrokerPublishes(c) PROVE IdsInv'
  <2>1. wire[c] # <<>> /\ wire' = [wire EXCEPT ![c] = Tail(@)]
    BY <1>7 DEF BrokerPublishes
  <2>2. 1 \in DOMAIN wire[c] /\ wire[c][1].msg.id < nextId
    BY <1>7, <2>1, AckItems, PublishItems DEF IdsInv
  <2>3. \A k \in DOMAIN queue' : queue'[k].id < nextId
    BY <1>7, <2>2, PublishItems DEF IdsInv
  <2>4. \A d \in Consumers : \A k \in DOMAIN wire'[d] :
          wire'[d][k].op = "publish" => wire'[d][k].msg.id < nextId
    BY <2>1, PublishedIds
  <2>5. UNCHANGED <<nextId, unacked, timers, pc, job, outcomes>>
    BY <1>7, PublishItems
  <2> QED BY <2>3, <2>4, <2>5 DEF IdsInv
<1>8. ASSUME NEW c \in Consumers, NEW t \in timers[c], FireTimer(c, t) PROVE IdsInv'
  <2>1. t.msg.id < nextId
    BY DEF IdsInv
  <2>2. /\ \A d \in Consumers : \A k \in DOMAIN wire'[d] :
             wire'[d][k].op = "publish" => wire'[d][k].msg.id < nextId
        /\ \A d \in Consumers : timers'[d] \subseteq timers[d]
    BY <1>8, <2>1, FireItems DEF IdsInv
  <2>3. UNCHANGED <<nextId, queue, unacked, pc, job, outcomes>>
    BY <1>8, FireItems
  <2> QED BY <2>2, <2>3 DEF IdsInv
<1> QED BY <1>1, <1>2, <1>3, <1>4, <1>5, <1>6, <1>7, <1>8, Moves DEF Fire, Handlers

LEMMA IdsInvariant == Spec => []IdsInv
<1>1. Init => IdsInv
  BY DEF Init, IdsInv
<1> QED BY <1>1, TypeInvariant, IdsStep, PTL DEF Spec

-----------------------------------------------------------------------------
(* Without acknowledgements.                                               *)

LEMMA OnceStep == TypeInv /\ IdsInv /\ OnceInv /\ [Next]_vars => OnceInv'
<1> SUFFICES ASSUME TypeInv, IdsInv, OnceInv, [Next]_vars, ~ AckOn'
             PROVE  Unsettled' /\ QueueDistinct' /\ ReadyUntried' /\ AllAlone'
  BY DEF OnceInv
<1> DEFINE Goal == Unsettled' /\ QueueDistinct' /\ ReadyUntried' /\ AllAlone'
<1>a. ASSUME config' = config
      PROVE  ~ AckOn /\ Unsettled /\ QueueDistinct /\ ReadyUntried /\ AllAlone
  BY <1>a DEF OnceInv, AckOn
<1>1. CASE Stays
  BY <1>1, <1>a DEF Stays, deliveryVars, Unsettled, QueueDistinct, ReadyUntried, AllAlone,
                    Alone
<1>2. ASSUME NEW m \in Message, Emits(m) PROVE Goal
  <2>1. /\ m.id = nextId
        /\ UNCHANGED <<config, unacked, wire, timers, pc, job, outcomes>>
    BY <1>2 DEF Emits
  <2>2. Unsettled /\ QueueDistinct /\ ReadyUntried /\ AllAlone
    BY <1>a, <2>1
  <2>3. nextId \in Int /\ nextId \in Ids /\ outcomes[nextId] = {}
    <3>1. nextId \in Ids /\ nextId \in Int
      BY <2>1, BoundsAssumption DEF TypeInv, TypeOK, Message
    <3> QED BY <3>1 DEF IdsInv
  <2>4. /\ \A k \in DOMAIN queue : queue[k].id # nextId
        /\ \A h \in Handlers : pc[h] # "idle" => job[h].id # nextId
    BY <2>3 DEF IdsInv
  <2>5. Unsettled'
    BY <2>1, <2>2 DEF Unsettled
  <2>6. QueueDistinct'
    BY <1>2, <2>1, <2>2, <2>4, EmitItems DEF QueueDistinct
  <2>7. ReadyUntried'
    BY <1>2, <2>1, <2>2, <2>3, EmitItems DEF ReadyUntried
  <2>8. AllAlone'
    BY <1>2, <2>1, <2>2, <2>4, EmitItems DEF AllAlone, Alone
  <2> QED BY <2>5, <2>6, <2>7, <2>8
<1>3. ASSUME NEW c \in Consumers, NEW s \in Slots, Deliver(<<c, s>>) PROVE Goal
  <2> DEFINE h == <<c, s>>
  <2>1. /\ 1 \in DOMAIN queue /\ job'[h] = queue[1]
        /\ \A k \in DOMAIN queue' :
             k \in Int /\ k + 1 \in DOMAIN queue /\ queue'[k] = queue[k + 1]
        /\ pc[h] = "idle"
        /\ \A g \in Handlers \ {h} : pc'[g] = pc[g] /\ job'[g] = job[g]
        /\ UNCHANGED <<config, wire, timers, outcomes>>
    BY <1>3, DeliverItems
  <2>2. ~ AckOn /\ Unsettled /\ QueueDistinct /\ ReadyUntried /\ AllAlone
    BY <1>a, <2>1
  <2>3. Unsettled'
    BY <1>3, <2>1, <2>2, DeliverItems DEF Unsettled
  <2>4. QueueDistinct'
    <3>1. SUFFICES ASSUME NEW j \in DOMAIN queue', NEW k \in DOMAIN queue',
                          queue'[j].id = queue'[k].id
                   PROVE  j = k
      BY DEF QueueDistinct
    <3>2. j + 1 = k + 1 /\ j \in Int /\ k \in Int
      BY <2>1, <2>2, <3>1 DEF QueueDistinct
    <3> QED BY <3>2
  <2>5. ReadyUntried'
    BY <2>1, <2>2 DEF ReadyUntried
  <2>6. \A k \in DOMAIN queue' : queue'[k].id # queue[1].id
    <3>1. SUFFICES ASSUME NEW k \in DOMAIN queue', queue'[k].id = queue[1].id PROVE FALSE
      OBVIOUS
    <3>2. k + 1 = 1 /\ k \in DOMAIN queue' /\ k \in Int
      BY <2>1, <2>2, <3>1 DEF QueueDistinct
    <3>3. queue' \in Seq(Message)
      BY <1>3, TailItems DEF Deliver, TypeInv, TypeOK
    <3> QED BY <3>2, <3>3
  <2>7. \A g \in Handlers \ {h} : pc[g] # "idle" => job[g].id # queue[1].id
    BY <2>1, <2>2 DEF AllAlone, Alone
  <2>8. outcomes[queue[1].id] = {}
    BY <2>1, <2>2 DEF ReadyUntried
  <2>9. AllAlone'
    <3>1. SUFFICES ASSUME NEW g \in Handlers, pc'[g] # "idle" PROVE Alone(g)'
      BY DEF AllAlone
    <3>2. CASE g = h
      BY <2>1, <2>6, <2>7, <2>8, <3>2 DEF Alone
    <3>3. CASE g # h
      <4>1. Alone(g) /\ job'[g] = job[g] /\ pc[g] # "idle"
        BY <2>1, <2>2, <3>1, <3>3 DEF AllAlone
      <4>2. \A f \in Handlers : pc'[f] # "idle" /\ job'[f].id = job[g].id => g = f
        BY <2>1, <2>7, <4>1, <3>3 DEF Alone
      <4> QED BY <2>1, <4>1, <4>2 DEF Alone
    <3> QED BY <3>2, <3>3
  <2> QED BY <2>3, <2>4, <2>5, <2>9
<1>4. ASSUME NEW c \in Consumers, NEW s \in Slots, Settle(<<c, s>>) PROVE Goal
  <2> DEFINE h == <<c, s>>
  <2>1. /\ h \in Handlers /\ pc'[h] = "idle" /\ pc[h] # "idle"
        /\ \A g \in Handlers \ {h} : pc'[g] = pc[g]
        /\ \A i \in Ids : i = job[h].id \/ outcomes'[i] = outcomes[i]
        /\ UNCHANGED <<config, queue, unacked, job>>
    BY <1>4, SettleItems DEF Handlers
  <2>2. ~ AckOn /\ Unsettled /\ QueueDistinct /\ ReadyUntried /\ AllAlone
    BY <1>a, <2>1
  <2>3. UNCHANGED <<wire, timers>>
    BY <1>4, <2>2 DEF Settle, NoAck, AckOn
  <2>4. \A k \in DOMAIN queue : queue[k].id \in Ids /\ queue[k].id # job[h].id
    <3>1. \A k \in DOMAIN queue : queue[k].id \in Ids
      BY MessagesTyped DEF Message
    <3> QED BY <2>1, <2>2, <3>1 DEF AllAlone, Alone
  <2>5. \A g \in Handlers \ {h} : pc[g] # "idle" => job[g].id \in Ids /\ job[g].id # job[h].id
    <3>1. \A g \in Handlers : pc[g] # "idle" => job[g].id \in Ids
      BY DEF TypeInv, JobsAreMessages, Message
    <3> QED BY <2>1, <2>2, <3>1 DEF AllAlone, Alone
  <2>6. Unsettled' /\ QueueDistinct'
    BY <2>1, <2>2, <2>3 DEF Unsettled, QueueDistinct
  <2>7. ReadyUntried'
    BY <2>1, <2>2, <2>4 DEF ReadyUntried
  <2>8. AllAlone'
    BY <2>1, <2>2, <2>5 DEF AllAlone, Alone
  <2> QED BY <2>6, <2>7, <2>8
<1>5. ASSUME NEW c \in Consumers, Acks(c) PROVE FALSE
  BY <1>5, <1>a DEF Acks, Unsettled
<1>6. ASSUME NEW c \in Consumers, Closes(c) PROVE Goal
  <2>1. config' = config
    BY <1>6 DEF Closes
  <2>2. Unsettled /\ QueueDistinct /\ ReadyUntried /\ AllAlone
    BY <1>a, <2>1
  <2>3. unacked[c] = NoTag
    BY <2>2 DEF Unsettled
  <2>4. /\ UNCHANGED <<queue, job, outcomes>>
        /\ \A h \in Handlers : pc'[h] # "idle" => pc[h] # "idle"
    BY <1>6, <2>3, CloseItems
  <2>5. Unsettled'
    <3>1. /\ unacked'[c] = NoTag /\ wire'[c] = <<>> /\ timers'[c] = {}
          /\ \A d \in Consumers \ {c} :
               unacked'[d] = unacked[d] /\ wire'[d] = wire[d] /\ timers'[d] = timers[d]
      BY <1>6, CloseItems
    <3> QED BY <2>2, <3>1 DEF Unsettled
  <2> QED BY <2>2, <2>4, <2>5 DEF QueueDistinct, ReadyUntried, AllAlone, Alone
<1>7. ASSUME NEW c \in Consumers, BrokerPublishes(c) PROVE FALSE
  BY <1>7, <1>a DEF BrokerPublishes, sourceVars, Unsettled
<1>8. ASSUME NEW c \in Consumers, NEW t \in timers[c], FireTimer(c, t) PROVE FALSE
  BY <1>8, <1>a DEF FireTimer, sourceVars, Unsettled
<1> QED BY <1>1, <1>2, <1>3, <1>4, <1>5, <1>6, <1>7, <1>8, Moves DEF Fire, Handlers

\* With acknowledgements turned off no message is handled twice: the broker forgot it
\* when it sent it, so neither a failure nor a crash brings it back.
THEOREM HandledAtMostOnceHolds == Spec => []HandledAtMostOnce
<1>1. Init => OnceInv
  BY DEF Init, OnceInv, Unsettled, QueueDistinct, ReadyUntried, AllAlone
<1>2. OnceInv => HandledAtMostOnce
  BY DEF OnceInv, AllAlone, Alone, HandledAtMostOnce, InQueue, AckOn
<1> QED BY <1>1, <1>2, TypeInvariant, IdsInvariant, OnceStep, PTL DEF Spec

-----------------------------------------------------------------------------
(* With acknowledgements: tags, and that nothing is lost before it was tried. *)

LEMMA TagStep == TypeInv /\ TagInv /\ [Next]_vars => TagInv'
<1> SUFFICES ASSUME TypeInv, TagInv, [Next]_vars, AckOn'
             PROVE  LiveIsUnacked' /\ SettledIsOver'
  BY DEF TagInv
<1> DEFINE Goal == LiveIsUnacked' /\ SettledIsOver'
<1>a. ASSUME config' = config PROVE AckOn /\ LiveIsUnacked /\ SettledIsOver
  BY <1>a DEF AckOn, TagInv
<1>1. CASE Stays
  BY <1>1, <1>a DEF Stays, deliveryVars, LiveIsUnacked, SettledIsOver
<1>2. ASSUME NEW m \in Message, Emits(m) PROVE Goal
  BY <1>2, <1>a DEF Emits, LiveIsUnacked, SettledIsOver
<1>3. ASSUME NEW c \in Consumers, NEW s \in Slots, Deliver(<<c, s>>) PROVE Goal
  <2>1. /\ \A g \in Handlers \ {<<c, s>>} : live'[g] = live[g]
        /\ unacked[c] = NoTag /\ unacked'[c] = s
        /\ \A d \in Consumers \ {c} : unacked'[d] = unacked[d]
        /\ UNCHANGED <<config, wire>>
        /\ LiveIsUnacked /\ SettledIsOver
    <3>1. config' = config
      BY <1>3, DeliverItems
    <3> QED BY <1>3, <1>a, <3>1, DeliverItems DEF AckOn
  <2>2. LiveIsUnacked'
    BY <2>1, NoTagAssumption DEF LiveIsUnacked, Handlers
  <2>3. \A k \in DOMAIN wire[c] : wire[c][k].op = "settle" => wire[c][k].tag # s
    BY <1>3 DEF Deliver, TagFree
  <2>4. \A d \in Consumers : \A k \in DOMAIN wire[d] :
          wire[d][k].op = "settle" => <<d, wire[d][k].tag>> \in Handlers \ {<<c, s>>}
    BY <2>3, MessagesTyped DEF Handlers
  <2>5. SettledIsOver'
    BY <2>1, <2>4 DEF SettledIsOver
  <2> QED BY <2>2, <2>5
<1>4. ASSUME NEW c \in Consumers, NEW s \in Slots, Settle(<<c, s>>) PROVE Goal
  <2>1. /\ ~ live'[<<c, s>>]
        /\ \A g \in Handlers \ {<<c, s>>} : live'[g] = live[g]
        /\ UNCHANGED <<config, unacked>>
    BY <1>4, SettleItems
  <2>2. LiveIsUnacked /\ SettledIsOver
    BY <1>a, <2>1
  <2>3. LiveIsUnacked'
    BY <2>1, <2>2 DEF LiveIsUnacked
  <2>4. \A g \in Handlers : ~ live[g] => ~ live'[g]
    BY <2>1
  <2>5. ASSUME NEW d \in Consumers, NEW k \in DOMAIN wire'[d], wire'[d][k].op = "settle"
        PROVE  ~ live'[<<d, wire'[d][k].tag>>]
    <3>1. CASE k \in DOMAIN wire[d] /\ wire'[d][k] = wire[d][k]
      <4>1. ~ live[<<d, wire[d][k].tag>>] /\ <<d, wire[d][k].tag>> \in Handlers
        BY <2>2, <2>5, <3>1, MessagesTyped DEF SettledIsOver, Handlers
      <4> QED BY <2>4, <3>1, <4>1
    <3>2. CASE d = c /\ wire'[c][k].tag = s
      BY <2>1, <3>2
    <3> QED BY <1>4, <2>5, <3>1, <3>2, SettleItems
  <2> QED BY <2>3, <2>5 DEF SettledIsOver
<1>5. ASSUME NEW c \in Consumers, Acks(c) PROVE Goal
  <2>1. /\ wire[c] # <<>> /\ Head(wire[c]).op = "settle" /\ Head(wire[c]).tag = unacked[c]
        /\ wire' = [wire EXCEPT ![c] = Tail(@)]
        /\ unacked' = [unacked EXCEPT ![c] = NoTag]
        /\ UNCHANGED <<config, live>>
    BY <1>5 DEF Acks
  <2>2. LiveIsUnacked /\ SettledIsOver
    BY <1>a, <2>1
  <2>a. /\ 1 \in DOMAIN wire[c] /\ Head(wire[c]) = wire[c][1]
        /\ \A k \in DOMAIN wire'[c] : k + 1 \in DOMAIN wire[c] /\ wire'[c][k] = wire[c][k + 1]
        /\ \A d \in Consumers \ {c} : wire'[d] = wire[d]
    BY <2>1, AckItems
  <2>3. ~ live[<<c, unacked[c]>>]
    BY <2>1, <2>2, <2>a DEF SettledIsOver
  <2>4. LiveIsUnacked'
    <3>1. \A d \in Consumers \ {c} : unacked'[d] = unacked[d]
      BY <2>1 DEF TypeInv, TypeOK
    <3>2. ASSUME NEW h \in Handlers, live[h] PROVE h[1] # c /\ h[1] \in Consumers
      <4>1. h = <<h[1], h[2]>> /\ h[1] \in Consumers
        BY DEF Handlers
      <4>2. unacked[h[1]] = h[2]
        BY <2>2, <3>2 DEF LiveIsUnacked
      <4> QED BY <2>3, <3>2, <4>1, <4>2
    <3> QED BY <2>1, <2>2, <3>1, <3>2 DEF LiveIsUnacked
  <2>5. SettledIsOver'
    BY <2>1, <2>2, <2>a DEF SettledIsOver
  <2> QED BY <2>4, <2>5
<1>6. ASSUME NEW c \in Consumers, Closes(c) PROVE Goal
  <2>1. /\ wire'[c] = <<>>
        /\ \A d \in Consumers \ {c} : unacked'[d] = unacked[d] /\ wire'[d] = wire[d]
        /\ \A h \in Handlers : live'[h] = IF h[1] = c THEN FALSE ELSE live[h]
        /\ config' = config
    BY <1>6, CloseItems
  <2>2. LiveIsUnacked /\ SettledIsOver
    BY <1>a, <2>1
  <2>3. LiveIsUnacked'
    BY <2>1, <2>2 DEF LiveIsUnacked, Handlers
  <2>4. ASSUME NEW d \in Consumers, NEW k \in DOMAIN wire'[d], wire'[d][k].op = "settle"
        PROVE  ~ live'[<<d, wire'[d][k].tag>>]
    <3>1. d # c /\ wire'[d] = wire[d] /\ k \in DOMAIN wire[d]
      BY <2>1, <2>4
    <3>2. ~ live[<<d, wire[d][k].tag>>] /\ <<d, wire[d][k].tag>> \in Handlers
      BY <2>2, <2>4, <3>1, MessagesTyped DEF SettledIsOver, Handlers
    <3> QED BY <2>1, <3>1, <3>2
  <2> QED BY <2>3, <2>4 DEF SettledIsOver
<1>7. ASSUME NEW c \in Consumers, BrokerPublishes(c) PROVE Goal
  <2>1. wire[c] # <<>> /\ wire' = [wire EXCEPT ![c] = Tail(@)]
    BY <1>7 DEF BrokerPublishes
  <2>2. UNCHANGED <<config, unacked, live>>
    BY <1>7, PublishItems
  <2>3. LiveIsUnacked /\ SettledIsOver
    BY <1>a, <2>2
  <2>4. SettledIsOver'
    <3>1. /\ \A k \in DOMAIN wire'[c] : k + 1 \in DOMAIN wire[c] /\ wire'[c][k] = wire[c][k + 1]
          /\ \A d \in Consumers \ {c} : wire'[d] = wire[d]
      BY <2>1, AckItems
    <3> QED BY <2>2, <2>3, <3>1 DEF SettledIsOver
  <2> QED BY <2>2, <2>3, <2>4 DEF LiveIsUnacked
<1>8. ASSUME NEW c \in Consumers, NEW t \in timers[c], FireTimer(c, t) PROVE Goal
  <2>1. UNCHANGED <<config, unacked, live>>
    BY <1>8, FireItems
  <2>2. LiveIsUnacked /\ SettledIsOver
    BY <1>a, <2>1
  <2>3. SettledIsOver'
    <3>1. /\ \A k \in DOMAIN wire'[c] :
               (k \in DOMAIN wire[c] /\ wire'[c][k] = wire[c][k]) \/ wire'[c][k].op = "publish"
          /\ \A d \in Consumers \ {c} : wire'[d] = wire[d]
      BY <1>8, FireItems
    <3> QED BY <2>1, <2>2, <3>1 DEF SettledIsOver
  <2> QED BY <2>1, <2>2, <2>3 DEF LiveIsUnacked
<1> QED BY <1>1, <1>2, <1>3, <1>4, <1>5, <1>6, <1>7, <1>8, Moves DEF Fire, Handlers

LEMMA TagInvariant == Spec => []TagInv
<1>1. Init => TagInv
  BY DEF Init, TagInv, LiveIsUnacked, SettledIsOver
<1> QED BY <1>1, TypeInvariant, TagStep, PTL DEF Spec

LEMMA TriedStep == TypeInv /\ TagInv /\ TriedInv /\ [Next]_vars => TriedInv'
<1> SUFFICES ASSUME TypeInv, TagInv, TriedInv, [Next]_vars, AckOn'
             PROVE  \A i \in 1 .. nextId' - 1 :
                      InQueue(i)' \/ Working(i)' \/ outcomes'[i] # {}
  BY DEF TriedInv
<1> DEFINE Tried(i) == InQueue(i) \/ Working(i) \/ outcomes[i] # {}
           Goal == \A i \in 1 .. nextId' - 1 :
                     InQueue(i)' \/ Working(i)' \/ outcomes'[i] # {}
<1>a. nextId \in 1 .. MaxMessages + 1 /\ 1 .. nextId - 1 \subseteq Ids
  BY BoundsAssumption DEF TypeInv, TypeOK, Ids
<1>b. ASSUME config' = config
      PROVE  AckOn /\ LiveIsUnacked /\ \A i \in 1 .. nextId - 1 : Tried(i)
  BY <1>b DEF AckOn, TagInv, TriedInv
<1>1. CASE Stays
  BY <1>1, <1>b DEF Stays, deliveryVars, InQueue, Working
<1>2. ASSUME NEW m \in Message, Emits(m) PROVE Goal
  <2>1. /\ m.id = nextId /\ nextId' = nextId + 1
        /\ UNCHANGED <<config, pc, job, live, outcomes>>
    BY <1>2 DEF Emits
  <2>2. \E k \in DOMAIN queue' : queue'[k].id = nextId
    BY <1>2, <2>1, EmitItems
  <2>3. \A i \in 1 .. nextId - 1 : InQueue(i) => InQueue(i)'
    BY <1>2, EmitItems DEF InQueue
  <2>4. \A i \in 1 .. nextId' - 1 : i = nextId \/ i \in 1 .. nextId - 1
    BY <1>a, <2>1
  <2>5. \A i \in 1 .. nextId - 1 : Working(i) => Working(i)'
    BY <2>1 DEF Working
  <2>6. \A i \in 1 .. nextId' - 1 : i = nextId => InQueue(i)'
    BY <2>2 DEF InQueue
  <2> QED BY <1>b, <2>1, <2>3, <2>4, <2>5, <2>6
<1>3. ASSUME NEW c \in Consumers, NEW s \in Slots, Deliver(<<c, s>>) PROVE Goal
  <2>1. UNCHANGED <<config, nextId, outcomes>>
    BY <1>3, DeliverItems
  <2>2. ASSUME NEW i \in Ids, InQueue(i) PROVE InQueue(i)' \/ Working(i)'
    <3>1. PICK k \in DOMAIN queue : queue[k].id = i
      BY <2>2 DEF InQueue
    <3>2. CASE k = 1
      BY <1>3, <3>1, <3>2, DeliverItems DEF Working, Handlers
    <3>3. CASE k # 1
      BY <1>3, <3>1, <3>3, DeliverItems DEF InQueue
    <3> QED BY <3>2, <3>3
  <2>3. ASSUME NEW i \in Ids, Working(i) PROVE Working(i)'
    <3>1. PICK h \in Handlers : pc[h] # "idle" /\ live[h] /\ job[h].id = i
      BY <2>3 DEF Working
    <3>2. h # <<c, s>>
      BY <1>3, <3>1, DeliverItems
    <3> QED BY <1>3, <3>1, <3>2, DeliverItems DEF Working
  <2> QED BY <1>a, <1>b, <2>1, <2>2, <2>3
<1>4. ASSUME NEW c \in Consumers, NEW s \in Slots, Settle(<<c, s>>) PROVE Goal
  <2>1. UNCHANGED <<config, nextId, queue, job>>
    BY <1>4, SettleItems
  <2>2. ASSUME NEW i \in Ids, Working(i) PROVE Working(i)' \/ outcomes'[i] # {}
    <3>1. PICK h \in Handlers : pc[h] # "idle" /\ live[h] /\ job[h].id = i
      BY <2>2 DEF Working
    <3>2. CASE h = <<c, s>>
      BY <1>4, <1>b, <2>1, <3>1, <3>2, SettleItems
    <3>3. CASE h # <<c, s>>
      BY <1>4, <3>1, <3>3, SettleItems DEF Working
    <3> QED BY <3>2, <3>3
  <2>3. \A i \in Ids : outcomes[i] # {} => outcomes'[i] # {}
    BY <1>4, SettleItems
  <2> QED BY <1>a, <1>b, <2>1, <2>2, <2>3 DEF InQueue
<1>5. ASSUME NEW c \in Consumers, Acks(c) PROVE Goal
  BY <1>5, <1>b DEF Acks, InQueue, Working
<1>6. ASSUME NEW c \in Consumers, Closes(c) PROVE Goal
  <2>1. UNCHANGED <<config, nextId, job, outcomes>>
    BY <1>6, CloseItems
  <2>2. ASSUME NEW i \in Ids, InQueue(i) PROVE InQueue(i)'
    <3>1. PICK k \in DOMAIN queue : queue[k].id = i
      BY <2>2 DEF InQueue
    <3>2. CASE unacked[c] = NoTag
      BY <1>6, <3>1, <3>2, CloseItems DEF InQueue
    <3>3. CASE unacked[c] # NoTag
      <4>1. k + 1 \in DOMAIN queue' /\ queue'[k + 1] = queue[k]
        BY <1>6, <3>3, CloseItems
      <4> QED BY <3>1, <4>1 DEF InQueue
    <3> QED BY <3>2, <3>3
  <2>3. ASSUME NEW i \in Ids, Working(i) PROVE InQueue(i)' \/ Working(i)'
    <3>1. PICK h \in Handlers : pc[h] # "idle" /\ live[h] /\ job[h].id = i
      BY <2>3 DEF Working
    <3>2. CASE h[1] = c
      <4>1. unacked[c] = h[2] /\ h = <<c, h[2]>> /\ h[2] # NoTag
        BY <1>b, <2>1, <3>1, <3>2, NoTagAssumption DEF LiveIsUnacked, Handlers
      <4>2. 1 \in DOMAIN queue' /\ queue'[1] = job[h]
        <5>1. unacked[c] # NoTag
          BY <4>1
        <5>2. 1 \in DOMAIN queue' /\ queue'[1] = job[<<c, unacked[c]>>]
          BY <1>6, <5>1, CloseItems
        <5> QED BY <4>1, <5>2
      <4> QED BY <3>1, <4>2 DEF InQueue
    <3>3. CASE h[1] # c
      <4>1. pc'[h] = pc[h] /\ live'[h] = live[h]
        BY <1>6, <3>3, CloseItems
      <4> QED BY <2>1, <3>1, <4>1 DEF Working
    <3> QED BY <3>2, <3>3
  <2> QED BY <1>a, <1>b, <2>1, <2>2, <2>3
<1>7. ASSUME NEW c \in Consumers, BrokerPublishes(c) PROVE Goal
  <2>1. UNCHANGED <<config, nextId, pc, job, live, outcomes>>
    BY <1>7, PublishItems
  <2>2. \A i \in Ids : InQueue(i) => InQueue(i)'
    BY <1>7, PublishItems DEF InQueue
  <2>3. \A i \in Ids : Working(i) => Working(i)'
    BY <2>1 DEF Working
  <2> QED BY <1>a, <1>b, <2>1, <2>2, <2>3
<1>8. ASSUME NEW c \in Consumers, NEW t \in timers[c], FireTimer(c, t) PROVE Goal
  <2>1. UNCHANGED <<config, nextId, queue, pc, job, live, outcomes>>
    BY <1>8, FireItems
  <2> QED BY <1>b, <2>1 DEF InQueue, Working
<1> QED BY <1>1, <1>2, <1>3, <1>4, <1>5, <1>6, <1>7, <1>8, Moves DEF Fire, Handlers

LEMMA TriedInvariant == Spec => []TriedInv
<1>1. Init => TriedInv
  BY DEF Init, TriedInv
<1> QED BY <1>1, TypeInvariant, TagInvariant, TriedStep, PTL DEF Spec

\* With acknowledgements no published message leaves the system before a handler ran
\* for it to the end: what a crash or a closed channel interrupts is requeued.
THEOREM NoLossBeforeAttemptHolds == Spec => []NoLossBeforeAttempt
<1>1. TriedInv => NoLossBeforeAttempt
  BY DEF TriedInv, NoLossBeforeAttempt, NothingIsLost, Working, Running, AckOn
<1> QED BY <1>1, TriedInvariant, PTL

-----------------------------------------------------------------------------
(* With acknowledgements: what the settlements of one layer, and of several, do. *)

LEMMA OneSettlementStep ==
  ASSUME TypeInv, TagInv, SettleInv, [Next]_vars, AckOn', config'.layers = 1
  PROVE  OneSettlement'
<1>a. ASSUME config' = config
      PROVE  AckOn /\ OneSettlement /\ LiveIsUnacked /\ SettledIsOver /\ config.layers = 1
  BY <1>a DEF AckOn, SettleInv, TagInv
<1>1. CASE Stays
  BY <1>1, <1>a DEF Stays, deliveryVars, OneSettlement
<1>2. ASSUME NEW m \in Message, Emits(m) PROVE OneSettlement'
  BY <1>2, <1>a DEF Emits, OneSettlement
<1>3. ASSUME NEW c \in Consumers, NEW s \in Slots, Deliver(<<c, s>>) PROVE OneSettlement'
  <2>1. UNCHANGED <<config, wire>> /\ \A d \in Consumers \ {c} : unacked'[d] = unacked[d]
    BY <1>3, DeliverItems
  <2>2. OneSettlement /\ unacked[c] = NoTag
    BY <1>3, <1>a, <2>1, DeliverItems
  <2>3. \A k \in DOMAIN wire[c] : wire[c][k].op # "settle"
    BY <2>2, MessagesTyped, NoTagAssumption DEF OneSettlement
  <2> QED BY <2>1, <2>2, <2>3 DEF OneSettlement
<1>4. ASSUME NEW c \in Consumers, NEW s \in Slots, Settle(<<c, s>>) PROVE OneSettlement'
  <2>1. UNCHANGED <<config, unacked>> /\ \A d \in Consumers \ {c} : wire'[d] = wire[d]
    BY <1>4, SettleItems
  <2>2. OneSettlement /\ LiveIsUnacked /\ SettledIsOver /\ config.layers = 1
    BY <1>a, <2>1
  <2>3. ASSUME live[<<c, s>>]
        PROVE  unacked[c] = s /\ \A k \in DOMAIN wire[c] : wire[c][k].op # "settle"
    <3>1. unacked[c] = s
      BY <2>2, <2>3 DEF LiveIsUnacked, Handlers
    <3> QED BY <2>2, <2>3, <3>1 DEF OneSettlement, SettledIsOver
  <2>4. \A k \in DOMAIN wire'[c] :
          \/ k \in DOMAIN wire[c] /\ wire'[c][k] = wire[c][k]
          \/ live[<<c, s>>] /\ k = Len(wire[c]) + 1 /\ wire'[c][k].tag = s
    <3>1. \A k \in DOMAIN wire'[c] :
            \/ k \in DOMAIN wire[c] /\ wire'[c][k] = wire[c][k]
            \/ /\ live[<<c, s>>] /\ k - Len(wire[c]) \in 1 .. config.layers
               /\ k > Len(wire[c]) /\ wire'[c][k].tag = s
      BY <1>4, SettleItems
    <3>2. wire[c] \in Seq(Frame) /\ wire'[c] \in Seq(Frame)
      BY TypeStep DEF TypeInv, TypeOK
    <3>3. Len(wire[c]) \in Int /\ \A k \in DOMAIN wire'[c] : k \in Int
      BY <3>2
    <3> QED BY <2>2, <3>1, <3>3
  <2>5. ASSUME NEW j \in DOMAIN wire'[c], NEW k \in DOMAIN wire'[c],
               wire'[c][j].op = "settle"
        PROVE  /\ wire'[c][j].tag = unacked[c]
               /\ wire'[c][k].op = "settle" => j = k
    <3>1. CASE live[<<c, s>>]
      BY <2>3, <2>4, <2>5, <3>1
    <3>2. CASE ~ live[<<c, s>>]
      BY <2>2, <2>4, <2>5, <3>2 DEF OneSettlement
    <3> QED BY <3>1, <3>2
  <2> QED BY <2>1, <2>2, <2>5 DEF OneSettlement
<1>5. ASSUME NEW c \in Consumers, Acks(c) PROVE OneSettlement'
  <2>1. /\ wire[c] # <<>> /\ Head(wire[c]).op = "settle"
        /\ wire' = [wire EXCEPT ![c] = Tail(@)] /\ config' = config
        /\ \A d \in Consumers \ {c} : unacked'[d] = unacked[d]
    BY <1>5 DEF Acks, TypeInv, TypeOK
  <2>2. /\ 1 \in DOMAIN wire[c] /\ Head(wire[c]) = wire[c][1]
        /\ \A k \in DOMAIN wire'[c] :
             k \in Int /\ k + 1 \in DOMAIN wire[c] /\ wire'[c][k] = wire[c][k + 1]
        /\ \A d \in Consumers \ {c} : wire'[d] = wire[d]
    BY <2>1, AckItems
  <2>3. OneSettlement
    BY <1>a, <2>1
  <2>4. ASSUME NEW k \in DOMAIN wire'[c] PROVE wire'[c][k].op # "settle"
    <3>1. wire'[c] \in Seq(Frame)
      BY TypeStep DEF TypeInv, TypeOK
    <3>2. k + 1 # 1
      BY <3>1
    <3> QED BY <2>1, <2>2, <2>3, <3>2 DEF OneSettlement
  <2> QED BY <2>1, <2>2, <2>3, <2>4 DEF OneSettlement
<1>6. ASSUME NEW c \in Consumers, Closes(c) PROVE OneSettlement'
  <2>1. /\ wire'[c] = <<>> /\ config' = config
        /\ \A d \in Consumers \ {c} : unacked'[d] = unacked[d] /\ wire'[d] = wire[d]
    BY <1>6, CloseItems
  <2> QED BY <1>a, <2>1 DEF OneSettlement
<1>7. ASSUME NEW c \in Consumers, BrokerPublishes(c) PROVE OneSettlement'
  <2>1. wire[c] # <<>> /\ wire' = [wire EXCEPT ![c] = Tail(@)]
    BY <1>7 DEF BrokerPublishes
  <2>2. UNCHANGED <<config, unacked>>
    BY <1>7, PublishItems
  <2>3. /\ \A k \in DOMAIN wire'[c] :
             k \in Int /\ k + 1 \in DOMAIN wire[c] /\ wire'[c][k] = wire[c][k + 1]
        /\ \A d \in Consumers \ {c} : wire'[d] = wire[d]
    BY <2>1, AckItems
  <2>4. OneSettlement
    BY <1>a, <2>2
  <2>5. ASSUME NEW j \in DOMAIN wire'[c], NEW k \in DOMAIN wire'[c],
               wire'[c][j].op = "settle"
        PROVE  /\ wire'[c][j].tag = unacked[c]
               /\ wire'[c][k].op = "settle" => j = k
    <3>1. wire'[c][k].op = "settle" => j + 1 = k + 1
      BY <2>3, <2>4, <2>5 DEF OneSettlement
    <3> QED BY <2>3, <2>4, <2>5, <3>1 DEF OneSettlement
  <2> QED BY <2>2, <2>3, <2>4, <2>5 DEF OneSettlement
<1>8. ASSUME NEW c \in Consumers, NEW t \in timers[c], FireTimer(c, t) PROVE OneSettlement'
  <2>1. UNCHANGED <<config, unacked>>
    BY <1>8, FireItems
  <2>2. /\ \A k \in DOMAIN wire'[c] :
             (k \in DOMAIN wire[c] /\ wire'[c][k] = wire[c][k]) \/ wire'[c][k].op = "publish"
        /\ \A d \in Consumers \ {c} : wire'[d] = wire[d]
    BY <1>8, FireItems
  <2> QED BY <1>a, <2>1, <2>2 DEF OneSettlement
<1> QED BY <1>1, <1>2, <1>3, <1>4, <1>5, <1>6, <1>7, <1>8, Moves DEF Fire, Handlers

\* A settlement that frees a delivery leaves its second on the channel, a delivery does
\* not take its tag, and whatever is sent later comes after it.
LEMMA AllDoomedStep ==
  ASSUME TypeInv, TagInv, SettleInv, [Next]_vars, AckOn', config'.layers # 1
  PROVE  AllDoomed'
<1>a. ASSUME config' = config
      PROVE  AckOn /\ AllDoomed /\ LiveIsUnacked /\ config.layers # 1
  BY <1>a DEF AckOn, SettleInv, TagInv
<1>b. \A c \in Consumers : /\ wire[c] \in Seq(Frame) /\ wire'[c] \in Seq(Frame)
                           /\ wire[c] # <<>> => 1 \in DOMAIN wire[c]
                           /\ wire'[c] # <<>> => 1 \in DOMAIN wire'[c]
                           /\ 1 \in DOMAIN wire[c] => wire[c] # <<>>
                           /\ 1 \in DOMAIN wire'[c] => wire'[c] # <<>>
  BY TypeStep DEF TypeInv, TypeOK
<1>1. CASE Stays
  BY <1>1, <1>a DEF Stays, deliveryVars, AllDoomed, Doomed
<1>2. ASSUME NEW m \in Message, Emits(m) PROVE AllDoomed'
  BY <1>2, <1>a DEF Emits, AllDoomed, Doomed
<1>3. ASSUME NEW c \in Consumers, NEW s \in Slots, Deliver(<<c, s>>) PROVE AllDoomed'
  <2>1. /\ UNCHANGED <<config, wire, timers>>
        /\ \A d \in Consumers \ {c} : unacked'[d] = unacked[d]
    BY <1>3, DeliverItems
  <2>2. AllDoomed /\ unacked'[c] = s
    BY <1>3, <1>a, <2>1, DeliverItems
  <2>3. \A k \in DOMAIN wire[c] : wire[c][k].op = "settle" => wire[c][k].tag # s
    BY <1>3 DEF Deliver, TagFree
  <2> QED BY <1>b, <2>1, <2>2, <2>3 DEF AllDoomed, Doomed
<1>4. ASSUME NEW c \in Consumers, NEW s \in Slots, Settle(<<c, s>>) PROVE AllDoomed'
  <2>1. /\ UNCHANGED <<config, unacked>>
        /\ \A d \in Consumers \ {c} : wire'[d] = wire[d] /\ timers'[d] = timers[d]
        /\ \A k \in DOMAIN wire[c] : k \in DOMAIN wire'[c] /\ wire'[c][k] = wire[c][k]
    BY <1>4, SettleItems
  <2>2. AckOn /\ AllDoomed /\ config.layers # 1
    BY <1>a, <2>1
  <2>3. CASE live[<<c, s>>] /\ wire[c] = <<>>
    <3>1. config.layers \in Nat /\ 1 \in 1 .. config.layers /\ 2 \in 1 .. config.layers
      <4>1. config.layers \in Nat \ {0}
        BY ConfigAssumption DEF TypeInv, TypeOK, Config
      <4> QED BY <2>2, <4>1
    <3>2. Len(wire[c]) = 0
      BY <2>3
    <3>3. /\ 1 + 0 \in DOMAIN wire'[c] /\ 2 + 0 \in DOMAIN wire'[c]
          /\ wire'[c][1 + 0].op = "settle" /\ wire'[c][1 + 0].tag = s
          /\ wire'[c][2 + 0].op = "settle" /\ wire'[c][2 + 0].tag = s
      BY <1>4, <2>2, <2>3, <3>1, <3>2, SettleItems
    <3>4. Doomed(c)' /\ wire'[c] # <<>>
      BY <1>b, <3>3 DEF Doomed
    <3> QED BY <2>1, <2>2, <3>4 DEF AllDoomed, Doomed
  <2>4. CASE wire[c] # <<>>
    <3>1. Doomed(c) /\ 1 \in DOMAIN wire[c]
      BY <1>b, <2>2, <2>4 DEF AllDoomed
    <3>2. Doomed(c)' /\ wire'[c] # <<>>
      BY <1>b, <2>1, <3>1 DEF Doomed
    <3> QED BY <2>1, <2>2, <3>2 DEF AllDoomed, Doomed
  <2>5. CASE ~ live[<<c, s>>]
    BY <1>4, <2>1, <2>2, <2>5 DEF Settle, AllDoomed, Doomed
  <2> QED BY <2>3, <2>4, <2>5
<1>5. ASSUME NEW c \in Consumers, Acks(c) PROVE AllDoomed'
  <2>1. /\ wire[c] # <<>> /\ Head(wire[c]).tag = unacked[c]
        /\ wire' = [wire EXCEPT ![c] = Tail(@)] /\ UNCHANGED <<config, timers>>
        /\ unacked'[c] = NoTag
        /\ \A d \in Consumers \ {c} : unacked'[d] = unacked[d]
    BY <1>5 DEF Acks, TypeInv, TypeOK
  <2>2. /\ 1 \in DOMAIN wire[c] /\ Head(wire[c]) = wire[c][1]
        /\ \A k \in DOMAIN wire[c] : k = 1 \/ k - 1 \in DOMAIN wire'[c]
        /\ \A k \in DOMAIN wire'[c] :
             k \in Int /\ k + 1 \in DOMAIN wire[c] /\ wire'[c][k] = wire[c][k + 1]
        /\ \A d \in Consumers \ {c} : wire'[d] = wire[d]
    BY <2>1, AckItems
  <2>3. AllDoomed
    BY <1>a, <2>1
  <2>4. /\ wire[c][1].op = "settle" /\ 2 \in DOMAIN wire[c]
        /\ wire[c][2].op = "settle" /\ wire[c][2].tag = wire[c][1].tag
    BY <2>1, <2>2, <2>3 DEF AllDoomed, Doomed
  <2>5. 2 - 1 \in DOMAIN wire'[c] /\ wire'[c][1] = wire[c][1 + 1]
    BY <2>2, <2>4
  <2>6. wire'[c][1].tag \in Slots
    BY <2>4, <2>5, MessagesTyped
  <2>7. Doomed(c)' /\ wire'[c] # <<>>
    BY <1>b, <2>1, <2>4, <2>5, <2>6, NoTagAssumption DEF Doomed
  <2> QED BY <2>1, <2>2, <2>3, <2>7 DEF AllDoomed, Doomed
<1>6. ASSUME NEW c \in Consumers, Closes(c) PROVE AllDoomed'
  <2>1. /\ wire'[c] = <<>> /\ timers'[c] = {} /\ config' = config
        /\ \A d \in Consumers \ {c} :
             unacked'[d] = unacked[d] /\ wire'[d] = wire[d] /\ timers'[d] = timers[d]
    BY <1>6, CloseItems
  <2> QED BY <1>a, <2>1 DEF AllDoomed, Doomed
<1>7. ASSUME NEW c \in Consumers, BrokerPublishes(c) PROVE FALSE
  <2>1. wire[c] # <<>> /\ wire[c][1].op = "publish" /\ config' = config
    BY <1>7, PublishItems DEF BrokerPublishes
  <2> QED BY <1>a, <2>1 DEF AllDoomed, Doomed
<1>8. ASSUME NEW c \in Consumers, NEW t \in timers[c], FireTimer(c, t) PROVE AllDoomed'
  <2>1. /\ UNCHANGED <<config, unacked>>
        /\ \A k \in DOMAIN wire[c] : k \in DOMAIN wire'[c] /\ wire'[c][k] = wire[c][k]
        /\ timers'[c] \subseteq timers[c]
        /\ \A d \in Consumers \ {c} : wire'[d] = wire[d] /\ timers'[d] = timers[d]
    BY <1>8, FireItems
  <2>2. AllDoomed /\ wire[c] # <<>> /\ Doomed(c)
    BY <1>a, <2>1 DEF AllDoomed
  <2>3. Doomed(c)' /\ wire'[c] # <<>>
    BY <1>b, <2>1, <2>2 DEF Doomed
  <2> QED BY <2>1, <2>2, <2>3 DEF AllDoomed, Doomed
<1> QED BY <1>1, <1>2, <1>3, <1>4, <1>5, <1>6, <1>7, <1>8, Moves DEF Fire, Handlers

LEMMA SettleStep == TypeInv /\ TagInv /\ SettleInv /\ [Next]_vars => SettleInv'
BY OneSettlementStep, AllDoomedStep DEF SettleInv

LEMMA SettleInvariant == Spec => []SettleInv
<1>1. Init => SettleInv
  BY DEF Init, SettleInv, OneSettlement, AllDoomed
<1> QED BY <1>1, TypeInvariant, TagInvariant, SettleStep, PTL DEF Spec

-----------------------------------------------------------------------------
(* With several layers no failed message comes back.                       *)

LEMMA NothingComesBackStep ==
  TypeInv /\ SettleInv /\ NothingComesBack /\ [Next]_vars => NothingComesBack'
<1> SUFFICES ASSUME TypeInv, SettleInv, NothingComesBack, [Next]_vars,
                    AckOn', config'.layers # 1
             PROVE  FirstTries'
  BY DEF NothingComesBack
<1>a. ASSUME config' = config PROVE AckOn /\ AllDoomed /\ FirstTries
  BY <1>a DEF AckOn, SettleInv, NothingComesBack
<1>1. CASE Stays
  BY <1>1, <1>a DEF Stays, deliveryVars, FirstTries
<1>2. ASSUME NEW m \in Message, Emits(m) PROVE FirstTries'
  <2>1. UNCHANGED <<config, unacked, job>> /\ m.retry = 0
    BY <1>2 DEF Emits
  <2> QED BY <1>2, <1>a, <2>1, EmitItems DEF FirstTries
<1>3. ASSUME NEW c \in Consumers, NEW s \in Slots, Deliver(<<c, s>>) PROVE FirstTries'
  <2>1. /\ 1 \in DOMAIN queue /\ job'[<<c, s>>] = queue[1]
        /\ \A k \in DOMAIN queue' : k + 1 \in DOMAIN queue /\ queue'[k] = queue[k + 1]
        /\ \A g \in Handlers \ {<<c, s>>} : job'[g] = job[g]
        /\ unacked'[c] = s \/ unacked'[c] = NoTag
        /\ \A d \in Consumers \ {c} : unacked'[d] = unacked[d]
        /\ config' = config
    BY <1>3, DeliverItems
  <2>2. \A d \in Consumers \ {c} :
          unacked'[d] # NoTag => job'[<<d, unacked'[d]>>] = job[<<d, unacked[d]>>]
    BY <2>1 DEF TypeInv, TypeOK, Handlers
  <2> QED BY <1>a, <2>1, <2>2 DEF FirstTries
<1>4. ASSUME NEW c \in Consumers, NEW s \in Slots, Settle(<<c, s>>) PROVE FirstTries'
  <2>1. UNCHANGED <<config, queue, unacked, job>>
    BY <1>4, SettleItems
  <2> QED BY <1>a, <2>1 DEF FirstTries
<1>5. ASSUME NEW c \in Consumers, Acks(c) PROVE FirstTries'
  <2>1. /\ UNCHANGED <<config, queue, job>>
        /\ \A d \in Consumers : unacked'[d] # NoTag => unacked'[d] = unacked[d]
    BY <1>5 DEF Acks, TypeInv, TypeOK
  <2> QED BY <1>a, <2>1 DEF FirstTries
<1>6. ASSUME NEW c \in Consumers, Closes(c) PROVE FirstTries'
  <2>1. /\ \A d \in Consumers : unacked'[d] # NoTag => unacked'[d] = unacked[d]
        /\ UNCHANGED <<config, job>>
    BY <1>6, CloseItems
  <2>2. ASSUME NEW k \in DOMAIN queue' PROVE queue'[k].retry = 0
    <3>1. CASE unacked[c] = NoTag
      <4>1. queue' = queue
        BY <1>6, <3>1, CloseItems
      <4> QED BY <1>a, <2>1, <4>1 DEF FirstTries
    <3>2. CASE unacked[c] # NoTag
      <4>1. \/ queue'[k] = job[<<c, unacked[c]>>]
            \/ k - 1 \in DOMAIN queue /\ queue'[k] = queue[k - 1]
        BY <1>6, <3>2, CloseItems
      <4> QED BY <1>a, <2>1, <3>2, <4>1 DEF FirstTries
    <3> QED BY <3>1, <3>2
  <2> QED BY <1>a, <2>1, <2>2 DEF FirstTries
<1>7. ASSUME NEW c \in Consumers, BrokerPublishes(c) PROVE FALSE
  <2>1. wire[c] # <<>> /\ wire[c][1].op = "publish" /\ config' = config
    BY <1>7, PublishItems DEF BrokerPublishes
  <2> QED BY <1>a, <2>1 DEF AllDoomed, Doomed
<1>8. ASSUME NEW c \in Consumers, NEW t \in timers[c], FireTimer(c, t) PROVE FirstTries'
  <2>1. UNCHANGED <<config, queue, unacked, job>>
    BY <1>8, FireItems
  <2> QED BY <1>a, <2>1 DEF FirstTries
<1> QED BY <1>1, <1>2, <1>3, <1>4, <1>5, <1>6, <1>7, <1>8, Moves DEF Fire, Handlers

\* With the interceptor bound more than once, as the service is built, no message
\* comes back from a failure, whatever MQ_MAX_RETRIES says: the second rejection of the
\* same delivery closes the channel before the broker reads the republication.
THEOREM NothingComesBackHolds == Spec => []NothingComesBack
<1>1. Init => NothingComesBack
  BY DEF Init, NothingComesBack, FirstTries
<1> QED BY <1>1, TypeInvariant, SettleInvariant, NothingComesBackStep, PTL DEF Spec
-----------------------------------------------------------------------------
(* One copy of each message.                                               *)

NotHeld ==
  \A c \in Consumers : \A k \in DOMAIN queue : unacked[c] # NoTag => HeldId(c) # queue[k].id
HeldDistinct ==
  \A c, d \in Consumers :
    unacked[c] # NoTag /\ unacked[d] # NoTag /\ HeldId(c) = HeldId(d) => c = d

LEMMA CopyParts == SingleCopy <=> QueueDistinct /\ NotHeld /\ HeldDistinct
BY DEF SingleCopy, QueueDistinct, NotHeld, HeldDistinct, Held, HeldId

LEMMA CopyStep ==
  ASSUME TypeInv, IdsInv, SettleInv, ReturnInv, SingleCopy, AckOn, [Next]_vars
  PROVE  SingleCopy'
<1> SUFFICES QueueDistinct' /\ NotHeld' /\ HeldDistinct'
  BY DEF SingleCopy, QueueDistinct, NotHeld, HeldDistinct, Held, HeldId
<1> DEFINE Goal == QueueDistinct' /\ NotHeld' /\ HeldDistinct'
<1>a. QueueDistinct /\ NotHeld /\ HeldDistinct
  BY CopyParts
<1>1. CASE Stays
  BY <1>1, <1>a DEF Stays, deliveryVars, QueueDistinct, NotHeld, HeldDistinct, HeldId
<1>2. ASSUME NEW m \in Message, Emits(m) PROVE Goal
  <2>1. m.id = nextId /\ UNCHANGED <<unacked, job>>
    BY <1>2 DEF Emits
  <2>2. nextId \in Int
    BY DEF TypeInv, TypeOK
  <2>3. /\ \A k \in DOMAIN queue : queue[k].id # nextId
        /\ \A c \in Consumers : unacked[c] # NoTag => HeldId(c) # nextId
    BY <2>2 DEF IdsInv, HeldId
  <2>4. QueueDistinct'
    BY <1>2, <1>a, <2>1, <2>3, EmitItems DEF QueueDistinct
  <2>5. NotHeld'
    BY <1>2, <1>a, <2>1, <2>3, EmitItems DEF NotHeld, HeldId
  <2>6. HeldDistinct'
    BY <1>a, <2>1 DEF HeldDistinct, HeldId
  <2> QED BY <2>4, <2>5, <2>6
<1>3. ASSUME NEW c \in Consumers, NEW s \in Slots, Deliver(<<c, s>>) PROVE Goal
  <2>1. /\ 1 \in DOMAIN queue /\ job'[<<c, s>>] = queue[1]
        /\ \A k \in DOMAIN queue' :
             k \in Int /\ k + 1 \in DOMAIN queue /\ queue'[k] = queue[k + 1]
        /\ \A g \in Handlers \ {<<c, s>>} : job'[g] = job[g]
        /\ unacked'[c] = s
        /\ \A d \in Consumers \ {c} : unacked'[d] = unacked[d]
    BY <1>3, DeliverItems
  <2>2. HeldId(c)' = queue[1].id
    BY <2>1 DEF HeldId
  <2>3. ASSUME NEW d \in Consumers \ {c}, unacked'[d] # NoTag
        PROVE  HeldId(d)' = HeldId(d)
    <3>1. unacked'[d] = unacked[d]
      BY <2>1
    <3>2. <<d, unacked[d]>> \in Handlers
      BY <2>3, <3>1 DEF TypeInv, TypeOK, Handlers
    <3> QED BY <2>1, <3>1, <3>2 DEF HeldId
  <2>4. QueueDistinct'
    <3>1. SUFFICES ASSUME NEW j \in DOMAIN queue', NEW k \in DOMAIN queue',
                          queue'[j].id = queue'[k].id
                   PROVE  j = k
      BY DEF QueueDistinct
    <3>2. j + 1 = k + 1 /\ j \in Int /\ k \in Int
      BY <1>a, <2>1, <3>1 DEF QueueDistinct
    <3> QED BY <3>2
  <2>5. ASSUME NEW k \in DOMAIN queue' PROVE queue'[k].id # queue[1].id
    <3>1. queue' \in Seq(Message)
      BY TypeStep DEF TypeInv, TypeOK
    <3>2. k + 1 # 1
      BY <3>1
    <3> QED BY <1>a, <2>1, <3>2 DEF QueueDistinct
  <2>6. NotHeld'
    BY <1>a, <2>1, <2>2, <2>3, <2>5 DEF NotHeld
  <2>7. HeldDistinct'
    BY <1>a, <2>1, <2>2, <2>3 DEF NotHeld, HeldDistinct
  <2> QED BY <2>4, <2>6, <2>7
<1>4. ASSUME NEW c \in Consumers, NEW s \in Slots, Settle(<<c, s>>) PROVE Goal
  <2>1. UNCHANGED <<queue, unacked, job>>
    BY <1>4, SettleItems
  <2> QED BY <1>a, <2>1 DEF QueueDistinct, NotHeld, HeldDistinct, HeldId
<1>5. ASSUME NEW c \in Consumers, Acks(c) PROVE Goal
  <2>1. /\ UNCHANGED <<queue, job>>
        /\ \A d \in Consumers : unacked'[d] # NoTag => unacked'[d] = unacked[d]
    BY <1>5 DEF Acks, TypeInv, TypeOK
  <2> QED BY <1>a, <2>1 DEF QueueDistinct, NotHeld, HeldDistinct, HeldId
<1>6. ASSUME NEW c \in Consumers, Closes(c) PROVE Goal
  <2>1. /\ unacked'[c] = NoTag
        /\ \A d \in Consumers \ {c} : unacked'[d] = unacked[d]
        /\ job' = job
    BY <1>6, CloseItems
  <2>2. HeldDistinct'
    BY <1>a, <2>1 DEF HeldDistinct, HeldId
  <2>3. CASE unacked[c] = NoTag
    <3>1. queue' = queue
      BY <1>6, <2>3, CloseItems
    <3> QED BY <1>a, <2>1, <2>2, <3>1 DEF QueueDistinct, NotHeld, HeldId
  <2>4. CASE unacked[c] # NoTag
    <3>1. /\ queue'[1].id = HeldId(c)
          /\ \A k \in DOMAIN queue' :
               k = 1 \/ (k \in Int /\ k - 1 \in DOMAIN queue /\ queue'[k] = queue[k - 1])
      BY <1>6, <2>4, CloseItems DEF HeldId
    <3>2. \A k \in DOMAIN queue' : k # 1 => queue'[k].id # HeldId(c)
      BY <1>a, <2>4, <3>1 DEF NotHeld
    <3>3. QueueDistinct'
      <4>1. SUFFICES ASSUME NEW j \in DOMAIN queue', NEW k \in DOMAIN queue',
                            queue'[j].id = queue'[k].id
                     PROVE  j = k
        BY DEF QueueDistinct
      <4>2. CASE j = 1 \/ k = 1
        BY <3>1, <3>2, <4>1, <4>2
      <4>3. CASE j # 1 /\ k # 1
        <5>1. j - 1 = k - 1 /\ j \in Int /\ k \in Int
          BY <1>a, <3>1, <4>1, <4>3 DEF QueueDistinct
        <5> QED BY <5>1
      <4> QED BY <4>2, <4>3
    <3>4. NotHeld'
      <4>1. SUFFICES ASSUME NEW d \in Consumers, NEW k \in DOMAIN queue', unacked'[d] # NoTag
                     PROVE  HeldId(d)' # queue'[k].id
        BY DEF NotHeld
      <4>2. d # c /\ unacked[d] # NoTag /\ HeldId(d)' = HeldId(d)
        BY <2>1, <4>1 DEF HeldId
      <4> QED BY <1>a, <2>4, <3>1, <4>2 DEF NotHeld, HeldDistinct
    <3> QED BY <2>2, <3>3, <3>4
  <2> QED BY <2>3, <2>4
<1>7. ASSUME NEW c \in Consumers, BrokerPublishes(c) PROVE Goal
  <2> DEFINE i == wire[c][1].msg.id
  <2>1. /\ wire[c] # <<>> /\ wire[c][1].op = "publish"
        /\ UNCHANGED <<unacked, job>>
    BY <1>7, PublishItems DEF BrokerPublishes
  <2>2. 1 \in DOMAIN wire[c] /\ \A k \in DOMAIN wire[c] : ~ (k < 1)
    <3>1. wire[c] \in Seq(Frame)
      BY DEF TypeInv, TypeOK
    <3> QED BY <2>1, <3>1
  <2>3. config.layers = 1 /\ ReturnParts
    BY <2>1 DEF SettleInv, AllDoomed, Doomed, ReturnInv
  <2>4. Sent(c, 1, i) /\ Returning(c, i)
    BY <2>1, <2>2 DEF Sent, Returning
  <2>5. \A k \in DOMAIN queue : queue[k].id # i
    BY <2>3, <2>4 DEF ReturnParts, ReadyStays
  <2>6. \A d \in Consumers : unacked[d] # NoTag => HeldId(d) # i
    BY <2>2, <2>3, <2>4 DEF ReturnParts, SettlementFirst
  <2> HIDE DEF i
  <2>7. \A k \in DOMAIN queue' :
          \/ k \in DOMAIN queue /\ queue'[k] = queue[k]
          \/ k = Len(queue) + 1 /\ queue'[k].id = i
    BY <1>7, PublishItems DEF i
  <2>8. QueueDistinct'
    BY <1>a, <2>5, <2>7 DEF QueueDistinct
  <2>9. NotHeld'
    BY <1>a, <2>1, <2>6, <2>7 DEF NotHeld, HeldId
  <2>10. HeldDistinct'
    BY <1>a, <2>1 DEF HeldDistinct, HeldId
  <2> QED BY <2>8, <2>9, <2>10
<1>8. ASSUME NEW c \in Consumers, NEW t \in timers[c], FireTimer(c, t) PROVE Goal
  <2>1. UNCHANGED <<queue, unacked, job>>
    BY <1>8, FireItems
  <2> QED BY <1>a, <2>1 DEF QueueDistinct, NotHeld, HeldDistinct, HeldId
<1> QED BY <1>1, <1>2, <1>3, <1>4, <1>5, <1>6, <1>7, <1>8, Moves DEF Fire, Handlers

\* Where ids are, they are ids.
LEMMA IdsTyped ==
  ASSUME TypeInv
  PROVE  /\ \A k \in DOMAIN queue : queue[k].id \in Ids
         /\ \A h \in Handlers : pc[h] # "idle" => job[h].id \in Ids
         /\ \A c \in Consumers : unacked[c] # NoTag => HeldId(c) \in Ids
         /\ \A c \in Consumers : \A t \in timers[c] : t.msg.id \in Ids
         /\ \A c \in Consumers : \A k \in DOMAIN wire[c] :
              wire[c][k].op = "publish" => wire[c][k].msg.id \in Ids
BY MessagesTyped DEF Message, HeldId

\* A handler of a live delivery has not settled it, and nothing is about to return.
LEMMA NothingSentYet ==
  ASSUME TypeInv, TagInv, SettleInv, ReturnInv, AckOn, config.layers = 1,
         NEW c \in Consumers, NEW s \in Slots, live[<<c, s>>]
  PROVE  /\ unacked[c] = s /\ HeldId(c) = job[<<c, s>>].id
         /\ \A k \in DOMAIN wire[c] : wire[c][k].op # "settle"
         /\ \A d \in Consumers : ~ Returning(d, job[<<c, s>>].id)
<1>1. LiveIsUnacked /\ SettledIsOver /\ OneSettlement /\ SettlementFirst
  BY DEF TagInv, SettleInv, ReturnInv, ReturnParts
<1>2. unacked[c] = s /\ HeldId(c) = job[<<c, s>>].id
  BY <1>1 DEF LiveIsUnacked, HeldId, Handlers
<1>3. \A k \in DOMAIN wire[c] : wire[c][k].op # "settle"
  BY <1>1, <1>2 DEF OneSettlement, SettledIsOver
<1>4. \A d \in Consumers : ~ Returning(d, job[<<c, s>>].id)
  BY <1>1, <1>2, <1>3, NoTagAssumption DEF SettlementFirst, Returning
<1> QED BY <1>2, <1>3, <1>4

\* A settlement adds no frame that publishes, and at most one timer.
LEMMA ReturnSettle ==
  ASSUME TypeInv, TagInv, SettleInv, ReturnInv, SingleCopy, AckOn, config.layers = 1,
         NEW c \in Consumers, NEW s \in Slots, Settle(<<c, s>>)
  PROVE  ReturnParts'
<1> DEFINE i == job[<<c, s>>].id
<1>a. ReturnParts /\ NotHeld /\ HeldDistinct
  BY CopyParts DEF ReturnInv
<1>1. UNCHANGED <<config, queue, unacked, job>>
  BY SettleItems
<1>2. CASE ~ live[<<c, s>>]
  <2>1. UNCHANGED <<wire, timers>>
    BY <1>2 DEF Settle
  <2> QED BY <1>a, <1>1, <2>1 DEF ReturnParts, ReadyStays, OneTimer, OneFrame, TimerOrFrame,
                                  OneWayBack, SettlementFirst, Returning, Timed, Sent, HeldId
<1>3. CASE live[<<c, s>>]
  <2>1. /\ unacked[c] = s /\ HeldId(c) = i /\ s # NoTag
        /\ \A d \in Consumers : ~ Returning(d, i)
    BY <1>3, NothingSentYet, NoTagAssumption
  <2>2. /\ \A d \in Consumers \ {c} : wire'[d] = wire[d] /\ timers'[d] = timers[d]
        /\ \A k \in DOMAIN wire[c] : k \in DOMAIN wire'[c] /\ wire'[c][k] = wire[c][k]
        /\ timers[c] \subseteq timers'[c]
        /\ \A t \in timers'[c] \ timers[c] : t \in RetryTimers(<<c, s>>)
        /\ job[<<c, s>>] \in Message
    BY SettleItems
  <2>3. \A k \in DOMAIN wire'[c] :
          (k \in DOMAIN wire[c] /\ wire'[c][k] = wire[c][k]) \/ wire'[c][k].op = "settle"
    BY SettleItems
  <2>4. \E j \in DOMAIN wire'[c] : wire'[c][j].op = "settle"
    <3>1. 1 \in 1 .. config.layers
      OBVIOUS
    <3> QED BY <1>3, <3>1, SettleItems
  <2>5. \A t, u \in timers'[c] \ timers[c] : t = u /\ t.msg.id = i
    BY <2>2 DEF RetryTimers, Message
  <2> HIDE DEF i
  <2>6. \A d \in Consumers, x \in Ids : \A k \in DOMAIN wire'[d] :
          Sent(d, k, x)' => k \in DOMAIN wire[d] /\ Sent(d, k, x)
    BY <2>2, <2>3 DEF Sent
  <2>7. \A d \in Consumers, x \in Ids : Timed(d, x)' => Timed(d, x) \/ (d = c /\ x = i)
    BY <2>2, <2>5 DEF Timed
  <2>8. \A d \in Consumers, x \in Ids :
          Returning(d, x)' => Returning(d, x) \/ (d = c /\ x = i)
    BY <2>6, <2>7 DEF Returning
  <2>9. ReadyStays'
    <3>1. \A k \in DOMAIN queue : queue[k].id # i /\ queue[k].id \in Ids
      BY <1>a, <2>1, IdsTyped DEF NotHeld
    <3>2. ASSUME NEW d \in Consumers, NEW k \in DOMAIN queue, Returning(d, queue[k].id)'
          PROVE  FALSE
      <4>1. queue'[k].id = queue[k].id /\ queue[k].id \in Ids /\ queue[k].id # i
        BY <1>1, <3>1
      <4>2. \A x \in Ids : Returning(d, x)' /\ x # i => Returning(d, x)
        BY <2>8
      <4>3. Returning(d, queue[k].id)
        BY <3>2, <4>1, <4>2 DEF Returning, Timed, Sent
      <4> QED BY <1>a, <4>3 DEF ReturnParts, ReadyStays
    <3> QED BY <1>1, <3>2 DEF ReadyStays
  <2>10. OneTimer'
    <3>1. SUFFICES ASSUME NEW d \in Consumers, NEW t \in timers'[d], NEW u \in timers'[d],
                          t.msg.id = u.msg.id
                   PROVE  t = u
      BY DEF OneTimer
    <3>2. CASE t \in timers[d] /\ u \in timers[d]
      BY <1>a, <3>1, <3>2 DEF ReturnParts, OneTimer
    <3>3. CASE ~ (t \in timers[d] /\ u \in timers[d])
      <4>1. d = c
        BY <2>2, <3>3
      <4>2. \A v \in timers[c] : v.msg.id # i
        BY <2>1 DEF Returning, Timed
      <4> QED BY <2>5, <3>1, <3>3, <4>1, <4>2
    <3> QED BY <3>2, <3>3
  <2>11. OneFrame'
    BY <1>a, <2>6 DEF ReturnParts, OneFrame
  <2>12. TimerOrFrame'
    BY <1>a, <2>1, <2>6, <2>7 DEF ReturnParts, TimerOrFrame, Returning
  <2>13. OneWayBack'
    BY <1>a, <2>1, <2>8 DEF ReturnParts, OneWayBack
  <2>14. SettlementFirst'
    <3>1. SUFFICES ASSUME NEW e \in Consumers, NEW d \in Consumers, unacked[e] # NoTag
                   PROVE  /\ Timed(d, HeldId(e))' =>
                               e = d /\ \E j \in DOMAIN wire'[e] : wire'[e][j].op = "settle"
                          /\ \A k \in DOMAIN wire'[d] : Sent(d, k, HeldId(e))' =>
                               e = d /\
                                   \E j \in DOMAIN wire'[e] : j < k /\ wire'[e][j].op = "settle"
      BY <1>1 DEF SettlementFirst
    <3> DEFINE x == HeldId(e)
    <3>2. x \in Ids /\ HeldId(e)' = x
      BY <1>1, <3>1, IdsTyped DEF HeldId
    <3>3. /\ Timed(d, x) => e = d /\ \E j \in DOMAIN wire[e] : wire[e][j].op = "settle"
          /\ \A k \in DOMAIN wire[d] : Sent(d, k, x) =>
               e = d /\ \E j \in DOMAIN wire[e] : j < k /\ wire[e][j].op = "settle"
      BY <1>a, <3>1 DEF ReturnParts, SettlementFirst
    <3>4. x = i => e = c
      BY <1>a, <2>1, <3>1 DEF HeldDistinct
    <3>5. \A j \in DOMAIN wire[e] : j \in DOMAIN wire'[e] /\ wire'[e][j] = wire[e][j]
      BY <2>2
    <3> DEFINE TimedThen == \E t \in timers'[d] : t.msg.id = x
               SentThen(k) == wire'[d][k].op = "publish" /\ wire'[d][k].msg.id = x
    <3>6. TimedThen => Timed(d, x) \/ (d = c /\ x = i)
      BY <2>7, <3>2 DEF Timed
    <3>7. \A k \in DOMAIN wire'[d] : SentThen(k) => k \in DOMAIN wire[d] /\ Sent(d, k, x)
      BY <2>2, <2>3 DEF Sent
    <3>8. /\ Timed(d, HeldId(e))' => TimedThen
          /\ \A k \in DOMAIN wire'[d] : Sent(d, k, HeldId(e))' => SentThen(k)
      BY <3>2 DEF Timed, Sent
    <3> HIDE DEF x, TimedThen, SentThen
    <3>9. TimedThen => e = d /\ \E j \in DOMAIN wire'[e] : wire'[e][j].op = "settle"
      BY <2>4, <3>3, <3>4, <3>5, <3>6
    <3>10. \A k \in DOMAIN wire'[d] : SentThen(k) =>
             e = d /\ \E j \in DOMAIN wire'[e] : j < k /\ wire'[e][j].op = "settle"
      BY <3>3, <3>5, <3>7
    <3> QED BY <3>8, <3>9, <3>10
  <2> QED BY <2>9, <2>10, <2>11, <2>12, <2>13, <2>14 DEF ReturnParts
<1> QED BY <1>2, <1>3

\* A channel whose first frame is handled, and is not about to be settled any more or
\* had a publication at its head.
LEMMA ReturnTail ==
  ASSUME TypeInv, ReturnParts, NEW c \in Consumers,
         wire[c] # <<>>, wire' = [wire EXCEPT ![c] = Tail(@)], UNCHANGED <<timers, job>>,
         \/ wire[c][1].op = "publish" /\ UNCHANGED unacked
         \/ unacked' = [unacked EXCEPT ![c] = NoTag]
  PROVE  /\ OneTimer' /\ OneFrame' /\ TimerOrFrame' /\ OneWayBack' /\ SettlementFirst'
         /\ \A d \in Consumers, x \in Ids : Returning(d, x)' => Returning(d, x)
         /\ wire[c][1].op = "publish" =>
              \A d \in Consumers : ~ \/ \E t \in timers'[d] : t.msg.id = wire[c][1].msg.id
                                     \/ \E k \in DOMAIN wire'[d] :
                                          /\ wire'[d][k].op = "publish"
                                          /\ wire'[d][k].msg.id = wire[c][1].msg.id
<1>1. /\ 1 \in DOMAIN wire[c]
      /\ \A k \in DOMAIN wire'[c] :
           k \in Int /\ k + 1 \in DOMAIN wire[c] /\ wire'[c][k] = wire[c][k + 1]
      /\ \A k \in DOMAIN wire[c] :
           k \in Int /\ (k = 1 \/ (k - 1 \in DOMAIN wire'[c] /\ wire'[c][k - 1] = wire[c][k]))
      /\ \A d \in Consumers \ {c} : wire'[d] = wire[d]
  BY AckItems
<1>2. \A d \in Consumers, x \in Ids : Timed(d, x)' <=> Timed(d, x)
  BY DEF Timed
<1>3. \A x \in Ids : \A k \in DOMAIN wire'[c] :
        Sent(c, k, x)' => k + 1 \in DOMAIN wire[c] /\ Sent(c, k + 1, x)
  BY <1>1 DEF Sent
<1>4. \A d \in Consumers \ {c}, x \in Ids : \A k \in DOMAIN wire'[d] :
        Sent(d, k, x)' => k \in DOMAIN wire[d] /\ Sent(d, k, x)
  BY <1>1 DEF Sent
<1>5. \A d \in Consumers, x \in Ids : Returning(d, x)' => Returning(d, x)
  BY <1>2, <1>3, <1>4 DEF Returning
<1>6. OneTimer' /\ OneWayBack'
  BY <1>5 DEF ReturnParts, OneTimer, OneWayBack
<1>7. OneFrame'
  <2>1. SUFFICES ASSUME NEW d \in Consumers, NEW x \in Ids,
                        NEW j \in DOMAIN wire'[d], NEW k \in DOMAIN wire'[d],
                        Sent(d, j, x)', Sent(d, k, x)'
                 PROVE  j = k
    BY DEF OneFrame
  <2>2. CASE d = c
    <3>1. j + 1 = k + 1 /\ j \in Int /\ k \in Int
      BY <1>1, <1>3, <2>1, <2>2 DEF ReturnParts, OneFrame
    <3> QED BY <3>1
  <2>3. CASE d # c
    BY <1>4, <2>1, <2>3 DEF ReturnParts, OneFrame
  <2> QED BY <2>2, <2>3
<1>8. TimerOrFrame'
  BY <1>2, <1>3, <1>4 DEF ReturnParts, TimerOrFrame
<1>9. \A e \in Consumers : unacked'[e] # NoTag =>
        unacked'[e] = unacked[e] /\ (e = c => wire[c][1].op = "publish")
  BY DEF TypeInv, TypeOK
<1>10. SettlementFirst'
  <2>1. SUFFICES ASSUME NEW e \in Consumers, NEW d \in Consumers, unacked'[e] # NoTag
                 PROVE  /\ Timed(d, HeldId(e))' =>
                             e = d /\ \E j \in DOMAIN wire'[e] : wire'[e][j].op = "settle"
                        /\ \A k \in DOMAIN wire'[d] : Sent(d, k, HeldId(e))' =>
                             e = d /\
                                 \E j \in DOMAIN wire'[e] : j < k /\ wire'[e][j].op = "settle"
    BY DEF SettlementFirst
  <2> DEFINE x == HeldId(e)
             TimedThen == \E t \in timers'[d] : t.msg.id = x
             SentThen(k) == wire'[d][k].op = "publish" /\ wire'[d][k].msg.id = x
  <2>2. HeldId(e)' = x /\ unacked[e] # NoTag
    BY <1>9, <2>1 DEF HeldId
  <2>3. /\ Timed(d, HeldId(e))' => TimedThen
        /\ \A k \in DOMAIN wire'[d] : Sent(d, k, HeldId(e))' => SentThen(k)
    BY <2>2 DEF Timed, Sent
  <2>4. /\ Timed(d, x) => e = d /\ \E j \in DOMAIN wire[e] : wire[e][j].op = "settle"
        /\ \A k \in DOMAIN wire[d] : Sent(d, k, x) =>
             e = d /\ \E j \in DOMAIN wire[e] : j < k /\ wire[e][j].op = "settle"
    BY <2>2 DEF ReturnParts, SettlementFirst
  <2>5. TimedThen => Timed(d, x)
    BY DEF Timed
  <2> HIDE DEF x, TimedThen
  <2>6. CASE d # c
    <3>1. wire'[d] = wire[d]
      BY <1>1, <2>6
    <3>2. \A k \in DOMAIN wire'[d] : SentThen(k) => k \in DOMAIN wire[d] /\ Sent(d, k, x)
      BY <3>1 DEF Sent
    <3> HIDE DEF SentThen
    <3> QED BY <2>3, <2>4, <2>5, <3>1, <3>2
  <2>7. CASE d = c
    <3>1. \A k \in DOMAIN wire'[c] : SentThen(k) =>
            k + 1 \in DOMAIN wire[c] /\ Sent(c, k + 1, x)
      BY <1>1, <2>7 DEF Sent
    <3> HIDE DEF SentThen
    <3>2. ASSUME e = c, NEW j \in DOMAIN wire[c], wire[c][j].op = "settle"
          PROVE  j - 1 \in DOMAIN wire'[c] /\ wire'[c][j - 1].op = "settle" /\ j \in Int
      <4>1. j # 1
        BY <1>9, <2>1, <3>2
      <4> QED BY <1>1, <3>2, <4>1
    <3>3. TimedThen => e = c /\ \E j \in DOMAIN wire'[e] : wire'[e][j].op = "settle"
      BY <2>4, <2>5, <2>7, <3>2
    <3>4. ASSUME NEW k \in DOMAIN wire'[c], SentThen(k)
          PROVE  e = c /\ \E j \in DOMAIN wire'[c] : j < k /\ wire'[c][j].op = "settle"
      <4>1. e = c /\ \E j \in DOMAIN wire[c] : j < k + 1 /\ wire[c][j].op = "settle"
        BY <2>4, <2>7, <3>1, <3>4
      <4>2. PICK j \in DOMAIN wire[c] : j < k + 1 /\ wire[c][j].op = "settle"
        BY <4>1
      <4>3. j - 1 \in DOMAIN wire'[c] /\ wire'[c][j - 1].op = "settle" /\ j - 1 < k
        BY <1>1, <3>2, <4>1, <4>2
      <4> QED BY <4>1, <4>3
    <3> QED BY <2>3, <2>7, <3>3, <3>4
  <2> QED BY <2>6, <2>7
<1>11. ASSUME wire[c][1].op = "publish", NEW d \in Consumers
       PROVE  ~ \/ \E t \in timers'[d] : t.msg.id = wire[c][1].msg.id
                \/ \E k \in DOMAIN wire'[d] :
                     /\ wire'[d][k].op = "publish"
                     /\ wire'[d][k].msg.id = wire[c][1].msg.id
  <2> DEFINE i == wire[c][1].msg.id
  <2>1. i \in Ids
    BY <1>1, <1>11, IdsTyped
  <2>2. Sent(c, 1, i) /\ Returning(c, i) /\ ~ Timed(c, i)
    BY <1>1, <1>11, <2>1 DEF Sent, Returning, ReturnParts, TimerOrFrame
  <2> HIDE DEF i
  <2>3. d # c => ~ Returning(d, i)
    BY <2>1, <2>2 DEF ReturnParts, OneWayBack
  <2>4. ~ \E t \in timers'[d] : t.msg.id = i
    BY <2>2, <2>3 DEF Timed, Returning
  <2>5. ~ \E k \in DOMAIN wire'[d] : wire'[d][k].op = "publish" /\ wire'[d][k].msg.id = i
    <3>1. CASE d # c
      BY <1>1, <2>3, <3>1 DEF Returning, Sent
    <3>2. CASE d = c
      <4>1. SUFFICES ASSUME NEW k \in DOMAIN wire'[c], wire'[c][k].op = "publish",
                            wire'[c][k].msg.id = i
                     PROVE  FALSE
        BY <3>2
      <4>2. k + 1 \in DOMAIN wire[c] /\ Sent(c, k + 1, i)
        BY <1>1, <4>1 DEF Sent
      <4>3. k + 1 = 1
        BY <1>1, <2>1, <2>2, <4>2 DEF ReturnParts, OneFrame
      <4>4. wire'[c] \in Seq(Frame)
        BY TailItems DEF TypeInv, TypeOK
      <4> QED BY <4>1, <4>3, <4>4
    <3> QED BY <3>1, <3>2
  <2> QED BY <2>4, <2>5 DEF i
<1> QED BY <1>5, <1>6, <1>7, <1>8, <1>10, <1>11

\* A timer that fires replaces its message by a frame behind all others.
LEMMA ReturnFire ==
  ASSUME TypeInv, ReturnParts, NEW c \in Consumers, NEW t \in timers[c], FireTimer(c, t)
  PROVE  ReturnParts'
<1> DEFINE i == t.msg.id
           n == Len(wire[c]) + 1
<1>1. /\ \A k \in DOMAIN wire[c] : k \in DOMAIN wire'[c] /\ wire'[c][k] = wire[c][k]
      /\ \A k \in DOMAIN wire'[c] :
           \/ k \in DOMAIN wire[c] /\ wire'[c][k] = wire[c][k]
           \/ k = n /\ wire'[c][k].op = "publish" /\ wire'[c][k].msg = t.msg
      /\ timers'[c] = timers[c] \ {t}
      /\ \A d \in Consumers \ {c} : wire'[d] = wire[d] /\ timers'[d] = timers[d]
      /\ UNCHANGED <<queue, unacked, job>>
  BY FireItems
<1>2. \A k \in DOMAIN wire[c] : k < n
  <2>1. wire[c] \in Seq(Frame)
    BY DEF TypeInv, TypeOK
  <2> QED BY <2>1
<1>3. i \in Ids /\ Timed(c, i) /\ Returning(c, i)
  BY IdsTyped DEF Timed, Returning
<1>4. \A d \in Consumers : \A k \in DOMAIN wire[d] : ~ Sent(d, k, i)
  BY <1>3 DEF ReturnParts, TimerOrFrame, OneWayBack, Returning
<1> HIDE DEF i, n
<1>5. \A d \in Consumers, x \in Ids : Timed(d, x)' => Timed(d, x)
  BY <1>1 DEF Timed
<1>6. ~ \E u \in timers'[c] : u.msg.id = i
  BY <1>1 DEF ReturnParts, OneTimer, i
<1>7. \A d \in Consumers, x \in Ids : \A k \in DOMAIN wire'[d] :
        Sent(d, k, x)' => \/ k \in DOMAIN wire[d] /\ Sent(d, k, x)
                          \/ d = c /\ k = n /\ x = i
  BY <1>1 DEF Sent, i
<1>8. \A d \in Consumers, x \in Ids : Returning(d, x)' => Returning(d, x)
  BY <1>3, <1>5, <1>7 DEF Returning
<1>9. ReadyStays'
  <2>1. ASSUME NEW d \in Consumers, NEW k \in DOMAIN queue, Returning(d, queue[k].id)'
        PROVE  FALSE
    <3>1. queue'[k].id = queue[k].id /\ queue[k].id \in Ids
      BY <1>1, IdsTyped
    <3>2. Returning(d, queue[k].id)
      BY <1>8, <2>1, <3>1 DEF Returning, Timed, Sent
    <3> QED BY <3>2 DEF ReturnParts, ReadyStays
  <2> QED BY <1>1, <2>1 DEF ReadyStays
<1>10. OneTimer'
  BY <1>1 DEF ReturnParts, OneTimer
<1>11. OneFrame'
  BY <1>4, <1>7 DEF ReturnParts, OneFrame
<1>12. TimerOrFrame'
  <2>1. \A d \in Consumers : d # c => ~ Timed(d, i)
    BY <1>3 DEF ReturnParts, OneWayBack, Returning
  <2>2. ~ Timed(c, i)' \/ i # t.msg.id
    BY <1>6 DEF Timed, i
  <2>3. SUFFICES ASSUME NEW d \in Consumers, NEW x \in Ids, NEW k \in DOMAIN wire'[d],
                        Sent(d, k, x)', Timed(d, x)'
                 PROVE  FALSE
    BY DEF TimerOrFrame
  <2>4. CASE k \in DOMAIN wire[d] /\ Sent(d, k, x)
    BY <1>5, <2>3, <2>4 DEF ReturnParts, TimerOrFrame
  <2>5. CASE d = c /\ x = i
    BY <1>6, <2>3, <2>5 DEF Timed
  <2> QED BY <1>7, <2>3, <2>4, <2>5
<1>13. OneWayBack'
  BY <1>8 DEF ReturnParts, OneWayBack
<1>14. SettlementFirst'
  <2>1. SUFFICES ASSUME NEW e \in Consumers, NEW d \in Consumers, unacked[e] # NoTag
                 PROVE  /\ Timed(d, HeldId(e))' =>
                             e = d /\ \E j \in DOMAIN wire'[e] : wire'[e][j].op = "settle"
                        /\ \A k \in DOMAIN wire'[d] : Sent(d, k, HeldId(e))' =>
                             e = d /\
                                 \E j \in DOMAIN wire'[e] : j < k /\ wire'[e][j].op = "settle"
    BY <1>1 DEF SettlementFirst
  <2> DEFINE x == HeldId(e)
             TimedThen == \E u \in timers'[d] : u.msg.id = x
             SentThen(k) == wire'[d][k].op = "publish" /\ wire'[d][k].msg.id = x
  <2>2. HeldId(e)' = x
    BY <1>1 DEF HeldId
  <2>3. /\ Timed(d, HeldId(e))' => TimedThen
        /\ \A k \in DOMAIN wire'[d] : Sent(d, k, HeldId(e))' => SentThen(k)
    BY <2>2 DEF Timed, Sent
  <2>4. /\ \A f \in Consumers : Timed(f, x) =>
             e = f /\ \E j \in DOMAIN wire[e] : wire[e][j].op = "settle"
        /\ \A k \in DOMAIN wire[d] : Sent(d, k, x) =>
             e = d /\ \E j \in DOMAIN wire[e] : j < k /\ wire[e][j].op = "settle"
    BY <2>1 DEF ReturnParts, SettlementFirst
  <2>5. TimedThen => Timed(d, x)
    BY <1>1 DEF Timed
  <2>6. \A k \in DOMAIN wire'[d] :
          SentThen(k) => (k \in DOMAIN wire[d] /\ Sent(d, k, x)) \/ (d = c /\ k = n /\ x = i)
    BY <1>1 DEF Sent, i
  <2>7. \A j \in DOMAIN wire[e] : j \in DOMAIN wire'[e] /\ wire'[e][j] = wire[e][j]
    BY <1>1
  <2> HIDE DEF x, TimedThen, SentThen
  <2>8. TimedThen => e = d /\ \E j \in DOMAIN wire'[e] : wire'[e][j].op = "settle"
    BY <2>4, <2>5, <2>7
  <2>9. ASSUME NEW k \in DOMAIN wire'[d], SentThen(k)
        PROVE  e = d /\ \E j \in DOMAIN wire'[e] : j < k /\ wire'[e][j].op = "settle"
    <3>1. CASE k \in DOMAIN wire[d] /\ Sent(d, k, x)
      BY <2>4, <2>7, <3>1
    <3>2. CASE d = c /\ k = n /\ x = i
      BY <1>2, <1>3, <2>4, <2>7, <3>2
    <3> QED BY <2>6, <2>9, <3>1, <3>2
  <2> QED BY <2>3, <2>8, <2>9
<1> QED BY <1>9, <1>10, <1>11, <1>12, <1>13, <1>14 DEF ReturnParts

LEMMA ReturnStep ==
  ASSUME TypeInv, IdsInv, TagInv, SettleInv, ReturnInv, SingleCopy, [Next]_vars,
         AckOn, config.layers = 1
  PROVE  ReturnParts'
<1>a. ReturnParts /\ QueueDistinct /\ NotHeld /\ HeldDistinct
  BY CopyParts DEF ReturnInv
<1>1. CASE Stays
  BY <1>1, <1>a DEF Stays, deliveryVars, ReturnParts, ReadyStays, OneTimer, OneFrame,
                    TimerOrFrame, OneWayBack, SettlementFirst, Returning, Timed, Sent, HeldId
<1>b. ASSUME UNCHANGED <<wire, timers>>
      PROVE  /\ OneTimer' /\ OneFrame' /\ TimerOrFrame' /\ OneWayBack'
             /\ \A d \in Consumers, x \in Ids : Returning(d, x)' <=> Returning(d, x)
  BY <1>a, <1>b DEF ReturnParts, OneTimer, OneFrame, TimerOrFrame, OneWayBack, Returning,
                    Timed, Sent
<1>2. ASSUME NEW m \in Message, Emits(m) PROVE ReturnParts'
  <2>1. m.id = nextId /\ UNCHANGED <<wire, timers, unacked, job>> /\ nextId \in Int
    BY <1>2 DEF Emits, TypeInv, TypeOK
  <2>2. \A d \in Consumers : ~ Returning(d, nextId)
    BY <2>1 DEF IdsInv, Returning, Timed, Sent
  <2>3. ReadyStays'
    <3>1. ASSUME NEW d \in Consumers, NEW k \in DOMAIN queue'
          PROVE  ~ Returning(d, queue'[k].id)
      BY <1>2, <1>a, <2>1, <2>2, EmitItems DEF ReturnParts, ReadyStays
    <3> QED BY <2>1, <3>1 DEF ReadyStays, Returning, Timed, Sent
  <2>4. SettlementFirst'
    BY <1>a, <2>1 DEF ReturnParts, SettlementFirst, Timed, Sent, HeldId
  <2> QED BY <1>b, <2>1, <2>3, <2>4 DEF ReturnParts
<1>3. ASSUME NEW c \in Consumers, NEW s \in Slots, Deliver(<<c, s>>) PROVE ReturnParts'
  <2>1. /\ 1 \in DOMAIN queue /\ job'[<<c, s>>] = queue[1]
        /\ \A k \in DOMAIN queue' : k + 1 \in DOMAIN queue /\ queue'[k] = queue[k + 1]
        /\ \A g \in Handlers \ {<<c, s>>} : job'[g] = job[g]
        /\ unacked'[c] = s
        /\ \A d \in Consumers \ {c} : unacked'[d] = unacked[d]
        /\ UNCHANGED <<wire, timers>>
    BY <1>3, DeliverItems
  <2>2. HeldId(c)' = queue[1].id
    BY <2>1 DEF HeldId
  <2>3. ASSUME NEW d \in Consumers \ {c}, unacked'[d] # NoTag
        PROVE  HeldId(d)' = HeldId(d)
    <3>1. unacked'[d] = unacked[d]
      BY <2>1
    <3>2. <<d, unacked[d]>> \in Handlers
      BY <2>3, <3>1 DEF TypeInv, TypeOK, Handlers
    <3> QED BY <2>1, <3>1, <3>2 DEF HeldId
  <2>4. ReadyStays'
    <3>1. ASSUME NEW d \in Consumers, NEW k \in DOMAIN queue'
          PROVE  ~ Returning(d, queue'[k].id)
      BY <1>a, <2>1 DEF ReturnParts, ReadyStays
    <3> QED BY <2>1, <3>1 DEF ReadyStays, Returning, Timed, Sent
  <2>5. \A d \in Consumers : ~ Returning(d, queue[1].id)
    BY <1>a, <2>1 DEF ReturnParts, ReadyStays
  <2>6. SettlementFirst'
    <3>1. SUFFICES ASSUME NEW e \in Consumers, NEW d \in Consumers, unacked'[e] # NoTag
                   PROVE  /\ Timed(d, HeldId(e)') =>
                               e = d /\ \E j \in DOMAIN wire[e] : wire[e][j].op = "settle"
                          /\ \A k \in DOMAIN wire[d] : Sent(d, k, HeldId(e)') =>
                               e = d /\
                                   \E j \in DOMAIN wire[e] : j < k /\ wire[e][j].op = "settle"
      BY <2>1 DEF SettlementFirst, Timed, Sent
    <3>2. CASE e = c
      BY <2>2, <2>5, <3>2 DEF Returning
    <3>3. CASE e # c
      BY <1>a, <2>1, <2>3, <3>1, <3>3 DEF ReturnParts, SettlementFirst
    <3> QED BY <3>2, <3>3
  <2> QED BY <1>b, <2>1, <2>4, <2>6 DEF ReturnParts
<1>4. ASSUME NEW c \in Consumers, NEW s \in Slots, Settle(<<c, s>>) PROVE ReturnParts'
  BY <1>4, ReturnSettle
<1>5. ASSUME NEW c \in Consumers, Acks(c) PROVE ReturnParts'
  <2>1. /\ wire[c] # <<>> /\ wire' = [wire EXCEPT ![c] = Tail(@)]
        /\ unacked' = [unacked EXCEPT ![c] = NoTag]
        /\ UNCHANGED <<queue, timers, job>>
    BY <1>5 DEF Acks
  <2>2. /\ OneTimer' /\ OneFrame' /\ TimerOrFrame' /\ OneWayBack' /\ SettlementFirst'
        /\ \A d \in Consumers, x \in Ids : Returning(d, x)' => Returning(d, x)
    BY <1>a, <2>1, ReturnTail
  <2>3. ReadyStays'
    <3>1. ASSUME NEW d \in Consumers, NEW k \in DOMAIN queue, Returning(d, queue[k].id)'
          PROVE  FALSE
      <4>1. queue'[k].id = queue[k].id /\ queue[k].id \in Ids
        BY <2>1, IdsTyped
      <4>2. Returning(d, queue[k].id)
        BY <2>2, <3>1, <4>1 DEF Returning, Timed, Sent
      <4> QED BY <1>a, <4>2 DEF ReturnParts, ReadyStays
    <3> QED BY <2>1, <3>1 DEF ReadyStays
  <2> QED BY <2>2, <2>3 DEF ReturnParts
<1>6. ASSUME NEW c \in Consumers, Closes(c) PROVE ReturnParts'
  <2>1. /\ unacked'[c] = NoTag /\ wire'[c] = <<>> /\ timers'[c] = {}
        /\ \A d \in Consumers \ {c} :
             unacked'[d] = unacked[d] /\ wire'[d] = wire[d] /\ timers'[d] = timers[d]
        /\ job' = job
    BY <1>6, CloseItems
  <2>2. \A d \in Consumers, x \in Ids : Timed(d, x)' => Timed(d, x) /\ d # c
    BY <2>1 DEF Timed
  <2>3. \A d \in Consumers : \A k \in DOMAIN wire'[d] :
          d # c /\ k \in DOMAIN wire[d] /\ wire'[d] = wire[d]
    BY <2>1
  <2>4. \A d \in Consumers, x \in Ids : \A k \in DOMAIN wire'[d] :
          Sent(d, k, x)' => Sent(d, k, x)
    BY <2>3 DEF Sent
  <2>5. \A d \in Consumers, x \in Ids : Returning(d, x)' => Returning(d, x) /\ d # c
    BY <2>2, <2>3, <2>4 DEF Returning
  <2>6. OneTimer' /\ OneFrame' /\ TimerOrFrame' /\ OneWayBack'
    <3>1. OneTimer'
      BY <1>a, <2>1 DEF ReturnParts, OneTimer
    <3>2. OneFrame'
      BY <1>a, <2>3, <2>4 DEF ReturnParts, OneFrame
    <3>3. TimerOrFrame'
      BY <1>a, <2>2, <2>3, <2>4 DEF ReturnParts, TimerOrFrame
    <3>4. OneWayBack'
      BY <1>a, <2>5 DEF ReturnParts, OneWayBack
    <3> QED BY <3>1, <3>2, <3>3, <3>4
  <2>7. SettlementFirst'
    <3>1. SUFFICES ASSUME NEW e \in Consumers, NEW d \in Consumers, unacked'[e] # NoTag
                   PROVE  /\ Timed(d, HeldId(e))' =>
                               e = d /\ \E j \in DOMAIN wire'[e] : wire'[e][j].op = "settle"
                          /\ \A k \in DOMAIN wire'[d] : Sent(d, k, HeldId(e))' =>
                               e = d /\
                                   \E j \in DOMAIN wire'[e] : j < k /\ wire'[e][j].op = "settle"
      BY DEF SettlementFirst
    <3>2. e # c /\ unacked[e] # NoTag /\ HeldId(e)' = HeldId(e) /\ wire'[e] = wire[e]
      BY <2>1, <3>1 DEF HeldId
    <3>3. CASE d = c
      BY <2>1, <3>3 DEF Timed
    <3>4. CASE d # c
      <4>1. wire'[d] = wire[d] /\ timers'[d] = timers[d]
        BY <2>1, <3>4
      <4>2. /\ Timed(d, HeldId(e)) =>
                 e = d /\ \E j \in DOMAIN wire[e] : wire[e][j].op = "settle"
            /\ \A k \in DOMAIN wire[d] : Sent(d, k, HeldId(e)) =>
                 e = d /\ \E j \in DOMAIN wire[e] : j < k /\ wire[e][j].op = "settle"
        BY <1>a, <3>2 DEF ReturnParts, SettlementFirst
      <4>3. /\ Timed(d, HeldId(e))' => Timed(d, HeldId(e))
            /\ \A k \in DOMAIN wire[d] : Sent(d, k, HeldId(e))' => Sent(d, k, HeldId(e))
        BY <3>2, <4>1 DEF Timed, Sent
      <4> QED BY <3>2, <4>1, <4>2, <4>3
    <3> QED BY <3>3, <3>4
  <2>8. ReadyStays'
    <3>1. ASSUME NEW d \in Consumers, NEW k \in DOMAIN queue',
                 Returning(d, queue[k].id)'
          PROVE  FALSE
      <4>1. /\ \A x \in Ids : x = queue'[k].id => Returning(d, x) /\ d # c
            /\ queue'[k].id \in Ids
        <5>1. queue'[k].id \in Ids
          <6>1. TypeInv'
            BY TypeStep
          <6>2. queue' \in Seq(Message) /\ queue'[k] \in Message
            BY <6>1 DEF TypeInv, TypeOK
          <6> QED BY <6>2 DEF Message
        <5>2. \A x \in Ids : x = queue'[k].id => Returning(d, x)'
          BY <3>1 DEF Returning, Timed, Sent
        <5> QED BY <2>5, <5>1, <5>2
      <4>2. \A j \in DOMAIN queue : queue'[k] # queue[j]
        BY <1>a, <4>1 DEF ReturnParts, ReadyStays
      <4>3. unacked[c] # NoTag /\ queue'[k].id = HeldId(c)
        <5>1. unacked[c] # NoTag
          BY <1>6, <4>2, CloseItems
        <5>2. queue'[1] = job[<<c, unacked[c]>>] /\
                (k = 1 \/ (k - 1 \in DOMAIN queue /\ queue'[k] = queue[k - 1]))
          BY <1>6, <5>1, CloseItems
        <5> QED BY <4>2, <5>1, <5>2 DEF HeldId
      <4>4. Returning(d, HeldId(c)) /\ d # c
        BY <4>1, <4>3
      <4> QED BY <1>a, <4>3, <4>4 DEF ReturnParts, SettlementFirst, Returning
    <3> QED BY <3>1 DEF ReadyStays
  <2> QED BY <2>6, <2>7, <2>8 DEF ReturnParts
<1>7. ASSUME NEW c \in Consumers, BrokerPublishes(c) PROVE ReturnParts'
  <2>1. /\ wire[c] # <<>> /\ wire' = [wire EXCEPT ![c] = Tail(@)]
        /\ wire[c][1].op = "publish" /\ UNCHANGED <<unacked, timers, job>>
    BY <1>7, PublishItems DEF BrokerPublishes
  <2>2. /\ OneTimer' /\ OneFrame' /\ TimerOrFrame' /\ OneWayBack' /\ SettlementFirst'
        /\ \A d \in Consumers, x \in Ids : Returning(d, x)' => Returning(d, x)
        /\ \A d \in Consumers : ~ \/ \E t \in timers'[d] : t.msg.id = wire[c][1].msg.id
                                  \/ \E k \in DOMAIN wire'[d] :
                                       /\ wire'[d][k].op = "publish"
                                       /\ wire'[d][k].msg.id = wire[c][1].msg.id
    BY <1>a, <2>1, ReturnTail
  <2>3. ReadyStays'
    <3>1. ASSUME NEW d \in Consumers, NEW k \in DOMAIN queue', Returning(d, queue[k].id)'
          PROVE  FALSE
      <4>1. CASE k \in DOMAIN queue /\ queue'[k] = queue[k]
        <5>1. queue[k].id \in Ids
          BY <4>1, IdsTyped
        <5>2. \A x \in Ids : x = queue'[k].id => Returning(d, x)'
          BY <3>1 DEF Returning, Timed, Sent
        <5>3. Returning(d, queue[k].id)
          BY <2>2, <4>1, <5>1, <5>2
        <5> QED BY <1>a, <4>1, <5>3 DEF ReturnParts, ReadyStays
      <4>2. CASE queue'[k] = wire[c][1].msg
        BY <2>2, <3>1, <4>2 DEF Returning, Timed, Sent
      <4> QED BY <1>7, <4>1, <4>2, PublishItems
    <3> QED BY <3>1 DEF ReadyStays
  <2> QED BY <2>2, <2>3 DEF ReturnParts
<1>8. ASSUME NEW c \in Consumers, NEW t \in timers[c], FireTimer(c, t) PROVE ReturnParts'
  BY <1>8, <1>a, ReturnFire
<1> QED BY <1>1, <1>2, <1>3, <1>4, <1>5, <1>6, <1>7, <1>8, Moves DEF Fire, Handlers

LEMMA ConfigStep == ASSUME TypeInv, [Next]_vars PROVE config' = config
<1>1. ASSUME NEW c \in Consumers, Acks(c) \/ Closes(c) \/ BrokerPublishes(c) \/ Fire(c)
      PROVE  config' = config
  BY <1>1 DEF Acks, Closes, BrokerPublishes, Fire, FireTimer, sourceVars
<1>2. ASSUME NEW h \in Handlers, Deliver(h) \/ Settle(h) PROVE config' = config
  BY <1>2 DEF Deliver, Settle, sourceVars
<1> QED BY <1>1, <1>2, Moves DEF Stays, deliveryVars, Emits

CopyInv == SingleCopy /\ ReturnInv

LEMMA CopyInvStep ==
  TypeInv /\ IdsInv /\ OnceInv /\ OnceInv' /\ TagInv /\ SettleInv /\ CopyInv /\
    [Next]_vars => CopyInv'
<1> SUFFICES ASSUME TypeInv, IdsInv, OnceInv, OnceInv', TagInv, SettleInv, CopyInv, [Next]_vars
             PROVE  CopyInv'
  OBVIOUS
<1>1. config' = config
  BY ConfigStep
<1>2. CASE AckOn
  <2>1. SingleCopy'
    BY <1>2, CopyStep DEF CopyInv
  <2>2. ReturnInv'
    BY <1>1, <1>2, ReturnStep DEF CopyInv, ReturnInv
  <2> QED BY <2>1, <2>2 DEF CopyInv
<1>3. CASE ~ AckOn
  <2>1. ~ AckOn'
    BY <1>1, <1>3 DEF AckOn
  <2>2. ReturnInv'
    BY <2>1 DEF ReturnInv
  <2>3. Unsettled' /\ \A j, k \in DOMAIN queue' : queue'[j].id = queue'[k].id => j = k
    BY <2>1 DEF OnceInv, QueueDistinct
  <2>4. SingleCopy'
    BY <2>3 DEF SingleCopy, Held, Unsettled
  <2> QED BY <2>2, <2>4 DEF CopyInv
<1> QED BY <1>2, <1>3

LEMMA OnceInvariant == Spec => []OnceInv
<1>1. Init => OnceInv
  BY DEF Init, OnceInv, Unsettled, QueueDistinct, ReadyUntried, AllAlone
<1> QED BY <1>1, TypeInvariant, IdsInvariant, OnceStep, PTL DEF Spec

LEMMA CopyInvariant == Spec => []CopyInv
<1>1. Init => CopyInv
  BY DEF Init, CopyInv, SingleCopy, Held, ReturnInv, ReturnParts, ReadyStays, OneTimer,
         OneFrame, TimerOrFrame, OneWayBack, SettlementFirst, Returning, Timed, Sent
<1> QED BY <1>1, TypeInvariant, IdsInvariant, OnceInvariant, TagInvariant, SettleInvariant,
           CopyInvStep, PTL DEF Spec

\* In every configuration the broker never holds two copies of a message: a message
\* comes back from a failure only after its delivery was settled, and a closed channel
\* takes what was about to come back with it.
THEOREM SingleCopyHolds == Spec => []SingleCopy
BY CopyInvariant, PTL DEF CopyInv
-----------------------------------------------------------------------------
(* One layer and no crash: failed messages come back until the last retry. *)

\* The broker closes no channel by itself: what a single layer settles is what the
\* broker waits for.
LEMMA OnlyFaultsClose ==
  ASSUME TypeInv, SettleInv, AckOn, config.layers = 1, NEW c \in Consumers, Closes(c)
  PROVE  crashes' = crashes + 1
<1>1. OneSettlement
  BY DEF SettleInv
<1>2. ASSUME wire[c] # <<>>, Head(wire[c]).op = "settle", Head(wire[c]).tag # unacked[c]
      PROVE  FALSE
  <2>1. wire[c] \in Seq(Frame)
    BY DEF TypeInv, TypeOK
  <2>2. 1 \in DOMAIN wire[c] /\ Head(wire[c]) = wire[c][1]
    BY <1>2, <2>1, TailItems
  <2> QED BY <1>1, <1>2, <2>2 DEF OneSettlement
<1> QED BY <1>2 DEF Closes

Coming(i) == \E c \in Consumers : Returning(c, i)
Ended(i) == outcomes[i] \cap {"completed", "exhausted"} # {}

LEMMA RetriedParts ==
  RetriedInv <=> (AckOn /\ config.layers = 1 /\ crashes = 0 =>
    \A i \in 1 .. nextId - 1 : InQueue(i) \/ Working(i) \/ Coming(i) \/ Ended(i))
<1>1. \A i : Coming(i) <=> AboutToReturn(i)
  BY DEF Coming, Returning, Timed, Sent, AboutToReturn
<1> QED BY <1>1 DEF RetriedInv, Ended

LEMMA RetriedStep ==
  TypeInv /\ TagInv /\ SettleInv /\ RetriedInv /\ [Next]_vars => RetriedInv'
<1> SUFFICES ASSUME TypeInv, TagInv, SettleInv, RetriedInv, [Next]_vars,
                    AckOn', config'.layers = 1, crashes' = 0
             PROVE  \A i \in 1 .. nextId' - 1 :
                      InQueue(i)' \/ Working(i)' \/ Coming(i)' \/ Ended(i)'
  <2>1. \A i : Coming(i)' <=> AboutToReturn(i)'
    BY DEF Coming, Returning, Timed, Sent, AboutToReturn
  <2> QED BY <2>1 DEF RetriedInv, Ended
<1> DEFINE Goal == \A i \in 1 .. nextId' - 1 :
                     InQueue(i)' \/ Working(i)' \/ Coming(i)' \/ Ended(i)'
<1>a. nextId \in 1 .. MaxMessages + 1 /\ 1 .. nextId - 1 \subseteq Ids
  BY BoundsAssumption DEF TypeInv, TypeOK, Ids
<1>b. AckOn /\ config.layers = 1 /\ LiveIsUnacked
  BY ConfigStep DEF AckOn, TagInv
<1>c. ASSUME crashes = 0
      PROVE  \A i \in 1 .. nextId - 1 : InQueue(i) \/ Working(i) \/ Coming(i) \/ Ended(i)
  BY <1>b, <1>c, RetriedParts
<1>1. CASE Stays
  BY <1>1, <1>c DEF Stays, deliveryVars, InQueue, Working, Coming, Returning, Timed, Sent, Ended
<1>2. ASSUME NEW m \in Message, Emits(m) PROVE Goal
  <2>1. /\ m.id = nextId /\ nextId' = nextId + 1
        /\ UNCHANGED <<wire, timers, pc, job, live, outcomes, crashes>>
    BY <1>2 DEF Emits
  <2>2. \E k \in DOMAIN queue' : queue'[k].id = nextId
    BY <1>2, <2>1, EmitItems
  <2>3. \A i \in 1 .. nextId - 1 : InQueue(i) => InQueue(i)'
    BY <1>2, EmitItems DEF InQueue
  <2>4. \A i \in 1 .. nextId' - 1 : i = nextId \/ i \in 1 .. nextId - 1
    BY <1>a, <2>1
  <2>5. \A i \in 1 .. nextId - 1 : /\ Working(i) => Working(i)'
                                   /\ Coming(i) => Coming(i)'
                                   /\ Ended(i) => Ended(i)'
    BY <2>1 DEF Working, Coming, Returning, Timed, Sent, Ended
  <2>6. \A i \in 1 .. nextId' - 1 : i = nextId => InQueue(i)'
    BY <2>2 DEF InQueue
  <2> QED BY <1>c, <2>1, <2>3, <2>4, <2>5, <2>6
<1>3. ASSUME NEW c \in Consumers, NEW s \in Slots, Deliver(<<c, s>>) PROVE Goal
  <2>1. UNCHANGED <<nextId, wire, timers, outcomes, crashes>>
    BY <1>3, DeliverItems
  <2>2. ASSUME NEW i \in Ids, InQueue(i) PROVE InQueue(i)' \/ Working(i)'
    <3>1. PICK k \in DOMAIN queue : queue[k].id = i
      BY <2>2 DEF InQueue
    <3>2. CASE k = 1
      BY <1>3, <3>1, <3>2, DeliverItems DEF Working, Handlers
    <3>3. CASE k # 1
      BY <1>3, <3>1, <3>3, DeliverItems DEF InQueue
    <3> QED BY <3>2, <3>3
  <2>3. ASSUME NEW i \in Ids, Working(i) PROVE Working(i)'
    <3>1. PICK h \in Handlers : pc[h] # "idle" /\ live[h] /\ job[h].id = i
      BY <2>3 DEF Working
    <3>2. h # <<c, s>>
      BY <1>3, <3>1, DeliverItems
    <3> QED BY <1>3, <3>1, <3>2, DeliverItems DEF Working
  <2>4. \A i \in Ids : (Coming(i) => Coming(i)') /\ (Ended(i) => Ended(i)')
    BY <2>1 DEF Coming, Returning, Timed, Sent, Ended
  <2> QED BY <1>a, <1>c, <2>1, <2>2, <2>3, <2>4
<1>4. ASSUME NEW c \in Consumers, NEW s \in Slots, Settle(<<c, s>>) PROVE Goal
  <2> DEFINE h == <<c, s>>
  <2>1. UNCHANGED <<nextId, queue, job, crashes>>
    BY <1>4, SettleItems
  <2>2. ASSUME live[h] PROVE Coming(job[h].id)' \/ Ended(job[h].id)'
    <3>1. /\ job'[h] = job[h] /\ job[h].id \in Ids /\ job[h] \in Message
          /\ Outcome(h) \in outcomes'[job[h].id]
      BY <1>4, <1>b, <2>2, SettleItems DEF Message
    <3>2. Outcome(h) \in {"completed", "exhausted", "retried"}
      BY <1>b DEF Outcome, NoAck, AckOn
    <3>3. CASE Outcome(h) = "retried"
      <4>1. RetryTimers(h) \subseteq timers'[c]
        BY <1>4, <1>b, <2>2, <3>3, SettleItems
      <4>2. PICK t \in RetryTimers(h) : t.msg.id = job[h].id
        <5> DEFINE m == [job[h] EXCEPT !.retry = @ + 1]
                   t0 == [msg |-> m, layer |-> 1]
        <5>1. m.id = job[h].id
          BY <3>1 DEF Message
        <5>2. t0 \in RetryTimers(h)
          <6>1. 1 \in 1 .. config.layers
            BY <1>b
          <6> QED BY <6>1 DEF RetryTimers
        <5>3. t0.msg.id = job[h].id
          BY <5>1
        <5> QED BY <5>2, <5>3
      <4>3. t \in timers'[c] /\ t.msg.id = job'[h].id
        BY <3>1, <4>1, <4>2
      <4> QED BY <4>3 DEF Coming, Returning, Timed
    <3>4. CASE Outcome(h) \in {"completed", "exhausted"}
      <4> DEFINE o == Outcome(h)
      <4>1. o \in outcomes'[job'[h].id] /\ o \in {"completed", "exhausted"}
        BY <3>1, <3>4
      <4> HIDE DEF o
      <4> QED BY <4>1 DEF Ended
    <3> QED BY <3>2, <3>3, <3>4
  <2>3. ASSUME NEW i \in Ids, Working(i) PROVE Working(i)' \/ Coming(i)' \/ Ended(i)'
    <3>1. PICK g \in Handlers : pc[g] # "idle" /\ live[g] /\ job[g].id = i
      BY <2>3 DEF Working
    <3>2. CASE g = h
      <4>1. live[h] /\ i = job[h].id /\ job'[h] = job[h]
        BY <2>1, <3>1, <3>2
      <4>2. Coming(i)' \/ Ended(i)'
        BY <2>2, <4>1 DEF Coming, Returning, Timed, Sent, Ended
      <4> QED BY <4>2
    <3>3. CASE g # h
      BY <1>4, <3>1, <3>3, SettleItems DEF Working
    <3> QED BY <3>2, <3>3
  <2>4. \A i \in Ids : Ended(i) => Ended(i)'
    BY <1>4, SettleItems DEF Ended
  <2>5. \A i \in Ids : Coming(i) => Coming(i)'
    <3>1. /\ \A d \in Consumers : timers[d] \subseteq timers'[d]
          /\ \A d \in Consumers : \A k \in DOMAIN wire[d] :
               k \in DOMAIN wire'[d] /\ wire'[d][k] = wire[d][k]
      BY <1>4, SettleItems
    <3> QED BY <3>1 DEF Coming, Returning, Timed, Sent
  <2>6. \A i \in Ids : InQueue(i) => InQueue(i)'
    BY <2>1 DEF InQueue
  <2> QED BY <1>a, <1>c, <2>1, <2>3, <2>4, <2>5, <2>6
<1>5. ASSUME NEW c \in Consumers, Acks(c) PROVE Goal
  <2>1. /\ wire[c] # <<>> /\ wire' = [wire EXCEPT ![c] = Tail(@)]
        /\ Head(wire[c]).op = "settle"
        /\ UNCHANGED <<nextId, queue, timers, pc, job, live, outcomes, crashes>>
    BY <1>5 DEF Acks
  <2>2. /\ Head(wire[c]) = wire[c][1]
        /\ \A k \in DOMAIN wire[c] :
             k = 1 \/ (k - 1 \in DOMAIN wire'[c] /\ wire'[c][k - 1] = wire[c][k])
        /\ \A d \in Consumers \ {c} : wire'[d] = wire[d]
    BY <2>1, AckItems
  <2>3. \A d \in Consumers, i \in Ids : \A k \in DOMAIN wire[d] : Sent(d, k, i) =>
          \E j \in DOMAIN wire'[d] : Sent(d, j, i)'
    <3>1. SUFFICES ASSUME NEW d \in Consumers, NEW i \in Ids, NEW k \in DOMAIN wire[d],
                          Sent(d, k, i)
                   PROVE  \E j \in DOMAIN wire'[d] : Sent(d, j, i)'
      OBVIOUS
    <3>2. CASE d = c
      <4>1. k # 1
        BY <2>1, <2>2, <3>1, <3>2 DEF Sent
      <4>2. k - 1 \in DOMAIN wire'[c] /\ Sent(c, k - 1, i)'
        BY <2>2, <3>1, <3>2, <4>1 DEF Sent
      <4> QED BY <3>2, <4>2
    <3>3. CASE d # c
      BY <2>2, <3>1, <3>3 DEF Sent
    <3> QED BY <3>2, <3>3
  <2>4. \A i \in Ids : Coming(i) => Coming(i)'
    BY <2>1, <2>3 DEF Coming, Returning, Timed
  <2> QED BY <1>a, <1>c, <2>1, <2>4 DEF InQueue, Working, Ended
<1>6. ASSUME NEW c \in Consumers, Closes(c) PROVE FALSE
  <2>1. crashes' = crashes + 1 /\ crashes \in Nat
    BY <1>6, <1>b, OnlyFaultsClose, BoundsAssumption DEF TypeInv, TypeOK
  <2> QED BY <2>1
<1>7. ASSUME NEW c \in Consumers, BrokerPublishes(c) PROVE Goal
  <2>1. /\ wire[c] # <<>> /\ wire' = [wire EXCEPT ![c] = Tail(@)]
        /\ UNCHANGED <<nextId, timers, pc, job, live, outcomes, crashes>>
    BY <1>7, PublishItems DEF BrokerPublishes
  <2>2. /\ \A k \in DOMAIN wire[c] :
             k = 1 \/ (k - 1 \in DOMAIN wire'[c] /\ wire'[c][k - 1] = wire[c][k])
        /\ \A d \in Consumers \ {c} : wire'[d] = wire[d]
    BY <2>1, AckItems
  <2>3. /\ \A i \in Ids : InQueue(i) => InQueue(i)'
        /\ \A i \in Ids : Sent(c, 1, i) => InQueue(i)'
    BY <1>7, PublishItems DEF InQueue, Sent
  <2>4. \A d \in Consumers, i \in Ids : \A k \in DOMAIN wire[d] : Sent(d, k, i) =>
          (\E j \in DOMAIN wire'[d] : Sent(d, j, i)') \/ Sent(c, 1, i)
    BY <2>2 DEF Sent
  <2>5. \A i \in Ids : Coming(i) => Coming(i)' \/ InQueue(i)'
    BY <2>1, <2>3, <2>4 DEF Coming, Returning, Timed
  <2>6. \A i \in Ids : (Working(i) => Working(i)') /\ (Ended(i) => Ended(i)')
    BY <2>1 DEF Working, Ended
  <2> QED BY <1>a, <1>c, <2>1, <2>3, <2>5, <2>6
<1>8. ASSUME NEW c \in Consumers, NEW t \in timers[c], FireTimer(c, t) PROVE Goal
  <2>1. UNCHANGED <<nextId, queue, pc, job, live, outcomes, crashes>>
    BY <1>8, FireItems
  <2>2. /\ \A d \in Consumers : \A k \in DOMAIN wire[d] :
             k \in DOMAIN wire'[d] /\ wire'[d][k] = wire[d][k]
        /\ \A d \in Consumers : \A u \in timers[d] : u \in timers'[d] \/ (d = c /\ u = t)
        /\ \E k \in DOMAIN wire'[c] : wire'[c][k].op = "publish" /\ wire'[c][k].msg = t.msg
    BY <1>8, FireItems
  <2>3. \A i \in Ids : Coming(i) => Coming(i)'
    BY <2>2 DEF Coming, Returning, Timed, Sent
  <2> QED BY <1>a, <1>c, <2>1, <2>3 DEF InQueue, Working, Ended
<1> QED BY <1>1, <1>2, <1>3, <1>4, <1>5, <1>6, <1>7, <1>8, Moves DEF Fire, Handlers

\* Bound once, the interceptor keeps its promise while no process crashes: a message is
\* given up only when it was processed or has failed at its last retry.
THEOREM OneBindingRetriesHolds == Spec => []OneBindingRetries
<1>1. Init => RetriedInv
  BY DEF Init, RetriedInv
<1>2. RetriedInv => OneBindingRetries
  BY DEF RetriedInv, OneBindingRetries, DroppedOnlyWhenExhausted, Working, Running, AckOn
<1> QED BY <1>1, <1>2, TypeInvariant, TagInvariant, SettleInvariant, RetriedStep, PTL DEF Spec
=============================================================================
