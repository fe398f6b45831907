# Verification of the MSA servers

TLA+ modules, TLC runs and TLAPS proofs about the three NestJS services of this
repository: `api-gateway-server`, `auth-server` and `game-event-server`, which
work together over HTTP, RabbitMQ, MongoDB and Redis. Every definition is
translated from the source; `PROJECT.json` maps each one to its lines.

## 1. The system

A client talks to the gateway only. The gateway authenticates, finds a route and
either proxies the request over HTTP (to the auth server or the game event
server) or, for reward requests, publishes a message and answers 202. The game
event server takes the messages from a durable queue.

| Component | State it keeps | Operations | Interacts by |
|---|---|---|---|
| Reward requests (`reward-request.service.ts`) | collection `rewardrequests`, unique index `{userId, eventId}` | create a request from a message; list | called by the message controller; reads events; writes MongoDB |
| Consumer and `MessageInterceptor` (`main.ts`, `message.interceptor.ts`) | deliveries, `x-retry-count`, pending timers | settle a delivery, republish a failed one | AMQP frames on one channel per process |
| Condition validation | none | pick a strategy, validate | called while a request is created |
| Events (`event.service.ts`) | collection `events` with a version and a deletion mark | create, read, update, remove | HTTP; read by reward requests |
| Rewards (`reward.service.ts`) | collection `rewards` | create, read | HTTP; checks that the event exists |
| Eligibility and history | none | join events, rewards, requests | HTTP, reads only |
| Sessions (`auth.service.ts`, `tokens.service.ts`, `cache.service.ts`) | `refresh_token:{user}` and `blacklist:{token}` in Redis, each with an expiry | register, login, refresh, logout, validate | HTTP; every authenticated call asks the blacklist |
| Users and roles (`users.service.ts`) | collection `users` with an array of roles and a version key | create, add and remove a role, record a login | HTTP, administrators; roles go into tokens |
| Gateway routing (`gateway.service.ts`, `gateway.controller.ts`) | route table (constant) | match, proxy or publish | HTTP in, HTTP or AMQP out |
| Gateway proxy and timeout | the one response of a request | forward, time out | two writers of one response |
| Health, logging, filters, configuration | none of interest | – | – |

What is hard, by component:

* **Reward requests.** Handlers of several processes, redeliveries and retries
  work for one (user, event) pair at the same time; the search for an existing
  request precedes the insert by an await, and the event is read two awaits
  before it. A call can fail, or take effect and lose its reply. Correct means:
  one decision per pair, never changed, only for a pair that was submitted and an
  event that has begun.
* **Consumer.** Acknowledgement, rejection and republication are separate frames;
  a channel can close between them; a crash or a lost connection returns what was
  not settled. Correct means: a message is not lost, not doubled, not retried for
  ever, and is given up only when its retries are used up.
* **Sessions.** A refresh and a logout interleave; tokens are signed in one order
  and stored in another; keys and tokens count their lifetimes differently.
  Correct means: a logged-out token is refused as long as it would be valid, a
  replaced refresh token never works again, a logout ends the session.
* **Users and roles.** A document is read, changed and saved in two steps, and a
  push is saved without a version check. Correct means: one account per address,
  every role call changes one role, an account keeps a role.
* **Events and rewards.** An optimistic lock compares a version twice, and writes
  dates computed from a read before the write; a reward's event is checked one await
  before the reward is stored; lists are cut into pages while the collection changes.
  Correct means: no lost update, no update of a deleted event, dates in order, a
  legal update succeeds, and what a list calls eligible the processing approves.
* **Gateway.** 202 is answered before the broker has the message; a proxied call
  and a timeout answer the same request; exact paths, patterns and prefixes
  overlap, and the roles of its routes and of the services' handlers are kept in
  separate tables. Correct means: nothing is done for a request that is refused,
  the tables agree, and every request gets an answer.

The hazards of the code, at their lines, are listed under `hazards` in
`PROJECT.json` with the properties that cover them.

## 2. Modules

| Module | What it is |
|---|---|
| `RewardLedger` | what the reward service promises: each submitted pair gets at most one decision, the one its event's condition calls for |
| `RewardRequests` | queue, broker, consumers, `MessageInterceptor` and `createEventRewardRequest`; implements `RewardLedger` |
| `RewardRequestsProofs` | its theorems about types, decisions and the ledger |
| `DeliveryProofs` | its theorems about the delivery of messages |
| `RoleRegister` | what role administration promises: each call is one atomic change of one role |
| `UserAccounts` | `UsersService.create`, `addRole`, `removeRole`; implements `RoleRegister` |
| `UserAccountsProofs` | its theorems |
| `AuthSession` | register, login, refresh, logout and token validation over Redis, with time |
| `AuthSessionProofs` | its theorems |
| `EventRegister` | what the event collection promises: an update is one compare-and-set on the version its caller named |
| `EventStore` | `EventService`'s changes, the controller's update with its second look-up, `RewardService.create`; implements `EventRegister` |
| `EventViews` | extends `EventStore`: the paged lists of events and the eligibility they show |
| `EventStoreProofs` | the theorems of `EventStore` |
| `EventViewsProofs` | the theorems of `EventViews` |
| `GatewayRoutes` | the gateway's route table and how a route is picked; the services' handlers and whom their guards admit |
| `Gateway` | a request in the gateway: guards, `handleRequest`, the queue or the proxied call, the two time limits |
| `GatewayRoutesProofs` | what the tables say of every path and method |
| `GatewayProofs` | the theorems of `Gateway` |
| `MC*` | values of the constants for TLC |

Everywhere, one action is the code that runs between two awaits (JavaScript runs
it without interruption), and the effect of a database call is the action's
change of state. Variables and lines marked "history" are kept for properties
only; no guard reads them.

### RewardRequests

State and code:

| Model | Code |
|---|---|
| `events[e]` | an event's status and period, as `findOne` and lines 49–61 of the service tell them apart: `before`, `during`, `after`, `inactive`, `absent` |
| `queue`, `unacked`, `wire`, `channel` | the broker's queue, the delivery each channel owes an answer for (prefetch 1), frames under way, the state of the channel |
| `pc[h]`, `job[h]`, `live[h]` | where a handler is, its message, and whether its channel still exists |
| `timers[c]` | republications `retryMessage` waits to send |
| `requests` | the collection |

Actions: `ReadEvent`, `FindExisting` and `Save` are the three parts of
`createEventRewardRequest`; `Settle` is the interceptor when the handler's result
passes it; `FireTimer` is the end of the wait in `retryMessage`. `Deliver`,
`BrokerSettles`, `BrokerPublishes`, `CloseChannel` and `Reopen` are the broker
and the client library (external). `Crash`, `LoseConnection`, `StepFails` and
`SaveReplyLost` are the faults.

Decisions taken while modelling:

* `config` is what the processes are started with, one of `Configs`, and never
  changes. `config.layers` is how often the interceptor wraps the handler: twice in
  the code, by the global binding (`main.ts:22`, inherited by the microservice) and by
  the one on the controller; one layer isolates the protocol one binding implements.
  `config.noAck` is the text of `RABBIT_MQ_NO_ACK`. Nothing parses it, so `"false"`
  switches acknowledgements off; only an unset variable leaves them on.
* `ack` and `reject(…, false)` have the same effect at a queue without a
  dead-letter exchange, so both are the frame `settle`.
* The Redis key asked for in line 67 of the service is never written: the answer
  is always null, and the step is part of `FindExisting`.
* Events are not updated or deleted in this module: the HTTP API routes no
  removal or restoration, and every update fails (finding 6). The clock is what
  changes an event. `EventStore` has the other operations.
* The strategies are stubs, and only `FRIEND_INVITATION` is ever met
  (`ConditionMet`).
* The unique index is taken as built when the first message arrives.
* A slot stands for the delivery tag of what it handles; a tag is not used again
  while frames about it are on their way.

### UserAccounts

`Arrive` is a request at the controllers; `FindEmail` and `Insert` are `create`;
`FindForAdd`/`SaveAdd` and `FindForRemove`/`SaveRemove` are the role calls. An
array of roles is a bag, since no code looks at its order and duplicates matter.
What `save` sends is Mongoose's: after `push`, a `$push` that raises the version
key without checking it; after an assignment, a `$set` with the version read in
the filter. Deleting `user:*` cache keys has no effect, as nothing writes them.

### AuthSession

A `Pair` is an access and a refresh token signed together; a token is its pair.
Tokens are signed and the write to Redis sent in one turn (`Sign`); the write
takes effect later (`Store`), so that pairs can be stored in another order than
they were signed, as processes of the server may be several. Time is in ticks,
several to a second, since tokens compare whole seconds of the clock and Redis
counts whole seconds from the write. Expired keys stay in the model's records and
are not `Alive`. Accounts are never deactivated by any code, so `isActive` is
left out. The token in the Authorization header is an access token.

### EventStore and EventViews

| Model | Code |
|---|---|
| `store[i]`, `created` | the collection `events`; ids are numbers in the order of storing, `createdAt` is the process's own time stamp, `deleted` is `deletedAt` |
| `rewards` | the collection `rewards`, with the call that stored each |
| `pc[k]`, `call[k]`, `event[k]` | where an update or reward call is or how it ended, its body, and the document it read or was given last |
| `view`, `page`, `items`, `got` | a client who reads a list page by page |

An update is `FindForUpdate` (found, dates, version), `Write` (`findOneAndUpdate`
with id, version and not deleted in the filter) and, after a conflict, `FindLatest`
(the controller). A reward is `CheckEvent` and `SaveReward`. `Create`, `Remove`,
`Restore` and `Purge` are one database call each. `Fail` and `ReplyLost` are the
faults. `EventViews` adds a reader (`BeginReading`, `ReadPage`) who shares the
collection with all of these, and the two versions of the rules for approving a
request: the list's (`Eligible`: status, period, condition) and the processing's
(`Verdict`: status and period refuse a request, the condition decides whether the one
that is stored is APPROVED or FAILED).

Decisions taken while modelling:

* `carries` says whether the document an update writes contains the version. As the
  controller calls the service it always does, and MongoDB refuses a path that is both
  set and incremented (`SetsVersion`). `Carries` has FALSE as well, so that the lock
  the service implements is examined although no controller reaches it today.
* No controller routes the removal, restoration or purging of events; they are there
  as the service has them, so that what updates and rewards rely on is examined.
* The type of an event is kept, since the condition check of both rules depends on it:
  `ConditionMet` is what the strategies, all stubs, answer for a type. Names,
  descriptions, the details of conditions, which no strategy reads, and the contents of
  rewards are left out, and so are filters by type or date.
* `findOne`'s failure counts as an invalid id in `RewardService.create`, hence the
  outcome `badRequest` of a failed `check`.
* Lists are sorted by `createdAt`, newest first, cut by skip and limit. The sort has no
  second field: every page is one query, and events with the same time stamp come in any
  order in each (`Orders`). Time stamps are taken before the document is sent, so their
  order need not be the order of storing. `ReaderMissesNothing` therefore excepts events
  that share their time of creation with another of the list.

### GatewayRoutes and Gateway

`GatewayRoutes` holds the real tables. A path is a sequence of segments;
`StartsWith` compares the text of the last one (`TextStartsWith`), as the code's prefix
match does not stop at a slash. `First` is the order of the sorted table: longest path first, then
the order of declaration. `RouteFor` takes the first attempt that finds something.
Three facts about concrete strings, which TLC evaluates and the provers cannot, are
assumptions of the module: the lengths of the routes' texts (`TextLengths`), that no
segment spelled out in the tables begins with another (`SeparateWords`), and that they
are all in lower case (`LowerAssumption`; `Lower` is a constant operator). The handlers
of the services are tables too, read off the decorators of their controllers.

In `Gateway` a request goes through `ThrottlerGuard` (`Throttle`: external, it may
refuse any request), `JwtAuthGuard` (`RefuseToken`) and the checks of
`handleRequest`, one `Refuse…` action per early exit, and ends in `PassOn`,
`Publish` or `Forward`. After `Forward`, `Relay`, `NoConnection`, `CallBreaks` and
`AxiosTimeout` are the ways `proxyRequest` ends, `InterceptorTimeout` is the other
writer of the response, and `Serve` is the service, which may take the call up after
the client was answered.

Decisions taken while modelling:

* A public path skips the token altogether, so `req.user` is not set there even if
  the token is good; `/auth/refresh-token` is such a path but the route is
  `auth/refresh`, and its prefix match answers 401 (`RefuseUnauthorized`).
* When only the method is wrong, the fourth attempt returns the route with a mark
  for a 405 that the controller never reads: the request is forwarded under that
  route's roles. The model does the same. Most such requests find no handler, but no
  route lists HEAD, and Express answers HEAD with the handler for GET (`Takes`):
  `HEAD /events/7` is carried out. `WrongMethodIsHarmless` says that this goes no further
  than what the bearer may GET.
* The methods are all those of `@All('*')` but OPTIONS, which the cors middleware of
  `main.ts` answers first.
* Express and Nest match paths without regard to case, as no `main.ts` sets anything else
  (`HandlerMatches`); the gateway's own matching regards it. So `GET /Events/active` gets
  404 although the service would serve it, and
  `GET /event-requests/reward-requests/history/ALL` passes the gateway through the prefix
  `…/history`, for USER, and is turned away by the guards of `history/all`. What is said
  of services is said of paths that spell the words of the tables as they do (`Spelled`).
* axios reports its own limit as `ECONNABORTED`, which `handleProxyError` answers
  with 502; the 504 is for a connection that times out.
* `GatewayController` has no role decorator, so `RolesGuard` lets everything pass;
  no route has `permissions`. Both are left out.
* Express serves a path with a slash at its end like the path without it (`Plain`);
  `matchPath` does not match it. So `GET /events/7/` falls back on the route `events`,
  whose roles are not those of the handler (a user gets 403), and
  `GET /event-requests/eligibility/7/` gets 404. `AdmittedIsForwarded` is about paths
  without such a slash for that reason; `WorkIsPermitted` includes them, so the
  fallback never lets anybody through whom the handler would turn away.
* The roles are those of the decorators. The README of game-event-server says that ADMIN
  may use all features (line 24); the guards of `event-requests` admit USER only, in the
  service and in the gateway, and the model has what the guards do.
* A write to an answered response throws in Express; the rejected handler has no
  observer left, so `Answer` simply keeps the first answer. Errors without a code
  do not come from axios, and the 500 for them is left out.
* `emit` does not throw for a pattern that is given: the 500 of
  `handleMessageQueueRequest` is left out.

## 3. Runs

| Run | Question | Bounds |
|---|---|---|
| `reward_pipeline` | every configuration: one decision per pair, only begun events, nothing lost before a handler ran and one copy of a message (acknowledgements on), handled at most once (`RABBIT_MQ_NO_ACK=true`), given up only when exhausted (one binding), `RewardLedger` implemented | 2 consumers, 2 slots, 2 messages, 1 retry, 1 crash, 1 failing call |
| `progress` | no faults: ready requests are decided, the queue drains | 1 consumer, 2 users, 3 messages |
| `double_binding` | *violated*: a failed message is gone at its first failure | 3 retries left |
| `no_ack_text` | *violated*: with `RABBIT_MQ_NO_ACK=false` a crash loses a message | 1 crash |
| `optional_metadata` | *violated*: a body without the optional metadata is never decided | 1 message |
| `accounts` | one account per address, roles change one at a time, a single entry is never emptied, `RoleRegister` implemented | 2 addresses, 2 roles, 3 overlapping calls of 6, 1 failing call |
| `last_role` | *violated*: an account loses its last role | 2 overlapping calls of 6 |
| `sessions` | logged-out tokens refused, replaced tokens dead, stored tokens kept until they expire | 1 user, 2 overlapping calls of 4, 3 pairs, 5 ticks, 1 failing call |
| `logout_race` | *violated*: a refresh outlives a logout | 2 overlapping calls of 3 |
| `events` | versions identify content, dates stay in order, conflicts show a newer event, rewards respect removals, `EventRegister` implemented; readers miss nothing, eligible is what would be approved | 2 overlapping calls, 3 events of 2 types, 3 days, 3 times of creation, versions to 2, pages of 1 |
| `event_update` | *violated*: an update that names the current version ends in an error | 2 calls, 1 event, no failing call |
| `gateway_request` | refusals and 503 leave nothing behind, what passes is permitted by the service, what a service permits passes, a wrong method does no harm, every request is answered | 1 request: 6 methods, each route and 22 near misses, 7 kinds of bearer |

Why the bounds are enough for the questions: a race on a pair, an address or a
session needs two handlers or calls that overlap and a third that comes after;
two messages for one pair are a client's second attempt, and a redelivered or
republished copy adds more handlers. One user and one event are what a race is
about; `progress` has two users, so that requests wait behind each other.
`MaxCrashes = 1` meets every point between two steps, and a second copy of a
message after it still runs. `CrashesAsBuilt` explores crashes only with the interceptor bound as in the code or
with acknowledgements off. In `accounts` six calls are a registration, the
additions that leave a duplicate, and removals while another call is under way.
In `sessions` two ticks are a second, access tokens live one second and refresh
tokens two: every expiry falls within the five ticks, at whole and half seconds.
In `events` two calls overlap on one event with everything else that can happen to it.
Four constraints cut what adds nothing: `CallsOnOneEvent` (calls are made while there is
one event; one update, not two calls, may overlap the reading of the active list),
`OneCarriedVersion` (of the updates that MongoDB refuses in any case one is enough),
`FirstEvent` (calls meet an event that lasts the whole time) and `SeveralEvents` (of
several events the dates and types are alike and the versions limited: lists are about
places, updates about one document). The two types are one whose condition every user
meets and one whose condition none meets, and the events created (`Drafts`) last the
whole time, or differ from that in one respect; the changes move either date or switch the
event off together with its type. Three events and pages of one are a page read, one
being shifted and one to come, and three times of creation let all three be different,
the same, or stored in another order. Versions to 2 are a version named, one made
meanwhile and one made after that. The run has about 226,000 states.
Requests in the gateway share no state that its properties depend on, so one request
at a time shows all there is; the theorems hold for any number. Its inputs are every
route with its parameters filled in and the paths that fall between exact match,
pattern and prefix, or that differ from a declared one in case only (`LowerCase` gives
`Lower` for these).

Consumers, slots and calls are interchangeable, which the safety runs use as
symmetry; the runs with fairness do not. `CHECK_DEADLOCK FALSE` is said
everywhere, as clients, faults and time are bounded and the system stops when
they are used up.

**Fairness** (`progress`, `optional_metadata`): the event loop resumes every
await and every timer (`Handle`, `Fire`), the broker handles frames and delivers
to a consumer that is free, and the client library gets a channel back (`Reopen`).
Nothing is owed by clients, operators, the clock or faults. An await that never
returns is excluded: the database drivers' time limits end it. In
`gateway_request` the event loop serves what is ready (`Handle`) and fires both
timers; services and the network owe nothing.

**Findings** (each is a run that TLC finds violated, quoted in `PROJECT.json`):

1. The interceptor is bound twice: a failed message is rejected twice, the second
   rejection closes the channel, and the retry is lost with it.
2. `RABBIT_MQ_NO_ACK=false` switches acknowledgements off.
3. `metadata` is optional in the DTO, but the service reads `metadata.messageId`.
4. Two overlapping additions of a role leave it twice, and the last role can then
   be removed.
5. A refresh that overlaps a logout stores a refresh token after it.
6. An update of an event always fails: its body carries the version which the same
   update increments, although the code tells clients to retry with the current version.

## 4. Proofs

For every value of the constants that satisfies the named assumptions (bounds are
natural numbers, placeholders are not members of the sets they extend):

* `TypeCorrect`: `TypeOK` of `RewardRequests`. By itself it is not inductive:
  closing a channel requeues the message of a slot, which must be a message.
  `TypeInv` adds `JobsAreMessages`.
* `HandledAtMostOnceHolds`: with `RABBIT_MQ_NO_ACK=true` nothing is on the wire, in a timer
  or owed an answer (`Unsettled`), and a queued message has no copy and no outcome
  (`OnceInv`).
* `NoLossBeforeAttemptHolds`: its formula is not inductive, since a handler whose
  channel is gone still runs while its message is back in the queue, and ends without
  an outcome. `TriedInv` counts only handlers of living channels (`Working`),
  and `TagInv` says that for those the broker still holds the delivery, so closing the
  channel gives it back.
* `SingleCopyHolds`: a message comes back from a failure through a timer and a frame,
  so the invariant must say where it is until then. Bound once (`OneSettlement`): it is
  about to return in one way only, and behind the settlement of the delivery it replaces
  (`ReturnInv`). Bound more than once (`AllDoomed`): every channel that has anything to
  republish is one the broker closes first, because it reads a second settlement of a
  delivery it has forgotten.
* `NothingComesBackHolds` draws the conclusion from `AllDoomed`: as the service is
  built, a retry count is never raised, whatever `MQ_MAX_RETRIES` says (finding 1, for
  every number of consumers, messages and retries).
* `OneBindingRetriesHolds`: from `RetriedInv`, the same with the ways back, and
  `OnlyFaultsClose`: with one binding the broker has no reason to close a channel.
* `OneRequestPerPairHolds`: from `TypeInv`; the insert is refused for a stored key.
* `StartedEventsHold`: needs that an event, once begun, stays begun, and that a
  handler past the check has a begun event (`StartedInv`).
* `LedgerImplemented`: `AskedInv` (every message in the queue, on the wire, in a
  timer or with a handler was submitted) and `DecisionsAreStored` (the decision of
  a pair is the status of its one document); inserts map to `Decide`, publications
  to `Submit`, everything else stutters.
* `AccountTypes`: `TypeOK` of `UserAccounts`, strengthened by `CallsFitPhases`.
* `OneAccountPerEmailHolds`: as above, from the unique index.
* `LastEntryIsKept` and `RegisterImplemented`: both rest on `ReadIsCurrent`: while
  the version a removal read is still stored, the array it filtered is the one
  stored. Every save raises the version, so it holds; without the version in the
  filter it would say nothing, and the run's mutant shows a role revived.
* `GatewayTypes`: `TypeOK` of `Gateway`.
* `RefusedIsUntouchedHolds`: calls go on after their answer, so the invariant adds
  who may have answered a call in progress (only the interceptor: `Calling`), that a
  call without connection is over (`Unreached`) and that nothing was done for a
  request not yet decided (`Undecided`).
* `WorkIsPermittedHolds`, `AdmittedIsForwardedHolds`, `WrongMethodIsHarmlessHolds`:
  `AdmissionInv` says that what was done for a request, and a 401, 403 or 404 it was
  given, is what the checks of `handleRequest` say of its input. What the checks say of
  a path is proved in `GatewayRoutesProofs` for every sequence of strings that is
  spelled as declared, and every method: on such a path a handler matches no more than
  its route (`SpelledMatch`), each handler has a route declared like it (`Counterpart`),
  no other route with other roles takes its requests, although patterns overlap
  (`Overlap`), and the sorted table has a first match (`FirstIsBefore`, by the
  well-foundedness of the natural numbers). HEAD finds the routes for every method or,
  by the fourth attempt, the first one of its path, which asks for what the one for GET
  asks for (`RouteOfPlainPath`). For a path with a slash at its end, `OverlapWithSlash` lists the prefixes it
  falls back on. That proof found the exception described in section 2.
* `EventTypes`, `DatesAreOrderedHolds`, `VersionIdentifiesContentHolds`,
  `ConflictShowsNewerHolds`, `RewardsFollowRemovalsHolds`, `RegisterImplemented`: from
  one invariant. Its heart is `Follows`: of a document that was read, the event is
  since gone, has a higher version, or is the same. So an update whose filter matches
  writes onto the very document its dates were computed from, which gives the order of
  dates and the compare-and-set; `ReadFollows` says the same of the event at a call's
  arrival and what it read later, which gives the other three.
* `SessionTypes`, `LoggedOutTokensAreRefusedHolds`, `ReplacedTokensStayDeadHolds`,
  `StoredWhileValidHolds`: the invariant compares the end of every key with the end of
  its token in ticks (`BlacklistInv`, `StoredInv`); the arithmetic of seconds is in
  `KeyCoversAccess` (rounding up), `KeyCoversRefresh` (a pair is written no earlier
  than it was signed) and `Earlier`. That a replaced token stays dead needs that a pair
  signed and not yet stored is unlike all that are stored or were replaced (`FreshInv`).
* `ReaderMissesNothingHolds`: `ViewsInv` adds to the invariant of the store that, as
  long as no event has left the list, what was in it at the beginning is still there and
  was read if its place is before the next page (`ReadSoFar`), for events that share
  their time of creation with no other. The place of such an event in every order a
  query may return is the number of newer ones (`PlaceOfAlone`); places run through all
  numbers up to the length of the list (`EveryPlace`, `Between`), so a full page reaches
  the next one and a short page the end (`LastPage`).
* `EligibleIsApprovedHolds`: an event shown was not deleted when it was read, and while
  its version is the same so is its content (`ItemsInv`, with `Follows`); the rest is
  that the two versions of the rules agree, the condition included.
* `StoreWhileRead`: a step of `SpecViews` is one of `EventStore` or leaves it alone, so
  its theorems hold there too.

The inductive invariants were model-checked before they were proved: those of
`DeliveryProofs` with the values of `reward_pipeline`, and in addition with one layer
and crashes and with three layers; `ViewsInv` with those of `events` and pages of one
and two; `AdmissionInv` with those of `gateway_request`.

The theorems rest on the named assumptions about constants only; `SeparateWords` and
`TextLengths` are no assumptions about the system but computations on strings, which TLC
carries out on every run of `MCGateway`. `LowerAssumption` says of the comparison without
regard to case only that the words of the tables are written in lower case.

Only model-checked: `RequestsAreDecided`, `QueueDrains` and `EveryRequestIsAnswered`, as
the prover does not handle liveness under fairness. Every safety property of a passing
run is a theorem.

## 5. Not modelled

The history of requests: it pages like the lists of events, over documents that are
never removed, and its filter by user never applies, since the controllers ask the
token for `id` where the strategy stores `userId`; for the same reason the rule about
an existing request is not part of `Eligible`. The total that is counted beside a page,
and filters by type and date. The global exception filter, which answers everything
with status 500: the modules name what the handlers throw. Health checks, logging,
Swagger and the shape of answers keep no state a property could relate. The gateway
answers 202 whether or not the broker takes the message: a client cannot tell, and no
state of the gateway changes with it. RabbitMQ, MongoDB, Mongoose, Redis and
`amqp-connection-manager` are external and modelled as far as the code relies on them.

## 6. Plan

Built: everything above. Left:

1. Theorems about the abstract specifications (`RewardLedger`, `RoleRegister`,
   `EventRegister`), which the refinements carry over to the modules that implement
   them; action properties of the detailed modules, such as what a step may never do to
   a decision or to a retry count.
2. Compositions: `Gateway`'s `Publish` with the queue of `RewardRequests`; the guards
   of gateway and services with the blacklist of `AuthSession`.
