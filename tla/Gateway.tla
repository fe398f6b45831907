------------------------------ MODULE Gateway ------------------------------
(***************************************************************************)
(* A request in api-gateway: the guards, GatewayController.handleRequest,  *)
(* the publication for the message queue or the proxied call, and the two  *)
(* time limits that compete for one response - axios's and that of the     *)
(* TimeoutInterceptor, 5000 ms each.                                       *)
(*                                                                         *)
(* A request is the method, the path, whether its bearer token is valid    *)
(* and the roles of that token.                                            *)
(***************************************************************************)
EXTENDS GatewayRoutes

CONSTANTS
  Requests,  \* requests being served
  Inputs     \* what clients send

\* The controller takes every method (@All); OPTIONS is answered before it, by cors.
Input == [method : STRING \ {"OPTIONS"}, path : Seq(STRING),
          token : BOOLEAN, roles : SUBSET Roles]

ASSUME InputAssumption == Inputs \subseteq Input /\ Inputs # {}

VARIABLES
  input,    \* what each request asks for
  phase,    \* how far the gateway is with it
  timers,   \* requests whose interceptor still watches the handler
  service,  \* what became of the call to the service
  queued,   \* requests handed to the RabbitMQ client as a message
  answer    \* what the client was answered

vars == <<input, phase, timers, service, queued, answer>>

Phases == {"idle", "arrived", "calling", "passed", "over"}

\* "none": not called; "sent": not yet taken up; "served": the handler ran;
\* "refused": no handler, or its guards refused; "unreached": no connection.
Outcomes == {"none", "sent", "served", "refused", "unreached"}

Statuses == {"ACCEPTED", "UNAUTHORIZED", "FORBIDDEN", "NOT_FOUND", "TOO_MANY_REQUESTS",
             "REQUEST_TIMEOUT", "SERVICE_UNAVAILABLE", "GATEWAY_TIMEOUT", "BAD_GATEWAY",
             "RELAYED"}

Init ==
  /\ input \in [Requests -> Inputs]
  /\ phase = [r \in Requests |-> "idle"]
  /\ timers = {}
  /\ service = [r \in Requests |-> "none"]
  /\ queued = {}
  /\ answer = [r \in Requests |-> "none"]

\* A response takes one answer: once its headers are sent Express throws at the
\* next, and nobody waits for the handler that this error ends.
Answer(r, status) ==
  answer' = IF answer[r] = "none" THEN [answer EXCEPT ![r] = status] ELSE answer

Goto(r, p) == phase' = [phase EXCEPT ![r] = p]

Arrive(r) ==
  /\ phase[r] = "idle"
  /\ Goto(r, "arrived")
  /\ UNCHANGED <<input, timers, service, queued, answer>>

(***************************************************************************)
(* Admission.                                                              *)
(***************************************************************************)
PublicPaths ==
  { <<"auth", "login">>, <<"auth", "register">>, <<"auth", "refresh-token">>,
    <<"health">>, <<"health", "liveness">>, <<"health", "readiness">>, <<"api-docs">> }

IsPublic(r) == input[r].path \in PublicPaths

\* req.user is set by the guard, which does not look at the token of a public path.
SignedIn(r) == ~IsPublic(r) /\ input[r].token

IsHealth(r) == StartsWith(input[r].path, <<"health">>)

Found(r) == HasRoute(input[r].path, input[r].method)

RouteOf(r) == RouteFor(input[r].path, input[r].method)

HasRoleFor(r, route) ==
  route.roles = {} \/ (SignedIn(r) /\ route.roles \cap input[r].roles # {})

HasRole(r) == HasRoleFor(r, RouteOf(r))

\* A bug: the roles of a request for the queue are left to the consumer.
RoleUnlessQueued(r) == RouteOf(r).queue \/ HasRole(r)

\* The role check of handleRequest.
Permitted(r) == HasRole(r)

Refuse(r, status) ==
  /\ phase[r] = "arrived"
  /\ Goto(r, "over")
  /\ Answer(r, status)
  /\ UNCHANGED <<input, timers, service, queued>>

\* ThrottlerGuard: ten requests a minute.
Throttle(r) == Refuse(r, "TOO_MANY_REQUESTS")

\* JwtAuthGuard.
RefuseToken(r) == ~IsPublic(r) /\ ~input[r].token /\ Refuse(r, "UNAUTHORIZED")

\* Past the guards.
Reaches(r) == phase[r] = "arrived" /\ (IsPublic(r) \/ input[r].token)

\* next(): left to the other handlers of the process.
PassOn(r) ==
  /\ Reaches(r) /\ IsHealth(r)
  /\ Goto(r, "passed")
  /\ UNCHANGED <<input, timers, service, queued, answer>>

RefuseUnknown(r) ==
  Reaches(r) /\ ~IsHealth(r) /\ ~Found(r) /\ Refuse(r, "NOT_FOUND")

Routed(r) == Reaches(r) /\ ~IsHealth(r) /\ Found(r)

Unauthorized(r) == RouteOf(r).requireAuth /\ ~SignedIn(r)

RefuseUnauthorized(r) == Routed(r) /\ Unauthorized(r) /\ Refuse(r, "UNAUTHORIZED")

RefuseForbidden(r) ==
  Routed(r) /\ ~Unauthorized(r) /\ ~Permitted(r) /\ Refuse(r, "FORBIDDEN")

Admitted(r) == Routed(r) /\ ~Unauthorized(r) /\ Permitted(r)

\* A bug: the answer is left to the confirmation of the broker, whose errors
\* nobody listens to.
PublishOnly(r) ==
  /\ Admitted(r) /\ RouteOf(r).queue
  /\ Goto(r, "over")
  /\ queued' = queued \cup {r}
  /\ UNCHANGED <<input, timers, service, answer>>

\* handleMessageQueueRequest: emit, then 202 without waiting for the broker.
Publish(r) ==
  /\ Admitted(r) /\ RouteOf(r).queue
  /\ Goto(r, "over")
  /\ queued' = queued \cup {r}
  /\ Answer(r, "ACCEPTED")
  /\ UNCHANGED <<input, timers, service>>

\* proxyRequest, up to the call; the interceptor's timer runs by now.
Forward(r) ==
  /\ Admitted(r) /\ ~RouteOf(r).queue
  /\ Goto(r, "calling")
  /\ timers' = timers \cup {r}
  /\ service' = [service EXCEPT ![r] = "sent"]
  /\ UNCHANGED <<input, queued, answer>>

(***************************************************************************)
(* The call and the two limits.                                            *)
(***************************************************************************)
Admits(r, to) ==
  ServiceAdmits(to, input[r].path, input[r].method, input[r].token, input[r].roles)

\* The service takes the call up, be the gateway still waiting for it or not.  A
\* call its guards admit may yet be refused: an invalid body, a token that expired
\* on the way or was logged out.
Serve(r) ==
  /\ service[r] = "sent"
  /\ \E outcome \in {"served", "refused"} :
       /\ outcome = "served" => Admits(r, RouteOf(r).to)
       /\ service' = [service EXCEPT ![r] = outcome]
  /\ UNCHANGED <<input, phase, timers, queued, answer>>

\* The handler is done: the interceptor stops watching it.
Settle(r, status) ==
  /\ phase[r] = "calling"
  /\ Goto(r, "over")
  /\ timers' = timers \ {r}
  /\ Answer(r, status)

Relay(r) ==
  /\ service[r] \in {"served", "refused"}
  /\ Settle(r, "RELAYED")
  /\ UNCHANGED <<input, service, queued>>

NotConnected == {"ECONNREFUSED", "ENOTFOUND"}

\* axios gives ECONNABORTED at its own limit; ETIMEDOUT and ECONNRESET are the
\* operating system's.
Codes == NotConnected \cup {"ETIMEDOUT", "ECONNABORTED", "ECONNRESET"}

\* A bug: everything but a timeout is reported as no connection.
UnavailableUnlessTimeout(code) ==
  IF code = "ETIMEDOUT" THEN "GATEWAY_TIMEOUT" ELSE "SERVICE_UNAVAILABLE"

\* A bug: the code itself is handed on as the status.
TheCode(code) == code

\* handleProxyError.
StatusOf(code) ==
  CASE code \in NotConnected -> "SERVICE_UNAVAILABLE"
    [] code = "ETIMEDOUT" -> "GATEWAY_TIMEOUT"
    [] OTHER -> "BAD_GATEWAY"

NoConnection(r, code) ==
  /\ service[r] = "sent"
  /\ Settle(r, StatusOf(code))
  /\ service' = [service EXCEPT ![r] = "unreached"]
  /\ UNCHANGED <<input, queued>>

\* The call may have reached the service, or reach it yet.
CallBreaks(r, code) ==
  /\ Settle(r, StatusOf(code))
  /\ UNCHANGED <<input, service, queued>>

\* axios gives up after 5000 ms.
AxiosTimeout(r) == CallBreaks(r, "ECONNABORTED")

\* The interceptor gives up; the handler goes on unobserved.
InterceptorTimeout(r) ==
  /\ r \in timers
  /\ timers' = timers \ {r}
  /\ Answer(r, "REQUEST_TIMEOUT")
  /\ UNCHANGED <<input, phase, service, queued>>

Handle(r) ==
  \/ RefuseToken(r) \/ PassOn(r) \/ RefuseUnknown(r) \/ RefuseUnauthorized(r)
  \/ RefuseForbidden(r) \/ Publish(r) \/ Forward(r)

Fault(r) ==
  \/ Throttle(r)
  \/ \E code \in NotConnected : NoConnection(r, code)
  \/ \E code \in {"ETIMEDOUT", "ECONNRESET"} : CallBreaks(r, code)

Next ==
  \E r \in Requests :
    \/ Arrive(r) \/ Handle(r) \/ Fault(r) \/ Serve(r) \/ Relay(r)
    \/ AxiosTimeout(r) \/ InterceptorTimeout(r)

Spec == Init /\ [][Next]_vars

\* The event loop runs what is ready and fires its timers.  Nothing is assumed of
\* clients, services and the network.
Fairness ==
  \A r \in Requests :
    /\ WF_vars(Handle(r))
    /\ WF_vars(AxiosTimeout(r))
    /\ WF_vars(InterceptorTimeout(r))

FairSpec == Spec /\ Fairness

-----------------------------------------------------------------------------
\* Types of the variables.
TypeOK ==
  /\ input \in [Requests -> Inputs]
  /\ phase \in [Requests -> Phases]
  /\ timers \subseteq Requests
  /\ service \in [Requests -> Outcomes]
  /\ queued \subseteq Requests
  /\ answer \in [Requests -> Statuses \cup {"none"}]

Refusals ==
  {"UNAUTHORIZED", "FORBIDDEN", "NOT_FOUND", "TOO_MANY_REQUESTS", "SERVICE_UNAVAILABLE"}

\* A request the gateway refuses, or answers with 503, was not and will not be
\* carried out: it may be repeated safely.  This holds through handleProxyError's
\* choice of statuses and the order of the checks in handleRequest.
RefusedIsUntouched ==
  \A r \in Requests : answer[r] \in Refusals =>
    service[r] \in {"none", "unreached"} /\ r \notin queued

\* What the gateway lets through is permitted: a message for the consumer, which
\* has no guard of its own, names a signed-in user with the role USER, and a call
\* to an existing handler passes the guards of that handler.  The second part is
\* said of paths spelled as declared: .../history/ALL is let through as an extension
\* of .../history, for USER, and turned away by the guards of history/all.
WorkIsPermitted ==
  \A r \in Requests :
    /\ r \in queued => SignedIn(r) /\ "USER" \in input[r].roles
    /\ service[r] # "none" /\ Spelled(input[r].path) =>
         \/ Declares(RouteOf(r).to, input[r].path, input[r].method) = {}
         \/ Admits(r, RouteOf(r).to)

\* Whom a service would serve the gateway does not turn away, nor send to the other
\* service: a request with a valid token that some handler admits is never answered
\* 401, 403 or 404, and is forwarded to the service of that handler.  The gateway
\* takes paths more literally than the services: with a slash at the end or in
\* another case a path may well be turned away (GET /events/7/, GET /Events/active).
AdmittedIsForwarded ==
  \A r \in Requests, to \in {"auth", "game"} :
    /\ input[r].token /\ Admits(r, to)
    /\ Plain(input[r].path) = input[r].path /\ Spelled(input[r].path)
    => /\ answer[r] \notin {"UNAUTHORIZED", "FORBIDDEN", "NOT_FOUND"}
       /\ service[r] # "none" => RouteOf(r).to = to

\* Would the checks of handleRequest let the request through with this method?
LetThrough(r, method) ==
  LET route == RouteFor(input[r].path, method)
  IN  /\ HasRoute(input[r].path, method)
      /\ route.requireAuth => SignedIn(r)
      /\ HasRoleFor(r, route)

\* A request with a method that no route of its path has is meant to be answered 405
\* (gateway.service.ts:119).  The controller does not look at that mark and forwards
\* it, checked against the roles of some other method's route.  That does no harm: it
\* is never queued, and a service carries it out only when it is the HEAD of a GET
\* that its bearer is let through with.
WrongMethodIsHarmless ==
  \A r \in Requests :
    OnlyWrongMethod(input[r].path, input[r].method) /\ Spelled(input[r].path) =>
      /\ r \notin queued
      /\ service[r] = "served" => input[r].method = "HEAD" /\ LetThrough(r, "GET")

\* Every request that arrives is answered or passed on, whatever the services do: the
\* interceptor answers when axios does not.  The limit of axios is taken to end the
\* handler at whatever stage its call is.
EveryRequestIsAnswered ==
  \A r \in Requests :
    phase[r] = "arrived" ~>
      phase[r] = "passed" \/ (phase[r] = "over" /\ answer[r] # "none")
=============================================================================
