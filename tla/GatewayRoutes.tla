--------------------------- MODULE GatewayRoutes ---------------------------
(***************************************************************************)
(* The tables that decide where a request goes: the routes of api-gateway  *)
(* and how GatewayService picks one, and the handlers auth-server and      *)
(* game-event-server declare with the roles their guards ask for.  The     *)
(* gateway's table and the services' decorators are kept apart, by hand.   *)
(*                                                                         *)
(* A path is the sequence of its segments; a trailing slash is an empty    *)
(* last segment.                                                           *)
(***************************************************************************)
EXTENDS Integers, Sequences, SequencesExt

CONSTANT Lower(_)  \* a segment in lower case

Roles == {"USER", "OPERATOR", "AUDITOR", "ADMIN"}

(***************************************************************************)
(* Routes.  No methods means every method, no roles every role.            *)
(***************************************************************************)
Open(path, method) ==
  [path |-> path, methods |-> {method}, to |-> "auth", requireAuth |-> FALSE,
   roles |-> {}, queue |-> FALSE]

Route(path, methods, to, roles) ==
  [path |-> path, methods |-> methods, to |-> to, requireAuth |-> TRUE,
   roles |-> roles, queue |-> FALSE]

AuthRoutes ==
  << Open(<<"auth", "register">>, "POST"),
     Open(<<"auth", "login">>, "POST"),
     Route(<<"auth", "refresh">>, {"POST"}, "auth", {}),
     Route(<<"auth", "logout">>, {"POST"}, "auth", {}) >>

RequestRoutes ==
  << Route(<<"event-requests", "available-events">>, {}, "game", {"USER"}),
     [Route(<<"event-requests", "rewards">>, {}, "game", {"USER"}) EXCEPT !.queue = TRUE],
     Route(<<"event-requests", "eligibility", ":eventId">>, {}, "game", {"USER"}),
     Route(<<"event-requests", "reward-requests", "history">>, {}, "game", {"USER"}),
     Route(<<"event-requests", "reward-requests", "history", "all">>, {}, "game",
           {"OPERATOR", "AUDITOR", "ADMIN"}) >>

\* A bug: the route of a handler is declared for another method.
EventRoutesWithoutPut ==
  << Route(<<"events">>, {"POST", "GET"}, "game", {"OPERATOR", "ADMIN"}),
     Route(<<"events", ":id">>, {"GET"}, "game", {}),
     Route(<<"events", ":id">>, {"PATCH"}, "game", {"OPERATOR", "ADMIN"}),
     Route(<<"events", "active">>, {"GET"}, "game", {}) >>

EventRoutes ==
  << Route(<<"events">>, {"POST", "GET"}, "game", {"OPERATOR", "ADMIN"}),
     Route(<<"events", ":id">>, {"GET"}, "game", {}),
     Route(<<"events", ":id">>, {"PUT"}, "game", {"OPERATOR", "ADMIN"}),
     Route(<<"events", "active">>, {"GET"}, "game", {}) >>

RewardRoutes ==
  << Route(<<"rewards">>, {"GET"}, "game", {}),
     Route(<<"rewards">>, {"POST"}, "game", {"OPERATOR", "ADMIN"}),
     Route(<<"rewards", ":id">>, {"GET"}, "game", {}),
     Route(<<"rewards", "event", ":eventId">>, {"GET"}, "game", {}) >>

UserRoutes ==
  << Route(<<"users">>, {"GET"}, "auth", {"ADMIN", "AUDITOR"}),
     Route(<<"users", ":id", "roles">>, {"POST"}, "auth", {"ADMIN"}),
     Route(<<"users", ":id", "roles", ":role">>, {"DELETE"}, "auth", {"ADMIN"}) >>

Routes == AuthRoutes \o RequestRoutes \o EventRoutes \o RewardRoutes \o UserRoutes

(***************************************************************************)
(* Matching.                                                               *)
(***************************************************************************)
EmptySegment == ""

Parameters == {":id", ":eventId", ":role"}

\* matchPath: a parameter stands for one segment that is not empty.
MatchPath(pattern, path) ==
  /\ Len(pattern) = Len(path)
  /\ \A k \in DOMAIN path :
       pattern[k] = path[k] \/ (pattern[k] \in Parameters /\ path[k] # EmptySegment)

\* startsWith, of one text.
TextStartsWith(text, prefix) ==
  Len(prefix) <= Len(text) /\ SubSeq(text, 1, Len(prefix)) = prefix

\* startsWith compares text: the prefix may end inside a segment.
StartsWith(path, prefix) ==
  LET n == Len(prefix)
  IN  /\ n <= Len(path)
      /\ \A k \in 1 .. n - 1 : path[k] = prefix[k]
      /\ TextStartsWith(path[n], prefix[n])

\* The segments that the tables and the gateway's health check spell out.
Words ==
  {"auth", "register", "login", "refresh", "logout", "users", "roles", "events", "active",
   "rewards", "event-requests", "available-events", "eligibility", "reward-requests",
   "history", "all", "health"}

\* The words of a declared path; "event" is the beginning of another one.
Spellings == Words \cup {"event"}

ASSUME LowerAssumption == \A word \in Spellings : Lower(word) = word

\* No word begins with another, or with a parameter.
ASSUME SeparateWords ==
  \A text \in Spellings \cup {EmptySegment}, word \in Words \cup Parameters :
    TextStartsWith(text, word) <=> text = word

TextLength == [i \in DOMAIN Routes |->
  FoldLeft(LAMBDA n, segment : n + Len(segment) + 1, 0, Routes[i].path)]

\* The table is sorted by the length of the path, longest first; routes of one
\* length keep the order in which they were declared.
ASSUME TextLengths ==
  TextLength = << 14, 11, 13, 12,  32, 23, 36, 39, 43,  7, 11, 11, 14,  8, 8, 12, 23,
                  6, 16, 22 >>

Before(i, j) ==
  TextLength[i] > TextLength[j] \/ (TextLength[i] = TextLength[j] /\ i <= j)

First(matches) == CHOOSE i \in matches : \A j \in matches : Before(i, j)

\* A bug: every method matches.
AnyMethod(i, method) == TRUE

MethodMatches(i, method) == Routes[i].methods = {} \/ method \in Routes[i].methods

Exact(path, method) ==
  {i \in DOMAIN Routes : Routes[i].path = path /\ MethodMatches(i, method)}

Pattern(path, method) ==
  {i \in DOMAIN Routes : MatchPath(Routes[i].path, path) /\ MethodMatches(i, method)}

Prefix(path, method) ==
  {i \in DOMAIN Routes : StartsWith(path, Routes[i].path) /\ MethodMatches(i, method)}

\* The routes of the path for other methods, looked at last.
WrongMethod(path) == {i \in DOMAIN Routes : MatchPath(Routes[i].path, path)}

\* A bug: prefixes are tried before patterns.
PrefixesFirst(path, method) ==
  <<Exact(path, method), Prefix(path, method), Pattern(path, method), WrongMethod(path)>>

\* The four attempts of getRouteConfigForPath, in their order.
Attempts(path, method) ==
  <<Exact(path, method), Pattern(path, method), Prefix(path, method), WrongMethod(path)>>

\* The first three attempts fail: no route is for this method.
OnlyWrongMethod(path, method) ==
  /\ Exact(path, method) \cup Pattern(path, method) \cup Prefix(path, method) = {}
  /\ WrongMethod(path) # {}

HasRoute(path, method) ==
  LET attempts == Attempts(path, method)
  IN  \E k \in DOMAIN attempts : attempts[k] # {}

\* The route that the first successful attempt finds.
RouteFor(path, method) ==
  LET attempts == Attempts(path, method)
      k == CHOOSE k \in DOMAIN attempts :
             attempts[k] # {} /\ \A j \in 1 .. k - 1 : attempts[j] = {}
  IN  Routes[First(attempts[k])]

(***************************************************************************)
(* Handlers of the services.  A guarded handler asks for a valid token and *)
(* for one of its roles, when it names any.                                *)
(***************************************************************************)
Public(method, path) ==
  [method |-> method, path |-> path, guarded |-> FALSE, roles |-> {}]

Guarded(method, path, roles) ==
  [method |-> method, path |-> path, guarded |-> TRUE, roles |-> roles]

AuthHandlers ==
  << Public("POST", <<"auth", "register">>),
     Public("POST", <<"auth", "login">>),
     Guarded("POST", <<"auth", "refresh">>, {}),
     Guarded("POST", <<"auth", "logout">>, {}) >>

UserHandlers ==
  << Guarded("GET", <<"users">>, {"ADMIN", "AUDITOR"}),
     Guarded("POST", <<"users", ":id", "roles">>, {"ADMIN"}),
     Guarded("DELETE", <<"users", ":id", "roles", ":role">>, {"ADMIN"}) >>

EventHandlers ==
  << Guarded("POST", <<"events">>, {"OPERATOR", "ADMIN"}),
     Guarded("GET", <<"events">>, {"OPERATOR", "ADMIN"}),
     Public("GET", <<"events", "active">>),
     Public("GET", <<"events", ":id">>),
     Guarded("PUT", <<"events", ":id">>, {"OPERATOR", "ADMIN"}) >>

RewardHandlers ==
  << Guarded("POST", <<"rewards">>, {"OPERATOR", "ADMIN"}),
     Guarded("GET", <<"rewards">>, {}),
     Guarded("GET", <<"rewards", ":id">>, {}),
     Guarded("GET", <<"rewards", "event", ":eventId">>, {}) >>

RequestHandlers ==
  << Guarded("GET", <<"event-requests", "available-events">>, {"USER"}),
     Guarded("GET", <<"event-requests", "eligibility", ":eventId">>, {"USER"}),
     Guarded("GET", <<"event-requests", "reward-requests", "history">>, {"USER"}),
     Guarded("GET", <<"event-requests", "reward-requests", "history", "all">>,
             {"OPERATOR", "AUDITOR", "ADMIN"}) >>

Handlers(service) ==
  CASE service = "auth" -> AuthHandlers \o UserHandlers
    [] service = "game" -> EventHandlers \o RewardHandlers \o RequestHandlers

\* Express routes a path with and without a trailing slash alike.
Plain(path) == IF Len(path) > 1 /\ Last(path) = EmptySegment THEN Front(path) ELSE path

\* Express compares without regard to case, which the gateway does not.
HandlerMatches(pattern, path) ==
  /\ Len(pattern) = Len(path)
  /\ \A k \in DOMAIN path :
       IF pattern[k] \in Parameters THEN path[k] # EmptySegment
                                   ELSE Lower(path[k]) = pattern[k]

\* Express answers HEAD with the handler for GET.
Takes(declared, method) == method = declared \/ (method = "HEAD" /\ declared = "GET")

Declares(service, path, method) ==
  {i \in DOMAIN Handlers(service) :
     /\ Takes(Handlers(service)[i].method, method)
     /\ HandlerMatches(Handlers(service)[i].path, Plain(path))}

\* The guards of the handler declared first: does it serve this bearer?
ServiceAdmits(service, path, method, token, roles) ==
  \E i \in Declares(service, path, method) :
    LET handler == Handlers(service)[i]
    IN  /\ \A j \in Declares(service, path, method) : i <= j
        /\ handler.guarded => token
        /\ handler.roles # {} => handler.roles \cap roles # {}

-----------------------------------------------------------------------------
\* The words of the tables are written in the path as the tables spell them: on such
\* a path the services do not match more than the gateway.
Spelled(path) ==
  \A k \in DOMAIN path : Lower(path[k]) \in Spellings => path[k] = Lower(path[k])
=============================================================================
