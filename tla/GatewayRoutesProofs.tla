-------------------------- MODULE GatewayRoutesProofs --------------------------
(***************************************************************************)
(* Proofs about GatewayRoutes, for every path and every method: a path that*)
(* some handler serves, spelled as the tables spell it, is routed to the   *)
(* service of that handler, and what its guard asks for the gateway asks   *)
(* for too.                                                                *)
(*                                                                         *)
(* Routes and handlers are named by their places in the tables.            *)
(***************************************************************************)
EXTENDS GatewayRoutes, WellFoundedInduction, TLAPS

-----------------------------------------------------------------------------
(* The gateway's table.                                                    *)

\* Every route but the one for the queue, as it is declared.
LEMMA RouteTable ==
  /\ DOMAIN Routes = 1 .. 20
  /\ Routes[1] = Open(<<"auth", "register">>, "POST")
  /\ Routes[2] = Open(<<"auth", "login">>, "POST")
  /\ Routes[3] = Route(<<"auth", "refresh">>, {"POST"}, "auth", {})
  /\ Routes[4] = Route(<<"auth", "logout">>, {"POST"}, "auth", {})
  /\ Routes[5] = Route(<<"event-requests", "available-events">>, {}, "game", {"USER"})
  /\ Routes[7] = Route(<<"event-requests", "eligibility", ":eventId">>, {}, "game",
                       {"USER"})
  /\ Routes[8] = Route(<<"event-requests", "reward-requests", "history">>, {}, "game",
                       {"USER"})
  /\ Routes[9] = Route(<<"event-requests", "reward-requests", "history", "all">>, {},
                       "game", {"OPERATOR", "AUDITOR", "ADMIN"})
  /\ Routes[10] = Route(<<"events">>, {"POST", "GET"}, "game", {"OPERATOR", "ADMIN"})
  /\ Routes[11] = Route(<<"events", ":id">>, {"GET"}, "game", {})
  /\ Routes[12] = Route(<<"events", ":id">>, {"PUT"}, "game", {"OPERATOR", "ADMIN"})
  /\ Routes[13] = Route(<<"events", "active">>, {"GET"}, "game", {})
  /\ Routes[14] = Route(<<"rewards">>, {"GET"}, "game", {})
  /\ Routes[15] = Route(<<"rewards">>, {"POST"}, "game", {"OPERATOR", "ADMIN"})
  /\ Routes[16] = Route(<<"rewards", ":id">>, {"GET"}, "game", {})
  /\ Routes[17] = Route(<<"rewards", "event", ":eventId">>, {"GET"}, "game", {})
  /\ Routes[18] = Route(<<"users">>, {"GET"}, "auth", {"ADMIN", "AUDITOR"})
  /\ Routes[19] = Route(<<"users", ":id", "roles">>, {"POST"}, "auth", {"ADMIN"})
  /\ Routes[20] = Route(<<"users", ":id", "roles", ":role">>, {"DELETE"}, "auth",
                        {"ADMIN"})
BY DEF Routes, AuthRoutes, RequestRoutes, EventRoutes, RewardRoutes, UserRoutes

\* The route for the queue.
LEMMA QueueRoute ==
  /\ Routes[6].path = <<"event-requests", "rewards">> /\ Routes[6].methods = {}
  /\ Routes[6].to = "game" /\ Routes[6].roles = {"USER"}
  /\ Routes[6].requireAuth = TRUE /\ Routes[6].queue = TRUE
BY DEF Routes, AuthRoutes, RequestRoutes, EventRoutes, RewardRoutes, UserRoutes, Route

\* The places of the routes, one by one.
IsRoute(j) ==
  j = 1 \/ j = 2 \/ j = 3 \/ j = 4 \/ j = 5 \/ j = 6 \/ j = 7 \/ j = 8 \/ j = 9 \/
  j = 10 \/ j = 11 \/ j = 12 \/ j = 13 \/ j = 14 \/ j = 15 \/ j = 16 \/ j = 17 \/
  j = 18 \/ j = 19 \/ j = 20

LEMMA EachRoute ==
  ASSUME NEW j \in 1 .. 20
  PROVE  IsRoute(j)
BY DEF IsRoute

LEMMA RoutePaths ==
  /\ Routes[1].path = <<"auth", "register">>
  /\ Routes[2].path = <<"auth", "login">>
  /\ Routes[3].path = <<"auth", "refresh">>
  /\ Routes[4].path = <<"auth", "logout">>
  /\ Routes[5].path = <<"event-requests", "available-events">>
  /\ Routes[6].path = <<"event-requests", "rewards">>
  /\ Routes[7].path = <<"event-requests", "eligibility", ":eventId">>
  /\ Routes[8].path = <<"event-requests", "reward-requests", "history">>
  /\ Routes[9].path = <<"event-requests", "reward-requests", "history", "all">>
  /\ Routes[10].path = <<"events">>
  /\ Routes[11].path = <<"events", ":id">>
  /\ Routes[12].path = <<"events", ":id">>
  /\ Routes[13].path = <<"events", "active">>
  /\ Routes[14].path = <<"rewards">>
  /\ Routes[15].path = <<"rewards">>
  /\ Routes[16].path = <<"rewards", ":id">>
  /\ Routes[17].path = <<"rewards", "event", ":eventId">>
  /\ Routes[18].path = <<"users">>
  /\ Routes[19].path = <<"users", ":id", "roles">>
  /\ Routes[20].path = <<"users", ":id", "roles", ":role">>
BY RouteTable, QueueRoute DEF Open, Route

LEMMA RouteMethods ==
  /\ Routes[1].methods = {"POST"} /\ Routes[2].methods = {"POST"}
  /\ Routes[3].methods = {"POST"} /\ Routes[4].methods = {"POST"}
  /\ Routes[5].methods = {} /\ Routes[6].methods = {} /\ Routes[7].methods = {}
  /\ Routes[8].methods = {} /\ Routes[9].methods = {}
  /\ Routes[10].methods = {"POST", "GET"} /\ Routes[11].methods = {"GET"}
  /\ Routes[12].methods = {"PUT"} /\ Routes[13].methods = {"GET"}
  /\ Routes[14].methods = {"GET"} /\ Routes[15].methods = {"POST"}
  /\ Routes[16].methods = {"GET"} /\ Routes[17].methods = {"GET"}
  /\ Routes[18].methods = {"GET"} /\ Routes[19].methods = {"POST"}
  /\ Routes[20].methods = {"DELETE"}
BY RouteTable, QueueRoute DEF Open, Route

LEMMA RouteRoles ==
  /\ Routes[1].roles = {} /\ Routes[2].roles = {} /\ Routes[3].roles = {}
  /\ Routes[4].roles = {} /\ Routes[5].roles = {"USER"} /\ Routes[6].roles = {"USER"}
  /\ Routes[7].roles = {"USER"} /\ Routes[8].roles = {"USER"}
  /\ Routes[9].roles = {"OPERATOR", "AUDITOR", "ADMIN"}
  /\ Routes[10].roles = {"OPERATOR", "ADMIN"} /\ Routes[11].roles = {}
  /\ Routes[12].roles = {"OPERATOR", "ADMIN"} /\ Routes[13].roles = {}
  /\ Routes[14].roles = {} /\ Routes[15].roles = {"OPERATOR", "ADMIN"}
  /\ Routes[16].roles = {} /\ Routes[17].roles = {}
  /\ Routes[18].roles = {"ADMIN", "AUDITOR"} /\ Routes[19].roles = {"ADMIN"}
  /\ Routes[20].roles = {"ADMIN"}
BY RouteTable, QueueRoute DEF Open, Route

LEMMA RouteServices ==
  /\ Routes[1].to = "auth" /\ Routes[2].to = "auth" /\ Routes[3].to = "auth"
  /\ Routes[4].to = "auth" /\ Routes[5].to = "game" /\ Routes[6].to = "game"
  /\ Routes[7].to = "game" /\ Routes[8].to = "game" /\ Routes[9].to = "game"
  /\ Routes[10].to = "game" /\ Routes[11].to = "game" /\ Routes[12].to = "game"
  /\ Routes[13].to = "game" /\ Routes[14].to = "game" /\ Routes[15].to = "game"
  /\ Routes[16].to = "game" /\ Routes[17].to = "game" /\ Routes[18].to = "auth"
  /\ Routes[19].to = "auth" /\ Routes[20].to = "auth"
BY RouteTable, QueueRoute DEF Open, Route

LEMMA RouteKinds ==
  \A j \in 1 .. 20 :
    /\ j # 6 => Routes[j].queue = FALSE
    /\ j \notin {1, 2} => Routes[j].requireAuth = TRUE
    /\ j \in {1, 2} => Routes[j].requireAuth = FALSE
BY EachRoute, RouteTable, QueueRoute DEF IsRoute, Open, Route

\* What is known of a method that a route is for.
Methods(method) ==
  /\ MethodMatches(10, method) => method = "POST" \/ method = "GET"
  /\ MethodMatches(11, method) => method = "GET"
  /\ MethodMatches(12, method) => method = "PUT"
  /\ MethodMatches(13, method) => method = "GET"
  /\ MethodMatches(14, method) => method = "GET"
  /\ MethodMatches(15, method) => method = "POST"
  /\ MethodMatches(16, method) => method = "GET"
  /\ MethodMatches(17, method) => method = "GET"
  /\ MethodMatches(18, method) => method = "GET"
  /\ MethodMatches(19, method) => method = "POST"
  /\ MethodMatches(20, method) => method = "DELETE"

LEMMA WhatMethods ==
  ASSUME NEW method
  PROVE  Methods(method)
BY RouteMethods DEF MethodMatches, Methods

\* Every segment the table declares is a parameter or a word.
IsDeclared(pattern) ==
  \A k \in 1 .. Len(pattern) : pattern[k] \in Parameters \cup Spellings

LEMMA RouteSegments ==
  ASSUME NEW j \in 1 .. 20
  PROVE  IsDeclared(Routes[j].path)
<1> DEFINE Segments == Parameters \cup Spellings
<1>1. \A a \in Segments : IsDeclared(<<a>>)
  BY DEF IsDeclared
<1>2. \A a, b \in Segments : IsDeclared(<<a, b>>)
  BY DEF IsDeclared
<1>3. \A a, b, c \in Segments : IsDeclared(<<a, b, c>>)
  BY DEF IsDeclared
<1>4. \A a, b, c, d \in Segments : IsDeclared(<<a, b, c, d>>)
  BY DEF IsDeclared
<1>5. /\ "auth" \in Segments /\ "register" \in Segments /\ "login" \in Segments
      /\ "refresh" \in Segments /\ "logout" \in Segments /\ "users" \in Segments
      /\ "roles" \in Segments /\ "events" \in Segments /\ "active" \in Segments
      /\ "event" \in Segments /\ "rewards" \in Segments
      /\ "event-requests" \in Segments /\ "available-events" \in Segments
      /\ "eligibility" \in Segments /\ "reward-requests" \in Segments
      /\ "history" \in Segments /\ "all" \in Segments
      /\ ":id" \in Segments /\ ":eventId" \in Segments /\ ":role" \in Segments
  BY DEF Spellings, Words, Parameters
<1> HIDE DEF Segments
<1>6. /\ IsDeclared(<<"auth", "register">>) /\ IsDeclared(<<"auth", "login">>)
      /\ IsDeclared(<<"auth", "refresh">>) /\ IsDeclared(<<"auth", "logout">>)
  BY <1>2, <1>5
<1>7. /\ IsDeclared(<<"event-requests", "available-events">>)
      /\ IsDeclared(<<"event-requests", "rewards">>)
      /\ IsDeclared(<<"event-requests", "eligibility", ":eventId">>)
      /\ IsDeclared(<<"event-requests", "reward-requests", "history">>)
      /\ IsDeclared(<<"event-requests", "reward-requests", "history", "all">>)
  BY <1>2, <1>3, <1>4, <1>5
<1>8. /\ IsDeclared(<<"events">>) /\ IsDeclared(<<"events", ":id">>)
      /\ IsDeclared(<<"events", "active">>)
  BY <1>1, <1>2, <1>5
<1>9. /\ IsDeclared(<<"rewards">>) /\ IsDeclared(<<"rewards", ":id">>)
      /\ IsDeclared(<<"rewards", "event", ":eventId">>)
  BY <1>1, <1>2, <1>3, <1>5
<1>10. /\ IsDeclared(<<"users">>) /\ IsDeclared(<<"users", ":id", "roles">>)
       /\ IsDeclared(<<"users", ":id", "roles", ":role">>)
  BY <1>1, <1>3, <1>4, <1>5
<1>11. /\ IsDeclared(Routes[1].path) /\ IsDeclared(Routes[2].path)
       /\ IsDeclared(Routes[3].path) /\ IsDeclared(Routes[4].path)
  BY <1>6, RoutePaths, Zenon
<1>12. /\ IsDeclared(Routes[5].path) /\ IsDeclared(Routes[6].path)
       /\ IsDeclared(Routes[7].path) /\ IsDeclared(Routes[8].path)
       /\ IsDeclared(Routes[9].path)
  BY <1>7, RoutePaths, Zenon
<1>13. /\ IsDeclared(Routes[10].path) /\ IsDeclared(Routes[11].path)
       /\ IsDeclared(Routes[12].path) /\ IsDeclared(Routes[13].path)
  BY <1>8, RoutePaths, Zenon
<1>14. /\ IsDeclared(Routes[14].path) /\ IsDeclared(Routes[15].path)
       /\ IsDeclared(Routes[16].path) /\ IsDeclared(Routes[17].path)
  BY <1>9, RoutePaths, Zenon
<1>15. /\ IsDeclared(Routes[18].path) /\ IsDeclared(Routes[19].path)
       /\ IsDeclared(Routes[20].path)
  BY <1>10, RoutePaths, Zenon
<1>16. IsRoute(j)
  BY EachRoute
<1> QED BY <1>11, <1>12, <1>13, <1>14, <1>15, <1>16, Zenon DEF IsRoute

-----------------------------------------------------------------------------
(* The handlers of the services.                                           *)

LEMMA AuthHandlersAsDeclared ==
  /\ DOMAIN Handlers("auth") = 1 .. 7
  /\ Handlers("auth")[1] = Public("POST", <<"auth", "register">>)
  /\ Handlers("auth")[2] = Public("POST", <<"auth", "login">>)
  /\ Handlers("auth")[3] = Guarded("POST", <<"auth", "refresh">>, {})
  /\ Handlers("auth")[4] = Guarded("POST", <<"auth", "logout">>, {})
  /\ Handlers("auth")[5] = Guarded("GET", <<"users">>, {"ADMIN", "AUDITOR"})
  /\ Handlers("auth")[6] = Guarded("POST", <<"users", ":id", "roles">>, {"ADMIN"})
  /\ Handlers("auth")[7] =
       Guarded("DELETE", <<"users", ":id", "roles", ":role">>, {"ADMIN"})
BY DEF Handlers, AuthHandlers, UserHandlers, EventHandlers, RewardHandlers,
       RequestHandlers

LEMMA GameHandlersAsDeclared ==
  /\ DOMAIN Handlers("game") = 1 .. 13
  /\ Handlers("game")[1] = Guarded("POST", <<"events">>, {"OPERATOR", "ADMIN"})
  /\ Handlers("game")[2] = Guarded("GET", <<"events">>, {"OPERATOR", "ADMIN"})
  /\ Handlers("game")[3] = Public("GET", <<"events", "active">>)
  /\ Handlers("game")[4] = Public("GET", <<"events", ":id">>)
  /\ Handlers("game")[5] = Guarded("PUT", <<"events", ":id">>, {"OPERATOR", "ADMIN"})
  /\ Handlers("game")[6] = Guarded("POST", <<"rewards">>, {"OPERATOR", "ADMIN"})
  /\ Handlers("game")[7] = Guarded("GET", <<"rewards">>, {})
  /\ Handlers("game")[8] = Guarded("GET", <<"rewards", ":id">>, {})
  /\ Handlers("game")[9] = Guarded("GET", <<"rewards", "event", ":eventId">>, {})
  /\ Handlers("game")[10] =
       Guarded("GET", <<"event-requests", "available-events">>, {"USER"})
  /\ Handlers("game")[11] =
       Guarded("GET", <<"event-requests", "eligibility", ":eventId">>, {"USER"})
  /\ Handlers("game")[12] =
       Guarded("GET", <<"event-requests", "reward-requests", "history">>, {"USER"})
  /\ Handlers("game")[13] =
       Guarded("GET", <<"event-requests", "reward-requests", "history", "all">>,
               {"OPERATOR", "AUDITOR", "ADMIN"})
BY DEF Handlers, AuthHandlers, UserHandlers, EventHandlers, RewardHandlers,
       RequestHandlers

LEMMA AuthMethods ==
  /\ Handlers("auth")[1].method = "POST" /\ Handlers("auth")[2].method = "POST"
  /\ Handlers("auth")[3].method = "POST" /\ Handlers("auth")[4].method = "POST"
  /\ Handlers("auth")[5].method = "GET" /\ Handlers("auth")[6].method = "POST"
  /\ Handlers("auth")[7].method = "DELETE"
BY AuthHandlersAsDeclared DEF Public, Guarded

LEMMA AuthPaths ==
  /\ Handlers("auth")[1].path = <<"auth", "register">>
  /\ Handlers("auth")[2].path = <<"auth", "login">>
  /\ Handlers("auth")[3].path = <<"auth", "refresh">>
  /\ Handlers("auth")[4].path = <<"auth", "logout">>
  /\ Handlers("auth")[5].path = <<"users">>
  /\ Handlers("auth")[6].path = <<"users", ":id", "roles">>
  /\ Handlers("auth")[7].path = <<"users", ":id", "roles", ":role">>
BY AuthHandlersAsDeclared DEF Public, Guarded

LEMMA AuthRoles ==
  /\ Handlers("auth")[1].roles = {} /\ Handlers("auth")[2].roles = {}
  /\ Handlers("auth")[3].roles = {} /\ Handlers("auth")[4].roles = {}
  /\ Handlers("auth")[5].roles = {"ADMIN", "AUDITOR"}
  /\ Handlers("auth")[6].roles = {"ADMIN"} /\ Handlers("auth")[7].roles = {"ADMIN"}
BY AuthHandlersAsDeclared DEF Public, Guarded

LEMMA AuthGuards ==
  /\ Handlers("auth")[1].guarded = FALSE /\ Handlers("auth")[2].guarded = FALSE
  /\ Handlers("auth")[3].guarded = TRUE /\ Handlers("auth")[4].guarded = TRUE
  /\ Handlers("auth")[5].guarded = TRUE /\ Handlers("auth")[6].guarded = TRUE
  /\ Handlers("auth")[7].guarded = TRUE
BY AuthHandlersAsDeclared DEF Public, Guarded

LEMMA GameMethods ==
  /\ Handlers("game")[1].method = "POST" /\ Handlers("game")[2].method = "GET"
  /\ Handlers("game")[3].method = "GET" /\ Handlers("game")[4].method = "GET"
  /\ Handlers("game")[5].method = "PUT" /\ Handlers("game")[6].method = "POST"
  /\ Handlers("game")[7].method = "GET" /\ Handlers("game")[8].method = "GET"
  /\ Handlers("game")[9].method = "GET" /\ Handlers("game")[10].method = "GET"
  /\ Handlers("game")[11].method = "GET" /\ Handlers("game")[12].method = "GET"
  /\ Handlers("game")[13].method = "GET"
BY GameHandlersAsDeclared DEF Public, Guarded

LEMMA GamePaths ==
  /\ Handlers("game")[1].path = <<"events">>
  /\ Handlers("game")[2].path = <<"events">>
  /\ Handlers("game")[3].path = <<"events", "active">>
  /\ Handlers("game")[4].path = <<"events", ":id">>
  /\ Handlers("game")[5].path = <<"events", ":id">>
  /\ Handlers("game")[6].path = <<"rewards">>
  /\ Handlers("game")[7].path = <<"rewards">>
  /\ Handlers("game")[8].path = <<"rewards", ":id">>
  /\ Handlers("game")[9].path = <<"rewards", "event", ":eventId">>
  /\ Handlers("game")[10].path = <<"event-requests", "available-events">>
  /\ Handlers("game")[11].path = <<"event-requests", "eligibility", ":eventId">>
  /\ Handlers("game")[12].path = <<"event-requests", "reward-requests", "history">>
  /\ Handlers("game")[13].path = <<"event-requests", "reward-requests", "history", "all">>
BY GameHandlersAsDeclared DEF Public, Guarded

LEMMA GameRoles ==
  /\ Handlers("game")[1].roles = {"OPERATOR", "ADMIN"}
  /\ Handlers("game")[2].roles = {"OPERATOR", "ADMIN"} /\ Handlers("game")[3].roles = {}
  /\ Handlers("game")[4].roles = {} /\ Handlers("game")[5].roles = {"OPERATOR", "ADMIN"}
  /\ Handlers("game")[6].roles = {"OPERATOR", "ADMIN"} /\ Handlers("game")[7].roles = {}
  /\ Handlers("game")[8].roles = {} /\ Handlers("game")[9].roles = {}
  /\ Handlers("game")[10].roles = {"USER"} /\ Handlers("game")[11].roles = {"USER"}
  /\ Handlers("game")[12].roles = {"USER"}
  /\ Handlers("game")[13].roles = {"OPERATOR", "AUDITOR", "ADMIN"}
BY GameHandlersAsDeclared DEF Public, Guarded

LEMMA GameGuards ==
  /\ Handlers("game")[1].guarded = TRUE /\ Handlers("game")[2].guarded = TRUE
  /\ Handlers("game")[3].guarded = FALSE /\ Handlers("game")[4].guarded = FALSE
  /\ Handlers("game")[5].guarded = TRUE /\ Handlers("game")[6].guarded = TRUE
  /\ Handlers("game")[7].guarded = TRUE /\ Handlers("game")[8].guarded = TRUE
  /\ Handlers("game")[9].guarded = TRUE /\ Handlers("game")[10].guarded = TRUE
  /\ Handlers("game")[11].guarded = TRUE /\ Handlers("game")[12].guarded = TRUE
  /\ Handlers("game")[13].guarded = TRUE
BY GameHandlersAsDeclared DEF Public, Guarded

\* Route c is declared like handler h of a service.
Mirrors(to, h, c) ==
  /\ Routes[c].path = Handlers(to)[h].path
  /\ MethodMatches(c, Handlers(to)[h].method)
  /\ Routes[c].to = to
  /\ Routes[c].roles = Handlers(to)[h].roles
  /\ Handlers(to)[h].guarded => c \notin {1, 2}

LEMMA AuthMirrors ==
  /\ Mirrors("auth", 1, 1)
  /\ Mirrors("auth", 2, 2)
  /\ Mirrors("auth", 3, 3)
  /\ Mirrors("auth", 4, 4)
  /\ Mirrors("auth", 5, 18)
  /\ Mirrors("auth", 6, 19)
  /\ Mirrors("auth", 7, 20)
BY AuthMethods, AuthPaths, AuthRoles, AuthGuards,
   RouteMethods, RoutePaths, RouteRoles, RouteServices, SMTT(60)
     DEF Mirrors, MethodMatches

LEMMA GameMirrors ==
  /\ Mirrors("game", 1, 10)
  /\ Mirrors("game", 2, 10)
  /\ Mirrors("game", 3, 13)
  /\ Mirrors("game", 4, 11)
  /\ Mirrors("game", 5, 12)
  /\ Mirrors("game", 6, 15)
  /\ Mirrors("game", 7, 14)
  /\ Mirrors("game", 8, 16)
  /\ Mirrors("game", 9, 17)
  /\ Mirrors("game", 10, 5)
  /\ Mirrors("game", 11, 7)
  /\ Mirrors("game", 12, 8)
  /\ Mirrors("game", 13, 9)
<1>1. Mirrors("game", 1, 10) /\ Mirrors("game", 2, 10)
  BY GameMethods, GamePaths, GameRoles, GameGuards,
     RouteMethods, RoutePaths, RouteRoles, RouteServices, SMTT(60)
     DEF Mirrors, MethodMatches
<1>2. Mirrors("game", 3, 13) /\ Mirrors("game", 4, 11) /\ Mirrors("game", 5, 12)
  BY GameMethods, GamePaths, GameRoles, GameGuards,
     RouteMethods, RoutePaths, RouteRoles, RouteServices, SMTT(60)
     DEF Mirrors, MethodMatches
<1>3. Mirrors("game", 6, 15) /\ Mirrors("game", 7, 14)
  BY GameMethods, GamePaths, GameRoles, GameGuards,
     RouteMethods, RoutePaths, RouteRoles, RouteServices, SMTT(60)
     DEF Mirrors, MethodMatches
<1>4. Mirrors("game", 8, 16) /\ Mirrors("game", 9, 17)
  BY GameMethods, GamePaths, GameRoles, GameGuards,
     RouteMethods, RoutePaths, RouteRoles, RouteServices, SMTT(60)
     DEF Mirrors, MethodMatches
<1>5. Mirrors("game", 10, 5) /\ Mirrors("game", 11, 7)
  BY GameMethods, GamePaths, GameRoles, GameGuards,
     RouteMethods, RoutePaths, RouteRoles, RouteServices, SMTT(60)
     DEF Mirrors, MethodMatches
<1>6. Mirrors("game", 12, 8) /\ Mirrors("game", 13, 9)
  BY GameMethods, GamePaths, GameRoles, GameGuards,
     RouteMethods, RoutePaths, RouteRoles, RouteServices, SMTT(60)
     DEF Mirrors, MethodMatches
<1> QED BY <1>1, <1>2, <1>3, <1>4, <1>5, <1>6

\* What every handler declares some route declares too.
LEMMA Counterpart ==
  ASSUME NEW to \in {"auth", "game"}, NEW h \in DOMAIN Handlers(to)
  PROVE  \E c \in 1 .. 20 : c # 6 /\ Mirrors(to, h, c)
<1>1. CASE to = "auth"
  <2>1. h \in 1 .. 7
    BY <1>1, AuthHandlersAsDeclared
  <2>2. h = 1 \/ h = 2 \/ h = 3 \/ h = 4 \/ h = 5 \/ h = 6 \/ h = 7
    BY <2>1
  <2> QED BY <1>1, <2>2, AuthMirrors
<1>2. CASE to = "game"
  <2>1. h \in 1 .. 13
    BY <1>2, GameHandlersAsDeclared
  <2>2. h = 1 \/ h = 2 \/ h = 3 \/ h = 4 \/ h = 5 \/ h = 6 \/ h = 7 \/ h = 8 \/ h = 9 \/
        h = 10 \/ h = 11 \/ h = 12 \/ h = 13
    BY <2>1
  <2> QED BY <1>2, <2>2, GameMirrors
<1> QED BY <1>1, <1>2


-----------------------------------------------------------------------------
(* Matching, segment by segment.                                           *)

\* A segment of a declared path stands for a segment of a request's path.
Stands(declared, segment) ==
  declared = segment \/ (declared \in Parameters /\ segment # EmptySegment)

LEMMA MatchOne ==
  ASSUME NEW a, NEW path \in Seq(STRING),
         MatchPath(<<a>>, path)
  PROVE  /\ Len(path) = 1
         /\ Stands(a, path[1])
<1>1. Len(path) = 1
  BY DEF MatchPath
<1>2. DOMAIN path = 1 .. 1
  BY <1>1
<1>3. \A k \in 1 .. 1 : Stands(<<a>>[k], path[k])
  BY <1>2 DEF MatchPath, Stands
<1> QED BY <1>1, <1>3

LEMMA MatchTwo ==
  ASSUME NEW a, NEW b, NEW path \in Seq(STRING),
         MatchPath(<<a, b>>, path)
  PROVE  /\ Len(path) = 2
         /\ Stands(a, path[1]) /\ Stands(b, path[2])
<1>1. Len(path) = 2
  BY DEF MatchPath
<1>2. DOMAIN path = 1 .. 2
  BY <1>1
<1>3. \A k \in 1 .. 2 : Stands(<<a, b>>[k], path[k])
  BY <1>2 DEF MatchPath, Stands
<1> QED BY <1>1, <1>3

LEMMA MatchThree ==
  ASSUME NEW a, NEW b, NEW c, NEW path \in Seq(STRING),
         MatchPath(<<a, b, c>>, path)
  PROVE  /\ Len(path) = 3
         /\ Stands(a, path[1]) /\ Stands(b, path[2]) /\ Stands(c, path[3])
<1>1. Len(path) = 3
  BY DEF MatchPath
<1>2. DOMAIN path = 1 .. 3
  BY <1>1
<1>3. \A k \in 1 .. 3 : Stands(<<a, b, c>>[k], path[k])
  BY <1>2 DEF MatchPath, Stands
<1> QED BY <1>1, <1>3

LEMMA MatchFour ==
  ASSUME NEW a, NEW b, NEW c, NEW d, NEW path \in Seq(STRING),
         MatchPath(<<a, b, c, d>>, path)
  PROVE  /\ Len(path) = 4
         /\ Stands(a, path[1]) /\ Stands(b, path[2]) /\ Stands(c, path[3])
         /\ Stands(d, path[4])
<1>1. Len(path) = 4
  BY DEF MatchPath
<1>2. DOMAIN path = 1 .. 4
  BY <1>1
<1>3. \A k \in 1 .. 4 : Stands(<<a, b, c, d>>[k], path[k])
  BY <1>2 DEF MatchPath, Stands
<1> QED BY <1>1, <1>3

LEMMA PrefixOne ==
  ASSUME NEW a, NEW path \in Seq(STRING),
         StartsWith(path, <<a>>)
  PROVE  Len(path) >= 1 /\ TextStartsWith(path[1], a)
BY DEF StartsWith

LEMMA PrefixTwo ==
  ASSUME NEW a, NEW b, NEW path \in Seq(STRING),
         StartsWith(path, <<a, b>>)
  PROVE  Len(path) >= 2 /\ path[1] = a /\ TextStartsWith(path[2], b)
BY DEF StartsWith

LEMMA PrefixThree ==
  ASSUME NEW a, NEW b, NEW c, NEW path \in Seq(STRING),
         StartsWith(path, <<a, b, c>>)
  PROVE  Len(path) >= 3 /\ path[1] = a /\ path[2] = b /\ TextStartsWith(path[3], c)
BY DEF StartsWith

LEMMA PrefixFour ==
  ASSUME NEW a, NEW b, NEW c, NEW d, NEW path \in Seq(STRING),
         StartsWith(path, <<a, b, c, d>>)
  PROVE  Len(path) >= 4 /\ path[1] = a /\ path[2] = b /\ path[3] = c
         /\ TextStartsWith(path[4], d)
BY DEF StartsWith

LEMMA BeginsWithFour ==
  ASSUME NEW a, NEW b, NEW c, NEW d, NEW path \in Seq(STRING),
         Len(path) >= 4, path[1] = a, path[2] = b, path[3] = c, TextStartsWith(path[4], d)
  PROVE  StartsWith(path, <<a, b, c, d>>)
<1> DEFINE prefix == <<a, b, c, d>>
<1>1. /\ Len(prefix) = 4
      /\ prefix[1] = a /\ prefix[2] = b /\ prefix[3] = c /\ prefix[4] = d
  OBVIOUS
<1>2. ASSUME NEW k \in 1 .. 3
      PROVE  path[k] = prefix[k]
  <2>1. k = 1 \/ k = 2 \/ k = 3
    OBVIOUS
  <2> QED BY <2>1
<1> HIDE DEF prefix
<1>3. StartsWith(path, prefix)
  BY <1>1, <1>2 DEF StartsWith
<1> QED BY <1>3 DEF prefix

LEMMA NoWord ==
  /\ EmptySegment # "auth" /\ EmptySegment # "register" /\ EmptySegment # "login"
  /\ EmptySegment # "refresh" /\ EmptySegment # "logout" /\ EmptySegment # "users"
  /\ EmptySegment # "roles" /\ EmptySegment # "events" /\ EmptySegment # "active"
  /\ EmptySegment # "event" /\ EmptySegment # "rewards"
  /\ EmptySegment # "event-requests" /\ EmptySegment # "available-events"
  /\ EmptySegment # "eligibility" /\ EmptySegment # "reward-requests"
  /\ EmptySegment # "history" /\ EmptySegment # "all" /\ EmptySegment # "health"
  /\ EmptySegment # ":id" /\ EmptySegment # ":eventId" /\ EmptySegment # ":role"
BY Zenon DEF EmptySegment

\* A word stands for itself, a parameter for all but the empty segment.
LEMMA WhatStands ==
  ASSUME NEW s
  PROVE
    /\ Stands("auth", s) => s = "auth"
    /\ Stands("register", s) => s = "register"
    /\ Stands("login", s) => s = "login"
    /\ Stands("refresh", s) => s = "refresh"
    /\ Stands("logout", s) => s = "logout"
    /\ Stands("users", s) => s = "users"
    /\ Stands("roles", s) => s = "roles"
    /\ Stands("events", s) => s = "events"
    /\ Stands("active", s) => s = "active"
    /\ Stands("event", s) => s = "event"
    /\ Stands("rewards", s) => s = "rewards"
    /\ Stands("event-requests", s) => s = "event-requests"
    /\ Stands("available-events", s) => s = "available-events"
    /\ Stands("eligibility", s) => s = "eligibility"
    /\ Stands("reward-requests", s) => s = "reward-requests"
    /\ Stands("history", s) => s = "history"
    /\ Stands("all", s) => s = "all"
    /\ Stands(":id", s) => s # EmptySegment
    /\ Stands(":eventId", s) => s # EmptySegment
    /\ Stands(":role", s) => s # EmptySegment
BY NoWord, Zenon DEF Stands, Parameters

\* What a text begins with, where a route may end.
Starts(s) ==
  /\ TextStartsWith(s, "active") => s = "active"
  /\ TextStartsWith(s, "all") => s = "all"
  /\ TextStartsWith(s, "available-events") => s = "available-events"
  /\ TextStartsWith(s, "events") => s = "events"
  /\ TextStartsWith(s, "health") => s = "health"
  /\ TextStartsWith(s, "history") => s = "history"
  /\ TextStartsWith(s, "login") => s = "login"
  /\ TextStartsWith(s, "logout") => s = "logout"
  /\ TextStartsWith(s, "refresh") => s = "refresh"
  /\ TextStartsWith(s, "register") => s = "register"
  /\ TextStartsWith(s, "rewards") => s = "rewards"
  /\ TextStartsWith(s, "roles") => s = "roles"
  /\ TextStartsWith(s, "users") => s = "users"
  /\ ~TextStartsWith(s, ":id")

LEMMA WhatStarts == \A s \in Spellings \cup {EmptySegment} : Starts(s)
BY SeparateWords, NoWord DEF Spellings, Words, Parameters, Starts

LEMMA RouteStands ==
  ASSUME NEW path \in Seq(STRING)
  PROVE
    /\ MatchPath(Routes[1].path, path) =>
         Len(path) = 2 /\ Stands("auth", path[1]) /\ Stands("register", path[2])
    /\ MatchPath(Routes[2].path, path) =>
         Len(path) = 2 /\ Stands("auth", path[1]) /\ Stands("login", path[2])
    /\ MatchPath(Routes[3].path, path) =>
         Len(path) = 2 /\ Stands("auth", path[1]) /\ Stands("refresh", path[2])
    /\ MatchPath(Routes[4].path, path) =>
         Len(path) = 2 /\ Stands("auth", path[1]) /\ Stands("logout", path[2])
    /\ MatchPath(Routes[5].path, path) =>
         Len(path) = 2 /\ Stands("event-requests", path[1]) /\
         Stands("available-events", path[2])
    /\ MatchPath(Routes[6].path, path) =>
         Len(path) = 2 /\ Stands("event-requests", path[1]) /\
         Stands("rewards", path[2])
    /\ MatchPath(Routes[7].path, path) =>
         Len(path) = 3 /\ Stands("event-requests", path[1]) /\
         Stands("eligibility", path[2]) /\ Stands(":eventId", path[3])
    /\ MatchPath(Routes[8].path, path) =>
         Len(path) = 3 /\ Stands("event-requests", path[1]) /\
         Stands("reward-requests", path[2]) /\ Stands("history", path[3])
    /\ MatchPath(Routes[9].path, path) =>
         Len(path) = 4 /\ Stands("event-requests", path[1]) /\
         Stands("reward-requests", path[2]) /\ Stands("history", path[3]) /\
         Stands("all", path[4])
    /\ MatchPath(Routes[10].path, path) =>
         Len(path) = 1 /\ Stands("events", path[1])
    /\ MatchPath(Routes[11].path, path) =>
         Len(path) = 2 /\ Stands("events", path[1]) /\ Stands(":id", path[2])
    /\ MatchPath(Routes[12].path, path) =>
         Len(path) = 2 /\ Stands("events", path[1]) /\ Stands(":id", path[2])
    /\ MatchPath(Routes[13].path, path) =>
         Len(path) = 2 /\ Stands("events", path[1]) /\ Stands("active", path[2])
    /\ MatchPath(Routes[14].path, path) =>
         Len(path) = 1 /\ Stands("rewards", path[1])
    /\ MatchPath(Routes[15].path, path) =>
         Len(path) = 1 /\ Stands("rewards", path[1])
    /\ MatchPath(Routes[16].path, path) =>
         Len(path) = 2 /\ Stands("rewards", path[1]) /\ Stands(":id", path[2])
    /\ MatchPath(Routes[17].path, path) =>
         Len(path) = 3 /\ Stands("rewards", path[1]) /\ Stands("event", path[2]) /\
         Stands(":eventId", path[3])
    /\ MatchPath(Routes[18].path, path) =>
         Len(path) = 1 /\ Stands("users", path[1])
    /\ MatchPath(Routes[19].path, path) =>
         Len(path) = 3 /\ Stands("users", path[1]) /\ Stands(":id", path[2]) /\
         Stands("roles", path[3])
    /\ MatchPath(Routes[20].path, path) =>
         Len(path) = 4 /\ Stands("users", path[1]) /\ Stands(":id", path[2]) /\
         Stands("roles", path[3]) /\ Stands(":role", path[4])
BY RoutePaths, MatchOne, MatchTwo, MatchThree, MatchFour, SMTT(30)

\* What is known of a path that a route matches.
Matched(path) ==
  /\ MatchPath(Routes[1].path, path) =>
       Len(path) = 2 /\ path[1] = "auth" /\ path[2] = "register"
  /\ MatchPath(Routes[2].path, path) =>
       Len(path) = 2 /\ path[1] = "auth" /\ path[2] = "login"
  /\ MatchPath(Routes[3].path, path) =>
       Len(path) = 2 /\ path[1] = "auth" /\ path[2] = "refresh"
  /\ MatchPath(Routes[4].path, path) =>
       Len(path) = 2 /\ path[1] = "auth" /\ path[2] = "logout"
  /\ MatchPath(Routes[5].path, path) =>
       Len(path) = 2 /\ path[1] = "event-requests" /\ path[2] = "available-events"
  /\ MatchPath(Routes[6].path, path) =>
       Len(path) = 2 /\ path[1] = "event-requests" /\ path[2] = "rewards"
  /\ MatchPath(Routes[7].path, path) =>
       Len(path) = 3 /\ path[1] = "event-requests" /\ path[2] = "eligibility" /\
       path[3] # EmptySegment
  /\ MatchPath(Routes[8].path, path) =>
       Len(path) = 3 /\ path[1] = "event-requests" /\ path[2] = "reward-requests" /\
       path[3] = "history"
  /\ MatchPath(Routes[9].path, path) =>
       Len(path) = 4 /\ path[1] = "event-requests" /\ path[2] = "reward-requests" /\
       path[3] = "history" /\ path[4] = "all"
  /\ MatchPath(Routes[10].path, path) =>
       Len(path) = 1 /\ path[1] = "events"
  /\ MatchPath(Routes[11].path, path) =>
       Len(path) = 2 /\ path[1] = "events" /\ path[2] # EmptySegment
  /\ MatchPath(Routes[12].path, path) =>
       Len(path) = 2 /\ path[1] = "events" /\ path[2] # EmptySegment
  /\ MatchPath(Routes[13].path, path) =>
       Len(path) = 2 /\ path[1] = "events" /\ path[2] = "active"
  /\ MatchPath(Routes[14].path, path) =>
       Len(path) = 1 /\ path[1] = "rewards"
  /\ MatchPath(Routes[15].path, path) =>
       Len(path) = 1 /\ path[1] = "rewards"
  /\ MatchPath(Routes[16].path, path) =>
       Len(path) = 2 /\ path[1] = "rewards" /\ path[2] # EmptySegment
  /\ MatchPath(Routes[17].path, path) =>
       Len(path) = 3 /\ path[1] = "rewards" /\ path[2] = "event" /\
       path[3] # EmptySegment
  /\ MatchPath(Routes[18].path, path) =>
       Len(path) = 1 /\ path[1] = "users"
  /\ MatchPath(Routes[19].path, path) =>
       Len(path) = 3 /\ path[1] = "users" /\ path[2] # EmptySegment /\
       path[3] = "roles"
  /\ MatchPath(Routes[20].path, path) =>
       Len(path) = 4 /\ path[1] = "users" /\ path[2] # EmptySegment /\
       path[3] = "roles" /\ path[4] # EmptySegment

LEMMA RouteMatches ==
  ASSUME NEW path \in Seq(STRING)
  PROVE  Matched(path)
BY RouteStands, WhatStands, ZenonT(60) DEF Matched

\* What is known of a path that begins with a route.
Begun(path) ==
  /\ StartsWith(path, Routes[1].path) =>
       Len(path) >= 2 /\ path[1] = "auth" /\ TextStartsWith(path[2], "register")
  /\ StartsWith(path, Routes[2].path) =>
       Len(path) >= 2 /\ path[1] = "auth" /\ TextStartsWith(path[2], "login")
  /\ StartsWith(path, Routes[3].path) =>
       Len(path) >= 2 /\ path[1] = "auth" /\ TextStartsWith(path[2], "refresh")
  /\ StartsWith(path, Routes[4].path) =>
       Len(path) >= 2 /\ path[1] = "auth" /\ TextStartsWith(path[2], "logout")
  /\ StartsWith(path, Routes[5].path) =>
       Len(path) >= 2 /\ path[1] = "event-requests" /\
       TextStartsWith(path[2], "available-events")
  /\ StartsWith(path, Routes[6].path) =>
       Len(path) >= 2 /\ path[1] = "event-requests" /\
       TextStartsWith(path[2], "rewards")
  /\ StartsWith(path, Routes[7].path) =>
       Len(path) >= 3 /\ path[1] = "event-requests" /\ path[2] = "eligibility" /\
       TextStartsWith(path[3], ":eventId")
  /\ StartsWith(path, Routes[8].path) =>
       Len(path) >= 3 /\ path[1] = "event-requests" /\ path[2] = "reward-requests" /\
       TextStartsWith(path[3], "history")
  /\ StartsWith(path, Routes[9].path) =>
       Len(path) >= 4 /\ path[1] = "event-requests" /\ path[2] = "reward-requests" /\
       path[3] = "history" /\ TextStartsWith(path[4], "all")
  /\ StartsWith(path, Routes[10].path) =>
       Len(path) >= 1 /\ TextStartsWith(path[1], "events")
  /\ StartsWith(path, Routes[11].path) =>
       Len(path) >= 2 /\ path[1] = "events" /\ TextStartsWith(path[2], ":id")
  /\ StartsWith(path, Routes[12].path) =>
       Len(path) >= 2 /\ path[1] = "events" /\ TextStartsWith(path[2], ":id")
  /\ StartsWith(path, Routes[13].path) =>
       Len(path) >= 2 /\ path[1] = "events" /\ TextStartsWith(path[2], "active")
  /\ StartsWith(path, Routes[14].path) =>
       Len(path) >= 1 /\ TextStartsWith(path[1], "rewards")
  /\ StartsWith(path, Routes[15].path) =>
       Len(path) >= 1 /\ TextStartsWith(path[1], "rewards")
  /\ StartsWith(path, Routes[16].path) =>
       Len(path) >= 2 /\ path[1] = "rewards" /\ TextStartsWith(path[2], ":id")
  /\ StartsWith(path, Routes[17].path) =>
       Len(path) >= 3 /\ path[1] = "rewards" /\ path[2] = "event" /\
       TextStartsWith(path[3], ":eventId")
  /\ StartsWith(path, Routes[18].path) =>
       Len(path) >= 1 /\ TextStartsWith(path[1], "users")
  /\ StartsWith(path, Routes[19].path) =>
       Len(path) >= 3 /\ path[1] = "users" /\ path[2] = ":id" /\
       TextStartsWith(path[3], "roles")
  /\ StartsWith(path, Routes[20].path) =>
       Len(path) >= 4 /\ path[1] = "users" /\ path[2] = ":id" /\ path[3] = "roles" /\
       TextStartsWith(path[4], ":role")

LEMMA RoutePrefixes ==
  ASSUME NEW path \in Seq(STRING)
  PROVE  Begun(path)
BY RoutePaths, PrefixOne, PrefixTwo, PrefixThree, PrefixFour, SMTT(30) DEF Begun

\* A trailing slash is cut off.
LEMMA PlainPath ==
  ASSUME NEW path \in Seq(STRING), Plain(path) # path
  PROVE  /\ Plain(path) \in Seq(STRING)
         /\ Len(path) = Len(Plain(path)) + 1 /\ Len(Plain(path)) > 0
         /\ path[Len(path)] = EmptySegment
         /\ \A k \in 1 .. Len(Plain(path)) : path[k] = Plain(path)[k]
<1> DEFINE n == Len(path) - 1
<1>1. Len(path) > 1
  BY DEF Plain
<1>2. path[Len(path)] = EmptySegment
  BY DEF Plain, Last
<1>3. Plain(path) = SubSeq(path, 1, n)
  BY DEF Plain, Front
<1>4. n \in Nat /\ n < Len(path) /\ n > 0 /\ Len(path) = n + 1
  BY <1>1
<1> HIDE DEF n
<1>5. SubSeq(path, 1, n) \in Seq(STRING) /\ Len(SubSeq(path, 1, n)) = n
      /\ \A k \in 1 .. n : SubSeq(path, 1, n)[k] = path[k]
  BY <1>4
<1> QED BY <1>2, <1>3, <1>4, <1>5

\* A path is another one with a trailing slash, as far as a route may reach.
Slashed(path, plain) ==
  /\ Len(plain) >= 1 => path[1] = plain[1]
  /\ Len(plain) >= 2 => path[2] = plain[2]
  /\ Len(plain) >= 3 => path[3] = plain[3]
  /\ Len(plain) >= 4 => path[4] = plain[4]
  /\ Len(plain) = 1 => Len(path) = 2 /\ path[2] = EmptySegment
  /\ Len(plain) = 2 => Len(path) = 3 /\ path[3] = EmptySegment
  /\ Len(plain) = 3 => Len(path) = 4 /\ path[4] = EmptySegment
  /\ Len(plain) = 4 => Len(path) = 5 /\ path[5] = EmptySegment

LEMMA PlainSegments ==
  ASSUME NEW path \in Seq(STRING), Plain(path) # path
  PROVE  Slashed(path, Plain(path))
<1> DEFINE plain == Plain(path)
<1>1. /\ plain \in Seq(STRING)
      /\ Len(path) = Len(plain) + 1 /\ Len(plain) > 0
      /\ path[Len(path)] = EmptySegment
      /\ \A k \in 1 .. Len(plain) : path[k] = plain[k]
  BY PlainPath
<1> HIDE DEF plain
<1>2. Len(plain) \in Nat
  BY <1>1
<1>3. Slashed(path, plain)
  BY <1>1, <1>2 DEF Slashed
<1> QED BY <1>3 DEF plain

-----------------------------------------------------------------------------
(* Routes that a path may have at the same time.                           *)

\* Two routes for one path are alike: they are one, or the three that match
\* /events/active, or the two of /rewards.
LEMMA Overlap ==
  ASSUME NEW path \in Seq(STRING), NEW c \in 1 .. 20, NEW j \in 1 .. 20,
         MatchPath(Routes[c].path, path), MatchPath(Routes[j].path, path)
  PROVE  \/ j = c
         \/ c \in {11, 12, 13} /\ j \in {11, 12, 13}
         \/ c \in {14, 15} /\ j \in {14, 15}
<1>2. IsRoute(c) /\ IsRoute(j) /\ Matched(path)
  BY EachRoute, RouteMatches
<1>3. c = 1 => j = c
  BY <1>2 DEF IsRoute, Matched
<1>4. c = 2 => j = c
  BY <1>2 DEF IsRoute, Matched
<1>5. c = 3 => j = c
  BY <1>2 DEF IsRoute, Matched
<1>6. c = 4 => j = c
  BY <1>2 DEF IsRoute, Matched
<1>7. c = 5 => j = c
  BY <1>2 DEF IsRoute, Matched
<1>8. c = 6 => j = c
  BY <1>2 DEF IsRoute, Matched
<1>9. c = 7 => j = c
  BY <1>2 DEF IsRoute, Matched
<1>10. c = 8 => j = c
  BY <1>2 DEF IsRoute, Matched
<1>11. c = 9 => j = c
  BY <1>2 DEF IsRoute, Matched
<1>12. c = 10 => j = c
  BY <1>2 DEF IsRoute, Matched
<1>13. c = 11 => j = c \/ j \in {11, 12, 13}
  BY <1>2 DEF IsRoute, Matched
<1>14. c = 12 => j = c \/ j \in {11, 12, 13}
  BY <1>2 DEF IsRoute, Matched
<1>15. c = 13 => j = c \/ j \in {11, 12, 13}
  BY <1>2 DEF IsRoute, Matched
<1>16. c = 14 => j = c \/ j = 15
  BY <1>2 DEF IsRoute, Matched
<1>17. c = 15 => j = c \/ j = 14
  BY <1>2 DEF IsRoute, Matched
<1>18. c = 16 => j = c
  BY <1>2 DEF IsRoute, Matched
<1>19. c = 17 => j = c
  BY <1>2 DEF IsRoute, Matched
<1>20. c = 18 => j = c
  BY <1>2 DEF IsRoute, Matched
<1>21. c = 19 => j = c
  BY <1>2 DEF IsRoute, Matched
<1>22. c = 20 => j = c
  BY <1>2 DEF IsRoute, Matched
<1> QED
  BY <1>2, <1>3, <1>4, <1>5, <1>6, <1>7, <1>8, <1>9, <1>10, <1>11, <1>12, <1>13, <1>14,
     <1>15, <1>16, <1>17, <1>18, <1>19, <1>20, <1>21, <1>22 DEF IsRoute

\* No route matches a path with a trailing slash.
LEMMA NoMatchWithSlash ==
  ASSUME NEW path \in Seq(STRING), path[Len(path)] = EmptySegment, NEW j \in 1 .. 20
  PROVE  ~MatchPath(Routes[j].path, path)
<1>1. IsRoute(j) /\ Matched(path)
  BY EachRoute, RouteMatches
<1> QED BY <1>1, NoWord DEF IsRoute, Matched

\* A route that is the beginning of a path with a trailing slash, when the route of a
\* handler that takes the method matches the path without the slash.
LEMMA OverlapWithSlash ==
  ASSUME NEW path \in Seq(STRING), Plain(path) # path,
         NEW method, NEW declared, Takes(declared, method),
         NEW c \in 1 .. 20, NEW j \in 1 .. 20, c # 6,
         MatchPath(Routes[c].path, Plain(path)), MethodMatches(c, declared),
         StartsWith(path, Routes[j].path), MethodMatches(j, method)
  PROVE  \/ j = c
         \/ c \in {11, 13, 14, 16, 17} /\ j \notin {1, 2}
         \/ c = 9 /\ j = 8
<1> DEFINE plain == Plain(path)
<1>1. Methods(method) /\ Methods(declared)
  BY WhatMethods
<1>2. /\ plain \in Seq(STRING)
      /\ Len(path) = Len(plain) + 1 /\ Len(plain) > 0
      /\ path[Len(path)] = EmptySegment
      /\ \A k \in 1 .. Len(plain) : path[k] = plain[k]
  BY PlainPath
<1> HIDE DEF plain
<1>3. MatchPath(Routes[c].path, plain) /\ Matched(plain)
  BY <1>2, RouteMatches DEF plain
<1>4. IsRoute(c) /\ IsRoute(j) /\ Begun(path)
  BY EachRoute, RoutePrefixes
<1>5. /\ ~(c = 15 /\ j = 14) /\ ~(c = 19 /\ j = 18) /\ ~(c = 19 /\ j = 20)
      /\ ~(c = 20 /\ j = 18) /\ ~(c = 20 /\ j = 19)
      /\ ~(c = 12 /\ j = 10) /\ ~(c = 12 /\ j = 11) /\ ~(c = 12 /\ j = 13)
  BY <1>1 DEF Methods, Takes
<1>6. Slashed(path, plain)
  BY PlainSegments DEF plain
<1>7. CASE c = 1
  <2>1. Len(plain) = 2 /\ plain[1] = "auth" /\ plain[2] = "register"
    BY <1>3, <1>7 DEF Matched
  <2>2. Len(path) = 3 /\ path[1] = "auth" /\ path[2] = "register" /\
        path[3] = EmptySegment
    BY <1>6, <2>1 DEF Slashed
  <2>3. Starts("auth") /\ Starts("register") /\ Starts(EmptySegment)
    BY WhatStarts DEF Spellings, Words
  <2> QED BY <1>4, <1>5, <1>7, <2>2, <2>3, NoWord, SMTT(30)
     DEF IsRoute, Begun, Starts
<1>8. CASE c = 2
  <2>1. Len(plain) = 2 /\ plain[1] = "auth" /\ plain[2] = "login"
    BY <1>3, <1>8 DEF Matched
  <2>2. Len(path) = 3 /\ path[1] = "auth" /\ path[2] = "login" /\ path[3] = EmptySegment
    BY <1>6, <2>1 DEF Slashed
  <2>3. Starts("auth") /\ Starts("login") /\ Starts(EmptySegment)
    BY WhatStarts DEF Spellings, Words
  <2> QED BY <1>4, <1>5, <1>8, <2>2, <2>3, NoWord, SMTT(30)
     DEF IsRoute, Begun, Starts
<1>9. CASE c = 3
  <2>1. Len(plain) = 2 /\ plain[1] = "auth" /\ plain[2] = "refresh"
    BY <1>3, <1>9 DEF Matched
  <2>2. Len(path) = 3 /\ path[1] = "auth" /\ path[2] = "refresh" /\
        path[3] = EmptySegment
    BY <1>6, <2>1 DEF Slashed
  <2>3. Starts("auth") /\ Starts("refresh") /\ Starts(EmptySegment)
    BY WhatStarts DEF Spellings, Words
  <2> QED BY <1>4, <1>5, <1>9, <2>2, <2>3, NoWord, SMTT(30)
     DEF IsRoute, Begun, Starts
<1>10. CASE c = 4
  <2>1. Len(plain) = 2 /\ plain[1] = "auth" /\ plain[2] = "logout"
    BY <1>3, <1>10 DEF Matched
  <2>2. Len(path) = 3 /\ path[1] = "auth" /\ path[2] = "logout" /\
        path[3] = EmptySegment
    BY <1>6, <2>1 DEF Slashed
  <2>3. Starts("auth") /\ Starts("logout") /\ Starts(EmptySegment)
    BY WhatStarts DEF Spellings, Words
  <2> QED BY <1>4, <1>5, <1>10, <2>2, <2>3, NoWord, SMTT(30)
     DEF IsRoute, Begun, Starts
<1>11. CASE c = 5
  <2>1. Len(plain) = 2 /\ plain[1] = "event-requests" /\ plain[2] = "available-events"
    BY <1>3, <1>11 DEF Matched
  <2>2. Len(path) = 3 /\ path[1] = "event-requests" /\ path[2] = "available-events" /\
        path[3] = EmptySegment
    BY <1>6, <2>1 DEF Slashed
  <2>3. Starts("event-requests") /\ Starts("available-events") /\ Starts(EmptySegment)
    BY WhatStarts DEF Spellings, Words
  <2> QED BY <1>4, <1>5, <1>11, <2>2, <2>3, NoWord, SMTT(30)
     DEF IsRoute, Begun, Starts
<1>12. CASE c = 7
  <2>1. Len(plain) = 3 /\ plain[1] = "event-requests" /\ plain[2] = "eligibility"
    BY <1>3, <1>12 DEF Matched
  <2>2. Len(path) = 4 /\ path[1] = "event-requests" /\ path[2] = "eligibility" /\
        path[4] = EmptySegment
    BY <1>6, <2>1 DEF Slashed
  <2>3. Starts("event-requests") /\ Starts("eligibility") /\ Starts(EmptySegment)
    BY WhatStarts DEF Spellings, Words
  <2> QED BY <1>4, <1>5, <1>12, <2>2, <2>3, NoWord, SMTT(30)
     DEF IsRoute, Begun, Starts
<1>13. CASE c = 8
  <2>1. Len(plain) = 3 /\ plain[1] = "event-requests" /\ plain[2] = "reward-requests" /\
        plain[3] = "history"
    BY <1>3, <1>13 DEF Matched
  <2>2. Len(path) = 4 /\ path[1] = "event-requests" /\ path[2] = "reward-requests" /\
        path[3] = "history" /\ path[4] = EmptySegment
    BY <1>6, <2>1 DEF Slashed
  <2>3. Starts("event-requests") /\ Starts("reward-requests") /\ Starts("history") /\
        Starts(EmptySegment)
    BY WhatStarts DEF Spellings, Words
  <2> QED BY <1>4, <1>5, <1>13, <2>2, <2>3, NoWord, SMTT(30)
     DEF IsRoute, Begun, Starts
<1>14. CASE c = 9
  <2>1. Len(plain) = 4 /\ plain[1] = "event-requests" /\ plain[2] = "reward-requests" /\
        plain[3] = "history" /\ plain[4] = "all"
    BY <1>3, <1>14 DEF Matched
  <2>2. Len(path) = 5 /\ path[1] = "event-requests" /\ path[2] = "reward-requests" /\
        path[3] = "history" /\ path[4] = "all" /\ path[5] = EmptySegment
    BY <1>6, <2>1 DEF Slashed
  <2>3. Starts("event-requests") /\ Starts("reward-requests") /\ Starts("history") /\
        Starts("all") /\ Starts(EmptySegment)
    BY WhatStarts DEF Spellings, Words
  <2> QED BY <1>4, <1>5, <1>14, <2>2, <2>3, NoWord, SMTT(30)
     DEF IsRoute, Begun, Starts
<1>15. CASE c = 10
  <2>1. Len(plain) = 1 /\ plain[1] = "events"
    BY <1>3, <1>15 DEF Matched
  <2>2. Len(path) = 2 /\ path[1] = "events" /\ path[2] = EmptySegment
    BY <1>6, <2>1 DEF Slashed
  <2>3. Starts("events") /\ Starts(EmptySegment)
    BY WhatStarts DEF Spellings, Words
  <2> QED BY <1>4, <1>5, <1>15, <2>2, <2>3, NoWord, SMTT(30)
     DEF IsRoute, Begun, Starts
<1>16. CASE c = 12
  <2>1. Len(plain) = 2 /\ plain[1] = "events"
    BY <1>3, <1>16 DEF Matched
  <2>2. Len(path) = 3 /\ path[1] = "events" /\ path[3] = EmptySegment
    BY <1>6, <2>1 DEF Slashed
  <2>3. Starts("events") /\ Starts(EmptySegment)
    BY WhatStarts DEF Spellings, Words
  <2> QED BY <1>4, <1>5, <1>16, <2>2, <2>3, NoWord, SMTT(30)
     DEF IsRoute, Begun, Starts
<1>17. CASE c = 15
  <2>1. Len(plain) = 1 /\ plain[1] = "rewards"
    BY <1>3, <1>17 DEF Matched
  <2>2. Len(path) = 2 /\ path[1] = "rewards" /\ path[2] = EmptySegment
    BY <1>6, <2>1 DEF Slashed
  <2>3. Starts("rewards") /\ Starts(EmptySegment)
    BY WhatStarts DEF Spellings, Words
  <2> QED BY <1>4, <1>5, <1>17, <2>2, <2>3, NoWord, SMTT(30)
     DEF IsRoute, Begun, Starts
<1>18. CASE c = 18
  <2>1. Len(plain) = 1 /\ plain[1] = "users"
    BY <1>3, <1>18 DEF Matched
  <2>2. Len(path) = 2 /\ path[1] = "users" /\ path[2] = EmptySegment
    BY <1>6, <2>1 DEF Slashed
  <2>3. Starts("users") /\ Starts(EmptySegment)
    BY WhatStarts DEF Spellings, Words
  <2> QED BY <1>4, <1>5, <1>18, <2>2, <2>3, NoWord, SMTT(30)
     DEF IsRoute, Begun, Starts
<1>19. CASE c = 19
  <2>1. Len(plain) = 3 /\ plain[1] = "users" /\ plain[3] = "roles"
    BY <1>3, <1>19 DEF Matched
  <2>2. Len(path) = 4 /\ path[1] = "users" /\ path[3] = "roles" /\
        path[4] = EmptySegment
    BY <1>6, <2>1 DEF Slashed
  <2>3. Starts("users") /\ Starts("roles") /\ Starts(EmptySegment)
    BY WhatStarts DEF Spellings, Words
  <2> QED BY <1>4, <1>5, <1>19, <2>2, <2>3, NoWord, SMTT(30)
     DEF IsRoute, Begun, Starts
<1>20. CASE c = 20
  <2>1. Len(plain) = 4 /\ plain[1] = "users" /\ plain[3] = "roles"
    BY <1>3, <1>20 DEF Matched
  <2>2. Len(path) = 5 /\ path[1] = "users" /\ path[3] = "roles" /\
        path[5] = EmptySegment
    BY <1>6, <2>1 DEF Slashed
  <2>3. Starts("users") /\ Starts("roles") /\ Starts(EmptySegment)
    BY WhatStarts DEF Spellings, Words
  <2> QED BY <1>4, <1>5, <1>20, <2>2, <2>3, NoWord, SMTT(30)
     DEF IsRoute, Begun, Starts
<1>21. ASSUME c \in {11, 13, 14, 16, 17}
       PROVE  j \notin {1, 2}
  <2>1. c = 11 => Len(plain) = 2 /\ plain[1] = "events"
    BY <1>3 DEF Matched
  <2>2. c = 13 => Len(plain) = 2 /\ plain[1] = "events"
    BY <1>3 DEF Matched
  <2>3. c = 14 => Len(plain) = 1 /\ plain[1] = "rewards"
    BY <1>3 DEF Matched
  <2>4. c = 16 => Len(plain) = 2 /\ plain[1] = "rewards"
    BY <1>3 DEF Matched
  <2>5. c = 17 => Len(plain) = 3 /\ plain[1] = "rewards"
    BY <1>3 DEF Matched
  <2>6. path[1] = "events" \/ path[1] = "rewards"
    BY <1>6, <1>21, <2>1, <2>2, <2>3, <2>4, <2>5 DEF Slashed
  <2> QED BY <1>4, <2>6 DEF Begun
<1> QED
  BY <1>4, <1>21, <1>7, <1>8, <1>9, <1>10, <1>11, <1>12, <1>13, <1>14, <1>15, <1>16,
     <1>17, <1>18, <1>19, <1>20 DEF IsRoute

-----------------------------------------------------------------------------
(* The route the gateway picks.                                            *)

LEMMA RouteLengths ==
  \A i \in 1 .. 20 : TextLength[i] \in 0 .. 43
<1>1. ASSUME NEW i \in 1 .. 20 PROVE TextLength[i] \in 0 .. 43
  <2>1. IsRoute(i) BY EachRoute
  <2> QED BY <2>1, TextLengths DEF IsRoute
<1> QED BY <1>1

\* A set of natural numbers that is not empty has a least one.
LEMMA LeastNumber ==
  ASSUME NEW numbers \in SUBSET Nat, numbers # {}
  PROVE  \E m \in numbers : \A n \in numbers : m <= n
<1> DEFINE Less == OpToRel(<, Nat)
<1>1. IsWellFoundedOn(Less, Nat)
  BY NatLessThanWellFounded, Zenon
<1>2. \A m, n \in Nat : <<m, n>> \in Less <=> m < n
  BY DEF OpToRel
<1> HIDE DEF Less
<1>3. PICK m \in numbers : \A n \in numbers : ~(<<n, m>> \in Less)
  BY <1>1, WFMin
<1>4. ASSUME NEW n \in numbers
      PROVE  m <= n
  <2>1. m \in Nat /\ n \in Nat
    OBVIOUS
  <2>2. ~(n < m)
    BY <1>2, <1>3, <2>1
  <2> QED BY <2>1, <2>2
<1> QED BY <1>4

LEMMA KeyOrder ==
  ASSUME NEW a \in 0 .. 43, NEW b \in 0 .. 43, NEW i \in 1 .. 20, NEW j \in 1 .. 20,
         20 * (43 - a) + i <= 20 * (43 - b) + j
  PROVE  a > b \/ (a = b /\ i <= j)
OBVIOUS

\* The first of some routes comes before the others.
LEMMA FirstIsBefore ==
  ASSUME NEW matches \in SUBSET (1 .. 20), matches # {}
  PROVE  First(matches) \in matches /\ \A j \in matches : Before(First(matches), j)
<1> DEFINE Key(i) == 20 * (43 - TextLength[i]) + i
           Keys == {Key(i) : i \in matches}
<1>1. ASSUME NEW i \in matches
      PROVE  i \in 1 .. 20 /\ TextLength[i] \in 0 .. 43
  BY RouteLengths
<1>2. Keys \in SUBSET Nat /\ Keys # {}
  <2>1. ASSUME NEW i \in matches
        PROVE  Key(i) \in Nat
    BY <1>1
  <2> QED BY <2>1
<1>3. \E key \in Keys : \A other \in Keys : key <= other
  <2> HIDE DEF Keys
  <2> QED BY <1>2, LeastNumber
<1>4. PICK i \in matches : \A j \in matches : Key(i) <= Key(j)
  BY <1>3
<1>5. ASSUME NEW j \in matches
      PROVE  Before(i, j)
  <2>1. Key(i) <= Key(j)
    BY <1>4
  <2>2. /\ i \in 1 .. 20 /\ TextLength[i] \in 0 .. 43
        /\ j \in 1 .. 20 /\ TextLength[j] \in 0 .. 43
    BY <1>1
  <2> QED BY <2>1, <2>2, KeyOrder DEF Before
<1> QED BY <1>5 DEF First

\* It is one that matches, else the first of those the path begins with, else the
\* first for another method.
Picked(path, method, j) ==
  /\ RouteFor(path, method) = Routes[j]
  /\ \/ j \in Pattern(path, method)
     \/ /\ Pattern(path, method) = {}
        /\ j \in Prefix(path, method)
        /\ \A i \in Prefix(path, method) : Before(j, i)
     \/ /\ Pattern(path, method) = {} /\ Prefix(path, method) = {}
        /\ j \in WrongMethod(path)
        /\ \A i \in WrongMethod(path) : Before(j, i)

LEMMA SomeRouteIsPicked ==
  ASSUME NEW path \in Seq(STRING), NEW method, HasRoute(path, method)
  PROVE  \E j \in 1 .. 20 : Picked(path, method, j)
<1> DEFINE exact == Exact(path, method)
           pattern == Pattern(path, method)
           prefix == Prefix(path, method)
           wrong == WrongMethod(path)
           attempts == Attempts(path, method)
           Succeeds(k) ==
             attempts[k] # {} /\ \A i \in 1 .. k - 1 : attempts[i] = {}
<1>1. attempts = <<exact, pattern, prefix, wrong>>
  BY DEF Attempts
<1>2. DOMAIN Routes = 1 .. 20
  BY RouteTable
<1>3. exact \subseteq pattern
  BY DEF Exact, Pattern, MatchPath
<1>4. /\ exact \in SUBSET (1 .. 20) /\ pattern \in SUBSET (1 .. 20)
      /\ prefix \in SUBSET (1 .. 20) /\ wrong \in SUBSET (1 .. 20)
  BY <1>2 DEF Exact, Pattern, Prefix, WrongMethod
<1>5. exact # {} \/ pattern # {} \/ prefix # {} \/ wrong # {}
  <2>1. \E k \in DOMAIN attempts : attempts[k] # {}
    BY DEF HasRoute
  <2> HIDE DEF exact, pattern, prefix, wrong, attempts
  <2> QED BY <1>1, <2>1
<1>6. RouteFor(path, method) =
        Routes[First(attempts[CHOOSE k \in DOMAIN attempts : Succeeds(k)])]
  BY DEF RouteFor
<1> HIDE DEF exact, pattern, prefix, wrong, attempts
<1>7. \E k \in DOMAIN attempts : Succeeds(k)
  <2>1. exact # {} => Succeeds(1)
    BY <1>1
  <2>2. exact = {} /\ pattern # {} => Succeeds(2)
    BY <1>1
  <2>3. exact = {} /\ pattern = {} /\ prefix # {} => Succeeds(3)
    BY <1>1
  <2>4. exact = {} /\ pattern = {} /\ prefix = {} /\ wrong # {} => Succeeds(4)
    BY <1>1
  <2>5. DOMAIN attempts = 1 .. 4
    BY <1>1
  <2> HIDE DEF Succeeds
  <2> QED BY <1>5, <2>1, <2>2, <2>3, <2>4, <2>5
<1>8. PICK k \in 1 .. 4 : /\ Succeeds(k)
                         /\ RouteFor(path, method) = Routes[First(attempts[k])]
  <2>1. DOMAIN attempts = 1 .. 4
    BY <1>1
  <2> HIDE DEF Succeeds
  <2> QED BY <1>6, <1>7, <2>1
<1>9. attempts[k] \in SUBSET (1 .. 20) /\ attempts[k] # {}
  <2>1. /\ attempts[1] = exact /\ attempts[2] = pattern
        /\ attempts[3] = prefix /\ attempts[4] = wrong
    BY <1>1
  <2>2. k = 1 \/ k = 2 \/ k = 3 \/ k = 4
    BY <1>8
  <2> QED BY <1>4, <1>8, <2>1, <2>2
<1>10. PICK j \in 1 .. 20 : /\ RouteFor(path, method) = Routes[j]
                           /\ j \in attempts[k] /\ \A i \in attempts[k] : Before(j, i)
  BY <1>8, <1>9, FirstIsBefore
<1>11. \/ j \in pattern
       \/ pattern = {} /\ j \in prefix /\ \A i \in prefix : Before(j, i)
       \/ pattern = {} /\ prefix = {} /\ j \in wrong /\ \A i \in wrong : Before(j, i)
  <2>1. k = 1 \/ k = 2 \/ k = 3 \/ k = 4
    BY <1>8
  <2>2. CASE k = 1
    BY <1>1, <1>3, <1>10, <2>2
  <2>3. CASE k = 2
    BY <1>1, <1>10, <2>3
  <2>4. CASE k = 3
    <3>1. pattern = {}
      BY <1>1, <1>8, <2>4
    <3> QED BY <1>1, <1>10, <2>4, <3>1
  <2>5. CASE k = 4
    <3>1. pattern = {} /\ prefix = {}
      BY <1>1, <1>8, <2>5
    <3> QED BY <1>1, <1>10, <2>5, <3>1
  <2> QED BY <2>1, <2>2, <2>3, <2>4, <2>5
<1> QED BY <1>10, <1>11 DEF Picked, pattern, prefix, wrong

-----------------------------------------------------------------------------
(* The route of a path that some handler serves.                           *)

Services == {"auth", "game"}

\* On a path spelled as declared a handler matches no more than the gateway would.
LEMMA SpelledMatch ==
  ASSUME NEW path \in Seq(STRING), Spelled(path), NEW pattern, IsDeclared(pattern),
         HandlerMatches(pattern, path)
  PROVE  MatchPath(pattern, path)
<1>1. Len(pattern) = Len(path) /\ DOMAIN path = 1 .. Len(path)
  BY DEF HandlerMatches
<1>2. ASSUME NEW k \in DOMAIN path
      PROVE  pattern[k] = path[k] \/ (pattern[k] \in Parameters /\ path[k] # EmptySegment)
  <2>1. CASE pattern[k] \in Parameters
    BY <2>1 DEF HandlerMatches
  <2>2. CASE pattern[k] \notin Parameters
    <3>1. Lower(path[k]) = pattern[k]
      BY <2>2 DEF HandlerMatches
    <3>2. pattern[k] \in Spellings
      BY <1>1, <2>2 DEF IsDeclared
    <3> QED BY <3>1, <3>2 DEF Spelled
  <2> QED BY <2>1, <2>2
<1> QED BY <1>1, <1>2 DEF MatchPath

LEMMA SpelledPlain ==
  ASSUME NEW path \in Seq(STRING), Spelled(path)
  PROVE  Spelled(Plain(path)) /\ Plain(path) \in Seq(STRING)
<1>1. CASE Plain(path) = path
  BY <1>1
<1>2. CASE Plain(path) # path
  <2> DEFINE plain == Plain(path)
  <2>1. /\ plain \in Seq(STRING) /\ Len(path) = Len(plain) + 1
        /\ \A k \in 1 .. Len(plain) : path[k] = plain[k]
    BY <1>2, PlainPath
  <2> HIDE DEF plain
  <2>2. ASSUME NEW k \in DOMAIN plain
        PROVE  k \in DOMAIN path /\ path[k] = plain[k]
    BY <2>1
  <2>3. Spelled(plain)
    BY <2>2 DEF Spelled
  <2> QED BY <2>1, <2>3 DEF plain
<1> QED BY <1>1, <1>2

\* The route declared like the handler matches what the handler matches.
LEMMA RouteOfHandler ==
  ASSUME NEW path \in Seq(STRING), Spelled(path), NEW method, NEW to \in Services,
         NEW h \in Declares(to, path, method)
  PROVE  /\ Takes(Handlers(to)[h].method, method)
         /\ \E c \in 1 .. 20 :
              /\ c # 6 /\ Mirrors(to, h, c)
              /\ MatchPath(Routes[c].path, Plain(path))
              /\ MethodMatches(c, Handlers(to)[h].method)
<1>1. /\ h \in DOMAIN Handlers(to) /\ Takes(Handlers(to)[h].method, method)
      /\ HandlerMatches(Handlers(to)[h].path, Plain(path))
  BY DEF Declares
<1>2. PICK c \in 1 .. 20 : c # 6 /\ Mirrors(to, h, c)
  BY <1>1, Counterpart DEF Services
<1>3. MethodMatches(c, Handlers(to)[h].method) /\ Routes[c].path = Handlers(to)[h].path
  BY <1>2 DEF Mirrors
<1>4. HandlerMatches(Routes[c].path, Plain(path))
  BY <1>1, <1>3
<1>5. MatchPath(Routes[c].path, Plain(path))
  <2> DEFINE pattern == Routes[c].path
             plain == Plain(path)
  <2>1. IsDeclared(pattern)
    BY RouteSegments
  <2>2. Spelled(plain) /\ plain \in Seq(STRING) /\ HandlerMatches(pattern, plain)
    BY <1>4, SpelledPlain
  <2> HIDE DEF pattern, plain
  <2>3. MatchPath(pattern, plain)
    BY <2>1, <2>2, SpelledMatch
  <2> QED BY <2>3 DEF pattern, plain
<1> QED BY <1>1, <1>2, <1>3, <1>5

LEMMA PatternMatches ==
  ASSUME NEW path, NEW method, NEW j
  PROVE  j \in Pattern(path, method) <=>
           j \in 1 .. 20 /\ MatchPath(Routes[j].path, path) /\ MethodMatches(j, method)
BY RouteTable DEF Pattern

\* Route j is the one picked; it asks for all that the handler's guards ask for.
RouteSuffices(path, method, to, h, j) ==
  /\ RouteFor(path, method) = Routes[j]
  /\ Handlers(to)[h].roles # {} => Routes[j].roles = Handlers(to)[h].roles
  /\ Handlers(to)[h].guarded => j \notin {1, 2}

\* It asks for no role more, and leads to the service of the handler.
RouteAgrees(path, method, to, h, j) ==
  /\ RouteSuffices(path, method, to, h, j)
  /\ MatchPath(Routes[j].path, path)
  /\ Routes[j].to = to
  /\ Routes[j].roles = Handlers(to)[h].roles

\* A route for GET that a HEAD request is matched with: one for every method.
LEMMA HeadRoutes ==
  ASSUME NEW j \in 1 .. 20
  PROVE  /\ MethodMatches(j, "HEAD") => j \in 5 .. 9
         /\ MethodMatches(j, "GET") => j \in 5 .. 9 \cup {10, 11, 13, 14, 16, 17, 18}
BY EachRoute, RouteMethods DEF IsRoute, MethodMatches

\* A path that is matched by a route for GET only begins with no route for every method.
LEMMA NoPrefixForHead ==
  ASSUME NEW path \in Seq(STRING), NEW c \in {10, 11, 13, 14, 16, 17, 18},
         MatchPath(Routes[c].path, path), NEW j \in 5 .. 9
  PROVE  ~StartsWith(path, Routes[j].path)
<1>1. Matched(path) /\ Begun(path)
  BY RouteMatches, RoutePrefixes
<1>2. path[1] = "events" \/ path[1] = "rewards" \/ path[1] = "users"
  BY <1>1 DEF Matched
<1>3. j = 5 \/ j = 6 \/ j = 7 \/ j = 8 \/ j = 9
  OBVIOUS
<1>4. StartsWith(path, Routes[j].path) => path[1] = "event-requests"
  BY <1>1, <1>3 DEF Begun
<1> QED BY <1>2, <1>4

\* Without a trailing slash a path that a handler serves has a route to the service of
\* that handler, and whoever has the roles for the one has those for the other.
LEMMA RouteOfPlainPath ==
  ASSUME NEW path \in Seq(STRING), Spelled(path), NEW method, Plain(path) = path,
         NEW to \in Services, NEW h \in Declares(to, path, method)
  PROVE  /\ HasRoute(path, method)
         /\ \E j \in 1 .. 20 : RouteAgrees(path, method, to, h, j)
<1> DEFINE declared == Handlers(to)[h].method
<1>1. Takes(declared, method)
  BY RouteOfHandler
<1>2. PICK c \in 1 .. 20 :
        /\ c # 6 /\ Mirrors(to, h, c)
        /\ MatchPath(Routes[c].path, path) /\ MethodMatches(c, declared)
  BY RouteOfHandler
<1> HIDE DEF declared
<1>3. HasRoute(path, method)
  <2> DEFINE attempts == Attempts(path, method)
  <2>1. DOMAIN attempts = 1 .. 4 /\ attempts[4] = WrongMethod(path)
    BY DEF Attempts
  <2>2. c \in WrongMethod(path)
    BY <1>2, RouteTable DEF WrongMethod
  <2> QED BY <2>1, <2>2 DEF HasRoute
<1>4. PICK j \in 1 .. 20 : Picked(path, method, j)
  BY <1>3, SomeRouteIsPicked
<1>5. /\ RouteFor(path, method) = Routes[j] /\ MatchPath(Routes[j].path, path)
      /\ \/ MethodMatches(j, method)
         \/ /\ declared = "GET"
            /\ \A i \in WrongMethod(path) : Before(j, i)
  <2>1. CASE j \in Pattern(path, method)
    BY <1>4, <2>1, PatternMatches DEF Picked
  <2>2. CASE j \notin Pattern(path, method)
    <3>1. Pattern(path, method) = {}
      BY <1>4, <2>2 DEF Picked
    <3>2. ~MethodMatches(c, method)
      BY <1>2, <3>1, PatternMatches
    <3>3. method = "HEAD" /\ declared = "GET"
      BY <1>1, <1>2, <3>2 DEF Takes
    <3>4. c \in {10, 11, 13, 14, 16, 17, 18}
      <4>1. c \in 5 .. 9 => MethodMatches(c, method)
        BY RouteMethods DEF MethodMatches
      <4> QED BY <1>2, <3>2, <3>3, <4>1, HeadRoutes
    <3>5. j \notin Prefix(path, method)
      <4>1. j \in Prefix(path, method) =>
              StartsWith(path, Routes[j].path) /\ MethodMatches(j, method)
        BY DEF Prefix
      <4> QED BY <1>2, <3>3, <3>4, <4>1, HeadRoutes, NoPrefixForHead
    <3>6. j \in WrongMethod(path) /\ \A i \in WrongMethod(path) : Before(j, i)
      BY <1>4, <2>2, <3>5 DEF Picked
    <3>7. MatchPath(Routes[j].path, path)
      BY <3>6 DEF WrongMethod
    <3> QED BY <1>4, <3>3, <3>6, <3>7 DEF Picked
  <2> QED BY <2>1, <2>2
<1>6. \/ j = c
      \/ c \in {11, 12, 13} /\ j \in {11, 12, 13}
      \/ c \in {14, 15} /\ j \in {14, 15}
  BY <1>2, <1>5, Overlap
<1>7. j = c \/ (c \in {11, 13} /\ j \in {11, 13})
  <2>1. Methods(method) /\ Methods(declared)
    BY WhatMethods
  <2>2. CASE MethodMatches(j, method)
    BY <1>1, <1>2, <1>6, <2>1, <2>2 DEF Methods, Takes
  <2>3. CASE declared = "GET" /\ \A i \in WrongMethod(path) : Before(j, i)
    <3>1. c # 12 /\ c # 15
      BY <1>2, <2>1, <2>3 DEF Methods
    \* Of two routes with one path the one declared first is picked.
    <3>2. j # 12
      <4> SUFFICES ASSUME j = 12 PROVE FALSE
        OBVIOUS
      <4>1. 11 \in WrongMethod(path)
        <5>1. Routes[11].path = Routes[12].path
          BY RoutePaths
        <5>2. DOMAIN Routes = 1 .. 20
          BY RouteTable
        <5> QED BY <1>5, <5>1, <5>2 DEF WrongMethod
      <4>2. Before(12, 11)
        BY <2>3, <4>1
      <4> QED BY <4>2, TextLengths DEF Before
    <3>3. j # 15
      <4> SUFFICES ASSUME j = 15 PROVE FALSE
        OBVIOUS
      <4>1. 14 \in WrongMethod(path)
        <5>1. Routes[14].path = Routes[15].path
          BY RoutePaths
        <5>2. DOMAIN Routes = 1 .. 20
          BY RouteTable
        <5> QED BY <1>5, <5>1, <5>2 DEF WrongMethod
      <4>2. Before(15, 14)
        BY <2>3, <4>1
      <4> QED BY <4>2, TextLengths DEF Before
    <3> QED BY <1>6, <3>1, <3>2, <3>3
  <2> QED BY <1>5, <2>2, <2>3
<1>8. /\ Routes[j].to = Routes[c].to /\ Routes[j].roles = Routes[c].roles
      /\ c \notin {1, 2} => j \notin {1, 2}
  <2>1. Routes[11].to = Routes[13].to /\ Routes[11].roles = Routes[13].roles
    BY RouteServices, RouteRoles
  <2> QED BY <1>7, <2>1
<1>9. RouteAgrees(path, method, to, h, j)
  BY <1>2, <1>5, <1>8 DEF Mirrors, RouteAgrees, RouteSuffices
<1> QED BY <1>3, <1>9

\* With a trailing slash it may have no route, or one that asks for more.
LEMMA RouteOfSlashedPath ==
  ASSUME NEW path \in Seq(STRING), Spelled(path), NEW method, Plain(path) # path,
         HasRoute(path, method), NEW to \in Services, NEW h \in Declares(to, path, method)
  PROVE  \E j \in 1 .. 20 : RouteSuffices(path, method, to, h, j)
<1> DEFINE declared == Handlers(to)[h].method
<1>1. PICK c \in 1 .. 20 :
        /\ c # 6 /\ Mirrors(to, h, c)
        /\ MatchPath(Routes[c].path, Plain(path)) /\ MethodMatches(c, declared)
  BY RouteOfHandler
<1>0. Takes(declared, method)
  BY RouteOfHandler
<1> HIDE DEF declared
<1>2. PICK j \in 1 .. 20 : Picked(path, method, j)
  BY SomeRouteIsPicked
<1>3. \A i \in 1 .. 20 : ~MatchPath(Routes[i].path, path)
  BY PlainPath, NoMatchWithSlash
<1>4. /\ RouteFor(path, method) = Routes[j]
      /\ j \in Prefix(path, method) /\ \A i \in Prefix(path, method) : Before(j, i)
  <2>1. Pattern(path, method) = {} /\ WrongMethod(path) = {}
    BY <1>3, RouteTable DEF Pattern, WrongMethod
  <2> QED BY <1>2, <2>1 DEF Picked
<1>5. StartsWith(path, Routes[j].path) /\ MethodMatches(j, method)
  BY <1>4 DEF Prefix
<1>6. \/ j = c
      \/ c \in {11, 13, 14, 16, 17} /\ j \notin {1, 2}
      \/ c = 9 /\ j = 8
  BY <1>0, <1>1, <1>5, OverlapWithSlash
<1>7. ~(c = 9 /\ j = 8)
  \* The longer of the two comes first.
  <2> SUFFICES ASSUME c = 9, j = 8 PROVE FALSE
    OBVIOUS
  <2>1. 9 \in Prefix(path, method)
    <3>1. MatchPath(Routes[9].path, Plain(path)) /\ Plain(path) \in Seq(STRING)
      BY <1>1, PlainPath
    <3>2. /\ Len(Plain(path)) = 4 /\ Plain(path)[1] = "event-requests"
          /\ Plain(path)[2] = "reward-requests" /\ Plain(path)[3] = "history"
          /\ Plain(path)[4] = "all"
      BY <3>1, RouteMatches DEF Matched
    <3>3. Slashed(path, Plain(path))
      BY PlainSegments
    <3>4. /\ Len(path) = 5 /\ path[1] = "event-requests" /\ path[2] = "reward-requests"
          /\ path[3] = "history" /\ path[4] = "all"
      BY <3>2, <3>3 DEF Slashed
    <3>5. TextStartsWith("all", "all")
      BY SeparateWords DEF Spellings, Words
    <3>6. StartsWith(path, <<"event-requests", "reward-requests", "history", "all">>)
      BY <3>4, <3>5, BeginsWithFour
    <3>7. DOMAIN Routes = 1 .. 20
      BY RouteTable
    <3>8. StartsWith(path, Routes[9].path) /\ MethodMatches(9, method)
      BY <3>6, RoutePaths, RouteMethods DEF MethodMatches
    <3> QED BY <3>7, <3>8 DEF Prefix
  <2>2. Before(8, 9)
    BY <1>4, <2>1
  <2> QED BY <2>2, TextLengths DEF Before
<1>8. /\ Routes[c].roles # {} => Routes[j].roles = Routes[c].roles
      /\ c \notin {1, 2} => j \notin {1, 2}
  BY <1>6, <1>7, RouteRoles
<1>9. RouteSuffices(path, method, to, h, j)
  BY <1>1, <1>4, <1>8 DEF Mirrors, RouteSuffices
<1> QED BY <1>9

\* Either way: what the handler's guards ask for the route asks for.
LEMMA RouteOfServedPath ==
  ASSUME NEW path \in Seq(STRING), Spelled(path), NEW method, HasRoute(path, method),
         NEW to \in Services, NEW h \in Declares(to, path, method)
  PROVE  \E j \in 1 .. 20 : RouteSuffices(path, method, to, h, j)
<1>1. CASE Plain(path) = path
  BY <1>1, RouteOfPlainPath DEF RouteAgrees
<1>2. CASE Plain(path) # path
  BY <1>2, RouteOfSlashedPath
<1> QED BY <1>1, <1>2

\* Of the handlers declared for a path one was declared first.
LEMMA DeclaredFirst ==
  ASSUME NEW path, NEW method, NEW to \in Services, Declares(to, path, method) # {}
  PROVE  \E i \in Declares(to, path, method) :
           \A j \in Declares(to, path, method) : i <= j
<1>1. DOMAIN Handlers(to) \subseteq Nat
  BY AuthHandlersAsDeclared, GameHandlersAsDeclared DEF Services
<1>2. Declares(to, path, method) \in SUBSET Nat
  BY <1>1 DEF Declares
<1> QED BY <1>2, LeastNumber

\* A route found for another method only is not the one for the queue.
LEMMA WrongMethodIsNotQueued ==
  ASSUME NEW path \in Seq(STRING), NEW method, OnlyWrongMethod(path, method)
  PROVE  \E j \in 1 .. 20 : j # 6 /\ RouteFor(path, method) = Routes[j]
<1>1. Pattern(path, method) = {} /\ Prefix(path, method) = {} /\ WrongMethod(path) # {}
  BY DEF OnlyWrongMethod
<1>2. HasRoute(path, method)
  <2> DEFINE attempts == Attempts(path, method)
  <2>1. DOMAIN attempts = 1 .. 4 /\ attempts[4] = WrongMethod(path)
    BY DEF Attempts
  <2> QED BY <1>1, <2>1 DEF HasRoute
<1>3. PICK j \in 1 .. 20 : Picked(path, method, j)
  BY <1>2, SomeRouteIsPicked
<1>4. j # 6
  <2>1. MatchPath(Routes[j].path, path)
    BY <1>1, <1>3 DEF Picked, WrongMethod
  <2>2. MethodMatches(6, method)
    BY RouteMethods DEF MethodMatches
  <2> QED BY <1>1, <2>1, <2>2, PatternMatches
<1> QED BY <1>3, <1>4 DEF Picked

\* A handler for it is one for GET that also takes HEAD.
LEMMA HandlerForWrongMethod ==
  ASSUME NEW path \in Seq(STRING), Spelled(path), NEW method,
         OnlyWrongMethod(path, method), NEW to \in Services,
         NEW h \in Declares(to, path, method)
  PROVE  method = "HEAD" /\ Plain(path) = path /\ h \in Declares(to, path, "GET")
<1>1. Pattern(path, method) = {} /\ WrongMethod(path) # {}
  BY DEF OnlyWrongMethod
<1>2. PICK i \in 1 .. 20 : MatchPath(Routes[i].path, path)
  BY <1>1, RouteTable DEF WrongMethod
<1>3. Plain(path) = path
  BY <1>2, PlainPath, NoMatchWithSlash
<1> DEFINE declared == Handlers(to)[h].method
<1>4. Takes(declared, method)
  BY RouteOfHandler
<1>5. PICK c \in 1 .. 20 : MatchPath(Routes[c].path, path) /\ MethodMatches(c, declared)
  BY <1>3, RouteOfHandler
<1>6. declared # method
  BY <1>1, <1>5, PatternMatches
<1>7. declared = "GET" /\ method = "HEAD"
  BY <1>4, <1>6 DEF Takes
<1>8. h \in Declares(to, path, "GET")
  BY <1>7 DEF Declares, Takes
<1> QED BY <1>3, <1>7, <1>8
=============================================================================
