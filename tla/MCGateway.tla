----------------------------- MODULE MCGateway -----------------------------
(***************************************************************************)
(* Model checking of Gateway: one request, every method, every route of    *)
(* the table with its parameters filled in, and paths that just miss one.  *)
(***************************************************************************)
EXTENDS Gateway

CONSTANTS r1

OneRequest == {r1}

\* Of the segments below only these are not in lower case already.
LowerCase(segment) ==
  CASE segment = "Events" -> "events"
    [] segment = "Roles" -> "roles"
    [] segment = "ALL" -> "all"
    [] OTHER -> segment

\* One path for every route.
RoutePaths ==
  { [k \in DOMAIN Routes[i].path |->
       IF Routes[i].path[k] \in Parameters THEN "7" ELSE Routes[i].path[k]] :
    i \in DOMAIN Routes }

NearMisses ==
  { <<"auth", "login", "">>, <<"auth", "refresh-token">>, <<"event-requests">>,
    <<"event-requests", "rewards", "7">>, <<"event-requests", "rewards-old">>,
    <<"event-requests", "eligibility">>, <<"event-requests", "eligibility", "7", "">>,
    <<"event-requests", "reward-requests", "history", "7">>,
    <<"event-requests", "reward-requests", "history", "ALL">>,
    <<"Events", "active">>, <<"users", "7", "Roles">>,
    <<"events", "">>, <<"events", "7", "">>, <<"events", "7", "rewards">>, <<"eventsold">>,
    <<"rewards", "">>, <<"rewards", "event">>, <<"users", "7">>, <<"users", "">>, <<"health">>,
    <<"healthy">>, <<"">> }

\* No valid token; a token of each role, of two roles and of none.
Bearers ==
  { [token |-> FALSE, roles |-> {}] } \cup
  { [token |-> TRUE, roles |-> rs] :
      rs \in {{}, {"USER", "ADMIN"}} \cup {{role} : role \in Roles} }

ManyInputs ==
  { [method |-> m, path |-> p, token |-> b.token, roles |-> b.roles] :
      m \in {"GET", "HEAD", "POST", "PUT", "PATCH", "DELETE"},
      p \in RoutePaths \cup NearMisses, b \in Bearers }
=============================================================================
