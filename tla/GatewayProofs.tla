--------------------------- MODULE GatewayProofs ---------------------------
(***************************************************************************)
(* Theorems about Gateway, for any set of requests that are served at the  *)
(* same time and any inputs.                                               *)
(***************************************************************************)
EXTENDS Gateway, GatewayRoutesProofs, TLAPS

\* The statuses handleProxyError chooses, and when it reports no connection.
LEMMA StatusOfCodes ==
  /\ \A code \in Codes : StatusOf(code) \in Statuses
  /\ \A code \in Codes \ NotConnected : StatusOf(code) \notin Refusals
BY DEF StatusOf, Codes, NotConnected, Statuses, Refusals

\* What one step may do to the answers: at most one of them is given, and only
\* where there was none.
LEMMA AnswerLemma ==
  ASSUME TypeOK, NEW r \in Requests, NEW status, Answer(r, status)
  PROVE  /\ \A q \in Requests : q # r => answer'[q] = answer[q]
         /\ answer'[r] = IF answer[r] = "none" THEN status ELSE answer[r]
         /\ status \in Statuses =>
              answer' \in [Requests -> Statuses \cup {"none"}]
BY DEF Answer, TypeOK

\* Next without its disjunctions of disjunctions.
LEMMA StepCases ==
  ASSUME Next
  PROVE  \E r \in Requests :
           \/ Arrive(r)
           \/ \E status \in {"TOO_MANY_REQUESTS", "UNAUTHORIZED", "NOT_FOUND",
                             "FORBIDDEN"} : Refuse(r, status)
           \/ PassOn(r)
           \/ Publish(r)
           \/ Forward(r)
           \/ Serve(r)
           \/ Relay(r)
           \/ \E code \in NotConnected : NoConnection(r, code)
           \/ \E code \in Codes \ NotConnected : CallBreaks(r, code)
           \/ InterceptorTimeout(r)
<1>1. PICK r \in Requests :
        \/ Arrive(r) \/ Handle(r) \/ Fault(r) \/ Serve(r) \/ Relay(r)
        \/ AxiosTimeout(r) \/ InterceptorTimeout(r)
  BY DEF Next
<1>2. CASE Handle(r)
  BY <1>2 DEF Handle, RefuseToken, RefuseUnknown, RefuseUnauthorized, RefuseForbidden
<1>3. CASE Fault(r)
  <2>1. {"ETIMEDOUT", "ECONNRESET"} \subseteq Codes \ NotConnected
    BY DEF Codes, NotConnected
  <2> QED BY <1>3, <2>1 DEF Fault, Throttle
<1>4. CASE AxiosTimeout(r)
  <2>1. "ECONNABORTED" \in Codes \ NotConnected
    BY DEF Codes, NotConnected
  <2> QED BY <1>4, <2>1 DEF AxiosTimeout
<1> QED BY <1>1, <1>2, <1>3, <1>4

-----------------------------------------------------------------------------
LEMMA InitTypes == Init => TypeOK
BY DEF Init, TypeOK, Phases, Outcomes

LEMMA StepTypes == TypeOK /\ [Next]_vars => TypeOK'
<1> SUFFICES ASSUME TypeOK, [Next]_vars PROVE TypeOK'
  OBVIOUS
<1>1. CASE UNCHANGED vars
  BY <1>1 DEF vars, TypeOK
<1>2. CASE Next
  <2>1. PICK r \in Requests :
          \/ Arrive(r)
          \/ \E status \in {"TOO_MANY_REQUESTS", "UNAUTHORIZED", "NOT_FOUND",
                            "FORBIDDEN"} : Refuse(r, status)
          \/ PassOn(r)
          \/ Publish(r)
          \/ Forward(r)
          \/ Serve(r)
          \/ Relay(r)
          \/ \E code \in NotConnected : NoConnection(r, code)
          \/ \E code \in Codes \ NotConnected : CallBreaks(r, code)
          \/ InterceptorTimeout(r)
    BY <1>2, StepCases
  <2>2. CASE Arrive(r)
    BY <2>2 DEF Arrive, Goto, TypeOK, Phases
  <2>3. ASSUME NEW status \in {"TOO_MANY_REQUESTS", "UNAUTHORIZED", "NOT_FOUND",
                               "FORBIDDEN"}, Refuse(r, status)
        PROVE  TypeOK'
    BY <2>3, AnswerLemma DEF Refuse, Goto, TypeOK, Phases, Statuses
  <2>4. CASE PassOn(r)
    BY <2>4 DEF PassOn, Goto, TypeOK, Phases
  <2>5. CASE Publish(r)
    BY <2>5, AnswerLemma DEF Publish, Goto, TypeOK, Phases, Statuses
  <2>6. CASE Forward(r)
    BY <2>6 DEF Forward, Goto, TypeOK, Phases, Outcomes
  <2>7. CASE Serve(r)
    BY <2>7 DEF Serve, TypeOK, Outcomes
  <2>8. CASE Relay(r)
    BY <2>8, AnswerLemma DEF Relay, Settle, Goto, TypeOK, Phases, Statuses
  <2>9. ASSUME NEW code \in NotConnected, NoConnection(r, code)
        PROVE  TypeOK'
    <3>1. StatusOf(code) \in Statuses
      BY StatusOfCodes DEF Codes
    <3> QED BY <2>9, <3>1, AnswerLemma
            DEF NoConnection, Settle, Goto, TypeOK, Phases, Outcomes
  <2>10. ASSUME NEW code \in Codes \ NotConnected, CallBreaks(r, code)
         PROVE  TypeOK'
    <3>1. StatusOf(code) \in Statuses
      BY StatusOfCodes
    <3> QED BY <2>10, <3>1, AnswerLemma DEF CallBreaks, Settle, Goto, TypeOK, Phases
  <2>11. CASE InterceptorTimeout(r)
    BY <2>11, AnswerLemma DEF InterceptorTimeout, TypeOK, Statuses
  <2> QED BY <2>1, <2>2, <2>3, <2>4, <2>5, <2>6, <2>7, <2>8, <2>9, <2>10, <2>11
<1> QED BY <1>1, <1>2

\* Every variable of the gateway keeps its type, whatever requests overlap.
THEOREM GatewayTypes == Spec => []TypeOK
<1>1. Init => TypeOK
  BY InitTypes
<1>2. TypeOK /\ [Next]_vars => TypeOK'
  BY StepTypes
<1> QED BY <1>1, <1>2, PTL DEF Spec

-----------------------------------------------------------------------------
\* Before a request is decided nothing was done for it.
Undecided(r) ==
  phase[r] \in {"idle", "arrived", "passed"} =>
    service[r] = "none" /\ answer[r] = "none" /\ r \notin queued

\* A call in progress can have been answered only by the interceptor, and an
\* interceptor only watches a call in progress.
Calling(r) ==
  /\ r \in timers => phase[r] = "calling"
  /\ phase[r] = "calling" =>
       /\ answer[r] \in {"none", "REQUEST_TIMEOUT"}
       /\ service[r] \in {"sent", "served", "refused"}
       /\ r \notin queued

\* A call that found no connection is over: the service never gets it.
Unreached(r) == service[r] = "unreached" => phase[r] = "over"

IInv ==
  /\ TypeOK
  /\ RefusedIsUntouched
  /\ \A r \in Requests : Undecided(r) /\ Calling(r) /\ Unreached(r)

\* What the invariant says of one request.
Inv1(r) ==
  /\ answer[r] \in Refusals => service[r] \in {"none", "unreached"} /\ r \notin queued
  /\ Undecided(r) /\ Calling(r) /\ Unreached(r)

\* The invariant, request by request.
LEMMA PerRequest == IInv <=> TypeOK /\ \A r \in Requests : Inv1(r)
BY DEF IInv, Inv1, RefusedIsUntouched

\* A step that leaves a request's variables alone keeps what is said of it.
LEMMA OtherRequests ==
  ASSUME NEW q \in Requests, Inv1(q), phase'[q] = phase[q], service'[q] = service[q],
         answer'[q] = answer[q], q \in queued' <=> q \in queued,
         q \in timers' => q \in timers
  PROVE  Inv1(q)'
BY DEF Inv1, Undecided, Calling, Unreached

LEMMA StepKeepsIInv == IInv /\ [Next]_vars => IInv'
<1> SUFFICES ASSUME IInv, [Next]_vars PROVE IInv'
  OBVIOUS
<1>0. TypeOK /\ TypeOK' /\ \A q \in Requests : Inv1(q)
  BY PerRequest, StepTypes
<1>1. CASE UNCHANGED vars
  <2>1. \A q \in Requests : Inv1(q)'
    BY <1>0, <1>1, OtherRequests DEF vars
  <2> QED BY <1>0, <2>1 DEF IInv, Inv1, RefusedIsUntouched
<1>2. CASE Next
  <2>1. PICK r \in Requests :
          \/ Arrive(r)
          \/ \E status \in {"TOO_MANY_REQUESTS", "UNAUTHORIZED", "NOT_FOUND",
                            "FORBIDDEN"} : Refuse(r, status)
          \/ PassOn(r)
          \/ Publish(r)
          \/ Forward(r)
          \/ Serve(r)
          \/ Relay(r)
          \/ \E code \in NotConnected : NoConnection(r, code)
          \/ \E code \in Codes \ NotConnected : CallBreaks(r, code)
          \/ InterceptorTimeout(r)
    BY <1>2, StepCases
  <2>2. \A q \in Requests \ {r} : Inv1(q)'
    <3> SUFFICES ASSUME NEW q \in Requests \ {r} PROVE Inv1(q)'
      OBVIOUS
    <3>1. /\ phase'[q] = phase[q]
          /\ service'[q] = service[q]
          /\ q \in queued' <=> q \in queued
          /\ q \in timers' => q \in timers
      BY <1>0, <2>1 DEF Arrive, Refuse, PassOn, Publish, Forward, Serve, Relay,
           NoConnection, CallBreaks, InterceptorTimeout, Settle, Goto, TypeOK
    <3>2. answer'[q] = answer[q]
      BY <1>0, <2>1 DEF Arrive, Refuse, PassOn, Publish, Forward, Serve, Relay,
           NoConnection, CallBreaks, InterceptorTimeout, Settle, Answer, TypeOK
    <3> QED BY <1>0, <3>1, <3>2, OtherRequests
  <2>3. Inv1(r)'
    <3>0. Inv1(r)
      BY <1>0
    <3>1. CASE Arrive(r)
      BY <1>0, <3>0, <3>1 DEF Arrive, Goto, TypeOK, Inv1, Undecided, Calling, Unreached
    <3>2. ASSUME NEW status \in {"TOO_MANY_REQUESTS", "UNAUTHORIZED", "NOT_FOUND",
                                 "FORBIDDEN"}, Refuse(r, status)
          PROVE  Inv1(r)'
      BY <1>0, <3>0, <3>2
         DEF Refuse, Goto, Answer, TypeOK, Inv1, Undecided, Calling, Unreached
    <3>3. CASE PassOn(r)
      BY <1>0, <3>0, <3>3
         DEF PassOn, Reaches, Goto, TypeOK, Inv1, Undecided, Calling, Unreached
    <3>4. CASE Publish(r)
      <4>1. phase[r] = "arrived"
        BY <3>4 DEF Publish, Admitted, Routed, Reaches
      <4> QED BY <1>0, <3>0, <3>4, <4>1
              DEF Publish, Goto, Answer, TypeOK, Inv1, Undecided, Calling, Unreached,
                  Refusals
    <3>5. CASE Forward(r)
      <4>1. phase[r] = "arrived"
        BY <3>5 DEF Forward, Admitted, Routed, Reaches
      <4> QED BY <1>0, <3>0, <3>5, <4>1
              DEF Forward, Goto, TypeOK, Inv1, Undecided, Calling, Unreached, Refusals
    <3>6. CASE Serve(r)
      <4>1. service[r] = "sent" /\ service'[r] \in {"served", "refused"}
        BY <1>0, <3>6 DEF Serve, TypeOK
      <4> QED BY <1>0, <3>0, <3>6, <4>1
              DEF Serve, TypeOK, Inv1, Undecided, Calling, Unreached
    <3>7. CASE Relay(r)
      BY <1>0, <3>0, <3>7
         DEF Relay, Settle, Goto, Answer, TypeOK, Inv1, Undecided, Calling, Unreached,
             Refusals
    <3>8. ASSUME NEW code \in NotConnected, NoConnection(r, code)
          PROVE  Inv1(r)'
      BY <1>0, <3>0, <3>8
         DEF NoConnection, Settle, Goto, TypeOK, Inv1, Undecided, Calling, Unreached
    <3>9. ASSUME NEW code \in Codes \ NotConnected, CallBreaks(r, code)
          PROVE  Inv1(r)'
      <4>1. StatusOf(code) \notin Refusals
        BY StatusOfCodes
      <4> QED BY <1>0, <3>0, <3>9, <4>1
              DEF CallBreaks, Settle, Goto, Answer, TypeOK, Inv1, Undecided, Calling,
                  Unreached, Refusals
    <3>10. CASE InterceptorTimeout(r)
      BY <1>0, <3>0, <3>10
         DEF InterceptorTimeout, Answer, TypeOK, Inv1, Undecided, Calling, Unreached,
             Refusals
    <3> QED BY <2>1, <3>1, <3>2, <3>3, <3>4, <3>5, <3>6, <3>7, <3>8, <3>9, <3>10
  <2>4. \A q \in Requests : Inv1(q)'
    BY <2>2, <2>3
  <2> QED BY <1>0, <2>4 DEF IInv, Inv1, RefusedIsUntouched
<1> QED BY <1>1, <1>2

\* A request that was refused, or answered with 503, was not carried out and never
\* will be, although calls go on after their answer: the invariant of one call says
\* who may have answered it so far.
THEOREM RefusedIsUntouchedHolds == Spec => []RefusedIsUntouched
<1>1. Init => IInv
  <2>1. ASSUME Init PROVE TypeOK
    BY <2>1, InitTypes
  <2> QED BY <2>1 DEF Init, IInv, RefusedIsUntouched, Undecided, Calling, Unreached,
             Refusals
<1>2. IInv /\ [Next]_vars => IInv'
  BY StepKeepsIInv
<1>3. IInv => RefusedIsUntouched
  BY DEF IInv
<1> QED BY <1>1, <1>2, <1>3, PTL DEF Spec

-----------------------------------------------------------------------------
(* Admission: what was asked for is enough for what was done.              *)

\* A request that passes the checks of handleRequest.
Through(r) == Found(r) /\ ~Unauthorized(r) /\ Permitted(r)

\* What an answer says of the request it is given to.
Justified(r, status) ==
  /\ status = "UNAUTHORIZED" =>
       \/ ~IsPublic(r) /\ ~input[r].token
       \/ Found(r) /\ Unauthorized(r)
  /\ status = "FORBIDDEN" => Found(r) /\ ~Unauthorized(r) /\ ~Permitted(r)
  /\ status = "NOT_FOUND" => ~Found(r)

Admission(r) ==
  /\ r \in queued => Through(r) /\ RouteOf(r).queue
  /\ service[r] # "none" => Through(r) /\ ~RouteOf(r).queue
  /\ service[r] = "served" => Admits(r, RouteOf(r).to)
  /\ Justified(r, answer[r])

AdmissionInv == TypeOK /\ \A r \in Requests : Admission(r)

\* What a request asks for never changes.
LEMMA SameInput ==
  ASSUME NEW r, input' = input
  PROVE  /\ Through(r)' = Through(r) /\ RouteOf(r)' = RouteOf(r)
         /\ Admits(r, RouteOf(r).to)' = Admits(r, RouteOf(r).to)
         /\ \A status : Justified(r, status)' = Justified(r, status)
BY DEF Through, Found, Unauthorized, Permitted, HasRole, HasRoleFor, SignedIn, IsPublic,
       RouteOf, Admits, Justified

\* Only the checks of handleRequest and of its guard give these answers.
OtherStatuses == Statuses \ {"UNAUTHORIZED", "FORBIDDEN", "NOT_FOUND"}

LEMMA StatusOfOthers == \A code \in Codes : StatusOf(code) \in OtherStatuses
BY DEF StatusOf, Codes, NotConnected, Statuses, OtherStatuses

\* What a step does to a request it is taken for.
Steps(r) ==
  \/ /\ UNCHANGED <<service, queued>>
     /\ UNCHANGED answer \/ \E status \in OtherStatuses : Answer(r, status)
  \/ /\ UNCHANGED <<service, queued>>
     /\ \E status \in {"UNAUTHORIZED", "FORBIDDEN", "NOT_FOUND"} :
          Justified(r, status) /\ Answer(r, status)
  \/ /\ UNCHANGED service /\ queued' = queued \cup {r} /\ Answer(r, "ACCEPTED")
     /\ Through(r) /\ RouteOf(r).queue
  \/ /\ UNCHANGED <<queued, answer>> /\ service' = [service EXCEPT ![r] = "sent"]
     /\ Through(r) /\ ~RouteOf(r).queue
  \/ /\ UNCHANGED <<queued, answer>> /\ service[r] = "sent"
     /\ \E outcome \in {"served", "refused"} :
          /\ outcome = "served" => Admits(r, RouteOf(r).to)
          /\ service' = [service EXCEPT ![r] = outcome]
  \/ /\ UNCHANGED queued /\ service[r] = "sent"
     /\ service' = [service EXCEPT ![r] = "unreached"]
     /\ \E status \in OtherStatuses : Answer(r, status)

LEMMA NextSteps ==
  ASSUME Next
  PROVE  input' = input /\ \E r \in Requests : Steps(r)
<1>1. PICK r \in Requests :
        \/ Arrive(r) \/ Handle(r) \/ Fault(r) \/ Serve(r) \/ Relay(r)
        \/ AxiosTimeout(r) \/ InterceptorTimeout(r)
  BY DEF Next
<1> SUFFICES input' = input /\ Steps(r)
  OBVIOUS
<1>2. CASE Arrive(r)
  BY <1>2 DEF Arrive, Steps
<1>3. CASE RefuseToken(r)
  BY <1>3 DEF RefuseToken, Refuse, Justified, Steps
<1>4. CASE PassOn(r)
  BY <1>4 DEF PassOn, Steps
<1>5. CASE RefuseUnknown(r)
  BY <1>5 DEF RefuseUnknown, Refuse, Justified, Steps
<1>6. CASE RefuseUnauthorized(r)
  BY <1>6 DEF RefuseUnauthorized, Routed, Refuse, Justified, Steps
<1>7. CASE RefuseForbidden(r)
  BY <1>7 DEF RefuseForbidden, Routed, Refuse, Justified, Steps
<1>8. CASE Publish(r)
  BY <1>8 DEF Publish, Admitted, Routed, Through, Steps
<1>9. CASE Forward(r)
  BY <1>9 DEF Forward, Admitted, Routed, Through, Steps
<1>10. CASE Fault(r)
  <2>1. CASE Throttle(r)
    <3>1. "TOO_MANY_REQUESTS" \in OtherStatuses
      BY DEF OtherStatuses, Statuses
    <3> QED BY <2>1, <3>1 DEF Throttle, Refuse, Steps
  <2>2. ASSUME NEW code \in NotConnected, NoConnection(r, code)
        PROVE  input' = input /\ Steps(r)
    <3>1. StatusOf(code) \in OtherStatuses
      BY StatusOfOthers DEF Codes
    <3> QED BY <2>2, <3>1 DEF NoConnection, Settle, Steps
  <2>3. ASSUME NEW code \in {"ETIMEDOUT", "ECONNRESET"}, CallBreaks(r, code)
        PROVE  input' = input /\ Steps(r)
    <3>1. StatusOf(code) \in OtherStatuses
      BY StatusOfOthers DEF Codes
    <3> QED BY <2>3, <3>1 DEF CallBreaks, Settle, Steps
  <2> QED BY <1>10, <2>1, <2>2, <2>3 DEF Fault
<1>11. CASE Serve(r)
  BY <1>11 DEF Serve, Steps
<1>12. CASE Relay(r)
  <2>1. "RELAYED" \in OtherStatuses
    BY DEF OtherStatuses, Statuses
  <2> QED BY <1>12, <2>1 DEF Relay, Settle, Steps
<1>13. CASE AxiosTimeout(r)
  <2>1. StatusOf("ECONNABORTED") \in OtherStatuses
    BY StatusOfOthers DEF Codes
  <2> QED BY <1>13, <2>1 DEF AxiosTimeout, CallBreaks, Settle, Steps
<1>14. CASE InterceptorTimeout(r)
  <2>1. "REQUEST_TIMEOUT" \in OtherStatuses
    BY DEF OtherStatuses, Statuses
  <2> QED BY <1>14, <2>1 DEF InterceptorTimeout, Steps
<1> QED BY <1>1, <1>2, <1>3, <1>4, <1>5, <1>6, <1>7, <1>8, <1>9, <1>10, <1>11, <1>12,
           <1>13, <1>14 DEF Handle

LEMMA StepKeepsAdmission == AdmissionInv /\ [Next]_vars => AdmissionInv'
<1> SUFFICES ASSUME AdmissionInv, [Next]_vars PROVE AdmissionInv'
  OBVIOUS
<1>1. TypeOK /\ TypeOK' /\ \A q \in Requests : Admission(q)
  BY StepTypes DEF AdmissionInv
<1>2. CASE UNCHANGED vars
  <2>1. \A q \in Requests : Admission(q)'
    BY <1>1, <1>2, SameInput DEF vars, Admission
  <2> QED BY <1>1, <2>1 DEF AdmissionInv
<1>3. CASE Next
  <2>1. input' = input
    BY <1>3, NextSteps
  <2>2. PICK r \in Requests : Steps(r)
    BY <1>3, NextSteps
  <2>3. ASSUME NEW q \in Requests
        PROVE  Admission(q)'
    <3>1. Admission(q)
      BY <1>1
    <3>2. q \in queued' => Through(q) /\ RouteOf(q).queue
      BY <2>2, <3>1 DEF Admission, Steps
    <3>3. service'[q] # "none" => Through(q) /\ ~RouteOf(q).queue
      BY <1>1, <2>2, <3>1 DEF Admission, Steps, TypeOK
    <3>4. service'[q] = "served" => Admits(q, RouteOf(q).to)
      BY <1>1, <2>2, <3>1 DEF Admission, Steps, TypeOK
    <3>5. Justified(q, answer'[q])
      <4>1. \A status \in OtherStatuses \cup {"ACCEPTED"} : Justified(q, status)
        BY DEF OtherStatuses, Justified
      <4>2. CASE answer'[q] = answer[q]
        BY <3>1, <4>2 DEF Admission
      <4>3. CASE answer'[q] # answer[q]
        <5>1. \E status \in Statuses :
                /\ Answer(r, status)
                /\ status \in OtherStatuses \cup {"ACCEPTED"} \/ Justified(r, status)
          BY <2>2, <4>3 DEF Steps, OtherStatuses, Statuses
        <5>2. PICK status \in Statuses :
                /\ Answer(r, status)
                /\ status \in OtherStatuses \cup {"ACCEPTED"} \/ Justified(r, status)
          BY <5>1
        <5>3. q = r /\ answer'[q] = status
          BY <1>1, <4>3, <5>2 DEF Answer, TypeOK
        <5> QED BY <4>1, <5>2, <5>3
      <4> QED BY <4>2, <4>3
    <3>6. /\ Through(q)' = Through(q) /\ RouteOf(q)' = RouteOf(q)
          /\ Admits(q, RouteOf(q).to)' = Admits(q, RouteOf(q).to)
          /\ Justified(q, answer[q])' = Justified(q, answer'[q])
      BY <2>1 DEF Through, Found, Unauthorized, Permitted, HasRole, HasRoleFor, SignedIn,
              IsPublic, RouteOf, Admits, Justified
    <3> QED BY <3>2, <3>3, <3>4, <3>5, <3>6 DEF Admission
  <2> QED BY <1>1, <2>3 DEF AdmissionInv
<1> QED BY <1>2, <1>3

LEMMA InitAdmission == Init => AdmissionInv
<1> SUFFICES ASSUME Init PROVE AdmissionInv
  OBVIOUS
<1>1. TypeOK
  BY InitTypes
<1>2. ASSUME NEW r \in Requests
      PROVE  Admission(r)
  BY DEF Init, Admission, Justified
<1> QED BY <1>1, <1>2 DEF AdmissionInv

LEMMA AdmissionHolds == Spec => []AdmissionInv
BY InitAdmission, StepKeepsAdmission, PTL DEF Spec

\* Paths and methods are what GatewayRoutesProofs takes them to be.
LEMMA PathsAreSequences ==
  ASSUME TypeOK, NEW r \in Requests
  PROVE  input[r].path \in Seq(STRING)
BY InputAssumption DEF TypeOK, Input

LEMMA RouteInTable ==
  ASSUME TypeOK, NEW r \in Requests, Found(r)
  PROVE  \E j \in 1 .. 20 : RouteOf(r) = Routes[j]
BY PathsAreSequences, SomeRouteIsPicked DEF Found, RouteOf, Picked

LEMMA ServicesOfRoutes == \A j \in 1 .. 20 : Routes[j].to \in Services
BY RouteServices, EachRoute DEF Services, IsRoute

\* What the gateway lets through is permitted, whatever the methods and the bearers: a
\* message names a signed-in user, and a call to an existing handler, on any path
\* spelled as declared, passes the guards of that handler.
THEOREM WorkIsPermittedHolds == Spec => []WorkIsPermitted
<1>1. AdmissionInv => WorkIsPermitted
  <2> SUFFICES ASSUME AdmissionInv, NEW r \in Requests
               PROVE  /\ r \in queued => SignedIn(r) /\ "USER" \in input[r].roles
                      /\ service[r] # "none" /\ Spelled(input[r].path) =>
                           \/ Declares(RouteOf(r).to, input[r].path, input[r].method) = {}
                           \/ Admits(r, RouteOf(r).to)
    BY DEF WorkIsPermitted
  <2> DEFINE path == input[r].path
             method == input[r].method
  <2>1. Admission(r) /\ TypeOK /\ path \in Seq(STRING)
    BY PathsAreSequences DEF AdmissionInv
  <2>2. ASSUME r \in queued
        PROVE  SignedIn(r) /\ "USER" \in input[r].roles
    <3>1. Through(r) /\ RouteOf(r).queue
      BY <2>1, <2>2 DEF Admission
    <3>2. PICK j \in 1 .. 20 : RouteOf(r) = Routes[j]
      BY <2>1, <3>1, RouteInTable DEF Through
    <3>3. j = 6
      BY <3>1, <3>2, RouteKinds
    <3>4. RouteOf(r).roles = {"USER"}
      BY <3>2, <3>3, RouteRoles
    <3> QED BY <3>1, <3>4 DEF Through, Permitted, HasRole, HasRoleFor
  <2>3. ASSUME service[r] # "none", Spelled(path), NEW to, to = RouteOf(r).to,
               Declares(to, path, method) # {}
        PROVE  Admits(r, to)
    <3>1. Through(r) /\ HasRoute(path, method)
      BY <2>1, <2>3 DEF Admission, Through, Found
    <3>2. to \in Services
      BY <2>1, <2>3, <3>1, RouteInTable, ServicesOfRoutes DEF Through
    <3>3. PICK h \in Declares(to, path, method) :
            \A i \in Declares(to, path, method) : h <= i
      BY <2>3, <3>2, DeclaredFirst
    <3>4. PICK j \in 1 .. 20 : RouteSuffices(path, method, to, h, j)
      BY <2>1, <2>3, <3>1, <3>2, RouteOfServedPath
    <3>5. /\ RouteOf(r) = Routes[j]
          /\ Handlers(to)[h].roles # {} => Routes[j].roles = Handlers(to)[h].roles
          /\ Handlers(to)[h].guarded => j \notin {1, 2}
      BY <3>4 DEF RouteSuffices, RouteOf
    <3>6. Handlers(to)[h].guarded => input[r].token
      <4>1. j \notin {1, 2} => RouteOf(r).requireAuth
        BY <3>5, RouteKinds
      <4> QED BY <3>1, <3>5, <4>1 DEF Through, Unauthorized, SignedIn
    <3>7. Handlers(to)[h].roles # {} => Handlers(to)[h].roles \cap input[r].roles # {}
      BY <3>1, <3>5 DEF Through, Permitted, HasRole, HasRoleFor
    <3> QED BY <3>3, <3>6, <3>7 DEF Admits, ServiceAdmits
  <2> QED BY <2>2, <2>3
<1> QED BY <1>1, AdmissionHolds, PTL

\* Of the paths the guard lets pass without a token only those of registration and
\* login have a route.
LEMMA PublicRoutes ==
  ASSUME NEW path \in PublicPaths, path \in Seq(STRING), NEW j \in 1 .. 20,
         MatchPath(Routes[j].path, path)
  PROVE  j \in {1, 2}
<1>1. IsRoute(j) /\ Matched(path)
  BY EachRoute, RouteMatches
<1>2. \/ /\ Len(path) = 2 /\ path[1] = "auth"
         /\ path[2] \in {"login", "register", "refresh-token"}
      \/ Len(path) \in {1, 2} /\ path[1] = "health"
      \/ Len(path) = 1 /\ path[1] = "api-docs"
  BY DEF PublicPaths
<1> QED BY <1>1, <1>2 DEF IsRoute, Matched

\* Whoever a service would serve gets through to that service, for every path that is
\* spelled as declared, without a slash at its end, and for every method.
THEOREM AdmittedIsForwardedHolds == Spec => []AdmittedIsForwarded
<1>1. AdmissionInv => AdmittedIsForwarded
  <2> SUFFICES ASSUME AdmissionInv, NEW r \in Requests, NEW to \in Services,
                      input[r].token, Admits(r, to), Plain(input[r].path) = input[r].path,
                      Spelled(input[r].path)
               PROVE  /\ answer[r] \notin {"UNAUTHORIZED", "FORBIDDEN", "NOT_FOUND"}
                      /\ service[r] # "none" => RouteOf(r).to = to
    BY DEF AdmittedIsForwarded, Services
  <2> DEFINE path == input[r].path
             method == input[r].method
  <2>1. Admission(r) /\ path \in Seq(STRING)
    BY PathsAreSequences DEF AdmissionInv
  <2>2. PICK h \in Declares(to, path, method) :
          Handlers(to)[h].roles # {} => Handlers(to)[h].roles \cap input[r].roles # {}
    BY DEF Admits, ServiceAdmits
  <2>3. Found(r)
    BY <2>1, <2>2, RouteOfPlainPath DEF Found
  <2>4. PICK j \in 1 .. 20 : RouteAgrees(path, method, to, h, j)
    BY <2>1, <2>2, RouteOfPlainPath
  <2>5. /\ RouteOf(r) = Routes[j] /\ MatchPath(Routes[j].path, path)
        /\ Routes[j].to = to /\ Routes[j].roles = Handlers(to)[h].roles
    BY <2>4 DEF RouteAgrees, RouteSuffices, RouteOf
  <2>6. SignedIn(r) \/ j \in {1, 2}
    BY <2>1, <2>5, PublicRoutes DEF SignedIn, IsPublic
  <2>7. ~Unauthorized(r)
    BY <2>5, <2>6, RouteKinds DEF Unauthorized
  <2>8. Permitted(r)
    <3>1. j \in {1, 2} => RouteOf(r).roles = {}
      BY <2>5, RouteRoles
    <3> QED BY <2>2, <2>5, <2>6, <3>1 DEF Permitted, HasRole, HasRoleFor
  <2> QED BY <2>1, <2>3, <2>5, <2>7, <2>8 DEF Admission, Justified
<1> QED BY <1>1, AdmissionHolds, PTL

\* Two routes for one path both ask for a token, or neither does.
LEMMA SameAuth ==
  ASSUME NEW path \in Seq(STRING), NEW j \in 1 .. 20, NEW k \in 1 .. 20,
         MatchPath(Routes[j].path, path), MatchPath(Routes[k].path, path)
  PROVE  Routes[k].requireAuth => Routes[j].requireAuth
<1>1. \/ k = j
      \/ j \in {11, 12, 13} /\ k \in {11, 12, 13}
      \/ j \in {14, 15} /\ k \in {14, 15}
  BY Overlap
<1>2. k = j \/ j \notin {1, 2}
  BY <1>1
<1> QED BY <1>2, RouteKinds

\* A request with a method that no route of its path has is never queued, and carried
\* out only as the HEAD of a GET that its bearer is let through with: whatever the
\* fourth attempt finds asks for what the route for GET asks for.
THEOREM WrongMethodIsHarmlessHolds == Spec => []WrongMethodIsHarmless
<1>1. AdmissionInv => WrongMethodIsHarmless
  <2> SUFFICES ASSUME AdmissionInv, NEW r \in Requests,
                      OnlyWrongMethod(input[r].path, input[r].method),
                      Spelled(input[r].path)
               PROVE  /\ r \notin queued
                      /\ service[r] = "served" =>
                           input[r].method = "HEAD" /\ LetThrough(r, "GET")
    BY DEF WrongMethodIsHarmless
  <2> DEFINE path == input[r].path
             method == input[r].method
  <2>1. Admission(r) /\ TypeOK /\ path \in Seq(STRING)
    BY PathsAreSequences DEF AdmissionInv
  <2>2. PICK i \in 1 .. 20 : i # 6 /\ RouteOf(r) = Routes[i]
    BY <2>1, WrongMethodIsNotQueued DEF RouteOf
  <2>3. r \notin queued
    BY <2>1, <2>2, RouteKinds DEF Admission
  <2>4. ASSUME service[r] = "served"
        PROVE  method = "HEAD" /\ LetThrough(r, "GET")
    <3> DEFINE to == RouteOf(r).to
    <3>1. Through(r) /\ Admits(r, to)
      BY <2>1, <2>4 DEF Admission
    <3>2. to \in Services
      BY <2>2, ServicesOfRoutes
    <3> HIDE DEF to
    <3>3. PICK h \in Declares(to, path, method) : TRUE
      BY <3>1 DEF Admits, ServiceAdmits
    <3>4. method = "HEAD" /\ Plain(path) = path /\ h \in Declares(to, path, "GET")
      BY <2>1, <3>2, <3>3, HandlerForWrongMethod
    <3>5. PICK j \in 1 .. 20 : RouteAgrees(path, method, to, h, j)
      BY <2>1, <3>2, <3>3, <3>4, RouteOfPlainPath
    <3>6. HasRoute(path, "GET")
      BY <2>1, <3>2, <3>4, RouteOfPlainPath
    <3>7. PICK k \in 1 .. 20 : RouteAgrees(path, "GET", to, h, k)
      BY <2>1, <3>2, <3>4, RouteOfPlainPath
    <3>8. RouteOf(r) = Routes[j] /\ RouteFor(path, "GET") = Routes[k]
      BY <3>5, <3>7 DEF RouteAgrees, RouteSuffices, RouteOf
    <3>9. /\ Routes[k].roles = Routes[j].roles
          /\ Routes[k].requireAuth => Routes[j].requireAuth
      <4>1. /\ MatchPath(Routes[j].path, path) /\ MatchPath(Routes[k].path, path)
            /\ Routes[k].roles = Routes[j].roles
        BY <3>5, <3>7 DEF RouteAgrees
      <4> QED BY <2>1, <4>1, SameAuth
    <3>10. /\ Routes[j].requireAuth => SignedIn(r)
           /\ HasRoleFor(r, Routes[j])
      BY <3>1, <3>8 DEF Through, Unauthorized, Permitted, HasRole
    <3> QED BY <3>4, <3>6, <3>8, <3>9, <3>10 DEF LetThrough, HasRoleFor
  <2> QED BY <2>3, <2>4
<1> QED BY <1>1, AdmissionHolds, PTL
=============================================================================
