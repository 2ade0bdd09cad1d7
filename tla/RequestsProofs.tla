---------------------------- MODULE RequestsProofs ----------------------------
(***************************************************************************)
(* The answers of the HTTP server are honest, for any routes, callers,     *)
(* limits and number of requests, whenever the process is told to stop.    *)
(***************************************************************************)
EXTENDS Requests, TLAPS

\* Successes are 2xx.
Successes(f) == \A x \in DOMAIN f : f[x].ok \in 200..204

LEMMA SuccessStatus == ASSUME NEW x \in Route PROVE Endpoint[x].ok \in 200..204
<1>1. Successes(AuthRoutes)
  BY DEF Successes, AuthRoutes, Route_
<1>2. Successes(UserCollection)
  BY DEF Successes, UserCollection, Route_
<1>3. Successes(UserItem)
  BY DEF Successes, UserItem, Route_
<1>4. Successes(HealthRoutes)
  BY DEF Successes, HealthRoutes, Route_
<1>5. Successes(Endpoint)
  BY <1>1, <1>2, <1>3, <1>4 DEF Endpoint, Successes
<1>6. QED
  BY <1>5, RequestsAssumption DEF Successes

LEMMA GuardStatuses == ASSUME NEW e, NEW c PROVE GuardStatus(e, c) \in {0, 401, 403}
BY DEF GuardStatus

LEMMA RequestsStart == Init => RequestsIInv
<1> SUFFICES ASSUME Init PROVE RequestsIInv
  OBVIOUS
<1>1. (CHOOSE x \in Route : TRUE) \in Route
  BY RequestsAssumption
<1>2. QED
  BY <1>1 DEF Init, RequestsIInv, PlacesHonest, AnswerHonest, CleanExitCutsOffTimedOut,
              Place

\* A request that has been sent and answered is done, or its handler goes on
\* after a 408.
LEMMA AnsweredPlace ==
    ASSUME RequestsIInv, NEW r \in Request, ~Open(r)
    PROVE  at[r] \in {"unsent", "done"} \/ (at[r] = "handler" /\ answer[r] = 408)
BY DEF Open, RequestsIInv, PlacesHonest, Place

\* The steps of the process leave the requests as they are.
LEMMA RequestUntouched ==
    ASSUME RequestsIInv, UNCHANGED request_,
           \/ UNCHANGED <<server, exitCode>>
           \/ ~(server' = "exited" /\ exitCode' = 0)
           \/ \A r \in Request : ~Open(r)
    PROVE  RequestsIInv'
<1>1. CleanExitCutsOffTimedOut'
  BY AnsweredPlace DEF request_, RequestsIInv, CleanExitCutsOffTimedOut
<1>2. QED
  BY <1>1 DEF RequestsIInv, request_, PlacesHonest, AnswerHonest, Admitted, EndpointOf

\* A step of one request, while the process runs: where it is afterwards, with
\* what answer, decides.
LEMMA RequestMoved ==
    ASSUME RequestsIInv, NEW r \in Request,
           Running, UNCHANGED <<server_, route, caller>>,
           at' \in [Request -> Place],
           answer' \in [Request -> Nat],
           effect' \in [Request -> BOOLEAN],
           \A q \in Request \ {r} :
               at'[q] = at[q] /\ answer'[q] = answer[q] /\ effect'[q] = effect[q],
           effect'[r] \/ at'[r] \in {"throttle", "throttleTwice", "pipe", "handler"} => Admitted(r),
           at'[r] \notin {"handler", "done"} => ~effect'[r] /\ answer'[r] = 0,
           at'[r] = "handler" => answer'[r] \in {0, 408},
           answer'[r] \in 200..204 => effect'[r],
           answer'[r] \in {400, 429} => ~effect'[r]
    PROVE  RequestsIInv'
<1>1. \A q \in Request : Admitted(q)' <=> Admitted(q)
  BY DEF Admitted, EndpointOf
<1>2. PlacesHonest'
  BY <1>1 DEF RequestsIInv, PlacesHonest
<1>3. AnswerHonest'
  <2> SUFFICES ASSUME NEW q \in Request
               PROVE  /\ effect'[q] => Admitted(q)
                      /\ answer'[q] \in 200..204 => effect'[q]
                      /\ answer'[q] \in {400, 401, 403, 429} => at'[q] = "done"
                      /\ answer'[q] \in {400, 429} => ~effect'[q]
    BY <1>1 DEF AnswerHonest, Admitted
  <2>1. CASE q = r
    BY <2>1
  <2>2. CASE q # r
    BY <2>2 DEF RequestsIInv, AnswerHonest, Admitted
  <2>3. QED
    BY <2>1, <2>2
<1>4. CleanExitCutsOffTimedOut'
  BY DEF Running, server_, CleanExitCutsOffTimedOut
<1>5. QED
  BY <1>2, <1>3, <1>4 DEF RequestsIInv

LEMMA ArriveInv ==
    ASSUME RequestsIInv, NEW r \in Request, NEW x \in Route, NEW c \in Caller, Arrive(r, x, c)
    PROVE  RequestsIInv'
<1>1. ~effect[r] /\ answer[r] = 0
  BY DEF Arrive, RequestsIInv, PlacesHonest, Place
<1>2. at' = [at EXCEPT ![r] = "guards"] /\ route' = [route EXCEPT ![r] = x]
      /\ caller' = [caller EXCEPT ![r] = c] /\ UNCHANGED <<effect, answer>>
  BY DEF Arrive, Goto
<1>3. at' \in [Request -> Place] /\ route' \in [Request -> Route]
      /\ effect' \in [Request -> BOOLEAN] /\ answer' \in [Request -> Nat]
  BY <1>2 DEF RequestsIInv, Place
<1>4. \A q \in Request \ {r} : at'[q] = at[q] /\ route'[q] = route[q] /\ caller'[q] = caller[q]
  BY <1>2 DEF RequestsIInv
<1>5. \A q \in Request \ {r} : Admitted(q)' <=> Admitted(q)
  BY <1>4 DEF Admitted, EndpointOf
<1>6. at'[r] = "guards"
  BY <1>2 DEF RequestsIInv
<1>7. PlacesHonest'
  BY <1>1, <1>2, <1>4, <1>5, <1>6 DEF RequestsIInv, PlacesHonest
<1>8. AnswerHonest'
  <2> SUFFICES ASSUME NEW q \in Request
               PROVE  /\ effect[q] => Admitted(q)'
                      /\ answer[q] \in 200..204 => effect[q]
                      /\ answer[q] \in {400, 401, 403, 429} => at'[q] = "done"
                      /\ answer[q] \in {400, 429} => ~effect[q]
    BY <1>2 DEF AnswerHonest, Admitted
  <2>1. CASE q = r
    BY <2>1, <1>1
  <2>2. CASE q # r
    BY <2>2, <1>4, <1>5 DEF RequestsIInv, AnswerHonest, Admitted
  <2>3. QED
    BY <2>1, <2>2
<1>9. CleanExitCutsOffTimedOut'
  BY DEF Arrive, server_, CleanExitCutsOffTimedOut
<1>10. QED
  BY <1>3, <1>7, <1>8, <1>9 DEF RequestsIInv

LEMMA AuthorizeInv ==
    ASSUME RequestsIInv, NEW r \in Request, Authorize(r)
    PROVE  RequestsIInv'
<1> DEFINE verdict == GuardStatus(EndpointOf(r), caller[r])
<1>1. Running /\ UNCHANGED <<server_, route, caller, effect>> /\ answer[r] = 0 /\ ~effect[r]
  BY DEF Authorize, RequestsIInv, PlacesHonest, Place
<1>2. verdict \in {0, 401, 403} /\ (verdict = 0 => Admitted(r))
  BY GuardStatuses DEF Admitted
<1>3. \/ verdict = 0 /\ at' = [at EXCEPT ![r] = "throttle"] /\ UNCHANGED answer
      \/ /\ verdict # 0 /\ at' = [at EXCEPT ![r] = "done"]
         /\ answer' = [answer EXCEPT ![r] = verdict]
  BY <1>1 DEF Authorize, Goto, Answer
<1> HIDE DEF verdict
<1>4. QED
  BY <1>1, <1>2, <1>3, RequestMoved DEF RequestsIInv, Place

LEMMA ThrottleInv ==
    ASSUME RequestsIInv, NEW r \in Request, NEW g \in {"global", "controller"}, Throttle(r, g)
    PROVE  RequestsIInv'
<1>1. /\ Running /\ UNCHANGED <<server_, route, caller, effect>>
      /\ answer[r] = 0 /\ ~effect[r] /\ Admitted(r)
  BY DEF Throttle, RequestsIInv, PlacesHonest, Place
<1>2. \/ at' = [at EXCEPT ![r] = "done"] /\ answer' = [answer EXCEPT ![r] = 429]
      \/ /\ \E p \in {"throttleTwice", "pipe"} : at' = [at EXCEPT ![r] = p]
         /\ UNCHANGED answer
  BY <1>1 DEF Throttle, Goto, Answer
<1>3. QED
  BY <1>1, <1>2, RequestMoved DEF RequestsIInv, Place

LEMMA ValidateInv ==
    ASSUME RequestsIInv, NEW r \in Request, NEW valid \in BOOLEAN, Validate(r, valid)
    PROVE  RequestsIInv'
<1>1. /\ Running /\ UNCHANGED <<server_, route, caller, effect>>
      /\ answer[r] = 0 /\ ~effect[r] /\ Admitted(r)
  BY DEF Validate, RequestsIInv, PlacesHonest, Place
<1>2. \/ at' = [at EXCEPT ![r] = "done"] /\ answer' = [answer EXCEPT ![r] = 400]
      \/ at' = [at EXCEPT ![r] = "handler"] /\ UNCHANGED answer
  BY <1>1 DEF Validate, Goto, Answer
<1>3. QED
  BY <1>1, <1>2, RequestMoved DEF RequestsIInv, Place

\* The steps of a handler and of its timer.
LEMMA HandlerInv ==
    ASSUME RequestsIInv, NEW r \in Request,
           Act(r) \/ Return(r) \/ TimeOut(r) \/ \E x \in Error : Throw(r, x)
    PROVE  RequestsIInv'
<1>1. /\ Running /\ UNCHANGED <<server_, route, caller>>
      /\ at[r] = "handler"
  BY DEF Act, Return, TimeOut, Throw
<1>2. answer[r] \in {0, 408} /\ Admitted(r)
  BY <1>1 DEF RequestsIInv, PlacesHonest
<1>3. CASE Act(r)
  <2>1. effect' = [effect EXCEPT ![r] = TRUE] /\ UNCHANGED <<at, answer>>
    BY <1>3 DEF Act
  <2>2. effect' \in [Request -> BOOLEAN] /\ effect'[r]
    BY <2>1 DEF RequestsIInv
  <2>3. \A q \in Request \ {r} : effect'[q] = effect[q]
    BY <2>1 DEF RequestsIInv
  <2>4. at' \in [Request -> Place] /\ answer' \in [Request -> Nat]
        /\ at'[r] = "handler" /\ answer'[r] \in {0, 408}
        /\ \A q \in Request \ {r} : at'[q] = at[q] /\ answer'[q] = answer[q]
    BY <1>1, <1>2, <2>1 DEF RequestsIInv
  <2>5. answer'[r] \notin {400, 429}
    BY <2>4
  <2>6. QED
    BY <1>1, <1>2, <2>2, <2>3, <2>4, <2>5, RequestMoved
<1>4. CASE Return(r)
  <2> DEFINE status == IF answer[r] = 0 THEN EndpointOf(r).ok ELSE answer[r]
  <2>1. at' = [at EXCEPT ![r] = "done"] /\ answer' = [answer EXCEPT ![r] = status]
        /\ UNCHANGED effect /\ effect[r]
    BY <1>4 DEF Return, Goto, Answer
  <2>2. EndpointOf(r).ok \in 200..204
    BY SuccessStatus DEF EndpointOf, RequestsIInv
  <2>3. status \in 200..204 \cup {408}
    BY <1>2, <2>2
  <2> HIDE DEF status
  <2>4. QED
    BY <1>1, <1>2, <2>1, <2>3, RequestMoved DEF RequestsIInv, Place
<1>5. CASE TimeOut(r)
  BY <1>1, <1>2, <1>5, RequestMoved DEF TimeOut, Answer, RequestsIInv
<1>6. ASSUME NEW x \in Error, Throw(r, x) PROVE RequestsIInv'
  <2> DEFINE status == IF answer[r] = 0 THEN ErrorStatus(x) ELSE answer[r]
  <2>1. at' = [at EXCEPT ![r] = "done"] /\ answer' = [answer EXCEPT ![r] = status]
        /\ UNCHANGED effect
    BY <1>6 DEF Throw, Goto, Answer
  <2>2. status \in 401..599 \ {429}
    BY <1>2, RequestsAssumption
  <2> HIDE DEF status
  <2>3. QED
    BY <1>1, <1>2, <2>1, <2>2, RequestMoved DEF RequestsIInv, Place
<1>7. QED
  BY <1>3, <1>4, <1>5, <1>6

LEMMA RequestsStep == RequestsIInv /\ [Next]_requestsVars => RequestsIInv'
<1> SUFFICES ASSUME RequestsIInv, [Next]_requestsVars PROVE RequestsIInv'
  OBVIOUS
<1>1. ASSUME PassSecond \/ Cleanup \/ StopListening \/ ExitForced \/ Crash \/ ExitClosed
             \/ (\E term \in BOOLEAN : Signal(term)) \/ UNCHANGED requestsVars
      PROVE  /\ UNCHANGED request_
             /\ \/ UNCHANGED <<server, exitCode>>
                \/ ~(server' = "exited" /\ exitCode' = 0)
                \/ \A r \in Request : ~Open(r)
  BY <1>1 DEF PassSecond, Cleanup, StopListening, ExitForced, Crash, ExitClosed, Signal, Exit,
              requestsVars, Running, server_
<1>2. QED
  BY <1>1, RequestUntouched, ArriveInv, AuthorizeInv, ThrottleInv, ValidateInv, HandlerInv
     DEF Next, Pass

(* A request acts only for a caller its route admits, and its answer says  *)
(* so, for any routes, callers and limits (guards, pipe, filters,          *)
(* TimeoutInterceptor).                                                    *)
THEOREM RequestsHonest == Spec => []AnswerHonest
<1>1. RequestsIInv => AnswerHonest
  BY DEF RequestsIInv
<1>2. QED
  BY <1>1, RequestsStart, RequestsStep, PTL DEF Spec

(* A clean exit cuts off no request but those whose client was told 408:   *)
(* an answer other than 408 is given only where the request is over, for   *)
(* any number of requests (pipe, TimeoutInterceptor, bootstrap).           *)
THEOREM RequestsCleanExit == Spec => []CleanExitCutsOffTimedOut
<1>1. RequestsIInv => CleanExitCutsOffTimedOut
  BY DEF RequestsIInv
<1>2. QED
  BY <1>1, RequestsStart, RequestsStep, PTL DEF Spec

=============================================================================
