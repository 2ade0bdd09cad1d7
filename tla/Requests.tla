------------------------------ MODULE Requests ------------------------------
(***************************************************************************)
(* The HTTP server: a request on its way through the guards, the pipe, the *)
(* handler, the interceptors and the exception filters, beside other       *)
(* requests, the timer of TimeoutInterceptor and the shutdown of main.ts.  *)
(* The order of guards, interceptors and filters is the one in which       *)
(* SecurityModule, PresentationModule and bootstrap() register them.       *)
(* Handlers and the verdicts of passport and class-validator are inputs.   *)
(***************************************************************************)
EXTENDS RateWindow, Sequences

CONSTANTS
    Request,
    Route,          \* routes in use, names of Endpoint
    Caller,         \* [id, token, roles, permissions]: who may send
    Error,          \* [kind, code]: what handlers throw
    Limit,          \* limit of each prefix of a rate limit's key
    Span,           \* windowSeconds of each
    MaxNow          \* bound: seconds that pass

VARIABLES
    server,         \* "up", "closing", "draining", "exited"
    exitCode,
    timer,          \* the forced exit of SIGTERM is due
    now,
    windows,        \* the Map of both ThrottlerGuards, by bucket
    at,             \* where each request is
    route, caller,  \* what it asks for, and who asks
    effect,         \* its handler has changed something
    answer          \* status of its answer, 0 while there is none

server_ == <<server, exitCode, timer>>
request_ == <<at, route, caller, effect, answer>>
requestsVars == <<server_, now, windows, request_>>
-----------------------------------------------------------------------------
\* The decorators of the controllers: who may come in, the prefix of the rate
\* limit, whether the controller throttles once more, the status of success.
Route_(public, roles, permissions, prefix, twice, ok) ==
    [public |-> public, roles |-> roles, permissions |-> permissions,
     prefix |-> prefix, twice |-> twice, ok |-> ok]

AuthRoutes ==
    [login |-> Route_(TRUE, {}, {}, "auth:login", TRUE, 200),
     register |-> Route_(TRUE, {}, {}, "auth:register", TRUE, 201),
     refresh |-> Route_(FALSE, {}, {}, "auth:refresh", TRUE, 200),
     logout |-> Route_(FALSE, {}, {}, "rl", TRUE, 204)]

\* /users
UserCollection ==
    [createUser |-> Route_(FALSE, {"admin"}, {"users:write"}, "rl", FALSE, 201),
     listUsers |-> Route_(FALSE, {}, {"users:read"}, "rl", FALSE, 200)]

\* /users/:id
UserItem ==
    [getUser |-> Route_(FALSE, {}, {"users:read"}, "rl", FALSE, 200),
     updateUser |-> Route_(FALSE, {}, {"users:write"}, "rl", FALSE, 200),
     deleteUser |-> Route_(FALSE, {"admin"}, {"users:delete"}, "rl", FALSE, 204)]

HealthRoutes ==
    [liveness |-> Route_(TRUE, {}, {}, "rl", FALSE, 200),
     readiness |-> Route_(TRUE, {}, {}, "rl", FALSE, 200)]

Endpoint ==
    [x \in UNION {DOMAIN AuthRoutes, DOMAIN UserCollection, DOMAIN UserItem, DOMAIN HealthRoutes} |->
        CASE x \in DOMAIN AuthRoutes -> AuthRoutes[x]
          [] x \in DOMAIN UserCollection -> UserCollection[x]
          [] x \in DOMAIN UserItem -> UserItem[x]
          [] OTHER -> HealthRoutes[x]]

\* JwtAuthGuard: 401 unless the route is public or the token is good.
Unauthenticated(e, c) == ~e.public /\ c.token # "valid"

\* The user a guard sees: none on a public route, where nobody looks for one.
Known(e, c) == ~e.public /\ c.token = "valid"

\* RolesGuard and PermissionsGuard: 403.
LacksRole(e, c) == e.roles # {} /\ ~(Known(e, c) /\ e.roles \cap c.roles # {})
LacksPermission(e, c) == e.permissions # {} /\ ~(Known(e, c) /\ e.permissions \subseteq c.permissions)

\* The status of the first guard that throws, 0 when none does.
GuardStatus(e, c) ==
    IF Unauthenticated(e, c) THEN 401
    ELSE IF LacksRole(e, c) \/ LacksPermission(e, c) THEN 403
    ELSE 0

\* Key of ThrottlerGuard: its instance (global, or the one of the controller),
\* the prefix, and the user when a guard has found one, else the address.
BucketOf(guard, e, c) ==
    <<guard, e.prefix, IF Known(e, c) THEN "user" ELSE "ip", c.id>>

-----------------------------------------------------------------------------
\* mapErrorCodeToStatus of AllExceptionsFilter, 500 for codes it does not list.
AllStatus(code) ==
    CASE code \in {"VALIDATION_ERROR", "INVALID_EMAIL", "INVALID_PASSWORD",
                   "INVALID_STATUS_TRANSITION"} -> 422
      [] code \in {"INVALID_CREDENTIALS", "TOKEN_EXPIRED", "TOKEN_INVALID",
                   "REFRESH_TOKEN_REVOKED"} -> 401
      [] code \in {"FORBIDDEN", "USER_SUSPENDED", "USER_INACTIVE"} -> 403
      [] code = "ACCOUNT_LOCKED" -> 423
      [] code = "TOO_MANY_ATTEMPTS" -> 429
      [] code \in {"USER_NOT_FOUND", "ROLE_NOT_FOUND", "NOT_FOUND"} -> 404
      [] code \in {"USER_ALREADY_EXISTS", "ROLE_ALREADY_ASSIGNED",
                   "CONCURRENCY_CONFLICT"} -> 409
      [] code = "EXTERNAL_SERVICE_ERROR" -> 502
      [] OTHER -> 500

\* mapErrorCodeToHttpStatus of DomainExceptionFilter.
DomainStatus(code) ==
    CASE code = "ACCOUNT_LOCKED" -> 403
      [] code \in {"USER_INACTIVE", "INVALID_STATUS_TRANSITION"} -> 400
      [] OTHER -> AllStatus(code)

\* The filters as they are registered, and what each catches.  The class that
\* DomainExceptionFilter catches is its own, which nothing throws.
Filters == <<"domain", "http", "all">>
Catches(filter, x) ==
    \/ filter = "all"
    \/ filter = "http" /\ x.kind = "http"
    \/ filter = "domain" /\ x.kind = "wrapped"

\* The framework asks the filters from the last registered to the first.
FilterFor(x) ==
    Filters[CHOOSE i \in 1..Len(Filters) :
                /\ Catches(Filters[i], x)
                /\ \A j \in (i + 1)..Len(Filters) : ~Catches(Filters[j], x)]

ErrorStatus(x) ==
    CASE x.kind = "http" -> x.code
      [] x.kind = "wrapped" /\ FilterFor(x) = "domain" -> DomainStatus(x.code)
      [] x.kind = "domain" -> AllStatus(x.code)
      [] x.kind = "validation" -> 422
      [] OTHER -> 500

-----------------------------------------------------------------------------
Place == {"unsent", "guards", "throttle", "throttleTwice", "pipe", "handler", "done"}

Bucket_ == {BucketOf(g, Endpoint[r], c) : g \in {"global", "controller"}, r \in Route, c \in Caller}

ASSUME RequestsAssumption ==
    /\ Bucket = Bucket_
    /\ Route # {} /\ Route \subseteq DOMAIN Endpoint
    /\ Limit \in [{Endpoint[r].prefix : r \in Route} -> Nat \ {0}]
    /\ Span \in [{Endpoint[r].prefix : r \in Route} -> Nat]
    /\ MaxNow \in Nat
    \* AuthService throws 401; whatever else a handler throws is a server error.
    /\ \A x \in Error : ErrorStatus(x) \in 401..599 \ {429}

TypeOK ==
    /\ server \in {"up", "closing", "draining", "exited"}
    /\ exitCode \in {0, 1}
    /\ timer \in BOOLEAN
    /\ now \in 0..MaxNow
    /\ windows \in [Bucket -> Window]
    /\ at \in [Request -> Place]
    /\ route \in [Request -> Route]
    /\ caller \in [Request -> Caller]
    /\ effect \in [Request -> BOOLEAN]
    /\ answer \in [Request -> Nat]

Init ==
    /\ server = "up"
    /\ exitCode = 0
    /\ timer = FALSE
    /\ now = 0
    /\ windows = [b \in Bucket |-> NoWindow]
    /\ at = [r \in Request |-> "unsent"]
    /\ route = [r \in Request |-> CHOOSE x \in Route : TRUE]     \* until it arrives
    /\ caller = [r \in Request |-> CHOOSE c \in Caller : TRUE]
    /\ effect = [r \in Request |-> FALSE]
    /\ answer = [r \in Request |-> 0]

Running == server # "exited"
EndpointOf(r) == Endpoint[route[r]]
Goto(r, place) == at' = [at EXCEPT ![r] = place]

\* The answer of a request, given once: what comes later is dropped.
Answer(r, status) == answer' = [answer EXCEPT ![r] = IF @ = 0 THEN status ELSE @]

Arrive(r, x, c) ==
    /\ server \in {"up", "closing"}
    /\ at[r] = "unsent"
    /\ Goto(r, "guards")
    /\ route' = [route EXCEPT ![r] = x]
    /\ caller' = [caller EXCEPT ![r] = c]
    /\ UNCHANGED <<server_, now, windows, effect, answer>>

\* JwtAuthGuard, RolesGuard, PermissionsGuard.
Authorize(r) ==
    /\ Running /\ at[r] = "guards"
    /\ LET status == GuardStatus(EndpointOf(r), caller[r]) IN
           IF status = 0
           THEN Goto(r, "throttle") /\ UNCHANGED answer
           ELSE Goto(r, "done") /\ Answer(r, status)
    /\ UNCHANGED <<server_, now, windows, route, caller, effect>>

\* Mutant: a refused request is answered and goes on.
ThrottleWarns(r, guard) ==
    /\ Running
    /\ at[r] = IF guard = "global" THEN "throttle" ELSE "throttleTwice"
    /\ LET e == EndpointOf(r)
           b == BucketOf(guard, e, caller[r])
       IN /\ IF Refused(windows[b], now, Limit[e.prefix])
             THEN Answer(r, 429) /\ UNCHANGED windows
             ELSE /\ windows' = [windows EXCEPT ![b] = Counted(@, now, Span[e.prefix])]
                  /\ UNCHANGED answer
          /\ Goto(r, IF guard = "global" /\ e.twice THEN "throttleTwice" ELSE "pipe")
    /\ UNCHANGED <<server_, now, route, caller, effect>>

\* ThrottlerGuard, registered for all routes and again for AuthController.
Throttle(r, guard) ==
    /\ Running
    /\ at[r] = IF guard = "global" THEN "throttle" ELSE "throttleTwice"
    /\ LET e == EndpointOf(r)
           b == BucketOf(guard, e, caller[r])
       IN IF Refused(windows[b], now, Limit[e.prefix])
          THEN /\ Goto(r, "done")
               /\ Answer(r, 429)
               /\ UNCHANGED windows
          ELSE /\ Goto(r, IF guard = "global" /\ e.twice THEN "throttleTwice" ELSE "pipe")
               /\ windows' = [windows EXCEPT ![b] = Counted(@, now, Span[e.prefix])]
               /\ UNCHANGED answer
    /\ UNCHANGED <<server_, now, route, caller, effect>>

\* Mutant: the pipe reports what it does not understand and calls the handler.
ValidateOn(r, valid) ==
    /\ Running /\ at[r] = "pipe"
    /\ Goto(r, "handler")
    /\ IF valid THEN UNCHANGED answer ELSE Answer(r, 400)
    /\ UNCHANGED <<server_, now, windows, route, caller, effect>>

\* RequestIdGuard lets everything by; then the interceptors open, and the pipe
\* throws a BadRequestException (its body says 422) or calls the handler.
Validate(r, valid) ==
    /\ Running /\ at[r] = "pipe"
    /\ IF valid
       THEN Goto(r, "handler") /\ UNCHANGED answer
       ELSE Goto(r, "done") /\ Answer(r, 400)
    /\ UNCHANGED <<server_, now, windows, route, caller, effect>>

\* The handler makes its change.
Act(r) ==
    /\ Running /\ at[r] = "handler" /\ ~effect[r]
    /\ effect' = [effect EXCEPT ![r] = TRUE]
    /\ UNCHANGED <<server_, now, windows, at, route, caller, answer>>

\* It returns, and both TransformInterceptors wrap what it returned.
Return(r) ==
    /\ Running /\ at[r] = "handler" /\ effect[r]
    /\ Goto(r, "done")
    /\ Answer(r, EndpointOf(r).ok)
    /\ UNCHANGED <<server_, now, windows, route, caller, effect>>

\* It throws, before or after its change.
Throw(r, x) ==
    /\ Running /\ at[r] = "handler"
    /\ Goto(r, "done")
    /\ Answer(r, ErrorStatus(x))
    /\ UNCHANGED <<server_, now, windows, route, caller, effect>>

\* Mutant: the timer runs from the handler's first change.
TimeOutLate(r) ==
    /\ Running /\ at[r] = "handler" /\ effect[r] /\ answer[r] = 0
    /\ Answer(r, 408)
    /\ UNCHANGED <<server_, now, windows, at, route, caller, effect>>

\* The timer of TimeoutInterceptor: 408, while the handler goes on.
TimeOut(r) ==
    /\ Running /\ at[r] = "handler" /\ answer[r] = 0
    /\ Answer(r, 408)
    /\ UNCHANGED <<server_, now, windows, at, route, caller, effect>>

PassSecond ==
    /\ Running /\ now < MaxNow
    /\ now' = now + 1
    /\ UNCHANGED <<server_, windows, request_>>

Cleanup ==
    /\ Running
    /\ windows' = Swept(windows, now)
    /\ UNCHANGED <<server_, now, request_>>

\* SIGTERM arms the forced exit, SIGINT does not; both call app.close().
Signal(term) ==
    /\ server = "up"
    /\ server' = "closing"
    /\ timer' = term
    /\ UNCHANGED <<exitCode, now, windows, request_>>

\* app.close(): the hooks of the modules first, then no more connections.
StopListening ==
    /\ server = "closing"
    /\ server' = "draining"
    /\ UNCHANGED <<exitCode, timer, now, windows, request_>>

Open(r) == at[r] # "unsent" /\ answer[r] = 0

Exit(code) ==
    /\ server' = "exited"
    /\ exitCode' = code
    /\ timer' = FALSE
    /\ UNCHANGED <<now, windows, request_>>

\* app.close() resolves with the close() of Node's server, whose contract it is
\* to wait for every connection in use: for answers, not for handlers.
ExitClosed ==
    /\ server = "draining"
    /\ \A r \in Request : ~Open(r)
    /\ Exit(0)

\* The forced exit, or an uncaught exception.
ExitForced ==
    /\ Running /\ timer
    /\ Exit(1)

Crash ==
    /\ Running
    /\ Exit(1)

Pass(r) ==
    \/ Authorize(r)
    \/ \E g \in {"global", "controller"} : Throttle(r, g)
    \/ \E v \in BOOLEAN : Validate(r, v)

Next ==
    \/ \E r \in Request :
           \/ \E x \in Route, c \in Caller : Arrive(r, x, c)
           \/ Pass(r) \/ Act(r) \/ Return(r) \/ TimeOut(r)
           \/ \E x \in Error : Throw(r, x)
    \/ PassSecond \/ Cleanup
    \/ \E term \in BOOLEAN : Signal(term)
    \/ StopListening \/ ExitClosed \/ ExitForced \/ Crash

\* Timers run and the server's own steps are taken; a handler may hang.
Fairness ==
    /\ \A r \in Request : WF_requestsVars(Pass(r)) /\ WF_requestsVars(TimeOut(r))
    /\ WF_requestsVars(StopListening)
    /\ WF_requestsVars(ExitClosed)
    /\ WF_requestsVars(ExitForced)

Spec == Init /\ [][Next]_requestsVars /\ Fairness

-----------------------------------------------------------------------------
\* A request acts only for a caller the decorators of its route let by; one that
\* was throttled or not understood has not acted and never will; an answer that
\* names an error of the client is final, a success means that the handler did
\* its work, and a timeout says nothing (guards, pipe, TimeoutInterceptor).
AnswerHonest ==
    \A r \in Request :
        /\ effect[r] => GuardStatus(EndpointOf(r), caller[r]) = 0
        /\ answer[r] \in 200..204 => effect[r]
        /\ answer[r] \in {400, 401, 403, 429} => at[r] = "done"
        /\ answer[r] \in {400, 429} => ~effect[r]

\* close() waits for answers and not for handlers, so an exit that reports
\* success may cut a handler off in the middle of its work.  It does so only to a
\* handler whose client has been told 408; no request is lost at a guard or the
\* pipe, and none is cut off that was answered otherwise (bootstrap,
\* TimeoutInterceptor).
CleanExitCutsOffTimedOut ==
    server = "exited" /\ exitCode = 0 =>
        \A r \in Request :
            at[r] \in {"unsent", "done"} \/ (at[r] = "handler" /\ answer[r] = 408)

\* A request is answered, or the process exits, even when its handler hangs.
RequestsAnswered ==
    \A r \in Request : at[r] = "guards" ~> (answer[r] # 0 \/ server = "exited")

\* A server that was told to stop stops.
ShutdownEnds == server = "closing" ~> server = "exited"

\* Nobody waits for ever: neither the client of a handler that hangs, nor whoever
\* told the process to stop (TimeoutInterceptor, bootstrap).
NobodyWaits == RequestsAnswered /\ ShutdownEnds

-----------------------------------------------------------------------------
(* The inductive invariant: what a request can have behind it, by its place. *)

\* Its guards let it by.
Admitted(r) == GuardStatus(EndpointOf(r), caller[r]) = 0

PlacesHonest ==
    \A r \in Request :
        /\ at[r] \in {"throttle", "throttleTwice", "pipe", "handler"} => Admitted(r)
        /\ at[r] \in Place \ {"handler", "done"} => ~effect[r] /\ answer[r] = 0
        /\ at[r] = "handler" => answer[r] \in {0, 408}

RequestsIInv ==
    /\ at \in [Request -> Place]
    /\ route \in [Request -> Route]
    /\ effect \in [Request -> BOOLEAN]
    /\ answer \in [Request -> Nat]
    /\ PlacesHonest
    /\ AnswerHonest
    /\ CleanExitCutsOffTimedOut

=============================================================================
