----------------------------- MODULE HttpClient -----------------------------
(***************************************************************************)
(* HttpClientService: the circuit kept for one named client, and requests  *)
(* that overlap.  request() looks at the circuit once, before its first    *)
(* attempt; the attempts it then makes, and the pauses between them, run   *)
(* on whatever state the circuit has meanwhile, and the interceptors of    *)
(* the client record their outcomes there.                                 *)
(*                                                                         *)
(* Date.now() is only ever compared with lastFailureTime, so the model     *)
(* keeps their difference: since, counted up to the larger of the two      *)
(* times it is compared with.                                              *)
(***************************************************************************)
EXTENDS Naturals

CONSTANTS
    Caller,             \* concurrent callers of request()
    FailureThreshold,   \* options.failureThreshold
    HalfOpenMaxAttempts,\* successes that close a half-open circuit
    ResetTimeout,       \* resetTimeoutMs, in ticks of the clock
    MonitoringWindow,   \* monitoringWindowMs, in ticks
    MaxRetries,         \* options.retries: attempts one request may make
    CountCap            \* bound: counters are kept up to here

ASSUME HttpAssumption ==
    /\ FailureThreshold \in Nat \ {0}
    /\ HalfOpenMaxAttempts \in Nat \ {0}
    /\ ResetTimeout \in Nat \ {0}
    /\ MonitoringWindow \in Nat
    /\ MonitoringWindow >= ResetTimeout
    /\ MaxRetries \in Nat
    /\ CountCap \in Nat
    /\ CountCap >= FailureThreshold + 1
    /\ CountCap >= HalfOpenMaxAttempts

VARIABLES
    state,      \* circuit.state, or "none" while the client does not exist
    failures,   \* circuit.failures
    successes,  \* circuit.successes
    since,      \* Date.now() - circuit.lastFailureTime
    pc,         \* each caller: "idle", "sending" an attempt, "waiting" to retry
    attempt,    \* the attempt it is at
    doomed,     \* whether the attempt was sent while the service was down
    healthy,    \* whether the service is up (environment)
    cooling,    \* history: what is left of ResetTimeout since the circuit opened
    badRun,     \* history: failures since the circuit last closed
    goodRun     \* history: successes since the last failure or half-opening

circuit == <<state, failures, successes, since>>
history == <<cooling, badRun, goodRun>>
vars == <<circuit, pc, attempt, doomed, healthy, history>>

Init ==
    /\ state = "none"
    /\ failures = 0
    /\ successes = 0
    /\ since = MonitoringWindow
    /\ pc = [c \in Caller |-> "idle"]
    /\ attempt = [c \in Caller |-> 0]
    /\ doomed = [c \in Caller |-> FALSE]
    /\ healthy = TRUE
    /\ cooling = 0
    /\ badRun = 0
    /\ goodRun = 0

\* Counters above both thresholds are all alike to the code.
Up(n) == IF n < CountCap THEN n + 1 ELSE n

Send(c, n) ==
    /\ pc' = [pc EXCEPT ![c] = "sending"]
    /\ attempt' = [attempt EXCEPT ![c] = n]
    /\ doomed' = [doomed EXCEPT ![c] = ~ healthy]

Return(c) ==
    /\ pc' = [pc EXCEPT ![c] = "idle"]
    /\ attempt' = [attempt EXCEPT ![c] = 0]
    /\ doomed' = [doomed EXCEPT ![c] = FALSE]

-----------------------------------------------------------------------------
(* request(): checkCircuit, getClient, and the first attempt.              *)

\* Mutant: an open circuit waits for a time its clock never shows.
ResetElapsedNever == since > MonitoringWindow

ResetElapsed == since >= ResetTimeout

\* Mutant: half-opening keeps the successes of an earlier recovery.
HalfOpenKeeps ==
    /\ state' = "HALF_OPEN"
    /\ goodRun' = 0
    /\ UNCHANGED <<failures, successes, since, cooling, badRun>>

HalfOpen ==
    /\ state' = "HALF_OPEN"
    /\ successes' = 0
    /\ goodRun' = 0
    /\ UNCHANGED <<failures, since, cooling, badRun>>

\* getClient creates the client, and initCircuit its circuit.
CreateClient ==
    /\ state' = "CLOSED"
    /\ failures' = 0
    /\ successes' = 0
    /\ since' = MonitoringWindow
    /\ badRun' = 0
    /\ UNCHANGED <<cooling, goodRun>>

\* An open circuit throws until its time is up; the others let everybody by.
CheckCircuit ==
    \/ state \in {"CLOSED", "HALF_OPEN"} /\ UNCHANGED <<circuit, history>>
    \/ state = "OPEN" /\ ResetElapsed /\ HalfOpen

\* With no retries allowed the loop body never runs: nothing is sent.
Request(c) ==
    /\ pc[c] = "idle"
    /\ \/ state = "none" /\ CreateClient
       \/ CheckCircuit
    /\ IF MaxRetries > 0 THEN Send(c, 1) ELSE Return(c)
    /\ UNCHANGED healthy

-----------------------------------------------------------------------------
(* The response interceptors.                                              *)

\* Mutant: recovery compares halfOpenAttempts, which nothing increments.
RecordSuccessNeverCloses ==
    /\ successes' = IF state = "HALF_OPEN" THEN Up(successes) ELSE successes
    /\ UNCHANGED <<state, failures, badRun>>

\* In the closed state a success soon after a failure takes one failure off.
RecordSuccess ==
    LET closes == state = "HALF_OPEN" /\ successes + 1 >= HalfOpenMaxAttempts
        decays == state = "CLOSED" /\ since < MonitoringWindow /\ failures > 0
    IN
    /\ state' = IF closes THEN "CLOSED" ELSE state
    /\ successes' = IF state = "HALF_OPEN" THEN Up(successes) ELSE successes
    /\ failures' = IF closes THEN 0 ELSE IF decays THEN failures - 1 ELSE failures
    /\ badRun' = IF closes THEN 0 ELSE badRun

RecordFailure ==
    LET opens == state = "HALF_OPEN" \/ (state = "CLOSED" /\ Up(failures) >= FailureThreshold) IN
    /\ state' = IF opens THEN "OPEN" ELSE state
    /\ failures' = IF state = "none" THEN failures ELSE Up(failures)
    /\ since' = IF state = "none" THEN since ELSE 0
    /\ cooling' = IF opens THEN ResetTimeout ELSE cooling

\* The request interceptor's outcome handlers, then the rest of the loop body.
Answered(c) ==
    /\ pc[c] = "sending" /\ ~ doomed[c]
    /\ RecordSuccess
    /\ goodRun' = Up(goodRun)
    /\ Return(c)
    /\ UNCHANGED <<since, healthy, cooling>>

RetriesLeft(c) == attempt[c] < MaxRetries

MayFail(c) == pc[c] = "sending" /\ (doomed[c] \/ ~ healthy)

FailedRetryably(c) ==
    /\ MayFail(c)
    /\ RecordFailure
    /\ badRun' = Up(badRun)
    /\ goodRun' = 0
    /\ IF RetriesLeft(c)
       THEN pc' = [pc EXCEPT ![c] = "waiting"] /\ UNCHANGED <<attempt, doomed>>
       ELSE Return(c)
    /\ UNCHANGED <<successes, healthy>>

\* An error that is not retryable (a 404, say, from a service that is up) ends
\* the request and is recorded nowhere.
FailedForGood(c) ==
    /\ pc[c] = "sending"
    /\ Return(c)
    /\ UNCHANGED <<circuit, healthy, history>>

\* Mutant: the attempt is not counted.
RetryUncounted(c) ==
    /\ pc[c] = "waiting"
    /\ Send(c, attempt[c])
    /\ UNCHANGED <<circuit, healthy, history>>

\* sleep() is over: the next attempt goes out, and the circuit is not asked.
Retry(c) ==
    /\ pc[c] = "waiting"
    /\ Send(c, attempt[c] + 1)
    /\ UNCHANGED <<circuit, healthy, history>>

-----------------------------------------------------------------------------
(* Time, shutdown, and the service behind the client.                      *)

Tick ==
    /\ since < MonitoringWindow
    /\ since' = since + 1
    /\ cooling' = IF cooling > 0 THEN cooling - 1 ELSE 0
    /\ UNCHANGED <<state, failures, successes, pc, attempt, doomed, healthy, badRun, goodRun>>

\* onModuleDestroy clears clients and circuits; requests in flight run on.
Destroy ==
    /\ state # "none"
    /\ state' = "none"
    /\ failures' = 0
    /\ successes' = 0
    /\ since' = MonitoringWindow
    /\ cooling' = 0
    /\ UNCHANGED <<pc, attempt, doomed, healthy, badRun, goodRun>>

ServiceChanges ==
    /\ healthy' = ~ healthy
    /\ UNCHANGED <<circuit, pc, attempt, doomed, history>>

Proceed(c) == Answered(c) \/ FailedRetryably(c) \/ FailedForGood(c) \/ Retry(c)

Next ==
    \/ \E c \in Caller : Request(c) \/ Proceed(c)
    \/ Tick \/ Destroy \/ ServiceChanges

Spec == Init /\ [][Next]_vars

\* Time passes, attempts are answered or fail (axios times them out), pauses
\* end, and somebody keeps making requests; a service that is up does not
\* refuse for good every request it gets.
FairSpec ==
    /\ Spec
    /\ WF_vars(Tick)
    /\ \A c \in Caller : WF_vars(Request(c)) /\ WF_vars(Proceed(c)) /\ SF_vars(Answered(c))

-----------------------------------------------------------------------------
(* Properties.                                                             *)

(* The circuit's fields keep their types, a request its attempts.          *)
TypeOK ==
    /\ state \in {"none", "CLOSED", "OPEN", "HALF_OPEN"}
    /\ failures \in 0..CountCap
    /\ successes \in 0..CountCap
    /\ since \in 0..MonitoringWindow
    /\ pc \in [Caller -> {"idle", "sending", "waiting"}]
    /\ attempt \in [Caller -> 0..MaxRetries]
    /\ doomed \in [Caller -> BOOLEAN]
    /\ healthy \in BOOLEAN
    /\ cooling \in 0..ResetTimeout
    /\ badRun \in 0..CountCap
    /\ goodRun \in 0..CountCap

(* A closed circuit has fewer failures on its books than the threshold.    *)
ClosedBelowThreshold == state = "CLOSED" => failures < FailureThreshold

(* Once open the circuit turns requests away for the whole reset timeout:  *)
(* retries that fail meanwhile extend it, none that succeeds shortens it.  *)
OpenHolds == cooling > 0 => state = "OPEN" /\ since + cooling <= ResetTimeout

(* A circuit opens only after as many failures since it last closed as the *)
(* threshold says, however retries and successes of other requests mix.    *)
OpensOnFailures ==
    [][state = "CLOSED" /\ state' = "OPEN" => badRun' >= FailureThreshold]_vars

(* A half-open circuit closes only after halfOpenMaxAttempts successes     *)
(* since it half-opened with no failure between them.                      *)
ClosesOnSuccesses ==
    [][state = "HALF_OPEN" /\ state' = "CLOSED" => goodRun' >= HalfOpenMaxAttempts]_vars

(* All of them: every change of the circuit is earned, however retries run *)
(* on through changes made by other requests.                              *)
TransitionsEarned ==
    /\ []ClosedBelowThreshold
    /\ []OpenHolds
    /\ OpensOnFailures
    /\ ClosesOnSuccesses

(* Every request returns, whatever the circuit does meanwhile.             *)
RequestsEnd == \A c \in Caller : pc[c] # "idle" ~> pc[c] = "idle"

(* An open circuit always gets its trial request, even when the service    *)
(* never recovers: failing retries postpone it finitely often.             *)
AlwaysTried == []<>(state # "OPEN")

(* When the service has recovered for good, the circuit closes for good.   *)
Recovers == <>[](healthy /\ state # "none") => <>[](state = "CLOSED")

-----------------------------------------------------------------------------
(* The inductive invariant: the books of the circuit against the outcomes. *)

BooksKnown ==
    /\ state = "CLOSED" => failures <= badRun
    /\ state = "HALF_OPEN" => successes <= goodRun
    /\ \A c \in Caller : pc[c] = "waiting" => attempt[c] < MaxRetries

IInv == TypeOK /\ ClosedBelowThreshold /\ OpenHolds /\ BooksKnown
=============================================================================
