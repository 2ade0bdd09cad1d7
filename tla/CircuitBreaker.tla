--------------------------- MODULE CircuitBreaker ---------------------------
(***************************************************************************)
(* The CircuitBreaker class of common/utils/async.util.ts: one breaker,    *)
(* and calls of execute() that overlap.  Between the check of the state    *)
(* and the result of fn() a call is in flight, and when the result comes   *)
(* the breaker may be in another state than the one that let the call in.  *)
(*                                                                         *)
(* Date.now() is compared only with nextAttemptTime, so the model keeps    *)
(* their difference: wait is the time left until nextAttemptTime.          *)
(* lastFailureTime is written and never read; it is not kept.              *)
(***************************************************************************)
EXTENDS Naturals

CONSTANTS
    Caller,             \* concurrent callers of execute()
    FailureThreshold,   \* opts.failureThreshold
    SuccessThreshold,   \* opts.successThreshold
    ResetTimeout,       \* opts.resetTimeoutMs, in ticks of the clock
    CountCap            \* bound: counters are kept up to here

ASSUME ThresholdAssumption ==
    /\ FailureThreshold \in Nat \ {0}
    /\ SuccessThreshold \in Nat \ {0}
    /\ ResetTimeout \in Nat \ {0}
    /\ CountCap \in Nat
    /\ CountCap >= FailureThreshold
    /\ CountCap >= SuccessThreshold

VARIABLES
    state,          \* _state
    failureCount,
    successCount,
    wait,           \* nextAttemptTime - Date.now(), or 0 once it has passed
    flight,         \* each caller's call of fn(): "none", "sound" or "doomed"
    healthy,        \* whether what fn() calls is up (environment)
    cooling,        \* history: what is left of ResetTimeout since the breaker opened
    badRun,         \* history: failures since the last success
    goodRun,        \* history: successes since the last failure or the last half-opening
    missed          \* history: what an observer that threw has kept from being set anew

breaker == <<state, failureCount, successCount, wait>>
vars == <<state, failureCount, successCount, wait, flight, healthy, cooling, badRun, goodRun, missed>>

Init ==
    /\ state = "closed"
    /\ failureCount = 0
    /\ successCount = 0
    /\ wait = 0
    /\ flight = [c \in Caller |-> "none"]
    /\ healthy = TRUE
    /\ cooling = 0
    /\ badRun = 0
    /\ goodRun = 0
    /\ missed = {}

\* The code compares its counters with thresholds only; CountCap exceeds both.
Up(n) == IF n < CountCap THEN n + 1 ELSE n

-----------------------------------------------------------------------------
(* The state getter, and what execute() does with it.                      *)

\* Mutant: the comparison with nextAttemptTime is turned round.
ObservedEarly == IF state = "open" /\ wait > 0 THEN "half-open" ELSE state

Observed == IF state = "open" /\ wait = 0 THEN "half-open" ELSE state

\* The getter half-opens a breaker whose timeout has passed.
Observe ==
    /\ state' = Observed
    /\ goodRun' = IF Observed # state THEN 0 ELSE goodRun

\* Code outside reads the state, or onStateChange throws in the getter: whoever
\* asked fails, in execute() before it calls fn(), and the breaker is half-open.
ReadState ==
    /\ Observe
    /\ UNCHANGED <<failureCount, successCount, wait, flight, healthy, cooling, badRun, missed>>

\* execute() lets the call through: fn() is called.
Start(c) ==
    /\ flight[c] = "none"
    /\ Observed # "open"
    /\ Observe
    /\ flight' = [flight EXCEPT ![c] = IF healthy THEN "sound" ELSE "doomed"]
    /\ UNCHANGED <<failureCount, successCount, wait, healthy, cooling, badRun, missed>>

\* Code outside resets the breaker.
Reset ==
    /\ state' = "closed"
    /\ failureCount' = 0
    /\ successCount' = 0
    /\ wait' = 0
    /\ cooling' = 0
    /\ missed' = {}
    /\ UNCHANGED <<flight, healthy, badRun, goodRun>>

-----------------------------------------------------------------------------
(* onSuccess and onFailure.  transitionTo assigns the new state and then    *)
(* calls onStateChange: when that throws, the assignments after it are      *)
(* missed, and stay so until the next transition or reset makes them.       *)

Recovered == state = "half-open" /\ successCount + 1 >= SuccessThreshold

\* Mutant: a success in the closed state leaves the failure count alone.
OnSuccessKeeps ==
    /\ IF Recovered THEN state' = "closed" /\ successCount' = 0 /\ failureCount' = 0
       ELSE IF state = "half-open" THEN successCount' = Up(successCount) /\ UNCHANGED <<state, failureCount>>
       ELSE UNCHANGED <<state, successCount, failureCount>>
    /\ missed' = IF Recovered THEN missed \ {"failures", "successes"} ELSE missed
    /\ UNCHANGED <<wait, cooling>>

\* onSuccess, and onStateChange does not throw.
OnSuccess ==
    /\ \/ /\ Recovered
          /\ state' = "closed" /\ failureCount' = 0 /\ successCount' = 0
          /\ missed' = missed \ {"failures", "successes"}
       \/ /\ state = "half-open" /\ ~ Recovered
          /\ successCount' = Up(successCount)
          /\ UNCHANGED <<state, failureCount, missed>>
       \/ /\ state # "half-open"
          /\ failureCount' = 0 /\ missed' = missed \ {"failures"}
          /\ UNCHANGED <<state, successCount>>
    /\ UNCHANGED <<wait, cooling>>

\* onFailure, run in state from, with a success count and what is missed so far.
OnFailure(from, successes, before, throws) ==
    LET opens == from = "half-open" \/ Up(failureCount) >= FailureThreshold
        after == {"timer"} \cup IF from = "half-open" THEN {"successes"} ELSE {} IN
    /\ throws => opens /\ from # "open"
    /\ failureCount' = Up(failureCount)
    /\ state' = IF opens THEN "open" ELSE from
    /\ wait' = IF opens /\ ~ throws THEN ResetTimeout ELSE wait
    /\ successCount' = IF from = "half-open" /\ ~ throws THEN 0 ELSE successes
    /\ missed' = IF ~ opens THEN before ELSE IF throws THEN before \cup after ELSE before \ after
    /\ cooling' = IF opens /\ from # "open" THEN ResetTimeout ELSE cooling

Land(c, good) ==
    /\ flight' = [flight EXCEPT ![c] = "none"]
    /\ badRun' = IF good THEN 0 ELSE Up(badRun)
    /\ goodRun' = IF good THEN Up(goodRun) ELSE 0
    /\ UNCHANGED healthy

Succeed(c) ==
    /\ flight[c] = "sound"
    /\ OnSuccess
    /\ Land(c, TRUE)

MayFail(c) == flight[c] = "doomed" \/ (flight[c] = "sound" /\ ~ healthy)

Fail(c) ==
    /\ MayFail(c)
    /\ OnFailure(state, successCount, missed, FALSE)
    /\ Land(c, FALSE)

\* onStateChange throws as a failure opens the breaker.
FailThrows(c) ==
    /\ MayFail(c)
    /\ OnFailure(state, successCount, missed, TRUE)
    /\ Land(c, FALSE)

\* onStateChange throws as a success closes the breaker: the counts are not
\* reset, and the catch clause runs onFailure for the call that succeeded.
SuccessThrows(c) ==
    /\ flight[c] = "sound"
    /\ Recovered
    /\ \E throws \in BOOLEAN :
        OnFailure("closed", Up(successCount), missed \cup {"failures", "successes"}, throws)
    /\ Land(c, TRUE)

-----------------------------------------------------------------------------
(* Time and the service behind fn().                                       *)

Tick ==
    /\ wait > 0 \/ cooling > 0
    /\ wait' = IF wait > 0 THEN wait - 1 ELSE 0
    /\ cooling' = IF cooling > 0 THEN cooling - 1 ELSE 0
    /\ UNCHANGED <<state, failureCount, successCount, flight, healthy, badRun, goodRun, missed>>

ServiceChanges ==
    /\ healthy' = ~ healthy
    /\ UNCHANGED <<breaker, flight, cooling, badRun, goodRun, missed>>

ObserverThrows(c) == FailThrows(c) \/ SuccessThrows(c)

Settle(c) == Succeed(c) \/ Fail(c) \/ ObserverThrows(c)

Next ==
    \/ \E c \in Caller : Start(c) \/ Settle(c)
    \/ ReadState \/ Reset
    \/ Tick \/ ServiceChanges

Spec == Init /\ [][Next]_vars

\* Time passes, calls of fn() settle, and somebody keeps calling execute().
FairSpec ==
    Spec /\ WF_vars(Tick) /\ \A c \in Caller : WF_vars(Start(c)) /\ WF_vars(Settle(c))

-----------------------------------------------------------------------------
(* Properties.                                                             *)

(* The counters and the timer are natural numbers, the state one of three. *)
TypeOK ==
    /\ state \in {"closed", "open", "half-open"}
    /\ failureCount \in 0..CountCap
    /\ successCount \in 0..CountCap
    /\ wait \in 0..ResetTimeout
    /\ flight \in [Caller -> {"none", "sound", "doomed"}]
    /\ healthy \in BOOLEAN
    /\ cooling \in 0..ResetTimeout
    /\ badRun \in 0..CountCap
    /\ goodRun \in 0..CountCap
    /\ missed \subseteq {"timer", "failures", "successes"}

(* A closed breaker has seen fewer failures than the threshold, even when  *)
(* results of old calls come late or the observer throws.                  *)
ClosedBelowThreshold == state = "closed" => failureCount < FailureThreshold

(* Once open the breaker rejects calls for the whole reset timeout: no     *)
(* late result of an earlier call closes or half-opens it sooner ("open:   *)
(* requests are rejected immediately").  Only an observer that throws as   *)
(* the breaker opens leaves the old timer, until one is set again.         *)
OpenHolds == cooling > 0 /\ "timer" \notin missed => state = "open" /\ wait >= cooling

(* Every recovery starts counting its successes from zero, unless the      *)
(* observer threw where the last one was to reset them.                    *)
TrialsStartAfresh == state # "half-open" /\ "successes" \notin missed => successCount = 0

(* The breaker opens only after failureThreshold consecutive failures,     *)
(* whatever calls they belong to, or with a failure count that the         *)
(* observer kept from being reset when the breaker closed.                 *)
OpensOnConsecutive ==
    [][state = "closed" /\ state' = "open" =>
            badRun' >= FailureThreshold \/ "failures" \in missed]_vars

(* A half-open breaker reopens on a failure, or because the observer threw *)
(* at the very step that closed it, with the failures of before the        *)
(* outage and the success taken for one more reaching the threshold.       *)
ReopensOnFailure ==
    [][state = "half-open" /\ state' = "open" =>
            \/ badRun' > 0
            \/ Recovered /\ {"failures", "successes"} \subseteq missed'
                         /\ failureCount' >= FailureThreshold]_vars

(* It closes only after successThreshold consecutive successes since it    *)
(* half-opened, unless it is reset or the observer kept the successes of   *)
(* an earlier recovery from being forgotten.                               *)
ClosesOnConsecutive ==
    [][state = "half-open" /\ state' = "closed" =>
            goodRun' >= SuccessThreshold \/ "successes" \in missed \/ Reset]_vars

(* All of them: every change of state is earned, or goes back to an        *)
(* assignment that an observer that threw cut off and that nothing has     *)
(* made up for since.  None is made by a result that comes late.           *)
TransitionsEarned ==
    /\ []ClosedBelowThreshold
    /\ []OpenHolds
    /\ []TrialsStartAfresh
    /\ OpensOnConsecutive
    /\ ReopensOnFailure
    /\ ClosesOnConsecutive

(* "half-open -> open: on any failure", and on nothing else: it does not   *)
(* hold, a success reopens the breaker when the observer throws.           *)
ReopensOnlyOnFailure == [][state = "half-open" /\ state' = "open" => badRun' > 0]_vars

(* When the service has recovered for good and the observer throws no      *)
(* more, the breaker recovers: neither results of calls made before nor    *)
(* what throws have left behind can keep it open.                          *)
Recovers ==
    <>[][\A c \in Caller : ~ ObserverThrows(c)]_vars /\ <>[]healthy => <>[](state = "closed")

-----------------------------------------------------------------------------
(* The inductive invariant: the counters of the code against the runs of   *)
(* outcomes they stand for.                                                *)

CountsKnown ==
    /\ state = "closed" /\ "failures" \notin missed => failureCount <= badRun
    /\ state = "half-open" /\ "successes" \notin missed => successCount <= goodRun

IInv == TypeOK /\ ClosedBelowThreshold /\ OpenHolds /\ TrialsStartAfresh /\ CountsKnown
=============================================================================
