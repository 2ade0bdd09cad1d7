------------------------ MODULE CircuitBreakerProofs ------------------------
(***************************************************************************)
(* Proofs about CircuitBreaker for any callers, thresholds and timeout.    *)
(***************************************************************************)
EXTENDS CircuitBreaker, TLAPS

LEMMA UpType == ASSUME NEW n \in 0..CountCap PROVE Up(n) \in 0..CountCap
BY ThresholdAssumption DEF Up

LEMMA UpMonotone ==
    ASSUME NEW m \in 0..CountCap, NEW n \in 0..CountCap, m <= n
    PROVE  Up(m) <= Up(n) /\ m <= Up(n)
BY ThresholdAssumption DEF Up

Miss == {"timer", "failures", "successes"}

(* onFailure, for a call that failed in the state the breaker is in, or    *)
(* for a success after the observer threw where it closed the breaker.     *)
LEMMA OnFailureInv ==
    ASSUME IInv, NEW from \in {"closed", "open", "half-open"},
           NEW successes \in 0..CountCap, NEW before \in SUBSET Miss, NEW throws \in BOOLEAN,
           OnFailure(from, successes, before, throws),
           flight' \in [Caller -> {"none", "sound", "doomed"}], healthy' = healthy,
           badRun' \in 0..CountCap, goodRun' \in 0..CountCap,
           \/ from = state /\ successes = successCount /\ before = missed /\ badRun' = Up(badRun)
           \/ /\ from = "closed" /\ state = "half-open"
              /\ before = missed \cup {"failures", "successes"}
    PROVE  IInv'
<1>1. TypeOK'
  <2>1. missed' \subseteq Miss
    BY DEF OnFailure, Miss
  <2>2. QED
    BY <2>1, UpType, ThresholdAssumption DEF IInv, TypeOK, OnFailure, Miss
<1>2. ClosedBelowThreshold'
  BY UpType, ThresholdAssumption DEF IInv, TypeOK, OnFailure, ClosedBelowThreshold
<1>3. OpenHolds'
  BY UpType, ThresholdAssumption DEF IInv, TypeOK, OnFailure, OpenHolds
<1>4. TrialsStartAfresh'
  BY UpType, ThresholdAssumption DEF IInv, TypeOK, OnFailure, TrialsStartAfresh
<1>5. CountsKnown'
  BY UpType, UpMonotone, ThresholdAssumption DEF IInv, TypeOK, OnFailure, CountsKnown
<1>6. QED
  BY <1>1, <1>2, <1>3, <1>4, <1>5 DEF IInv

LEMMA ObserveInv ==
    ASSUME IInv, Observe, flight' \in [Caller -> {"none", "sound", "doomed"}],
           UNCHANGED <<failureCount, successCount, wait, healthy, cooling, badRun, missed>>
    PROVE  IInv'
<1>1. TypeOK'
  BY ThresholdAssumption DEF IInv, TypeOK, Observe, Observed
<1>2. ClosedBelowThreshold' /\ TrialsStartAfresh' /\ OpenHolds' /\ CountsKnown'
  BY ThresholdAssumption
     DEF IInv, TypeOK, Observe, Observed, ClosedBelowThreshold, TrialsStartAfresh, OpenHolds,
         CountsKnown
<1>3. QED
  BY <1>1, <1>2 DEF IInv

LEMMA SucceedInv == ASSUME IInv, NEW c \in Caller, Succeed(c) PROVE IInv'
<1>1. TypeOK'
  <2>1. missed' \subseteq missed
    BY DEF Succeed, OnSuccess
  <2>2. flight' \in [Caller -> {"none", "sound", "doomed"}] /\ healthy' \in BOOLEAN
    BY DEF IInv, TypeOK, Succeed, Land
  <2>3. /\ state' \in {"closed", "open", "half-open"}
        /\ failureCount' \in 0..CountCap /\ successCount' \in 0..CountCap
    BY UpType, ThresholdAssumption DEF IInv, TypeOK, Succeed, OnSuccess
  <2>4. /\ wait' \in 0..ResetTimeout /\ cooling' \in 0..ResetTimeout
        /\ badRun' \in 0..CountCap /\ goodRun' \in 0..CountCap
    BY UpType, ThresholdAssumption DEF IInv, TypeOK, Succeed, OnSuccess, Land
  <2>5. QED
    BY <2>1, <2>2, <2>3, <2>4 DEF IInv, TypeOK
<1>2. ClosedBelowThreshold' /\ TrialsStartAfresh'
  BY UpType, ThresholdAssumption
     DEF IInv, TypeOK, Succeed, OnSuccess, Land, ClosedBelowThreshold, TrialsStartAfresh
<1>3. OpenHolds'
  BY UpType, ThresholdAssumption DEF IInv, TypeOK, Succeed, OnSuccess, Land, OpenHolds, Recovered
<1>4. CountsKnown'
  BY UpType, UpMonotone, ThresholdAssumption
     DEF IInv, TypeOK, Succeed, OnSuccess, Land, CountsKnown
<1>5. QED
  BY <1>1, <1>2, <1>3, <1>4 DEF IInv

LEMMA FailedInv ==
    ASSUME IInv, NEW c \in Caller, NEW throws \in BOOLEAN,
           OnFailure(state, successCount, missed, throws), Land(c, FALSE)
    PROVE  IInv'
<1>1. /\ flight' \in [Caller -> {"none", "sound", "doomed"}] /\ healthy' = healthy
      /\ badRun' = Up(badRun) /\ goodRun' = 0
  BY DEF Land, IInv, TypeOK
<1>2. badRun' \in 0..CountCap /\ goodRun' \in 0..CountCap
  BY <1>1, UpType, ThresholdAssumption DEF IInv, TypeOK
<1>3. /\ state \in {"closed", "open", "half-open"} /\ successCount \in 0..CountCap
      /\ missed \in SUBSET Miss
  BY DEF IInv, TypeOK, Miss
<1>4. QED
  BY <1>1, <1>2, <1>3, OnFailureInv

LEMMA SuccessThrowsInv == ASSUME IInv, NEW c \in Caller, SuccessThrows(c) PROVE IInv'
<1> DEFINE before == missed \cup {"failures", "successes"}
<1>1. PICK throws \in BOOLEAN : OnFailure("closed", Up(successCount), before, throws)
  BY DEF SuccessThrows
<1>2. /\ flight' \in [Caller -> {"none", "sound", "doomed"}] /\ healthy' = healthy
      /\ badRun' = 0 /\ goodRun' = Up(goodRun)
  BY DEF SuccessThrows, Land, IInv, TypeOK
<1>3. badRun' \in 0..CountCap /\ goodRun' \in 0..CountCap /\ Up(successCount) \in 0..CountCap
  BY <1>2, UpType, ThresholdAssumption DEF IInv, TypeOK
<1>4. before \in SUBSET Miss /\ state = "half-open"
  BY DEF IInv, TypeOK, Miss, SuccessThrows, Recovered
<1>5. QED
  BY <1>1, <1>2, <1>3, <1>4, OnFailureInv

LEMMA TickInv == ASSUME IInv, Tick PROVE IInv'
<1>1. TypeOK'
  BY ThresholdAssumption DEF IInv, TypeOK, Tick
<1>2. ClosedBelowThreshold' /\ TrialsStartAfresh' /\ OpenHolds' /\ CountsKnown'
  BY ThresholdAssumption
     DEF IInv, TypeOK, Tick, ClosedBelowThreshold, TrialsStartAfresh, OpenHolds, CountsKnown
<1>3. QED
  BY <1>1, <1>2 DEF IInv

LEMMA ResetInv == ASSUME IInv, Reset PROVE IInv'
BY ThresholdAssumption
   DEF IInv, TypeOK, Reset, ClosedBelowThreshold, TrialsStartAfresh, OpenHolds, CountsKnown

LEMMA QuietInv ==
    ASSUME IInv, UNCHANGED <<breaker, cooling, badRun, goodRun, missed, flight>>,
           healthy' \in BOOLEAN
    PROVE  IInv'
BY DEF breaker, IInv, TypeOK, ClosedBelowThreshold, TrialsStartAfresh, OpenHolds, CountsKnown

LEMMA NextInv == ASSUME IInv, [Next]_vars PROVE IInv'
<1>1. ASSUME NEW c \in Caller, Start(c) PROVE IInv'
  <2>1. /\ flight' \in [Caller -> {"none", "sound", "doomed"}] /\ Observe
        /\ UNCHANGED <<failureCount, successCount, wait, healthy, cooling, badRun, missed>>
    BY <1>1 DEF Start, IInv, TypeOK
  <2>2. QED
    BY <2>1, ObserveInv
<1>2. ASSUME NEW c \in Caller, Settle(c) PROVE IInv'
  <2>1. CASE Fail(c)
    BY <2>1, FailedInv DEF Fail
  <2>2. CASE FailThrows(c)
    BY <2>2, FailedInv DEF FailThrows
  <2>3. QED
    BY <1>2, <2>1, <2>2, SucceedInv, SuccessThrowsInv DEF Settle, ObserverThrows
<1>3. CASE ReadState
  BY <1>3, ObserveInv DEF ReadState, IInv, TypeOK
<1>4. CASE ServiceChanges
  <2>1. healthy' \in BOOLEAN
    BY <1>4 DEF ServiceChanges
  <2>2. QED
    BY <1>4, <2>1, QuietInv DEF ServiceChanges
<1>5. CASE UNCHANGED vars
  <2>1. healthy' \in BOOLEAN
    BY <1>5 DEF vars, IInv, TypeOK
  <2>2. QED
    BY <1>5, <2>1, QuietInv DEF vars, breaker
<1>6. QED
  BY <1>1, <1>2, <1>3, <1>4, <1>5, ResetInv, TickInv DEF Next

LEMMA InitInv == ASSUME Init PROVE IInv
<1>1. TypeOK
  <2>1. healthy \in BOOLEAN
    BY Zenon DEF Init
  <2>2. flight \in [Caller -> {"none", "sound", "doomed"}]
    BY DEF Init
  <2>3. QED
    BY <2>1, <2>2, ThresholdAssumption DEF Init, TypeOK
<1>2. ClosedBelowThreshold /\ TrialsStartAfresh /\ OpenHolds /\ CountsKnown
  BY ThresholdAssumption
     DEF Init, ClosedBelowThreshold, TrialsStartAfresh, OpenHolds, CountsKnown
<1>3. QED
  BY <1>1, <1>2 DEF IInv

(* The inductive invariant holds: the counters never claim more than the   *)
(* outcomes that really came.                                              *)
THEOREM Invariance == Spec => []IInv
<1>1. Init => IInv
  BY InitInv
<1>2. IInv /\ [Next]_vars => IInv'
  BY NextInv
<1>3. QED
  BY <1>1, <1>2, PTL DEF Spec

(* The breaker's fields keep their types.                                  *)
THEOREM TypeCorrect == Spec => []TypeOK
<1>1. IInv => TypeOK
  BY DEF IInv
<1>2. QED
  BY <1>1, Invariance, PTL

(* onFailure opens a closed breaker in time, throwing observer or not.     *)
THEOREM ClosedIsBelow == Spec => []ClosedBelowThreshold
<1>1. IInv => ClosedBelowThreshold
  BY DEF IInv
<1>2. QED
  BY <1>1, Invariance, PTL

(* Late results never shorten the time an open breaker rejects calls; only *)
(* an observer that threw as it opened leaves it without a timer, until    *)
(* the next failure sets one (transitionTo before nextAttemptTime).        *)
THEOREM OpenHoldsItsTime == Spec => []OpenHolds
<1>1. IInv => OpenHolds
  BY DEF IInv
<1>2. QED
  BY <1>1, Invariance, PTL

(* A recovery inherits successes only from one whose reset of successCount *)
(* the observer cut off.                                                   *)
THEOREM TrialsAfresh == Spec => []TrialsStartAfresh
<1>1. IInv => TrialsStartAfresh
  BY DEF IInv
<1>2. QED
  BY <1>1, Invariance, PTL

LEMMA OpensStep ==
    ASSUME IInv, [Next]_vars, state = "closed", state' = "open"
    PROVE  badRun' >= FailureThreshold \/ "failures" \in missed
<1>1. PICK c \in Caller : Fail(c) \/ FailThrows(c)
  BY DEF Next, Settle, ObserverThrows, Start, Succeed, OnSuccess, SuccessThrows, Recovered,
         ReadState, Observe, Observed, Reset, Tick, ServiceChanges, breaker, vars
<1>2. Up(failureCount) >= FailureThreshold /\ badRun' = Up(badRun)
  BY <1>1 DEF Fail, FailThrows, OnFailure, Land
<1>3. SUFFICES ASSUME "failures" \notin missed PROVE badRun' >= FailureThreshold
  OBVIOUS
<1>4. failureCount <= badRun
  BY <1>3 DEF IInv, CountsKnown
<1>5. QED
  BY <1>2, <1>4, UpMonotone, UpType, ThresholdAssumption DEF IInv, TypeOK

(* closed to open takes failureThreshold failures in a row, or a failure   *)
(* count whose reset the observer cut off.                                 *)
THEOREM OpensAfterFailures == Spec => OpensOnConsecutive
<1>1. IInv /\ [Next]_vars =>
        [state = "closed" /\ state' = "open" =>
            badRun' >= FailureThreshold \/ "failures" \in missed]_vars
  BY OpensStep
<1>2. QED
  BY <1>1, Invariance, PTL DEF Spec, OpensOnConsecutive

LEMMA ReopensStep ==
    ASSUME IInv, [Next]_vars, state = "half-open", state' = "open"
    PROVE  \/ badRun' > 0
           \/ Recovered /\ {"failures", "successes"} \subseteq missed'
                        /\ failureCount' >= FailureThreshold
<1>1. PICK c \in Caller : Fail(c) \/ FailThrows(c) \/ SuccessThrows(c)
  BY DEF Next, Settle, ObserverThrows, Start, Succeed, OnSuccess, ReadState, Observe, Observed,
         Reset, Tick, ServiceChanges, breaker, vars
<1>2. CASE Fail(c) \/ FailThrows(c)
  <2>1. badRun' = Up(badRun)
    BY <1>2 DEF Fail, FailThrows, Land
  <2>2. QED
    BY <2>1, ThresholdAssumption DEF Up, IInv, TypeOK
<1>3. CASE SuccessThrows(c)
  <2>1. PICK throws \in BOOLEAN :
          OnFailure("closed", Up(successCount), missed \cup {"failures", "successes"}, throws)
    BY <1>3 DEF SuccessThrows
  <2>2. Up(failureCount) >= FailureThreshold /\ failureCount' = Up(failureCount)
    BY <2>1 DEF OnFailure
  <2>3. {"failures", "successes"} \subseteq missed'
    BY <2>1 DEF OnFailure
  <2>4. QED
    BY <1>3, <2>2, <2>3 DEF SuccessThrows
<1>4. QED
  BY <1>1, <1>2, <1>3

(* half-open to open takes a failure, or an observer that throws at the    *)
(* success that closes the breaker while failureCount is at the threshold. *)
THEOREM ReopensAfterFailure == Spec => ReopensOnFailure
<1>1. IInv /\ [Next]_vars =>
        [state = "half-open" /\ state' = "open" =>
            \/ badRun' > 0
            \/ Recovered /\ {"failures", "successes"} \subseteq missed'
                         /\ failureCount' >= FailureThreshold]_vars
  BY ReopensStep
<1>2. QED
  BY <1>1, Invariance, PTL DEF Spec, ReopensOnFailure

LEMMA ClosesStep ==
    ASSUME IInv, [Next]_vars, state = "half-open", state' = "closed", ~ Reset
    PROVE  goodRun' >= SuccessThreshold \/ "successes" \in missed
<1>1. PICK c \in Caller : Succeed(c) \/ SuccessThrows(c)
  BY DEF Next, Settle, ObserverThrows, Start, Fail, FailThrows, OnFailure, ReadState, Observe,
         Observed, Tick, ServiceChanges, breaker, vars
<1>2. successCount + 1 >= SuccessThreshold /\ goodRun' = Up(goodRun)
  BY <1>1 DEF Succeed, SuccessThrows, OnSuccess, Recovered, Land
<1>3. SUFFICES ASSUME "successes" \notin missed PROVE goodRun' >= SuccessThreshold
  OBVIOUS
<1>4. successCount <= goodRun
  BY <1>3 DEF IInv, CountsKnown
<1>5. QED
  BY <1>2, <1>4, ThresholdAssumption DEF IInv, TypeOK, Up

(* half-open to closed takes successThreshold successes in a row, a reset, *)
(* or successes of an earlier recovery that the observer kept.             *)
THEOREM ClosesAfterSuccesses == Spec => ClosesOnConsecutive
<1>1. IInv /\ [Next]_vars =>
        [state = "half-open" /\ state' = "closed" =>
            goodRun' >= SuccessThreshold \/ "successes" \in missed \/ Reset]_vars
  BY ClosesStep
<1>2. QED
  BY <1>1, Invariance, PTL DEF Spec, ClosesOnConsecutive

(* The six facts together: every change of the breaker's state is earned,  *)
(* or goes back to an assignment that an observer that threw cut off and   *)
(* that no transition or reset has made up for.                            *)
THEOREM AllEarned == Spec => TransitionsEarned
<1>1. Spec => []ClosedBelowThreshold
  BY ClosedIsBelow
<1>2. Spec => []OpenHolds
  BY OpenHoldsItsTime
<1>3. Spec => []TrialsStartAfresh
  BY TrialsAfresh
<1>4. Spec => OpensOnConsecutive
  BY OpensAfterFailures
<1>5. Spec => ReopensOnFailure
  BY ReopensAfterFailure
<1>6. Spec => ClosesOnConsecutive
  BY ClosesAfterSuccesses
<1> QED
  BY <1>1, <1>2, <1>3, <1>4, <1>5, <1>6 DEF TransitionsEarned

=============================================================================
