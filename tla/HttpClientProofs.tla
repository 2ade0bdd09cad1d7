-------------------------- MODULE HttpClientProofs --------------------------
(***************************************************************************)
(* Proofs about HttpClient for any callers, thresholds, times and retries. *)
(***************************************************************************)
EXTENDS HttpClient, TLAPS

LEMMA UpType == ASSUME NEW n \in 0..CountCap PROVE Up(n) \in 0..CountCap
BY HttpAssumption DEF Up

LEMMA UpMonotone ==
    ASSUME NEW m \in 0..CountCap, NEW n \in 0..CountCap, m <= n PROVE Up(m) <= Up(n)
BY HttpAssumption DEF Up

(* What the circuit keeps, apart from the requests.                        *)
CircuitType ==
    /\ state \in {"none", "CLOSED", "OPEN", "HALF_OPEN"}
    /\ failures \in 0..CountCap
    /\ successes \in 0..CountCap
    /\ since \in 0..MonitoringWindow
    /\ cooling \in 0..ResetTimeout
    /\ badRun \in 0..CountCap
    /\ goodRun \in 0..CountCap

RequestType ==
    /\ pc \in [Caller -> {"idle", "sending", "waiting"}]
    /\ attempt \in [Caller -> 0..MaxRetries]
    /\ doomed \in [Caller -> BOOLEAN]
    /\ healthy \in BOOLEAN
    /\ \A c \in Caller : pc[c] = "waiting" => attempt[c] < MaxRetries

CircuitBooks ==
    /\ ClosedBelowThreshold
    /\ OpenHolds
    /\ state = "CLOSED" => failures <= badRun
    /\ state = "HALF_OPEN" => successes <= goodRun

LEMMA Parts == ASSUME IInv PROVE CircuitType /\ RequestType /\ CircuitBooks
BY DEF IInv, TypeOK, BooksKnown, CircuitType, RequestType, CircuitBooks

LEMMA Whole == ASSUME CircuitType, RequestType, CircuitBooks PROVE IInv
BY DEF IInv, TypeOK, BooksKnown, CircuitType, RequestType, CircuitBooks

LEMMA WholeNext == ASSUME CircuitType', RequestType', CircuitBooks' PROVE IInv'
BY DEF IInv, TypeOK, BooksKnown, CircuitType, RequestType, CircuitBooks

-----------------------------------------------------------------------------
(* The requests: every step leaves their part of the invariant true.       *)

LEMMA SendType ==
    ASSUME RequestType, NEW c \in Caller, NEW n \in 0..MaxRetries, Send(c, n), healthy' = healthy
    PROVE  RequestType'
<1>1. (~ healthy) \in BOOLEAN
  OBVIOUS
<1>2. doomed' \in [Caller -> BOOLEAN]
  BY <1>1 DEF Send, RequestType
<1>3. healthy' \in BOOLEAN
  BY DEF RequestType
<1>4. QED
  BY <1>2, <1>3 DEF Send, RequestType

LEMMA ReturnType ==
    ASSUME RequestType, NEW c \in Caller, Return(c), healthy' = healthy
    PROVE  RequestType'
<1>1. doomed' \in [Caller -> BOOLEAN]
  BY DEF Return, RequestType
<1>2. healthy' \in BOOLEAN
  BY DEF RequestType
<1>3. QED
  BY <1>1, <1>2, HttpAssumption DEF Return, RequestType

LEMMA RequestKeeps ==
    ASSUME RequestType, UNCHANGED <<pc, attempt, doomed>>, healthy' \in BOOLEAN
    PROVE  RequestType'
BY DEF RequestType

-----------------------------------------------------------------------------
(* The circuit.                                                            *)

LEMMA CircuitKeeps ==
    ASSUME CircuitType, CircuitBooks, UNCHANGED <<circuit, history>>
    PROVE  CircuitType' /\ CircuitBooks'
BY DEF circuit, history, CircuitType, CircuitBooks, ClosedBelowThreshold, OpenHolds

LEMMA RequestInv == ASSUME IInv, NEW c \in Caller, Request(c) PROVE IInv'
<1>1. RequestType'
  <2>1. CASE MaxRetries > 0
    <3>1. 1 \in 0..MaxRetries
      BY <2>1, HttpAssumption
    <3>2. QED
      BY <2>1, <3>1, Parts, SendType DEF Request
  <2>2. CASE ~ (MaxRetries > 0)
    BY <2>2, Parts, ReturnType DEF Request
  <2>3. QED
    BY <2>1, <2>2
<1>2. CircuitType' /\ CircuitBooks'
  <2>1. CASE UNCHANGED <<circuit, history>>
    BY <2>1, Parts, CircuitKeeps
  <2>2. CASE state = "none" /\ CreateClient
    BY <2>2, Parts, HttpAssumption
       DEF CreateClient, CircuitType, CircuitBooks, ClosedBelowThreshold, OpenHolds
  <2>3. CASE state = "OPEN" /\ ResetElapsed /\ HalfOpen
    BY <2>3, Parts, HttpAssumption
       DEF HalfOpen, ResetElapsed, CircuitType, CircuitBooks, ClosedBelowThreshold, OpenHolds
  <2>4. QED
    BY <2>1, <2>2, <2>3 DEF Request, CheckCircuit
<1>3. QED
  BY <1>1, <1>2, WholeNext

LEMMA AnsweredInv == ASSUME IInv, NEW c \in Caller, Answered(c) PROVE IInv'
<1>1. RequestType'
  BY Parts, ReturnType DEF Answered
<1>2. CircuitType'
  BY Parts, UpType, HttpAssumption DEF Answered, RecordSuccess, CircuitType
<1>3. CircuitBooks'
  <2>1. (ClosedBelowThreshold /\ OpenHolds)'
    BY Parts, UpType, HttpAssumption
       DEF Answered, RecordSuccess, CircuitType, CircuitBooks, ClosedBelowThreshold, OpenHolds
  <2>2. (state = "CLOSED" => failures <= badRun)'
    BY Parts, UpType, HttpAssumption DEF Answered, RecordSuccess, CircuitType, CircuitBooks
  <2>3. (state = "HALF_OPEN" => successes <= goodRun)'
    BY Parts, UpMonotone, HttpAssumption DEF Answered, RecordSuccess, CircuitType, CircuitBooks
  <2>4. QED
    BY <2>1, <2>2, <2>3 DEF CircuitBooks
<1>4. QED
  BY <1>1, <1>2, <1>3, WholeNext

LEMMA FailedRetryablyInv == ASSUME IInv, NEW c \in Caller, FailedRetryably(c) PROVE IInv'
<1>1. RequestType'
  <2>1. CASE RetriesLeft(c)
    <3>1. /\ pc' = [pc EXCEPT ![c] = "waiting"] /\ UNCHANGED <<attempt, doomed, healthy>>
          /\ attempt[c] < MaxRetries
      BY <2>1 DEF FailedRetryably, RetriesLeft
    <3>2. healthy' \in BOOLEAN /\ doomed' \in [Caller -> BOOLEAN]
      BY <3>1, Parts DEF RequestType
    <3>3. QED
      BY <3>1, <3>2, Parts DEF RequestType
  <2>2. CASE ~ RetriesLeft(c)
    BY <2>2, Parts, ReturnType DEF FailedRetryably
  <2>3. QED
    BY <2>1, <2>2
<1>2. CircuitType'
  BY Parts, UpType, HttpAssumption DEF FailedRetryably, RecordFailure, CircuitType
<1>3. CircuitBooks'
  <2>1. (ClosedBelowThreshold /\ OpenHolds)'
    BY Parts, UpType, HttpAssumption
       DEF FailedRetryably, RecordFailure, CircuitType, CircuitBooks, ClosedBelowThreshold,
           OpenHolds
  <2>2. (state = "CLOSED" => failures <= badRun)'
    BY Parts, UpMonotone, HttpAssumption
       DEF FailedRetryably, RecordFailure, CircuitType, CircuitBooks
  <2>3. (state = "HALF_OPEN" => successes <= goodRun)'
    BY Parts DEF FailedRetryably, RecordFailure
  <2>4. QED
    BY <2>1, <2>2, <2>3 DEF CircuitBooks
<1>4. QED
  BY <1>1, <1>2, <1>3, WholeNext

LEMMA FailedForGoodInv == ASSUME IInv, NEW c \in Caller, FailedForGood(c) PROVE IInv'
BY Parts, ReturnType, CircuitKeeps, WholeNext DEF FailedForGood

LEMMA RetryInv == ASSUME IInv, NEW c \in Caller, Retry(c) PROVE IInv'
<1>1. attempt[c] + 1 \in 0..MaxRetries
  BY Parts, HttpAssumption DEF Retry, RequestType
<1>2. CircuitType' /\ CircuitBooks'
  BY Parts, CircuitKeeps DEF Retry
<1>3. RequestType'
  BY <1>1, Parts, SendType DEF Retry
<1>4. QED
  BY <1>2, <1>3, WholeNext

LEMMA TickInv == ASSUME IInv, Tick PROVE IInv'
<1>1. RequestType'
  <2>1. healthy' \in BOOLEAN
    BY Parts DEF Tick, RequestType
  <2>2. QED
    BY <2>1, Parts, RequestKeeps DEF Tick
<1>2. CircuitType' /\ CircuitBooks'
  BY Parts, HttpAssumption DEF Tick, CircuitType, CircuitBooks, ClosedBelowThreshold, OpenHolds
<1>3. QED
  BY <1>1, <1>2, WholeNext

LEMMA DestroyInv == ASSUME IInv, Destroy PROVE IInv'
<1>1. RequestType'
  <2>1. healthy' \in BOOLEAN
    BY Parts DEF Destroy, RequestType
  <2>2. QED
    BY <2>1, Parts, RequestKeeps DEF Destroy
<1>2. CircuitType' /\ CircuitBooks'
  BY Parts, HttpAssumption DEF Destroy, CircuitType, CircuitBooks, ClosedBelowThreshold, OpenHolds
<1>3. QED
  BY <1>1, <1>2, WholeNext

LEMMA ServiceChangesInv == ASSUME IInv, ServiceChanges PROVE IInv'
<1>1. RequestType'
  <2>1. healthy' \in BOOLEAN
    BY DEF ServiceChanges
  <2>2. QED
    BY <2>1, Parts, RequestKeeps DEF ServiceChanges
<1>2. CircuitType' /\ CircuitBooks'
  BY Parts, CircuitKeeps DEF ServiceChanges
<1>3. QED
  BY <1>1, <1>2, WholeNext

LEMMA StutterInv == ASSUME IInv, UNCHANGED vars PROVE IInv'
<1>1. UNCHANGED <<pc, attempt, doomed, healthy>> /\ UNCHANGED <<circuit, history>>
  BY DEF vars
<1>2. RequestType'
  <2>1. healthy' \in BOOLEAN
    BY <1>1, Parts DEF RequestType
  <2>2. QED
    BY <1>1, <2>1, Parts, RequestKeeps
<1>3. CircuitType' /\ CircuitBooks'
  BY <1>1, Parts, CircuitKeeps
<1>4. QED
  BY <1>2, <1>3, WholeNext

LEMMA NextInv == ASSUME IInv, [Next]_vars PROVE IInv'
BY RequestInv, AnsweredInv, FailedRetryablyInv, FailedForGoodInv, RetryInv, TickInv, DestroyInv,
   ServiceChangesInv, StutterInv
   DEF Next, Proceed

LEMMA InitInv == ASSUME Init PROVE IInv
<1>1. RequestType
  <2>1. doomed \in [Caller -> BOOLEAN]
    BY DEF Init
  <2>2. healthy \in BOOLEAN
    BY Zenon DEF Init
  <2>3. QED
    BY <2>1, <2>2, HttpAssumption DEF Init, RequestType
<1>2. CircuitType /\ CircuitBooks
  BY HttpAssumption DEF Init, CircuitType, CircuitBooks, ClosedBelowThreshold, OpenHolds
<1>3. QED
  BY <1>1, <1>2, Whole

-----------------------------------------------------------------------------

(* The inductive invariant: the circuit's counters never claim more than   *)
(* the outcomes the interceptors recorded.                                 *)
THEOREM Invariance == Spec => []IInv
<1>1. Init => IInv
  BY InitInv
<1>2. IInv /\ [Next]_vars => IInv'
  BY NextInv
<1>3. QED
  BY <1>1, <1>2, PTL DEF Spec

(* Circuit and requests keep their types; attempts stay within MaxRetries. *)
THEOREM TypeCorrect == Spec => []TypeOK
<1>1. IInv => TypeOK
  BY DEF IInv
<1>2. QED
  BY <1>1, Invariance, PTL

(* recordFailure opens the circuit no later than the threshold says.       *)
THEOREM ClosedIsBelow == Spec => []ClosedBelowThreshold
<1>1. IInv => ClosedBelowThreshold
  BY DEF IInv
<1>2. QED
  BY <1>1, Invariance, PTL

(* checkCircuit turns requests away for the whole timeout after opening,   *)
(* whatever the retries still under way bring.                             *)
THEOREM OpenHoldsItsTime == Spec => []OpenHolds
<1>1. IInv => OpenHolds
  BY DEF IInv
<1>2. QED
  BY <1>1, Invariance, PTL

LEMMA OpensStep ==
    ASSUME IInv, [Next]_vars, state = "CLOSED", state' = "OPEN"
    PROVE  badRun' >= FailureThreshold
<1>1. PICK c \in Caller : FailedRetryably(c)
  BY DEF Next, Proceed, Request, CheckCircuit, CreateClient, HalfOpen, Answered, RecordSuccess, FailedForGood,
         Retry, Tick, Destroy, ServiceChanges, circuit, vars
<1>2. Up(failures) >= FailureThreshold /\ badRun' = Up(badRun)
  BY <1>1 DEF FailedRetryably, RecordFailure
<1>3. QED
  BY <1>2, Parts, UpMonotone, UpType, HttpAssumption DEF CircuitType, CircuitBooks

(* CLOSED to OPEN takes FailureThreshold failures since the last closing.  *)
THEOREM OpensAfterFailures == Spec => OpensOnFailures
<1>1. IInv /\ [Next]_vars =>
        [state = "CLOSED" /\ state' = "OPEN" => badRun' >= FailureThreshold]_vars
  BY OpensStep
<1>2. QED
  BY <1>1, Invariance, PTL DEF Spec, OpensOnFailures

LEMMA ClosesStep ==
    ASSUME IInv, [Next]_vars, state = "HALF_OPEN", state' = "CLOSED"
    PROVE  goodRun' >= HalfOpenMaxAttempts
<1>1. PICK c \in Caller : Answered(c)
  BY DEF Next, Proceed, Request, CheckCircuit, CreateClient, HalfOpen, FailedRetryably, RecordFailure,
         FailedForGood, Retry, Tick, Destroy, ServiceChanges, circuit, vars
<1>2. successes + 1 >= HalfOpenMaxAttempts /\ goodRun' = Up(goodRun)
  BY <1>1 DEF Answered, RecordSuccess
<1>3. QED
  BY <1>2, Parts, HttpAssumption DEF CircuitType, CircuitBooks, Up

(* HALF_OPEN to CLOSED takes HalfOpenMaxAttempts successes in a row.       *)
THEOREM ClosesAfterSuccesses == Spec => ClosesOnSuccesses
<1>1. IInv /\ [Next]_vars =>
        [state = "HALF_OPEN" /\ state' = "CLOSED" => goodRun' >= HalfOpenMaxAttempts]_vars
  BY ClosesStep
<1>2. QED
  BY <1>1, Invariance, PTL DEF Spec, ClosesOnSuccesses

(* The four facts together: every change of the circuit's state is earned. *)
THEOREM AllEarned == Spec => TransitionsEarned
<1>1. Spec => []ClosedBelowThreshold
  BY ClosedIsBelow
<1>2. Spec => []OpenHolds
  BY OpenHoldsItsTime
<1>3. Spec => OpensOnFailures
  BY OpensAfterFailures
<1>4. Spec => ClosesOnSuccesses
  BY ClosesAfterSuccesses
<1> QED
  BY <1>1, <1>2, <1>3, <1>4 DEF TransitionsEarned

=============================================================================
