---------------------------- MODULE LedgerProofs ----------------------------
(***************************************************************************)
(* Proofs about Ledger for any organizations, accounts, sessions, calls    *)
(* and bounds: the invariants of money, locks and keys, and that the       *)
(* interleaved statements implement AtomicLedger.                          *)
(***************************************************************************)
EXTENDS Ledger, FiniteSetTheorems, SequenceTheorems, WellFoundedInduction, TLAPS

(* Only the session of c changed.                                          *)
OnlySession(c) ==
    /\ UNCHANGED db
    /\ \A d \in Caller \ {c} :
        pc'[d] = pc[d] /\ fn'[d] = fn[d] /\ call'[d] = call[d]
        /\ sbal'[d] = sbal[d] /\ dbal'[d] = dbal[d]

(* The tables are what the committed state's invariants speak of: a step   *)
(* that changes one session need only be checked on that session.          *)
LEMMA SessionStep ==
    ASSUME IInv, NEW c \in Caller, OnlySession(c), TypeOK',
           CallKnown(c)', RowsStillAsRead(c)',
           \A d \in Caller \ {c} : LocksCompatible(c, d)' /\ LocksCompatible(d, c)',
           \A d \in Caller \ {c} :
                RateKeyOf(c)' = RateKeyOf(d)' => ~ (HoldsRateRow(c)' /\ HoldsRateRow(d)')
    PROVE  IInv'
<1>1. \A d \in Caller \ {c} : CallKnown(d)' /\ RowsStillAsRead(d)'
  <2> SUFFICES ASSUME NEW d \in Caller \ {c} PROVE CallKnown(d)' /\ RowsStillAsRead(d)'
    OBVIOUS
  <2>1. CallKnown(d) /\ RowsStillAsRead(d)
    BY DEF IInv
  <2>2. /\ pc'[d] = pc[d] /\ fn'[d] = fn[d] /\ call'[d] = call[d]
        /\ sbal'[d] = sbal[d] /\ dbal'[d] = dbal[d]
        /\ balance' = balance /\ status' = status /\ txns' = txns
    BY DEF OnlySession, db
  <2>3. CallKnown(d)'
    BY <2>1, <2>2 DEF CallKnown, HoldsSource
  <2>4. RowsStillAsRead(d)'
    BY <2>1, <2>2 DEF RowsStillAsRead, HoldsSource, HoldsKey, MayGoNegative, BalanceAllowed,
                      RowAllowed, AccountsOf
  <2>5. QED
    BY <2>3, <2>4
<1>2. \A d, e \in Caller \ {c} : d # e => LocksCompatible(d, e)'
  BY DEF IInv, OnlySession, LocksCompatible, HoldsSource, HoldsKey, SharesDest, HoldsDest
<1>3. \A d, e \in Caller : d # e => LocksCompatible(d, e)'
  BY <1>2
<1>4. SameClaimSerial'
  BY DEF IInv, OnlySession, SameClaimSerial, HoldsRateRow, RateKeyOf
<1>5. LedgerExplainsBalance' /\ NoOverdraft' /\ KeyUsedOnce' /\ FreePlanLimit'
  BY DEF IInv, OnlySession, db, LedgerExplainsBalance, BalanceBefore, NoOverdraft,
         KeyUsedOnce, FreePlanLimit, AccountsOf
<1>6. QED
  BY <1>1, <1>3, <1>4, <1>5 DEF IInv

(* A rollback leaves the tables alone and the session without locks.       *)
LEMMA RollbackInv == ASSUME IInv, NEW c \in Caller, Rollback(c) PROVE IInv'
<1>1. /\ pc' = [pc EXCEPT ![c] = "idle"] /\ fn' = [fn EXCEPT ![c] = "none"]
      /\ call' = [call EXCEPT ![c] = NoCall]
      /\ UNCHANGED <<balance, status, txns, ledger, rateRow, calls>>
  BY DEF Rollback, EndCall, Goto, db
<1>2. NoCall \in CallArgs
  BY DEF NoCall, CallArgs
<1>3. TypeOK'
  BY <1>1, <1>2, BoundsAssumption DEF IInv, TypeOK, Rollback, EndCall, Statements
<1>4. OnlySession(c)
  BY DEF Rollback, EndCall, Goto, OnlySession, IInv, TypeOK
<1>5. CallKnown(c)' /\ RowsStillAsRead(c)'
  BY <1>1 DEF IInv, TypeOK, CallKnown, RowsStillAsRead, HoldsSource, HoldsKey
<1>6. \A d \in Caller \ {c} : LocksCompatible(c, d)' /\ LocksCompatible(d, c)'
  BY <1>1 DEF IInv, TypeOK, LocksCompatible, HoldsSource, HoldsKey, SharesDest, HoldsDest
<1>7. ~ HoldsRateRow(c)'
  BY <1>1 DEF IInv, TypeOK, HoldsRateRow
<1>8. QED
  BY <1>3, <1>4, <1>5, <1>6, <1>7, SessionStep

-----------------------------------------------------------------------------
(* The calls' beginnings, and the statements that change one session.      *)

LEMMA BeginTransferInv == ASSUME IInv, NEW c \in Caller, BeginTransfer(c) PROVE IInv'
<1> PICK t \in Transfers : Begin(c, "process_transaction", t)
  BY DEF BeginTransfer
<1>1. /\ pc' = [pc EXCEPT ![c] = "rateUpdate"] /\ fn' = [fn EXCEPT ![c] = "process_transaction"]
      /\ call' = [call EXCEPT ![c] = t] /\ calls' = calls + 1 /\ calls < MaxCalls
      /\ UNCHANGED <<balance, status, txns, ledger, rateRow, rate, sbal, dbal>>
  BY DEF Begin, Goto, db
<1>2. t \in CallArgs
  BY TransfersAssumption DEF TransferArgs, CallArgs
<1>3. TypeOK'
  BY <1>1, <1>2, BoundsAssumption DEF IInv, TypeOK, Statements
<1>4. OnlySession(c)
  BY <1>1 DEF OnlySession, IInv, TypeOK, db
<1>5. CallKnown(c)' /\ RowsStillAsRead(c)'
  BY <1>1 DEF IInv, TypeOK, CallKnown, RowsStillAsRead, HoldsSource, HoldsKey
<1>6. \A d \in Caller \ {c} : LocksCompatible(c, d)' /\ LocksCompatible(d, c)'
  BY <1>1 DEF IInv, TypeOK, LocksCompatible, HoldsSource, HoldsKey, SharesDest, HoldsDest
<1>7. ~ HoldsRateRow(c)'
  BY <1>1 DEF IInv, TypeOK, HoldsRateRow
<1>8. QED
  BY <1>3, <1>4, <1>5, <1>6, <1>7, SessionStep

LEMMA BeginCreateInv == ASSUME IInv, NEW c \in Caller, BeginCreate(c) PROVE IInv'
<1>1. PICK a \in Account :
        /\ status[a] = "absent" /\ AccountOrg[a] = ClaimOf[c]
        /\ \A d \in Caller : fn[d] = "create_account" => call[d].source # a
        /\ Begin(c, "create_account", CreateArgs(ClaimOf[c], a))
  BY DEF BeginCreate
<1> DEFINE t == CreateArgs(ClaimOf[c], a)
<1>2. /\ pc' = [pc EXCEPT ![c] = "rateUpdate"] /\ fn' = [fn EXCEPT ![c] = "create_account"]
      /\ call' = [call EXCEPT ![c] = t] /\ calls' = calls + 1 /\ calls < MaxCalls
      /\ UNCHANGED <<balance, status, txns, ledger, rateRow, rate, sbal, dbal>>
  BY <1>1 DEF Begin, Goto, db
<1>3. t \in CallArgs /\ t.source = a /\ t.org = ClaimOf[c]
  BY AccountAssumption DEF CreateArgs, CallArgs
<1> HIDE DEF t
<1>4. TypeOK'
  <2>1. call' \in [Caller -> CallArgs]
    BY <1>2, <1>3 DEF IInv, TypeOK
  <2>2. pc' \in [Caller -> Statements] /\ calls' \in 0..MaxCalls
    BY <1>2, BoundsAssumption DEF IInv, TypeOK, Statements
  <2>3. QED
    BY <1>2, <2>1, <2>2 DEF IInv, TypeOK
<1>5. OnlySession(c)
  BY <1>2 DEF OnlySession, IInv, TypeOK, db
<1>6. CallKnown(c)' /\ RowsStillAsRead(c)'
  BY <1>1, <1>2, <1>3 DEF IInv, TypeOK, CallKnown, RowsStillAsRead, HoldsSource, HoldsKey
<1>7. \A d \in Caller \ {c} : LocksCompatible(c, d)' /\ LocksCompatible(d, c)'
  BY <1>1, <1>2, <1>3
     DEF IInv, TypeOK, LocksCompatible, HoldsSource, HoldsKey, SharesDest, HoldsDest
<1>8. ~ HoldsRateRow(c)'
  BY <1>2 DEF IInv, TypeOK, HoldsRateRow
<1>9. QED
  BY <1>4, <1>5, <1>6, <1>7, <1>8, SessionStep

(* A statement of c that locks nothing new and keeps what c knows.         *)
LEMMA PlainStatement ==
    ASSUME IInv, NEW c \in Caller, NEW s \in Statements,
           Goto(c, s), UNCHANGED <<db, fn, call, rate, sbal, dbal, calls>>,
           HoldsRateRow(c), s \notin {"idle", "rateUpdate", "rateUpsert"},
           CallKnown(c)', RowsStillAsRead(c)',
           \A d \in Caller \ {c} : LocksCompatible(c, d)' /\ LocksCompatible(d, c)'
    PROVE  IInv'
<1>1. pc' = [pc EXCEPT ![c] = s]
  BY DEF Goto
<1>2. TypeOK'
  BY <1>1 DEF IInv, TypeOK, db
<1>3. OnlySession(c)
  BY <1>1 DEF OnlySession, IInv, TypeOK
<1>4. \A d \in Caller \ {c} :
        RateKeyOf(c)' = RateKeyOf(d)' => ~ (HoldsRateRow(c)' /\ HoldsRateRow(d)')
  BY <1>1 DEF IInv, SameClaimSerial, TypeOK, RateKeyOf, HoldsRateRow
<1>5. QED
  BY <1>2, <1>3, <1>4, SessionStep

-----------------------------------------------------------------------------
(* check_rate_limit: whoever gets past it shares its row with nobody.      *)

LEMMA BucketPositive == ASSUME NEW k PROVE BucketSize(k) - 1 \in Nat
BY BoundsAssumption DEF BucketSize

LEMMA RateKeyType == ASSUME NEW c \in Caller PROVE RateKeyOf(c) \in RateKey
BY AccountAssumption DEF RateKeyOf, RateKey

LEMMA PassRate ==
    ASSUME IInv, NEW c \in Caller, NEW n \in Nat,
           pc[c] \in {"rateUpdate", "rateUpsert"}, Unblocked(c),
           rate' = [rate EXCEPT ![c] = n], Goto(c, AfterRate(c)),
           UNCHANGED <<db, fn, call, sbal, dbal, calls>>
    PROVE  IInv'
<1>1. pc' = [pc EXCEPT ![c] = AfterRate(c)] /\ AfterRate(c) \in {"countAccounts", "idempotency"}
  BY DEF Goto, AfterRate
<1>2. TypeOK'
  BY <1>1 DEF IInv, TypeOK, Statements, db
<1>3. OnlySession(c)
  BY <1>1 DEF OnlySession, IInv, TypeOK
<1>4. CallKnown(c)' /\ RowsStillAsRead(c)'
  <2>1. CallKnown(c) /\ fn[c] # "none"
    BY DEF IInv, CallKnown
  <2>2. pc'[c] = AfterRate(c) /\ fn' = fn /\ call' = call /\ status' = status
    BY <1>1 DEF IInv, TypeOK, db
  <2>3. CallKnown(c)'
    BY <2>1, <2>2 DEF CallKnown, AfterRate, HoldsSource, IInv, TypeOK
  <2>4. RowsStillAsRead(c)'
    BY <1>1, <2>2 DEF RowsStillAsRead, HoldsSource, HoldsKey
  <2>5. QED
    BY <2>3, <2>4
<1>5. \A d \in Caller \ {c} : LocksCompatible(c, d)' /\ LocksCompatible(d, c)'
  BY <1>1 DEF IInv, TypeOK, LocksCompatible, HoldsSource, HoldsKey, SharesDest, HoldsDest
<1>6. \A d \in Caller \ {c} : ~ (HoldsRateRow(d) /\ RateKeyOf(d) = RateKeyOf(c))
  BY DEF Unblocked, Blockers
<1>7. \A d \in Caller \ {c} :
        RateKeyOf(c)' = RateKeyOf(d)' => ~ (HoldsRateRow(c)' /\ HoldsRateRow(d)')
  BY <1>1, <1>6 DEF IInv, TypeOK, RateKeyOf, HoldsRateRow
<1>8. QED
  BY <1>2, <1>3, <1>4, <1>5, <1>7, SessionStep

LEMMA RateUpdateInv == ASSUME IInv, NEW c \in Caller, RateUpdate(c) PROVE IInv'
<1> DEFINE k == RateKeyOf(c)
<1>1. CASE rateRow[k] \in {Null, 0}
  <2>1. /\ pc[c] = "rateUpdate" /\ pc' = [pc EXCEPT ![c] = "rateUpsert"]
        /\ UNCHANGED <<db, fn, call, rate, sbal, dbal, calls>>
    BY <1>1, RateKeyType DEF RateUpdate, Goto, IInv, TypeOK
  <2>2. TypeOK'
    BY <2>1 DEF IInv, TypeOK, Statements, db
  <2>3. OnlySession(c)
    BY <2>1 DEF OnlySession, IInv, TypeOK
  <2>4. CallKnown(c)' /\ RowsStillAsRead(c)'
    BY <2>1 DEF IInv, TypeOK, CallKnown, RowsStillAsRead, HoldsSource, HoldsKey, db
  <2>5. \A d \in Caller \ {c} : LocksCompatible(c, d)' /\ LocksCompatible(d, c)'
    BY <2>1 DEF IInv, TypeOK, LocksCompatible, HoldsSource, HoldsKey, SharesDest, HoldsDest
  <2>6. ~ HoldsRateRow(c)'
    BY <2>1 DEF IInv, TypeOK, HoldsRateRow
  <2>7. QED
    BY <2>2, <2>3, <2>4, <2>5, <2>6, SessionStep
<1>2. CASE rateRow[k] \notin {Null, 0}
  <2>1. /\ rateRow[k] \in Nat \ {0} /\ pc[c] = "rateUpdate" /\ Unblocked(c)
        /\ Goto(c, AfterRate(c))
        /\ \E refill \in BOOLEAN :
             rate' = [rate EXCEPT ![c] = IF refill THEN BucketSize(k) - 1 ELSE rateRow[k] - 1]
        /\ UNCHANGED <<db, fn, call, sbal, dbal, calls>>
    BY <1>2, RateKeyType DEF RateUpdate, IInv, TypeOK
  <2>2. \E n \in Nat : rate' = [rate EXCEPT ![c] = n]
    <3>1. PICK refill \in BOOLEAN :
             rate' = [rate EXCEPT ![c] = IF refill THEN BucketSize(k) - 1 ELSE rateRow[k] - 1]
      BY <2>1
    <3>2. (IF refill THEN BucketSize(k) - 1 ELSE rateRow[k] - 1) \in Nat
      BY <2>1, BucketPositive
    <3>3. QED
      BY <3>1, <3>2
  <2>3. QED
    BY <2>1, <2>2, PassRate
<1>3. QED
  BY <1>1, <1>2

LEMMA RateUpsertInv == ASSUME IInv, NEW c \in Caller, RateUpsert(c) PROVE IInv'
<1> DEFINE k == RateKeyOf(c)
           tokens(refill) ==
               IF rateRow[k] = Null \/ refill THEN BucketSize(k) - 1 ELSE rateRow[k]
<1>1. PICK refill \in BOOLEAN :
        IF RateVerdict(tokens(refill))
        THEN /\ rate' = [rate EXCEPT ![c] = tokens(refill)]
             /\ Goto(c, AfterRate(c))
             /\ UNCHANGED <<db, fn, call, sbal, dbal, calls>>
        ELSE Rollback(c)
  BY DEF RateUpsert
<1>2. tokens(refill) \in Nat
  BY RateKeyType, BucketPositive DEF IInv, TypeOK
<1>3. CASE RateVerdict(tokens(refill))
  BY <1>1, <1>2, <1>3, PassRate DEF RateUpsert
<1>4. CASE ~ RateVerdict(tokens(refill))
  BY <1>1, <1>4, RollbackInv
<1>5. QED
  BY <1>3, <1>4

-----------------------------------------------------------------------------
(* The statements of process_transaction.                                  *)

(* No row of transactions is ever found NOT NULL as a whole: reversed_at   *)
(* is null in all of them.                                                 *)
LEMMA RowsHaveNulls == ASSUME TypeOK, NEW i \in DOMAIN txns PROVE ~ RowIsNotNull(txns[i])
<1>1. txns[i] \in TxnRows
  BY DEF TypeOK
<1>2. "reversed_at" \in DOMAIN txns[i] /\ txns[i]["reversed_at"] = Null
  BY <1>1 DEF TxnRows
<1>3. QED
  BY <1>2 DEF RowIsNotNull

LEMMA IdempotencyInv == ASSUME IInv, NEW c \in Caller, Idempotency(c) PROVE IInv'
<1>1. /\ pc[c] = "idempotency" /\ Goto(c, "checkSource")
      /\ UNCHANGED <<db, fn, call, rate, sbal, dbal, calls>>
  BY RowsHaveNulls DEF Idempotency, Earlier, IInv
<1>2. pc' = [pc EXCEPT ![c] = "checkSource"] /\ HoldsRateRow(c)
  BY <1>1 DEF Goto, HoldsRateRow
<1>3. CallKnown(c)' /\ RowsStillAsRead(c)'
  BY <1>1, <1>2 DEF IInv, TypeOK, CallKnown, RowsStillAsRead, HoldsSource, HoldsKey, db
<1>4. \A d \in Caller \ {c} : LocksCompatible(c, d)' /\ LocksCompatible(d, c)'
  BY <1>1, <1>2 DEF IInv, TypeOK, LocksCompatible, HoldsSource, HoldsKey, SharesDest, HoldsDest
<1>5. QED
  BY <1>1, <1>2, <1>3, <1>4, PlainStatement DEF Statements

LEMMA CheckSourceInv == ASSUME IInv, NEW c \in Caller, CheckSource(c) PROVE IInv'
<1>1. CASE Rollback(c)
  BY <1>1, RollbackInv
<1>2. CASE ~ Rollback(c)
  <2>1. /\ pc[c] = "checkSource" /\ Goto(c, "checkDest")
        /\ UsableIn(call[c].source, call[c].org)
        /\ UNCHANGED <<db, fn, call, rate, sbal, dbal, calls>>
    BY <1>2 DEF CheckSource
  <2>2. pc' = [pc EXCEPT ![c] = "checkDest"] /\ HoldsRateRow(c)
    BY <2>1 DEF Goto, HoldsRateRow
  <2>3. CallKnown(c)' /\ RowsStillAsRead(c)'
    BY <2>1, <2>2, NullAssumption
       DEF IInv, TypeOK, CallKnown, RowsStillAsRead, HoldsSource, HoldsKey, UsableIn, db
  <2>4. \A d \in Caller \ {c} : LocksCompatible(c, d)' /\ LocksCompatible(d, c)'
    BY <2>1, <2>2
       DEF IInv, TypeOK, LocksCompatible, HoldsSource, HoldsKey, SharesDest, HoldsDest
  <2>5. QED
    BY <2>1, <2>2, <2>3, <2>4, PlainStatement DEF Statements
<1>3. QED
  BY <1>1, <1>2

LEMMA CheckDestInv == ASSUME IInv, NEW c \in Caller, CheckDest(c) PROVE IInv'
<1>1. CASE Rollback(c)
  BY <1>1, RollbackInv
<1>2. CASE ~ Rollback(c)
  <2>1. /\ pc[c] = "checkDest" /\ Goto(c, "lockSource")
        /\ call[c].dest = Null \/ UsableIn(call[c].dest, call[c].org)
        /\ UNCHANGED <<db, fn, call, rate, sbal, dbal, calls>>
    BY <1>2 DEF CheckDest
  <2>2. pc' = [pc EXCEPT ![c] = "lockSource"] /\ HoldsRateRow(c)
    BY <2>1 DEF Goto, HoldsRateRow
  <2>3. CallKnown(c)' /\ RowsStillAsRead(c)'
    BY <2>1, <2>2, NullAssumption
       DEF IInv, TypeOK, CallKnown, RowsStillAsRead, HoldsSource, HoldsKey, UsableIn, db
  <2>4. \A d \in Caller \ {c} : LocksCompatible(c, d)' /\ LocksCompatible(d, c)'
    BY <2>1, <2>2
       DEF IInv, TypeOK, LocksCompatible, HoldsSource, HoldsKey, SharesDest, HoldsDest
  <2>5. QED
    BY <2>1, <2>2, <2>3, <2>4, PlainStatement DEF Statements
<1>3. QED
  BY <1>1, <1>2

(* A session that holds its rate row keeps it alone.                       *)
LEMMA RateRowKept ==
    ASSUME IInv, NEW c \in Caller, NEW s \in Statements, HoldsRateRow(c),
           pc' = [pc EXCEPT ![c] = s], fn' = fn
    PROVE  \A d \in Caller \ {c} :
                RateKeyOf(c)' = RateKeyOf(d)' => ~ (HoldsRateRow(c)' /\ HoldsRateRow(d)')
BY DEF IInv, SameClaimSerial, TypeOK, RateKeyOf, HoldsRateRow

LEMMA LockSourceInv == ASSUME IInv, NEW c \in Caller, LockSource(c) PROVE IInv'
<1>1. CASE Rollback(c)
  BY <1>1, RollbackInv
<1>2. CASE ~ Rollback(c)
  <2> DEFINE a == call[c].source
  <2>1. /\ pc[c] = "lockSource" /\ Unblocked(c) /\ pc' = [pc EXCEPT ![c] = "insertTxn"]
        /\ MayGoNegative(a) \/ balance[a] >= call[c].amount
        /\ sbal' = [sbal EXCEPT ![c] = balance[a]]
        /\ UNCHANGED <<db, fn, call, rate, dbal, calls>>
    BY <1>2 DEF LockSource, Goto
  <2>2. a \in Account /\ balance[a] \in -MaxBalance..MaxBalance
    BY <2>1 DEF IInv, TypeOK, CallKnown
  <2>3. TypeOK'
    BY <2>1, <2>2 DEF IInv, TypeOK, Statements, db
  <2>4. OnlySession(c)
    BY <2>1 DEF OnlySession, IInv, TypeOK
  <2>5. CallKnown(c)' /\ RowsStillAsRead(c)'
    <3>1. CallKnown(c)'
      BY <2>1, NullAssumption DEF IInv, TypeOK, CallKnown, HoldsSource, db
    <3>2. RowsStillAsRead(c)'
      BY <2>1 DEF IInv, TypeOK, RowsStillAsRead, HoldsSource, HoldsKey, MayGoNegative, db
    <3>3. QED
      BY <3>1, <3>2
  <2>6. \A d \in Caller \ {c} : ~ RowTouched(d, a)
    BY <2>1 DEF Unblocked, Blockers
  <2>7. \A d \in Caller \ {c} : LocksCompatible(c, d)' /\ LocksCompatible(d, c)'
    BY <2>1, <2>6 DEF IInv, TypeOK, LocksCompatible, RowTouched, RowWritten,
                      HoldsSource, HoldsKey, SharesDest, HoldsDest
  <2>8. HoldsRateRow(c)
    BY <2>1 DEF HoldsRateRow
  <2>9. QED
    BY <2>1, <2>3, <2>4, <2>5, <2>7, <2>8, RateRowKept, SessionStep DEF Statements
<1>3. QED
  BY <1>1, <1>2

LEMMA InsertTxnInv == ASSUME IInv, NEW c \in Caller, InsertTxn(c) PROVE IInv'
<1>1. CASE Rollback(c)
  BY <1>1, RollbackInv
<1>2. CASE ~ Rollback(c)
  <2>1. /\ pc[c] = "insertTxn" /\ Goto(c, "foreignKeys") /\ RowAllowed(call[c])
        /\ Unblocked(c) /\ ~ KeyCommitted(c)
        /\ UNCHANGED <<db, fn, call, rate, sbal, dbal, calls>>
    BY <1>2 DEF InsertTxn
  <2>2. pc' = [pc EXCEPT ![c] = "foreignKeys"] /\ HoldsRateRow(c)
    BY <2>1 DEF Goto, HoldsRateRow
  <2>3. CallKnown(c)'
    BY <2>1, <2>2 DEF IInv, TypeOK, CallKnown, HoldsSource, db
  <2>4. RowsStillAsRead(c)'
    BY <2>1, <2>2 DEF IInv, TypeOK, RowsStillAsRead, HoldsSource, HoldsKey, MayGoNegative,
                      RowAllowed, KeyCommitted, db
  <2>5. \A d \in Caller \ {c} : HoldsKey(d) /\ call[c].key # Null => call[d].key # call[c].key
    BY <2>1 DEF Unblocked, Blockers
  <2>6. \A d \in Caller \ {c} : LocksCompatible(c, d)' /\ LocksCompatible(d, c)'
    BY <2>1, <2>2, <2>5
       DEF IInv, TypeOK, LocksCompatible, HoldsSource, HoldsKey, SharesDest, HoldsDest
  <2>7. QED
    BY <2>1, <2>2, <2>3, <2>4, <2>6, PlainStatement DEF Statements
<1>3. QED
  BY <1>1, <1>2

LEMMA ForeignKeysInv == ASSUME IInv, NEW c \in Caller, ForeignKeys(c) PROVE IInv'
<1>1. /\ pc[c] = "foreignKeys" /\ Goto(c, "debit") /\ Unblocked(c)
      /\ pc' = [pc EXCEPT ![c] = "debit"] /\ HoldsRateRow(c)
      /\ UNCHANGED <<db, fn, call, rate, sbal, dbal, calls>>
  BY DEF ForeignKeys, Goto, HoldsRateRow
<1>2. CallKnown(c)' /\ RowsStillAsRead(c)'
  <2>1. CallKnown(c)'
    BY <1>1 DEF IInv, TypeOK, CallKnown, HoldsSource, db
  <2>2. RowsStillAsRead(c)'
    BY <1>1 DEF IInv, TypeOK, RowsStillAsRead, HoldsSource, HoldsKey, MayGoNegative,
                RowAllowed, db
  <2>3. QED
    BY <2>1, <2>2
<1>3. \A d \in Caller \ {c} : ~ RowForUpdate(d, call[c].dest)
  BY <1>1 DEF Unblocked, Blockers
<1>4. \A d \in Caller \ {c} : LocksCompatible(c, d)' /\ LocksCompatible(d, c)'
  BY <1>1, <1>3 DEF IInv, TypeOK, LocksCompatible, RowForUpdate,
                    HoldsSource, HoldsKey, SharesDest, HoldsDest
<1>5. QED
  BY <1>1, <1>2, <1>4, PlainStatement DEF Statements

LEMMA DebitInv == ASSUME IInv, NEW c \in Caller, Debit(c) PROVE IInv'
<1>1. CASE Rollback(c)
  BY <1>1, RollbackInv
<1>2. CASE ~ Rollback(c)
  <2> DEFINE t == call[c]
             after == balance[t.source] - t.amount
             s == IF t.dest = Null THEN "commitTxn" ELSE "credit"
  <2>1. /\ pc[c] = "debit" /\ pc' = [pc EXCEPT ![c] = s]
        /\ BalanceAllowed(t.source, after)
        /\ sbal' = [sbal EXCEPT ![c] = after]
        /\ UNCHANGED <<db, fn, call, rate, dbal, calls>>
    BY <1>2 DEF Debit, Goto
  <2>2. s \in {"commitTxn", "credit"} /\ (s = "credit" => t.dest \in Account)
        /\ (s = "commitTxn" => t.dest = Null)
    BY DEF IInv, TypeOK, CallArgs
  <2>3. after \in -MaxBalance..MaxBalance
    BY <2>1 DEF BalanceAllowed
  <2> HIDE DEF s, after
  <2>4. TypeOK'
    BY <2>1, <2>2, <2>3 DEF IInv, TypeOK, Statements, db
  <2>5. OnlySession(c)
    BY <2>1 DEF OnlySession, IInv, TypeOK
  <2>6. pc'[c] = s /\ call'[c] = t /\ sbal'[c] = after /\ HoldsRateRow(c)
        /\ balance' = balance /\ status' = status /\ txns' = txns
    BY <2>1 DEF IInv, TypeOK, HoldsRateRow, db
  <2>7. CallKnown(c)'
    BY <2>1, <2>2 DEF IInv, TypeOK, CallKnown, HoldsSource, db
  <2>8. RowsStillAsRead(c)'
    <3>1. RowsStillAsRead(c) /\ HoldsSource(c) /\ HoldsKey(c)
      BY <2>1 DEF IInv, HoldsSource, HoldsKey
    <3>2. after = balance[t.source] - t.amount
      BY DEF after
    <3>3. s = "commitTxn" => t.dest \notin Account
      BY <2>2, NullAssumption
    <3>4. QED
      BY <2>1, <2>2, <2>6, <3>1, <3>2, <3>3
         DEF RowsStillAsRead, HoldsSource, HoldsKey, MayGoNegative, RowAllowed, BalanceAllowed
  <2>9. \A d \in Caller \ {c} : LocksCompatible(c, d)' /\ LocksCompatible(d, c)'
    BY <2>1, <2>2
       DEF IInv, TypeOK, LocksCompatible, HoldsSource, HoldsKey, SharesDest, HoldsDest
  <2>10. QED
    BY <2>1, <2>2, <2>4, <2>5, <2>6, <2>7, <2>8, <2>9, RateRowKept, SessionStep DEF Statements
<1>3. QED
  BY <1>1, <1>2

LEMMA CreditInv == ASSUME IInv, NEW c \in Caller, Credit(c) PROVE IInv'
<1>1. CASE Rollback(c)
  BY <1>1, RollbackInv
<1>2. CASE ~ Rollback(c)
  <2> DEFINE t == call[c]
             after == balance[t.dest] + t.amount
  <2>1. /\ pc[c] = "credit" /\ pc' = [pc EXCEPT ![c] = "commitTxn"] /\ Unblocked(c)
        /\ BalanceAllowed(t.dest, after)
        /\ dbal' = [dbal EXCEPT ![c] = after]
        /\ UNCHANGED <<db, fn, call, rate, sbal, calls>>
    BY <1>2 DEF Credit, Goto
  <2>2. after \in -MaxBalance..MaxBalance
    BY <2>1 DEF BalanceAllowed
  <2>3. after = balance[t.dest] + t.amount
    OBVIOUS
  <2> HIDE DEF after
  <2>4. TypeOK'
    BY <2>1, <2>2 DEF IInv, TypeOK, Statements, db
  <2>5. OnlySession(c)
    BY <2>1 DEF OnlySession, IInv, TypeOK
  <2>6. pc'[c] = "commitTxn" /\ call'[c] = t /\ dbal'[c] = after /\ sbal' = sbal
        /\ HoldsRateRow(c) /\ balance' = balance /\ status' = status /\ txns' = txns
    BY <2>1 DEF IInv, TypeOK, HoldsRateRow, db
  <2>7. CallKnown(c)'
    BY <2>1 DEF IInv, TypeOK, CallKnown, HoldsSource, db
  <2>8. RowsStillAsRead(c)'
    <3>1. RowsStillAsRead(c) /\ HoldsSource(c) /\ HoldsKey(c)
      BY <2>1 DEF IInv, HoldsSource, HoldsKey
    <3>2. QED
      BY <2>1, <2>3, <2>6, <3>1
         DEF RowsStillAsRead, HoldsSource, HoldsKey, MayGoNegative, RowAllowed, BalanceAllowed
  <2>9. \A d \in Caller \ {c} : ~ RowWritten(d, t.dest)
    BY <2>1 DEF Unblocked, Blockers
  <2>10. \A d \in Caller \ {c} : LocksCompatible(c, d)' /\ LocksCompatible(d, c)'
    BY <2>1, <2>9
       DEF IInv, TypeOK, LocksCompatible, RowWritten, HoldsSource, HoldsKey, SharesDest, HoldsDest
  <2>11. QED
    BY <2>1, <2>4, <2>5, <2>6, <2>7, <2>8, <2>10, RateRowKept, SessionStep DEF Statements
<1>3. QED
  BY <1>1, <1>2

-----------------------------------------------------------------------------
(* create_account.                                                         *)

LEMMA CountAccountsInv == ASSUME IInv, NEW c \in Caller, CountAccounts(c) PROVE IInv'
<1>1. CASE Rollback(c)
  BY <1>1, RollbackInv
<1>2. CASE ~ Rollback(c)
  <2> DEFINE o == call[c].org
  <2>1. /\ pc[c] = "countAccounts" /\ Goto(c, "insertAccount")
        /\ ~ (o \in FreeOrgs /\ Cardinality(AccountsOf(o)) >= FreePlanAccounts)
        /\ UNCHANGED <<db, fn, call, rate, sbal, dbal, calls>>
    BY <1>2 DEF CountAccounts
  <2>2. pc' = [pc EXCEPT ![c] = "insertAccount"] /\ HoldsRateRow(c)
    BY <2>1 DEF Goto, HoldsRateRow
  <2>3. Cardinality(AccountsOf(o)) \in Nat
    BY AccountAssumption, FS_Subset, FS_CardinalityType DEF AccountsOf
  <2>4. CallKnown(c)'
    BY <2>1, <2>2 DEF IInv, TypeOK, CallKnown, HoldsSource, db
  <2>5. RowsStillAsRead(c)'
    <3>1. status' = status
      BY <2>1 DEF db
    <3>2. o \in FreeOrgs => Cardinality(AccountsOf(o)) < FreePlanAccounts
      BY <2>1, <2>3 DEF FreePlanAccounts
    <3>3. pc'[c] = "insertAccount" /\ call' = call
      BY <2>1, <2>2 DEF IInv, TypeOK
    <3>4. QED
      BY <3>1, <3>2, <3>3 DEF RowsStillAsRead, HoldsSource, HoldsKey, AccountsOf
  <2>6. \A d \in Caller \ {c} : LocksCompatible(c, d)' /\ LocksCompatible(d, c)'
    BY <2>1, <2>2
       DEF IInv, TypeOK, LocksCompatible, HoldsSource, HoldsKey, SharesDest, HoldsDest
  <2>7. QED
    BY <2>1, <2>2, <2>4, <2>5, <2>6, PlainStatement DEF Statements
<1>3. QED
  BY <1>1, <1>2

-----------------------------------------------------------------------------
(* The commits: the steps that change the tables.                          *)

(* The call that commits: its arguments, and the rows it leaves behind.    *)
LEMMA CommittingCall ==
    ASSUME IInv, NEW c \in Caller, pc[c] = "commitTxn"
    PROVE  /\ call[c] \in Transfers /\ call[c] \in TransferArgs
           /\ call[c].amount \in Nat \ {0}
           /\ call[c].source \in Account /\ status[call[c].source] # "absent"
           /\ call[c].source # call[c].dest
           /\ call[c].dest \in Account => status[call[c].dest] # "absent"
           /\ sbal[c] = balance[call[c].source] - call[c].amount
           /\ BalanceAllowed(call[c].source, sbal[c])
           /\ call[c].dest \in Account =>
                /\ dbal[c] = balance[call[c].dest] + call[c].amount
                /\ BalanceAllowed(call[c].dest, dbal[c])
           /\ call[c].key # Null => \A i \in DOMAIN txns : txns[i].key # call[c].key
           /\ MayGoNegative(call[c].source) \/ balance[call[c].source] >= call[c].amount
<1>1. CallKnown(c) /\ RowsStillAsRead(c) /\ HoldsSource(c) /\ HoldsKey(c)
  BY DEF IInv, HoldsSource, HoldsKey
<1>2. fn[c] = "process_transaction"
  BY <1>1 DEF CallKnown, IInv, TypeOK
<1>3. call[c] \in Transfers /\ call[c] \in TransferArgs
  BY <1>1, <1>2, TransfersAssumption DEF CallKnown
<1>4. RowAllowed(call[c]) /\ call[c].amount \in Int
  BY <1>1, <1>3 DEF RowsStillAsRead, TransferArgs
<1>5. call[c].amount \in Nat \ {0} /\ call[c].source # call[c].dest
  BY <1>4 DEF RowAllowed
<1>6. QED
  BY <1>1, <1>3, <1>5 DEF CallKnown, RowsStillAsRead

(* A commit touches no row another session has locked.                     *)
LEMMA RowsApart ==
    ASSUME IInv, NEW c \in Caller, NEW d \in Caller \ {c}, pc[c] = "commitTxn"
    PROVE  /\ HoldsSource(d) => call[d].source \notin {call[c].source, call[c].dest}
           /\ HoldsDest(d) /\ call[d].dest \in Account =>
                call[d].dest \notin {call[c].source, call[c].dest}
           /\ HoldsKey(d) /\ call[d].key # Null => call[d].key # call[c].key
<1>1. HoldsSource(c) /\ HoldsKey(c) /\ SharesDest(c) /\ HoldsDest(c)
  BY DEF HoldsSource, HoldsKey, SharesDest, HoldsDest
<1>2. LocksCompatible(c, d) /\ LocksCompatible(d, c)
  BY DEF IInv
<1>3. HoldsDest(d) => SharesDest(d)
  BY DEF SharesDest, HoldsDest
<1>4. QED
  BY <1>1, <1>2, <1>3, NullAssumption DEF LocksCompatible

(* The ledger of one account after one more entry.                         *)
LEMMA LedgerStep ==
    ASSUME NEW a \in Account, NEW l, NEW l2, NEW b, NEW b2, NEW e, NEW o \in Int,
           l \in Seq(Entries), e \in Entries, l2 = Append(l, e),
           \A i \in 1..Len(l) :
             l[i].balance_after = (IF i = 1 THEN o ELSE l[i - 1].balance_after) + Signed(l[i]),
           b = (IF Len(l) + 1 = 1 THEN o ELSE l[Len(l)].balance_after),
           e.balance_after = b + Signed(e), b2 = e.balance_after
    PROVE  /\ \A i \in 1..Len(l2) :
                l2[i].balance_after =
                    (IF i = 1 THEN o ELSE l2[i - 1].balance_after) + Signed(l2[i])
           /\ b2 = (IF Len(l2) + 1 = 1 THEN o ELSE l2[Len(l2)].balance_after)
<1>1. /\ Len(l2) = Len(l) + 1 /\ Len(l) \in Nat /\ l2[Len(l) + 1] = e
      /\ \A i \in 1..Len(l) : l2[i] = l[i]
  OBVIOUS
<1>2. ASSUME NEW i \in 1..Len(l2)
      PROVE  l2[i].balance_after =
                (IF i = 1 THEN o ELSE l2[i - 1].balance_after) + Signed(l2[i])
  <2>1. CASE i \in 1..Len(l)
    <3>1. l2[i] = l[i] /\ (i # 1 => l2[i - 1] = l[i - 1])
      BY <1>1, <2>1
    <3>2. QED
      BY <2>1, <3>1
  <2>2. CASE i = Len(l) + 1
    <3>1. l2[i] = e /\ (i # 1 => l2[i - 1] = l[Len(l)])
      BY <1>1, <2>2
    <3>2. QED
      BY <2>2, <3>1, <1>1
  <2>3. QED
    BY <1>1, <2>1, <2>2
<1>3. b2 = (IF Len(l2) + 1 = 1 THEN o ELSE l2[Len(l2)].balance_after)
  BY <1>1
<1>4. QED
  BY <1>2, <1>3

LEMMA CommitTxnInv == ASSUME IInv, NEW c \in Caller, CommitTxn(c) PROVE IInv'
<1> DEFINE t == call[c]
           id == Len(txns) + 1
<1>1. /\ pc[c] = "commitTxn" /\ pc' = [pc EXCEPT ![c] = "idle"]
      /\ fn' = [fn EXCEPT ![c] = "none"] /\ call' = [call EXCEPT ![c] = NoCall]
      /\ rate' = [rate EXCEPT ![c] = 0] /\ sbal' = [sbal EXCEPT ![c] = 0]
      /\ dbal' = [dbal EXCEPT ![c] = 0] /\ calls' = calls /\ status' = status
      /\ rateRow' = [rateRow EXCEPT ![RateKeyOf(c)] = rate[c]]
      /\ txns' = Append(txns, TxnRow(t))
      /\ balance' = [a \in Account |->
            IF a = t.source THEN sbal[c] ELSE IF a = t.dest THEN dbal[c] ELSE balance[a]]
      /\ ledger' = [a \in Account |->
            IF a = t.source THEN Append(ledger[a], Entry(id, "debit", t.amount, sbal[c]))
            ELSE IF a = t.dest THEN Append(ledger[a], Entry(id, "credit", t.amount, dbal[c]))
            ELSE ledger[a]]
  BY DEF CommitTxn, CommitRate, EndCall, Goto
<1>2. /\ t \in TransferArgs /\ t.amount \in Nat \ {0} /\ t.source \in Account
      /\ t.source # t.dest
      /\ sbal[c] = balance[t.source] - t.amount /\ BalanceAllowed(t.source, sbal[c])
      /\ t.dest \in Account =>
            dbal[c] = balance[t.dest] + t.amount /\ BalanceAllowed(t.dest, dbal[c])
      /\ t.key # Null => \A i \in DOMAIN txns : txns[i].key # t.key
  BY <1>1, CommittingCall
<1>3. TxnRow(t) \in TxnRows /\ TxnRow(t).key = t.key
  BY <1>2 DEF TxnRow, TxnRows, TransferArgs
<1>4. /\ txns \in Seq(TxnRows) /\ ledger \in [Account -> Seq(Entries)]
      /\ balance \in [Account -> -MaxBalance..MaxBalance]
      /\ sbal[c] \in -MaxBalance..MaxBalance /\ dbal[c] \in -MaxBalance..MaxBalance
  BY DEF IInv, TypeOK
<1>5. /\ Entry(id, "debit", t.amount, sbal[c]) \in Entries
      /\ Entry(id, "credit", t.amount, dbal[c]) \in Entries
      /\ Entry(id, "debit", t.amount, sbal[c]).balance_after = sbal[c]
      /\ Entry(id, "credit", t.amount, dbal[c]).balance_after = dbal[c]
      /\ Signed(Entry(id, "debit", t.amount, sbal[c])) = -t.amount
      /\ Signed(Entry(id, "credit", t.amount, dbal[c])) = t.amount
  BY <1>2, <1>4, BoundsAssumption DEF Entry, Entries, Signed
<1>6. TypeOK'
  <2>1. NoCall \in CallArgs
    BY DEF NoCall, CallArgs
  <2>2. /\ balance' \in [Account -> -MaxBalance..MaxBalance]
        /\ ledger' \in [Account -> Seq(Entries)]
        /\ txns' \in Seq(TxnRows)
    BY <1>1, <1>3, <1>4, <1>5
  <2>3. rateRow' \in [RateKey -> Nat \cup {Null}]
    BY <1>1 DEF IInv, TypeOK
  <2>4. QED
    BY <1>1, <2>1, <2>2, <2>3, BoundsAssumption DEF IInv, TypeOK, Statements
<1>7. \A d \in Caller : CallKnown(d)'
  BY <1>1 DEF IInv, TypeOK, CallKnown, HoldsSource
<1>8. \A d \in Caller : RowsStillAsRead(d)'
  <2>1. RowsStillAsRead(c)'
    BY <1>1 DEF IInv, TypeOK, RowsStillAsRead, HoldsSource, HoldsKey
  <2>2. ASSUME NEW d \in Caller \ {c} PROVE RowsStillAsRead(d)'
    <3>1. RowsStillAsRead(d) /\ CallKnown(d) /\ CallKnown(d)'
      BY <1>7 DEF IInv
    <3>2. /\ pc'[d] = pc[d] /\ call'[d] = call[d] /\ sbal'[d] = sbal[d] /\ dbal'[d] = dbal[d]
          /\ status' = status
      BY <1>1 DEF IInv, TypeOK
    <3>3. HoldsSource(d) => balance'[call[d].source] = balance[call[d].source]
      BY <1>1, <3>1, RowsApart DEF CallKnown
    <3>4. HoldsDest(d) /\ call[d].dest \in Account =>
            balance'[call[d].dest] = balance[call[d].dest]
      BY <1>1, RowsApart
    <3>5. HoldsKey(d) /\ call[d].key # Null => \A i \in DOMAIN txns' : txns'[i].key # call[d].key
      BY <1>1, <1>3, <1>4, <3>1, RowsApart DEF RowsStillAsRead
    <3>6. QED
      BY <3>1, <3>2, <3>3, <3>4, <3>5
         DEF RowsStillAsRead, HoldsSource, HoldsKey, HoldsDest, MayGoNegative, BalanceAllowed,
             RowAllowed, AccountsOf
  <2>3. QED
    BY <2>1, <2>2
<1>9. \A d, e \in Caller : d # e => LocksCompatible(d, e)'
  BY <1>1 DEF IInv, TypeOK, LocksCompatible, HoldsSource, HoldsKey, SharesDest, HoldsDest
<1>10. SameClaimSerial'
  BY <1>1 DEF IInv, TypeOK, SameClaimSerial, HoldsRateRow, RateKeyOf
<1>11. LedgerExplainsBalance'
  <2> SUFFICES ASSUME NEW a \in Account
               PROVE  /\ \A i \in 1..Len(ledger'[a]) :
                            ledger'[a][i].balance_after =
                              (IF i = 1 THEN Opening[a] ELSE ledger'[a][i - 1].balance_after)
                                + Signed(ledger'[a][i])
                      /\ balance'[a] = (IF Len(ledger'[a]) + 1 = 1 THEN Opening[a]
                                        ELSE ledger'[a][Len(ledger'[a])].balance_after)
    BY DEF LedgerExplainsBalance, BalanceBefore, Signed
  <2>1. /\ \A i \in 1..Len(ledger[a]) :
            ledger[a][i].balance_after =
                (IF i = 1 THEN Opening[a] ELSE ledger[a][i - 1].balance_after)
                  + Signed(ledger[a][i])
        /\ balance[a] = (IF Len(ledger[a]) + 1 = 1 THEN Opening[a]
                         ELSE ledger[a][Len(ledger[a])].balance_after)
        /\ ledger[a] \in Seq(Entries) /\ Opening[a] \in Int
    BY <1>4, AccountAssumption, BoundsAssumption DEF IInv, LedgerExplainsBalance, BalanceBefore
  <2>2. CASE a = t.source
    <3>1. /\ ledger'[a] = Append(ledger[a], Entry(id, "debit", t.amount, sbal[c]))
          /\ balance'[a] = Entry(id, "debit", t.amount, sbal[c]).balance_after
          /\ Entry(id, "debit", t.amount, sbal[c]).balance_after
                = balance[a] + Signed(Entry(id, "debit", t.amount, sbal[c]))
      BY <1>1, <1>2, <1>4, <1>5, <2>2
    <3>2. QED
      BY <1>5, <2>1, <3>1, LedgerStep
  <2>3. CASE a # t.source /\ a = t.dest
    <3>1. /\ ledger'[a] = Append(ledger[a], Entry(id, "credit", t.amount, dbal[c]))
          /\ balance'[a] = Entry(id, "credit", t.amount, dbal[c]).balance_after
          /\ Entry(id, "credit", t.amount, dbal[c]).balance_after
                = balance[a] + Signed(Entry(id, "credit", t.amount, dbal[c]))
      BY <1>1, <1>2, <1>4, <1>5, <2>3
    <3>2. QED
      BY <1>5, <2>1, <3>1, LedgerStep
  <2>4. CASE a # t.source /\ a # t.dest
    <3>1. ledger'[a] = ledger[a] /\ balance'[a] = balance[a]
      BY <1>1, <2>4
    <3>2. QED
      BY <2>1, <3>1
  <2>5. QED
    BY <2>2, <2>3, <2>4
<1>12. NoOverdraft'
  BY <1>1, <1>2 DEF IInv, NoOverdraft, BalanceAllowed, MayGoNegative
<1>13. KeyUsedOnce'
  <2> SUFFICES ASSUME NEW i \in DOMAIN txns', NEW j \in DOMAIN txns',
                      txns'[i].key = txns'[j].key, txns'[i].key # Null
               PROVE  i = j
    BY DEF KeyUsedOnce
  <2>1. /\ DOMAIN txns' = 1..(Len(txns) + 1) /\ DOMAIN txns = 1..Len(txns) /\ Len(txns) \in Nat
        /\ txns'[Len(txns) + 1].key = t.key
        /\ \A n \in 1..Len(txns) : txns'[n] = txns[n]
    BY <1>1, <1>3, <1>4
  <2>2. CASE i \in 1..Len(txns) /\ j \in 1..Len(txns)
    BY <2>1, <2>2 DEF IInv, KeyUsedOnce
  <2>3. CASE i = Len(txns) + 1 \/ j = Len(txns) + 1
    BY <1>2, <2>1, <2>3
  <2>4. QED
    BY <2>1, <2>2, <2>3
<1>14. FreePlanLimit'
  BY <1>1 DEF IInv, FreePlanLimit, AccountsOf
<1>15. QED
  BY <1>6, <1>7, <1>8, <1>9, <1>10, <1>11, <1>12, <1>13, <1>14 DEF IInv

LEMMA InsertAccountInv == ASSUME IInv, NEW c \in Caller, InsertAccount(c) PROVE IInv'
<1> DEFINE a == call[c].source
<1>1. /\ pc[c] = "insertAccount" /\ pc' = [pc EXCEPT ![c] = "idle"]
      /\ fn' = [fn EXCEPT ![c] = "none"] /\ call' = [call EXCEPT ![c] = NoCall]
      /\ rate' = [rate EXCEPT ![c] = 0] /\ sbal' = [sbal EXCEPT ![c] = 0]
      /\ dbal' = [dbal EXCEPT ![c] = 0] /\ calls' = calls
      /\ status' = [status EXCEPT ![a] = "active"]
      /\ rateRow' = [rateRow EXCEPT ![RateKeyOf(c)] = rate[c]]
      /\ balance' = balance /\ txns' = txns /\ ledger' = ledger
  BY DEF InsertAccount, CommitRate, EndCall, Goto
<1>2. /\ fn[c] = "create_account" /\ a \in Account /\ status[a] = "absent"
      /\ call[c].org = ClaimOf[c] /\ AccountOrg[a] = ClaimOf[c] /\ HoldsRateRow(c)
      /\ call[c].org \in FreeOrgs => Cardinality(AccountsOf(call[c].org)) < FreePlanAccounts
  BY <1>1 DEF IInv, TypeOK, CallKnown, RowsStillAsRead, HoldsRateRow
<1>3. /\ status'[a] = "active"
      /\ \A b \in Account \ {a} : status'[b] = status[b]
      /\ \A b \in Account : status[b] # "absent" => status'[b] # "absent"
  BY <1>1, <1>2 DEF IInv, TypeOK
<1>4. TypeOK'
  <2>1. NoCall \in CallArgs
    BY DEF NoCall, CallArgs
  <2>2. /\ rateRow' \in [RateKey -> Nat \cup {Null}]
        /\ status' \in [Account -> {"absent", "active", "frozen"}]
    BY <1>1 DEF IInv, TypeOK
  <2>3. QED
    BY <1>1, <2>1, <2>2, BoundsAssumption DEF IInv, TypeOK, Statements
<1>5. \A d \in Caller : CallKnown(d)'
  <2>1. CallKnown(c)'
    BY <1>1 DEF IInv, TypeOK, CallKnown, HoldsSource
  <2>2. ASSUME NEW d \in Caller \ {c} PROVE CallKnown(d)'
    <3>1. CallKnown(d) /\ LocksCompatible(c, d)
      BY DEF IInv
    <3>2. fn[d] = "create_account" => call[d].source # a
      BY <1>2, <3>1 DEF LocksCompatible
    <3>3. pc'[d] = pc[d] /\ fn'[d] = fn[d] /\ call'[d] = call[d]
      BY <1>1 DEF IInv, TypeOK
    <3>4. QED
      BY <1>3, <3>1, <3>2, <3>3 DEF CallKnown, HoldsSource
  <2>3. QED
    BY <2>1, <2>2
<1>6. \A o : o # AccountOrg[a] => AccountsOf(o)' = AccountsOf(o)
  BY <1>3 DEF AccountsOf
<1>7. \A d \in Caller : RowsStillAsRead(d)'
  <2>1. RowsStillAsRead(c)'
    BY <1>1 DEF IInv, TypeOK, RowsStillAsRead, HoldsSource, HoldsKey
  <2>2. ASSUME NEW d \in Caller \ {c} PROVE RowsStillAsRead(d)'
    <3>1. RowsStillAsRead(d) /\ CallKnown(d)
      BY DEF IInv
    <3>2. /\ pc'[d] = pc[d] /\ call'[d] = call[d] /\ sbal'[d] = sbal[d] /\ dbal'[d] = dbal[d]
          /\ balance' = balance /\ txns' = txns
      BY <1>1 DEF IInv, TypeOK
    <3>3. pc[d] = "insertAccount" => call[d].org # AccountOrg[a]
      <4> SUFFICES ASSUME pc[d] = "insertAccount", call[d].org = AccountOrg[a] PROVE FALSE
        OBVIOUS
      <4>1. fn[d] = "create_account" /\ call[d].org = ClaimOf[d]
        BY <3>1 DEF CallKnown, IInv, TypeOK
      <4>2. RateKeyOf(d) = RateKeyOf(c) /\ HoldsRateRow(d)
        BY <1>2, <4>1 DEF RateKeyOf, HoldsRateRow
      <4>3. QED
        BY <1>2, <4>2 DEF IInv, SameClaimSerial
    <3>4. pc[d] = "insertAccount" /\ call[d].org \in FreeOrgs =>
            Cardinality({b \in Account : AccountOrg[b] = call[d].org /\ status'[b] # "absent"})
                < FreePlanAccounts
      BY <1>6, <3>1, <3>3 DEF RowsStillAsRead, AccountsOf
    <3>5. QED
      BY <3>1, <3>2, <3>4
         DEF RowsStillAsRead, HoldsSource, HoldsKey, MayGoNegative, BalanceAllowed,
             RowAllowed, AccountsOf
  <2>3. QED
    BY <2>1, <2>2
<1>8. \A d, e \in Caller : d # e => LocksCompatible(d, e)'
  BY <1>1 DEF IInv, TypeOK, LocksCompatible, HoldsSource, HoldsKey, SharesDest, HoldsDest
<1>9. SameClaimSerial'
  BY <1>1 DEF IInv, TypeOK, SameClaimSerial, HoldsRateRow, RateKeyOf
<1>10. LedgerExplainsBalance' /\ NoOverdraft' /\ KeyUsedOnce'
  BY <1>1 DEF IInv, LedgerExplainsBalance, BalanceBefore, NoOverdraft, KeyUsedOnce
<1>11. FreePlanLimit'
  <2> SUFFICES ASSUME NEW o \in FreeOrgs PROVE Cardinality(AccountsOf(o)') <= FreePlanAccounts
    BY DEF FreePlanLimit
  <2>1. CASE o # AccountOrg[a]
    BY <1>6, <2>1 DEF IInv, FreePlanLimit
  <2>2. CASE o = AccountOrg[a]
    <3>1. AccountsOf(o)' = AccountsOf(o) \cup {a} /\ a \notin AccountsOf(o)
      BY <1>2, <1>3, <2>2 DEF AccountsOf
    <3>2. IsFiniteSet(AccountsOf(o))
      BY AccountAssumption, FS_Subset DEF AccountsOf
    <3>3. Cardinality(AccountsOf(o)) \in Nat /\ Cardinality(AccountsOf(o)) < FreePlanAccounts
      BY <1>2, <2>2, <3>2, FS_CardinalityType
    <3>4. Cardinality(AccountsOf(o) \cup {a}) = Cardinality(AccountsOf(o)) + 1
      BY <3>1, <3>2, FS_AddElement
    <3>5. QED
      BY <3>1, <3>3, <3>4 DEF FreePlanAccounts
  <2>3. QED
    BY <2>1, <2>2
<1>12. QED
  BY <1>4, <1>5, <1>7, <1>8, <1>9, <1>10, <1>11 DEF IInv

LEMMA SetStatusInv == ASSUME IInv, NEW a \in Account, SetStatus(a) PROVE IInv'
<1>1. /\ UNCHANGED <<balance, txns, ledger, rateRow, pc, fn, call, rate, sbal, dbal, calls>>
      /\ status' \in [Account -> {"absent", "active", "frozen"}]
      /\ \A b \in Account : status'[b] = "absent" <=> status[b] = "absent"
  BY DEF SetStatus, IInv, TypeOK
<1>2. TypeOK'
  BY <1>1 DEF IInv, TypeOK
<1>3. \A o : AccountsOf(o)' = AccountsOf(o)
  BY <1>1 DEF AccountsOf
<1>4. \A c \in Caller : CallKnown(c)'
  BY <1>1 DEF IInv, CallKnown, HoldsSource
<1>5. ASSUME NEW c \in Caller PROVE RowsStillAsRead(c)'
  <2>1. RowsStillAsRead(c)
    BY DEF IInv
  <2>2. pc[c] = "insertAccount" /\ call[c].org \in FreeOrgs =>
            Cardinality({b \in Account : AccountOrg[b] = call[c].org /\ status'[b] # "absent"})
                < FreePlanAccounts
    BY <1>3, <2>1 DEF RowsStillAsRead, AccountsOf
  <2>3. QED
    BY <1>1, <2>1, <2>2
       DEF RowsStillAsRead, HoldsSource, HoldsKey, MayGoNegative, BalanceAllowed,
           RowAllowed, AccountsOf
<1>6. \A c, d \in Caller : c # d => LocksCompatible(c, d)'
  BY <1>1 DEF IInv, LocksCompatible, HoldsSource, HoldsKey, SharesDest, HoldsDest
<1>7. SameClaimSerial' /\ LedgerExplainsBalance' /\ NoOverdraft' /\ KeyUsedOnce'
  BY <1>1 DEF IInv, SameClaimSerial, HoldsRateRow, RateKeyOf, LedgerExplainsBalance,
              BalanceBefore, NoOverdraft, KeyUsedOnce
<1>8. FreePlanLimit'
  BY <1>3 DEF IInv, FreePlanLimit
<1>9. QED
  BY <1>2, <1>4, <1>5, <1>6, <1>7, <1>8 DEF IInv

-----------------------------------------------------------------------------
(* The invariant.                                                          *)

LEMMA InitInv == ASSUME Init PROVE IInv
<1>1. NoCall \in CallArgs
  BY DEF NoCall, CallArgs
<1>2. TypeOK
  BY <1>1, AccountAssumption, BoundsAssumption DEF Init, TypeOK, Statements
<1>3. \A c \in Caller : CallKnown(c) /\ RowsStillAsRead(c)
  BY DEF Init, CallKnown, RowsStillAsRead, HoldsSource, HoldsKey
<1>4. \A c, d \in Caller : LocksCompatible(c, d)
  BY DEF Init, LocksCompatible, HoldsSource, HoldsKey, SharesDest, HoldsDest
<1>5. SameClaimSerial
  BY DEF Init, SameClaimSerial, HoldsRateRow
<1>6. LedgerExplainsBalance /\ NoOverdraft /\ KeyUsedOnce
  BY AccountAssumption DEF Init, LedgerExplainsBalance, BalanceBefore, NoOverdraft, KeyUsedOnce
<1>7. FreePlanLimit
  <2> SUFFICES ASSUME NEW o \in FreeOrgs PROVE Cardinality(AccountsOf(o)) <= FreePlanAccounts
    BY DEF FreePlanLimit
  <2>1. AccountsOf(o) = {a \in OpenAccounts : AccountOrg[a] = o}
    BY AccountAssumption DEF Init, AccountsOf
  <2>2. QED
    BY <2>1, AccountAssumption DEF FreePlanAccounts
<1>8. QED
  BY <1>2, <1>3, <1>4, <1>5, <1>6, <1>7 DEF IInv

LEMMA StutterInv == ASSUME IInv, UNCHANGED vars PROVE IInv'
<1>1. UNCHANGED <<balance, status, txns, ledger, rateRow, pc, fn, call, rate, sbal, dbal, calls>>
  BY DEF vars
<1>2. TypeOK' /\ SameClaimSerial' /\ LedgerExplainsBalance' /\ NoOverdraft' /\ KeyUsedOnce'
  BY <1>1 DEF IInv, TypeOK, SameClaimSerial, HoldsRateRow, RateKeyOf, LedgerExplainsBalance,
              BalanceBefore, NoOverdraft, KeyUsedOnce
<1>3. \A c \in Caller : CallKnown(c)' /\ RowsStillAsRead(c)'
  BY <1>1 DEF IInv, CallKnown, RowsStillAsRead, HoldsSource, HoldsKey, MayGoNegative,
              BalanceAllowed, RowAllowed, AccountsOf
<1>4. \A c, d \in Caller : c # d => LocksCompatible(c, d)'
  BY <1>1 DEF IInv, LocksCompatible, HoldsSource, HoldsKey, SharesDest, HoldsDest
<1>5. FreePlanLimit'
  BY <1>1 DEF IInv, FreePlanLimit, AccountsOf
<1>6. QED
  BY <1>2, <1>3, <1>4, <1>5 DEF IInv

LEMMA NextInv == ASSUME IInv, [Next]_vars PROVE IInv'
<1>1. ASSUME NEW c \in Caller, Statement(c) PROVE IInv'
  BY <1>1, RateUpdateInv, RateUpsertInv, IdempotencyInv, CheckSourceInv, CheckDestInv,
     LockSourceInv, InsertTxnInv, ForeignKeysInv, DebitInv, CreditInv, CommitTxnInv, CountAccountsInv,
     InsertAccountInv, RollbackInv
     DEF Statement, DeadlockAbort
<1>2. ASSUME NEW c \in Caller, BeginTransfer(c) \/ BeginCreate(c) \/ Disconnect(c) PROVE IInv'
  BY <1>2, BeginTransferInv, BeginCreateInv, RollbackInv DEF Disconnect
<1>3. QED
  BY <1>1, <1>2, SetStatusInv, StutterInv, AccountAssumption DEF Next

(* The inductive invariant holds throughout: every session's knowledge of  *)
(* the rows it locked stays true, and conflicting locks are never held.    *)
THEOREM Invariance == Spec => []IInv
<1>1. Init => IInv
  BY InitInv
<1>2. IInv /\ [Next]_vars => IInv'
  BY NextInv
<1>3. QED
  BY <1>1, <1>2, PTL DEF Spec

(* Every table and every session variable keeps its type.                  *)
THEOREM TypeCorrect == Spec => []TypeOK
<1>1. IInv => TypeOK
  BY DEF IInv
<1>2. QED
  BY <1>1, Invariance, PTL

(* No debit or credit is lost: process_transaction's balances are those    *)
(* its ledger_entries add up to, however calls interleave.                 *)
THEOREM LedgerExplains == Spec => []LedgerExplainsBalance
<1>1. IInv => LedgerExplainsBalance
  BY DEF IInv
<1>2. QED
  BY <1>1, Invariance, PTL

(* The funds check under FOR UPDATE keeps every account that is not a      *)
(* credit account from going below zero.                                   *)
THEOREM NeverOverdrawn == Spec => []NoOverdraft
<1>1. IInv => NoOverdraft
  BY DEF IInv
<1>2. QED
  BY <1>1, Invariance, PTL

(* One key, at most one committed transaction.                             *)
THEOREM KeyOnce == Spec => []KeyUsedOnce
<1>1. IInv => KeyUsedOnce
  BY DEF IInv
<1>2. QED
  BY <1>1, Invariance, PTL

(* check_rate_limit serialises the calls made under one claim.             *)
THEOREM ClaimSerial == Spec => []SameClaimSerial
<1>1. IInv => SameClaimSerial
  BY DEF IInv
<1>2. QED
  BY <1>1, Invariance, PTL

(* create_account keeps free organizations within their plan.              *)
THEOREM PlanLimit == Spec => []FreePlanLimit
<1>1. IInv => FreePlanLimit
  BY DEF IInv
<1>2. QED
  BY <1>1, Invariance, PTL

-----------------------------------------------------------------------------
(* Sums over finite sets.  A non-empty set of numbers has a least element, *)
(* so what fails for some finite set fails for one of whose proper subsets *)
(* it holds: the lemmas on Total look at that set.                         *)

(* The least element of a set of numbers, by which the lemmas on Total do   *)
(* induction over the size of a set.                                       *)
LEMMA LeastNumber ==
    ASSUME NEW N \in SUBSET Nat, N # {}
    PROVE  \E n \in N : \A m \in N : n <= m
<1> DEFINE Less == {p \in Nat \X Nat : p[1] < p[2]}
<1>1. IsWellFoundedOn(Less, Nat)
  BY NatLessThanWellFounded DEF OpToRel
<1>2. PICK n \in N : \A m \in N : <<m, n>> \notin Less
  BY <1>1, WFMin
<1>3. \A m \in N : ~ (m < n)
  BY <1>2
<1>4. QED
  BY <1>3

Total(f, S) == SumFunctionOnSet(f, S)

Some(T) == CHOOSE a \in T : TRUE

\* g holds the totals of the subsets of S.
Sums(f, S, g) ==
    g = [T \in SUBSET S |-> IF T = {} THEN 0 ELSE f[Some(T)] + g[T \ {Some(T)}]]

LEMMA TotalIsSum == ASSUME NEW f, NEW S PROVE Total(f, S) = (CHOOSE g : Sums(f, S, g))[S]
BY DEF Total, SumFunctionOnSet, FoldFunctionOnSet, MapThenFoldSet, Sums, Some

LEMMA SomeElement == ASSUME NEW T, T # {} PROVE Some(T) \in T
BY DEF Some

(* A set of subsets of a finite set has a least element; with it the       *)
(* lemmas below do induction over the subsets of a set.                    *)
LEMMA LeastSubset ==
    ASSUME NEW S, IsFiniteSet(S), NEW B \in SUBSET SUBSET S, B # {}
    PROVE  \E T \in B : \A U \in SUBSET T : U # T => U \notin B
<1> DEFINE Sizes == {Cardinality(T) : T \in B}
<1>1. \A T \in SUBSET S : IsFiniteSet(T) /\ Cardinality(T) \in Nat
  BY FS_Subset, FS_CardinalityType
<1>2. Sizes \in SUBSET Nat /\ Sizes # {}
  BY <1>1
<1>3. PICK n \in Sizes : \A m \in Sizes : n <= m
  BY <1>2, LeastNumber
<1>4. PICK T \in B : n = Cardinality(T)
  OBVIOUS
<1>5. ASSUME NEW U \in SUBSET T, U # T PROVE U \notin B
  <2>1. Cardinality(U) < Cardinality(T)
    BY <1>1, <1>5, FS_Subset
  <2>2. Cardinality(U) \in Nat /\ Cardinality(T) \in Nat
    BY <1>1
  <2>3. QED
    BY <1>3, <1>4, <2>1, <2>2
<1>6. QED
  BY <1>5

(* Functions that hold totals agree where both do.                         *)
LEMMA SumsAgree ==
    ASSUME NEW f, NEW S, NEW R, NEW g, NEW h, Sums(f, S, g), Sums(f, R, h),
           NEW T, T \subseteq S, T \subseteq R, IsFiniteSet(T)
    PROVE  g[T] = h[T]
<1> DEFINE B == {U \in SUBSET T : g[U] # h[U]}
<1>1. SUFFICES ASSUME B # {} PROVE FALSE
  BY T \in SUBSET T
<1>2. PICK U \in B : \A V \in SUBSET U : V # U => V \notin B
  <2>1. B \in SUBSET SUBSET T
    OBVIOUS
  <2> HIDE DEF B
  <2>2. QED
    BY <1>1, <2>1, LeastSubset
<1>3. /\ g[U] = IF U = {} THEN 0 ELSE f[Some(U)] + g[U \ {Some(U)}]
      /\ h[U] = IF U = {} THEN 0 ELSE f[Some(U)] + h[U \ {Some(U)}]
  BY DEF Sums
<1>4. U # {}
  BY <1>3
<1>5. g[U \ {Some(U)}] = h[U \ {Some(U)}]
  BY <1>2, <1>4, SomeElement
<1>6. QED
  BY <1>3, <1>5

(* There is one for every finite set.                                      *)
LEMMA SumsExist == ASSUME NEW f, NEW S, IsFiniteSet(S) PROVE \E g : Sums(f, S, g)
<1> DEFINE B == {T \in SUBSET S : ~ \E g : Sums(f, T, g)}
<1>1. SUFFICES ASSUME B # {} PROVE FALSE
  BY S \in SUBSET S
<1>2. PICK T \in B : \A U \in SUBSET T : U # T => U \notin B
  <2>1. B \in SUBSET SUBSET S
    OBVIOUS
  <2> HIDE DEF B
  <2>2. QED
    BY <1>1, <2>1, LeastSubset
<1> DEFINE G(U) == CHOOSE g : Sums(f, U, g)
           Rest(U) == U \ {Some(U)}
           g0 == [U \in SUBSET T |-> IF U = {} THEN 0 ELSE f[Some(U)] + G(Rest(U))[Rest(U)]]
<1>3. ASSUME NEW U \in SUBSET T, U # {}
      PROVE  Rest(U) \in SUBSET T /\ Sums(f, Rest(U), G(Rest(U)))
  <2>1. Rest(U) \in SUBSET T /\ Rest(U) # T /\ Rest(U) \in SUBSET S
    BY <1>3, SomeElement
  <2>2. \E g : Sums(f, Rest(U), g)
    BY <1>2, <2>1
  <2>3. QED
    BY <2>1, <2>2
<1>4. ASSUME NEW U \in SUBSET T, U # {}
      PROVE  g0[Rest(U)] = G(Rest(U))[Rest(U)]
  <2> DEFINE V == Rest(U)
  <2>1. V \in SUBSET T /\ Sums(f, V, G(V))
    BY <1>3, <1>4
  <2>2. G(V)[V] = IF V = {} THEN 0 ELSE f[Some(V)] + G(V)[Rest(V)]
    <3> HIDE DEF G
    <3> QED BY <2>1 DEF Sums
  <2>3. g0[V] = IF V = {} THEN 0 ELSE f[Some(V)] + G(Rest(V))[Rest(V)]
    BY <2>1
  <2>4. CASE V = {}
    BY <2>2, <2>3, <2>4
  <2>5. CASE V # {}
    <3>1. Sums(f, Rest(V), G(Rest(V))) /\ IsFiniteSet(Rest(V))
      BY <1>3, <2>1, <2>5, FS_Subset
    <3>2. G(V)[Rest(V)] = G(Rest(V))[Rest(V)]
      <4> HIDE DEF G
      <4> QED BY <2>1, <3>1, SumsAgree
    <3>3. QED
      BY <2>2, <2>3, <2>5, <3>2
  <2>6. QED
    BY <2>4, <2>5
<1>5. Sums(f, T, g0)
  <2> HIDE DEF G
  <2> QED BY <1>4 DEF Sums
<1>6. QED
  BY <1>5

LEMMA TotalStep ==
    ASSUME NEW f, NEW S, IsFiniteSet(S)
    PROVE  Total(f, S) = IF S = {} THEN 0 ELSE f[Some(S)] + Total(f, S \ {Some(S)})
<1> DEFINE g == CHOOSE g : Sums(f, S, g)
           R == S \ {Some(S)}
           h == CHOOSE h : Sums(f, R, h)
<1>1. Sums(f, S, g) /\ Total(f, S) = g[S]
  BY SumsExist, TotalIsSum
<1>2. g[S] = IF S = {} THEN 0 ELSE f[Some(S)] + g[R]
  <2> HIDE DEF g
  <2> QED BY <1>1 DEF Sums
<1>3. IsFiniteSet(R) /\ R \subseteq S
  BY FS_Subset
<1>4. Sums(f, R, h) /\ Total(f, R) = h[R]
  BY <1>3, SumsExist, TotalIsSum
<1>5. g[R] = h[R]
  <2> HIDE DEF g, h
  <2> QED BY <1>1, <1>3, <1>4, SumsAgree
<1>6. QED
  BY <1>1, <1>2, <1>4, <1>5

(* Whatever element is taken out, the total is that element and the rest.  *)
Splits(f, T) ==
    /\ Total(f, T) \in Int
    /\ \A x \in T : Total(f, T) = f[x] + Total(f, T \ {x})

LEMMA TotalSplits ==
    ASSUME NEW S, IsFiniteSet(S), NEW f, \A a \in S : f[a] \in Int
    PROVE  Splits(f, S)
<1> DEFINE B == {T \in SUBSET S : ~ Splits(f, T)}
<1>1. SUFFICES ASSUME B # {} PROVE FALSE
  BY S \in SUBSET S
<1>2. PICK T \in B : \A U \in SUBSET T : U # T => U \notin B
  <2>1. B \in SUBSET SUBSET S
    OBVIOUS
  <2> HIDE DEF B
  <2>2. QED
    BY <1>1, <2>1, LeastSubset
<1>3. \A U \in SUBSET T : U # T => Splits(f, U)
  BY <1>2
<1> HIDE DEF B
<1>4. T \in SUBSET S /\ IsFiniteSet(T) /\ ~ Splits(f, T)
  BY FS_Subset DEF B
<1>5. Total(f, T) = IF T = {} THEN 0 ELSE f[Some(T)] + Total(f, T \ {Some(T)})
  BY <1>4, TotalStep
<1>6. T # {}
  BY <1>4, <1>5 DEF Splits
<1> DEFINE p == Some(T)
<1>7. p \in T /\ f[p] \in Int
  BY <1>4, <1>6, SomeElement
<1>8. \A x \in T : T \ {x} \in SUBSET T /\ T \ {x} # T
  OBVIOUS
<1>9. Total(f, T) \in Int
  BY <1>3, <1>5, <1>6, <1>7, <1>8 DEF Splits
<1>10. ASSUME NEW x \in T, x # p
       PROVE  Total(f, T) = f[x] + Total(f, T \ {x})
  <2> HIDE DEF p
  <2> DEFINE R == T \ {p, x}
  <2>1. R = (T \ {p}) \ {x} /\ R = (T \ {x}) \ {p} /\ R \in SUBSET T /\ R # T
    OBVIOUS
  <2>2. Total(f, T \ {p}) = f[x] + Total(f, R)
    BY <1>3, <1>7, <1>8, <1>10, <2>1 DEF Splits
  <2>3. Total(f, T \ {x}) = f[p] + Total(f, R)
    BY <1>3, <1>7, <1>8, <1>10, <2>1 DEF Splits
  <2>4. f[x] \in Int /\ Total(f, R) \in Int
    BY <1>3, <1>4, <2>1 DEF Splits
  <2>5. Total(f, T) = f[p] + Total(f, T \ {p})
    BY <1>5, <1>6 DEF p
  <2> HIDE DEF R
  <2>6. QED
    BY <1>7, <2>2, <2>3, <2>4, <2>5
<1>11. QED
  BY <1>4, <1>5, <1>6, <1>9, <1>10 DEF Splits

(* The total depends on the values at the elements only.                   *)
LEMMA TotalSame ==
    ASSUME NEW S, IsFiniteSet(S), NEW f, NEW g, \A a \in S : f[a] = g[a]
    PROVE  Total(f, S) = Total(g, S)
<1> DEFINE B == {T \in SUBSET S : Total(f, T) # Total(g, T)}
<1>1. SUFFICES ASSUME B # {} PROVE FALSE
  BY S \in SUBSET S
<1>2. PICK T \in B : \A U \in SUBSET T : U # T => U \notin B
  <2>1. B \in SUBSET SUBSET S
    OBVIOUS
  <2> HIDE DEF B
  <2>2. QED
    BY <1>1, <2>1, LeastSubset
<1>3. IsFiniteSet(T)
  BY FS_Subset
<1>4. /\ Total(f, T) = IF T = {} THEN 0 ELSE f[Some(T)] + Total(f, T \ {Some(T)})
      /\ Total(g, T) = IF T = {} THEN 0 ELSE g[Some(T)] + Total(g, T \ {Some(T)})
  BY <1>3, TotalStep
<1>5. Some(T) \in T
  BY <1>4, SomeElement
<1>6. Total(f, T \ {Some(T)}) = Total(g, T \ {Some(T)})
  BY <1>2, <1>5
<1>7. QED
  BY <1>4, <1>5, <1>6

(* What changes at one element changes the total by as much.               *)
LEMMA TotalChange ==
    ASSUME NEW S, IsFiniteSet(S), NEW f \in [S -> Int], NEW g \in [S -> Int],
           NEW x \in S, \A a \in S \ {x} : f[a] = g[a]
    PROVE  Total(g, S) = Total(f, S) + (g[x] - f[x])
<1>1. /\ Total(f, S) = f[x] + Total(f, S \ {x})
      /\ Total(g, S) = g[x] + Total(g, S \ {x})
  BY TotalSplits DEF Splits
<1>2. IsFiniteSet(S \ {x})
  BY FS_Subset
<1>3. Total(f, S \ {x}) \in Int
  BY <1>2, TotalSplits DEF Splits
<1>4. Total(f, S \ {x}) = Total(g, S \ {x})
  BY <1>2, TotalSame
<1>5. f[x] \in Int /\ g[x] \in Int
  OBVIOUS
<1>6. QED
  BY <1>1, <1>3, <1>4, <1>5

-----------------------------------------------------------------------------
(* Conservation of money.                                                  *)

(* Only a commit of process_transaction moves money or adds a transaction. *)
LEMMA OnlyCommitsPost ==
    ASSUME IInv, [Next]_vars, \A c \in Caller : ~ CommitTxn(c)
    PROVE  balance' = balance /\ txns' = txns
<1>1. ASSUME NEW c \in Caller, Idempotency(c) PROVE UNCHANGED db
  BY <1>1, RowsHaveNulls DEF Idempotency, Earlier, IInv
<1>2. ASSUME NEW c \in Caller, Statement(c), ~ InsertAccount(c) PROVE UNCHANGED db
  BY <1>1, <1>2
     DEF Statement, RateUpdate, RateUpsert, CheckSource, CheckDest, LockSource, InsertTxn,
         ForeignKeys, Debit, Credit, CountAccounts, DeadlockAbort, Rollback
<1>3. ASSUME NEW c \in Caller, InsertAccount(c) PROVE balance' = balance /\ txns' = txns
  BY <1>3 DEF InsertAccount
<1>4. ASSUME NEW c \in Caller, BeginTransfer(c) \/ BeginCreate(c) \/ Disconnect(c)
      PROVE  UNCHANGED db
  BY <1>4 DEF BeginTransfer, BeginCreate, Begin, Disconnect, Rollback
<1>5. ASSUME NEW a \in Freezable, SetStatus(a) PROVE balance' = balance /\ txns' = txns
  BY <1>5 DEF SetStatus
<1>6. QED
  BY <1>2, <1>3, <1>4, <1>5 DEF Next, db, vars

(* What the account tables gain or lose by one commit.                     *)
LEMMA CommitMovesBalance ==
    ASSUME IInv, NEW c \in Caller, CommitTxn(c)
    PROVE  Total(balance, Account)' =
             IF call[c].dest = Null THEN Total(balance, Account) - call[c].amount
             ELSE Total(balance, Account)
<1> DEFINE t == call[c]
           mid == [balance EXCEPT ![t.source] = sbal[c]]
<1>1. /\ balance' = [a \in Account |->
            IF a = t.source THEN sbal[c] ELSE IF a = t.dest THEN dbal[c] ELSE balance[a]]
      /\ pc[c] = "commitTxn"
  BY DEF CommitTxn
<1>2. /\ t.source \in Account /\ t.amount \in Nat /\ t.source # t.dest
      /\ t.dest \in Account \cup {Null}
      /\ sbal[c] = balance[t.source] - t.amount
      /\ t.dest \in Account => dbal[c] = balance[t.dest] + t.amount
  BY <1>1, CommittingCall DEF TransferArgs
<1>3. /\ balance \in [Account -> Int] /\ sbal[c] \in Int /\ dbal[c] \in Int
      /\ IsFiniteSet(Account)
  BY AccountAssumption, BoundsAssumption DEF IInv, TypeOK
<1>4. mid \in [Account -> Int] /\ balance' \in [Account -> Int]
  BY <1>1, <1>3
<1>5. Total(balance, Account) \in Int
  BY <1>3, TotalSplits DEF Splits
<1>6. Total(mid, Account) = Total(balance, Account) - t.amount
  <2>1. mid[t.source] = balance[t.source] - t.amount
    BY <1>2, <1>3
  <2>2. \A a \in Account \ {t.source} : balance[a] = mid[a]
    BY <1>3
  <2>3. Total(mid, Account) = Total(balance, Account) + (mid[t.source] - balance[t.source])
    <3> HIDE DEF mid
    <3> QED BY <1>2, <1>3, <1>4, <2>2, TotalChange
  <2>4. balance[t.source] \in Int
    BY <1>2, <1>3
  <2> HIDE DEF mid, t
  <2>5. QED
    BY <1>2, <1>5, <2>1, <2>3, <2>4
<1>7. CASE t.dest = Null
  <2>1. balance' = mid
    BY <1>1, <1>2, <1>3, <1>7, NullAssumption
  <2>2. QED
    BY <1>6, <1>7, <2>1
<1>8. CASE t.dest \in Account
  <2>1. balance'[t.dest] = balance[t.dest] + t.amount /\ mid[t.dest] = balance[t.dest]
    BY <1>1, <1>2, <1>3, <1>8
  <2>2. \A a \in Account \ {t.dest} : mid[a] = balance'[a]
    BY <1>1, <1>3
  <2>3. Total(balance', Account) = Total(mid, Account) + (balance'[t.dest] - mid[t.dest])
    <3> HIDE DEF mid
    <3> QED BY <1>3, <1>4, <1>8, <2>2, TotalChange
  <2>4. balance[t.dest] \in Int /\ t.dest # Null
    BY <1>3, <1>8, NullAssumption
  <2> HIDE DEF mid, t
  <2>5. Total(balance', Account) = Total(balance, Account)
    BY <1>2, <1>5, <1>6, <2>1, <2>3, <2>4
  <2>6. QED
    BY <2>4, <2>5 DEF t
<1>9. QED
  BY <1>2, <1>7, <1>8

(* What a commit adds to the withdrawals.                                  *)
LEMMA CommitAddsWithdrawal ==
    ASSUME IInv, NEW c \in Caller, CommitTxn(c)
    PROVE  /\ Total(Amounts, Withdrawn) \in Int
           /\ Total(Amounts, Withdrawn)' =
                IF call[c].dest = Null THEN Total(Amounts, Withdrawn) + call[c].amount
                ELSE Total(Amounts, Withdrawn)
<1> DEFINE t == call[c]
           id == Len(txns) + 1
<1>1. txns' = Append(txns, TxnRow(t)) /\ pc[c] = "commitTxn"
  BY DEF CommitTxn
<1>2. txns \in Seq(TxnRows) /\ t.amount \in Nat
  BY <1>1, CommittingCall DEF IInv, TypeOK
<1>3. /\ Len(txns) \in Nat /\ DOMAIN txns = 1..Len(txns) /\ DOMAIN txns' = 1..id
      /\ txns'[id] = TxnRow(t) /\ \A i \in DOMAIN txns : txns'[i] = txns[i]
  BY <1>1, <1>2
<1>4. TxnRow(t).dest = t.dest /\ TxnRow(t).amount = t.amount
  BY DEF TxnRow
<1> HIDE DEF id
<1>5. id \notin DOMAIN txns /\ DOMAIN txns' = DOMAIN txns \cup {id}
  BY <1>3 DEF id
<1>6. Withdrawn' = IF t.dest = Null THEN Withdrawn \cup {id} ELSE Withdrawn
  BY <1>3, <1>4, <1>5 DEF Withdrawn
<1>7. IsFiniteSet(Withdrawn) /\ IsFiniteSet(Withdrawn') /\ id \notin Withdrawn
  <2>1. IsFiniteSet(DOMAIN txns) /\ IsFiniteSet(DOMAIN txns')
    <3>1. 1 \in Int /\ Len(txns) \in Int
      BY <1>3
    <3>2. IsFiniteSet(1..Len(txns))
      BY <3>1, FS_Interval
    <3>3. IsFiniteSet(DOMAIN txns \cup {id})
      BY <1>3, <3>2, FS_AddElement
    <3>4. QED
      BY <1>3, <1>5, <3>2, <3>3
  <2>2. Withdrawn \subseteq DOMAIN txns /\ Withdrawn' \subseteq DOMAIN txns'
    BY DEF Withdrawn
  <2>3. IsFiniteSet(Withdrawn)
    BY <2>1, <2>2, FS_Subset
  <2>4. IsFiniteSet(Withdrawn')
    BY <2>1, <2>2, FS_Subset
  <2>5. QED
    BY <1>5, <2>2, <2>3, <2>4
<1>8. /\ \A i \in Withdrawn : Amounts[i] = Amounts'[i] /\ Amounts[i] \in Int
      /\ Amounts'[id] = t.amount
  <2>1. \A i \in DOMAIN txns : Amounts[i] = txns[i].amount /\ txns[i].amount \in Int
    <3>1. \A i \in DOMAIN txns : txns[i] \in TxnRows
      BY <1>2
    <3>2. QED
      BY <3>1 DEF Amounts, TxnRows
  <2>2. \A i \in DOMAIN txns' : Amounts'[i] = txns'[i].amount
    BY DEF Amounts
  <2>3. QED
    BY <1>3, <1>4, <1>5, <2>1, <2>2 DEF Withdrawn
<1>9. Total(Amounts, Withdrawn) = Total(Amounts', Withdrawn)
  BY <1>7, <1>8, TotalSame
<1>10. Total(Amounts, Withdrawn) \in Int
  BY <1>7, <1>8, TotalSplits DEF Splits
<1>11. CASE t.dest = Null
  <2>1. id \in Withdrawn' /\ Withdrawn' \ {id} = Withdrawn
    BY <1>6, <1>7, <1>11
  <2>2. \A i \in Withdrawn' : Amounts'[i] \in Int
    BY <1>2, <1>6, <1>8
  <2>3. Splits(Amounts', Withdrawn')
    BY <1>7, <2>2, TotalSplits
  <2>4. Total(Amounts', Withdrawn') = t.amount + Total(Amounts', Withdrawn)
    BY <1>8, <2>1, <2>3 DEF Splits
  <2>5. QED
    BY <1>2, <1>9, <1>10, <1>11, <2>4
<1>12. CASE t.dest # Null
  BY <1>6, <1>9, <1>10, <1>12
<1>13. QED
  BY <1>11, <1>12

(* No interleaving of calls makes or loses money: the balances of          *)
(* process_transaction's accounts add up to the opening balances less the  *)
(* transactions that name no destination.                                  *)
THEOREM MoneyStays == Spec => []MoneyConserved
<1>1. Init => MoneyConserved
  <2> SUFFICES ASSUME Init PROVE MoneyConserved
    OBVIOUS
  <2>1. balance = Opening /\ Withdrawn = {}
    BY DEF Init, Withdrawn
  <2>2. Total(Amounts, Withdrawn) = 0
    BY <2>1, TotalStep, FS_EmptySet
  <2>3. Total(Opening, Account) \in Int
    BY AccountAssumption, BoundsAssumption, TotalSplits DEF Splits
  <2>4. QED
    BY <2>1, <2>2, <2>3 DEF MoneyConserved, Total
<1>2. IInv /\ MoneyConserved /\ [Next]_vars => MoneyConserved'
  <2> SUFFICES ASSUME IInv, MoneyConserved, [Next]_vars PROVE MoneyConserved'
    OBVIOUS
  <2>1. ASSUME NEW c \in Caller, CommitTxn(c) PROVE MoneyConserved'
    <3>1. Total(Opening, Account) \in Int
      BY AccountAssumption, BoundsAssumption, TotalSplits DEF Splits
    <3>2. call[c].amount \in Nat
      BY <2>1, CommittingCall DEF CommitTxn
    <3>3. QED
      BY <2>1, <3>1, <3>2, CommitMovesBalance, CommitAddsWithdrawal DEF MoneyConserved, Total
  <2>2. CASE \A c \in Caller : ~ CommitTxn(c)
    <3>1. balance' = balance /\ txns' = txns
      BY <2>2, OnlyCommitsPost
    <3>2. QED
      BY <3>1 DEF MoneyConserved, Total, Amounts, Withdrawn
  <2>3. QED
    BY <2>1, <2>2
<1>3. QED
  BY <1>1, <1>2, Invariance, PTL DEF Spec

-----------------------------------------------------------------------------
(* What a call found of its accounts, and when.                            *)

(* A statement after which the call is still under way and has written     *)
(* nothing that others see.                                                *)
Onward(c, s) ==
    /\ pc[c] # "idle" /\ s \in Statements \ {"idle"} /\ Goto(c, s)
    /\ UNCHANGED <<db, call>>
    /\ s = "checkDest" => pc[c] = "checkSource" /\ UsableIn(call[c].source, call[c].org)
    /\ s = "lockSource" =>
        /\ pc[c] = "checkDest"
        /\ call[c].dest = Null \/ UsableIn(call[c].dest, call[c].org)
    /\ s \in {"insertTxn", "foreignKeys", "debit", "credit", "commitTxn"} =>
        pc[c] = "lockSource" \/ HoldsSource(c)

LEMMA StatementKinds ==
    ASSUME IInv, NEW c \in Caller, Statement(c), ~ CommitTxn(c), ~ InsertAccount(c)
    PROVE  Rollback(c) \/ \E s : Onward(c, s)
<1>1. ASSUME RateUpdate(c) \/ RateUpsert(c) PROVE Rollback(c) \/ \E s : Onward(c, s)
  <2>1. CASE Rollback(c)
    BY <2>1
  <2>2. CASE Goto(c, "rateUpsert") /\ UNCHANGED <<db, call>> /\ pc[c] # "idle"
    BY <2>2 DEF Onward, Statements
  <2>3. CASE Goto(c, AfterRate(c)) /\ UNCHANGED <<db, call>> /\ pc[c] # "idle"
    BY <2>3 DEF Onward, AfterRate, Statements
  <2>4. QED
    BY <1>1, <2>1, <2>2, <2>3 DEF RateUpdate, RateUpsert
<1>2. ASSUME Idempotency(c) PROVE \E s : Onward(c, s)
  BY <1>2, RowsHaveNulls DEF Idempotency, Earlier, IInv, Onward, Statements
<1>3. ASSUME CheckSource(c) PROVE Rollback(c) \/ Onward(c, "checkDest")
  BY <1>3 DEF CheckSource, Onward, Statements
<1>4. ASSUME CheckDest(c) PROVE Rollback(c) \/ Onward(c, "lockSource")
  BY <1>4 DEF CheckDest, Onward, Statements
<1>5. ASSUME LockSource(c) \/ InsertTxn(c) \/ ForeignKeys(c)
      PROVE  Rollback(c) \/ \E s : Onward(c, s)
  BY <1>5 DEF LockSource, InsertTxn, ForeignKeys, Onward, Statements, HoldsSource
<1>6. ASSUME Debit(c) PROVE Rollback(c) \/ \E s : Onward(c, s)
  <2> DEFINE s == IF call[c].dest = Null THEN "commitTxn" ELSE "credit"
  <2>1. s \in {"commitTxn", "credit"}
    OBVIOUS
  <2>2. Rollback(c) \/ (Goto(c, s) /\ UNCHANGED <<db, call>> /\ pc[c] = "debit")
    BY <1>6 DEF Debit
  <2> HIDE DEF s
  <2>3. QED
    BY <2>1, <2>2 DEF Onward, Statements, HoldsSource
<1>7. ASSUME Credit(c) \/ CountAccounts(c) PROVE Rollback(c) \/ \E s : Onward(c, s)
  BY <1>7 DEF Credit, CountAccounts, Onward, Statements, HoldsSource
<1>8. QED
  BY <1>1, <1>2, <1>3, <1>4, <1>5, <1>6, <1>7 DEF Statement, DeadlockAbort

(* A step of one session is seen by that session only.                     *)
LEMMA SightStep ==
    ASSUME TypeOK, SightInv, NEW c \in Caller, NEW s, Goto(c, s),
           \A d \in Caller \ {c} : call'[d] = call[d],
           AccountsSighted(c)'
    PROVE  SightInv'
<1>1. /\ pc' = [pc EXCEPT ![c] = s]
      /\ sighted' = [sighted EXCEPT ![c] =
            IF s = "idle" THEN {} ELSE sighted[c] \cup (LookedUp(c) \cap Active)]
  BY DEF Goto
<1>2. sighted' \in [Caller -> SUBSET Account]
  <2>1. Active \subseteq Account
    BY DEF Active
  <2>2. QED
    BY <1>1, <2>1 DEF SightInv
<1>3. ASSUME NEW d \in Caller \ {c} PROVE AccountsSighted(d)'
  <2>1. pc'[d] = pc[d] /\ sighted'[d] = sighted[d] /\ call'[d] = call[d]
    BY <1>1 DEF TypeOK, SightInv
  <2>2. AccountsSighted(d)
    BY DEF SightInv
  <2>3. QED
    BY <2>1, <2>2 DEF AccountsSighted, Found, HoldsSource
<1>4. QED
  BY <1>2, <1>3 DEF SightInv

LEMMA EndCallSight == ASSUME TypeOK, SightInv, NEW c \in Caller, EndCall(c) PROVE SightInv'
<1>1. Goto(c, "idle") /\ pc'[c] = "idle" /\ sighted'[c] = {}
      /\ \A d \in Caller \ {c} : call'[d] = call[d]
  BY DEF EndCall, Goto, TypeOK, SightInv
<1>2. AccountsSighted(c)'
  BY <1>1 DEF AccountsSighted, Found, HoldsSource
<1>3. QED
  BY <1>1, <1>2, SightStep

LEMMA BeginSight ==
    ASSUME TypeOK, SightInv, NEW c \in Caller, NEW f, NEW args, Begin(c, f, args)
    PROVE  SightInv'
<1>1. Goto(c, "rateUpdate") /\ pc'[c] = "rateUpdate"
      /\ \A d \in Caller \ {c} : call'[d] = call[d]
  BY DEF Begin, Goto, TypeOK
<1>2. AccountsSighted(c)'
  BY <1>1 DEF AccountsSighted, Found, HoldsSource
<1>3. QED
  BY <1>1, <1>2, SightStep

LEMMA OnwardSight ==
    ASSUME TypeOK, SightInv, NEW c \in Caller, NEW s, Onward(c, s)
    PROVE  SightInv'
<1>1. Goto(c, s) /\ s \in Statements \ {"idle"} /\ call' = call
  BY DEF Onward
<1>2. pc'[c] = s /\ sighted'[c] = sighted[c] \cup (LookedUp(c) \cap Active)
  BY <1>1 DEF Goto, TypeOK, SightInv
<1>3. AccountsSighted(c)
  BY DEF SightInv
<1> DEFINE Locked == {"insertTxn", "foreignKeys", "debit", "credit", "commitTxn"}
<1>4. s \in {"checkDest", "lockSource"} \cup Locked => Found(c, call[c].source)'
  <2>1. CASE s = "checkDest"
    BY <1>1, <1>2, <2>1 DEF Onward, UsableIn, LookedUp, Active, Found
  <2>2. CASE s \in {"lockSource"} \cup Locked
    <3>1. Found(c, call[c].source)
      BY <1>3, <2>2 DEF Onward, AccountsSighted
    <3>2. QED
      BY <1>1, <1>2, <3>1 DEF Found
  <2>3. QED
    BY <2>1, <2>2
<1>5. s \in {"lockSource"} \cup Locked => call[c].dest = Null \/ Found(c, call[c].dest)'
  <2>1. CASE s = "lockSource"
    BY <1>1, <1>2, <2>1 DEF Onward, UsableIn, LookedUp, Active, Found
  <2>2. CASE s \in Locked
    <3>1. call[c].dest = Null \/ Found(c, call[c].dest)
      BY <1>3, <2>2 DEF Onward, AccountsSighted
    <3>2. QED
      BY <1>1, <1>2, <3>1 DEF Found
  <2>3. QED
    BY <2>1, <2>2
<1>6. AccountsSighted(c)'
  <2>1. HoldsSource(c)' => s \in Locked
    BY <1>2 DEF HoldsSource
  <2>2. QED
    BY <1>1, <1>2, <1>4, <1>5, <2>1 DEF AccountsSighted
<1>7. QED
  BY <1>1, <1>6, SightStep

LEMMA SightNext == ASSUME IInv, SightInv, [Next]_vars PROVE SightInv'
<1> USE DEF IInv
<1>1. ASSUME NEW c \in Caller, CommitTxn(c) \/ InsertAccount(c) \/ Rollback(c) PROVE SightInv'
  BY <1>1, EndCallSight DEF CommitTxn, InsertAccount, Rollback
<1>2. ASSUME NEW c \in Caller, Statement(c) PROVE SightInv'
  BY <1>1, <1>2, StatementKinds, OnwardSight
<1>3. ASSUME NEW c \in Caller, BeginTransfer(c) \/ BeginCreate(c) PROVE SightInv'
  BY <1>3, BeginSight DEF BeginTransfer, BeginCreate
<1>4. ASSUME UNCHANGED <<pc, call, sighted>> PROVE SightInv'
  BY <1>4 DEF SightInv, AccountsSighted, Found, HoldsSource
<1>5. QED
  BY <1>1, <1>2, <1>3, <1>4 DEF Next, Disconnect, SetStatus, vars

(* process_transaction moves money only between accounts of its own        *)
(* organization, each of which it has seen active since it began.          *)
THEOREM ChecksRemembered == Spec => []SightInv
<1>1. Init => SightInv
  BY DEF Init, SightInv, AccountsSighted, Found, HoldsSource
<1>2. IInv /\ SightInv /\ [Next]_vars => SightInv'
  BY SightNext
<1>3. QED
  BY <1>1, <1>2, Invariance, PTL DEF Spec

-----------------------------------------------------------------------------
(* Refinement: a call begins, looks at its accounts, and returns with its  *)
(* whole effect or with none.                                              *)

Posted == [i \in DOMAIN txns |-> Args(txns[i])]
Open == {a \in Account : status[a] # "absent"}
Begun == {c \in Caller : pc[c] # "idle"}

LEMMA ArgsOfRow == ASSUME NEW t \in TransferArgs PROVE Args(TxnRow(t)) = t
BY DEF Args, TxnRow, TransferArgs

LEMMA PostedStep ==
    ASSUME TypeOK, NEW t \in TransferArgs, txns' = Append(txns, TxnRow(t))
    PROVE  Posted' = Append(Posted, t)
<1>1. /\ Len(txns) \in Nat /\ DOMAIN txns = 1..Len(txns)
      /\ DOMAIN txns' = 1..(Len(txns) + 1)
      /\ txns'[Len(txns) + 1] = TxnRow(t)
      /\ \A i \in 1..Len(txns) : txns'[i] = txns[i]
  BY DEF TypeOK
<1>2. ASSUME NEW i \in DOMAIN txns PROVE Args(txns[i]) \in CallArgs
  <2>1. txns[i] \in TxnRows
    BY DEF TypeOK
  <2>2. QED
    BY <2>1 DEF TxnRows, Args, CallArgs
<1>3. Posted \in Seq(CallArgs) /\ Len(Posted) = Len(txns) /\ DOMAIN Posted = 1..Len(txns)
  BY <1>1, <1>2 DEF Posted
<1>4. t \in CallArgs
  BY DEF TransferArgs, CallArgs
<1>5. /\ Append(Posted, t) \in [1..(Len(txns) + 1) -> CallArgs]
      /\ Append(Posted, t)[Len(txns) + 1] = t
      /\ \A i \in 1..Len(txns) : Append(Posted, t)[i] = Args(txns[i])
  <2>1. \A i \in 1..Len(txns) : Posted[i] = Args(txns[i])
    BY <1>1 DEF Posted
  <2>2. Append(Posted, t) \in Seq(CallArgs) /\ Len(Append(Posted, t)) = Len(txns) + 1
    BY <1>3, <1>4
  <2>3. Append(Posted, t) \in [1..Len(Append(Posted, t)) -> CallArgs]
    BY <2>2, LenProperties
  <2>4. QED
    BY <1>1, <1>3, <1>4, <2>1, <2>2, <2>3
<1>6. Posted' = [i \in 1..(Len(txns) + 1) |-> Args(txns'[i])]
  BY <1>1 DEF Posted, Args
<1>7. \A i \in 1..(Len(txns) + 1) : Args(txns'[i]) = Append(Posted, t)[i]
  BY <1>1, <1>5, ArgsOfRow DEF Args
<1>8. Append(Posted, t) = [i \in 1..(Len(txns) + 1) |-> Append(Posted, t)[i]]
  BY <1>5
<1>9. QED
  BY <1>6, <1>7, <1>8

LEMMA RefineInit == ASSUME Init PROVE Abstract!Init
<1>1. Open = OpenAccounts /\ Active = OpenAccounts
  BY AccountAssumption DEF Init, Open, Active
<1>2. Posted = <<>> /\ Begun = {}
  BY DEF Init, Posted, Begun
<1>3. QED
  BY <1>1, <1>2 DEF Init, Abstract!Init, Open, Posted, Begun

(* The end of a call, as a client sees it.                                 *)
LEMMA RefineReturn ==
    ASSUME TypeOK, NEW c \in Caller, pc[c] # "idle", Goto(c, "idle")
    PROVE  Abstract!Return(c)
<1>1. pc' = [pc EXCEPT ![c] = "idle"] /\ sighted' = [sighted EXCEPT ![c] = {}]
  BY DEF Goto
<1>2. c \in Begun /\ Begun' = Begun \ {c}
  BY <1>1 DEF Begun, TypeOK
<1>3. QED
  BY <1>1, <1>2 DEF Abstract!Return, Begun

LEMMA RefineRollback ==
    ASSUME TypeOK, NEW c \in Caller, Rollback(c), pc[c] # "idle"
    PROVE  Abstract!Fail(c)
<1>1. UNCHANGED <<balance, status, txns>> /\ Goto(c, "idle")
  BY DEF Rollback, EndCall, db
<1>2. Open' = Open /\ Active' = Active /\ Posted' = Posted
  BY <1>1 DEF Open, Active, Posted, Args
<1>3. Abstract!Return(c)
  BY <1>1, RefineReturn
<1>4. QED
  BY <1>1, <1>2, <1>3 DEF Abstract!Fail, Open, Posted

LEMMA RefineBegin ==
    ASSUME TypeOK, SightInv, NEW c \in Caller, NEW f, NEW args, Begin(c, f, args)
    PROVE  Abstract!Begin(c)
<1>1. UNCHANGED <<balance, status, txns>> /\ pc[c] = "idle"
      /\ pc' = [pc EXCEPT ![c] = "rateUpdate"]
      /\ sighted' = [sighted EXCEPT ![c] = sighted[c] \cup (LookedUp(c) \cap Active)]
  BY DEF Begin, Goto, db
<1>2. LookedUp(c) = {}
  BY <1>1 DEF LookedUp
<1>3. sighted' = sighted
  BY <1>1, <1>2 DEF SightInv
<1>4. Open' = Open /\ Active' = Active /\ Posted' = Posted
  BY <1>1 DEF Open, Active, Posted, Args
<1>5. c \notin Begun /\ Begun' = Begun \cup {c}
  BY <1>1 DEF Begun, TypeOK
<1>6. QED
  BY <1>1, <1>3, <1>4, <1>5 DEF Abstract!Begin, Open, Posted, Begun

LEMMA RefineOnward ==
    ASSUME TypeOK, SightInv, NEW c \in Caller, NEW s, Onward(c, s)
    PROVE  (\E a \in Account : Abstract!Look(c, a)) \/ UNCHANGED Abstract!avars
<1>1. UNCHANGED <<balance, status, txns>> /\ pc[c] # "idle" /\ s # "idle"
      /\ pc' = [pc EXCEPT ![c] = s]
      /\ sighted' = [sighted EXCEPT ![c] = sighted[c] \cup (LookedUp(c) \cap Active)]
  BY DEF Onward, Goto, db
<1>2. Open' = Open /\ Active' = Active /\ Posted' = Posted
  BY <1>1 DEF Open, Active, Posted, Args
<1>3. c \in Begun /\ Begun' = Begun
  BY <1>1 DEF Begun, TypeOK
<1>4. CASE LookedUp(c) \cap Active = {}
  <2>1. sighted' = sighted
    BY <1>1, <1>4 DEF SightInv
  <2>2. QED
    BY <1>1, <1>2, <1>3, <2>1 DEF Abstract!avars, Open, Posted, Begun
<1>5. CASE LookedUp(c) \cap Active # {}
  <2>1. PICK a : LookedUp(c) \cap Active = {a}
    BY <1>5 DEF LookedUp
  <2>2. a \in Active /\ a \in Account
    BY <2>1 DEF Active
  <2>3. sighted' = [sighted EXCEPT ![c] = sighted[c] \cup {a}]
    BY <1>1, <2>1
  <2>4. Abstract!Look(c, a)
    BY <1>1, <1>2, <1>3, <2>2, <2>3 DEF Abstract!Look, Open, Posted, Begun
  <2>5. QED
    BY <2>2, <2>4
<1>6. QED
  BY <1>4, <1>5

LEMMA RefineSetStatus ==
    ASSUME TypeOK, NEW a \in Account, SetStatus(a)
    PROVE  Abstract!SetActive(a)
<1>1. UNCHANGED <<balance, txns, pc, sighted>>
  BY DEF SetStatus
<1>2. Open' = Open /\ Posted' = Posted /\ Begun' = Begun
  BY <1>1 DEF SetStatus, TypeOK, Open, Posted, Args, Begun
<1>3. Active' = IF a \in Active THEN Active \ {a} ELSE Active \cup ({a} \cap Open)
  BY DEF SetStatus, TypeOK, Active, Open
<1>4. QED
  BY <1>1, <1>2, <1>3 DEF Abstract!SetActive, Open, Posted, Begun

LEMMA RefineCommitTxn ==
    ASSUME IInv, SightInv, NEW c \in Caller, CommitTxn(c)
    PROVE  \E t \in Transfers : Abstract!Post(c, t)
<1> DEFINE t == call[c]
<1>1. /\ pc[c] = "commitTxn" /\ status' = status /\ txns' = Append(txns, TxnRow(t))
      /\ balance' = [a \in Account |->
            IF a = t.source THEN sbal[c] ELSE IF a = t.dest THEN dbal[c] ELSE balance[a]]
      /\ Goto(c, "idle")
  BY DEF CommitTxn, EndCall
<1>2. /\ t \in Transfers /\ t \in TransferArgs /\ t.amount > 0 /\ t.source # t.dest
      /\ MayGoNegative(t.source) \/ balance[t.source] >= t.amount
      /\ t.key # Null => \A i \in DOMAIN txns : txns[i].key # t.key
      /\ sbal[c] = balance[t.source] - t.amount
      /\ t.dest \in Account => dbal[c] = balance[t.dest] + t.amount
  BY <1>1, CommittingCall DEF TransferArgs
<1>3. DOMAIN Posted = DOMAIN txns /\ \A i \in DOMAIN txns : Posted[i].key = txns[i].key
  BY DEF Posted, Args
<1>4. Posted' = Append(Posted, t)
  BY <1>1, <1>2, PostedStep DEF IInv
<1>5. balance' = [a \in Account |->
            IF a = t.source THEN balance[a] - t.amount
            ELSE IF a = t.dest THEN balance[a] + t.amount ELSE balance[a]]
  BY <1>1, <1>2
<1>6. Open' = Open /\ Active' = Active
  BY <1>1 DEF Open, Active
<1>7. Abstract!MayGoNegative(t.source) \/ balance[t.source] >= t.amount
  BY <1>2 DEF Abstract!MayGoNegative, MayGoNegative
<1>8. t.key = Null \/ \A i \in DOMAIN Posted : Posted[i].key # t.key
  BY <1>2, <1>3
<1>9. /\ Abstract!Found(c, t.source, t.org)
      /\ t.dest = Null \/ Abstract!Found(c, t.dest, t.org)
  BY <1>1 DEF SightInv, AccountsSighted, Found, HoldsSource, Abstract!Found
<1>10. Abstract!Return(c)
  BY <1>1, RefineReturn DEF IInv
<1> HIDE DEF t
<1>11. Abstract!Post(c, t)
  BY <1>2, <1>4, <1>5, <1>6, <1>7, <1>8, <1>9, <1>10 DEF Abstract!Post, Posted, Open
<1>12. QED
  BY <1>2, <1>11

LEMMA SameCardinality == ASSUME NEW S PROVE Abstract!Cardinality(S) = Cardinality(S)
BY DEF Abstract!Cardinality, Cardinality

LEMMA RefineInsertAccount ==
    ASSUME IInv, NEW c \in Caller, InsertAccount(c)
    PROVE  \E a \in Account : Abstract!Create(c, a)
<1>1. PICK a \in Account : a = call[c].source
  BY DEF InsertAccount, IInv, CallKnown, TypeOK
<1>2. /\ pc[c] = "insertAccount" /\ status' = [status EXCEPT ![a] = "active"]
      /\ balance' = balance /\ txns' = txns /\ Goto(c, "idle")
  BY <1>1 DEF InsertAccount, EndCall
<1>3. /\ status[a] = "absent" /\ AccountOrg[a] = call[c].org
      /\ call[c].org \in FreeOrgs => Cardinality(AccountsOf(call[c].org)) < FreePlanAccounts
  BY <1>1, <1>2 DEF IInv, TypeOK, CallKnown, RowsStillAsRead
<1>4. Open' = Open \cup {a} /\ Active' = Active \cup {a} /\ a \notin Open
  BY <1>2, <1>3 DEF IInv, TypeOK, Open, Active
<1>5. AccountOrg[a] \in FreeOrgs =>
        Abstract!Cardinality({b \in Open : AccountOrg[b] = AccountOrg[a]})
            < Abstract!FreePlanAccounts
  <2>1. {b \in Open : AccountOrg[b] = AccountOrg[a]} = AccountsOf(AccountOrg[a])
    BY DEF Open, AccountsOf
  <2>2. QED
    BY <1>3, <2>1, SameCardinality DEF Abstract!FreePlanAccounts, FreePlanAccounts
<1>6. Posted' = Posted
  BY <1>2 DEF Posted, Args
<1>7. Abstract!Return(c)
  BY <1>2, RefineReturn DEF IInv
<1>8. Abstract!Create(c, a)
  BY <1>2, <1>4, <1>5, <1>6, <1>7 DEF Abstract!Create, Open, Posted
<1>9. QED
  BY <1>8

LEMMA RefineStutter == ASSUME UNCHANGED vars PROVE UNCHANGED Abstract!avars
<1>1. UNCHANGED <<balance, status, txns, pc, sighted>>
  BY DEF vars
<1>2. Open' = Open /\ Active' = Active /\ Posted' = Posted /\ Begun' = Begun
  BY <1>1 DEF Open, Active, Posted, Args, Begun
<1>3. QED
  BY <1>1, <1>2 DEF Abstract!avars, Open, Posted, Begun

LEMMA RefineNext == ASSUME IInv, SightInv, [Next]_vars PROVE [Abstract!Next]_(Abstract!avars)
<1> USE DEF IInv
<1>1. ASSUME NEW c \in Caller, CommitTxn(c) PROVE Abstract!Next
  BY <1>1, RefineCommitTxn DEF Abstract!Next
<1>2. ASSUME NEW c \in Caller, InsertAccount(c) PROVE Abstract!Next
  BY <1>2, RefineInsertAccount DEF Abstract!Next
<1>3. ASSUME NEW c \in Caller, Rollback(c), pc[c] # "idle" PROVE Abstract!Next
  BY <1>3, RefineRollback DEF Abstract!Next
<1>4. ASSUME NEW c \in Caller, NEW s, Onward(c, s) PROVE [Abstract!Next]_(Abstract!avars)
  BY <1>4, RefineOnward DEF Abstract!Next
<1>5. ASSUME NEW c \in Caller, Statement(c) PROVE [Abstract!Next]_(Abstract!avars)
  <2>1. pc[c] # "idle"
    BY <1>5 DEF Statement, RateUpdate, RateUpsert, Idempotency, CheckSource, CheckDest,
                LockSource, InsertTxn, ForeignKeys, Debit, Credit, CommitTxn, CountAccounts,
                InsertAccount, DeadlockAbort, InWaitCycle, Unblocked, Blockers
  <2>2. QED
    BY <1>1, <1>2, <1>3, <1>4, <1>5, <2>1, StatementKinds
<1>6. ASSUME NEW c \in Caller, BeginTransfer(c) \/ BeginCreate(c) PROVE Abstract!Next
  BY <1>6, RefineBegin DEF BeginTransfer, BeginCreate, Abstract!Next
<1>7. ASSUME NEW a \in Account, SetStatus(a) PROVE Abstract!Next
  BY <1>7, RefineSetStatus DEF Abstract!Next
<1>8. CASE UNCHANGED vars
  BY <1>8, RefineStutter
<1>9. QED
  BY <1>3, <1>5, <1>6, <1>7, <1>8, AccountAssumption DEF Next, Disconnect

(* The statements of the database, with the locks they take, implement     *)
(* calls that take effect in one step: what AtomicLedger says of money,    *)
(* keys, accounts and the plan limit holds of every interleaving.          *)
THEOREM Refinement == Spec => ImplementsAtomicLedger
<1>1. Init => Abstract!Init
  BY RefineInit
<1>2. IInv /\ SightInv /\ [Next]_vars => [Abstract!Next]_(Abstract!avars)
  BY RefineNext
<1>3. QED
  BY <1>1, <1>2, Invariance, ChecksRemembered, PTL DEF Spec, ImplementsAtomicLedger, Abstract!Spec
=============================================================================
