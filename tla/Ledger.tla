------------------------------- MODULE Ledger -------------------------------
(***************************************************************************)
(* The financial functions of the database, statement by statement:        *)
(* process_transaction and create_account, with check_rate_limit and the   *)
(* validate_balance trigger they run.                                      *)
(*                                                                         *)
(* Each remote call is one PostgreSQL transaction at READ COMMITTED, the   *)
(* isolation level nothing in the migrations changes: a statement sees     *)
(* what was committed when it began, row locks are held to the end, and a  *)
(* RAISE undoes the whole call.  So what a call has written is kept apart  *)
(* (rate, sbal, dbal) until Commit, and the locks it holds follow from how *)
(* far it has got.  write_audit_log and the monitoring triggers only       *)
(* append to tables that no statement here reads; they are not kept (nor   *)
(* that the unqualified names in write_audit_log may not resolve).         *)
(***************************************************************************)
EXTENDS Integers, Sequences, FiniteSets, Functions

CONSTANTS
    Org,            \* organizations
    Account,        \* the pool of account ids
    Caller,         \* database sessions, each serving one call at a time
    Null,           \* SQL's NULL
    AccountOrg,     \* accounts.org_id
    AccountType,    \* accounts.type
    ClaimOf,        \* auth_org_id(): the org claim of each caller's token, or Null
    FreeOrgs,       \* organizations whose plan is 'free'
    Opening,        \* accounts.balance when observation begins
    OpenAccounts,   \* the accounts that have a row when it begins
    Freezable,      \* bound: the accounts an operator freezes and reactivates
    Transfers,      \* arguments with which process_transaction is called
    TxnTokens,      \* p_max_tokens of the transaction bucket (50 in the code)
    CreateTokens,   \* p_max_tokens of the account bucket (5 in the code)
    MaxBalance,     \* bound of the CHECK on accounts.balance
    MaxCalls        \* bound: calls made in one behaviour

ASSUME NullAssumption == Null \notin Int /\ Null \notin Account /\ Null \notin Org

ASSUME BoundsAssumption ==
    /\ MaxBalance \in Nat
    /\ MaxCalls \in Nat
    /\ TxnTokens \in Nat \ {0}
    /\ CreateTokens \in Nat \ {0}

ASSUME AccountAssumption ==
    /\ AccountOrg \in [Account -> Org]
    /\ ClaimOf \in [Caller -> Org \cup {Null}]
    /\ OpenAccounts \subseteq Account
    /\ Freezable \subseteq Account
    /\ Opening \in [Account -> -MaxBalance..MaxBalance]
    /\ \A a \in Account : AccountType[a] # "credit" => Opening[a] >= 0
    /\ IsFiniteSet(Account)
    /\ \A o \in FreeOrgs : Cardinality({a \in OpenAccounts : AccountOrg[a] = o}) <= 3

TransferArgs ==
    [org : Org, amount : Int, source : Account \cup {Null},
     dest : Account \cup {Null}, key : STRING \cup {Null}]

ASSUME TransfersAssumption == Transfers \subseteq TransferArgs

VARIABLES
    balance,    \* accounts.balance, committed
    status,     \* accounts.status, or "absent" when the account has no row
    txns,       \* the transactions table, in commit order
    ledger,     \* ledger_entries of each account, in commit order
    rateRow,    \* tokens of each rate_limits row, or Null when there is none
    pc,         \* the statement each session is about to run
    fn,         \* the function it is running
    call,       \* its arguments
    rate,       \* the rate_limits.tokens it has written and not committed
    sbal,       \* v_source_balance
    dbal,       \* v_dest_balance
    calls,      \* calls begun so far
    sighted     \* history: the accounts each call has looked up when they were active

db == <<balance, status, txns, ledger, rateRow>>
vars == <<balance, status, txns, ledger, rateRow, pc, fn, call, rate, sbal, dbal, calls, sighted>>

RateKey == {"txn", "create"} \X (Org \cup {Null})

NoCall == [org |-> Null, amount |-> 0, source |-> Null, dest |-> Null, key |-> Null]

Init ==
    /\ balance = Opening
    /\ status = [a \in Account |-> IF a \in OpenAccounts THEN "active" ELSE "absent"]
    /\ txns = <<>>
    /\ ledger = [a \in Account |-> <<>>]
    /\ rateRow = [k \in RateKey |-> Null]
    /\ pc = [c \in Caller |-> "idle"]
    /\ fn = [c \in Caller |-> "none"]
    /\ call = [c \in Caller |-> NoCall]
    /\ rate = [c \in Caller |-> 0]
    /\ sbal = [c \in Caller |-> 0]
    /\ dbal = [c \in Caller |-> 0]
    /\ calls = 0
    /\ sighted = [c \in Caller |-> {}]

-----------------------------------------------------------------------------
(* Reading the tables.                                                     *)

FreePlanAccounts == 3

\* Mutant: every account type but savings is let below zero.
MayGoNegativeUnlessSavings(a) == AccountType[a] # "savings"

MayGoNegative(a) == AccountType[a] = "credit"

Active == {a \in Account : status[a] = "active"}

\* Mutant: the lookups do not ask for status = 'active'.
PresentIn(a, o) == a \in Account /\ status[a] # "absent" /\ AccountOrg[a] = o

UsableIn(a, o) == a \in Account /\ status[a] = "active" /\ AccountOrg[a] = o

AccountsOf(o) == {a \in Account : AccountOrg[a] = o /\ status[a] # "absent"}

\* The CHECK on accounts.balance and the validate_balance trigger.
BalanceAllowed(a, b) ==
    /\ b \in -MaxBalance..MaxBalance
    /\ MayGoNegative(a) \/ b >= 0

\* The row INSERT INTO transactions writes; nothing sets reversed_at.
TxnRow(t) ==
    [org |-> t.org, amount |-> t.amount, source |-> t.source, dest |-> t.dest,
     key |-> t.key, reversed_at |-> Null]

\* SQL's  row IS NOT NULL : true only when no column of the row is null.
RowIsNotNull(row) == \A column \in DOMAIN row : row[column] # Null

-----------------------------------------------------------------------------
(* Locks.  A session past its rate check holds the rate_limits row; past   *)
(* SELECT ... FOR UPDATE, its source; past the foreign-key checks of the   *)
(* INSERT, a key share on its destination; past the credit, the row lock   *)
(* of an UPDATE on it.                                                     *)

RateKeyOf(c) == <<IF fn[c] = "create_account" THEN "create" ELSE "txn", ClaimOf[c]>>

BucketSize(k) == IF k[1] = "txn" THEN TxnTokens ELSE CreateTokens

HoldsRateRow(c) == pc[c] \notin {"idle", "rateUpdate", "rateUpsert"}
HoldsSource(c)  == pc[c] \in {"insertTxn", "foreignKeys", "debit", "credit", "commitTxn"}
HoldsKey(c)     == pc[c] \in {"foreignKeys", "debit", "credit", "commitTxn"}
SharesDest(c)   == pc[c] \in {"debit", "credit", "commitTxn"}
HoldsDest(c)    == pc[c] = "commitTxn"

\* A row locked by FOR UPDATE or by an UPDATE, and a row locked in any way.
RowWritten(c, a) ==
    (HoldsSource(c) /\ call[c].source = a) \/ (HoldsDest(c) /\ call[c].dest = a)
RowTouched(c, a) == RowWritten(c, a) \/ (SharesDest(c) /\ call[c].dest = a)
RowForUpdate(c, a) == HoldsSource(c) /\ call[c].source = a

\* The sessions that the next statement of c has to wait for.
Blockers(c) ==
    {d \in Caller \ {c} :
        \/ /\ pc[c] \in {"rateUpdate", "rateUpsert"}
           /\ HoldsRateRow(d) /\ RateKeyOf(d) = RateKeyOf(c)
        \/ (pc[c] = "lockSource" /\ RowTouched(d, call[c].source))
        \/ (pc[c] = "insertTxn" /\ HoldsKey(d) /\ call[c].key # Null /\ call[d].key = call[c].key)
        \/ (pc[c] = "foreignKeys" /\ RowForUpdate(d, call[c].dest))
        \/ (pc[c] = "credit" /\ RowWritten(d, call[c].dest))}

Unblocked(c) == Blockers(c) = {}

\* Mutant: no deadlock detection.
NoDetection(c) == FALSE

\* Sessions that wait for one another in a circle through c.
InWaitCycle(c) ==
    /\ ~ Unblocked(c)
    /\ \E n \in 2..Cardinality(Caller) : \E ring \in [1..n -> Caller] :
            /\ ring[1] = c
            /\ \A i \in 1..n : ring[(i % n) + 1] \in Blockers(ring[i])

-----------------------------------------------------------------------------
(* How a call begins and ends.                                             *)

LookedUp(c) ==
    CASE pc[c] = "checkSource" -> {call[c].source}
      [] pc[c] = "checkDest" -> {call[c].dest}
      [] OTHER -> {}

\* The next statement; whichever account this one looks up may be found active.
Goto(c, statement) ==
    /\ pc' = [pc EXCEPT ![c] = statement]
    /\ sighted' = [sighted EXCEPT ![c] =
                    IF statement = "idle" THEN {} ELSE sighted[c] \cup (LookedUp(c) \cap Active)]

Begin(c, f, args) ==
    /\ pc[c] = "idle"
    /\ calls < MaxCalls
    /\ calls' = calls + 1
    /\ Goto(c, "rateUpdate")
    /\ fn' = [fn EXCEPT ![c] = f]
    /\ call' = [call EXCEPT ![c] = args]
    /\ UNCHANGED <<db, rate, sbal, dbal>>

\* The session forgets the call; what the call wrote goes with it.
EndCall(c) ==
    /\ Goto(c, "idle")
    /\ fn' = [fn EXCEPT ![c] = "none"]
    /\ call' = [call EXCEPT ![c] = NoCall]
    /\ rate' = [rate EXCEPT ![c] = 0]
    /\ sbal' = [sbal EXCEPT ![c] = 0]
    /\ dbal' = [dbal EXCEPT ![c] = 0]
    /\ UNCHANGED calls

Rollback(c) == EndCall(c) /\ UNCHANGED db

CommitRate(c) == rateRow' = [rateRow EXCEPT ![RateKeyOf(c)] = rate[c]]

BeginTransfer(c) == \E t \in Transfers : Begin(c, "process_transaction", t)

CreateArgs(o, a) == [org |-> o, amount |-> 0, source |-> a, dest |-> Null, key |-> Null]

\* The new account's id is fresh: no row has it and no other call chose it.
BeginCreate(c) ==
    /\ ClaimOf[c] # Null
    /\ \E a \in Account :
        /\ status[a] = "absent" /\ AccountOrg[a] = ClaimOf[c]
        /\ \A d \in Caller : fn[d] = "create_account" => call[d].source # a
        /\ Begin(c, "create_account", CreateArgs(ClaimOf[c], a))

\* The connection is lost, or the server restarts.
Disconnect(c) == pc[c] # "idle" /\ Rollback(c)

\* The deadlock detector cancels a statement that waits in a circle.
DeadlockAbort(c) == InWaitCycle(c) /\ Rollback(c)

-----------------------------------------------------------------------------
(* check_rate_limit.  Whether the refill interval has elapsed is left      *)
(* open: nothing here bounds how long a statement waits.                   *)

AfterRate(c) == IF fn[c] = "create_account" THEN "countAccounts" ELSE "idempotency"

\* UPDATE rate_limits ... WHERE key = p_key AND tokens > 0
RateUpdate(c) ==
    /\ pc[c] = "rateUpdate"
    /\ LET k == RateKeyOf(c) IN
        \/ /\ rateRow[k] # Null /\ rateRow[k] > 0
           /\ Unblocked(c)
           /\ \E refill \in BOOLEAN :
                rate' = [rate EXCEPT ![c] = IF refill THEN BucketSize(k) - 1 ELSE rateRow[k] - 1]
           /\ Goto(c, AfterRate(c))
        \/ /\ rateRow[k] \in {Null, 0}
           /\ Goto(c, "rateUpsert")
           /\ UNCHANGED rate
    /\ UNCHANGED <<db, fn, call, sbal, dbal, calls>>

\* RETURN v_tokens >= 0
RateVerdict(tokens) == tokens >= 0

\* Mutant: ON CONFLICT DO NOTHING, which neither waits nor locks.
RateUpsertNoWait(c) ==
    /\ pc[c] = "rateUpsert"
    /\ rate' = [rate EXCEPT ![c] = BucketSize(RateKeyOf(c)) - 1]
    /\ Goto(c, AfterRate(c))
    /\ UNCHANGED <<db, fn, call, sbal, dbal, calls>>

\* INSERT INTO rate_limits ... ON CONFLICT (key) DO UPDATE, and the verdict
RateUpsert(c) ==
    /\ pc[c] = "rateUpsert"
    /\ Unblocked(c)
    /\ LET k == RateKeyOf(c) IN
       \E refill \in BOOLEAN :
        LET tokens == IF rateRow[k] = Null \/ refill THEN BucketSize(k) - 1 ELSE rateRow[k] IN
        IF RateVerdict(tokens)
        THEN /\ rate' = [rate EXCEPT ![c] = tokens]
             /\ Goto(c, AfterRate(c))
             /\ UNCHANGED <<db, fn, call, sbal, dbal, calls>>
        ELSE Rollback(c)

-----------------------------------------------------------------------------
(* process_transaction.                                                    *)

\* SELECT * INTO v_txn ... WHERE idempotency_key = p_idempotency_key AND org_id = p_org_id
Earlier(c) ==
    {i \in DOMAIN txns :
        call[c].key # Null /\ txns[i].key = call[c].key /\ txns[i].org = call[c].org}

Idempotency(c) ==
    /\ pc[c] = "idempotency"
    /\ IF \E i \in Earlier(c) : RowIsNotNull(txns[i])
       THEN /\ CommitRate(c)
            /\ EndCall(c)
            /\ UNCHANGED <<balance, status, txns, ledger>>
       ELSE /\ Goto(c, "checkSource")
            /\ UNCHANGED <<db, fn, call, rate, sbal, dbal, calls>>

\* IF NOT EXISTS ( ... WHERE id = p_source_account AND org_id = p_org_id AND status = 'active')
CheckSource(c) ==
    /\ pc[c] = "checkSource"
    /\ IF UsableIn(call[c].source, call[c].org)
       THEN Goto(c, "checkDest") /\ UNCHANGED <<db, fn, call, rate, sbal, dbal, calls>>
       ELSE Rollback(c)

\* IF p_dest_account IS NOT NULL AND NOT EXISTS ( ... ), a statement of its own
CheckDest(c) ==
    /\ pc[c] = "checkDest"
    /\ IF call[c].dest = Null \/ UsableIn(call[c].dest, call[c].org)
       THEN Goto(c, "lockSource") /\ UNCHANGED <<db, fn, call, rate, sbal, dbal, calls>>
       ELSE Rollback(c)

\* Mutant: the balance is read without FOR UPDATE.
LockSourceNoWait(c) ==
    /\ pc[c] = "lockSource"
    /\ LET t == call[c] IN
        IF MayGoNegative(t.source) \/ balance[t.source] >= t.amount
        THEN /\ sbal' = [sbal EXCEPT ![c] = balance[t.source]]
             /\ Goto(c, "insertTxn")
             /\ UNCHANGED <<db, fn, call, rate, dbal, calls>>
        ELSE Rollback(c)

\* SELECT balance, type ... FOR UPDATE, and the funds check
LockSource(c) ==
    /\ pc[c] = "lockSource"
    /\ Unblocked(c)
    /\ LET t == call[c] IN
        IF MayGoNegative(t.source) \/ balance[t.source] >= t.amount
        THEN /\ sbal' = [sbal EXCEPT ![c] = balance[t.source]]
             /\ Goto(c, "insertTxn")
             /\ UNCHANGED <<db, fn, call, rate, dbal, calls>>
        ELSE Rollback(c)

\* The CHECKs of the transactions table.
RowAllowed(t) == t.amount > 0 /\ t.source # t.dest

KeyCommitted(c) == call[c].key # Null /\ \E i \in DOMAIN txns : txns[i].key = call[c].key

\* INSERT INTO transactions: the CHECKs, then the unique index on idempotency_key
InsertTxn(c) ==
    /\ pc[c] = "insertTxn"
    /\ IF ~ RowAllowed(call[c])
       THEN Rollback(c)
       ELSE /\ Unblocked(c)
            /\ IF KeyCommitted(c)
               THEN Rollback(c)
               ELSE Goto(c, "foreignKeys") /\ UNCHANGED <<db, fn, call, rate, sbal, dbal, calls>>

\* The foreign keys of the inserted row: FOR KEY SHARE on the destination
ForeignKeys(c) ==
    /\ pc[c] = "foreignKeys"
    /\ Unblocked(c)
    /\ Goto(c, "debit")
    /\ UNCHANGED <<db, fn, call, rate, sbal, dbal, calls>>

\* UPDATE accounts SET balance = balance - p_amount, and the debit entry
Debit(c) ==
    /\ pc[c] = "debit"
    /\ LET t == call[c]
           after == balance[t.source] - t.amount IN
        IF BalanceAllowed(t.source, after)
        THEN /\ sbal' = [sbal EXCEPT ![c] = after]
             /\ Goto(c, IF t.dest = Null THEN "commitTxn" ELSE "credit")
             /\ UNCHANGED <<db, fn, call, rate, dbal, calls>>
        ELSE Rollback(c)

\* Mutant: the destination is credited from a balance read before its lock.
CreditNoWait(c) ==
    /\ pc[c] = "credit"
    /\ LET t == call[c]
           after == balance[t.dest] + t.amount IN
        IF BalanceAllowed(t.dest, after)
        THEN /\ dbal' = [dbal EXCEPT ![c] = after]
             /\ Goto(c, "commitTxn")
             /\ UNCHANGED <<db, fn, call, rate, sbal, calls>>
        ELSE Rollback(c)

\* UPDATE accounts SET balance = balance + p_amount, and the credit entry
Credit(c) ==
    /\ pc[c] = "credit"
    /\ Unblocked(c)
    /\ LET t == call[c]
           after == balance[t.dest] + t.amount IN
        IF BalanceAllowed(t.dest, after)
        THEN /\ dbal' = [dbal EXCEPT ![c] = after]
             /\ Goto(c, "commitTxn")
             /\ UNCHANGED <<db, fn, call, rate, sbal, calls>>
        ELSE Rollback(c)

Entry(i, type, amount, after) ==
    [txn |-> i, type |-> type, amount |-> amount, balance_after |-> after]

\* RETURN v_txn: everything the call wrote becomes visible at once
CommitTxn(c) ==
    /\ pc[c] = "commitTxn"
    /\ LET t == call[c]
           id == Len(txns) + 1 IN
        /\ txns' = Append(txns, TxnRow(t))
        /\ balance' = [a \in Account |->
                IF a = t.source THEN sbal[c] ELSE IF a = t.dest THEN dbal[c] ELSE balance[a]]
        /\ ledger' = [a \in Account |->
                IF a = t.source THEN Append(ledger[a], Entry(id, "debit", t.amount, sbal[c]))
                ELSE IF a = t.dest THEN Append(ledger[a], Entry(id, "credit", t.amount, dbal[c]))
                ELSE ledger[a]]
    /\ CommitRate(c)
    /\ EndCall(c)
    /\ UNCHANGED status

-----------------------------------------------------------------------------
(* create_account.                                                         *)

\* SELECT count( * ) ..., and the free plan's limit
CountAccounts(c) ==
    /\ pc[c] = "countAccounts"
    /\ IF call[c].org \in FreeOrgs /\ Cardinality(AccountsOf(call[c].org)) >= FreePlanAccounts
       THEN Rollback(c)
       ELSE Goto(c, "insertAccount") /\ UNCHANGED <<db, fn, call, rate, sbal, dbal, calls>>

\* INSERT INTO accounts, the audit record and the commit
InsertAccount(c) ==
    /\ pc[c] = "insertAccount"
    /\ status' = [status EXCEPT ![call[c].source] = "active"]
    /\ CommitRate(c)
    /\ EndCall(c)
    /\ UNCHANGED <<balance, txns, ledger>>

-----------------------------------------------------------------------------
(* An operator freezes or reactivates an account: one UPDATE of its own.   *)
SetStatus(a) ==
    /\ \A d \in Caller : ~ RowWritten(d, a)
    /\ \/ status[a] = "active" /\ status' = [status EXCEPT ![a] = "frozen"]
       \/ status[a] = "frozen" /\ status' = [status EXCEPT ![a] = "active"]
    /\ UNCHANGED <<balance, txns, ledger, rateRow, pc, fn, call, rate, sbal, dbal, calls, sighted>>

-----------------------------------------------------------------------------

Statement(c) ==
    \/ RateUpdate(c) \/ RateUpsert(c)
    \/ Idempotency(c) \/ CheckSource(c) \/ CheckDest(c) \/ LockSource(c)
    \/ InsertTxn(c) \/ ForeignKeys(c) \/ Debit(c) \/ Credit(c) \/ CommitTxn(c)
    \/ CountAccounts(c) \/ InsertAccount(c)
    \/ DeadlockAbort(c)

Next ==
    \/ \E c \in Caller : Statement(c) \/ BeginTransfer(c) \/ BeginCreate(c) \/ Disconnect(c)
    \/ \E a \in Freezable : SetStatus(a)

Spec == Init /\ [][Next]_vars

\* The server runs every statement that can run, and its deadlock detector.
FairSpec == Spec /\ \A c \in Caller : WF_vars(Statement(c))

-----------------------------------------------------------------------------
(* Properties.                                                             *)

Statements ==
    {"idle", "rateUpdate", "rateUpsert", "idempotency", "checkSource", "checkDest",
     "lockSource", "insertTxn", "foreignKeys", "debit", "credit", "commitTxn",
     "countAccounts", "insertAccount"}

CallArgs ==
    [org : Org \cup {Null}, amount : Int, source : Account \cup {Null},
     dest : Account \cup {Null}, key : STRING \cup {Null}]

TxnRows ==
    [org : Org, amount : Nat \ {0}, source : Account, dest : Account \cup {Null},
     key : STRING \cup {Null}, reversed_at : {Null}]

Entries ==
    [txn : Nat \ {0}, type : {"debit", "credit"}, amount : Nat \ {0}, balance_after : Int]

(* Every column keeps the range its CHECK gives it, and every committed    *)
(* transaction names a source account and a positive amount (sighted, the  *)
(* history of the refinement, has its type in SightInv).                   *)
TypeOK ==
    /\ balance \in [Account -> -MaxBalance..MaxBalance]
    /\ status \in [Account -> {"absent", "active", "frozen"}]
    /\ txns \in Seq(TxnRows)
    /\ ledger \in [Account -> Seq(Entries)]
    /\ rateRow \in [RateKey -> Nat \cup {Null}]
    /\ pc \in [Caller -> Statements]
    /\ fn \in [Caller -> {"none", "process_transaction", "create_account"}]
    /\ call \in [Caller -> CallArgs]
    /\ rate \in [Caller -> Nat]
    /\ sbal \in [Caller -> -MaxBalance..MaxBalance]
    /\ dbal \in [Caller -> -MaxBalance..MaxBalance]
    /\ calls \in 0..MaxCalls

Signed(e) == IF e.type = "debit" THEN -e.amount ELSE e.amount

BalanceBefore(a, i) == IF i = 1 THEN Opening[a] ELSE ledger[a][i - 1].balance_after

(* The stored balance is what the ledger says it is, and so is every       *)
(* balance_after along the way: concurrent debits and credits of one       *)
(* account never overwrite one another (accounts.balance is materialized   *)
(* from the ledger).                                                       *)
LedgerExplainsBalance ==
    \A a \in Account :
        /\ \A i \in 1..Len(ledger[a]) :
                ledger[a][i].balance_after = BalanceBefore(a, i) + Signed(ledger[a][i])
        /\ balance[a] = BalanceBefore(a, Len(ledger[a]) + 1)

(* No interleaving spends the same money twice: only a credit account is   *)
(* ever negative (validate_balance and the FOR UPDATE funds check).        *)
NoOverdraft == \A a \in Account : AccountType[a] # "credit" => balance[a] >= 0

Withdrawn == {i \in DOMAIN txns : txns[i].dest = Null}

Amounts == [i \in DOMAIN txns |-> txns[i].amount]

(* Money only moves: the balances add up to the opening balances less what *)
(* was withdrawn, whatever interleaving of calls led here.                 *)
MoneyConserved ==
    SumFunctionOnSet(balance, Account) =
        SumFunctionOnSet(Opening, Account) - SumFunctionOnSet(Amounts, Withdrawn)

(* An idempotency key takes effect at most once, whoever retries it and    *)
(* however the retries overlap (the UNIQUE index on idempotency_key).      *)
KeyUsedOnce ==
    \A i, j \in DOMAIN txns : txns[i].key = txns[j].key /\ txns[i].key # Null => i = j

(* Calls under one claim run one after the other from their rate check on: *)
(* check_rate_limit leaves its row locked to the end of the transaction,   *)
(* which is what keeps the unlocked reads of the rest of the call current. *)
SameClaimSerial ==
    \A c, d \in Caller :
        c # d /\ RateKeyOf(c) = RateKeyOf(d) => ~ (HoldsRateRow(c) /\ HoldsRateRow(d))

(* Concurrent create_account calls never take a free organization past its *)
(* limit, although nothing locks the rows they count.                      *)
FreePlanLimit == \A o \in FreeOrgs : Cardinality(AccountsOf(o)) <= FreePlanAccounts

-----------------------------------------------------------------------------
(* The inductive invariant.  The properties above speak of committed rows; *)
(* what keeps them true is what each session knows about the rows it has   *)
(* locked, and that no two sessions hold conflicting locks.                *)

(* A session's arguments are those of a call the environment makes, and    *)
(* the rows it has looked up exist.                                        *)
CallKnown(c) ==
    /\ pc[c] = "idle" <=> fn[c] = "none"
    /\ fn[c] = "process_transaction" =>
        /\ call[c] \in Transfers
        /\ pc[c] \notin {"countAccounts", "insertAccount"}
    /\ fn[c] = "create_account" =>
        /\ pc[c] \in {"rateUpdate", "rateUpsert", "countAccounts", "insertAccount"}
        /\ call[c].source \in Account /\ status[call[c].source] = "absent"
        /\ call[c].org = ClaimOf[c] /\ AccountOrg[call[c].source] = ClaimOf[c]
    /\ pc[c] \in {"checkDest", "lockSource"} \/ HoldsSource(c) =>
        call[c].source \in Account /\ status[call[c].source] # "absent"
    /\ pc[c] = "lockSource" \/ HoldsSource(c) =>
        (call[c].dest \in Account => status[call[c].dest] # "absent")

(* What a session has computed is still true of the committed rows.        *)
RowsStillAsRead(c) ==
    /\ HoldsSource(c) =>
        MayGoNegative(call[c].source) \/ balance[call[c].source] >= call[c].amount
    /\ HoldsKey(c) =>
        /\ RowAllowed(call[c])
        /\ call[c].key # Null => \A i \in DOMAIN txns : txns[i].key # call[c].key
    /\ pc[c] \in {"credit", "commitTxn"} =>
        /\ sbal[c] = balance[call[c].source] - call[c].amount
        /\ BalanceAllowed(call[c].source, sbal[c])
    /\ pc[c] = "credit" => call[c].dest \in Account
    /\ pc[c] = "commitTxn" /\ call[c].dest \in Account =>
        /\ dbal[c] = balance[call[c].dest] + call[c].amount
        /\ BalanceAllowed(call[c].dest, dbal[c])
    /\ pc[c] = "insertAccount" /\ call[c].org \in FreeOrgs =>
        Cardinality(AccountsOf(call[c].org)) < FreePlanAccounts

(* No two sessions hold locks that conflict.                               *)
LocksCompatible(c, d) ==
    /\ HoldsSource(c) /\ HoldsSource(d) => call[c].source # call[d].source
    /\ HoldsSource(c) /\ SharesDest(d) => call[c].source # call[d].dest
    /\ HoldsDest(c) /\ HoldsDest(d) /\ call[c].dest # Null => call[c].dest # call[d].dest
    /\ HoldsKey(c) /\ HoldsKey(d) /\ call[c].key # Null => call[c].key # call[d].key
    /\ fn[c] = "create_account" /\ fn[d] = "create_account" => call[c].source # call[d].source

(* The conjunction is preserved by every step.                             *)
IInv ==
    /\ TypeOK
    /\ \A c \in Caller : CallKnown(c) /\ RowsStillAsRead(c)
    /\ \A c, d \in Caller : c # d => LocksCompatible(c, d)
    /\ SameClaimSerial
    /\ LedgerExplainsBalance
    /\ NoOverdraft
    /\ KeyUsedOnce
    /\ FreePlanLimit

Found(c, a) == a \in sighted[c] /\ AccountOrg[a] = call[c].org

(* What a call found when it looked its accounts up stays known of it: they *)
(* are of its organization, and were active at a moment after it began.    *)
AccountsSighted(c) ==
    /\ pc[c] = "idle" => sighted[c] = {}
    /\ pc[c] \in {"checkDest", "lockSource"} \/ HoldsSource(c) => Found(c, call[c].source)
    /\ pc[c] = "lockSource" \/ HoldsSource(c) => call[c].dest = Null \/ Found(c, call[c].dest)

(* The type of the history variable, and what it records.                  *)
SightInv ==
    /\ sighted \in [Caller -> SUBSET Account]
    /\ \A c \in Caller : AccountsSighted(c)

(* Every call returns: lock waits end, circles of waiting are broken.      *)
CallsEnd == \A c \in Caller : pc[c] # "idle" ~> pc[c] = "idle"

(* Locks and statements implement calls that take effect in one step.      *)
Args(row) ==
    [org |-> row.org, amount |-> row.amount, source |-> row.source, dest |-> row.dest,
     key |-> row.key]

Abstract == INSTANCE AtomicLedger WITH
    open <- {a \in Account : status[a] # "absent"},
    active <- Active,
    posted <- [i \in DOMAIN txns |-> Args(txns[i])],
    begun <- {c \in Caller : pc[c] # "idle"}

ImplementsAtomicLedger == Abstract!Spec
=============================================================================
