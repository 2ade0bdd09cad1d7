---------------------------- MODULE AtomicLedger ----------------------------
(***************************************************************************)
(* What the financial functions promise a client, with no locks and no     *)
(* statements: a call has no effect or takes effect in one step, at the    *)
(* balances and the idempotency keys of that very moment.  Of the status   *)
(* of its accounts it promises less: they were active at some moment since *)
(* the call began, and may have been frozen after it.  Ledger is shown to  *)
(* implement this specification, so whatever it implies about money holds  *)
(* of every interleaving of the statements in the database.                *)
(***************************************************************************)
EXTENDS Integers, Sequences, FiniteSets

CONSTANTS
    Account,        \* the pool of account ids
    Caller,         \* database sessions, each serving one call at a time
    Null,           \* SQL's NULL
    AccountOrg,     \* the organization each account belongs to
    AccountType,    \* its account_type
    FreeOrgs,       \* organizations on the 'free' plan
    Opening,        \* balances when observation begins
    OpenAccounts,   \* accounts that exist when it begins
    Transfers       \* the calls of process_transaction that may be made

VARIABLES
    balance,        \* accounts.balance
    open,           \* accounts that have a row
    active,         \* those whose status is 'active'
    posted,         \* the transactions that took effect, in order
    begun,          \* the sessions with a call under way
    sighted         \* the accounts each of these calls has found active so far

avars == <<balance, open, active, posted, begun, sighted>>

FreePlanAccounts == 3

MayGoNegative(a) == AccountType[a] = "credit"

Init ==
    /\ balance = Opening
    /\ open = OpenAccounts
    /\ active = OpenAccounts
    /\ posted = <<>>
    /\ begun = {}
    /\ sighted = [c \in Caller |-> {}]

Begin(c) ==
    /\ c \notin begun
    /\ begun' = begun \cup {c}
    /\ UNCHANGED <<balance, open, active, posted, sighted>>

(* A call under way looks at an account, at any moment.                    *)
Look(c, a) ==
    /\ c \in begun
    /\ a \in active
    /\ sighted' = [sighted EXCEPT ![c] = sighted[c] \cup {a}]
    /\ UNCHANGED <<balance, open, active, posted, begun>>

Return(c) ==
    /\ c \in begun
    /\ begun' = begun \ {c}
    /\ sighted' = [sighted EXCEPT ![c] = {}]

(* The call is refused, or lost: it leaves no trace.                       *)
Fail(c) == Return(c) /\ UNCHANGED <<balance, open, active, posted>>

Found(c, a, o) == a \in sighted[c] /\ AccountOrg[a] = o

(* The effect of one successful process_transaction.  Every condition on   *)
(* money and keys is evaluated in the state in which the money moves.      *)
Post(c, t) ==
    /\ t.amount > 0
    /\ Found(c, t.source, t.org)
    /\ t.dest = Null \/ Found(c, t.dest, t.org)
    /\ t.source # t.dest
    /\ MayGoNegative(t.source) \/ balance[t.source] >= t.amount
    /\ t.key = Null \/ \A i \in DOMAIN posted : posted[i].key # t.key
    /\ balance' = [a \in Account |->
            IF a = t.source THEN balance[a] - t.amount
            ELSE IF a = t.dest THEN balance[a] + t.amount
            ELSE balance[a]]
    /\ posted' = Append(posted, t)
    /\ Return(c)
    /\ UNCHANGED <<open, active>>

(* The effect of one successful create_account: the plan limit holds when  *)
(* the account appears, not merely when it was looked up.                  *)
Create(c, a) ==
    /\ a \notin open
    /\ AccountOrg[a] \in FreeOrgs =>
          Cardinality({b \in open : AccountOrg[b] = AccountOrg[a]}) < FreePlanAccounts
    /\ open' = open \cup {a}
    /\ active' = active \cup {a}
    /\ Return(c)
    /\ UNCHANGED <<balance, posted>>

(* An operator freezes or reactivates an account.                          *)
SetActive(a) ==
    /\ active' = IF a \in active THEN active \ {a} ELSE active \cup ({a} \cap open)
    /\ UNCHANGED <<balance, open, posted, begun, sighted>>

Next ==
    \/ \E c \in Caller :
        \/ Begin(c) \/ Fail(c)
        \/ \E t \in Transfers : Post(c, t)
        \/ \E a \in Account : Look(c, a) \/ Create(c, a)
    \/ \E a \in Account : SetActive(a)

Spec == Init /\ [][Next]_avars
=============================================================================
