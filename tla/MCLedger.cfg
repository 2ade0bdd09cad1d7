SPECIFICATION Spec
CONSTANTS
    Null = Null
    o1 = o1
    o2 = o2
    chk = chk
    crd = crd
    new1 = new1
    new2 = new2
    m1 = m1
    m2 = m2
    svc = svc
    Org <- MCOrg
    Account <- MCAccount
    Caller <- MCCaller
    AccountOrg <- MCAccountOrg
    AccountType <- MCAccountType
    ClaimOf <- MCClaimOf
    FreeOrgs <- MCOrg
    Opening <- MCOpening
    OpenAccounts <- MCOpenAccounts
    Freezable <- MCFreezable
    Transfers <- MCTransfers
    TxnTokens = 2
    CreateTokens = 1
    MaxBalance = 3
    MaxCalls = 3
SYMMETRY Members
INVARIANTS
    LedgerExplainsBalance
    NoOverdraft
    FreePlanLimit
    MoneyConserved
PROPERTIES
    ImplementsAtomicLedger
