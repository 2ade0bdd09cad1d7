SPECIFICATION FairSpec
CONSTANTS
    Null = Null
    o1 = o1
    o2 = o2
    chk = chk
    crd = crd
    new1 = new1
    new2 = new2
    m1 = m1
    m2 = m2
    svc = svc
    Org <- RingOrg
    Account <- MCAccount
    Caller <- MCCaller
    AccountOrg <- MCAccountOrg
    AccountType <- MCAccountType
    ClaimOf <- RingClaimOf
    FreeOrgs <- MCOrg
    Opening <- RingOpening
    OpenAccounts <- RingOpenAccounts
    Freezable <- RingFreezable
    Transfers <- RingTransfers
    TxnTokens = 2
    CreateTokens = 1
    MaxBalance = 3
    MaxCalls = 3
PROPERTIES
    CallsEnd
CHECK_DEADLOCK FALSE
