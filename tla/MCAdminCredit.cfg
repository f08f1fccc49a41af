SPECIFICATION AdminSpec
CONSTANTS
    a1 = a1
    r1 = r1
    n1 = n1
    n2 = n2
    null = null
    o1 = o1
    o2 = o2
    s1 = s1
    s2 = s2
    None = None
    Accounts <- MCAccounts
    Requests <- MCRequests
    Notes <- MCNotes
    NoRequest = null
    Amounts = {2}
    MaxTransactions = 3
    Services <- MCServices
    Identities <- MCIdentities
    Operations <- MCOperations
    MaxInteger = 2
INVARIANTS
    AuditMatchesLedger
    AnsweredIsAudited
PROPERTIES
    OverflowIsOneWay
    ImplementsLedger
