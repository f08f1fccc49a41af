SPECIFICATION Spec
CONSTANTS
    a1 = a1
    r1 = r1
    n1 = n1
    n2 = n2
    null = null
    l1 = l1
    l2 = l2
    c1 = c1
    c2 = c2
    None = None
    Accounts <- MCAccounts
    Requests <- MCRequests
    Notes <- MCNotes
    NoRequest = null
    Amounts = {1}
    MaxTransactions = 2
    Calls <- MCCalls
    Ledgers <- MCLedgers
    Clients <- MCClients
INVARIANTS
    ReadsSeeCommittedRows
    AnsweredIsDurable
PROPERTIES
    ImplementsLedger
    LocksAreReleased
