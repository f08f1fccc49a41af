SPECIFICATION Spec
CONSTANTS
    a1 = a1
    a2 = a2
    r1 = r1
    n1 = n1
    n2 = n2
    null = null
    Accounts <- MCAccounts
    Requests <- MCRequests
    Notes <- MCNotes
    NoRequest = null
    Amounts = {1, 2}
    MaxTransactions = 3
INVARIANTS
    NeverOverdrawn
    KeysMatchTransactions
PROPERTIES
    AppendOnly
