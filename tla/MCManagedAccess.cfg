SPECIFICATION Spec
CONSTANTS
    a1 = a1
    r1 = r1
    r2 = r2
    n1 = n1
    null = null
    c1 = c1
    c2 = c2
    p1 = p1
    p2 = p2
    noPayload = noPayload
    Accounts <- MCAccounts
    Requests <- MCRequests
    Notes <- MCNotes
    NoRequest = null
    Amounts = {2}
    MaxTransactions = 3
    Callers <- MCCallers
    Payloads <- MCPayloads
    Reservation <- MCReservation
    NoPayload = noPayload
    ManagedNote = n1
SYMMETRY MCSymmetry
INVARIANTS
    TypeOK
    ProviderCalledAtMostOnce
    ChargeBacksSuccess
    ReservationsAreCovered
    OutcomesAreTruthful
PROPERTIES
    StrandedStaysStranded
    ImplementsLifecycle
