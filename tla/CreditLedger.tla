---------------------------- MODULE CreditLedger ----------------------------
(***************************************************************************)
(* What the CreditLedger protocol promises, as InMemoryCreditLedger gives   *)
(* it: every operation is one step under the ledger's RLock.  Each          *)
(* operation has an action for the call that appends and, where the code    *)
(* has one, for the call that returns or raises without appending.          *)
(***************************************************************************)
EXTENDS CreditDomain

VARIABLE db

vars == db

Init == db = EmptyDatabase

Grant(a, amount, note) ==
    /\ HasRoom(db)
    /\ db' = AppendTransaction(db,
                 Transaction("ADMIN_GRANT", a, amount, NoRequest, note))

\* Fault: the balance is not tested.
ChargeOnCredit(a, r, amount, note) ==
    LET t == Transaction("USAGE", a, -amount, r, note)
    IN  /\ ~HasKey(db, KeyOf(t))
        /\ HasRoom(db)
        /\ db' = AppendKeyed(db, t)

\* Fault: a used key is charged again.
ChargeAgain(a, r, amount, note) ==
    LET t == Transaction("USAGE", a, -amount, r, note)
    IN  /\ db.balance[a] >= amount
        /\ HasRoom(db)
        /\ db' = AppendKeyed(db, t)

Charge(a, r, amount, note) ==
    LET t == Transaction("USAGE", a, -amount, r, note)
    IN  /\ ~HasKey(db, KeyOf(t))
        /\ db.balance[a] >= amount
        /\ HasRoom(db)
        /\ db' = AppendKeyed(db, t)

\* Raises InsufficientCreditsError and leaves the key free.
ChargeRefused(a, r, amount) ==
    /\ ~HasKey(db, <<"USAGE", a, r>>)
    /\ db.balance[a] < amount
    /\ UNCHANGED db

Refund(a, r, amount, note) ==
    LET t == Transaction("REFUND", a, amount, r, note)
    IN  /\ ~HasKey(db, KeyOf(t))
        /\ HasRoom(db)
        /\ db' = AppendKeyed(db, t)

\* A used key: the original transaction, or IdempotencyConflictError.
Retry(type, a, r) ==
    /\ HasKey(db, <<type, a, r>>)
    /\ UNCHANGED db

Adjust(a, amount, note) ==
    /\ db.balance[a] + amount >= 0
    /\ HasRoom(db)
    /\ db' = AppendTransaction(db,
                 Transaction("ADJUSTMENT", a, amount, NoRequest, note))

AdjustRefused(a, amount) ==
    /\ db.balance[a] + amount < 0
    /\ UNCHANGED db

\* balance_of and history_of.
Read == UNCHANGED db

Deltas == Amounts \cup {-n : n \in Amounts}

Next ==
    \/ Read
    \/ \E a \in Accounts, amount \in Amounts, note \in Notes :
         \/ Grant(a, amount, note)
         \/ \E r \in Requests : \/ Charge(a, r, amount, note)
                                \/ Refund(a, r, amount, note)
    \/ \E a \in Accounts, amount \in Deltas, note \in Notes :
         Adjust(a, amount, note)
    \/ \E a \in Accounts, amount \in Deltas : AdjustRefused(a, amount)
    \/ \E a \in Accounts, r \in Requests :
         \/ \E amount \in Amounts : ChargeRefused(a, r, amount)
         \/ \E type \in KeyedTypes : Retry(type, a, r)

Spec == Init /\ [][Next]_vars
-----------------------------------------------------------------------------
TypeOK == db \in Database

\* No account is ever overdrawn: charge and adjust test the balance in the
\* critical section that appends.
NeverOverdrawn == Solvent(db)

\* An idempotency key names one transaction, that transaction is the key's,
\* and no USAGE or REFUND row exists without it: a request id is charged at
\* most once and refunded at most once, however often the call is retried.
KeysMatchTransactions == KeysMatch(db)

\* The audit log is append-only: no step removes, reorders or rewrites a
\* transaction, nor re-points a key that is in use.
AppendOnly == [][Extends(db', db)]_vars
=============================================================================
