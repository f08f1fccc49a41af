---------------------------- MODULE CreditDomain ----------------------------
(***************************************************************************)
(* The rows of the credit tables and the statements that read and write    *)
(* them.  A database image is a record of                                   *)
(*   transactions  the rows of credit_transactions in AUTOINCREMENT order;  *)
(*                 a row's uuid is abstracted to its position;              *)
(*   idempotency   credit_idempotency: key -> position of its transaction,  *)
(*                 NoRow when the key has no row;                           *)
(*   balance       what SELECT SUM(amount) returns for each account.        *)
(* The code keeps no balance: it sums an account's rows on each read.  Here *)
(* the SUM is carried along as rows are appended, which is what lets its    *)
(* value be reasoned about for a log of any length.                         *)
(***************************************************************************)
EXTENDS Integers, Sequences

CONSTANTS
    Accounts,        \* normalized account ids
    Requests,        \* normalized request ids
    Amounts,         \* the positive amounts callers pass
    Notes,           \* the notes callers pass
    NoRequest,       \* the NULL request_id of grants and adjustments
    MaxTransactions  \* bound: rows of credit_transactions

ASSUME AmountsAreCredits == Amounts \subseteq Nat \ {0}
ASSUME NoRequestIsNull == NoRequest \notin Requests
ASSUME LogIsBounded == MaxTransactions \in Nat

NoRow == 0

TransactionType == {"ADMIN_GRANT", "USAGE", "REFUND", "ADJUSTMENT"}

\* The types whose rows carry an idempotency identity.
KeyedTypes == {"USAGE", "REFUND"}

Keys == KeyedTypes \X Accounts \X Requests

\* CreditTransaction.__post_init__: which sign each type's amount may have,
\* and which types carry a request id.
CreditTransaction ==
    {t \in [type: TransactionType, account: Accounts, amount: Int,
            request: Requests \cup {NoRequest}, note: Notes] :
        /\ t.amount # 0
        /\ t.type = "USAGE" => t.amount < 0
        /\ t.type \in {"ADMIN_GRANT", "REFUND"} => t.amount > 0
        /\ t.type \in KeyedTypes <=> t.request \in Requests}

Database == [transactions: Seq(CreditTransaction),
             idempotency: [Keys -> Nat],
             balance: [Accounts -> Int]]

EmptyDatabase == [transactions |-> << >>,
                  idempotency |-> [k \in Keys |-> NoRow],
                  balance |-> [a \in Accounts |-> 0]]

Transaction(type, a, amount, r, note) ==
    [type |-> type, account |-> a, amount |-> amount,
     request |-> r, note |-> note]

KeyOf(t) == <<t.type, t.account, t.request>>

\* INSERT INTO credit_transactions.
AppendTransaction(d, t) ==
    [transactions |-> Append(d.transactions, t),
     idempotency  |-> d.idempotency,
     balance      |-> [d.balance EXCEPT ![t.account] = @ + t.amount]]

\* INSERT INTO credit_idempotency, for the row appended last.
AppendIdempotencyRecord(d, t) ==
    [transactions |-> d.transactions,
     idempotency  |-> [d.idempotency EXCEPT ![KeyOf(t)] = Len(d.transactions)],
     balance      |-> d.balance]

\* Fault: the idempotency row is never written.
AppendWithoutRecord(d, t) == AppendTransaction(d, t)

\* Both rows of a charge or a refund.
AppendKeyed(d, t) == AppendIdempotencyRecord(AppendTransaction(d, t), t)

\* _idempotent_transaction: the key's row, when there is one.
HasKey(d, k) == d.idempotency[k] # NoRow

Existing(d, k) == d.transactions[d.idempotency[k]]

\* Fault: a retry may change the note.
SameAmount(old, new) == old.amount = new.amount

\* _resolve_idempotent_retry: only the amount and the note are compared.
SamePayload(old, new) == old.amount = new.amount /\ old.note = new.note

HasRoom(d) == Len(d.transactions) < MaxTransactions

\* Each key in use names a transaction of that key, and each keyed
\* transaction is the one its key names.
KeysMatch(d) ==
    /\ \A k \in Keys : HasKey(d, k) =>
         /\ d.idempotency[k] \in 1..Len(d.transactions)
         /\ KeyOf(Existing(d, k)) = k
    /\ \A n \in 1..Len(d.transactions) :
         d.transactions[n].type \in KeyedTypes =>
             d.idempotency[KeyOf(d.transactions[n])] = n

Solvent(d) == \A a \in Accounts : d.balance[a] >= 0

\* Image e keeps every transaction and every used key of image d.
Extends(e, d) ==
    /\ Len(e.transactions) >= Len(d.transactions)
    /\ \A n \in 1..Len(d.transactions) :
         e.transactions[n] = d.transactions[n]
    /\ \A k \in Keys : HasKey(d, k) => e.idempotency[k] = d.idempotency[k]
=============================================================================
