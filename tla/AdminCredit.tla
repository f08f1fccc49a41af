---------------------------- MODULE AdminCredit ----------------------------
(***************************************************************************)
(* AdminCreditService._apply, statement by statement, in several services   *)
(* on one database: the ledger row of an administrative operation and its   *)
(* audit record are written by two INSERTs of one transaction.  The RLock   *)
(* of a service is left to SqliteLedger; here a service runs one operation  *)
(* at a time.  Trusted code charges and refunds the same accounts.          *)
(*                                                                          *)
(* SUM(amount) is computed in SQLite's signed 64-bit INTEGER and raises     *)
(* "integer overflow" beyond MaxInteger.  Single amounts are checked        *)
(* against that range; their sum is not.                                    *)
(*                                                                          *)
(* The module extends CreditLedger: db is the ledger's state, Charge and     *)
(* Refund its actions, and Spec what every step here has to keep.           *)
(***************************************************************************)
EXTENDS CreditLedger, FiniteSets

CONSTANTS
    Services,
    Identities,   \* (normalized actor_id, normalized operation_id)
    Operations,   \* the operations that administrators ask for
    MaxInteger,   \* 2^63 - 1
    None

ASSUME NoneIsNoService == None \notin Services
ASSUME RangeIsPositive == MaxInteger \in Nat \ {0}

VARIABLES
    audit,    \* committed admin_credit_operations, Unused without a record
    writer,   \* the service whose connection holds the write transaction
    image,    \* that connection's tables; the committed ones without it
    pc,
    call,     \* the operation each service was last asked for
    reply     \* its answer; final once the service is idle

adminVars == <<db, audit, writer, image, pc, call, reply>>

AllOperations ==
    [identity: Identities, account: Accounts, amount: Amounts, reason: Notes,
     type: {"ADMIN_GRANT"}]
    \cup [identity: Identities, account: Accounts, reason: Notes,
          amount: Amounts \cup {-n : n \in Amounts}, type: {"ADJUSTMENT"}]

ASSUME OperationsAreValid ==
    /\ Operations \subseteq AllOperations
    /\ \A n \in Amounts : n <= MaxInteger

\* An operation and the position of its row, credit_transaction_id.
Record(k, row) ==
    [type |-> k.type, account |-> k.account, amount |-> k.amount,
     reason |-> k.reason, row |-> row]

Unused == [row |-> NoRow]

Tables == [db |-> db, audit |-> audit]

Row(k) == Transaction(k.type, k.account, k.amount, NoRequest, k.reason)

\* SUM(amount) returns.  Rows are never removed and an account in this state
\* is never debited, so it is enough to look at the last sum.
Readable(d, a) == d.balance[a] <= MaxInteger

AdminInit ==
    /\ Init
    /\ audit = [i \in Identities |-> Unused]
    /\ writer = None
    /\ image = Tables
    /\ pc = [s \in Services |-> "idle"]
    /\ call \in [Services -> Operations]
    /\ reply = [s \in Services |-> "none"]

Goto(s, label) == pc' = [pc EXCEPT ![s] = label]
Answer(s, outcome) == reply' = [reply EXCEPT ![s] = outcome]

Call(s, k) ==
    /\ pc[s] = "idle"
    /\ call' = [call EXCEPT ![s] = k]
    /\ Answer(s, "none")
    /\ Goto(s, "begin")
    /\ UNCHANGED <<db, audit, writer, image>>

\* Fault: a deferred transaction reads before it holds the writer slot.
BeginDeferred(s) ==
    /\ pc[s] = "begin"
    /\ writer' = s
    /\ image' = IF writer = None THEN Tables ELSE image
    /\ Goto(s, "body")
    /\ UNCHANGED <<db, audit, call, reply>>

Begin(s) ==
    /\ pc[s] = "begin"
    /\ writer = None
    /\ writer' = s
    /\ image' = Tables
    /\ Goto(s, "body")
    /\ UNCHANGED <<db, audit, call, reply>>

BeginFails(s) ==
    /\ pc[s] = "begin"
    /\ Answer(s, "error")
    /\ Goto(s, "idle")
    /\ UNCHANGED <<db, audit, writer, image, call>>

\* Fault: a replay may give another reason.
SameEffect(record, k) ==
    record.type = k.type /\ record.account = k.account /\ record.amount = k.amount

\* _validate_replay: type, account, amount and reason are compared.
SameOperation(record, k) == record = Record(k, record.row)

\* The identity is in use: its record again, or AdminOperationConflictError.
ReplayOperation(s) ==
    LET k == call[s]
        record == image.audit[k.identity]
    IN  /\ pc[s] = "body"
        /\ record # Unused
        /\ IF SameOperation(record, k)
           THEN Answer(s, "ok") /\ Goto(s, "commit")
           ELSE Answer(s, "conflict") /\ Goto(s, "rollback")
        /\ UNCHANGED <<db, audit, writer, image, call>>

\* Fault: the balance is not looked at.
PermittedUnread(d, k) == TRUE

\* An adjustment needs the balance, and needs it to stay non-negative.
Permitted(d, k) ==
    k.type = "ADJUSTMENT" => /\ Readable(d, k.account)
                             /\ d.balance[k.account] + k.amount >= 0

\* InsufficientCreditsError, or the overflow that SUM raises.
RefuseOperation(s) ==
    LET k == call[s] IN
    /\ pc[s] = "body"
    /\ image.audit[k.identity] = Unused
    /\ ~Permitted(image.db, k)
    /\ Answer(s, IF Readable(image.db, k.account) THEN "insufficient" ELSE "error")
    /\ Goto(s, "rollback")
    /\ UNCHANGED <<db, audit, writer, image, call>>

InsertTransaction(s) ==
    LET k == call[s] IN
    /\ pc[s] = "body"
    /\ image.audit[k.identity] = Unused
    /\ Permitted(image.db, k)
    /\ HasRoom(image.db)
    /\ image' = [image EXCEPT !.db = AppendTransaction(@, Row(k))]
    /\ Goto(s, "audit")
    /\ UNCHANGED <<db, audit, writer, call, reply>>

\* The record names the row inserted just before.
InsertRecord(s) ==
    LET k == call[s] IN
    /\ pc[s] = "audit"
    /\ image' = [image EXCEPT !.audit[k.identity] =
                     Record(k, Len(image.db.transactions))]
    /\ Answer(s, "ok")
    /\ Goto(s, "commit")
    /\ UNCHANGED <<db, audit, writer, call>>

\* Fault: what a failed statement left behind is committed.
FailureIsCommitted(s) ==
    /\ pc[s] \in {"body", "audit", "commit"}
    /\ Answer(s, "error")
    /\ Goto(s, "commit")
    /\ UNCHANGED <<db, audit, writer, image, call>>

\* A statement, an injected fault or the COMMIT itself raises.
TransactionFails(s) ==
    /\ pc[s] \in {"body", "audit", "commit"}
    /\ Answer(s, "error")
    /\ Goto(s, "rollback")
    /\ UNCHANGED <<db, audit, writer, image, call>>

\* Commit or rollback, then the lock is released.
Commit(s) ==
    /\ pc[s] = "commit"
    /\ db' = image.db
    /\ audit' = image.audit
    /\ writer' = None
    /\ Goto(s, "idle")
    /\ UNCHANGED <<image, call, reply>>

Rollback(s) ==
    /\ pc[s] = "rollback"
    /\ image' = Tables
    /\ writer' = None
    /\ Goto(s, "idle")
    /\ UNCHANGED <<db, audit, call, reply>>

\* The service's process dies; SQLite discards its open transaction.
Crash(s) ==
    /\ pc[s] # "idle"
    /\ Goto(s, "idle")
    /\ Answer(s, "none")
    /\ writer' = IF writer = s THEN None ELSE writer
    /\ image' = IF writer = s THEN Tables ELSE image
    /\ UNCHANGED <<db, audit, call>>

\* Charges and refunds of server code, while no service is writing.
External ==
    /\ writer = None
    /\ \E a \in Accounts, r \in Requests, amount \in Amounts, note \in Notes :
         \/ Charge(a, r, amount, note) /\ Readable(db, a)
         \/ Refund(a, r, amount, note)
    /\ image' = [db |-> db', audit |-> audit]
    /\ UNCHANGED <<audit, writer, pc, call, reply>>

Step(s) ==
    \/ Begin(s) \/ BeginFails(s) \/ ReplayOperation(s) \/ RefuseOperation(s)
    \/ InsertTransaction(s) \/ InsertRecord(s) \/ TransactionFails(s)
    \/ Commit(s) \/ Rollback(s) \/ Crash(s)

AdminNext ==
    \/ \E s \in Services : Step(s) \/ \E k \in Operations : Call(s, k)
    \/ External

AdminSpec == AdminInit /\ [][AdminNext]_adminVars
-----------------------------------------------------------------------------
\* The administrative rows of the ledger and the audit records correspond
\* one to one, at every instant another connection can look: an operation
\* that is retried, raced or interrupted moves credits once, and credits
\* that an administrator moved always have their record.
AuditMatchesLedger ==
    /\ \A i \in Identities : audit[i] # Unused =>
         /\ audit[i].row \in 1..Len(db.transactions)
         /\ db.transactions[audit[i].row] = Row(audit[i])
    /\ \A n \in 1..Len(db.transactions) :
         db.transactions[n].type \notin KeyedTypes =>
             Cardinality({i \in Identities : audit[i].row = n}) = 1

\* A service that answered an operation, for the first time or again, has it
\* in the committed audit, with the payload it was asked for.
AnsweredIsAudited ==
    \A s \in Services :
        LET record == audit[call[s].identity] IN
        pc[s] = "idle" /\ reply[s] = "ok" =>
            record = Record(call[s], record.row)

\* Grants and refunds can carry an account past MaxInteger one valid amount
\* at a time.  From then on its balance cannot be read, so that nothing
\* debits it any more; it is not overdrawn, and it does not recover.
OverflowIsOneWay ==
    [][\A a \in Accounts :
         ~Readable(db, a) => db'.balance[a] >= db.balance[a]]_adminVars

\* The services and the code beside them keep the ledger's contract.
ImplementsLedger == Spec
=============================================================================
