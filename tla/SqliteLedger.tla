---------------------------- MODULE SqliteLedger ----------------------------
(***************************************************************************)
(* SQLiteCreditLedger, statement by statement.  Several ledger objects,     *)
(* each with its own connection and RLock, open one database file; several  *)
(* threads call each object.  A write transaction takes the object's lock,  *)
(* then SQLite's single writer slot (BEGIN IMMEDIATE), works on the         *)
(* connection's uncommitted image and commits it or rolls it back.  Any     *)
(* statement may fail and the process of a ledger may die at any point.     *)
(***************************************************************************)
EXTENDS CreditDomain

CONSTANTS
    Clients,   \* threads that call a ledger object
    Ledgers,   \* ledger objects, one connection each
    Calls,     \* the calls that threads make
    None

ASSUME NoneIsNobody == None \notin Clients /\ None \notin Ledgers

VARIABLES
    db,       \* the committed contents of the file
    writer,   \* the ledger whose connection holds the write transaction
    working,  \* that connection's image; db when there is no transaction
    lock,     \* the thread inside each ledger's RLock
    pc,       \* where each thread is
    on,       \* the ledger object it calls
    call,     \* the call it makes or made last
    reply     \* what the call returns; final once the thread is idle

vars == <<db, writer, working, lock, pc, on, call, reply>>

\* balance_of takes an account only.
BalanceCalls ==
    [op: {"balance"}, account: Accounts, request: {NoRequest},
     amount: {0}, note: {NoRequest}]

AllCalls ==
    [op: {"grant"}, account: Accounts, request: {NoRequest},
     amount: Amounts, note: Notes]
    \cup [op: {"adjust"}, account: Accounts, request: {NoRequest},
          amount: Amounts \cup {-n : n \in Amounts}, note: Notes]
    \cup [op: {"charge", "refund"}, account: Accounts, request: Requests,
          amount: Amounts, note: Notes]
    \cup BalanceCalls

ASSUME CallsAreValid == Calls \subseteq AllCalls

\* "ok" carries the position of the transaction returned, "balance" the sum.
Replies == [outcome: {"none", "ok", "balance", "insufficient", "conflict",
                      "error", "lost"},
            value: Int]

Reply(outcome, value) == [outcome |-> outcome, value |-> value]

\* The row that a call appends, if it appends one.
Row(k) ==
    CASE k.op = "grant"  -> Transaction("ADMIN_GRANT", k.account, k.amount, k.request, k.note)
      [] k.op = "charge" -> Transaction("USAGE", k.account, -k.amount, k.request, k.note)
      [] k.op = "refund" -> Transaction("REFUND", k.account, k.amount, k.request, k.note)
      [] OTHER           -> Transaction("ADJUSTMENT", k.account, k.amount, k.request, k.note)

Keyed(k) == k.op \in {"charge", "refund"}

\* charge and adjust raise InsufficientCreditsError otherwise.
Affordable(d, k) ==
    /\ k.op = "charge" => d.balance[k.account] >= k.amount
    /\ k.op = "adjust" => d.balance[k.account] + k.amount >= 0

\* What a statement on ledger l's connection sees.
View(l) == IF writer = l THEN working ELSE db

Init ==
    /\ db = EmptyDatabase
    /\ writer = None
    /\ working = db
    /\ lock = [l \in Ledgers |-> None]
    /\ pc = [c \in Clients |-> "idle"]
    /\ on \in [Clients -> Ledgers]
    /\ call \in [Clients -> BalanceCalls]
    /\ reply = [c \in Clients |-> Reply("none", 0)]

\* A call with valid arguments reaches the lock.
Call(c, l, k) ==
    /\ pc[c] = "idle"
    /\ on' = [on EXCEPT ![c] = l]
    /\ pc' = [pc EXCEPT ![c] = "enter"]
    /\ call' = [call EXCEPT ![c] = k]
    /\ reply' = [reply EXCEPT ![c] = Reply("none", 0)]
    /\ UNCHANGED <<db, writer, working, lock>>

\* Fault: the lock is taken whether or not a thread is inside it.
EnterUnlocked(c) ==
    /\ pc[c] = "enter"
    /\ lock' = [lock EXCEPT ![on[c]] = c]
    /\ pc' = [pc EXCEPT ![c] = IF call[c].op = "balance" THEN "read" ELSE "begin"]
    /\ UNCHANGED <<db, writer, working, on, call, reply>>

AcquireLock(c) ==
    /\ pc[c] = "enter"
    /\ lock[on[c]] = None
    /\ lock' = [lock EXCEPT ![on[c]] = c]
    /\ pc' = [pc EXCEPT ![c] = IF call[c].op = "balance" THEN "read" ELSE "begin"]
    /\ UNCHANGED <<db, writer, working, on, call, reply>>

\* balance_of: one SELECT under the lock.
ReadBalance(c) ==
    /\ pc[c] = "read"
    /\ reply' = [reply EXCEPT ![c] =
           Reply("balance", View(on[c]).balance[call[c].account])]
    /\ lock' = [lock EXCEPT ![on[c]] = None]
    /\ pc' = [pc EXCEPT ![c] = "idle"]
    /\ UNCHANGED <<db, writer, working, on, call>>

Begin(c) ==
    /\ pc[c] = "begin"
    /\ writer = None
    /\ writer' = on[c]
    /\ working' = db
    /\ pc' = [pc EXCEPT ![c] = "body"]
    /\ UNCHANGED <<db, lock, on, call, reply>>

\* Fault: a BEGIN that raises leaves the lock taken.
BeginFailsInLock(c) ==
    /\ pc[c] = "begin"
    /\ reply' = [reply EXCEPT ![c] = Reply("error", 0)]
    /\ pc' = [pc EXCEPT ![c] = "idle"]
    /\ UNCHANGED <<db, writer, working, lock, on, call>>

\* BEGIN IMMEDIATE raises (busy timeout, I/O error): the lock is given back.
BeginFails(c) ==
    /\ pc[c] = "begin"
    /\ lock' = [lock EXCEPT ![on[c]] = None]
    /\ reply' = [reply EXCEPT ![c] = Reply("error", 0)]
    /\ pc' = [pc EXCEPT ![c] = "idle"]
    /\ UNCHANGED <<db, writer, working, on, call>>

\* The key is in use: the original transaction or a conflict.
ReplayCall(c) ==
    LET t == Row(call[c]) IN
    /\ pc[c] = "body"
    /\ Keyed(call[c])
    /\ HasKey(working, KeyOf(t))
    /\ IF SamePayload(Existing(working, KeyOf(t)), t)
       THEN /\ reply' = [reply EXCEPT ![c] =
                    Reply("ok", working.idempotency[KeyOf(t)])]
            /\ pc' = [pc EXCEPT ![c] = "commit"]
       ELSE /\ reply' = [reply EXCEPT ![c] = Reply("conflict", 0)]
            /\ pc' = [pc EXCEPT ![c] = "rollback"]
    /\ UNCHANGED <<db, writer, working, lock, on, call>>

RefuseCall(c) ==
    /\ pc[c] = "body"
    /\ Keyed(call[c]) => ~HasKey(working, KeyOf(Row(call[c])))
    /\ ~Affordable(working, call[c])
    /\ reply' = [reply EXCEPT ![c] = Reply("insufficient", 0)]
    /\ pc' = [pc EXCEPT ![c] = "rollback"]
    /\ UNCHANGED <<db, writer, working, lock, on, call>>

AppendRow(c) ==
    /\ pc[c] = "body"
    /\ Keyed(call[c]) => ~HasKey(working, KeyOf(Row(call[c])))
    /\ Affordable(working, call[c])
    /\ HasRoom(working)
    /\ working' = AppendTransaction(working, Row(call[c]))
    /\ reply' = [reply EXCEPT ![c] = Reply("ok", Len(working.transactions) + 1)]
    /\ pc' = [pc EXCEPT ![c] = IF Keyed(call[c]) THEN "key" ELSE "commit"]
    /\ UNCHANGED <<db, writer, lock, on, call>>

AppendKey(c) ==
    /\ pc[c] = "key"
    /\ working' = AppendIdempotencyRecord(working, Row(call[c]))
    /\ pc' = [pc EXCEPT ![c] = "commit"]
    /\ UNCHANGED <<db, writer, lock, on, call, reply>>

\* Fault: what a failed statement left behind is committed.
FailureIsCommitted(c) ==
    /\ pc[c] \in {"body", "key", "commit"}
    /\ reply' = [reply EXCEPT ![c] = Reply("error", 0)]
    /\ pc' = [pc EXCEPT ![c] = "commit"]
    /\ UNCHANGED <<db, writer, working, lock, on, call>>

\* A statement of the body, an injected fault or the COMMIT itself raises.
TransactionFails(c) ==
    /\ pc[c] \in {"body", "key", "commit"}
    /\ reply' = [reply EXCEPT ![c] = Reply("error", 0)]
    /\ pc' = [pc EXCEPT ![c] = "rollback"]
    /\ UNCHANGED <<db, writer, working, lock, on, call>>

Commit(c) ==
    /\ pc[c] = "commit"
    /\ db' = working
    /\ writer' = None
    /\ pc' = [pc EXCEPT ![c] = "release"]
    /\ UNCHANGED <<working, lock, on, call, reply>>

Rollback(c) ==
    /\ pc[c] = "rollback"
    /\ working' = db
    /\ writer' = None
    /\ pc' = [pc EXCEPT ![c] = "release"]
    /\ UNCHANGED <<db, lock, on, call, reply>>

Release(c) ==
    /\ pc[c] = "release"
    /\ lock' = [lock EXCEPT ![on[c]] = None]
    /\ pc' = [pc EXCEPT ![c] = "idle"]
    /\ UNCHANGED <<db, writer, working, on, call, reply>>

\* The process of ledger l dies and restarts: its threads lose their calls,
\* SQLite discards its open transaction, the file keeps what was committed.
Crash(l) ==
    LET dead == {c \in Clients : on[c] = l /\ pc[c] # "idle"} IN
    /\ dead # {}
    /\ pc' = [c \in Clients |-> IF c \in dead THEN "idle" ELSE pc[c]]
    /\ reply' = [c \in Clients |->
                    IF c \in dead THEN Reply("lost", 0) ELSE reply[c]]
    /\ lock' = [lock EXCEPT ![l] = None]
    /\ writer' = IF writer = l THEN None ELSE writer
    /\ working' = IF writer = l THEN db ELSE working
    /\ UNCHANGED <<db, on, call>>

Step(c) ==
    \/ AcquireLock(c) \/ ReadBalance(c)
    \/ Begin(c) \/ BeginFails(c)
    \/ ReplayCall(c) \/ RefuseCall(c) \/ AppendRow(c) \/ AppendKey(c)
    \/ TransactionFails(c) \/ Commit(c) \/ Rollback(c) \/ Release(c)

Next ==
    \/ \E c \in Clients : Step(c) \/ \E l \in Ledgers, k \in Calls : Call(c, l, k)
    \/ \E l \in Ledgers : Crash(l)

\* A thread that entered a call keeps running until the call returns.
Fairness == \A c \in Clients : WF_vars(Step(c))

Spec == Init /\ [][Next]_vars /\ Fairness
-----------------------------------------------------------------------------
PCs == {"idle", "enter", "read", "begin", "body", "key", "commit",
        "rollback", "release"}

TypeOK ==
    /\ db \in Database
    /\ working \in Database
    /\ writer \in Ledgers \cup {None}
    /\ lock \in [Ledgers -> Clients \cup {None}]
    /\ pc \in [Clients -> PCs]
    /\ on \in [Clients -> Ledgers]
    /\ call \in [Clients -> Calls \cup BalanceCalls]
    /\ reply \in [Clients -> Replies]

\* Transactions of several statements, on several connections, with failures
\* and crashes between any two of them, are the atomic operations that the
\* in-memory ledger performs: both kinds of ledger keep one contract.
Ledger == INSTANCE CreditLedger

ImplementsLedger == Ledger!Spec

\* A balance is read from the committed rows: no thread reads through its
\* connection while another thread's transaction is open on it.
ReadsSeeCommittedRows ==
    \A c \in Clients : pc[c] = "read" => View(on[c]) = db

\* A caller that was handed a transaction finds it in the log for good, with
\* the account, amount and note it asked for, whether its call appended it
\* or replayed it.
AnsweredIsDurable ==
    \A c \in Clients :
        pc[c] = "idle" /\ reply[c].outcome = "ok" =>
            /\ reply[c].value \in 1..Len(db.transactions)
            /\ db.transactions[reply[c].value] = Row(call[c])

\* A ledger's lock never stays taken: every exit of a write transaction,
\* including a BEGIN that raises, gives it back.
LocksAreReleased ==
    \A l \in Ledgers : lock[l] # None ~> lock[l] = None
=============================================================================
