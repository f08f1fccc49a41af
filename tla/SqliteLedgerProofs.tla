------------------------- MODULE SqliteLedgerProofs -------------------------
(***************************************************************************)
(* The statement-level ledger implements the atomic one, for every number   *)
(* of threads, ledger objects, accounts and requests.  The argument is the  *)
(* lock discipline: the ledger whose connection holds the write transaction *)
(* has a thread of its own inside its lock, that thread is the only one in  *)
(* a transaction, and what it has done to the working image is the image of *)
(* the file itself or that image after one operation.  An answer is about a *)
(* row of the image that its thread commits, or of a committed one.         *)
(***************************************************************************)
EXTENDS SqliteLedger, CreditDomainProofs

InTransaction == {"body", "key", "commit", "rollback"}
InLock == InTransaction \cup {"read", "begin", "release"}

\* A thread past AcquireLock holds its ledger's lock.
HoldersAgree == \A c \in Clients : pc[c] \in InLock => lock[on[c]] = c

\* The writer slot and the threads in a transaction name each other.
WriterAgrees ==
    /\ \A c \in Clients : pc[c] \in InTransaction => writer = on[c]
    /\ writer # None => \E c \in Clients : pc[c] \in InTransaction /\ on[c] = writer

Applies(k) ==
    /\ Keyed(k) => ~HasKey(db, KeyOf(Row(k)))
    /\ Affordable(db, k)
    /\ HasRoom(db)

\* What the working image may be at each point of a transaction.
ImageAgrees ==
    \A c \in Clients :
        /\ pc[c] \in {"body", "key"} => call[c].op # "balance"
        /\ pc[c] = "begin" => call[c].op # "balance"
        /\ pc[c] = "body" => working = db
        /\ pc[c] = "key" =>
              /\ Keyed(call[c])
              /\ Applies(call[c])
              /\ working = AppendTransaction(db, Row(call[c]))
        /\ pc[c] = "commit" =>
              \/ working = db
              \/ /\ call[c].op # "balance"
                 /\ Applies(call[c])
                 /\ working = IF Keyed(call[c])
                              THEN AppendKeyed(db, Row(call[c]))
                              ELSE AppendTransaction(db, Row(call[c]))

Types == /\ lock \in [Ledgers -> Clients \cup {None}]
         /\ pc \in [Clients -> PCs]
         /\ on \in [Clients -> Ledgers]
         /\ call \in [Clients -> Calls \cup BalanceCalls]

Inv == Types /\ HoldersAgree /\ WriterAgrees /\ ImageAgrees

\* Two threads are never in a transaction at once.
LEMMA OneTransaction ==
    ASSUME Inv, NEW c \in Clients, NEW e \in Clients,
           pc[c] \in InTransaction, pc[e] \in InTransaction
    PROVE  c = e
  BY DEF Inv, HoldersAgree, WriterAgrees, InLock

LEMMA InitInv == Init => Inv
  BY DEF Init, Inv, Types, HoldersAgree, WriterAgrees, ImageAgrees, InLock,
         InTransaction, PCs

\* Steps of a thread that leave db, writer and working alone.
LEMMA LocalSteps ==
    ASSUME Inv, NEW c \in Clients,
           \/ \E l \in Ledgers, k \in Calls : Call(c, l, k)
           \/ AcquireLock(c) \/ ReadBalance(c) \/ BeginFails(c) \/ Release(c)
    PROVE  Inv'
  <1>1. ASSUME NEW l \in Ledgers, NEW k \in Calls, Call(c, l, k)
        PROVE  Inv'
    BY <1>1 DEF Call, Inv, Types, HoldersAgree, WriterAgrees, ImageAgrees, InLock,
                InTransaction, PCs, Applies
  <1>2. CASE AcquireLock(c)
    BY <1>2, NoneIsNobody
       DEF AcquireLock, Inv, Types, HoldersAgree, WriterAgrees, ImageAgrees, InLock,
           InTransaction, PCs, Applies
  <1>3. CASE ReadBalance(c)
    BY <1>3 DEF ReadBalance, Inv, Types, HoldersAgree, WriterAgrees, ImageAgrees,
                InLock, InTransaction, PCs, Applies
  <1>4. CASE BeginFails(c)
    BY <1>4 DEF BeginFails, Inv, Types, HoldersAgree, WriterAgrees, ImageAgrees,
                InLock, InTransaction, PCs, Applies
  <1>5. CASE Release(c)
    BY <1>5 DEF Release, Inv, Types, HoldersAgree, WriterAgrees, ImageAgrees,
                InLock, InTransaction, PCs, Applies
  <1> QED
    BY <1>1, <1>2, <1>3, <1>4, <1>5

\* Steps inside a transaction; the other threads are outside one.
LEMMA TransactionSteps ==
    ASSUME Inv, NEW c \in Clients,
           \/ Begin(c) \/ ReplayCall(c) \/ RefuseCall(c) \/ AppendRow(c)
           \/ AppendKey(c) \/ TransactionFails(c) \/ Commit(c) \/ Rollback(c)
    PROVE  Inv'
  <1> USE DEF Inv, Types, HoldersAgree, WriterAgrees, ImageAgrees, InLock,
              InTransaction, PCs
  <1>1. CASE Begin(c)
    BY <1>1, NoneIsNobody DEF Begin
  <1> SUFFICES ASSUME pc[c] \in InTransaction,
                      \A e \in Clients \ {c} : pc[e] \notin InTransaction
               PROVE  Inv'
    <2>1. \A e \in Clients \ {c} :
            pc[c] \in InTransaction => pc[e] \notin InTransaction
      BY OneTransaction
    <2> QED
      BY <1>1, <2>1 DEF ReplayCall, RefuseCall, AppendRow, AppendKey,
                        TransactionFails, Commit, Rollback
  <1>2. CASE ReplayCall(c)
    BY <1>2 DEF ReplayCall, Applies
  <1>3. CASE RefuseCall(c)
    BY <1>3 DEF RefuseCall, Applies
  <1>4. CASE AppendRow(c)
    <2>1. /\ pc[c] = "body" /\ working = db /\ Applies(call[c])
          /\ call[c].op # "balance"
          /\ working' = AppendTransaction(db, Row(call[c]))
          /\ pc' = [pc EXCEPT ![c] = IF Keyed(call[c]) THEN "key" ELSE "commit"]
          /\ UNCHANGED <<db, writer, lock, on, call>>
      BY <1>4 DEF AppendRow, Applies
    <2> QED
      BY <2>1 DEF Applies
  <1>5. CASE AppendKey(c)
    <2>1. /\ pc[c] = "key" /\ Keyed(call[c]) /\ Applies(call[c])
          /\ call[c].op # "balance"
          /\ working' = AppendKeyed(db, Row(call[c]))
          /\ pc' = [pc EXCEPT ![c] = "commit"]
          /\ UNCHANGED <<db, writer, lock, on, call>>
      BY <1>5 DEF AppendKey, AppendKeyed
    <2> QED
      BY <2>1 DEF Applies
  <1>6. CASE TransactionFails(c)
    BY <1>6 DEF TransactionFails, Applies
  <1>7. CASE Commit(c)
    BY <1>7, NoneIsNobody DEF Commit, Applies
  <1>8. CASE Rollback(c)
    BY <1>8, NoneIsNobody DEF Rollback, Applies
  <1> QED
    BY <1>1, <1>2, <1>3, <1>4, <1>5, <1>6, <1>7, <1>8

LEMMA CrashStep ==
    ASSUME Inv, NEW l \in Ledgers, Crash(l)
    PROVE  Inv'
  <1> DEFINE dead == {c \in Clients : on[c] = l /\ pc[c] # "idle"}
  <1>1. /\ \A c \in Clients : pc'[c] = IF c \in dead THEN "idle" ELSE pc[c]
        /\ pc' \in [Clients -> PCs]
        /\ lock' = [lock EXCEPT ![l] = None]
        /\ writer' = IF writer = l THEN None ELSE writer
        /\ working' = IF writer = l THEN db ELSE working
        /\ UNCHANGED <<db, on, call>>
    BY DEF Crash, Inv, Types, PCs
  <1>2. \A c \in Clients : pc'[c] # "idle" => pc'[c] = pc[c] /\ on[c] # l
    BY <1>1
  <1>3. Types'
    BY <1>1 DEF Inv, Types
  <1>4. HoldersAgree'
    BY <1>1, <1>2, <1>3 DEF Inv, Types, HoldersAgree, InLock, InTransaction
  <1>5. WriterAgrees'
    BY <1>1, <1>2, <1>3 DEF Inv, Types, WriterAgrees, InTransaction
  <1>6. ImageAgrees'
    <2>1. \A c \in Clients : pc'[c] \in InTransaction => writer # l
      BY <1>2 DEF Inv, WriterAgrees, InTransaction
    <2> QED
      BY <1>1, <1>2, <2>1 DEF Inv, ImageAgrees, InTransaction, Applies
  <1> QED
    BY <1>3, <1>4, <1>5, <1>6 DEF Inv

LEMMA NextInv == Inv /\ [Next]_vars => Inv'
  <1>1. ASSUME Inv, UNCHANGED vars
        PROVE  Inv'
    BY <1>1 DEF vars, Inv, Types, HoldersAgree, WriterAgrees, ImageAgrees, Applies
  <1> QED
    BY <1>1, LocalSteps, TransactionSteps, CrashStep DEF Next, Step

\* The instance's copies of the domain's operators are the operators here.
LEMMA SameDomain ==
    /\ Ledger!EmptyDatabase = EmptyDatabase
    /\ \A d : Ledger!HasRoom(d) = HasRoom(d)
    /\ \A t : Ledger!KeyOf(t) = KeyOf(t)
    /\ \A d, k : Ledger!HasKey(d, k) = HasKey(d, k)
    /\ \A d, t : Ledger!AppendTransaction(d, t) = AppendTransaction(d, t)
    /\ \A d, t : Ledger!AppendKeyed(d, t) = AppendKeyed(d, t)
    /\ \A type, a, amount, r, note :
         Ledger!Transaction(type, a, amount, r, note) = Transaction(type, a, amount, r, note)
  <1> USE DEF KeyOf, Ledger!KeyOf
  <1>1. Ledger!EmptyDatabase = EmptyDatabase
    BY DEF Ledger!EmptyDatabase, EmptyDatabase, Ledger!Keys, Keys, Ledger!KeyedTypes,
           KeyedTypes, Ledger!NoRow, NoRow
  <1>2. \A d : Ledger!HasRoom(d) = HasRoom(d)
    BY DEF Ledger!HasRoom, HasRoom
  <1>3. \A d, k : Ledger!HasKey(d, k) = HasKey(d, k)
    BY DEF Ledger!HasKey, HasKey, Ledger!NoRow, NoRow
  <1>4. \A d, t : Ledger!AppendTransaction(d, t) = AppendTransaction(d, t)
    BY DEF Ledger!AppendTransaction, AppendTransaction
  <1>5. \A d, t : Ledger!AppendKeyed(d, t) = AppendKeyed(d, t)
    BY DEF Ledger!AppendKeyed, AppendKeyed, Ledger!AppendIdempotencyRecord,
           AppendIdempotencyRecord, Ledger!AppendTransaction, AppendTransaction
  <1>6. \A type, a, amount, r, note :
          Ledger!Transaction(type, a, amount, r, note) = Transaction(type, a, amount, r, note)
    BY DEF Ledger!Transaction, Transaction
  <1> QED
    BY <1>1, <1>2, <1>3, <1>4, <1>5, <1>6

\* A call that applies to the file and is carried out is an operation of the
\* atomic ledger.
LEMMA AppliedIsOperation ==
    ASSUME NEW k \in AllCalls, k.op # "balance", Applies(k),
           db' = IF Keyed(k) THEN AppendKeyed(db, Row(k))
                             ELSE AppendTransaction(db, Row(k))
    PROVE  Ledger!Next
  <1>1. /\ k.account \in Accounts /\ k.note \in Notes
        /\ k.op = "grant" => k.amount \in Amounts /\ k.request = NoRequest
        /\ k.op = "adjust" => k.amount \in Ledger!Deltas /\ k.request = NoRequest
        /\ k.op \in {"charge", "refund"} =>
             k.amount \in Amounts /\ k.request \in Requests
        /\ k.op \in {"grant", "adjust", "charge", "refund"}
    BY DEF AllCalls, BalanceCalls, Ledger!Deltas
  <1>2. CASE k.op = "grant"
    <2>1. Ledger!Grant(k.account, k.amount, k.note)
      BY <1>1, <1>2, SameDomain DEF Applies, Keyed, Row, Ledger!Grant
    <2> QED
      BY <2>1, <1>1, <1>2 DEF Ledger!Next
  <1>3. CASE k.op = "adjust"
    <2>1. Ledger!Adjust(k.account, k.amount, k.note)
      BY <1>1, <1>3, SameDomain DEF Applies, Keyed, Row, Affordable, Ledger!Adjust
    <2> QED
      BY <2>1, <1>1, <1>3 DEF Ledger!Next
  <1>4. CASE k.op = "charge"
    <2>1. Ledger!Charge(k.account, k.request, k.amount, k.note)
      BY <1>1, <1>4, SameDomain DEF Applies, Keyed, Row, Affordable, Ledger!Charge
    <2> QED
      BY <2>1, <1>1, <1>4 DEF Ledger!Next
  <1>5. CASE k.op = "refund"
    <2>1. Ledger!Refund(k.account, k.request, k.amount, k.note)
      BY <1>1, <1>5, SameDomain DEF Applies, Keyed, Row, Ledger!Refund
    <2> QED
      BY <2>1, <1>1, <1>5 DEF Ledger!Next
  <1> QED
    BY <1>1, <1>2, <1>3, <1>4, <1>5

\* Only COMMIT changes the file, and it commits nothing or one operation.
LEMMA StepRefines == Inv /\ [Next]_vars => [Ledger!Next]_(Ledger!vars)
  <1> SUFFICES ASSUME Inv, [Next]_vars
               PROVE  Ledger!Next \/ UNCHANGED db
    BY DEF Ledger!vars
  <1>1. ASSUME NEW c \in Clients, Commit(c)
        PROVE  Ledger!Next \/ UNCHANGED db
    <2>1. CASE working = db
      BY <2>1, <1>1 DEF Commit
    <2>2. CASE working # db
      <3>1. /\ call[c].op # "balance" /\ Applies(call[c])
            /\ db' = IF Keyed(call[c]) THEN AppendKeyed(db, Row(call[c]))
                                       ELSE AppendTransaction(db, Row(call[c]))
        BY <2>2, <1>1 DEF Commit, Inv, ImageAgrees
      <3>2. call[c] \in AllCalls
        BY <3>1, CallsAreValid DEF Inv, Types, BalanceCalls
      <3> QED
        BY <3>1, <3>2, AppliedIsOperation
    <2> QED
      BY <2>1, <2>2
  <1>2. ASSUME NEW c \in Clients, Step(c), ~Commit(c)
        PROVE  UNCHANGED db
    BY <1>2 DEF Step, AcquireLock, ReadBalance, Begin, BeginFails, ReplayCall,
                RefuseCall, AppendRow, AppendKey, TransactionFails, Rollback, Release
  <1> QED
    BY <1>1, <1>2 DEF Next, vars, Call, Crash

\* The SQLite ledger's transactions are the in-memory ledger's operations.
THEOREM SqliteImplementsLedger == Spec => ImplementsLedger
  <1>1. Init => Ledger!Init
    BY SameDomain DEF Init, Ledger!Init
  <1>2. Spec => []Inv
    BY InitInv, NextInv, PTL DEF Spec
  <1> QED
    BY <1>1, <1>2, StepRefines, PTL DEF Spec, ImplementsLedger, Ledger!Spec

\* A thread inside the lock to read has no transaction open on its connection.
LEMMA ReadsCommitted ==
    ASSUME Inv, NEW c \in Clients, pc[c] = "read"
    PROVE  View(on[c]) = db
  <1>1. ASSUME writer = on[c] PROVE FALSE
    <2>1. PICK e \in Clients : pc[e] \in InTransaction /\ on[e] = writer
      BY <1>1, NoneIsNobody DEF Inv, Types, WriterAgrees
    <2> QED
      BY <1>1, <2>1 DEF Inv, HoldersAgree, InLock, InTransaction
  <1> QED
    BY <1>1 DEF View

\* No thread reads a balance through an open transaction.
THEOREM SqliteReadsCommitted == Spec => []ReadsSeeCommittedRows
  <1>1. Spec => []Inv
    BY InitInv, NextInv, PTL DEF Spec
  <1>2. Inv => ReadsSeeCommittedRows
    BY ReadsCommitted DEF ReadsSeeCommittedRows
  <1> QED
    BY <1>1, <1>2, PTL

-----------------------------------------------------------------------------
(* What callers were answered *)

LogAgrees == db \in Database /\ KeysMatch(db)

AnsweredIn(d, c) ==
    /\ reply[c].value \in 1..Len(d.transactions)
    /\ d.transactions[reply[c].value] = Row(call[c])

\* The transaction promised to a caller is in the image that its own COMMIT
\* will make the file, and in the file from then on.
Promised(c) ==
    reply[c].outcome = "ok" =>
        \/ pc[c] \in {"key", "commit"} /\ AnsweredIn(working, c)
        \/ pc[c] \in {"release", "idle"} /\ AnsweredIn(db, c)

Promises == reply \in [Clients -> Replies] /\ \A c \in Clients : Promised(c)

Answers == LogAgrees /\ Promises

LEMMA RowIsTransaction ==
    ASSUME NEW k \in AllCalls, k.op # "balance"
    PROVE  /\ Row(k) \in CreditTransaction
           /\ Keyed(k) <=> Row(k).type \in KeyedTypes
  <1>1. /\ k.account \in Accounts /\ k.note \in Notes
        /\ k.op \in {"grant", "charge", "refund"} => k.amount \in Amounts
        /\ k.op = "adjust" => k.amount \in Amounts \cup {-n : n \in Amounts}
        /\ k.op \in {"grant", "adjust"} => k.request = NoRequest
        /\ k.op \in {"charge", "refund"} => k.request \in Requests
        /\ k.op \in {"grant", "adjust", "charge", "refund"}
    BY DEF AllCalls, BalanceCalls
  <1>2. \A m \in Amounts : m \in Nat /\ m > 0
    BY <1>1, TransactionTypes
  <1>3. CASE k.op = "grant"
    <2>1. k.amount \in Int /\ k.amount > 0
      BY <1>1, <1>2, <1>3
    <2>2. Row(k) = Transaction("ADMIN_GRANT", k.account, k.amount, NoRequest, k.note)
      BY <1>1, <1>3 DEF Row
    <2>3. Row(k) \in CreditTransaction
      BY <1>1, <2>1, <2>2, TransactionTypes
    <2> QED
      BY <1>3, <2>2, <2>3 DEF Keyed, KeyedTypes, Transaction
  <1>4. CASE k.op = "adjust"
    <2>1. k.amount \in Int /\ k.amount # 0
      BY <1>1, <1>2, <1>4
    <2>2. Row(k) = Transaction("ADJUSTMENT", k.account, k.amount, NoRequest, k.note)
      BY <1>1, <1>4 DEF Row
    <2>3. Row(k) \in CreditTransaction
      BY <1>1, <2>1, <2>2, TransactionTypes
    <2> QED
      BY <1>4, <2>2, <2>3 DEF Keyed, KeyedTypes, Transaction
  <1>5. CASE k.op = "charge"
    <2>1. k.amount \in Int /\ k.amount > 0
      BY <1>1, <1>2, <1>5
    <2>2. Row(k) = Transaction("USAGE", k.account, -k.amount, k.request, k.note)
      BY <1>1, <1>5 DEF Row
    <2>3. Row(k) \in CreditTransaction
      BY <1>1, <1>5, <2>1, <2>2, TransactionTypes
    <2> QED
      BY <1>5, <2>2, <2>3 DEF Keyed, KeyedTypes, Transaction
  <1>6. CASE k.op = "refund"
    <2>1. k.amount \in Int /\ k.amount > 0
      BY <1>1, <1>2, <1>6
    <2>2. Row(k) = Transaction("REFUND", k.account, k.amount, k.request, k.note)
      BY <1>1, <1>6 DEF Row
    <2>3. Row(k) \in CreditTransaction
      BY <1>1, <1>6, <2>1, <2>2, TransactionTypes
    <2> QED
      BY <1>6, <2>2, <2>3 DEF Keyed, KeyedTypes, Transaction
  <1> QED
    BY <1>1, <1>3, <1>4, <1>5, <1>6

\* What a transaction commits keeps every row of the file.
LEMMA CommitExtends ==
    ASSUME Inv, LogAgrees, NEW c \in Clients, pc[c] = "commit"
    PROVE  working \in Database /\ KeysMatch(working) /\ Extends(working, db)
  <1>1. CASE working = db
    BY <1>1 DEF LogAgrees, Extends, Database
  <1>2. CASE working # db
    <2>1. /\ call[c].op # "balance" /\ Applies(call[c])
          /\ working = IF Keyed(call[c]) THEN AppendKeyed(db, Row(call[c]))
                                         ELSE AppendTransaction(db, Row(call[c]))
      BY <1>2 DEF Inv, ImageAgrees
    <2>2. call[c] \in AllCalls
      BY <2>1, CallsAreValid DEF Inv, Types, BalanceCalls
    <2>3. PICK t \in CreditTransaction :
            t = Row(call[c]) /\ (Keyed(call[c]) <=> t.type \in KeyedTypes)
      BY <2>1, <2>2, RowIsTransaction
    <2>4. CASE Keyed(call[c])
      BY <2>1, <2>3, <2>4, KeyedAppend DEF LogAgrees, Applies
    <2>5. CASE ~Keyed(call[c])
      BY <2>1, <2>3, <2>5, UnkeyedAppend DEF LogAgrees
    <2> QED
      BY <2>4, <2>5
  <1> QED
    BY <1>1, <1>2

\* A key in use with the payload of the call names the row of the call.
LEMMA ReplayedRow ==
    ASSUME LogAgrees, NEW t \in CreditTransaction, t.type \in KeyedTypes,
           HasKey(db, KeyOf(t)), SamePayload(Existing(db, KeyOf(t)), t)
    PROVE  /\ db.idempotency[KeyOf(t)] \in 1..Len(db.transactions)
           /\ db.transactions[db.idempotency[KeyOf(t)]] = t
  <1> DEFINE row == db.transactions[db.idempotency[KeyOf(t)]]
  <1>1. KeyOf(t) \in Keys
    BY DEF KeyOf, Keys, KeyedTypes, CreditTransaction
  <1>2. /\ db.idempotency[KeyOf(t)] \in 1..Len(db.transactions)
        /\ KeyOf(row) = KeyOf(t)
        /\ row.amount = t.amount /\ row.note = t.note
    BY <1>1 DEF LogAgrees, KeysMatch, Existing, SamePayload
  <1>3. row \in CreditTransaction
    BY <1>2 DEF LogAgrees, Database
  <1> HIDE DEF row
  <1>4. row.type = t.type /\ row.account = t.account /\ row.request = t.request
    BY <1>2 DEF KeyOf
  <1>5. row = t
    BY <1>2, <1>3, <1>4 DEF CreditTransaction
  <1> QED
    BY <1>2, <1>5 DEF row

\* Only a COMMIT writes the file.
LEMMA LogStep ==
    ASSUME Inv, LogAgrees, [Next]_vars
    PROVE  LogAgrees' /\ Extends(db', db)
  <1>1. ASSUME NEW c \in Clients, Commit(c)
        PROVE  LogAgrees' /\ Extends(db', db)
    <2>1. pc[c] = "commit" /\ db' = working
      BY <1>1 DEF Commit
    <2> QED
      BY <2>1, CommitExtends DEF LogAgrees
  <1>2. ASSUME UNCHANGED db
        PROVE  LogAgrees' /\ Extends(db', db)
    BY <1>2 DEF LogAgrees, Extends, Database
  <1>3. ASSUME NEW c \in Clients, Step(c), ~Commit(c)
        PROVE  UNCHANGED db
    BY <1>3 DEF Step, AcquireLock, ReadBalance, Begin, BeginFails, ReplayCall,
                RefuseCall, AppendRow, AppendKey, TransactionFails, Rollback, Release
  <1> QED
    BY <1>1, <1>2, <1>3 DEF Next, vars, Call, Crash

\* A thread that a step leaves alone keeps what it was promised.
LEMMA PromiseStays ==
    ASSUME Promises, NEW c \in Clients,
           pc'[c] = pc[c], call'[c] = call[c], reply'[c] = reply[c],
           Extends(db', db), Len(db.transactions) \in Nat, Len(db'.transactions) \in Nat,
           pc[c] \in InTransaction => working' = working
    PROVE  Promised(c)'
  BY DEF Promises, Promised, AnsweredIn, Extends, InTransaction

\* Only the thread whose transaction it is changes an image in use.
LEMMA OthersKeepImage ==
    ASSUME Inv, Promises, NEW c \in Clients, Step(c), NEW e \in Clients \ {c}
    PROVE  /\ pc'[e] = pc[e] /\ call'[e] = call[e] /\ reply'[e] = reply[e]
           /\ pc[e] \in InTransaction => working' = working
  <1>1. pc'[e] = pc[e] /\ call'[e] = call[e] /\ reply'[e] = reply[e]
    BY DEF Step, AcquireLock, ReadBalance, Begin, BeginFails, ReplayCall, RefuseCall,
           AppendRow, AppendKey, TransactionFails, Commit, Rollback, Release, Inv, Types,
           Promises
  <1>2. ASSUME pc[e] \in InTransaction PROVE working' = working
    <2>1. pc[c] \notin InTransaction /\ writer = on[e]
      BY <1>2, OneTransaction DEF Inv, WriterAgrees
    <2>2. ~Begin(c)
      BY <2>1, NoneIsNobody DEF Begin, Inv, Types
    <2> QED
      BY <2>1, <2>2
         DEF Step, AcquireLock, ReadBalance, BeginFails, ReplayCall, RefuseCall,
             AppendRow, AppendKey, TransactionFails, Commit, Rollback, Release,
             InTransaction
  <1> QED
    BY <1>1, <1>2

LEMMA OwnPromise ==
    ASSUME Inv, Answers, NEW c \in Clients, Step(c)
    PROVE  reply' \in [Clients -> Replies] /\ Promised(c)'
  <1> USE DEF Answers, Promises, Promised, Reply
  <1>1. db \in Database /\ Len(db.transactions) \in Nat
    BY DEF LogAgrees, Database
  <1>2. ASSUME NEW d \in Database, NEW a \in Accounts PROVE d.balance[a] \in Int
    BY DEF Database
  <1>3. CASE AcquireLock(c) \/ Begin(c)
    BY <1>3 DEF AcquireLock, Begin, Inv, Types
  <1>4. CASE BeginFails(c) \/ RefuseCall(c) \/ TransactionFails(c)
    BY <1>4 DEF BeginFails, RefuseCall, TransactionFails, Inv, Types, Replies
  <1>5. CASE ReadBalance(c)
    <2>1. View(on[c]) = db
      BY <1>5, ReadsCommitted DEF ReadBalance
    <2>2. call[c].account \in Accounts
      BY CallsAreValid DEF Inv, Types, AllCalls, BalanceCalls
    <2>3. db.balance[call[c].account] \in Int
      BY <1>1, <1>2, <2>2
    <2> QED
      BY <1>5, <2>1, <2>3 DEF ReadBalance, Inv, Types, Replies
  <1>6. CASE ReplayCall(c)
    <2>1. working = db /\ call[c].op # "balance" /\ Keyed(call[c])
      BY <1>6 DEF ReplayCall, Inv, ImageAgrees
    <2>2. call[c] \in AllCalls
      BY <2>1, CallsAreValid DEF Inv, Types, BalanceCalls
    <2>3. PICK t \in CreditTransaction : t = Row(call[c]) /\ t.type \in KeyedTypes
      BY <2>1, <2>2, RowIsTransaction
    <2>4. CASE SamePayload(Existing(working, KeyOf(t)), t)
      <3>1. /\ reply' = [reply EXCEPT ![c] =
                 [outcome |-> "ok", value |-> db.idempotency[KeyOf(t)]]]
            /\ pc'[c] = "commit" /\ working' = db /\ call' = call
            /\ HasKey(db, KeyOf(t)) /\ SamePayload(Existing(db, KeyOf(t)), t)
        BY <1>6, <2>1, <2>3, <2>4 DEF ReplayCall, Inv, Types
      <3>2. /\ db.idempotency[KeyOf(t)] \in 1..Len(db.transactions)
            /\ db.transactions[db.idempotency[KeyOf(t)]] = t
        BY <2>3, <3>1, ReplayedRow
      <3> QED
        BY <1>1, <2>3, <3>1, <3>2 DEF Replies, AnsweredIn
    <2>5. CASE ~SamePayload(Existing(working, KeyOf(t)), t)
      BY <1>6, <2>3, <2>5 DEF ReplayCall, Inv, Types, Replies
    <2> QED
      BY <2>4, <2>5
  <1>7. CASE AppendRow(c)
    <2>1. /\ working = db /\ call[c].op # "balance"
          /\ working' = AppendTransaction(db, Row(call[c]))
          /\ reply' = [reply EXCEPT ![c] =
                 [outcome |-> "ok", value |-> Len(db.transactions) + 1]]
          /\ pc'[c] \in {"key", "commit"} /\ call' = call
      BY <1>7 DEF AppendRow, Inv, Types, ImageAgrees
    <2>2. call[c] \in AllCalls
      BY <2>1, CallsAreValid DEF Inv, Types, BalanceCalls
    <2>3. PICK t \in CreditTransaction : t = Row(call[c])
      BY <2>1, <2>2, RowIsTransaction
    <2>4. /\ Len(working'.transactions) = Len(db.transactions) + 1
          /\ working'.transactions[Len(db.transactions) + 1] = t
      BY <1>1, <2>1, <2>3, AppendTransactionTypes
    <2> QED
      BY <1>1, <2>1, <2>3, <2>4 DEF Replies, AnsweredIn
  <1>8. CASE AppendKey(c)
    <2>1. working'.transactions = working.transactions /\ UNCHANGED <<reply, call>>
      BY <1>8 DEF AppendKey, AppendIdempotencyRecord
    <2> QED
      BY <1>8, <2>1 DEF AppendKey, AnsweredIn, Inv, Types
  <1>9. CASE Commit(c) \/ Rollback(c) \/ Release(c)
    BY <1>9 DEF Commit, Rollback, Release, AnsweredIn, Inv, Types
  <1> QED
    BY <1>3, <1>4, <1>5, <1>6, <1>7, <1>8, <1>9 DEF Step

LEMMA AnswersStep == Inv /\ Answers /\ [Next]_vars => Answers'
  <1> SUFFICES ASSUME Inv, Answers, [Next]_vars PROVE Answers'
    OBVIOUS
  <1>1. LogAgrees' /\ Extends(db', db)
    BY LogStep DEF Answers
  <1>2. Len(db.transactions) \in Nat /\ Len(db'.transactions) \in Nat
    BY <1>1 DEF Answers, LogAgrees, Database
  <1>3. ASSUME NEW c \in Clients, Step(c) PROVE Promises'
    <2>1. reply' \in [Clients -> Replies] /\ Promised(c)'
      BY <1>3, OwnPromise
    <2>2. ASSUME NEW e \in Clients \ {c} PROVE Promised(e)'
      BY <1>1, <1>2, <1>3, OthersKeepImage, PromiseStays DEF Answers
    <2> QED
      BY <2>1, <2>2 DEF Promises
  <1>4. ASSUME NEW c \in Clients, NEW l \in Ledgers, NEW k \in Calls, Call(c, l, k)
        PROVE  Promises'
    <2>1. reply' \in [Clients -> Replies] /\ Promised(c)'
      BY <1>4 DEF Call, Reply, Replies, Answers, Promises, Promised
    <2>2. ASSUME NEW e \in Clients \ {c} PROVE Promised(e)'
      BY <1>1, <1>2, <1>4, PromiseStays DEF Answers, Call, Inv, Types, Promises
    <2> QED
      BY <2>1, <2>2 DEF Promises
  <1>5. ASSUME NEW l \in Ledgers, Crash(l) PROVE Promises'
    <2>1. reply' \in [Clients -> Replies]
      BY <1>5 DEF Crash, Reply, Replies, Answers, Promises
    <2>2. ASSUME NEW e \in Clients PROVE Promised(e)'
      <3>1. CASE on[e] = l /\ pc[e] # "idle"
        BY <1>5, <3>1 DEF Crash, Reply, Promised
      <3>2. CASE ~(on[e] = l /\ pc[e] # "idle")
        <4>1. pc'[e] = pc[e] /\ call'[e] = call[e] /\ reply'[e] = reply[e]
          BY <1>5, <3>2 DEF Crash
        <4>2. pc[e] \in InTransaction => working' = working
          BY <1>5, <3>2 DEF Crash, Inv, WriterAgrees, InTransaction
        <4> QED
          BY <1>1, <1>2, <4>1, <4>2, PromiseStays DEF Answers
      <3> QED
        BY <3>1, <3>2
    <2> QED
      BY <2>1, <2>2 DEF Promises
  <1>6. ASSUME UNCHANGED vars PROVE Promises'
    BY <1>6 DEF vars, Answers, Promises, Promised, AnsweredIn
  <1> QED
    BY <1>1, <1>3, <1>4, <1>5, <1>6 DEF Next, Answers

LEMMA AnswersInit == Init => Answers
  <1> SUFFICES ASSUME Init PROVE Answers
    OBVIOUS
  <1>1. /\ db.transactions = << >>
        /\ db.idempotency = [k \in Keys |-> NoRow]
        /\ db.balance = [a \in Accounts |-> 0]
        /\ db = [transactions |-> << >>, idempotency |-> [k \in Keys |-> NoRow],
                 balance |-> [a \in Accounts |-> 0]]
    BY DEF Init, EmptyDatabase
  <1>2. LogAgrees
    BY <1>1 DEF LogAgrees, Database, KeysMatch, HasKey, NoRow
  <1>3. Promises
    BY DEF Init, Promises, Promised, Reply, Replies
  <1> QED
    BY <1>2, <1>3 DEF Answers

\* A caller that was handed a transaction finds it in the file for good, as it
\* asked for it: no failure, rollback or crash of any thread in between loses
\* or changes it, and a replay hands out the row of the same call.
THEOREM SqliteAnswersAreDurable == Spec => []AnsweredIsDurable
  <1>1. Inv /\ Answers => AnsweredIsDurable
    BY DEF Answers, Promises, Promised, AnsweredIn, AnsweredIsDurable
  <1>2. Init => Inv /\ Answers
    BY InitInv, AnswersInit
  <1>3. (Inv /\ Answers) /\ [Next]_vars => (Inv /\ Answers)'
    BY NextInv, AnswersStep
  <1> QED
    BY <1>1, <1>2, <1>3, PTL DEF Spec
=============================================================================
