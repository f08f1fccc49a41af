------------------------- MODULE CreditLedgerProofs -------------------------
(***************************************************************************)
(* The ledger's invariants for every set of accounts, request ids, amounts  *)
(* and notes and for a log of any length.  LedgerInv is inductive: only     *)
(* charge and a negative adjust lower a balance, both after testing it, and *)
(* a keyed row is appended only under a key that is free.                   *)
(*                                                                          *)
(* The administrative services append to the same log.  WriterInv says what *)
(* the service with the write transaction has done to its image, AuditInv   *)
(* that rows and records correspond in what is committed and in that image. *)
(***************************************************************************)
EXTENDS AdminCredit, CreditDomainProofs

LedgerInv ==
    TypeOK /\ NeverOverdrawn /\ KeysMatchTransactions

\* A step that appends a row to a solvent, well-keyed image leads to another
\* one that extends it.
Preserves == LedgerInv' /\ Extends(db', db)

LEMMA UnkeyedStep ==
    ASSUME LedgerInv, NEW t \in CreditTransaction, t.type \notin KeyedTypes,
           db.balance[t.account] + t.amount >= 0,
           db' = AppendTransaction(db, t)
    PROVE  Preserves
  <1>1. db \in Database /\ KeysMatch(db) /\ Solvent(db)
    BY DEF LedgerInv, TypeOK, NeverOverdrawn, KeysMatchTransactions
  <1>2. db' \in Database /\ KeysMatch(db') /\ Extends(db', db)
    BY <1>1, UnkeyedAppend
  <1>3. Solvent(db')
    BY <1>1, AppendTransactionTypes DEF Solvent
  <1> QED
    BY <1>2, <1>3
       DEF Preserves, LedgerInv, TypeOK, NeverOverdrawn, KeysMatchTransactions

LEMMA KeyedStep ==
    ASSUME LedgerInv, NEW t \in CreditTransaction, t.type \in KeyedTypes,
           ~HasKey(db, KeyOf(t)),
           db.balance[t.account] + t.amount >= 0,
           db' = AppendKeyed(db, t)
    PROVE  Preserves
  <1>1. db \in Database /\ KeysMatch(db) /\ Solvent(db)
    BY DEF LedgerInv, TypeOK, NeverOverdrawn, KeysMatchTransactions
  <1>2. /\ db' \in Database /\ KeysMatch(db') /\ Extends(db', db)
        /\ db'.balance = AppendTransaction(db, t).balance
    BY <1>1, KeyedAppend DEF AppendKeyed, AppendIdempotencyRecord
  <1>3. /\ db'.balance[t.account] = db.balance[t.account] + t.amount
        /\ \A a \in Accounts \ {t.account} : db'.balance[a] = db.balance[a]
    <2> DEFINE b == AppendTransaction(db, t)
    <2>1. /\ b.balance[t.account] = db.balance[t.account] + t.amount
          /\ \A a \in Accounts \ {t.account} : b.balance[a] = db.balance[a]
      BY <1>1, AppendTransactionTypes
    <2> HIDE DEF b
    <2> QED
      BY <2>1, <1>2 DEF b
  <1>4. Solvent(db')
    BY <1>1, <1>3 DEF Solvent
  <1> QED
    BY <1>2, <1>4
       DEF Preserves, LedgerInv, TypeOK, NeverOverdrawn, KeysMatchTransactions

LEMMA UnchangedStep ==
    ASSUME LedgerInv, UNCHANGED db
    PROVE  Preserves
  <1>1. db \in Database
    BY DEF LedgerInv, TypeOK
  <1>2. Extends(db, db)
    BY <1>1 DEF Extends, Database
  <1> QED
    BY <1>2 DEF Preserves, LedgerInv, TypeOK, NeverOverdrawn, KeysMatchTransactions

LEMMA InitLedgerInv == Init => LedgerInv
  <1> SUFFICES ASSUME Init PROVE LedgerInv
    OBVIOUS
  <1>1. /\ db.transactions = << >>
        /\ db.idempotency = [k \in Keys |-> NoRow]
        /\ db.balance = [a \in Accounts |-> 0]
    BY DEF Init, EmptyDatabase
  <1>2. TypeOK
    BY DEF Init, EmptyDatabase, TypeOK, Database, NoRow
  <1> QED
    BY <1>1, <1>2
       DEF LedgerInv, NeverOverdrawn, Solvent, KeysMatchTransactions, KeysMatch, HasKey

LEMMA NextPreserves == LedgerInv /\ [Next]_vars => Preserves
  <1> SUFFICES ASSUME LedgerInv, [Next]_vars PROVE Preserves
    OBVIOUS
  <1>1. db \in Database /\ \A a \in Accounts : db.balance[a] \in Int /\ db.balance[a] >= 0
    BY DEF LedgerInv, TypeOK, NeverOverdrawn, Solvent, Database
  <1>2. ASSUME NEW a \in Accounts, NEW amount \in Amounts, NEW note \in Notes,
               Grant(a, amount, note)
        PROVE  Preserves
    <2> DEFINE t == Transaction("ADMIN_GRANT", a, amount, NoRequest, note)
    <2>1. amount \in Int /\ amount > 0
      BY AmountsAreCredits
    <2>2. t \in CreditTransaction
      BY <2>1, TransactionTypes
    <2>3. t.type \notin KeyedTypes /\ t.account = a /\ t.amount = amount
      BY DEF Transaction, KeyedTypes
    <2>4. db' = AppendTransaction(db, t)
      BY <1>2 DEF Grant
    <2> HIDE DEF t
    <2> QED
      BY <2>1, <2>2, <2>3, <2>4, <1>1, UnkeyedStep
  <1>3. ASSUME NEW a \in Accounts, NEW r \in Requests, NEW amount \in Amounts,
               NEW note \in Notes, Charge(a, r, amount, note)
        PROVE  Preserves
    <2> DEFINE t == Transaction("USAGE", a, -amount, r, note)
    <2>1. amount \in Int /\ amount > 0
      BY AmountsAreCredits
    <2>2. t \in CreditTransaction
      BY <2>1, TransactionTypes
    <2>3. t.type \in KeyedTypes /\ t.account = a /\ t.amount = -amount
      BY DEF Transaction, KeyedTypes
    <2>4. /\ ~HasKey(db, KeyOf(t))
          /\ db.balance[a] >= amount
          /\ db' = AppendKeyed(db, t)
      BY <1>3 DEF Charge
    <2> HIDE DEF t
    <2> QED
      BY <2>1, <2>2, <2>3, <2>4, <1>1, KeyedStep
  <1>4. ASSUME NEW a \in Accounts, NEW r \in Requests, NEW amount \in Amounts,
               NEW note \in Notes, Refund(a, r, amount, note)
        PROVE  Preserves
    <2> DEFINE t == Transaction("REFUND", a, amount, r, note)
    <2>1. amount \in Int /\ amount > 0
      BY AmountsAreCredits
    <2>2. t \in CreditTransaction
      BY <2>1, TransactionTypes
    <2>3. t.type \in KeyedTypes /\ t.account = a /\ t.amount = amount
      BY DEF Transaction, KeyedTypes
    <2>4. ~HasKey(db, KeyOf(t)) /\ db' = AppendKeyed(db, t)
      BY <1>4 DEF Refund
    <2> HIDE DEF t
    <2> QED
      BY <2>1, <2>2, <2>3, <2>4, <1>1, KeyedStep
  <1>5. ASSUME NEW a \in Accounts, NEW amount \in Deltas, NEW note \in Notes,
               Adjust(a, amount, note)
        PROVE  Preserves
    <2> DEFINE t == Transaction("ADJUSTMENT", a, amount, NoRequest, note)
    <2>1. amount \in Int /\ amount # 0
      BY AmountsAreCredits DEF Deltas
    <2>2. t \in CreditTransaction
      BY <2>1, TransactionTypes
    <2>3. t.type \notin KeyedTypes /\ t.account = a /\ t.amount = amount
      BY DEF Transaction, KeyedTypes
    <2>4. db.balance[a] + amount >= 0 /\ db' = AppendTransaction(db, t)
      BY <1>5 DEF Adjust
    <2> HIDE DEF t
    <2> QED
      BY <2>2, <2>3, <2>4, UnkeyedStep
  <1>6. ASSUME UNCHANGED db
        PROVE  Preserves
    BY <1>6, UnchangedStep
  <1> QED
    BY <1>2, <1>3, <1>4, <1>5, <1>6
       DEF Next, vars, Read, ChargeRefused, Retry, AdjustRefused

THEOREM LedgerInvariant == Spec => []LedgerInv
  <1>1. LedgerInv /\ [Next]_vars => LedgerInv'
    BY NextPreserves DEF Preserves
  <1> QED
    BY <1>1, InitLedgerInv, PTL DEF Spec

\* No interleaving of the ledger's operations overdraws an account.
THEOREM LedgerNeverOverdrawn == Spec => []NeverOverdrawn
  BY LedgerInvariant, PTL DEF LedgerInv

\* A request id is charged at most once and refunded at most once: the
\* idempotency table and the log name each other.
THEOREM LedgerKeysMatch == Spec => []KeysMatchTransactions
  BY LedgerInvariant, PTL DEF LedgerInv

\* The audit log only grows.
THEOREM LedgerAppendOnly == Spec => AppendOnly
  <1>1. LedgerInv /\ [Next]_vars => [Extends(db', db)]_vars
    BY NextPreserves DEF Preserves
  <1> QED
    BY <1>1, LedgerInvariant, PTL DEF Spec, AppendOnly

-----------------------------------------------------------------------------
(* Administrative operations *)

InTransaction == {"body", "audit", "commit", "rollback"}

Posted(k) == AppendTransaction(db, Row(k))

\* What a service found before it inserted anything still holds.
Allowed(k) == audit[k.identity] = Unused /\ Permitted(db, k) /\ HasRoom(db)

HasRecord(k) == audit[k.identity] = Record(k, audit[k.identity].row)

\* The tables with the row of the operation and with its record.
Completed(k) ==
    [db |-> Posted(k),
     audit |-> [audit EXCEPT ![k.identity] =
                    Record(k, Len(Posted(k).transactions))]]

Phase(s) ==
    /\ pc[s] = "body" => image = Tables
    /\ pc[s] = "audit" => /\ Allowed(call[s])
                          /\ image = [db |-> Posted(call[s]), audit |-> audit]
    /\ pc[s] = "commit" =>
         \/ image = Tables /\ HasRecord(call[s])
         \/ image = Completed(call[s]) /\ Allowed(call[s])
    /\ pc[s] = "rollback" => reply[s] # "ok"
    /\ pc[s] = "idle" /\ reply[s] = "ok" => HasRecord(call[s])

\* The tables of the open transaction are the committed ones, changed by the
\* statements the writer has executed; nobody else changes anything meanwhile.
WriterInv ==
    /\ call \in [Services -> Operations]
    /\ pc \in [Services -> {"idle", "begin"} \cup InTransaction]
    /\ reply \in [Services -> {"none", "ok", "conflict", "insufficient", "error"}]
    /\ audit = [i \in Identities |-> audit[i]]
    /\ \A s \in Services : pc[s] \in InTransaction <=> writer = s
    /\ \A s \in Services : Phase(s)

\* Records and unkeyed rows name each other, without cardinalities.
AuditInv ==
    /\ \A i \in Identities : audit[i] # Unused =>
         /\ audit[i].row \in 1..Len(db.transactions)
         /\ db.transactions[audit[i].row] = Row(audit[i])
    /\ \A n \in 1..Len(db.transactions) :
         db.transactions[n].type \notin KeyedTypes =>
             \E i \in Identities : {j \in Identities : audit[j].row = n} = {i}

LEMMA OperationFacts ==
    ASSUME NEW k \in Operations
    PROVE  /\ k.identity \in Identities /\ k.account \in Accounts /\ k.reason \in Notes
           /\ k.type \in {"ADMIN_GRANT", "ADJUSTMENT"}
           /\ k.type = "ADMIN_GRANT" => k.amount \in Amounts
           /\ k.amount \in Deltas /\ k.amount \in Int /\ k.amount # 0
  <1>1. k \in AllOperations
    BY OperationsAreValid
  <1>2. \A m \in Amounts : m \in Deltas
    BY DEF Deltas
  <1>3. \A m \in Deltas : m \in Int /\ m # 0
    BY AmountsAreCredits DEF Deltas
  <1>4. CASE k \in [identity: Identities, account: Accounts, amount: Amounts,
                    reason: Notes, type: {"ADMIN_GRANT"}]
    BY <1>2, <1>3, <1>4
  <1>5. CASE k \in [identity: Identities, account: Accounts, reason: Notes,
                    amount: Amounts \cup {-n : n \in Amounts},
                    type: {"ADJUSTMENT"}]
    <2>1. k.amount \in Deltas
      BY <1>5 DEF Deltas
    <2> QED
      BY <1>3, <1>5, <2>1
  <1> QED
    BY <1>1, <1>4, <1>5 DEF AllOperations

LEMMA RecordIsUsed ==
    ASSUME NEW k, NEW n
    PROVE  Record(k, n) # Unused /\ Record(k, n).row = n
  <1>1. "type" \in DOMAIN Record(k, n)
    BY DEF Record
  <1>2. "type" \notin DOMAIN Unused
    BY DEF Unused
  <1> QED
    BY <1>1, <1>2 DEF Record

\* No record is ever changed.
RecordsStay == \A i \in Identities : audit[i] # Unused => audit'[i] = audit[i]

\* A service outside a transaction is not concerned by what others do.
LEMMA OthersKeepTheirPhase ==
    ASSUME WriterInv, RecordsStay, NEW s \in Services, pc[s] \notin InTransaction,
           call'[s] = call[s], pc'[s] = pc[s], reply'[s] = reply[s]
    PROVE  Phase(s)'
  <1>1. call[s] \in Operations /\ call[s].identity \in Identities
    BY OperationFacts DEF WriterInv
  <1>2. HasRecord(call[s]) => HasRecord(call[s])'
    BY <1>1, RecordIsUsed DEF RecordsStay, HasRecord
  <1>3. Phase(s)
    BY DEF WriterInv
  <1>4. pc[s] = "idle" /\ reply[s] = "ok" => HasRecord(call[s])'
    BY <1>2, <1>3 DEF Phase
  <1> QED
    BY <1>4 DEF Phase, InTransaction

\* One service moves: it keeps its phase, and the writer slot follows it.
Moves(s) ==
    /\ \A t \in Services \ {s} :
         call'[t] = call[t] /\ pc'[t] = pc[t] /\ reply'[t] = reply[t]
    /\ pc[s] \in InTransaction \/ pc'[s] \in InTransaction =>
         writer = s \/ writer = None
    /\ RecordsStay
    /\ Phase(s)'
    /\ call' \in [Services -> Operations]
    /\ pc' \in [Services -> {"idle", "begin"} \cup InTransaction]
    /\ reply' \in [Services -> {"none", "ok", "conflict", "insufficient", "error"}]
    /\ audit' = [i \in Identities |-> audit'[i]]
    /\ pc'[s] \in InTransaction <=> writer' = s

LEMMA OneServiceMoves ==
    ASSUME WriterInv, NEW s \in Services, Moves(s),
           \/ UNCHANGED <<writer, db, audit, image>>
           \/ writer \in {s, None} /\ writer' \in {s, None}
    PROVE  WriterInv'
  <1>1. ASSUME NEW t \in Services, t # s, pc[t] \in InTransaction
        PROVE  UNCHANGED <<writer, db, audit, image>>
    BY <1>1, NoneIsNoService DEF WriterInv
  <1>2. ASSUME NEW t \in Services PROVE pc'[t] \in InTransaction <=> writer' = t
    BY <1>1, NoneIsNoService DEF WriterInv, Moves
  <1>3. ASSUME NEW t \in Services, t # s, pc[t] \in InTransaction PROVE Phase(t)'
    <2>1. /\ UNCHANGED <<writer, db, audit, image>>
          /\ call'[t] = call[t] /\ pc'[t] = pc[t] /\ reply'[t] = reply[t]
      BY <1>1, <1>3 DEF Moves
    <2>2. Phase(t)
      BY DEF WriterInv
    <2> QED
      BY <2>1, <2>2 DEF Phase, Tables, Allowed, Posted, HasRecord, Completed
  <1>4. ASSUME NEW t \in Services PROVE Phase(t)'
    BY <1>3, OthersKeepTheirPhase DEF Moves
  <1> QED
    BY <1>2, <1>4 DEF WriterInv, Moves

LEMMA GotoMoves ==
    ASSUME WriterInv, NEW s \in Services,
           NEW label \in {"idle", "begin"} \cup InTransaction, Goto(s, label)
    PROVE  /\ pc' \in [Services -> {"idle", "begin"} \cup InTransaction]
           /\ pc'[s] = label
           /\ \A t \in Services \ {s} : pc'[t] = pc[t]
  BY DEF WriterInv, Goto

LEMMA AnswerMoves ==
    ASSUME WriterInv, NEW s \in Services,
           NEW outcome \in {"none", "ok", "conflict", "insufficient", "error"},
           Answer(s, outcome)
    PROVE  /\ reply' \in [Services -> {"none", "ok", "conflict", "insufficient", "error"}]
           /\ reply'[s] = outcome
           /\ \A t \in Services \ {s} : reply'[t] = reply[t]
  BY DEF WriterInv, Answer

LEMMA UnchangedAudit ==
    ASSUME WriterInv, UNCHANGED audit
    PROVE  RecordsStay /\ audit' = [i \in Identities |-> audit'[i]]
  BY DEF WriterInv, RecordsStay

LEMMA WriterIs ==
    ASSUME WriterInv, NEW s \in Services
    PROVE  /\ pc[s] \in InTransaction <=> writer = s
           /\ Phase(s)
           /\ call[s] \in Operations
           /\ s # None
  BY NoneIsNoService DEF WriterInv

\* The actions that leave the committed tables alone.
LEMMA CallKeeps ==
    ASSUME WriterInv, NEW s \in Services, NEW k \in Operations, Call(s, k)
    PROVE  WriterInv'
  <1>1. pc'[s] = "begin" /\ reply'[s] = "none" /\ Moves(s)
    <2>1. /\ pc' \in [Services -> {"idle", "begin"} \cup InTransaction]
          /\ pc'[s] = "begin"
          /\ \A t \in Services \ {s} : pc'[t] = pc[t]
      BY GotoMoves DEF Call
    <2>2. /\ reply' \in [Services -> {"none", "ok", "conflict", "insufficient", "error"}]
          /\ reply'[s] = "none"
          /\ \A t \in Services \ {s} : reply'[t] = reply[t]
      BY AnswerMoves DEF Call
    <2>3. /\ call' \in [Services -> Operations]
          /\ \A t \in Services \ {s} : call'[t] = call[t]
      BY DEF Call, WriterInv
    <2>4. pc[s] \notin InTransaction /\ writer # s /\ writer' # s
      BY WriterIs DEF Call, InTransaction
    <2>5. Phase(s)'
      BY <2>1 DEF Phase
    <2> QED
      BY <2>1, <2>2, <2>3, <2>4, <2>5, UnchangedAudit DEF Moves, Call, InTransaction
  <1> QED
    BY <1>1, OneServiceMoves DEF Call

LEMMA BeginKeeps ==
    ASSUME WriterInv, NEW s \in Services, Begin(s)
    PROVE  WriterInv'
  <1>1. /\ pc' \in [Services -> {"idle", "begin"} \cup InTransaction]
        /\ pc'[s] = "body"
        /\ \A t \in Services \ {s} : pc'[t] = pc[t]
    BY GotoMoves DEF Begin, InTransaction
  <1>2. image' = Tables' /\ writer' = s /\ writer = None
    BY DEF Begin, Tables
  <1>3. Phase(s)'
    BY <1>1, <1>2 DEF Phase
  <1>4. call' = call /\ reply' = reply
    BY DEF Begin
  <1>5. Moves(s)
    BY <1>1, <1>2, <1>3, <1>4, UnchangedAudit DEF Moves, Begin, InTransaction, WriterInv
  <1> QED
    BY <1>2, <1>5, OneServiceMoves

\* An answer that leaves the service idle or about to roll back is no "ok".
LEMMA BeginFailsKeeps ==
    ASSUME WriterInv, NEW s \in Services, BeginFails(s)
    PROVE  WriterInv'
  <1>1. /\ pc' \in [Services -> {"idle", "begin"} \cup InTransaction]
        /\ pc'[s] = "idle"
        /\ \A t \in Services \ {s} : pc'[t] = pc[t]
    BY GotoMoves DEF BeginFails
  <1>2. /\ reply' \in [Services -> {"none", "ok", "conflict", "insufficient", "error"}]
        /\ reply'[s] = "error"
        /\ \A t \in Services \ {s} : reply'[t] = reply[t]
    BY AnswerMoves DEF BeginFails
  <1>3. Phase(s)'
    BY <1>1, <1>2 DEF Phase
  <1>4. pc[s] \notin InTransaction /\ writer # s /\ writer' # s
    BY WriterIs DEF BeginFails, InTransaction
  <1>5. call' = call
    BY DEF BeginFails
  <1>6. Moves(s)
    BY <1>1, <1>2, <1>3, <1>4, <1>5, UnchangedAudit
       DEF Moves, BeginFails, InTransaction, WriterInv
  <1> QED
    BY <1>6, OneServiceMoves DEF BeginFails

\* Inside its transaction the writer answers and moves on, or fails.
LEMMA WriterMoves ==
    ASSUME WriterInv, NEW s \in Services, pc[s] \in InTransaction,
           NEW label \in InTransaction, Goto(s, label),
           NEW outcome \in {"none", "ok", "conflict", "insufficient", "error"},
           Answer(s, outcome) \/ reply' = reply,
           UNCHANGED <<db, audit, writer, call>>,
           Phase(s)'
    PROVE  WriterInv'
  <1>1. /\ pc' \in [Services -> {"idle", "begin"} \cup InTransaction]
        /\ pc'[s] = label
        /\ \A t \in Services \ {s} : pc'[t] = pc[t]
    BY GotoMoves
  <1>2. /\ reply' \in [Services -> {"none", "ok", "conflict", "insufficient", "error"}]
        /\ \A t \in Services \ {s} : reply'[t] = reply[t]
    BY AnswerMoves DEF WriterInv
  <1>3. writer = s /\ writer' = s
    BY WriterIs
  <1>4. Moves(s)
    BY <1>1, <1>2, <1>3, UnchangedAudit DEF Moves, WriterInv
  <1> QED
    BY <1>3, <1>4, OneServiceMoves

LEMMA ReplayKeeps ==
    ASSUME WriterInv, NEW s \in Services, ReplayOperation(s)
    PROVE  WriterInv'
  <1> DEFINE k == call[s]
             record == image.audit[k.identity]
  <1>1. pc[s] = "body" /\ pc[s] \in InTransaction
    BY DEF ReplayOperation, InTransaction
  <1>2. image = Tables /\ record = audit[k.identity]
    BY <1>1, WriterIs DEF Phase, Tables
  <1>3. UNCHANGED <<db, audit, writer, image, call>>
    BY DEF ReplayOperation
  <1>4. CASE SameOperation(record, k)
    <2>1. Answer(s, "ok") /\ Goto(s, "commit")
      BY <1>4 DEF ReplayOperation
    <2>2. pc'[s] = "commit"
      BY <2>1, GotoMoves DEF InTransaction
    <2>3. HasRecord(k)
      BY <1>2, <1>4 DEF SameOperation, HasRecord
    <2>4. Phase(s)'
      BY <1>2, <1>3, <2>2, <2>3 DEF Phase, HasRecord, Tables
    <2> QED
      BY <1>1, <1>3, <2>1, <2>4, WriterMoves DEF InTransaction
  <1>5. CASE ~SameOperation(record, k)
    <2>1. Answer(s, "conflict") /\ Goto(s, "rollback")
      BY <1>5 DEF ReplayOperation
    <2>2. pc'[s] = "rollback" /\ reply'[s] = "conflict"
      BY <2>1, GotoMoves, AnswerMoves DEF InTransaction
    <2>3. Phase(s)'
      BY <2>2 DEF Phase
    <2> QED
      BY <1>1, <1>3, <2>1, <2>3, WriterMoves DEF InTransaction
  <1> QED
    BY <1>4, <1>5

LEMMA RefuseKeeps ==
    ASSUME WriterInv, NEW s \in Services, RefuseOperation(s)
    PROVE  WriterInv'
  <1>1. /\ pc[s] \in InTransaction
        /\ Goto(s, "rollback")
        /\ Answer(s, "insufficient") \/ Answer(s, "error")
        /\ UNCHANGED <<db, audit, writer, image, call>>
    BY DEF RefuseOperation, InTransaction
  <1>2. pc'[s] = "rollback" /\ reply'[s] # "ok"
    BY <1>1, GotoMoves, AnswerMoves DEF InTransaction
  <1>3. Phase(s)'
    BY <1>2 DEF Phase
  <1> QED
    BY <1>1, <1>3, WriterMoves DEF InTransaction

LEMMA FailsKeeps ==
    ASSUME WriterInv, NEW s \in Services, TransactionFails(s)
    PROVE  WriterInv'
  <1>1. /\ pc[s] \in InTransaction
        /\ Goto(s, "rollback")
        /\ Answer(s, "error")
        /\ UNCHANGED <<db, audit, writer, image, call>>
    BY DEF TransactionFails, InTransaction
  <1>2. pc'[s] = "rollback" /\ reply'[s] # "ok"
    BY <1>1, GotoMoves, AnswerMoves DEF InTransaction
  <1>3. Phase(s)'
    BY <1>2 DEF Phase
  <1> QED
    BY <1>1, <1>3, WriterMoves DEF InTransaction

LEMMA InsertTransactionKeeps ==
    ASSUME WriterInv, NEW s \in Services, InsertTransaction(s)
    PROVE  WriterInv'
  <1> DEFINE k == call[s]
  <1>1. pc[s] = "body" /\ pc[s] \in InTransaction
    BY DEF InsertTransaction, InTransaction
  <1>2. image = [db |-> db, audit |-> audit]
    BY <1>1, WriterIs DEF Phase, Tables
  <1>3. /\ audit[k.identity] = Unused /\ Permitted(db, k) /\ HasRoom(db)
        /\ image' = [db |-> Posted(k), audit |-> audit]
    BY <1>2 DEF InsertTransaction, Posted
  <1>4. UNCHANGED <<db, audit, writer, call, reply>> /\ Goto(s, "audit")
    BY DEF InsertTransaction
  <1>5. pc'[s] = "audit"
    BY <1>4, GotoMoves DEF InTransaction
  <1>6. Phase(s)'
    BY <1>3, <1>4, <1>5 DEF Phase, Allowed, Posted
  <1> QED
    BY <1>1, <1>4, <1>6, WriterMoves DEF InTransaction

LEMMA InsertRecordKeeps ==
    ASSUME WriterInv, NEW s \in Services, InsertRecord(s)
    PROVE  WriterInv'
  <1> DEFINE k == call[s]
  <1>1. pc[s] = "audit" /\ pc[s] \in InTransaction
    BY DEF InsertRecord, InTransaction
  <1>2. Allowed(k) /\ image = [db |-> Posted(k), audit |-> audit]
    BY <1>1, WriterIs DEF Phase
  <1>3. image' = Completed(k)
    BY <1>2 DEF InsertRecord, Completed
  <1>4. UNCHANGED <<db, audit, writer, call>> /\ Goto(s, "commit") /\ Answer(s, "ok")
    BY DEF InsertRecord
  <1>5. pc'[s] = "commit"
    BY <1>4, GotoMoves DEF InTransaction
  <1>6. Phase(s)'
    BY <1>2, <1>3, <1>4, <1>5 DEF Phase, Allowed, Posted, Completed
  <1> QED
    BY <1>1, <1>4, <1>6, WriterMoves DEF InTransaction

\* A commit publishes nothing, or the operation with its record.
LEMMA CommitPublishes ==
    ASSUME WriterInv, NEW s \in Services, Commit(s)
    PROVE  /\ \/ /\ db' = db /\ audit' = audit /\ HasRecord(call[s])
              \/ /\ Allowed(call[s])
                 /\ db' = Posted(call[s])
                 /\ audit' = [audit EXCEPT ![call[s].identity] =
                                  Record(call[s], Len(Posted(call[s]).transactions))]
           /\ RecordsStay
           /\ audit' = [i \in Identities |-> audit'[i]]
           /\ HasRecord(call[s])'
  <1> DEFINE k == call[s]
             r == Record(k, Len(Posted(k).transactions))
  <1>1. pc[s] = "commit" /\ db' = image.db /\ audit' = image.audit /\ call' = call
    BY DEF Commit
  <1>2. audit = [i \in Identities |-> audit[i]] /\ k.identity \in Identities
    BY WriterIs, OperationFacts DEF WriterInv
  <1>3. CASE image = Tables /\ HasRecord(k)
    <2>1. db' = db /\ audit' = audit /\ HasRecord(k)
      BY <1>1, <1>3 DEF Tables
    <2> QED
      BY <2>1, <1>1, <1>2 DEF RecordsStay, HasRecord
  <1>4. CASE image = Completed(k) /\ Allowed(k)
    <2>1. db' = Posted(k) /\ audit' = [audit EXCEPT ![k.identity] = r]
      BY <1>1, <1>4 DEF Completed
    <2>2. audit'[k.identity] = r
      BY <2>1, <1>2
    <2>3. RecordsStay
      BY <2>1, <1>2, <1>4 DEF RecordsStay, Allowed
    <2>4. HasRecord(k)'
      BY <2>2, <1>1, RecordIsUsed DEF HasRecord
    <2> QED
      BY <2>1, <2>3, <2>4, <1>2, <1>4
  <1> QED
    BY <1>1, <1>3, <1>4, WriterIs DEF Phase

LEMMA CommitKeeps ==
    ASSUME WriterInv, NEW s \in Services, Commit(s)
    PROVE  WriterInv'
  <1>1. /\ pc' \in [Services -> {"idle", "begin"} \cup InTransaction]
        /\ pc'[s] = "idle"
        /\ \A t \in Services \ {s} : pc'[t] = pc[t]
    BY GotoMoves DEF Commit
  <1>2. /\ RecordsStay
        /\ audit' = [i \in Identities |-> audit'[i]]
        /\ HasRecord(call[s])'
    BY CommitPublishes
  <1>3. writer = s /\ writer' = None
    BY WriterIs DEF Commit, InTransaction
  <1>4. call' = call /\ reply' = reply
    BY DEF Commit
  <1>5. Phase(s)'
    BY <1>1, <1>2 DEF Phase
  <1>6. Moves(s)
    BY <1>1, <1>2, <1>3, <1>4, <1>5, NoneIsNoService DEF Moves, WriterInv, InTransaction
  <1> QED
    BY <1>3, <1>6, OneServiceMoves

LEMMA RollbackKeeps ==
    ASSUME WriterInv, NEW s \in Services, Rollback(s)
    PROVE  WriterInv'
  <1>1. /\ pc' \in [Services -> {"idle", "begin"} \cup InTransaction]
        /\ pc'[s] = "idle"
        /\ \A t \in Services \ {s} : pc'[t] = pc[t]
    BY GotoMoves DEF Rollback
  <1>2. writer = s /\ writer' = None
    BY WriterIs DEF Rollback, InTransaction
  <1>3. call' = call /\ reply' = reply
    BY DEF Rollback
  <1>4. reply'[s] # "ok"
    BY <1>3, WriterIs DEF Rollback, Phase
  <1>5. Phase(s)'
    BY <1>1, <1>4 DEF Phase
  <1>6. Moves(s)
    BY <1>1, <1>2, <1>3, <1>5, UnchangedAudit, NoneIsNoService
       DEF Moves, WriterInv, InTransaction, Rollback
  <1> QED
    BY <1>2, <1>6, OneServiceMoves

LEMMA CrashKeeps ==
    ASSUME WriterInv, NEW s \in Services, Crash(s)
    PROVE  WriterInv'
  <1>1. /\ pc' \in [Services -> {"idle", "begin"} \cup InTransaction]
        /\ pc'[s] = "idle"
        /\ \A t \in Services \ {s} : pc'[t] = pc[t]
    BY GotoMoves DEF Crash
  <1>2. /\ reply' \in [Services -> {"none", "ok", "conflict", "insufficient", "error"}]
        /\ reply'[s] = "none"
        /\ \A t \in Services \ {s} : reply'[t] = reply[t]
    BY AnswerMoves DEF Crash
  <1>3. Phase(s)'
    BY <1>1, <1>2 DEF Phase
  <1>4. UNCHANGED <<db, audit, call>>
    BY DEF Crash
  <1>5. CASE writer = s
    <2>1. writer' = None
      BY <1>5 DEF Crash
    <2>2. Moves(s)
      BY <1>1, <1>2, <1>3, <1>4, <1>5, <2>1, UnchangedAudit, NoneIsNoService
         DEF Moves, WriterInv, InTransaction
    <2> QED
      BY <1>5, <2>1, <2>2, OneServiceMoves
  <1>6. CASE writer # s
    <2>1. UNCHANGED <<writer, db, audit, image>>
      BY <1>6 DEF Crash
    <2>2. pc[s] \notin InTransaction
      BY <1>6, WriterIs
    <2>3. Moves(s)
      BY <1>1, <1>2, <1>3, <1>4, <1>6, <2>1, <2>2, UnchangedAudit
         DEF Moves, WriterInv, InTransaction
    <2> QED
      BY <2>1, <2>3, OneServiceMoves
  <1> QED
    BY <1>5, <1>6

LEMMA ExternalKeeps ==
    ASSUME WriterInv, External
    PROVE  WriterInv'
  <1>1. writer = None /\ UNCHANGED <<audit, writer, pc, call, reply>>
    BY DEF External
  <1>2. RecordsStay
    BY <1>1, UnchangedAudit
  <1>3. ASSUME NEW s \in Services PROVE Phase(s)'
    <2>1. pc[s] \notin InTransaction
      BY <1>1, WriterIs
    <2> QED
      BY <1>1, <1>2, <2>1, OthersKeepTheirPhase
  <1> QED
    BY <1>1, <1>3 DEF WriterInv

LEMMA NothingMoves ==
    ASSUME WriterInv, UNCHANGED adminVars
    PROVE  WriterInv'
  BY DEF WriterInv, adminVars, Phase, Tables, Allowed, Posted, HasRecord, Completed

LEMMA AdminStepKeeps == WriterInv /\ [AdminNext]_adminVars => WriterInv'
  <1> SUFFICES ASSUME WriterInv, [AdminNext]_adminVars PROVE WriterInv'
    OBVIOUS
  <1>1. CASE UNCHANGED adminVars
    BY <1>1, NothingMoves
  <1>2. CASE External
    BY <1>2, ExternalKeeps
  <1>3. ASSUME NEW s \in Services, NEW k \in Operations, Call(s, k) PROVE WriterInv'
    BY <1>3, CallKeeps
  <1>4. ASSUME NEW s \in Services, Step(s) PROVE WriterInv'
    BY <1>4, BeginKeeps, BeginFailsKeeps, ReplayKeeps, RefuseKeeps,
       InsertTransactionKeeps, InsertRecordKeeps, FailsKeeps, CommitKeeps,
       RollbackKeeps, CrashKeeps DEF Step
  <1> QED
    BY <1>1, <1>2, <1>3, <1>4 DEF AdminNext

LEMMA AdminInitWriter == AdminInit => WriterInv
  BY NoneIsNoService DEF AdminInit, WriterInv, Phase, InTransaction

LEMMA WriterInvariant == AdminSpec => []WriterInv
  BY AdminInitWriter, AdminStepKeeps, PTL DEF AdminSpec

-----------------------------------------------------------------------------
(* Every step of the services is a step of the ledger *)

LEMMA PostingIsALedgerStep ==
    ASSUME NEW k \in Operations, Allowed(k), db' = Posted(k)
    PROVE  Next
  <1>1. CASE k.type = "ADMIN_GRANT"
    <2>1. Grant(k.account, k.amount, k.reason)
      BY <1>1 DEF Allowed, Posted, Row, Grant
    <2>2. k.account \in Accounts /\ k.amount \in Amounts /\ k.reason \in Notes
      BY <1>1, OperationFacts
    <2> QED
      BY <2>1, <2>2 DEF Next
  <1>2. CASE k.type = "ADJUSTMENT"
    <2>1. Adjust(k.account, k.amount, k.reason)
      BY <1>2 DEF Allowed, Posted, Row, Adjust, Permitted
    <2>2. k.account \in Accounts /\ k.amount \in Deltas /\ k.reason \in Notes
      BY OperationFacts
    <2> QED
      BY <2>1, <2>2 DEF Next
  <1> QED
    BY <1>1, <1>2, OperationFacts

\* Which steps change the committed tables, and how.
LEMMA TablesChange ==
    ASSUME WriterInv, [AdminNext]_adminVars
    PROVE  \/ db' = db /\ audit' = audit
           \/ \E s \in Services :
                /\ Allowed(call[s])
                /\ db' = Posted(call[s])
                /\ audit' = [audit EXCEPT ![call[s].identity] =
                                 Record(call[s], Len(Posted(call[s]).transactions))]
           \/ /\ audit' = audit
              /\ \E a \in Accounts, r \in Requests, amount \in Amounts, note \in Notes :
                   \/ Charge(a, r, amount, note) /\ Readable(db, a)
                   \/ Refund(a, r, amount, note)
  <1>1. CASE UNCHANGED adminVars
    BY <1>1 DEF adminVars
  <1>2. CASE External
    BY <1>2 DEF External
  <1>3. ASSUME NEW s \in Services, NEW k \in Operations, Call(s, k)
        PROVE  db' = db /\ audit' = audit
    BY <1>3 DEF Call
  <1>4. ASSUME NEW s \in Services, Step(s), ~Commit(s)
        PROVE  db' = db /\ audit' = audit
    BY <1>4 DEF Step, Begin, BeginFails, ReplayOperation, RefuseOperation,
       InsertTransaction, InsertRecord, TransactionFails, Rollback, Crash
  <1> QED
    BY <1>1, <1>2, <1>3, <1>4, CommitPublishes DEF AdminNext

LEMMA AdminStepIsLedgerStep == WriterInv /\ [AdminNext]_adminVars => [Next]_vars
  <1> SUFFICES ASSUME WriterInv, [AdminNext]_adminVars PROVE [Next]_vars
    OBVIOUS
  <1>1. ASSUME NEW s \in Services, Allowed(call[s]), db' = Posted(call[s]) PROVE Next
    BY <1>1, WriterIs, PostingIsALedgerStep
  <1>2. ASSUME NEW a \in Accounts, NEW r \in Requests, NEW amount \in Amounts,
               NEW note \in Notes,
               Charge(a, r, amount, note) \/ Refund(a, r, amount, note)
        PROVE  Next
    BY <1>2 DEF Next
  <1> QED
    BY <1>1, <1>2, TablesChange DEF vars

\* The administrative services, in any number and interleaving, with crashes
\* and failed statements, and the code beside them keep the ledger's contract.
THEOREM AdminImplementsLedger == AdminSpec => ImplementsLedger
  <1>1. AdminInit => Init
    BY DEF AdminInit
  <1> QED
    BY <1>1, WriterInvariant, AdminStepIsLedgerStep, PTL
       DEF AdminSpec, ImplementsLedger, Spec

-----------------------------------------------------------------------------
(* The ledger and the audit *)

LEMMA RowOfOperation ==
    ASSUME NEW k \in Operations
    PROVE  /\ Row(k) \in CreditTransaction
           /\ Row(k).type \notin KeyedTypes
           /\ Row(k).account = k.account /\ Row(k).amount = k.amount
           /\ \A n : Row(Record(k, n)) = Row(k)
  <1>1. /\ k.account \in Accounts /\ k.reason \in Notes
        /\ k.type \in {"ADMIN_GRANT", "ADJUSTMENT"}
        /\ k.type = "ADMIN_GRANT" => k.amount \in Amounts
        /\ k.amount \in Int /\ k.amount # 0
    BY OperationFacts
  <1>2. Row(k) \in CreditTransaction
    BY <1>1, TransactionTypes DEF Row
  <1> QED
    BY <1>1, <1>2 DEF Row, Record, Transaction, KeyedTypes

\* A row is added at the end.
Appended(t) ==
    /\ Len(db'.transactions) = Len(db.transactions) + 1
    /\ \A n \in 1..Len(db.transactions) : db'.transactions[n] = db.transactions[n]
    /\ db'.transactions[Len(db.transactions) + 1] = t

LEMMA PostedRow ==
    ASSUME db \in Database, NEW k \in Operations, db' = Posted(k)
    PROVE  /\ Appended(Row(k))
           /\ Len(Posted(k).transactions) = Len(db.transactions) + 1
           /\ db'.balance[k.account] = db.balance[k.account] + k.amount
           /\ \A a \in Accounts \ {k.account} : db'.balance[a] = db.balance[a]
  <1>1. Row(k) \in CreditTransaction /\ Row(k).account = k.account /\ Row(k).amount = k.amount
    BY RowOfOperation
  <1> QED
    BY <1>1, AppendTransactionTypes DEF Posted, Appended

LEMMA KeyedRow ==
    ASSUME db \in Database, NEW t \in CreditTransaction, db' = AppendKeyed(db, t)
    PROVE  /\ Appended(t)
           /\ db'.balance[t.account] = db.balance[t.account] + t.amount
           /\ \A a \in Accounts \ {t.account} : db'.balance[a] = db.balance[a]
  <1> DEFINE b == AppendTransaction(db, t)
  <1>1. /\ Len(b.transactions) = Len(db.transactions) + 1
        /\ \A n \in 1..Len(db.transactions) : b.transactions[n] = db.transactions[n]
        /\ b.transactions[Len(db.transactions) + 1] = t
        /\ b.balance[t.account] = db.balance[t.account] + t.amount
        /\ \A a \in Accounts \ {t.account} : b.balance[a] = db.balance[a]
    BY AppendTransactionTypes
  <1>2. db'.transactions = b.transactions /\ db'.balance = b.balance
    BY DEF AppendKeyed, AppendIdempotencyRecord
  <1> HIDE DEF b
  <1> QED
    BY <1>1, <1>2 DEF Appended

\* What server code writes beside the services: a keyed row, and a debit only
\* of an account that can be read.
LEMMA ExternalRow ==
    ASSUME db \in Database,
           NEW a \in Accounts, NEW r \in Requests, NEW amount \in Amounts,
           NEW note \in Notes,
           \/ Charge(a, r, amount, note) /\ Readable(db, a)
           \/ Refund(a, r, amount, note)
    PROVE  /\ \E t \in CreditTransaction : t.type \in KeyedTypes /\ Appended(t)
           /\ \A b \in Accounts : ~Readable(db, b) => db'.balance[b] >= db.balance[b]
  <1>1. amount \in Nat /\ amount > 0 /\ \A b \in Accounts : db.balance[b] \in Int
    BY AmountsAreCredits DEF Database
  <1>2. CASE Charge(a, r, amount, note) /\ Readable(db, a)
    <2> DEFINE t == Transaction("USAGE", a, -amount, r, note)
    <2>1. t \in CreditTransaction
      BY <1>1, TransactionTypes
    <2>2. t.type \in KeyedTypes /\ t.account = a
      BY DEF Transaction, KeyedTypes
    <2>3. db' = AppendKeyed(db, t)
      BY <1>2 DEF Charge
    <2> HIDE DEF t
    <2>4. Appended(t) /\ \A b \in Accounts \ {a} : db'.balance[b] = db.balance[b]
      BY <2>1, <2>2, <2>3, KeyedRow
    <2> QED
      BY <1>1, <1>2, <2>1, <2>2, <2>4
  <1>3. CASE Refund(a, r, amount, note)
    <2> DEFINE t == Transaction("REFUND", a, amount, r, note)
    <2>1. t \in CreditTransaction
      BY <1>1, TransactionTypes
    <2>2. t.type \in KeyedTypes /\ t.account = a /\ t.amount = amount
      BY DEF Transaction, KeyedTypes
    <2>3. db' = AppendKeyed(db, t)
      BY <1>3 DEF Refund
    <2> HIDE DEF t
    <2>4. /\ Appended(t)
          /\ db'.balance[a] = db.balance[a] + amount
          /\ \A b \in Accounts \ {a} : db'.balance[b] = db.balance[b]
      BY <2>1, <2>2, <2>3, KeyedRow
    <2> QED
      BY <1>1, <2>1, <2>2, <2>4
  <1> QED
    BY <1>2, <1>3

LEMMA OverflowStep ==
    ASSUME LedgerInv, WriterInv, [AdminNext]_adminVars, NEW a \in Accounts,
           ~Readable(db, a)
    PROVE  db'.balance[a] >= db.balance[a]
  <1>1. db \in Database /\ db.balance[a] \in Int
    BY DEF LedgerInv, TypeOK, Database
  <1>2. ASSUME NEW s \in Services, Allowed(call[s]), db' = Posted(call[s])
        PROVE  db'.balance[a] >= db.balance[a]
    <2>1. call[s] \in Operations
      BY WriterIs
    <2>2. CASE a # call[s].account
      BY <1>1, <1>2, <2>1, <2>2, PostedRow
    <2>3. CASE a = call[s].account
      <3>1. call[s].type = "ADMIN_GRANT"
        BY <1>2, <2>1, <2>3, OperationFacts DEF Allowed, Permitted
      <3>2. call[s].amount \in Nat
        BY <2>1, <3>1, OperationFacts, AmountsAreCredits
      <3>3. db'.balance[a] = db.balance[a] + call[s].amount
        BY <1>1, <1>2, <2>1, <2>3, PostedRow
      <3> QED
        BY <1>1, <3>2, <3>3
    <2> QED
      BY <2>2, <2>3
  <1> QED
    BY <1>1, <1>2, TablesChange, ExternalRow

\* Once an account's sum is beyond the 64-bit range no step lowers it, whatever
\* the amounts and however the services and other code interleave.
THEOREM OverflowStaysOneWay == AdminSpec => OverflowIsOneWay
  <1>1. LedgerInv /\ WriterInv /\ [AdminNext]_adminVars =>
            [\A a \in Accounts :
                 ~Readable(db, a) => db'.balance[a] >= db.balance[a]]_adminVars
    BY OverflowStep
  <1>2. Spec => []LedgerInv
    BY LedgerInvariant
  <1>3. AdminSpec => Spec
    BY AdminImplementsLedger DEF ImplementsLedger
  <1> QED
    BY <1>1, <1>2, <1>3, WriterInvariant, PTL DEF AdminSpec, OverflowIsOneWay

LEMMA KeyedRowKeepsAudit ==
    ASSUME AuditInv, Len(db.transactions) \in Nat, UNCHANGED audit,
           NEW t, t.type \in KeyedTypes, Appended(t)
    PROVE  AuditInv'
  <1>1. ASSUME NEW i \in Identities, audit[i] # Unused
        PROVE  /\ audit[i].row \in 1..Len(db'.transactions)
               /\ db'.transactions[audit[i].row] = Row(audit[i])
    BY <1>1 DEF AuditInv, Appended
  <1>2. ASSUME NEW n \in 1..Len(db'.transactions),
               db'.transactions[n].type \notin KeyedTypes
        PROVE  \E i \in Identities : {j \in Identities : audit[j].row = n} = {i}
    <2>1. n \in 1..Len(db.transactions) /\ db'.transactions[n] = db.transactions[n]
      BY <1>2 DEF Appended
    <2> QED
      BY <1>2, <2>1 DEF AuditInv
  <1> QED
    BY <1>1, <1>2 DEF AuditInv

LEMMA PostingKeepsAudit ==
    ASSUME AuditInv, WriterInv, Len(db.transactions) \in Nat,
           NEW k \in Operations, Allowed(k), Appended(Row(k)),
           audit' = [audit EXCEPT ![k.identity] = Record(k, Len(db.transactions) + 1)]
    PROVE  AuditInv'
  <1> DEFINE id == k.identity
             L == Len(db.transactions)
  <1>1. /\ id \in Identities
        /\ audit[id] = Unused
        /\ audit'[id] = Record(k, L + 1)
        /\ \A i \in Identities \ {id} : audit'[i] = audit[i]
    BY OperationFacts DEF WriterInv, Allowed
  <1>2. /\ audit'[id].row = L + 1
        /\ audit[id].row = 0
        /\ Row(audit'[id]) = Row(k)
    BY <1>1, RecordIsUsed, RowOfOperation DEF Unused, NoRow
  <1>3. \A i \in Identities : audit[i].row \in 0..L
    BY <1>2 DEF AuditInv, Unused, NoRow
  <1>4. ASSUME NEW i \in Identities, audit'[i] # Unused
        PROVE  /\ audit'[i].row \in 1..Len(db'.transactions)
               /\ db'.transactions[audit'[i].row] = Row(audit'[i])
    <2>1. CASE i = id
      BY <2>1, <1>1, <1>2 DEF Appended
    <2>2. CASE i # id
      <3>1. audit'[i] = audit[i]
        BY <1>1, <2>2
      <3>2. audit[i].row \in 1..L /\ db.transactions[audit[i].row] = Row(audit[i])
        BY <1>4, <3>1 DEF AuditInv
      <3> QED
        BY <3>1, <3>2 DEF Appended
    <2> QED
      BY <2>1, <2>2
  <1>5. ASSUME NEW n \in 1..Len(db'.transactions),
               db'.transactions[n].type \notin KeyedTypes
        PROVE  \E i \in Identities : {j \in Identities : audit'[j].row = n} = {i}
    <2>1. CASE n = L + 1
      <3>1. \A j \in Identities : audit'[j].row = n <=> j = id
        BY <2>1, <1>1, <1>2, <1>3
      <3> QED
        BY <3>1, <1>1
    <2>2. CASE n # L + 1
      <3>1. n \in 1..L /\ db'.transactions[n] = db.transactions[n]
        BY <2>2 DEF Appended
      <3>2. \A j \in Identities : audit'[j].row = n <=> audit[j].row = n
        BY <3>1, <1>1, <1>2
      <3>3. PICK i \in Identities : {j \in Identities : audit[j].row = n} = {i}
        BY <1>5, <3>1 DEF AuditInv
      <3>4. {j \in Identities : audit'[j].row = n} = {i}
        BY <3>2, <3>3
      <3> QED
        BY <3>4
    <2> QED
      BY <2>1, <2>2
  <1> QED
    BY <1>4, <1>5 DEF AuditInv

LEMMA AuditStep == LedgerInv /\ WriterInv /\ AuditInv /\ [AdminNext]_adminVars => AuditInv'
  <1> SUFFICES ASSUME LedgerInv, WriterInv, AuditInv, [AdminNext]_adminVars
               PROVE  AuditInv'
    OBVIOUS
  <1>1. db \in Database /\ Len(db.transactions) \in Nat
    BY DEF LedgerInv, TypeOK, Database
  <1>2. CASE db' = db /\ audit' = audit
    BY <1>2 DEF AuditInv
  <1>3. ASSUME NEW s \in Services, Allowed(call[s]), db' = Posted(call[s]),
               audit' = [audit EXCEPT ![call[s].identity] =
                             Record(call[s], Len(Posted(call[s]).transactions))]
        PROVE  AuditInv'
    <2>1. call[s] \in Operations
      BY WriterIs
    <2>2. /\ Appended(Row(call[s]))
          /\ Len(Posted(call[s]).transactions) = Len(db.transactions) + 1
      BY <1>1, <1>3, <2>1, PostedRow
    <2> QED
      BY <1>1, <1>3, <2>1, <2>2, PostingKeepsAudit
  <1>4. ASSUME audit' = audit, NEW a \in Accounts, NEW r \in Requests,
               NEW amount \in Amounts, NEW note \in Notes,
               \/ Charge(a, r, amount, note) /\ Readable(db, a)
               \/ Refund(a, r, amount, note)
        PROVE  AuditInv'
    BY <1>1, <1>4, ExternalRow, KeyedRowKeepsAudit
  <1> QED
    BY <1>2, <1>3, <1>4, TablesChange

LEMMA AdminInitAudit == AdminInit => AuditInv
  <1> SUFFICES ASSUME AdminInit PROVE AuditInv
    OBVIOUS
  <1>1. db.transactions = << >> /\ \A i \in Identities : audit[i] = Unused
    BY DEF AdminInit, Init, EmptyDatabase
  <1> QED
    BY <1>1 DEF AuditInv

\* The administrative rows and the audit records correspond one to one at every
\* instant, for any services, identities, operations and crashes.
THEOREM LedgerMatchesAudit == AdminSpec => []AuditMatchesLedger
  <1>1. AuditInv => AuditMatchesLedger
    <2>1. \A i \in Identities : Cardinality({i}) = 1
      BY FS_Singleton
    <2> QED
      BY <2>1 DEF AuditInv, AuditMatchesLedger
  <1>2. Spec => []LedgerInv
    BY LedgerInvariant
  <1>3. AdminSpec => Spec
    BY AdminImplementsLedger DEF ImplementsLedger
  <1> QED
    BY <1>1, <1>2, <1>3, WriterInvariant, AuditStep, AdminInitAudit, PTL DEF AdminSpec

\* An answered operation has its record in the committed audit, whatever the
\* service or another one does afterwards.
THEOREM AnswersAreAudited == AdminSpec => []AnsweredIsAudited
  <1>1. WriterInv => AnsweredIsAudited
    BY DEF WriterInv, Phase, HasRecord, AnsweredIsAudited
  <1> QED
    BY <1>1, WriterInvariant, PTL
=============================================================================
