--------------------------- MODULE ManagedAccess ---------------------------
(***************************************************************************)
(* ManagedAccessService.invoke on a database that other services share.     *)
(* A caller is one thread inside invoke, in any service process.  Each      *)
(* write transaction of the code is one step here (SqliteLedger shows that  *)
(* such a transaction is atomic); other callers, the other clients of the   *)
(* ledger, database failures and crashes come between the steps.            *)
(*                                                                          *)
(* A payload stands for all that payload_hash covers: model, prompt,        *)
(* pricing context, policy and reserved credits.                            *)
(***************************************************************************)
EXTENDS CreditDomain, FiniteSetsExt

CONSTANTS
    Callers,
    Payloads,
    Reservation,  \* payload -> credits that its policy reserves
    NoPayload,
    ManagedNote   \* _USAGE_NOTE

ASSUME ReservationsArePositive == Reservation \in [Payloads -> Nat \ {0}]
ASSUME PayloadsAreReal == NoPayload \notin Payloads
ASSUME NoteIsANote == ManagedNote \in Notes

VARIABLES
    db,             \* credit_transactions and credit_idempotency
    requests,       \* managed_requests
    usage,          \* managed_usage.final_credits, NoUsage without a row
    providerCalls,  \* how often the provider was called for an identity
    pc,
    call,           \* the identity and payload each caller invokes with
    actual,         \* the credits it priced the provider's usage at
    outcome         \* what its invoke returned or raised

vars == <<db, requests, usage, providerCalls, pc, call, actual, outcome>>
serviceVars == <<requests, usage, providerCalls, pc, call, actual, outcome>>

Identities == Accounts \X Requests
NoUsage == -1
NoCall == [id |-> << >>, payload |-> NoPayload]
Absent == [status |-> "ABSENT", payload |-> NoPayload]

Holding == {"RESERVED", "FINALIZATION_FAILED"}

\* SELECT SUM(reserved_credits) ... status IN (RESERVED, FINALIZATION_FAILED).
Held(a) ==
    MapThenSumSet(LAMBDA i : Reservation[requests[i].payload],
                  {i \in Identities : i[1] = a /\ requests[i].status \in Holding})

UsageKey(i) == <<"USAGE", i[1], i[2]>>

Init ==
    /\ db = EmptyDatabase
    /\ requests = [i \in Identities |-> Absent]
    /\ usage = [i \in Identities |-> NoUsage]
    /\ providerCalls = [i \in Identities |-> 0]
    /\ pc = [c \in Callers |-> "idle"]
    /\ call = [c \in Callers |-> NoCall]
    /\ actual = [c \in Callers |-> 0]
    /\ outcome = [c \in Callers |-> "none"]

Goto(c, label) == pc' = [pc EXCEPT ![c] = label]

\* invoke returns or raises.
Finish(c, result) ==
    /\ Goto(c, "idle")
    /\ outcome' = [outcome EXCEPT ![c] = result]

\* invoke raises, and says nothing of a stored request that a later call
\* could contradict.
Reject(c) ==
    /\ Finish(c, "rejected")
    /\ call' = [call EXCEPT ![c] = NoCall]
    /\ UNCHANGED <<db, requests, usage, providerCalls, actual>>

Invoke(c, i, p) ==
    /\ pc[c] = "idle"
    /\ Goto(c, "reserve")
    /\ call' = [call EXCEPT ![c] = [id |-> i, payload |-> p]]
    /\ actual' = [actual EXCEPT ![c] = 0]
    /\ outcome' = [outcome EXCEPT ![c] = "none"]
    /\ UNCHANGED <<db, requests, usage, providerCalls>>

-----------------------------------------------------------------------------
(* _reserve and _replay *)

\* What _replay answers for a row in each status.
ReplayOutcome ==
    [RESERVED |-> "recovery_required", SUCCEEDED |-> "replayed",
     FAILED |-> "request_failed", FINALIZATION_FAILED |-> "finalization_error"]

\* Fault: a retry of a RESERVED request takes it up again.
ReplayResumes(c) ==
    LET row == requests[call[c].id] IN
    /\ pc[c] = "reserve"
    /\ row.status = "RESERVED"
    /\ Goto(c, "reserved")
    /\ UNCHANGED <<db, requests, usage, providerCalls, call, actual, outcome>>

Replay(c) ==
    LET row == requests[call[c].id] IN
    /\ pc[c] = "reserve"
    /\ row # Absent
    /\ row.payload = call[c].payload
    /\ Finish(c, ReplayOutcome[row.status])
    /\ actual' = [actual EXCEPT ![c] =
           IF row.status = "SUCCEEDED" THEN usage[call[c].id] ELSE 0]
    /\ UNCHANGED <<db, requests, usage, providerCalls, call>>

\* The identity is in use for another payload: IdempotencyConflictError.
ReplayConflict(c) ==
    LET row == requests[call[c].id] IN
    /\ pc[c] = "reserve"
    /\ row # Absent
    /\ row.payload # call[c].payload
    /\ Reject(c)

\* Credits left once active reservations are set aside.
Available(a) == db.balance[a] - Held(a)

\* Fault: reservations of other requests are not set aside.
ReserveFromBalance(c) ==
    LET i == call[c].id IN
    /\ pc[c] = "reserve"
    /\ requests[i] = Absent
    /\ db.balance[i[1]] >= Reservation[call[c].payload]
    /\ requests' = [requests EXCEPT ![i] =
           [status |-> "RESERVED", payload |-> call[c].payload]]
    /\ Goto(c, "reserved")
    /\ UNCHANGED <<db, usage, providerCalls, call, actual, outcome>>

\* Fault: a RESERVED row is replaced by a reservation of the new payload.
ReserveTakesOver(c) ==
    LET i == call[c].id IN
    /\ pc[c] = "reserve"
    /\ requests[i].status \in {"ABSENT", "RESERVED"}
    /\ Available(i[1]) >= Reservation[call[c].payload]
    /\ requests' = [requests EXCEPT ![i] =
           [status |-> "RESERVED", payload |-> call[c].payload]]
    /\ Goto(c, "reserved")
    /\ UNCHANGED <<db, usage, providerCalls, call, actual, outcome>>

Reserve(c) ==
    LET i == call[c].id IN
    /\ pc[c] = "reserve"
    /\ requests[i] = Absent
    /\ Available(i[1]) >= Reservation[call[c].payload]
    /\ requests' = [requests EXCEPT ![i] =
           [status |-> "RESERVED", payload |-> call[c].payload]]
    /\ Goto(c, "reserved")
    /\ UNCHANGED <<db, usage, providerCalls, call, actual, outcome>>

ReserveRefused(c) ==
    LET i == call[c].id IN
    /\ pc[c] = "reserve"
    /\ requests[i] = Absent
    /\ Available(i[1]) < Reservation[call[c].payload]
    /\ Reject(c)  \* InsufficientCreditsError

\* The transaction raises before or at its commit and is rolled back.
ReserveFails(c) ==
    /\ pc[c] = "reserve"
    /\ Reject(c)

\* Fault: the request is given up as if the provider had failed.
InterruptedMarksFailed(c) ==
    /\ pc[c] = "reserved"
    /\ requests' = [requests EXCEPT ![call[c].id].status = "FAILED"]
    /\ Finish(c, "request_failed")
    /\ UNCHANGED <<db, usage, providerCalls, call, actual>>

\* An exception between the committed reservation and the provider call.
InterruptedAfterReserve(c) ==
    /\ pc[c] = "reserved"
    /\ Finish(c, "recovery_required")
    /\ UNCHANGED <<db, requests, usage, providerCalls, call, actual>>

-----------------------------------------------------------------------------
(* The provider and its usage *)

CallProvider(c) ==
    /\ pc[c] = "reserved"
    /\ providerCalls' = [providerCalls EXCEPT ![call[c].id] = @ + 1]
    /\ Goto(c, "provider")
    /\ UNCHANGED <<db, requests, usage, call, actual, outcome>>

ProviderFails(c) ==
    /\ pc[c] = "provider"
    /\ Goto(c, "mark_failed")
    /\ UNCHANGED <<db, requests, usage, providerCalls, call, actual, outcome>>

\* price_usage returns a price within the reservation ...
ProviderSucceeds(c) ==
    /\ pc[c] = "provider"
    /\ \E credits \in 0..Reservation[call[c].payload] :
         actual' = [actual EXCEPT ![c] = credits]
    /\ Goto(c, "finalize")
    /\ UNCHANGED <<db, requests, usage, providerCalls, call, outcome>>

\* ... or the usage is malformed, over its limits or priced above it.
UsageRejected(c) ==
    /\ pc[c] = "provider"
    /\ Goto(c, "mark_finalization_failed")
    /\ UNCHANGED <<db, requests, usage, providerCalls, call, actual, outcome>>

-----------------------------------------------------------------------------
(* The transactions that close a request *)

\* UPDATE managed_requests ... WHERE status = RESERVED, one row.
SetStatus(i, status) ==
    /\ requests[i].status = "RESERVED"
    /\ requests' = [requests EXCEPT ![i].status = status]

MarkProviderFailed(c) ==
    /\ pc[c] = "mark_failed"
    /\ SetStatus(call[c].id, "FAILED")
    /\ Finish(c, "provider_error")
    /\ UNCHANGED <<db, usage, providerCalls, call, actual>>

MarkProviderFailedFails(c) ==
    /\ pc[c] = "mark_failed"
    /\ Finish(c, "recovery_required")
    /\ UNCHANGED <<db, requests, usage, providerCalls, call, actual>>

\* Fault: the usage is recorded without its sign.
UnsignedChargeRow(c) ==
    Transaction("USAGE", call[c].id[1], actual[c], call[c].id[2], ManagedNote)

ChargeRow(c) ==
    Transaction("USAGE", call[c].id[1], -actual[c], call[c].id[2], ManagedNote)

\* Fault: any charge with the identity is adopted.
ChargeUsageAdoptsAny(c) ==
    LET t == ChargeRow(c) IN
    \/ /\ ~HasKey(db, KeyOf(t))
       /\ db.balance[t.account] >= actual[c]
       /\ HasRoom(db)
       /\ db' = AppendKeyed(db, t)
    \/ /\ HasKey(db, KeyOf(t))
       /\ UNCHANGED db

\* The USAGE row of a request that cost something: appended now, or adopted
\* when an equal charge with this identity is already in the ledger.
ChargeUsage(c) ==
    LET t == ChargeRow(c) IN
    \/ /\ ~HasKey(db, KeyOf(t))
       /\ db.balance[t.account] >= actual[c]
       /\ HasRoom(db)
       /\ db' = AppendKeyed(db, t)
    \/ /\ HasKey(db, KeyOf(t))
       /\ SamePayload(Existing(db, KeyOf(t)), t)
       /\ UNCHANGED db

FinalizeSuccess(c) ==
    LET i == call[c].id IN
    /\ pc[c] = "finalize"
    /\ actual[c] <= Reservation[requests[i].payload]
    /\ IF actual[c] = 0
       THEN ~HasKey(db, UsageKey(i)) /\ UNCHANGED db
       ELSE ChargeUsage(c)
    /\ SetStatus(i, "SUCCEEDED")
    /\ usage' = [usage EXCEPT ![i] = actual[c]]
    /\ Finish(c, "succeeded")
    /\ UNCHANGED <<providerCalls, call, actual>>

\* Fault: the content is returned although nothing was accounted for.
FinalizeFailsSilently(c) ==
    /\ pc[c] = "finalize"
    /\ Finish(c, "succeeded")
    /\ UNCHANGED <<db, requests, usage, providerCalls, call, actual>>

\* Any statement or the commit raises: nothing of the transaction remains.
FinalizeFails(c) ==
    /\ pc[c] = "finalize"
    /\ Goto(c, "mark_finalization_failed")
    /\ actual' = [actual EXCEPT ![c] = 0]
    /\ UNCHANGED <<db, requests, usage, providerCalls, call, outcome>>

MarkFinalizationFailed(c) ==
    /\ pc[c] = "mark_finalization_failed"
    /\ SetStatus(call[c].id, "FINALIZATION_FAILED")
    /\ Finish(c, "finalization_error")
    /\ UNCHANGED <<db, usage, providerCalls, call, actual>>

MarkFinalizationFailedFails(c) ==
    /\ pc[c] = "mark_finalization_failed"
    /\ Finish(c, "finalization_error")
    /\ UNCHANGED <<db, requests, usage, providerCalls, call, actual>>

-----------------------------------------------------------------------------
\* The caller's process dies, or a BaseException unwinds invoke: no handler
\* of the service runs, and the call is forgotten.
Crash(c) ==
    /\ pc[c] # "idle"
    /\ Finish(c, "none")
    /\ call' = [call EXCEPT ![c] = NoCall]
    /\ actual' = [actual EXCEPT ![c] = 0]
    /\ UNCHANGED <<db, requests, usage, providerCalls>>

Ledger == INSTANCE CreditLedger

\* The ledger's other clients: administrators, and server code that charges
\* or refunds directly.
External ==
    /\ \E a \in Accounts, amount \in Amounts, note \in Notes :
         \/ Ledger!Grant(a, amount, note)
         \/ Ledger!Adjust(a, -amount, note)
         \/ \E r \in Requests : \/ Ledger!Charge(a, r, amount, note)
                                \/ Ledger!Refund(a, r, amount, note)
    /\ UNCHANGED serviceVars

Step(c) ==
    \/ Replay(c) \/ ReplayConflict(c)
    \/ Reserve(c) \/ ReserveRefused(c) \/ ReserveFails(c)
    \/ InterruptedAfterReserve(c) \/ CallProvider(c)
    \/ ProviderFails(c) \/ ProviderSucceeds(c) \/ UsageRejected(c)
    \/ MarkProviderFailed(c) \/ MarkProviderFailedFails(c)
    \/ FinalizeSuccess(c) \/ FinalizeFails(c)
    \/ MarkFinalizationFailed(c) \/ MarkFinalizationFailedFails(c)

Next ==
    \/ \E c \in Callers :
         \/ \E i \in Identities, p \in Payloads : Invoke(c, i, p)
         \/ Step(c)
         \/ Crash(c)
    \/ External

Spec == Init /\ [][Next]_vars
-----------------------------------------------------------------------------
PCs == {"idle", "reserve", "reserved", "provider", "finalize", "mark_failed",
        "mark_finalization_failed"}

Outcomes == {"none", "rejected", "replayed", "recovery_required",
             "request_failed", "finalization_error", "provider_error",
             "succeeded"}

Statuses == {"RESERVED", "SUCCEEDED", "FAILED", "FINALIZATION_FAILED"}

TypeOK ==
    /\ db \in Database
    /\ requests \in [Identities ->
           [status: Statuses, payload: Payloads] \cup {Absent}]
    /\ usage \in [Identities -> Nat \cup {NoUsage}]
    /\ providerCalls \in [Identities -> Nat]
    /\ pc \in [Callers -> PCs]
    /\ call \in [Callers ->
           [id: Identities, payload: Payloads] \cup {NoCall}]
    /\ actual \in [Callers -> Nat]
    /\ outcome \in [Callers -> Outcomes]

\* Past the reservation, a caller is the one that created the request.
Owns(c, i) == pc[c] \notin {"idle", "reserve"} /\ call[c].id = i

\* Whatever is retried, raced or interrupted, the provider sees one request
\* identity at most once: a reservation outlives the caller that made it.
ProviderCalledAtMostOnce ==
    \A i \in Identities : providerCalls[i] <= 1

\* A request has succeeded exactly when its usage is recorded, the recorded
\* credits are within the reservation, and a non-zero cost is the one charge
\* of that identity in the ledger.
ChargeBacksSuccess ==
    \A i \in Identities :
        LET row == requests[i] IN
        /\ row.status = "SUCCEEDED" <=> usage[i] # NoUsage
        /\ row.status = "SUCCEEDED" => usage[i] <= Reservation[row.payload]
        /\ usage[i] > 0 =>
             /\ HasKey(db, UsageKey(i))
             /\ Existing(db, UsageKey(i)).amount = -usage[i]

\* A debit that no successful managed request accounts for.
OutsideDebit(a) ==
    \E n \in 1..Len(db.transactions) :
        LET t == db.transactions[n] IN
        /\ t.account = a
        /\ t.amount < 0
        /\ t.type = "USAGE" => usage[<<a, t.request>>] # -t.amount

\* While only managed requests debit an account, its balance covers every
\* active reservation: concurrent requests cannot overspend it, and none can
\* find the balance short when it is finalized.
ReservationsAreCovered ==
    \A a \in Accounts : OutsideDebit(a) \/ Available(a) >= 0

\* What invoke told its caller is what the database holds from then on.
OutcomesAreTruthful ==
    \A c \in Callers :
        LET i == call[c].id
            status == requests[i].status
        IN  pc[c] = "idle" =>
              /\ outcome[c] \in {"succeeded", "replayed"} =>
                     status = "SUCCEEDED" /\ usage[i] = actual[c]
              /\ outcome[c] \in {"provider_error", "request_failed"} =>
                     status = "FAILED"
              /\ outcome[c] = "finalization_error" => status \in Holding
              /\ outcome[c] = "recovery_required" => status # "ABSENT"

\* A request whose caller is gone while it is RESERVED is out of reach of
\* every later call: its row, its usage and its provider call stay as they are.
StrandedStaysStranded ==
    [][\A i \in Identities :
         requests[i].status = "RESERVED" /\ (\A c \in Callers : ~Owns(c, i)) =>
             /\ requests'[i] = requests[i]
             /\ usage'[i] = usage[i]
             /\ providerCalls'[i] = providerCalls[i]]_vars

\* Threads, retries, crashes and the shared ledger come down to the promise.
Lifecycle == INSTANCE ManagedLifecycle WITH
    Credits  <- {Reservation[p] : p \in Payloads},
    status   <- [i \in Identities |-> requests[i].status],
    reserved <- [i \in Identities |->
                    IF requests[i] = Absent THEN 0
                    ELSE Reservation[requests[i].payload]],
    calls    <- providerCalls,
    charged  <- [i \in Identities |-> IF usage[i] = NoUsage THEN 0 ELSE usage[i]]

ImplementsLifecycle == Lifecycle!Spec
=============================================================================
