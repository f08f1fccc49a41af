-------------------------- MODULE SchemaMigration --------------------------
(***************************************************************************)
(* Opening a database that V3.0.1 left behind, statement by statement, by   *)
(* several services that fail, die and start again, perhaps with another    *)
(* pricing policy; and what they answer to requests V3.0.1 knew.  Once a    *)
(* service is open its transactions are single steps, as in ManagedAccess,  *)
(* which has the rest of invoke: credits are left out here.                 *)
(*                                                                          *)
(* A row of managed_requests has a field for every column; None stands for  *)
(* a column that its table lacks.  A payload hash is the tuple it is the    *)
(* hash of; the two columns of token limits are one.                        *)
(***************************************************************************)
EXTENDS PricingPolicies, Sequences

CONSTANTS
    Services,
    RequestKeys,     \* account and request id
    Prompts,         \* model and prompt
    Configurations,  \* policies that services are started with
    TokenLimits,     \* of the pricing contexts of requests
    Costs,           \* credits_per_request V3.0.1 was configured with
    None

ASSUME ConfigurationsAreValid ==
    /\ Configurations \subseteq Policies
    /\ TokenLimits \subseteq Tokens
    /\ Costs \subseteq Nat \ {0}

VARIABLES
    old,      \* what V3.0.1 left: identity -> [status, prompt, cost]
    file,     \* the committed database: [columns, rows, usage]
    working,  \* the image of the open write transaction
    writer,   \* the service that has it
    phase,    \* where a service is: opening the file, open, busy or closed
    configured,  \* the policy a service was started with
    busy,     \* the request a service has reserved and is working on
    answer    \* how the last invoke ended

migrationVars == <<old, file, working, writer, phase, configured, busy, answer>>

RowStatuses == {"RESERVED", "SUCCEEDED", "FAILED", "FINALIZATION_FAILED"}
Columns == <<"policy", "version", "tokens">>
Default == [policy |-> << >>, version |-> 1, tokens |-> NoTokens]

LegacyHash(prompt, cost) == <<prompt, cost>>
PayloadHash(prompt, tokens, id, quote) == <<prompt, tokens, id, quote>>

FlatPolicy(credits) == [kind |-> "flat", credits |-> credits]

LegacyRow(o) ==
    [status |-> o.status, reserved |-> o.cost, hash |-> LegacyHash(o.prompt, o.cost),
     policy |-> None, version |-> None, tokens |-> None]

ASSUME NoneIsNoValue ==
    /\ None \notin Services \cup RequestKeys \cup Nat \cup Tokens
    /\ \A columns \in SUBSET {Columns[k] : k \in DOMAIN Columns} : None # columns
    /\ \A ids \in SUBSET RequestKeys : None \notin [ids -> Nat]
    /\ None # Default.policy
    /\ \A p \in Configurations : None # PolicyId(p)
    /\ \A c \in Costs : None # PolicyId(FlatPolicy(c))

\* V3.0.1's tables, with any of its requests; a new file has none of them.
NoTable == None
MigrationInit ==
    /\ \E ids \in SUBSET RequestKeys :
           old \in [ids -> [status : RowStatuses, prompt : Prompts, cost : Costs]]
    /\ \E fresh \in BOOLEAN :
           /\ fresh => DOMAIN old = {}
           /\ file = [columns |-> IF fresh THEN NoTable ELSE {},
                      rows |-> [i \in DOMAIN old |-> LegacyRow(old[i])],
                      usage |-> NoTable]
    /\ working = None
    /\ writer = None
    /\ phase = [s \in Services |-> "closed"]
    /\ configured = [s \in Services |-> None]
    /\ busy = [s \in Services |-> None]
    /\ answer = None

Enter(s, label) == phase' = [phase EXCEPT ![s] = label]
Put(f, i, v) == [j \in DOMAIN f \cup {i} |-> IF j = i THEN v ELSE f[j]]

------------------------------------------------------------------------------
(* __init__ and _initialize_schema, one transaction.                        *)

Construct(s, p) ==
    /\ phase[s] = "closed"
    /\ configured' = [configured EXCEPT ![s] = p]
    /\ Enter(s, "begin")
    /\ UNCHANGED <<old, file, working, writer, busy, answer>>

BeginImmediate(s) ==
    /\ phase[s] = "begin" /\ writer = None
    /\ writer' = s
    /\ working' = file
    /\ Enter(s, "create_requests")
    /\ UNCHANGED <<old, file, configured, busy, answer>>

Statement(s, from, to, image) ==
    /\ phase[s] = from
    /\ working' = image
    /\ Enter(s, to)
    /\ UNCHANGED <<old, file, writer, configured, busy, answer>>

\* CREATE TABLE IF NOT EXISTS gives a new table every column.
CreateRequests(s) ==
    Statement(s, "create_requests", "alter",
        IF working.columns = NoTable
        THEN [working EXCEPT !.columns = {Columns[k] : k \in DOMAIN Columns}] ELSE working)

Missing == {k \in DOMAIN Columns : Columns[k] \notin working.columns}

\* ALTER TABLE ADD COLUMN, the columns in order, each with its default.
AddColumn(s) ==
    /\ phase[s] = "alter" /\ Missing # {}
    /\ LET column == Columns[CHOOSE k \in Missing : \A m \in Missing : k <= m]
       IN  Statement(s, "alter", "alter",
               [working EXCEPT
                    !.columns = @ \cup {column},
                    !.rows = [i \in DOMAIN @ |-> [@[i] EXCEPT ![column] = Default[column]]]])

\* UPDATE ... WHERE pricing_policy_id = ''.
Backfilled(row) ==
    IF row.policy = Default.policy
    THEN [row EXCEPT !.policy = PolicyId(FlatPolicy(row.reserved))] ELSE row

BackfillPolicy(s) ==
    /\ phase[s] = "alter" /\ Missing = {}
    /\ Statement(s, "alter", "create_usage",
           [working EXCEPT !.rows = [i \in DOMAIN @ |-> Backfilled(@[i])]])

CreateUsage(s) ==
    Statement(s, "create_usage", "fill_usage",
        IF working.usage = NoTable THEN [working EXCEPT !.usage = [i \in {} |-> 0]] ELSE working)

SucceededIds(rows) == {i \in DOMAIN rows : rows[i].status = "SUCCEEDED"}

\* Fault: INSERT OR REPLACE.
ReplaceUsage(rows, costs) ==
    [i \in DOMAIN costs \cup SucceededIds(rows) |->
        IF i \in SucceededIds(rows) THEN rows[i].reserved ELSE costs[i]]

\* INSERT OR IGNORE: a success without usage cost what it had reserved.
FilledUsage(rows, costs) ==
    [i \in DOMAIN costs \cup SucceededIds(rows) |->
        IF i \in DOMAIN costs THEN costs[i] ELSE rows[i].reserved]

FillUsage(s) ==
    Statement(s, "fill_usage", "commit",
        [working EXCEPT !.usage = FilledUsage(working.rows, @)])

CommitSchema(s) ==
    /\ phase[s] = "commit"
    /\ file' = working
    /\ working' = None
    /\ writer' = None
    /\ Enter(s, "open")
    /\ UNCHANGED <<old, configured, busy, answer>>

Opening == {"begin", "create_requests", "alter", "create_usage", "fill_usage", "commit"}

\* The lock is not free in 30 seconds, a statement or the commit raises, or
\* the process dies: the transaction is rolled back, the service is not built.
OpeningFails(s) ==
    /\ phase[s] \in Opening
    /\ writer' = IF writer = s THEN None ELSE writer
    /\ working' = IF writer = s THEN None ELSE working
    /\ Enter(s, "closed")
    /\ UNCHANGED <<old, file, configured, busy, answer>>

------------------------------------------------------------------------------
(* invoke, with the decisions of _reserve and _replay.                      *)

Ended(s, i, prompt, tokens, outcome, credits) ==
    answer' = [policy |-> configured[s], id |-> i, prompt |-> prompt, tokens |-> tokens,
               outcome |-> outcome, credits |-> credits]

\* Fault: every row is compared with the hash of this version.
HashOfThisVersion(row, prompt, tokens, p) ==
    PayloadHash(prompt, tokens, PolicyId(p), QuoteOf(p, tokens))

ExpectedHash(row, prompt, tokens, p) ==
    IF row.version = 1 THEN LegacyHash(prompt, QuoteOf(p, tokens))
    ELSE PayloadHash(prompt, tokens, PolicyId(p), QuoteOf(p, tokens))

SameRequest(row, prompt, tokens, p) ==
    /\ row.hash = ExpectedHash(row, prompt, tokens, p)
    /\ row.policy = PolicyId(p)
    /\ row.tokens = tokens

\* _success_metadata.
ChargedFor(i) == IF i \in DOMAIN file.usage THEN file.usage[i] ELSE file.rows[i].reserved

Reply(s, i, prompt, tokens) ==
    /\ phase[s] = "open" /\ writer = None
    /\ i \in DOMAIN file.rows
    /\ QuoteOf(configured[s], tokens) > 0
    /\ IF SameRequest(file.rows[i], prompt, tokens, configured[s])
       THEN Ended(s, i, prompt, tokens, file.rows[i].status,
                  IF file.rows[i].status = "SUCCEEDED" THEN ChargedFor(i) ELSE 0)
       ELSE Ended(s, i, prompt, tokens, "conflict", 0)
    /\ UNCHANGED <<old, file, working, writer, phase, configured, busy>>

ReserveNew(s, i, prompt, tokens) ==
    LET quote == QuoteOf(configured[s], tokens) IN
    /\ phase[s] = "open" /\ writer = None
    /\ i \notin DOMAIN file.rows
    /\ quote > 0
    /\ file' = [file EXCEPT !.rows = Put(@, i,
           [status |-> "RESERVED", reserved |-> quote,
            hash |-> PayloadHash(prompt, tokens, PolicyId(configured[s]), quote),
            policy |-> PolicyId(configured[s]), version |-> 2, tokens |-> tokens])]
    /\ busy' = [busy EXCEPT ![s] = i]
    /\ Enter(s, "busy")
    /\ Ended(s, i, prompt, tokens, "created", 0)
    /\ UNCHANGED <<old, working, writer, configured>>

\* How the new request ends: a usage row and SUCCEEDED, or a failure.  A flat
\* price is charged in full; what else price_usage can return is what
\* ActualWithinReservation says of Pricing.
Settle(s, status, credits) ==
    LET i == busy[s] IN
    /\ phase[s] = "busy" /\ writer = None
    /\ file.rows[i].status = "RESERVED"
    /\ configured[s].kind = "flat" => credits = file.rows[i].reserved
    /\ credits <= file.rows[i].reserved
    /\ file' = [file EXCEPT
           !.rows[i].status = status,
           !.usage = IF status = "SUCCEEDED" THEN Put(@, i, credits) ELSE @]
    /\ busy' = [busy EXCEPT ![s] = None]
    /\ Enter(s, "open")
    /\ answer' = None
    /\ UNCHANGED <<old, working, writer, configured>>

\* close, or death of the process: a reservation stays as it is.
Close(s) ==
    /\ phase[s] \in {"open", "busy"}
    /\ busy' = [busy EXCEPT ![s] = None]
    /\ Enter(s, "closed")
    /\ answer' = None
    /\ UNCHANGED <<old, file, working, writer, configured>>

Open(s) ==
    \/ \E p \in Configurations : Construct(s, p)
    \/ BeginImmediate(s)
    \/ CreateRequests(s)
    \/ AddColumn(s)
    \/ BackfillPolicy(s)
    \/ CreateUsage(s)
    \/ FillUsage(s)
    \/ CommitSchema(s)
    \/ OpeningFails(s)

Serve(s) ==
    \/ \E i \in RequestKeys, prompt \in Prompts, tokens \in TokenLimits :
           Reply(s, i, prompt, tokens) \/ ReserveNew(s, i, prompt, tokens)
    \/ \E status \in RowStatuses \ {"RESERVED"} :
           \E credits \in 0..(IF busy[s] = None THEN 0 ELSE file.rows[busy[s]].reserved) :
               Settle(s, status, credits)
    \/ Close(s)

MigrationNext == \E s \in Services : Open(s) \/ Serve(s)

MigrationSpec == MigrationInit /\ [][MigrationNext]_migrationVars

------------------------------------------------------------------------------
(* Properties.                                                              *)

(* Whoever opened the file, after whatever failures and with whatever       *)
(* policy: a request of V3.0.1 keeps its status, is answered with it and     *)
(* with the price V3.0.1 took to whoever repeats it at that flat price, is a *)
(* conflict for everybody else, and is never reserved again (service.py     *)
(* _initialize_schema, _reserve, _success_metadata).                        *)
LegacyRequestsAreHonoured ==
    /\ \A i \in DOMAIN old : file.rows[i].status = old[i].status
    /\ answer # None /\ answer.id \in DOMAIN old =>
           LET o == old[answer.id]
               repeated == /\ answer.prompt = o.prompt
                           /\ answer.tokens = NoTokens
                           /\ answer.policy = FlatPolicy(o.cost)
           IN  /\ answer.outcome = IF repeated THEN o.status ELSE "conflict"
               /\ answer.outcome = "SUCCEEDED" => answer.credits = o.cost

RecordKept(i) ==
    /\ i \in DOMAIN file'.rows
    /\ file'.rows[i].reserved = file.rows[i].reserved
    /\ file'.rows[i].hash = file.rows[i].hash
    /\ file.rows[i].status # "RESERVED" => file'.rows[i].status = file.rows[i].status
    /\ \A column \in DOMAIN Default :
           file.rows[i][column] # None => file'.rows[i][column] = file.rows[i][column]
    /\ file'.usage # NoTable =>
           (i \in DOMAIN file'.usage <=> file'.rows[i].status = "SUCCEEDED")
    /\ file.usage # NoTable /\ i \in DOMAIN file.usage =>
           file'.usage[i] = file.usage[i]

(* What a request recorded is there for good: opening the file once more,   *)
(* now or after a crash, changes no reservation, hash, policy, final status  *)
(* or recorded cost, and a file with usage rows has one for each success and *)
(* for nothing else (service.py _initialize_schema, _finalize_success).     *)
RecordsAreKept == [][\A i \in DOMAIN file.rows : RecordKept(i)]_migrationVars
=============================================================================
