# Code Comments Agent – formal models

TLA+ models, model checks and proofs for the Python application in `src/`
(release V3.1.4): a Gradio tool that has a language model comment Python and
Java sources, with a server-side credit ledger, managed model access and an
administrative service beside it, and with libraries that analyse a project,
retrieve from it, and benchmark the retrieval.

Every definition that stands for code is listed in `PROJECT.json` under `map`
with the lines it models. `tlc -config X.cfg M` runs a check, `tlapm
XProofs.tla` checks the proofs.

## 1. Inventory

| component | state it keeps | operations | correct when | module |
|---|---|---|---|---|
| Credit ledger (`credits/`) | append-only transactions, idempotency keys; in memory or in SQLite | grant, charge, refund, adjust, balance, history | no account overdrawn, a request id is charged and refunded at most once, an answered operation is durable, both ledgers keep one contract | `CreditDomain`, `CreditLedger`, `SqliteLedger` |
| Managed access (`managed_access/service.py`) | `managed_requests`, `managed_usage` in the ledger's file | invoke (reserve, call the provider, finalize), opening and upgrading the file, get_request | one provider call per identity, a charge exactly for a success and within its reservation, an outcome that stays true, requests of V3.0.1 honoured after an upgrade | `ManagedLifecycle`, `ManagedAccess`, `SchemaMigration` |
| Pricing (`managed_access/pricing.py`) | none (rates) | reserve_credits, price_usage, policy_id | exact cost rounded up once; an accepted usage costs no more than its reservation; equal ids for equal rates only | `PricingPolicies`, `Pricing` |
| Administrative credit (`admin_operations/`) | `admin_credit_operations` in the ledger's file | grant, adjust, balance, history | ledger rows and audit records one to one, retries apply once | `AdminCredit` |
| Comment generation (`processor.py`, single file) | one run: items, futures, results, text, temporary files | process_code, process_code_with_progress, cancel, close | program text preserved, comments at their declarations, no work after the run, partial results kept | `CommentRun` |
| User interface (`ui.py`, `main.py`, `i18n.py`) | Gradio session slots | event handlers | a press of stop reaches the running task | `StopButton` (that part) |
| Batch processing (`processor.py`) | staging directory, records, counts, archive | expansion of uploads, limits, per-file processing, packaging, clean-up | the archive holds what the log counts, nothing else stays on disk, one provider per batch | `BatchRun` |
| Provider configuration (`config.py`, `llm_provider.py`) | active provider, model, key, URL, provider object under one RLock | switch_provider, set_api_key, set_custom_base_url, getters | a key or an address reaches only the provider it was entered for | `ProviderConfig` (checked in `BatchRun`) |
| LLM access (`llm_service.py`) | task-scoped client | one call per generation | – (a step of `CommentRun` that returns or raises) | `CommentRun`, `ProviderConfig` |
| Parsing and annotation (`Py/`, `Java/`) | none | find declarations, insert a comment | insertion is a part of `CommentRun` | `CommentRun` |
| Code maintenance (`code_maintenance/`) | snapshots, graphs | scan, snapshot, compare, analyse | symbol identities and hashes are those of one version, cycles found exactly | `SourceSymbols`, `SnapshotAnalysis`, `ProjectIndex` |
| Project intelligence (`project_intelligence/`) | corpus, retrieval index | build, update, search, fusion, expansion, context | an index is of one version of every file with fresh vectors, budget respected, provenance true | `ProjectIndex`, `Retrieval`, `ProjectIntelligence` |
| Experiments (`experiments/`) | run artifacts, receipts, approvals in a Git checkout | validate, prepare, run, score, write artifacts | published directories are whole, formal results have their dry runs, manifests name what ran, scores are sound | `ArtifactStore`, `Benchmark`, `ExperimentRun` |
| Workspace (`code_comments_agent/workspace.py`) | one JSON file per user | save, load, clear | a load sees one complete save | – |
| Scripts (`scripts/dev.py`), styles, limits | – | – | – | – |

How they interact. The UI calls the processor, a generator that yields a frame
per step; a `CancelToken` is shared between the generator and the stop button.
The processor takes the active provider from `config.py` once per task and
calls it from a thread pool; a batch takes it once for all its files, while
other sessions go on switching it. Managed access, the administrative service and
the SQLite ledger are separate objects, each with its own connection and
RLock, on one database file; they meet only in SQLite's write lock. Managed
access writes ledger rows by itself with the ledger's static helpers. The
project index reads the same directory up to six times for one corpus (scan,
symbols, graph, scan, sources, scan); nobody stops editing it meanwhile. The
benchmark reads frozen data, code and evidence from a Git checkout that people
commit to and switch, and publishes evidence into it.

What is hard to test here: the order of transactions on several connections,
failures and deaths between the statements of one transaction and between two
transactions of one call, retries of work that is still running, cancellation
and closing of a generator while a pool works for it, line numbers that become
stale, a directory or a checkout that changes between two reads of one
operation, an exception or a closed generator between the creation and the
removal of a file, and the 64-bit and decimal edges of the arithmetic. `PROJECT.json`
lists these at their lines under `hazards`, with the properties that watch
each one, or why none does.

## 2. Modules

    CreditDomain ──► CreditLedger ◄─(refines)── SqliteLedger
         │                ▲  ▲
         │                │  └─(extends, refines)── AdminCredit
         └── ManagedAccess┘ ──(refines)──► ManagedLifecycle
    PricingPolicies ◄── Pricing, SchemaMigration
    CommentRun ◄── StopButton      ProviderConfig ◄── BatchRun

    SourceSymbols ◄── ProjectIndex, SnapshotAnalysis, Retrieval ◄── ProjectIntelligence
    ArtifactStore, Benchmark ◄── ExperimentRun

**CreditDomain** – accounts, the log, the idempotency table, and the appends
that every writer shares. A database image is a record of the log (a
sequence), the key table (key → position) and `balance`. The code has no
balance column, it sums the rows on each read; `balance` is that sum, kept
running by the one operator that appends a row, so that it is the sum by
construction. Positions stand for transaction ids, and one note or reason for the texts.

**CreditLedger** – `InMemoryCreditLedger`: one action per operation, since
each runs under one RLock. It is the contract the other writers are shown to
implement. Refused and replayed calls leave the state alone and appear as such.

**SqliteLedger** – `SQLiteCreditLedger` statement by statement: take the
object's lock, `BEGIN IMMEDIATE`, look the key up, check the balance, append
the row, append the key, commit, release. A statement, an injected fault or
the commit may raise; `BEGIN` may time out; the process of an object may die
anywhere. `working` is the uncommitted image of the one connection that holds
SQLite's writer slot. Only deaths that SQLite's rollback journal survives are
modelled; that is an assumption about SQLite, not about this code.

**ManagedLifecycle** – the abstract promise for each request identity.

**ManagedAccess** – `invoke`. One write transaction is one step, which
`SqliteLedger` justifies for the same kind of transaction; provider call,
pricing and the marking of failures are steps of their own, because other
callers, other users of the ledger, failures and deaths come between them.
A payload value stands for everything `payload_hash` covers. `External` are
the ledger's other clients, including code that charges the same request id
directly. `outcome` is what `invoke` returned or raised.

**SchemaMigration** – the constructor of the managed service on a file of
V3.0.1 or a new one: one write transaction, statement by statement (`CREATE`,
an `ALTER` for each missing column, the backfill of policy ids, the usage
rows), in competing services that fail, die and are built again with another
policy. The connection is in autocommit mode and begins its transactions
itself, so SQLite rolls DDL back with the rest. A row carries `None` for a
column its table lacks, and the hash of a payload is the tuple that is hashed.
An open service's transactions are single steps as in `ManagedAccess`, which
has the money; here are the decisions of `_reserve` and `_replay` on rows of
either version, with the policies, ids and quotes of `PricingPolicies`. V3.0.1
itself no longer writes to the file.

**AdminCredit** – `_apply` statement by statement for several services, over
the state and the operations of `CreditLedger`. The
other clients here are limited to charges and refunds: the project's context
document names this service as the only administrative entry point, and a
grant from elsewhere could not have an audit record. `SUM(amount)` raises
beyond `MaxInteger`; the repository documents that grants can get there.

**PricingPolicies**, **Pricing** – both policies, and when `invoke` reserves and
prices by one: with `Decimal` as coefficient and exponent, and a
context with `ROUND_CEILING` and the computed precision modelled by its effect
on each exact result. `Digits`, `BitLength` and `Power` are functions on the
naturals that call themselves (not RECURSIVE operators, which the provers do not
take), and the bit-length estimate of the number of digits is the code's. `Scale`
is the largest number of decimal places among the rates; the properties compare
prices in that unit. Policy ids hash the canonical text of the rates; equality of
the hashed text is what is modelled.

**CommentRun** – one run of `process_code_with_progress` over either language
variant (their control is the same, the differences are where a comment goes).
`stage` is where the generator stands; worker threads, the holder of the token
and the consumer of the frames act between its steps. `text` is a sequence of
lines `<<symbol, part>>`; insertion applies the original line numbers to the
current text exactly as the code slices its lists, including slices that reach
past the end and the `IndexError` of `lines[lineno - 1]`. Whole lines are
replaced, and a comment may share its first or last line with program text
(`shared`, one of the layouts in `Sharings`): a Python declaration with its body on one line, a
statement behind a docstring, code before or behind a Javadoc. Whether the syntax
check accepts an insertion is a free choice, except where it cannot (`MayParse`).
Restrictions: symbols follow each other, and no two begin on one line; nesting
(a class around its methods) is left out, it adds lines to a body, and where the
code looks for what encloses a symbol (the Java adapter by the positions of braces)
the model has nothing to decide. What stands between a declaration and its
comment (the rest of a signature, annotations, blank lines) counts as the
declaration's line. The lines of `splitlines()` and of the parsers are the same,
that is, the source has no form feeds or Unicode line separators. The language is an
input; the code has it from the caller, or in a batch from the file's suffix.
`process_code` has the same control without frames and token. The text checks
of `validate_local_input`, log wording, diff and outline are left out.

**StopButton** – `CommentRun` with the session slot that the button reads.
Gradio is external: it stores each yielded value in the component it belongs
to, `None` like any other value; the code relies on this when it clears the
download paths with `None`.

**ProviderConfig** – the settings module as one record, one action per public
operation since each holds the module's lock throughout, and the provider
object built lazily from it. Which key and address people type for which
provider is an input; everything else (defaults, blank against missing values,
stripped slashes, the refusal of an address a provider does not allow, build
first and commit afterwards) is the code's.

**BatchRun** – one call of `process_batch_files` or of its generator, composed
with `ProviderConfig`. `suspended` says that a frame is out, which is where
the browser can go away; the token can be set anywhere. Uploads carry what
the checks of an upload decide (`kind`) instead of bytes. The length of a path
is what `commonpath` and `relpath` see. `process_code` on one file is one step
with its five outcomes, among them the exception between its two temporary
files; its inside is `CommentRun`. A write that fails has created or emptied its
file, or has not come that far; what it leaves is packed with the rest. `label`
is what the log counts.

**SourceSymbols** – what is read out of source text: ignore rules, the
identity of a symbol (with the line only where two would clash), module and
type names, resolution of imports, the project graph. Parsers are external:
a content is what they return, finitely many items and imports
(`ContentsAreFinite`). Python's `sorted` is `InsertionSort`, by an order that is
total wherever it is used, and its loops over sequences are `Through`.

**ProjectIndex** – `disk` is edited between any two reads. A pass (`scan`,
`symbols`, `graph`, `first_scan`, `sources`, `final_scan`) takes one file per
step. A hash is the content itself. A file that cannot be read is `Gone`. A
new snapshot drops the corpus of the old one, because every caller
(execution.py:133 and 259, dev.py:319) indexes a snapshot with the corpus built
for it. Build and update of an index compute in memory and are one step each.
The graph of a snapshot comes from a later read than its hashes and is never
checked against them; no property claims it is.

**SnapshotAnalysis** – the three analysis tools and their findings; at most
one of them fails in an analysis. The import cycles come from the code's two
passes: `FirstPass` is one turn of its `while stack` loop, or the start of the next
file, and `TakeComponent` floods back from one start of the second pass.
`CyclesAreComponents` compares what they find with plain reachability.

**Retrieval** – ranking, fusion (weighted and reciprocal rank), breadth-first
expansion from each seed with its limits, and the context text with its
budget. Lexical scores, weights and cosines are inputs: natural multiples of some
unit, cosines multiples of 1/`CosineScale` from -1 to 1. What is computed from
them is computed exactly, for any number of hops (`FullSignal` is divisible by
each); that floats round, and could make two fused scores equal, is not modelled.

**ProjectIntelligence** – the above around one directory. Findings and answers
are returned and kept nowhere, so that `Forget` drops them at the next step.

**ArtifactStore** – publication through a temporary directory, the checksums
last, then a rename. What a dead writer leaves under its hidden name is
forgotten: nobody reads it.

**Benchmark** – candidates, grades, metrics, means, over positions instead of
text and fractions instead of floats.

**ExperimentRun** – benchmark processes and people on one Git checkout.
`history` are the commits, `work` and `dirs` the files on disk. Frozen data,
manifests and approval documents of a package are one value, as the frozen
checksums list binds them together; the gate and the closure record stand
together, too. The first validation of a request is one step, its renewal by
the runner two, because the checkout can change between its reads. The several `git`
commands of `verify_execution_code` are one step: a checkout between two of
them is not modelled. A check that refuses is `Stop`. `published` and the `code` of a request are auxiliary:
they record what really ran, for `ResultsAreAuthentic`. Run ids are chosen per
configuration and mode. A raw file keeps status and degradation of a query;
rankings and scores stay inside `Benchmark`. A dry run's code need not equal
the formal run's: the protocol's Amendment 5 allows that, and only asks that
dry-run revision, archive commit and formal revision follow one another.

Operators marked `Fault:` are plausible mistakes that `PROJECT.json` puts in
place of the right definition to confirm that a property notices them.

## 3. Runs

| run | instance | shows |
|---|---|---|
| `credit_ledger` | 2 accounts, 1 request id, amounts 1 and 2, 2 notes, 3 rows | solvency, keys, append-only log |
| `sqlite_ledger` | 2 threads, 2 ledger objects, 1 account, 6 calls, 2 rows | implements `CreditLedger`; reads are committed, answers durable, locks given back |
| `managed_access` | 2 callers, 2 ids, reservations of 1 and 2, ledger amounts of 2, 3 rows | at most one provider call, charges back successes, reservations covered, truthful outcomes, stranded requests untouched, implements `ManagedLifecycle` |
| `admin_credit` | 2 services, 2 identities, 7 operations, overflow above 2 credits | audit and ledger one to one, answers audited, overflow one way, implements `CreditLedger` |
| `pricing`, half for `Pricing` | 6 rates, 5 token counts, 2 flat prices | exact ceilings, price within reservation, policy ids |
| `pricing`, half for `SchemaMigration` | 2 services, 2 identities, 2 prompts, 2 flat prices and a token price, old price 1, 2 pairs of token limits (1 026 401 states) | old requests keep status and price, are answered or refused rightly, no opening changes a record |
| `comment_run` | 3 symbols, 2 workers, old comments of 0, 1, 5 lines, new of 3, on lines of their own or shared with the program (1 050 484 states) | no call outlives the run, the program loses only what shares a line with a replaced comment, every symbol accounted for, the run ends |
| `project_intelligence` | 2 Python modules and a Java class, 6 versions, 2 rule sets, 2 embedding spaces, 3 fusion configurations, 2 edits, 2 snapshots (113 431 states) | an index is of one version with fresh vectors; cycles are the cyclic components; context packages are within budget and say truly what they cut |
| `batch_run` | 8 requests, 2 providers, 2 switches, up to 4 uploads, limit of 3 files (997 035 states) | every success is archived, beside it only what failed writes left; nothing else stays on disk, one provider with its own key |
| `experiments` | 2 processes, 2 configurations, 2 approvals of one package and an edited package, 2 code revisions, 2 changes, 3 launches, 1 receipt, 1 failure | artifacts are whole, formal runs authorised and backed by dry runs, manifests authentic, scores sound, units agree |
| `comment_cancel`, `comment_lines`, `stop_button` | 2 symbols | violations, section 5 |

Why the bounds are enough to be interesting. `MaxTransactions` bounds the log;
with three rows a grant, a charge and its refund or a second debit all fit,
and two rows are enough for two connections to fight over the money of one
grant. Two threads either share a ledger object (then the RLock matters) or use
one each (then SQLite's lock does). In `managed_access` two callers can race
on one identity or hold two reservations, and an amount of 2 lets exactly one
of the larger reservations in; callers and request ids are interchangeable (no
definition distinguishes them, no liveness is checked), so symmetry is sound.
In `admin_credit` the first grant reaches the limit and the second crosses it.
In `pricing` the large rates make the last digit of a sum of products worth
whole credits. `SchemaMigration` shares the policies with `Pricing`
but none of its variables, so `MCPricing` runs each with the other
switched off instead of their product. There one flat price is the one V3.0.1
had, one is not, and two services open the file one after another with any of
them; services and identities are interchangeable. In `comment_run` three symbols allow one call running, one
queued and one answered, and comments of one and five lines make the text
longer and shorter when three lines replace them. Of the ways
to share lines with the program `Layouts` has each for the symbol in the middle,
with others above and below it, and both at once for every symbol.

In `project_intelligence` the second module imports the first, so that
versions close and open a cycle, and defines one name twice; two edits put a
file into two versions within one pass, and two snapshots make an incremental
update. One context of seven characters cuts a snippet. The requests of
`batch_run` are chosen for what they collide in: two archives of one name,
files below one common folder, files that share only the root, uploads that
are all refused, more than the limit by archive members and by uploads. In
`experiments` two dry runs, a receipt and a commit lead to a formal run with
the third launch; the second change is left for an edit or a checkout at the
worst moment. Processes are interchangeable, and so are embedding spaces; no
liveness is checked in these runs, so symmetry is sound there.

A bounded log still answers calls, a service is closed and opened again and a
run is followed by the next, so deadlock is checked everywhere but in
`project_intelligence`, `batch_run` and `experiments`: a batch ends, and
edits, scans, launches and changes are bounded.

Fairness. `SqliteLedger`: a thread inside a call keeps running; a `BEGIN` that
waits for another writer either gets the slot or hits the 30-second busy
timeout, so one of `Begin` and `BeginFails` happens. Nothing makes a caller
call. `CommentRun`: the consumer asks for the next frame until there is none
(or closes the generator), worker threads are scheduled, and a provider call
ends because its client has a timeout of 90 seconds. Nothing obliges anybody
to start a run, cancel or close one. The other specifications state safety only
and assume no fairness.

## 4. Proofs

Proved by TLAPS for all values of the constants that satisfy the named
assumptions: amounts are positive integers, `null` is not a request id, `None`
is nobody, reservations are positive, the range of integers is positive and
holds every single amount, the relative paths of uploads are non-empty
sequences (`UploadsHavePaths`), the frozen corpora are finite, and an approval
names a corpus (`CorporaAreFinite`, `ApprovalsBindCorpora`), the cutoffs of the
metrics are in order, the last of the recalls' is that of the reciprocal rank, and
the discounts of nDCG are positive and fall (`CutoffsAreOrdered`, `DiscountsFall`:
`MetricConfig` accepts 1, 5, 10 and 10, 5, 5, 5 only). For the prices:
rates are the finite, non-negative decimals the policies accept
(`RatesAreDecimals`), a flat price is positive (`FlatPricesArePositive`), no
tokens at all is among the token counts (`ZeroIsTried`), and no rate has more
decimal places than `Scale` (`ScaleHoldsRates`). For the answers: `max_hops` and
the other limits are natural numbers, as `GraphExpansionConfig` asks
(`HopsAreNatural`, `ExpansionIsBounded`), relations are the two the code knows
(`RelationsAreKnown`), `rrf_k` is positive (`RrfKIsPositive`), cosines have a unit
(`CosinesAreScaled`), lexical scores are natural numbers of units and cosines
between -1 and 1 (`ScoresAreInRange`), weights are natural with a
lexical or semantic one above zero
(`HybridConfigsAreValid`), and top_k and budgets are positive (`QueriesAreValid`).

* `CreditLedgerProofs` – `TypeOK`, `NeverOverdrawn` and `KeysMatchTransactions`
  together are inductive (`LedgerInvariant`); each is a theorem, and `LedgerAppendOnly` follows from
  the same steps. `CreditDomainProofs` has the lemmas on the appends: what
  each leaves of the log, the keys and the balance, and how a sum over a
  finite set changes with one member. For the administrative services,
  `WriterInv` says that their open transaction shows the committed tables,
  then those with the row, then those with row and record, and that what the
  service found free at its first statement still is. From it every commit is
  a grant or an adjustment of the ledger (`AdminImplementsLedger`), an
  overflown account is not debited (`OverflowStaysOneWay`) and an answer has
  its record (`AnswersAreAudited`). `AuditMatchesLedger` also needs `AuditInv`,
  its own statement without cardinalities, and `WriterInv` for the step that
  publishes both inserts at once.
* `SqliteLedgerProofs` – the inductive invariant says who holds what: a thread
  past the lock is the holder of its object's lock (`HoldersAgree`), the
  writer slot belongs to the object of the one thread inside a transaction
  (`WriterAgrees`), and the uncommitted image is the committed one with at
  most that thread's row and key applied (`ImageAgrees`). The property alone
  is not inductive: without the last part a commit could publish anything.
  From it, a commit is one operation of `CreditLedger` and every other step a
  stutter (`SqliteImplementsLedger`), and `SqliteReadsCommitted`.
  `SqliteAnswersAreDurable` adds what an answer refers to while it is not yet
  committed (`Promises`), and that the log only grows.
* `ManagedAccessProofs` – `Ownership`: a caller past the reservation owns its
  identity alone, the row is RESERVED while it does, and the provider was
  called exactly as often as its place in `invoke` says. At most one call
  (`ProviderAtMostOnce`), `ReservationsStayStranded` and the refinement
  (`ServiceImplementsLifecycle`) follow. `Paid` adds that usage, status and
  charge move together and gives `SuccessIsCharged`; it needs `Ownership`
  (only the owner finalizes) and the ledger's lemmas (nobody rewrites a
  charge). `Answers` relates what a caller was told to the row, and gives
  `AnswersStayTrue` with the two before it: closed rows stay closed, and a
  request that failed to finalize has nobody left to settle it. `Covered` is
  what `ReservationsStayCovered` needs to be inductive: the property excuses
  an account once others have debited it, so the invariant adds these debits
  back (`Slack`) and compares the rest with the sum of the active reservations.
  The module also has the proofs about `SchemaMigration`, the opening of the
  service's file: `MigrationInv` says that the committed file is entirely of
  V3.0.1 (`Unmigrated`) or entirely upgraded (`Migrated`), what the image of
  an upgrade holds before each statement (`Prepared`), and that opening an
  upgraded file changes nothing at all. From it `LegacyRequestsStayHonoured`
  and `RecordsStay`. `NoneIsNoValue` is assumed: `None` is no service, key,
  number, policy id or table.
  And it has the prices. `PricesStayExact` says that a quote and a price are the
  least whole number not below the exact sum, although every product, sum and
  quotient of the code is rounded up at a precision computed from an estimate.
  It holds because that precision is never too low: the estimate is
  `bit_length * 30103 // 100000 + 1`, which covers the digits of every number
  since 2^100000 <= 10^30103 (`ThirtyThousandDigits`, shown by a chain of
  squarings that stays below the tenth powers, so that nobody has to multiply
  thirty thousand digits); hence no step rounds but the last (`OneTermPrice`,
  `TwoTermsPrice`, `PriceIsCeiling`). `PricesStayWithinReservations` adds that a
  ceiling grows with the tokens (`PriceIsMonotone`) and, in `PricingInv`, which
  stage of `invoke` has which quote and price.
  `PolicyIdsKeepIdentifyingRates`: two policies have one id exactly when their
  rates are equal numbers, because stripping trailing zeros leads to one
  canonical form (`CanonicalIdentifiesRate`). That functions such as `Power` are
  defined by their own equation at all is shown first (`RecursionIsDefined`).
* `CommentRunProofs` – `NoWorkOutlives`: only the submission queues work, it
  enters the collection stage, and that stage is left through a shutdown that
  waits. `RunLosesNothing`: `Progress` says for each stage which symbols are
  dealt with, still to do, or answered and not inserted.
  `AnnotationStaysSound`: every insertion looks its symbol up by the line the
  source was parsed with, in a text that earlier insertions made longer, so
  the property needs to know where they were. `TextInv` adds that each loop,
  which works from the bottom up, finds the lines of the source untouched down
  to the symbols it has still to do (`Untouched`, `Loops`), that new lines
  belong to symbols that were documented, and that generation replaces no
  comment where something is to be translated (`KindsFit`). It rests on two
  groups of lemmas: an insertion replaces one slice of lines, which holds no program
  but what shares a line with the comment (`InsertReplaces`, `ReplacedLines`,
  `InsertKeepsProgram`), and the parsed
  source has each declaration, with its old comment, at the line the parser
  reported (`Declarations`).
* `ProjectIntelligenceProofs` – four inductive invariants. For `NoVectorIsStale`: the
  documents of an index have the symbols and hashes of its snapshot, one text
  for each identity, so that a symbol the comparison calls unchanged has the
  text its old vector embeds. For `NoMixedVersions`: during the reading of the
  sources everything read so far has the hash the snapshot recorded, which is
  also what the corpus and then the index inherit. `QueriesLeaveTheIndex` carries
  both over to a system that also analyses and answers queries.
  `CyclesAreFound` is about an algorithm and any graph. `PassInvariant` says of
  the first pass that the stack is a path, that what a finished vertex leads to was
  visited, and that whatever a finished vertex reaches is finished no later than the
  whole of its component, unless part of that is on the stack still
  (`ReachedIsFinished`, `FinishedPath`). The pass ends because every turn starts a
  file, finishes one or follows an edge for the first time (`Progress`,
  `OverIsFinished`), and leaves an order in which a component's last vertex comes
  after all it reaches (`FinishOrderIs`). Taken from the end, a flood back
  through what no component has taken gives exactly one component
  (`FloodIsComponent`, `SecondPassIs`). `AnalysisInvariant` connects this to the
  system: the graph pass reads only scanned files, so that the import graph of a
  snapshot is one over its files (`BuiltGraphIsSound`), whatever was edited since.
  `AnswersStaySound` goes through the retrieval stage by stage. Sorting enumerates
  its set (`InsertionSortEnumerates`), so that rankings repeat nothing. The
  breadth-first search keeps its queue in order of distance and every visited node
  at its shortest one (`SearchIsSound`, `SearchedTo`): when an entry is taken up,
  everything as near as it has been visited (`NearerIsVisited`), so that a new
  neighbour is exactly one hop further (`VisitTurn`, `PopTurn`, `FromSeedIs`). The
  expansion keeps each node once (`ExpandGraphIs`), which is why the plan of a
  context repeats no symbol (`PlanIs`); and the text built from a plan is its
  beginning, closed by the first piece that does not fit (`PlaceTurn`,
  `FillContextIs`). `QueryInvariant` connects this to the system: whatever was read
  of a file is a version of it, versions have finitely many symbols and imports, so
  the graph and the documents of an index are finite and every edge ends in nodes
  (`BuiltGraphIsSearchable`, `CorpusIsFinite`).
* `ExperimentRunProofs` – `ArtifactsAreAlwaysWhole`: the temporary directory of
  a writer holds a part of what it was started with, and the checksums only
  beside all of it; committed directories are whole, so a checkout brings
  back whole ones. `ResultsAreAlwaysAuthentic`: from its second validation on a
  request carries the sources its approval binds and the code of its declared
  revision, its files carry the request, and the history only grows, so what
  a revision means never changes. `FormalRunsAreAlwaysBacked`: the parents of a
  commit come before it, so that the ancestors of a revision exist and never
  change (shown from the recursion itself); a summary in a run directory
  counts what its raw file holds, which is how a receipt's check of summaries
  speaks about queries; and a formal request that writes is backed already. Its
  authority stays with it, since commits are only added (`AuthorizedStays`).
  `UnitsAlwaysAgree`: a process writes once `validate_truth` has accepted every
  selected query, and for any valid truth of well-formed data the units agree
  (`UnitsGradeAlike`): to overlap is to share a character, below each
  character is a multiple of the stride that is less than a chunk away, and
  the best of some grades is one of them. `CorporaAreWellFormed` says what the
  registry and the records of the benchmark refuse otherwise.
  `ScoresAreAlwaysSound`: what nDCG promises is a comparison of layers. A gain of
  0, 1 or 3 counts a rank once for each grade it reaches, the second twice
  (`GainIsLayered`); of all choices of at most b ranks the first b weigh most, and
  no other as much (`FirstAreHeaviest`); and a ranking whose two layers are the
  first ranks and leave no room is exactly one that could not be better
  (`FullIsIdeal`, `IdealIsFull`). A mean is bounded for any number of results
  (`AnySummaryIsSound`), where the run looks at two.
* `BatchRunProofs` – `OneProviderPerBatch`: the settings hold no key and no
  address that was entered for another provider than the active one, the
  provider object built from them is meant for it, and a batch asks only the
  object it took at its start, however the settings change meanwhile.
  `BatchLeavesNothing`: what is on disk follows from the stage and the log.
  `ArchiveHoldsWhatSucceeded`: the directory holds under each path a record of
  that path that succeeded or failed in writing, and none older than its last
  success, the log does not run ahead of the
  records, and stripping the common folder keeps distinct paths distinct,
  which is a lemma about the length of a longest common prefix.

Induction over data is not available as a rule, because the library states it
with an operator parameter. Where a proof needs it (sums over finite sets, the
longest common prefix, what the recursive `Ancestors` returns, the lines of
the program in a text, the layout of a source, powers and digits of numbers, the
turns of a depth-first pass or of a breadth-first search), it
takes a smallest counterexample instead, which the well-foundedness of `<` and of the
strict subset order provides.

`TypeOK` of `CreditLedger` and `SqliteLedger` is proved, so their runs do not
list it again.

Every safety invariant and action property that a passing run checks is stated
by a theorem. Only model-checked are `LocksAreReleased` and `RunEnds`: they are
liveness, which stays with TLC, as does every use of fairness.

## 5. Disagreements found

* `comment_cancel` – README.md:647 and the V3.1.4 reliability contract promise
  that what was completed before a cancellation can be downloaded. When the
  token is set while generated comments wait for insertion, the insertion loop
  stops before its first symbol, and the comments the log reports as generated
  are in neither file. If a symbol failed as well and nothing else was entered,
  the run reports total failure and writes no file.
* `comment_lines` – inserting from the bottom up protects line numbers within
  one pass, as the comments in `_process_python` and `_process_java` say; but
  the generation pass follows a translation pass that has already changed
  lengths. A Java comment can land inside another symbol's comment; in Python
  it is refused by the syntax check or raises an `IndexError` that nothing
  catches. In `comment_run`, `AnnotationIsSound` shows what does hold: comments
  are in place when nothing was translated, and no line of the program is lost that
  shares none with a replaced comment.
* `stop_button` – ui.py:548 says later frames keep the newest token; they
  store `None` over it, so that only a press during the first frame is heard.

Two more follow from what the passing properties allow, and have no run of their own.

* Shared lines – a comment is replaced by whole lines (annotator.py:147,
  java_annotator.py:96), and what else stands on them is lost: `x = 1` in
  `"doc"; x = 1`, a field that shares a line with the Javadoc of the method below
  it, or a whole one-line definition `def f(): "doc"` below another. The
  checks that follow accept such a result, as it parses. The comment at
  annotator.py:143 and the docstring at java_annotator.py:73 speak of replacing the
  comment. `AnnotationIsSound` says exactly what is lost, and that nothing else is.
* Leftovers of failed writes – a file whose write failed is packed all the same,
  empty or cut short: opening it for writing has created it in the directory that is packed. It
  can also take the place of an earlier success of the same path. The log of a cancelled
  batch says that only successes are returned (processor.py:2300).
  `ArchiveHoldsSuccesses` shows what does hold: every success has its entry, and
  entries of others come from failed writes alone.

## 6. Not modelled, and why

`get_request`, `history_of` and the administrative queries,
which only read; argument validation before the first lock, which the sets of
calls stand for; schema creation of the ledger and of the administrative
service; the recognition of declarations, prompts,
response clean-up, Markdown, diff and translations of the interface, which are
text processing without state; connectivity check and cost estimate, which are
pure I/O and arithmetic for display. The variants of `process_code` without
frames share the control of the one that is modelled.

Workspace: three short functions; the overlap of two saves through one
temporary name is listed as a hazard, but nothing else reads the file, and
`load` drops what is not a whole document. `scripts/dev.py` starts
subprocesses one after another. Of the experiments: the evidence audit and
approval records (`reference.py`) are one approval here; schemas, synthetic
runs, strata, performance metadata and the comparison of runtime contracts are
left out, and a process that imported its modules before a checkout (the model
has one code per checkout). The extraction limits of archives enter as the
kind of an upload. BM25 and the embedding model are inputs.

## 7. Plan

Order of the work, most important behaviour first; 1 to 12 are done.

1. `CreditDomain`, `CreditLedger`, with proofs.
2. `SqliteLedger` refining it, with proofs.
3. `ManagedAccess` refining `ManagedLifecycle`, with proofs.
4. `AdminCredit`, `Pricing`.
5. `CommentRun`, `StopButton`, first proof.
6. `ProviderConfig`, `BatchRun`.
7. `SourceSymbols`, `ProjectIndex`, `SnapshotAnalysis`, `Retrieval`,
   `ProjectIntelligence`, with proofs about the index.
8. `ArtifactStore`, `Benchmark`, `ExperimentRun`, with proofs about artifacts
   and manifests.
9. `SchemaMigration`: columns added one by one, failures and restarts, rows of
   the old version replayed; the proof about `BatchRun`.
10. Proofs about `AdminCredit` and `SchemaMigration`, about answers and reservations in
    `ManagedAccess` and `SqliteLedger`, and about what `CommentRun`, `BatchRun` and
    `ExperimentRun` deliver.
11. Proofs about prices and policy ids; `ScoresAreSound`.
12. The proofs about import cycles and about answers, over the whole of
    `ProjectIntelligence`.
