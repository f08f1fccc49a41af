--------------------------- MODULE ExperimentRun ---------------------------
(***************************************************************************)
(* Evidence from a Git repository that people go on editing.  A benchmark   *)
(* process validates a request against the committed authority, binds the   *)
(* frozen sources, validates again, computes, and publishes a run; a formal *)
(* run needs a committed receipt of dry runs.  Each validation reads the    *)
(* repository twice, the files of the authority and then Git's view of the  *)
(* code and the receipt; anybody may edit, commit or check out in between.  *)
(* A refusal raises and leaves nothing: it is Stop.                         *)
(* The frozen data and documents are one tracked value, a package, and the  *)
(* gate index stands with the closure record that must name its approval.   *)
(***************************************************************************)
EXTENDS ArtifactStore, Benchmark

CONSTANTS
    Revisions,        \* contents of the three code directories
    Packages,         \* the packages people switch between, within DOMAIN Corpora
    PackageOf,        \* approval -> package its record binds
    Approved,         \* approvals with status "approved"
    Matrix,           \* configuration -> [unit, semantic, diagnostic]
    Answers,          \* configuration -> answers its strategy may give
    RunIds,           \* configuration and mode -> names people give such runs
    MaxChanges, MaxLaunches, MaxReceipts, MaxStops

VARIABLES
    history,    \* commits, a parent before its children
    head,
    work,       \* tracked files of the checkout: [code, package, gate]
    proc,       \* benchmark process -> None or the request it works on
    published,  \* auxiliary: every publication, with what really produced it
    changes, launches, stops   \* bounded

repository == <<history, head, work>>
vars == <<dirs, writers, history, head, work, proc, published, changes, launches, stops>>

ASSUME PackagesAreCorpora == Packages \subseteq DOMAIN Corpora
ASSUME ApprovalsBindCorpora == \A a \in Approved : PackageOf[a] \in DOMAIN Corpora

TreeOf(c) == [code |-> history[c].code, package |-> history[c].package, gate |-> history[c].gate]

\* git merge-base --is-ancestor, a commit being its own.
AncestorsIn(commits, c) ==
    LET of[d \in 0..Len(commits)] ==
            IF d = 0 THEN {} ELSE {d} \cup of[commits[d].parent]
    IN  of[c]
Ancestors(c) == AncestorsIn(history, c)

Mode(formal) == IF formal THEN "formal" ELSE "dry_run"
Split(mode) == IF mode = "formal" THEN "english_test" ELSE "english_dev"
QueriesOf(package, mode) ==
    {q \in DOMAIN Corpora[package].queries : Corpora[package].queries[q].split = Split(mode)}

------------------------------------------------------------------------------
(* The authority.                                                           *)

\* raw_bytes: what is on disk is what HEAD holds.
Committed(path) ==
    /\ path \in DOMAIN history[head].artifacts
    /\ path \in DOMAIN dirs
    /\ dirs[path] = history[head].artifacts[path]

\* validate_formal_eligibility up to the configuration: the gate is closed on
\* this approval and every frozen file is the committed one the approval binds.
AuthorityHolds(approval) ==
    /\ work.package = history[head].package
    /\ work.gate = history[head].gate
    /\ approval # None
    /\ work.gate = approval
    /\ approval \in Approved
    /\ PackageOf[approval] = work.package

\* verify_execution_code
CodeHolds(revision) ==
    /\ revision \in Ancestors(head)
    /\ work.code = history[head].code
    /\ history[revision].code = history[head].code

\* artifact_archive_commit: the newest commit that added the path.
ArchiveCommits(path) ==
    {c \in Ancestors(head) :
        /\ path \in DOMAIN history[c].artifacts
        /\ history[c].parent # 0 => path \notin DOMAIN history[history[c].parent].artifacts}
ArchiveCommit(path) == Max(ArchiveCommits(path))

RunPath(id) == <<"runs", id>>
ReceiptPath(receipt) == <<"receipts", receipt>>
ManifestOf(files) == files["run_manifest.json"]
AggregateOf(files) == files["aggregate_results.json"]
RawOf(files) == files["raw_results.jsonl"]

\* One row of _validate_dry_run_receipt.
RunCounts(receipt, config) ==
    LET run == receipt.runs[config]
        manifest == ManifestOf(run.files)
    IN  /\ Committed(RunPath(run.id))
        /\ dirs[RunPath(run.id)] = run.files
        /\ manifest.id = run.id
        /\ manifest.config = config
        /\ manifest.mode = "dry_run"
        /\ manifest.approval = receipt.approval
        /\ manifest.revision = receipt.revision
        /\ AggregateOf(run.files).status = "success"
        /\ AggregateOf(run.files).degraded = 0
        /\ DOMAIN RawOf(run.files) = QueriesOf(PackageOf[receipt.approval], "dry_run")

\* Fault: the archive commit need not precede the formal revision.
ReceiptHoldsSomewhere(receipt, approval, revision) ==
    /\ Committed(ReceiptPath(receipt))
    /\ receipt.approval = approval
    /\ \A config \in DOMAIN Matrix : RunCounts(receipt, config)
    /\ receipt.revision \in Ancestors(ArchiveCommit(ReceiptPath(receipt)))

\* What a formal request needs of its receipt: dry run revision, archive
\* commit and formal revision follow one another.
ReceiptHolds(receipt, approval, revision) ==
    /\ Committed(ReceiptPath(receipt))
    /\ receipt.approval = approval
    /\ \A config \in DOMAIN Matrix : RunCounts(receipt, config)
    /\ receipt.revision \in Ancestors(ArchiveCommit(ReceiptPath(receipt)))
    /\ ArchiveCommit(ReceiptPath(receipt)) \in Ancestors(revision)

------------------------------------------------------------------------------
(* People.                                                                  *)

People(action) ==
    /\ changes < MaxChanges
    /\ changes' = changes + 1
    /\ action
    /\ UNCHANGED <<writers, proc, published, launches, stops>>

EditCode ==
    /\ \E code \in Revisions \ {work.code} : work' = [work EXCEPT !.code = code]
    /\ UNCHANGED <<history, head, dirs>>

EditPackage ==
    /\ \E package \in Packages \ {work.package} : work' = [work EXCEPT !.package = package]
    /\ UNCHANGED <<history, head, dirs>>

SetGate ==
    /\ \E gate \in (DOMAIN PackageOf \cup {None}) \ {work.gate} : work' = [work EXCEPT !.gate = gate]
    /\ UNCHANGED <<history, head, dirs>>

Commit ==
    /\ history' = Append(history, [parent |-> head, code |-> work.code, package |-> work.package,
                                   gate |-> work.gate, artifacts |-> Restrict(dirs, Final)])
    /\ head' = Len(history) + 1
    /\ UNCHANGED <<work, dirs>>

\* Tracked directories follow the commit, others stay; git refuses to lose an
\* edit or to overwrite an untracked directory.
Checkout ==
    \E c \in DOMAIN history \ {head} :
        LET tracked == DOMAIN history[head].artifacts
            arriving == history[c].artifacts
            kept == Restrict(dirs, DOMAIN dirs \ tracked)
        IN  /\ work = TreeOf(head)
            /\ DOMAIN arriving \cap DOMAIN kept = {}
            /\ dirs' = [d \in DOMAIN arriving \cup DOMAIN kept |->
                           IF d \in DOMAIN arriving THEN arriving[d] ELSE kept[d]]
            /\ head' = c
            /\ work' = TreeOf(c)
            /\ UNCHANGED history

------------------------------------------------------------------------------
(* Benchmark processes.                                                     *)

Idle(w) == proc[w] = None /\ w \notin DOMAIN writers
InPhase(w, phase) == proc[w] # None /\ proc[w].phase = phase
Move(w, request) == proc' = [proc EXCEPT ![w] = request]

\* The second half of a validation: code and receipt.
Verified(request) ==
    /\ CodeHolds(request.revision)
    /\ request.mode = "formal" => ReceiptHolds(request.receipt, request.approval, request.revision)

\* A first validate_formal_eligibility of what somebody asks for: configuration,
\* revision, run id, and the receipt of a formal run.  It is one step here; the
\* runner repeats it, and there its two reads are apart.
Request(w) ==
    /\ launches < MaxLaunches
    /\ Idle(w)
    /\ AuthorityHolds(work.gate)
    /\ \E config \in DOMAIN Matrix, revision \in DOMAIN history,
          receipt \in {None} \cup {d[2] : d \in {d \in Final : d[1] = "receipts"}} :
         \E id \in RunIds[config][Mode(receipt # None)] :
           LET request == [phase |-> "issued", config |-> config, mode |-> Mode(receipt # None),
                           revision |-> revision, id |-> id, receipt |-> receipt,
                           approval |-> work.gate, sources |-> None, code |-> None]
           IN  Verified(request) /\ Move(w, request)
    /\ launches' = launches + 1
    /\ UNCHANGED <<storeVars, repository, published, changes, stops>>

\* Fault: the bytes found are bound whatever the manifest says.
AnySources(package, approval) == TRUE

\* bind_project: the bytes read have the hashes of the frozen manifest.
SourcesMatch(package, approval) == package = PackageOf[approval]

\* prepare_frozen_execution reads the fixtures from the checkout.
Prepare(w) ==
    /\ InPhase(w, "issued")
    /\ SourcesMatch(work.package, proc[w].approval)
    /\ Move(w, [proc[w] EXCEPT !.phase = "prepared", !.sources = work.package])
    /\ UNCHANGED <<storeVars, repository, published, changes, launches, stops>>

\* BenchmarkRunner.run asks for the same authority again.
Renew(w) ==
    /\ InPhase(w, "prepared")
    /\ AuthorityHolds(proc[w].approval)
    /\ Move(w, [proc[w] EXCEPT !.phase = "renewing"])
    /\ UNCHANGED <<storeVars, repository, published, changes, launches, stops>>

\* Required ContextBuilder diagnostics come from successful queries only.
DiagnosticsComplete(config, results) ==
    config.diagnostic => \A q \in DOMAIN results : results[q].status = "success"

\* Of a result the file keeps here what a receipt is checked for; its ranking,
\* scores and means are Benchmark's.
RunFiles(request, results) ==
    LET diagnostic == Matrix[request.config].diagnostic
        common == {"aggregate_results.json", "raw_results.jsonl", "run_manifest.json"}
    IN  [file \in common \cup (IF diagnostic THEN {"context_diagnostics.json"} ELSE {}) |->
            CASE file = "raw_results.jsonl" ->
                    [q \in DOMAIN results |-> [status |-> results[q].status,
                                               degraded |-> results[q].degraded]]
              [] file = "aggregate_results.json" ->
                    [status |-> RunStatus(results), degraded |-> DegradedCount(results)]
              [] file = "run_manifest.json" ->
                    [id |-> request.id, config |-> request.config, mode |-> request.mode,
                     approval |-> request.approval, revision |-> request.revision]
              [] OTHER -> DOMAIN results]

\* The second read of the runner's validation.  Nothing of the repository is
\* read after it: the loop over the selected queries, the checks of its results
\* and the collision check of write_run_artifacts are one step with it.
Execute(w) ==
    /\ InPhase(w, "renewing")
    /\ Verified(proc[w])
    /\ LET config == Matrix[proc[w].config]
           data == Corpora[proc[w].sources]
           selected == QueriesOf(proc[w].sources, proc[w].mode)
       IN  /\ selected # {}
           /\ \A q \in selected : Gradable(data, data.queries[q].evidence, config.unit)
           /\ \E answers \in [selected -> Answers[proc[w].config]] :
                 LET results == [q \in selected |-> QueryResult(data, q, config, answers[q])]
                 IN  /\ \A q \in selected :
                           results[q].status = "success" => RanksAreContiguous(answers[q].hits)
                     /\ DiagnosticsComplete(config, results)
                     /\ StartWriting(w, RunPath(proc[w].id), RunFiles(proc[w], results))
    /\ Move(w, [proc[w] EXCEPT !.phase = "writing", !.code = work.code])
    /\ UNCHANGED <<repository, published, changes, launches, stops>>

\* Somebody lists one published run per configuration in a receipt that takes
\* its approval and revision from one of them; its files are checked only when
\* a formal run asks.  The directory is named for the record it holds.
WriteReceipt(w) ==
    /\ Idle(w)
    /\ Cardinality({d \in Final : d[1] = "receipts"})
         + Cardinality({v \in DOMAIN writers : proc[v] = None}) < MaxReceipts
    /\ \E runs \in [DOMAIN Matrix -> {d \in Final : d[1] = "runs"}], config \in DOMAIN Matrix :
          LET stated == ManifestOf(dirs[runs[config]])
              receipt == [approval |-> stated.approval, revision |-> stated.revision,
                          runs |-> [c \in DOMAIN Matrix |-> [id |-> runs[c][2], files |-> dirs[runs[c]]]]]
          IN  /\ IsInjective(runs)
              /\ StartWriting(w, ReceiptPath(receipt),
                              [file \in {"record.json", "record.json.sha256"} |-> receipt])
    /\ UNCHANGED <<repository, proc, published, changes, launches, stops>>

Write(w) == WriteFile(w) /\ UNCHANGED <<repository, proc, published, changes, launches, stops>>

Finish(w) ==
    /\ Publish(w)
    /\ published' = IF proc[w] = None THEN published
                    ELSE published \cup {[manifest |-> ManifestOf(dirs[Target(w)]),
                                          queries |-> DOMAIN RawOf(dirs[Target(w)]),
                                          sources |-> proc[w].sources, code |-> proc[w].code]}
    /\ Move(w, None)
    /\ UNCHANGED <<repository, changes, launches, stops>>

\* A check refuses, a write fails, or the process dies.
Stop(w) ==
    /\ stops < MaxStops
    /\ stops' = stops + 1
    /\ \/ Abandon(w)
       \/ proc[w] # None /\ w \notin DOMAIN writers /\ UNCHANGED storeVars
    /\ Move(w, None)
    /\ UNCHANGED <<repository, published, changes, launches>>

------------------------------------------------------------------------------
\* A clean checkout of the later of two commits, with no evidence yet; the code
\* changed between them.
Init ==
    /\ StoreInit
    /\ LET code == CHOOSE c \in Revisions : TRUE
           approval == CHOOSE a \in Approved : TRUE
       IN  history = [c \in 1..2 |->
                         [parent |-> c - 1, package |-> PackageOf[approval], gate |-> approval,
                          code |-> IF c = 2 THEN code ELSE CHOOSE d \in Revisions \ {code} : TRUE,
                          artifacts |-> [d \in {} |-> {}]]]
    /\ head = 2
    /\ work = TreeOf(head)
    /\ proc = [w \in Writers |-> None]
    /\ published = {}
    /\ changes = 0
    /\ launches = 0
    /\ stops = 0

Process(w) ==
    \/ Request(w)
    \/ Prepare(w)
    \/ Renew(w)
    \/ Execute(w)
    \/ WriteReceipt(w)
    \/ Write(w)
    \/ Finish(w)
    \/ Stop(w)

Person ==
    \/ People(EditCode)
    \/ People(EditPackage)
    \/ People(SetGate)
    \/ People(Commit)
    \/ People(Checkout)

Next == Person \/ \E w \in Writers : Process(w)

Spec == Init /\ [][Next]_vars

------------------------------------------------------------------------------
(* Properties.                                                              *)

\* An approved record on which some commit closed the gate, beside the frozen
\* files that the record binds.
Authorized(approval) ==
    /\ approval \in Approved
    /\ \E c \in DOMAIN history : history[c].gate = approval /\ history[c].package = PackageOf[approval]

\* A formal result has its authority and its dry runs behind it: the history
\* holds a gate closed on its approval, and the history of the revision it
\* declares a receipt, archived no earlier than the dry runs' revision, of a
\* complete and successful dry run of every configuration on that approval.
\* No edit, commit, checkout or crash between the two validations and the
\* publication yields a formal result without them.
FormalRunsAreBacked ==
    \A run \in published :
        run.manifest.mode = "formal" =>
          /\ Authorized(run.manifest.approval)
          /\ \E c \in Ancestors(run.manifest.revision) :
                \E d \in DOMAIN history[c].artifacts :
                    /\ d[1] = "receipts"
                    /\ d[2].revision \in Ancestors(c)
                    /\ \A config \in DOMAIN Matrix :
                          LET dry == d[2].runs[config].files
                              expected == [id |-> d[2].runs[config].id, config |-> config,
                                           mode |-> "dry_run",
                                           approval |-> run.manifest.approval,
                                           revision |-> d[2].revision]
                          IN  /\ ManifestOf(dry) = expected
                              /\ \A q \in DOMAIN RawOf(dry) :
                                    RawOf(dry)[q].status = "success" /\ ~ RawOf(dry)[q].degraded

\* A result is what its manifest says: computed from the sources the approval
\* binds, though the checkout may have shown others while they were read, by
\* code on disk equal to the declared revision's when the request was renewed.
ResultsAreAuthentic ==
    \A run \in published :
        LET manifest == run.manifest
        IN  /\ run.sources = PackageOf[manifest.approval]
            /\ run.code = history[manifest.revision].code
            /\ run.queries = QueriesOf(PackageOf[manifest.approval], manifest.mode)

\* Whatever the strategies answer, the scores and means of a published run are
\* sound: see ScoreIsSound and SummaryIsSound.
ScoresAreSound == \A run \in published : run.sources \in SoundlyScored

\* Every query a published run answered has a valid truth, by which its files,
\* chunks and symbols are graded alike, and so are those of the sample corpora:
\* see GradesAgree.
UnitsAgree ==
    \A run \in published :
        {<<run.sources, q>> : q \in run.queries} \cup {x \in Validated : x[1] \notin Packages}
            \subseteq EvenlyGraded
=============================================================================
