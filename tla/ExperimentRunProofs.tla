------------------------- MODULE ExperimentRunProofs -------------------------
(***************************************************************************)
(* Theorems about ExperimentRun, for any number of processes, any history   *)
(* of edits, commits and checkouts, any frozen data and any strategies:     *)
(* what lies under a final name is whole, what a result says of itself is   *)
(* true, a formal result has its dry runs in the history, all units of      *)
(* retrieval are graded by the same truth, and scores and means are sound.  *)
(* Sums over finite sets are those of CreditDomainProofs.                   *)
(***************************************************************************)
EXTENDS ExperimentRun, CreditDomainProofs, FiniteSetTheorems, WellFoundedInduction, TLAPS

\* The temporary directory of a writer holds a part of what it was started
\* with, and its checksums only beside all of it.
IsBegun(files, contents) ==
    /\ DOMAIN files \subseteq DOMAIN contents \cup {Checksums}
    /\ \A f \in DOMAIN files \ {Checksums} : files[f] = contents[f]
    /\ Checksums \in DOMAIN files =>
          /\ DOMAIN contents \subseteq DOMAIN files
          /\ files[Checksums] = contents

\* What one writer was started with.
IsWriting(job) ==
    /\ Checksums \notin DOMAIN job.contents
    /\ job.contents = [f \in DOMAIN job.contents |-> job.contents[f]]
    /\ ~ IsPending(job.path)

JobsAreBegun ==
    \A w \in DOMAIN writers :
        /\ IsWriting(writers[w])
        /\ Target(w) \in DOMAIN dirs
        /\ IsBegun(dirs[Target(w)], writers[w].contents)

\* A commit holds whole directories only, so a checkout brings back no other.
IsArchive(artifacts) == \A d \in DOMAIN artifacts : ~ IsPending(d) /\ IsWhole(artifacts[d])

HistoryIsWhole ==
    /\ \E S : history \in Seq(S)
    /\ head \in DOMAIN history
    /\ \A c \in DOMAIN history : IsArchive(history[c].artifacts)

StoreInvariant == JobsAreBegun /\ ArtifactsAreWhole /\ HistoryIsWhole

------------------------------------------------------------------------------
(* A writer's temporary directory is its own, and no final one.             *)
LEMMA PendingIsOwn ==
    ASSUME NEW v, NEW w, NEW p, NEW q
    PROVE  /\ IsPending(Pending(v, p))
           /\ Pending(v, p) = <<"pending", v>>
           /\ Pending(v, p) = Pending(w, q) => v = w
  BY DEF Pending, IsPending

(* A complete temporary directory is a whole one.                           *)
LEMMA CompletedIsWhole ==
    ASSUME NEW files, NEW job, IsWriting(job), IsBegun(files, job.contents),
           Checksums \in DOMAIN files
    PROVE  IsWhole(files)
<1>1. DOMAIN files \ {Checksums} = DOMAIN job.contents
  BY DEF IsBegun, IsWriting
<1>2. \A f \in DOMAIN files \ {Checksums} : files[f] = job.contents[f]
  BY DEF IsBegun
<1>3. files[Checksums] = [f \in DOMAIN job.contents |-> job.contents[f]]
  BY DEF IsBegun, IsWriting
<1> QED BY <1>1, <1>2, <1>3 DEF IsWhole

------------------------------------------------------------------------------
(* The steps of a writer (artifacts.py write_run_artifacts).                *)
LEMMA StartKeepsTheStore ==
    ASSUME JobsAreBegun, ArtifactsAreWhole, NEW w, NEW path, NEW contents,
           contents = [f \in DOMAIN contents |-> contents[f]],
           StartWriting(w, path, contents)
    PROVE  JobsAreBegun' /\ ArtifactsAreWhole'
<1> DEFINE mine == Pending(w, path)
           job == [path |-> path, contents |-> contents]
<1>1. /\ DOMAIN writers' = DOMAIN writers \cup {w}
      /\ writers'[w] = job
      /\ \A v \in DOMAIN writers : v # w /\ writers'[v] = writers[v]
  BY DEF StartWriting, Assign
<1>2. /\ DOMAIN dirs' = DOMAIN dirs \cup {mine}
      /\ dirs'[mine] = [f \in {} |-> {}]
      /\ \A d \in DOMAIN dirs \ {mine} : dirs'[d] = dirs[d]
  BY DEF StartWriting, Assign
<1>3. IsPending(mine)
  BY PendingIsOwn
<1>4. ArtifactsAreWhole'
  BY <1>2, <1>3 DEF ArtifactsAreWhole, Final
<1>5. SUFFICES ASSUME NEW v \in DOMAIN writers'
               PROVE  /\ IsWriting(writers'[v])
                      /\ Target(v)' \in DOMAIN dirs'
                      /\ IsBegun(dirs'[Target(v)'], writers'[v].contents)
  BY <1>4 DEF JobsAreBegun
<1>6. CASE v = w
  <2>1. Target(v)' = mine
    BY <1>6, <1>1 DEF Target
  <2>2. IsWriting(job)
    BY DEF StartWriting, IsWriting
  <2>3. IsBegun([f \in {} |-> {}], contents)
    BY DEF IsBegun
  <2> QED BY <2>1, <2>2, <2>3, <1>1, <1>2, <1>6
<1>7. CASE v # w
  <2>1. v \in DOMAIN writers /\ writers'[v] = writers[v]
    BY <1>7, <1>1
  <2>2. Target(v)' = Target(v) /\ Target(v) # mine
    BY <2>1, <1>7, PendingIsOwn DEF Target
  <2> QED BY <2>1, <2>2, <1>2 DEF JobsAreBegun
<1> QED BY <1>6, <1>7

LEMMA WriteKeepsTheStore ==
    ASSUME JobsAreBegun, ArtifactsAreWhole, NEW w, WriteFile(w)
    PROVE  JobsAreBegun' /\ ArtifactsAreWhole'
<1> DEFINE mine == Target(w)
           contents == writers[w].contents
           written == dirs[mine]
<1>1. w \in DOMAIN writers /\ Checksums \notin DOMAIN written /\ writers' = writers
  BY DEF WriteFile
<1>2. IsWriting(writers[w]) /\ mine \in DOMAIN dirs /\ IsBegun(written, contents)
  BY <1>1 DEF JobsAreBegun
<1>3. PICK files : dirs' = Assign(dirs, mine, files) /\ IsBegun(files, contents)
  <2>1. CASE Unwritten(w) = {}
    <3> DEFINE files == Assign(written, Checksums, contents)
    <3>1. /\ DOMAIN files = DOMAIN written \cup {Checksums}
          /\ files[Checksums] = contents
          /\ \A y \in DOMAIN written : files[y] = written[y]
      BY <1>1 DEF Assign
    <3>2. DOMAIN contents \subseteq DOMAIN written
      BY <2>1 DEF Unwritten
    <3>3. IsBegun(files, contents)
      BY <3>1, <3>2, <1>2 DEF IsBegun
    <3>4. dirs' = Assign(dirs, mine, files)
      BY <2>1 DEF WriteFile
    <3> QED BY <3>3, <3>4
  <2>2. CASE Unwritten(w) # {}
    <3> DEFINE file == CHOOSE f \in Unwritten(w) : TRUE
               files == Assign(written, file, contents[file])
    <3>1. file \in DOMAIN contents \ DOMAIN written /\ file # Checksums
      BY <2>2, <1>2 DEF Unwritten, IsWriting
    <3>2. /\ DOMAIN files = DOMAIN written \cup {file}
          /\ files[file] = contents[file]
          /\ \A y \in DOMAIN written : files[y] = written[y]
      BY <3>1 DEF Assign
    <3>3. IsBegun(files, contents)
      BY <3>1, <3>2, <1>1, <1>2 DEF IsBegun
    <3>4. dirs' = Assign(dirs, mine, files)
      BY <2>2 DEF WriteFile
    <3> QED BY <3>3, <3>4
  <2> QED BY <2>1, <2>2
<1>4. /\ DOMAIN dirs' = DOMAIN dirs
      /\ dirs'[mine] = files
      /\ \A d \in DOMAIN dirs \ {mine} : dirs'[d] = dirs[d]
  BY <1>2, <1>3 DEF Assign
<1>5. IsPending(mine)
  BY PendingIsOwn DEF Target
<1>6. ArtifactsAreWhole'
  BY <1>4, <1>5 DEF ArtifactsAreWhole, Final
<1>7. SUFFICES ASSUME NEW v \in DOMAIN writers
               PROVE  /\ IsWriting(writers[v])
                      /\ Target(v) \in DOMAIN dirs'
                      /\ IsBegun(dirs'[Target(v)], writers[v].contents)
  BY <1>1, <1>6 DEF JobsAreBegun, Target
<1>8. CASE v = w
  BY <1>8, <1>2, <1>3, <1>4
<1>9. CASE v # w
  <2>1. Target(v) # mine
    BY <1>9, PendingIsOwn DEF Target
  <2> QED BY <2>1, <1>4 DEF JobsAreBegun
<1> QED BY <1>8, <1>9

LEMMA PublishKeepsTheStore ==
    ASSUME JobsAreBegun, ArtifactsAreWhole, NEW w, Publish(w)
    PROVE  JobsAreBegun' /\ ArtifactsAreWhole'
<1> DEFINE mine == Target(w)
           path == writers[w].path
<1>1. /\ w \in DOMAIN writers
      /\ Checksums \in DOMAIN dirs[mine]
      /\ path \notin DOMAIN dirs \ {mine}
  BY DEF Publish
<1>2. IsWriting(writers[w]) /\ mine \in DOMAIN dirs /\ IsBegun(dirs[mine], writers[w].contents)
  BY <1>1 DEF JobsAreBegun
<1>3. IsPending(mine) /\ ~ IsPending(path)
  BY <1>2, PendingIsOwn DEF Target, IsWriting
<1>4. /\ DOMAIN dirs' = (DOMAIN dirs \ {mine}) \cup {path}
      /\ dirs'[path] = dirs[mine]
      /\ \A d \in DOMAIN dirs \ {mine} : dirs'[d] = dirs[d]
  <2> DEFINE rest == Without(dirs, {mine})
  <2>1. DOMAIN rest = DOMAIN dirs \ {mine} /\ \A d \in DOMAIN dirs \ {mine} : rest[d] = dirs[d]
    BY DEF Without
  <2>2. dirs' = Assign(rest, path, dirs[mine])
    BY DEF Publish
  <2> HIDE DEF rest
  <2> QED BY <2>1, <2>2, <1>1 DEF Assign
<1>5. /\ DOMAIN writers' = DOMAIN writers \ {w}
      /\ \A v \in DOMAIN writers \ {w} : writers'[v] = writers[v]
  BY DEF Publish, Without
<1>6. IsWhole(dirs[mine])
  BY <1>1, <1>2, CompletedIsWhole
<1>7. ArtifactsAreWhole'
  BY <1>3, <1>4, <1>6 DEF ArtifactsAreWhole, Final
<1>8. SUFFICES ASSUME NEW v \in DOMAIN writers'
               PROVE  /\ IsWriting(writers'[v])
                      /\ Target(v)' \in DOMAIN dirs'
                      /\ IsBegun(dirs'[Target(v)'], writers'[v].contents)
  BY <1>7 DEF JobsAreBegun
<1>9. v \in DOMAIN writers /\ v # w /\ writers'[v] = writers[v]
  BY <1>5
<1>10. Target(v)' = Target(v) /\ Target(v) # mine /\ Target(v) \in DOMAIN dirs
  BY <1>9, PendingIsOwn DEF Target, JobsAreBegun
<1>11. dirs'[Target(v)] = dirs[Target(v)]
  BY <1>4, <1>10
<1> QED BY <1>9, <1>10, <1>11, <1>4 DEF JobsAreBegun

LEMMA AbandonKeepsTheStore ==
    ASSUME JobsAreBegun, ArtifactsAreWhole, NEW w, Abandon(w)
    PROVE  JobsAreBegun' /\ ArtifactsAreWhole'
<1> DEFINE mine == <<"pending", w>>
<1>1. /\ DOMAIN dirs' = DOMAIN dirs \ {mine}
      /\ \A d \in DOMAIN dirs \ {mine} : dirs'[d] = dirs[d]
  BY DEF Abandon, Without
<1>2. /\ DOMAIN writers' = DOMAIN writers \ {w}
      /\ \A v \in DOMAIN writers \ {w} : writers'[v] = writers[v]
  BY DEF Abandon, Without
<1>3. ArtifactsAreWhole'
  BY <1>1 DEF ArtifactsAreWhole, Final
<1>4. SUFFICES ASSUME NEW v \in DOMAIN writers'
               PROVE  /\ IsWriting(writers'[v])
                      /\ Target(v)' \in DOMAIN dirs'
                      /\ IsBegun(dirs'[Target(v)'], writers'[v].contents)
  BY <1>3 DEF JobsAreBegun
<1>5. v \in DOMAIN writers /\ v # w /\ writers'[v] = writers[v]
  BY <1>2
<1>6. Target(v)' = Target(v) /\ Target(v) # mine /\ Target(v) \in DOMAIN dirs
  BY <1>5, PendingIsOwn DEF Target, JobsAreBegun
<1> QED BY <1>1, <1>5, <1>6 DEF JobsAreBegun
------------------------------------------------------------------------------
(* People: an edit leaves the directories alone, a commit takes the whole   *)
(* ones, and a checkout brings back those of an earlier commit.             *)
LEMMA CommitKeepsTheStore ==
    ASSUME StoreInvariant, People(Commit)
    PROVE  /\ StoreInvariant'
           /\ DOMAIN history \subseteq DOMAIN history'
           /\ \A c \in DOMAIN history : history'[c] = history[c]
<1> DEFINE artifacts == Restrict(dirs, Final)
           commit == [parent |-> head, code |-> work.code, package |-> work.package,
                      gate |-> work.gate, artifacts |-> artifacts]
<1>1. history' = Append(history, commit) /\ head' = Len(history) + 1 /\ dirs' = dirs /\ writers' = writers
  BY DEF People, Commit
<1>2. IsArchive(artifacts)
  BY DEF IsArchive, Restrict, Final, StoreInvariant, ArtifactsAreWhole
<1> HIDE DEF artifacts
<1>3. commit.artifacts = artifacts
  OBVIOUS
<1> HIDE DEF commit
<1>4. PICK S : history \in Seq(S)
  BY DEF StoreInvariant, HistoryIsWhole
<1>5. history \in Seq(S \cup {commit})
  BY <1>4
<1>6. history' \in Seq(S \cup {commit})
  BY <1>1, <1>5
<1>7. /\ DOMAIN history' = DOMAIN history \cup {Len(history) + 1}
      /\ history'[Len(history) + 1] = commit
      /\ \A c \in DOMAIN history : history'[c] = history[c]
  BY <1>1, <1>5
<1>8. HistoryIsWhole'
  BY <1>1, <1>2, <1>3, <1>6, <1>7 DEF StoreInvariant, HistoryIsWhole
<1>9. JobsAreBegun' /\ ArtifactsAreWhole'
  BY <1>1 DEF StoreInvariant, JobsAreBegun, ArtifactsAreWhole, Final, Target
<1> QED BY <1>7, <1>8, <1>9 DEF StoreInvariant

LEMMA CheckoutKeepsTheStore ==
    ASSUME StoreInvariant, People(Checkout)
    PROVE  StoreInvariant' /\ history' = history
<1>1. history' = history /\ writers' = writers
  BY DEF People, Checkout
<1>2. PICK c \in DOMAIN history \ {head} :
        LET tracked == DOMAIN history[head].artifacts
            arriving == history[c].artifacts
            kept == Restrict(dirs, DOMAIN dirs \ tracked)
        IN  /\ DOMAIN arriving \cap DOMAIN kept = {}
            /\ dirs' = [d \in DOMAIN arriving \cup DOMAIN kept |->
                           IF d \in DOMAIN arriving THEN arriving[d] ELSE kept[d]]
            /\ head' = c
  BY DEF People, Checkout
<1> DEFINE tracked == DOMAIN history[head].artifacts
           arriving == history[c].artifacts
<1>3. IsArchive(arriving) /\ IsArchive(history[head].artifacts)
  BY DEF StoreInvariant, HistoryIsWhole
<1>4. /\ DOMAIN dirs' = DOMAIN arriving \cup (DOMAIN dirs \ tracked)
      /\ \A d \in DOMAIN arriving : dirs'[d] = arriving[d]
      /\ \A d \in DOMAIN dirs \ tracked : d \notin DOMAIN arriving => dirs'[d] = dirs[d]
  BY <1>2 DEF Restrict
<1>5. ArtifactsAreWhole'
  BY <1>3, <1>4 DEF StoreInvariant, ArtifactsAreWhole, Final, IsArchive
<1>6. ASSUME NEW w \in DOMAIN writers
      PROVE  Target(w) \in DOMAIN dirs' /\ dirs'[Target(w)] = dirs[Target(w)]
  <2>1. Target(w) \in DOMAIN dirs /\ IsPending(Target(w))
    BY PendingIsOwn DEF StoreInvariant, JobsAreBegun, Target
  <2>2. Target(w) \notin tracked /\ Target(w) \notin DOMAIN arriving
    BY <2>1, <1>3 DEF IsArchive
  <2> QED BY <2>1, <2>2, <1>4
<1>7. JobsAreBegun'
  BY <1>1, <1>6 DEF StoreInvariant, JobsAreBegun, Target
<1>8. HistoryIsWhole'
  BY <1>1, <1>2 DEF StoreInvariant, HistoryIsWhole
<1> QED BY <1>1, <1>5, <1>7, <1>8 DEF StoreInvariant

LEMMA PeopleKeepTheStore ==
    ASSUME StoreInvariant, Person
    PROVE  /\ StoreInvariant'
           /\ DOMAIN history \subseteq DOMAIN history'
           /\ \A c \in DOMAIN history : history'[c] = history[c]
<1>1. CASE People(Commit)
  BY <1>1, CommitKeepsTheStore
<1>2. CASE People(Checkout)
  BY <1>2, CheckoutKeepsTheStore
<1>3. CASE People(EditCode) \/ People(EditPackage) \/ People(SetGate)
  <2>1. UNCHANGED <<dirs, writers, history, head>>
    BY <1>3 DEF People, EditCode, EditPackage, SetGate
  <2> QED BY <2>1 DEF StoreInvariant, JobsAreBegun, ArtifactsAreWhole, HistoryIsWhole, Final, Target
<1> QED BY <1>1, <1>2, <1>3 DEF Person

------------------------------------------------------------------------------
(* Processes.                                                               *)

\* A request keeps the fields that its updates and its checks need.
IsRequest(r) ==
    {"phase", "mode", "revision", "approval", "sources", "code"} \subseteq DOMAIN r

\* The manifest and the raw results of a run are what its process worked on.
SaysWhatItRan(contents, r) ==
    /\ {"run_manifest.json", "raw_results.jsonl"} \subseteq DOMAIN contents
    /\ ManifestOf(contents).approval = r.approval
    /\ ManifestOf(contents).revision = r.revision
    /\ ManifestOf(contents).mode = r.mode
    /\ DOMAIN RawOf(contents) = QueriesOf(r.sources, r.mode)

RequestIsSound(w) ==
    /\ IsRequest(proc[w])
    /\ proc[w].revision \in DOMAIN history
    /\ proc[w].phase # "issued" => proc[w].sources = PackageOf[proc[w].approval]
    /\ w \in DOMAIN writers =>
          /\ proc[w].phase = "writing"
          /\ proc[w].code = history[proc[w].revision].code
          /\ SaysWhatItRan(writers[w].contents, proc[w])

RequestsAreSound ==
    /\ DOMAIN proc = Writers
    /\ \A w \in Writers : proc[w] # None => RequestIsSound(w)

PublishedInvariant ==
    /\ ResultsAreAuthentic
    /\ \A run \in published : run.manifest.revision \in DOMAIN history

ExperimentInvariant == StoreInvariant /\ RequestsAreSound /\ PublishedInvariant

(* A step that leaves the repository alone keeps the commits whole.         *)
LEMMA SameRepositoryIsWhole ==
    ASSUME StoreInvariant, UNCHANGED repository, JobsAreBegun', ArtifactsAreWhole'
    PROVE  StoreInvariant'
  BY DEF StoreInvariant, repository, HistoryIsWhole

LEMMA SameStoreIsWhole ==
    ASSUME StoreInvariant, UNCHANGED <<storeVars, repository>>
    PROVE  StoreInvariant'
  BY DEF StoreInvariant, repository, storeVars, HistoryIsWhole, JobsAreBegun, ArtifactsAreWhole,
         Final, Target

(* Published results stay authentic while the history only grows.           *)
LEMMA PublishedStays ==
    ASSUME PublishedInvariant, UNCHANGED published,
           DOMAIN history \subseteq DOMAIN history',
           \A c \in DOMAIN history : history'[c] = history[c]
    PROVE  PublishedInvariant'
  BY DEF PublishedInvariant, ResultsAreAuthentic

(* A step of one process disturbs no other.                                 *)
LEMMA OthersStaySound ==
    ASSUME RequestsAreSound, NEW w \in Writers, NEW r, Move(w, r),
           DOMAIN history \subseteq DOMAIN history',
           \A c \in DOMAIN history : history'[c] = history[c],
           \A v \in DOMAIN writers' \ {w} : v \in DOMAIN writers /\ writers'[v] = writers[v],
           proc'[w] # None => RequestIsSound(w)'
    PROVE  RequestsAreSound'
<1>1. DOMAIN proc' = Writers /\ \A v \in Writers \ {w} : proc'[v] = proc[v]
  BY DEF RequestsAreSound, Move
<1>2. ASSUME NEW v \in Writers \ {w}, proc'[v] # None
      PROVE  RequestIsSound(v)'
  BY <1>1, <1>2 DEF RequestsAreSound, RequestIsSound
<1> QED BY <1>1, <1>2 DEF RequestsAreSound

LEMMA RequestKeepsTheInvariant ==
    ASSUME ExperimentInvariant, NEW w \in Writers, Request(w)
    PROVE  ExperimentInvariant'
<1>1. StoreInvariant'
  BY SameStoreIsWhole DEF ExperimentInvariant, Request
<1>2. PublishedInvariant'
  BY PublishedStays DEF ExperimentInvariant, Request, repository
<1>3. w \notin DOMAIN writers /\ writers' = writers /\ history' = history
  BY DEF Request, Idle, storeVars, repository
<1>4. PICK phase, config, mode, revision, id, receipt, approval :
        /\ phase = "issued" /\ revision \in DOMAIN history
        /\ Move(w, [phase |-> phase, config |-> config, mode |-> mode, revision |-> revision,
                    id |-> id, receipt |-> receipt, approval |-> approval,
                    sources |-> None, code |-> None])
  BY DEF Request
<1>5. proc'[w] = [phase |-> phase, config |-> config, mode |-> mode, revision |-> revision,
                  id |-> id, receipt |-> receipt, approval |-> approval,
                  sources |-> None, code |-> None]
  BY <1>4 DEF Move, ExperimentInvariant, RequestsAreSound
<1>6. RequestIsSound(w)'
  <2>1. IsRequest(proc'[w])
    BY <1>5 DEF IsRequest
  <2>2. proc'[w].revision = revision /\ proc'[w].phase = "issued"
    BY <1>4, <1>5
  <2> QED BY <2>1, <2>2, <1>3, <1>4 DEF RequestIsSound
<1>7. RequestsAreSound'
  BY <1>3, <1>4, <1>6, OthersStaySound DEF ExperimentInvariant
<1> QED BY <1>1, <1>2, <1>7 DEF ExperimentInvariant

(* The phases between: the sources are bound, then renewed.                 *)
LEMMA PrepareKeepsTheInvariant ==
    ASSUME ExperimentInvariant, NEW w \in Writers, Prepare(w)
    PROVE  ExperimentInvariant'
<1> DEFINE r == [proc[w] EXCEPT !.phase = "prepared", !.sources = work.package]
<1>1. StoreInvariant'
  BY SameStoreIsWhole DEF ExperimentInvariant, Prepare
<1>2. PublishedInvariant'
  BY PublishedStays DEF ExperimentInvariant, Prepare, repository
<1>3. writers' = writers /\ history' = history /\ Move(w, r)
  BY DEF Prepare, storeVars, repository
<1>4. RequestIsSound(w) /\ proc[w].phase = "issued" /\ work.package = PackageOf[proc[w].approval]
  BY DEF Prepare, InPhase, SourcesMatch, ExperimentInvariant, RequestsAreSound
<1>5. proc'[w] = r
  BY <1>3 DEF Move, ExperimentInvariant, RequestsAreSound
<1>6. IsRequest(r) /\ r.sources = work.package /\ r.approval = proc[w].approval
        /\ r.revision = proc[w].revision
  BY <1>4 DEF RequestIsSound, IsRequest
<1>7. RequestIsSound(w)'
  BY <1>3, <1>4, <1>5, <1>6 DEF RequestIsSound
<1>8. RequestsAreSound'
  BY <1>3, <1>7, OthersStaySound DEF ExperimentInvariant
<1> QED BY <1>1, <1>2, <1>8 DEF ExperimentInvariant

LEMMA RenewKeepsTheInvariant ==
    ASSUME ExperimentInvariant, NEW w \in Writers, Renew(w)
    PROVE  ExperimentInvariant'
<1> DEFINE r == [proc[w] EXCEPT !.phase = "renewing"]
<1>1. StoreInvariant'
  BY SameStoreIsWhole DEF ExperimentInvariant, Renew
<1>2. PublishedInvariant'
  BY PublishedStays DEF ExperimentInvariant, Renew, repository
<1>3. writers' = writers /\ history' = history /\ Move(w, r)
  BY DEF Renew, storeVars, repository
<1>4. RequestIsSound(w) /\ proc[w].phase = "prepared"
  BY DEF Renew, InPhase, ExperimentInvariant, RequestsAreSound
<1>5. proc'[w] = r
  BY <1>3 DEF Move, ExperimentInvariant, RequestsAreSound
<1>6. IsRequest(r) /\ r.sources = proc[w].sources /\ r.approval = proc[w].approval
        /\ r.revision = proc[w].revision
  BY <1>4 DEF RequestIsSound, IsRequest
<1>7. RequestIsSound(w)'
  BY <1>3, <1>4, <1>5, <1>6 DEF RequestIsSound
<1>8. RequestsAreSound'
  BY <1>3, <1>7, OthersStaySound DEF ExperimentInvariant
<1> QED BY <1>1, <1>2, <1>8 DEF ExperimentInvariant

(* The files of a run say what its request says.                            *)
LEMMA RunFilesSayWhatRan ==
    ASSUME NEW r, NEW results, DOMAIN results = QueriesOf(r.sources, r.mode)
    PROVE  /\ SaysWhatItRan(RunFiles(r, results), r)
           /\ RunFiles(r, results)
                = [f \in DOMAIN RunFiles(r, results) |-> RunFiles(r, results)[f]]
<1>1. /\ {"run_manifest.json", "raw_results.jsonl"} \subseteq DOMAIN RunFiles(r, results)
      /\ RunFiles(r, results)["run_manifest.json"]
           = [id |-> r.id, config |-> r.config, mode |-> r.mode,
              approval |-> r.approval, revision |-> r.revision]
      /\ RunFiles(r, results)["raw_results.jsonl"]
           = [q \in DOMAIN results |-> [status |-> results[q].status,
                                       degraded |-> results[q].degraded]]
  BY DEF RunFiles
<1>2. RunFiles(r, results) = [f \in DOMAIN RunFiles(r, results) |-> RunFiles(r, results)[f]]
  BY DEF RunFiles
<1> QED BY <1>1, <1>2 DEF SaysWhatItRan, ManifestOf, RawOf

LEMMA ExecuteKeepsTheInvariant ==
    ASSUME ExperimentInvariant, NEW w \in Writers, Execute(w)
    PROVE  ExperimentInvariant'
<1> DEFINE r == [proc[w] EXCEPT !.phase = "writing", !.code = work.code]
<1>1. history' = history /\ UNCHANGED repository /\ published' = published /\ Move(w, r)
  BY DEF Execute, repository
<1>2. /\ RequestIsSound(w) /\ proc[w].phase = "renewing"
      /\ work.code = history[proc[w].revision].code
  BY DEF Execute, InPhase, Verified, CodeHolds, ExperimentInvariant, RequestsAreSound
<1>3. PICK results : /\ DOMAIN results = QueriesOf(proc[w].sources, proc[w].mode)
                     /\ StartWriting(w, RunPath(proc[w].id), RunFiles(proc[w], results))
  BY DEF Execute
<1> DEFINE files == RunFiles(proc[w], results)
<1>4. SaysWhatItRan(files, proc[w]) /\ files = [f \in DOMAIN files |-> files[f]]
  BY <1>3, RunFilesSayWhatRan
<1> HIDE DEF files
<1>5. JobsAreBegun' /\ ArtifactsAreWhole'
  BY <1>3, <1>4, StartKeepsTheStore DEF ExperimentInvariant, StoreInvariant, files
<1>6. StoreInvariant'
  BY <1>1, <1>5, SameRepositoryIsWhole DEF ExperimentInvariant
<1>7. PublishedInvariant'
  BY <1>1, PublishedStays DEF ExperimentInvariant
<1>8. /\ writers'[w].contents = files
      /\ \A v \in DOMAIN writers' \ {w} : v \in DOMAIN writers /\ writers'[v] = writers[v]
  BY <1>3 DEF StartWriting, Assign, files
<1>9. proc'[w] = r
  BY <1>1 DEF Move, ExperimentInvariant, RequestsAreSound
<1>10. /\ IsRequest(r) /\ r.sources = proc[w].sources /\ r.approval = proc[w].approval
       /\ r.revision = proc[w].revision /\ r.mode = proc[w].mode
       /\ r.phase = "writing" /\ r.code = work.code
  BY <1>2 DEF RequestIsSound, IsRequest
<1>11. SaysWhatItRan(files, r)
  BY <1>4, <1>10 DEF SaysWhatItRan
<1>12. RequestIsSound(w)'
  BY <1>1, <1>2, <1>8, <1>9, <1>10, <1>11 DEF RequestIsSound
<1>13. RequestsAreSound'
  BY <1>1, <1>8, <1>12, OthersStaySound DEF ExperimentInvariant
<1> QED BY <1>6, <1>7, <1>13 DEF ExperimentInvariant

LEMMA WriteReceiptKeepsTheInvariant ==
    ASSUME ExperimentInvariant, NEW w \in Writers, WriteReceipt(w)
    PROVE  ExperimentInvariant'
<1>1. UNCHANGED <<repository, proc, published>> /\ history' = history /\ proc[w] = None
  BY DEF WriteReceipt, repository, Idle
<1>2. PICK receipt : StartWriting(w, ReceiptPath(receipt),
                                  [file \in {"record.json", "record.json.sha256"} |-> receipt])
  BY DEF WriteReceipt
<1>3. JobsAreBegun' /\ ArtifactsAreWhole'
  BY <1>2, StartKeepsTheStore DEF ExperimentInvariant, StoreInvariant
<1>4. StoreInvariant'
  BY <1>1, <1>3, SameRepositoryIsWhole DEF ExperimentInvariant
<1>5. PublishedInvariant'
  BY <1>1, PublishedStays DEF ExperimentInvariant
<1>6. \A v \in DOMAIN writers' \ {w} : v \in DOMAIN writers /\ writers'[v] = writers[v]
  BY <1>2 DEF StartWriting, Assign
<1>7. RequestsAreSound'
  BY <1>1, <1>6 DEF ExperimentInvariant, RequestsAreSound, RequestIsSound
<1> QED BY <1>4, <1>5, <1>7 DEF ExperimentInvariant

LEMMA WriteKeepsTheInvariant ==
    ASSUME ExperimentInvariant, NEW w \in Writers, Write(w)
    PROVE  ExperimentInvariant'
<1>1. UNCHANGED <<repository, proc, published, writers>> /\ history' = history
  BY DEF Write, WriteFile, repository
<1>2. StoreInvariant'
  BY <1>1, WriteKeepsTheStore, SameRepositoryIsWhole DEF Write, ExperimentInvariant, StoreInvariant
<1>3. PublishedInvariant'
  BY <1>1, PublishedStays DEF ExperimentInvariant
<1>4. RequestsAreSound'
  BY <1>1 DEF ExperimentInvariant, RequestsAreSound, RequestIsSound
<1> QED BY <1>2, <1>3, <1>4 DEF ExperimentInvariant

(* A publication is what its complete temporary directory says, which is    *)
(* what its process was started with (artifacts.py write_run_artifacts).    *)
LEMMA FinishKeepsTheInvariant ==
    ASSUME ExperimentInvariant, NEW w \in Writers, Finish(w)
    PROVE  ExperimentInvariant'
<1>1. UNCHANGED repository /\ history' = history /\ Publish(w) /\ Move(w, None)
  BY DEF Finish, repository
<1>2. StoreInvariant'
  BY <1>1, PublishKeepsTheStore, SameRepositoryIsWhole DEF ExperimentInvariant, StoreInvariant
<1>3. \A v \in DOMAIN writers' \ {w} : v \in DOMAIN writers /\ writers'[v] = writers[v]
  BY <1>1 DEF Publish, Without
<1>4. RequestsAreSound'
  <2>1. proc'[w] = None
    BY <1>1 DEF Move, ExperimentInvariant, RequestsAreSound
  <2> QED BY <2>1, <1>1, <1>3, OthersStaySound DEF ExperimentInvariant
<1>5. CASE proc[w] = None
  BY <1>5, <1>1, <1>2, <1>4, PublishedStays DEF Finish, ExperimentInvariant
<1>6. CASE proc[w] # None
  <2> DEFINE files == dirs[Target(w)]
             contents == writers[w].contents
             run == [manifest |-> ManifestOf(files), queries |-> DOMAIN RawOf(files),
                     sources |-> proc[w].sources, code |-> proc[w].code]
  <2>1. /\ w \in DOMAIN writers /\ Checksums \in DOMAIN files
        /\ IsWriting(writers[w]) /\ IsBegun(files, contents)
    BY <1>1 DEF Publish, ExperimentInvariant, StoreInvariant, JobsAreBegun
  <2>2. RequestIsSound(w)
    BY <1>6 DEF ExperimentInvariant, RequestsAreSound
  <2>3. SaysWhatItRan(contents, proc[w]) /\ proc[w].phase # "issued"
    BY <2>1, <2>2 DEF RequestIsSound
  <2>4. SaysWhatItRan(files, proc[w])
    <3>1. \A f \in DOMAIN contents : f \in DOMAIN files /\ files[f] = contents[f]
      BY <2>1 DEF IsBegun, IsWriting
    <3> QED BY <3>1, <2>3 DEF SaysWhatItRan, ManifestOf, RawOf
  <2>5. /\ run.sources = PackageOf[run.manifest.approval]
        /\ run.code = history[run.manifest.revision].code
        /\ run.queries = QueriesOf(PackageOf[run.manifest.approval], run.manifest.mode)
        /\ run.manifest.revision \in DOMAIN history
    BY <2>1, <2>2, <2>3, <2>4 DEF RequestIsSound, SaysWhatItRan
  <2>6. published' = published \cup {run}
    BY <1>6 DEF Finish
  <2> HIDE DEF run
  <2>7. PublishedInvariant'
    BY <2>5, <2>6, <1>1 DEF ExperimentInvariant, PublishedInvariant, ResultsAreAuthentic
  <2> QED BY <2>7, <1>2, <1>4 DEF ExperimentInvariant
<1> QED BY <1>5, <1>6

LEMMA StopKeepsTheInvariant ==
    ASSUME ExperimentInvariant, NEW w \in Writers, Stop(w)
    PROVE  ExperimentInvariant'
<1>1. UNCHANGED <<repository, published>> /\ history' = history /\ Move(w, None)
  BY DEF Stop, repository
<1>2. StoreInvariant' /\ \A v \in DOMAIN writers' \ {w} : v \in DOMAIN writers /\ writers'[v] = writers[v]
  <2>1. CASE Abandon(w)
    <3>1. StoreInvariant'
      BY <2>1, <1>1, AbandonKeepsTheStore, SameRepositoryIsWhole DEF ExperimentInvariant, StoreInvariant
    <3> QED BY <3>1, <2>1 DEF Abandon, Without
  <2>2. CASE UNCHANGED storeVars
    <3>1. StoreInvariant'
      BY <2>2, <1>1, SameStoreIsWhole DEF ExperimentInvariant
    <3> QED BY <3>1, <2>2 DEF storeVars
  <2> QED BY <2>1, <2>2 DEF Stop
<1>3. PublishedInvariant'
  BY <1>1, PublishedStays DEF ExperimentInvariant
<1>4. proc'[w] = None
  BY <1>1 DEF Move, ExperimentInvariant, RequestsAreSound
<1>5. RequestsAreSound'
  BY <1>1, <1>2, <1>4, OthersStaySound DEF ExperimentInvariant
<1> QED BY <1>2, <1>3, <1>5 DEF ExperimentInvariant

LEMMA PeopleKeepTheInvariant ==
    ASSUME ExperimentInvariant, Person
    PROVE  ExperimentInvariant'
<1>1. UNCHANGED <<writers, proc, published>>
  BY DEF Person, People
<1>2. /\ StoreInvariant'
      /\ DOMAIN history \subseteq DOMAIN history'
      /\ \A c \in DOMAIN history : history'[c] = history[c]
  BY PeopleKeepTheStore DEF ExperimentInvariant
<1>3. PublishedInvariant'
  BY <1>1, <1>2, PublishedStays DEF ExperimentInvariant
<1>4. RequestsAreSound'
  BY <1>1, <1>2 DEF ExperimentInvariant, RequestsAreSound, RequestIsSound
<1> QED BY <1>2, <1>3, <1>4 DEF ExperimentInvariant

------------------------------------------------------------------------------
(* The initial checkout has no evidence and no work under way.              *)
LEMMA InitEstablishesTheInvariant ==
    ASSUME Init
    PROVE  ExperimentInvariant
<1>1. DOMAIN dirs = {} /\ DOMAIN writers = {}
  BY DEF Init, StoreInit
<1>2. JobsAreBegun /\ ArtifactsAreWhole
  BY <1>1 DEF JobsAreBegun, ArtifactsAreWhole, Final
<1>3. HistoryIsWhole
  <2>1. PICK P, Q : history = [c \in 1..2 |-> [parent |-> c - 1, package |-> P, gate |-> Q,
                          code |-> history[c].code, artifacts |-> [d \in {} |-> {}]]]
    BY DEF Init
  <2>2. DOMAIN history = 1..2 /\ head = 2
    BY <2>1 DEF Init
  <2>3. history \in Seq({history[1], history[2]})
    BY <2>1
  <2>4. \A c \in DOMAIN history : DOMAIN history[c].artifacts = {}
    BY <2>1, <2>2
  <2> QED BY <2>2, <2>3, <2>4 DEF HistoryIsWhole, IsArchive
<1>4. RequestsAreSound /\ PublishedInvariant
  BY DEF Init, RequestsAreSound, PublishedInvariant, ResultsAreAuthentic
<1> QED BY <1>2, <1>3, <1>4 DEF ExperimentInvariant, StoreInvariant

THEOREM InvariantHolds == Spec => []ExperimentInvariant
<1>1. ASSUME ExperimentInvariant, Next
      PROVE  ExperimentInvariant'
  <2>1. CASE Person
    BY <2>1, <1>1, PeopleKeepTheInvariant
  <2>2. ASSUME NEW w \in Writers, Process(w)
        PROVE  ExperimentInvariant'
    BY <2>2, <1>1, RequestKeepsTheInvariant, PrepareKeepsTheInvariant, RenewKeepsTheInvariant,
       ExecuteKeepsTheInvariant, WriteReceiptKeepsTheInvariant, WriteKeepsTheInvariant,
       FinishKeepsTheInvariant, StopKeepsTheInvariant DEF Process
  <2> QED BY <2>1, <2>2, <1>1 DEF Next
<1>2. ASSUME ExperimentInvariant, UNCHANGED vars
      PROVE  ExperimentInvariant'
  <2>1. UNCHANGED <<storeVars, repository, proc, published, history, writers>>
    BY <1>2 DEF vars, storeVars, repository
  <2>2. StoreInvariant' /\ PublishedInvariant'
    BY <2>1, <1>2, SameStoreIsWhole, PublishedStays DEF ExperimentInvariant
  <2>3. RequestsAreSound'
    BY <2>1, <1>2 DEF ExperimentInvariant, RequestsAreSound, RequestIsSound
  <2> QED BY <2>2, <2>3 DEF ExperimentInvariant
<1>3. ExperimentInvariant /\ [Next]_vars => ExperimentInvariant'
  BY <1>1, <1>2
<1> QED BY <1>3, InitEstablishesTheInvariant, PTL DEF Spec

(* A directory under its final name is complete and its checksums are those *)
(* of its files, whatever process died while writing it or another, and     *)
(* whatever was committed and checked out since (write_run_artifacts,       *)
(* write_lifecycle_artifact).                                               *)
THEOREM ArtifactsAreAlwaysWhole == Spec => []ArtifactsAreWhole
<1>1. ExperimentInvariant => ArtifactsAreWhole
  BY DEF ExperimentInvariant, StoreInvariant
<1> QED BY <1>1, InvariantHolds, PTL

(* A published result was computed from the sources its approval binds, by  *)
(* code equal to the declared revision's, for every selected query          *)
(* (prepare_frozen_execution, BenchmarkRunner.run).                         *)
THEOREM ResultsAreAlwaysAuthentic == Spec => []ResultsAreAuthentic
<1>1. ExperimentInvariant => ResultsAreAuthentic
  BY DEF ExperimentInvariant, PublishedInvariant
<1> QED BY <1>1, InvariantHolds, PTL

------------------------------------------------------------------------------
(* The history as a tree: Ancestors is a recursive function, and what it is *)
(* is shown by a smallest commit for which it would be otherwise.           *)
\* A set of numbers that is not empty has a least one.
LEMMA LeastExists ==
    ASSUME NEW S, S \subseteq Nat, S # {}
    PROVE  \E m \in S : \A k \in S : m <= k
<1>1. PICK R : R = OpToRel(<, Nat)
  OBVIOUS
<1>2. \A k, m \in Nat : <<k, m>> \in R <=> k < m
  BY <1>1 DEF OpToRel
<1>3. IsWellFoundedOn(R, Nat)
  BY <1>1, NatLessThanWellFounded
<1>4. PICK m \in S : \A k \in S : <<k, m>> \notin R
  BY <1>3, WFMin
<1>5. ASSUME NEW k \in S PROVE m <= k
  <2>1. k \in Nat /\ m \in Nat
    OBVIOUS
  <2>2. ~ (k < m)
    BY <1>2, <1>4, <2>1
  <2> QED BY <2>1, <2>2
<1> QED BY <1>5

LEMMA MostExists ==
    ASSUME NEW n \in Nat, NEW S, S \subseteq 0..n, S # {}
    PROVE  Max(S) \in S
<1>1. PICK T : T = {n - k : k \in S}
  OBVIOUS
<1>2. T \subseteq Nat /\ T # {}
  <2>1. \A k \in S : n - k \in Nat
    OBVIOUS
  <2>2. PICK k : k \in S
    OBVIOUS
  <2>3. n - k \in T
    BY <1>1, <2>2
  <2> QED BY <1>1, <2>1, <2>3
<1>3. PICK m \in T : \A k \in T : m <= k
  BY <1>2, LeastExists
<1>4. PICK x \in S : m = n - x
  BY <1>1, <1>3
<1>5. \A y \in S : x >= y
  BY <1>1, <1>3, <1>4
<1> QED BY <1>4, <1>5 DEF Max

\* A sequence of commits, each after its parent.
IsOrdered(commits) ==
    /\ Len(commits) \in Nat /\ DOMAIN commits = 1..Len(commits)
    /\ \A c \in DOMAIN commits : commits[c].parent \in 0..(c - 1)

\* The function that Ancestors is, up to some commit.
Line(commits, f, n) ==
    f = [d \in 0..n |-> IF d = 0 THEN {} ELSE {d} \cup f[commits[d].parent]]

LEMMA LinesExist ==
    ASSUME NEW commits, IsOrdered(commits), NEW n \in 0..Len(commits)
    PROVE  \E f : Line(commits, f, n)
<1> SUFFICES ASSUME ~ \E f : Line(commits, f, n) PROVE FALSE
  OBVIOUS
<1>1. PICK bad : bad = {k \in 0..Len(commits) : ~ \E f : Line(commits, f, k)}
  OBVIOUS
<1>2. PICK m \in bad : \A k \in bad : m <= k
  <2>1. bad \subseteq Nat
    BY <1>1 DEF IsOrdered
  <2>2. n \in bad
    BY <1>1
  <2> HIDE DEF Line
  <2> QED BY <2>1, <2>2, LeastExists
<1>3. m # 0
  <2>1. Line(commits, [d \in 0..0 |-> {}], 0)
    BY DEF Line
  <2> QED BY <1>1, <1>2, <2>1
<1>4. m \in Nat /\ m - 1 \in 0..Len(commits) /\ m - 1 \notin bad
  BY <1>1, <1>2, <1>3 DEF IsOrdered
<1>5. PICK f : Line(commits, f, m - 1)
  BY <1>1, <1>4
<1> DEFINE g == [d \in 0..m |-> IF d = m THEN {m} \cup f[commits[m].parent] ELSE f[d]]
<1>6. /\ DOMAIN f = 0..(m - 1)
      /\ \A d \in 0..(m - 1) : f[d] = IF d = 0 THEN {} ELSE {d} \cup f[commits[d].parent]
  BY <1>5 DEF Line
<1>7. \A d \in 1..m : commits[d].parent \in 0..(d - 1)
  <2>1. m \in 0..Len(commits)
    BY <1>1
  <2>2. \A d \in 1..m : d \in DOMAIN commits
    BY <2>1, <1>4 DEF IsOrdered
  <2> QED BY <2>2 DEF IsOrdered
<1>8. \A d \in 0..m : g[d] = IF d = 0 THEN {} ELSE {d} \cup g[commits[d].parent]
  <2> SUFFICES ASSUME NEW d \in 0..m
               PROVE  g[d] = IF d = 0 THEN {} ELSE {d} \cup g[commits[d].parent]
    OBVIOUS
  <2>1. \A e \in 0..(m - 1) : g[e] = f[e]
    BY <1>4
  <2>2. g[m] = {m} \cup f[commits[m].parent]
    BY <1>4
  <2>3. CASE d = 0
    BY <1>3, <1>4, <1>6, <2>1, <2>3
  <2>4. CASE d \in 1..(m - 1)
    <3>1. commits[d].parent \in 0..(m - 1) /\ d # 0 /\ d \in 0..(m - 1)
      BY <1>4, <1>7, <2>4
    <3> QED BY <1>6, <2>1, <3>1
  <2>5. CASE d = m
    <3>1. commits[m].parent \in 0..(m - 1)
      BY <1>3, <1>4, <1>7
    <3> QED BY <1>3, <2>1, <2>2, <2>5, <3>1
  <2> QED BY <1>4, <2>3, <2>4, <2>5
<1>9. g = [d \in 0..m |-> IF d = 0 THEN {} ELSE {d} \cup g[commits[d].parent]]
  <2> DEFINE h == [d \in 0..m |-> IF d = 0 THEN {} ELSE {d} \cup g[commits[d].parent]]
  <2>1. \A d \in 0..m : g[d] = h[d]
    BY <1>8
  <2>2. DOMAIN g = 0..m /\ DOMAIN h = 0..m /\ g = [d \in 0..m |-> g[d]] /\ h = [d \in 0..m |-> h[d]]
    OBVIOUS
  <2> HIDE DEF g, h
  <2>3. g = h
    BY <2>1, <2>2
  <2> QED BY <2>3 DEF h
<1> HIDE DEF g
<1>10. Line(commits, g, m)
  BY <1>9 DEF Line
<1> QED BY <1>1, <1>2, <1>10

LEMMA AncestorsUnfold ==
    ASSUME NEW commits, IsOrdered(commits)
    PROVE  /\ AncestorsIn(commits, 0) = {}
           /\ \A c \in DOMAIN commits :
                 AncestorsIn(commits, c) = {c} \cup AncestorsIn(commits, commits[c].parent)
<1> DEFINE of == CHOOSE f : f = [d \in 0..Len(commits) |->
                                    IF d = 0 THEN {} ELSE {d} \cup f[commits[d].parent]]
<1>1. \E f : Line(commits, f, Len(commits))
  BY LinesExist DEF IsOrdered
<1>2. of = [d \in 0..Len(commits) |-> IF d = 0 THEN {} ELSE {d} \cup of[commits[d].parent]]
  BY <1>1 DEF Line
<1>3. \A c : AncestorsIn(commits, c) = of[c]
  BY DEF AncestorsIn
<1> HIDE DEF of
<1>4. \A d \in 0..Len(commits) : of[d] = IF d = 0 THEN {} ELSE {d} \cup of[commits[d].parent]
  BY <1>2
<1>5. of[0] = {} /\ \A c \in DOMAIN commits : of[c] = {c} \cup of[commits[c].parent]
  <2>1. 0 \in 0..Len(commits) /\ \A c \in DOMAIN commits : c \in 0..Len(commits) /\ c # 0
    BY DEF IsOrdered
  <2> QED BY <1>4, <2>1
<1> QED BY <1>3, <1>5

\* A commit is its own ancestor, with the ancestors of its parent; the others
\* came before it.
LEMMA AncestorsAreBelow ==
    ASSUME NEW commits, IsOrdered(commits), NEW c \in DOMAIN commits
    PROVE  /\ c \in AncestorsIn(commits, c)
           /\ \A d \in AncestorsIn(commits, c) :
                 /\ d \in DOMAIN commits /\ d <= c
                 /\ commits[d].parent # 0 => commits[d].parent \in AncestorsIn(commits, c)
<1> DEFINE Good(k) == \A d \in AncestorsIn(commits, k) :
                         /\ d \in DOMAIN commits /\ d <= k
                         /\ commits[d].parent # 0 => commits[d].parent \in AncestorsIn(commits, k)
<1>0. AncestorsIn(commits, 0) = {}
      /\ \A k \in DOMAIN commits :
            AncestorsIn(commits, k) = {k} \cup AncestorsIn(commits, commits[k].parent)
  BY AncestorsUnfold
<1>1. Good(c)
  <2> SUFFICES ASSUME ~Good(c) PROVE FALSE
    OBVIOUS
  <2>1. PICK bad : bad = {k \in DOMAIN commits : ~Good(k)}
    OBVIOUS
  <2>2. PICK m \in bad : \A k \in bad : m <= k
    <3>1. bad \subseteq Nat /\ c \in bad
      BY <2>1 DEF IsOrdered
    <3> HIDE DEF Good
    <3> QED BY <3>1, LeastExists
  <2>3. PICK p : p = commits[m].parent
    OBVIOUS
  <2>4. m \in DOMAIN commits /\ p \in 0..(m - 1) /\ m \in Nat
    BY <2>1, <2>3 DEF IsOrdered
  <2>5. AncestorsIn(commits, m) = {m} \cup AncestorsIn(commits, p)
    BY <1>0, <2>3, <2>4
  <2>6. Good(p)
    <3>1. CASE p = 0
      BY <1>0, <3>1
    <3>2. CASE p # 0
      <4>1. p \in DOMAIN commits /\ ~ (m <= p)
        BY <2>4, <3>2 DEF IsOrdered
      <4> HIDE DEF Good
      <4> QED BY <2>1, <2>2, <4>1
    <3> QED BY <3>1, <3>2
  <2>7. p # 0 => p \in AncestorsIn(commits, p)
    <3>1. p # 0 => p \in DOMAIN commits
      BY <2>4 DEF IsOrdered
    <3> QED BY <1>0, <3>1
  <2>8. ASSUME NEW d \in AncestorsIn(commits, m)
        PROVE  /\ d \in DOMAIN commits /\ d <= m
               /\ commits[d].parent # 0 => commits[d].parent \in AncestorsIn(commits, m)
    <3>1. CASE d = m
      BY <2>3, <2>4, <2>5, <2>7, <3>1
    <3>2. CASE d # m
      <4>1. d \in AncestorsIn(commits, p)
        BY <2>5, <3>2
      <4>2. d \in DOMAIN commits /\ d <= p
            /\ (commits[d].parent # 0 => commits[d].parent \in AncestorsIn(commits, p))
        BY <2>6, <4>1
      <4>3. d \in Nat /\ d <= m
        BY <2>4, <4>2 DEF IsOrdered
      <4> QED BY <2>5, <4>2, <4>3
    <3> QED BY <3>1, <3>2
  <2>9. Good(m)
    BY <2>8
  <2> HIDE DEF Good
  <2> QED BY <2>1, <2>2, <2>9
<1> QED BY <1>0, <1>1

\* New commits give an old one no other ancestors.
LEMMA AncestorsStay ==
    ASSUME NEW commits, NEW more, IsOrdered(commits), IsOrdered(more),
           DOMAIN commits \subseteq DOMAIN more,
           \A c \in DOMAIN commits : more[c] = commits[c],
           NEW c \in DOMAIN commits
    PROVE  AncestorsIn(more, c) = AncestorsIn(commits, c)
<1> DEFINE Same(k) == AncestorsIn(more, k) = AncestorsIn(commits, k)
<1> SUFFICES ASSUME ~Same(c) PROVE FALSE
  OBVIOUS
<1>1. /\ AncestorsIn(commits, 0) = {} /\ AncestorsIn(more, 0) = {}
      /\ \A k \in DOMAIN commits :
            /\ AncestorsIn(commits, k) = {k} \cup AncestorsIn(commits, commits[k].parent)
            /\ AncestorsIn(more, k) = {k} \cup AncestorsIn(more, commits[k].parent)
  BY AncestorsUnfold
<1>2. PICK bad : bad = {k \in DOMAIN commits : ~Same(k)}
  OBVIOUS
<1>3. PICK m \in bad : \A k \in bad : m <= k
  <2>1. bad \subseteq Nat /\ c \in bad
    BY <1>2 DEF IsOrdered
  <2> HIDE DEF Same
  <2> QED BY <2>1, LeastExists
<1>4. PICK p : p = commits[m].parent
  OBVIOUS
<1>5. m \in DOMAIN commits /\ p \in 0..(m - 1) /\ m \in Nat
  BY <1>2, <1>4 DEF IsOrdered
<1>6. Same(p)
  <2>1. CASE p = 0
    BY <1>1, <2>1
  <2>2. CASE p # 0
    <3>1. p \in DOMAIN commits /\ ~ (m <= p)
      BY <1>5, <2>2 DEF IsOrdered
    <3> HIDE DEF Same
    <3> QED BY <1>2, <1>3, <3>1
  <2> QED BY <2>1, <2>2
<1>7. Same(m)
  <2>1. AncestorsIn(commits, m) = {m} \cup AncestorsIn(commits, p)
    BY <1>1, <1>4, <1>5
  <2>2. AncestorsIn(more, m) = {m} \cup AncestorsIn(more, p)
    BY <1>1, <1>4, <1>5
  <2> QED BY <2>1, <2>2, <1>6
<1> HIDE DEF Same
<1> QED BY <1>2, <1>3, <1>7

------------------------------------------------------------------------------
(* What backs a formal result.                                              *)

\* A run's summary is of its own raw results.
RunIsSummed(files) ==
    /\ {"run_manifest.json", "aggregate_results.json", "raw_results.jsonl"} \subseteq DOMAIN files
    /\ \E id, config, mode, approval, revision :
          ManifestOf(files) = [id |-> id, config |-> config, mode |-> mode,
                               approval |-> approval, revision |-> revision]
    /\ AggregateOf(files).status = "success" =>
          \A q \in DOMAIN RawOf(files) : RawOf(files)[q].status = "success"
    /\ AggregateOf(files).degraded = 0 =>
          \A q \in DOMAIN RawOf(files) : ~ RawOf(files)[q].degraded

RunsIn(artifacts) == \A d \in DOMAIN artifacts : d[1] = "runs" => RunIsSummed(artifacts[d])

RunsAreSummed ==
    /\ RunsIn(dirs)
    /\ \A c \in DOMAIN history : RunsIn(history[c].artifacts)
    /\ \A w \in DOMAIN writers : writers[w].path[1] = "runs" => RunIsSummed(writers[w].contents)

\* What FormalRunsAreBacked says of a formal result.
ReceiptBacks(receipt, approval) ==
    \A config \in DOMAIN Matrix :
        LET dry == receipt.runs[config].files
            expected == [id |-> receipt.runs[config].id, config |-> config, mode |-> "dry_run",
                         approval |-> approval, revision |-> receipt.revision]
        IN  /\ ManifestOf(dry) = expected
            /\ \A q \in DOMAIN RawOf(dry) :
                  RawOf(dry)[q].status = "success" /\ ~ RawOf(dry)[q].degraded

Backed(revision, approval) ==
    \E c \in Ancestors(revision) :
        \E d \in DOMAIN history[c].artifacts :
            /\ d[1] = "receipts"
            /\ d[2].revision \in Ancestors(c)
            /\ ReceiptBacks(d[2], approval)

RequestIsBacked(w) ==
    /\ Authorized(proc[w].approval)
    /\ proc[w].phase = "writing" /\ proc[w].mode = "formal"
          => Backed(proc[w].revision, proc[w].approval)

RequestsAreBacked == \A w \in Writers : proc[w] # None => RequestIsBacked(w)

BackedInvariant ==
    /\ IsOrdered(history)
    /\ RunsAreSummed
    /\ RequestsAreBacked
    /\ FormalRunsAreBacked

LEMMA FormalIsBacked ==
    FormalRunsAreBacked <=>
        \A run \in published :
            run.manifest.mode = "formal" =>
                /\ Authorized(run.manifest.approval)
                /\ Backed(run.manifest.revision, run.manifest.approval)
BY DEF FormalRunsAreBacked, Backed, ReceiptBacks

\* The newest commit that added a path of the head is an ancestor that has it.
LEMMA ArchiveHasPath ==
    ASSUME IsOrdered(history), head \in DOMAIN history, NEW path,
           path \in DOMAIN history[head].artifacts
    PROVE  /\ ArchiveCommit(path) \in Ancestors(head)
           /\ path \in DOMAIN history[ArchiveCommit(path)].artifacts
<1>1. PICK having : having = {c \in Ancestors(head) : path \in DOMAIN history[c].artifacts}
  OBVIOUS
<1>2. /\ head \in Ancestors(head)
      /\ \A d \in Ancestors(head) :
            /\ d \in DOMAIN history
            /\ history[d].parent # 0 => history[d].parent \in Ancestors(head)
  BY AncestorsAreBelow DEF Ancestors
<1>3. PICK m \in having : \A k \in having : m <= k
  <2>1. having \subseteq Nat /\ head \in having
    BY <1>1, <1>2 DEF IsOrdered
  <2> QED BY <2>1, LeastExists
<1>4. m \in ArchiveCommits(path)
  <2>1. m \in DOMAIN history /\ m \in Ancestors(head) /\ path \in DOMAIN history[m].artifacts
    BY <1>1, <1>2
  <2>2. m \in Nat /\ history[m].parent \in 0..(m - 1)
    BY <2>1 DEF IsOrdered
  <2>3. history[m].parent # 0 => history[m].parent \notin having
    BY <1>3, <2>2
  <2>4. history[m].parent # 0 => path \notin DOMAIN history[history[m].parent].artifacts
    BY <1>1, <1>2, <2>1, <2>3
  <2> QED BY <2>1, <2>4 DEF ArchiveCommits
<1>5. ArchiveCommit(path) \in ArchiveCommits(path)
  <2>1. ArchiveCommits(path) \subseteq 0..Len(history)
    BY <1>2 DEF ArchiveCommits, IsOrdered
  <2>2. Len(history) \in Nat
    BY DEF IsOrdered
  <2> QED BY <1>4, <2>1, <2>2, MostExists DEF ArchiveCommit
<1> QED BY <1>5 DEF ArchiveCommits

\* A receipt that holds backs the request it was given with: it is archived in
\* the history of the revision, and its runs are complete and successful.
LEMMA HeldReceiptBacks ==
    ASSUME IsOrdered(history), head \in DOMAIN history, RunsAreSummed,
           NEW receipt, NEW approval, NEW revision,
           ReceiptHolds(receipt, approval, revision)
    PROVE  Backed(revision, approval)
<1> DEFINE path == ReceiptPath(receipt)
           c == ArchiveCommit(path)
<1>1. path \in DOMAIN history[c].artifacts
  BY ArchiveHasPath DEF ReceiptHolds, Committed
<1>2. c \in Ancestors(revision) /\ receipt.revision \in Ancestors(c)
  BY DEF ReceiptHolds
<1>3. path[1] = "receipts" /\ path[2] = receipt
  BY DEF ReceiptPath
<1>4. ReceiptBacks(receipt, approval)
  <2> SUFFICES ASSUME NEW config \in DOMAIN Matrix
               PROVE  LET dry == receipt.runs[config].files
                          expected == [id |-> receipt.runs[config].id, config |-> config,
                                       mode |-> "dry_run", approval |-> approval,
                                       revision |-> receipt.revision]
                      IN  /\ ManifestOf(dry) = expected
                          /\ \A q \in DOMAIN RawOf(dry) :
                                RawOf(dry)[q].status = "success" /\ ~ RawOf(dry)[q].degraded
    BY DEF ReceiptBacks
  <2>1. PICK files : files = receipt.runs[config].files
    OBVIOUS
  <2>2. PICK id : id = receipt.runs[config].id
    OBVIOUS
  <2>3. /\ RunPath(id) \in DOMAIN dirs /\ dirs[RunPath(id)] = files
        /\ ManifestOf(files).id = id /\ ManifestOf(files).config = config
        /\ ManifestOf(files).mode = "dry_run" /\ ManifestOf(files).approval = approval
        /\ ManifestOf(files).revision = receipt.revision
        /\ AggregateOf(files).status = "success" /\ AggregateOf(files).degraded = 0
    BY <2>1, <2>2 DEF ReceiptHolds, RunCounts, Committed
  <2>4. RunIsSummed(files)
    BY <2>3 DEF RunsAreSummed, RunsIn, RunPath
  <2>5. PICK i, k, m, a, r : ManifestOf(files) = [id |-> i, config |-> k, mode |-> m,
                                                  approval |-> a, revision |-> r]
    BY <2>4 DEF RunIsSummed
  <2>6. ManifestOf(files) = [id |-> id, config |-> config, mode |-> "dry_run",
                             approval |-> approval, revision |-> receipt.revision]
    BY <2>3, <2>5
  <2>7. \A q \in DOMAIN RawOf(files) :
            RawOf(files)[q].status = "success" /\ ~ RawOf(files)[q].degraded
    BY <2>3, <2>4 DEF RunIsSummed
  <2> QED BY <2>1, <2>2, <2>6, <2>7
<1> HIDE DEF path, c
<1> QED BY <1>1, <1>2, <1>3, <1>4 DEF Backed

\* What is backed stays so while the history only grows.
LEMMA BackedStays ==
    ASSUME IsOrdered(history), IsOrdered(history)', DOMAIN history \subseteq DOMAIN history',
           \A c \in DOMAIN history : history'[c] = history[c],
           NEW revision \in DOMAIN history, NEW approval, Backed(revision, approval)
    PROVE  Backed(revision, approval)'
<1>1. PICK c \in Ancestors(revision) :
        \E d \in DOMAIN history[c].artifacts :
            /\ d[1] = "receipts"
            /\ d[2].revision \in Ancestors(c)
            /\ ReceiptBacks(d[2], approval)
  BY DEF Backed
<1>2. c \in DOMAIN history
  BY AncestorsAreBelow DEF Ancestors
<1>3. \A k \in DOMAIN history : AncestorsIn(history', k) = AncestorsIn(history, k)
  BY AncestorsStay
<1>4. Ancestors(revision)' = Ancestors(revision) /\ Ancestors(c)' = Ancestors(c)
  BY <1>2, <1>3 DEF Ancestors
<1>5. history'[c].artifacts = history[c].artifacts
  BY <1>2
<1>6. PICK d \in DOMAIN history[c].artifacts :
        d[1] = "receipts" /\ d[2].revision \in Ancestors(c) /\ ReceiptBacks(d[2], approval)
  BY <1>1
<1>7. /\ c \in Ancestors(revision)' /\ d \in DOMAIN history'[c].artifacts
      /\ d[2].revision \in Ancestors(c)'
  BY <1>4, <1>5, <1>6
<1> QED BY <1>6, <1>7 DEF Backed

------------------------------------------------------------------------------
(* The steps, beside ExperimentInvariant.                                   *)

\* A record that a process stores in a directory of runs, or moves there.
LEMMA StartKeepsRuns ==
    ASSUME RunsAreSummed, NEW w, NEW path, NEW contents, StartWriting(w, path, contents),
           history' = history, path[1] = "runs" => RunIsSummed(contents)
    PROVE  RunsAreSummed'
<1>1. /\ DOMAIN writers' = DOMAIN writers \cup {w}
      /\ writers'[w] = [path |-> path, contents |-> contents]
      /\ \A v \in DOMAIN writers : v # w /\ writers'[v] = writers[v]
  BY DEF StartWriting, Assign
<1>2. PICK mine : mine = Pending(w, path) /\ mine[1] = "pending"
  <2>1. Pending(w, path)[1] = "pending"
    BY DEF Pending
  <2> QED BY <2>1
<1>3. /\ DOMAIN dirs' = DOMAIN dirs \cup {mine}
      /\ \A d \in DOMAIN dirs \ {mine} : dirs'[d] = dirs[d]
  BY <1>2 DEF StartWriting, Assign
<1>4. RunsIn(dirs')
  BY <1>2, <1>3 DEF RunsAreSummed, RunsIn
<1>5. \A v \in DOMAIN writers' :
        writers'[v].path[1] = "runs" => RunIsSummed(writers'[v].contents)
  BY <1>1 DEF RunsAreSummed
<1> QED BY <1>4, <1>5 DEF RunsAreSummed, RunsIn

LEMMA WriteKeepsRuns ==
    ASSUME RunsAreSummed, NEW w, WriteFile(w), history' = history, Target(w) \in DOMAIN dirs
    PROVE  RunsAreSummed'
<1>1. writers' = writers
  BY DEF WriteFile
<1>2. PICK mine : mine = Target(w) /\ mine[1] = "pending" /\ mine \in DOMAIN dirs
  <2>1. Target(w)[1] = "pending"
    BY DEF Target, Pending
  <2> QED BY <2>1
<1>3. PICK files : dirs' = Assign(dirs, mine, files)
  BY <1>2 DEF WriteFile
<1>4. DOMAIN dirs' = DOMAIN dirs /\ \A d \in DOMAIN dirs \ {mine} : dirs'[d] = dirs[d]
  BY <1>2, <1>3 DEF Assign
<1>5. RunsIn(dirs')
  BY <1>2, <1>4 DEF RunsAreSummed, RunsIn
<1> QED BY <1>1, <1>5 DEF RunsAreSummed, RunsIn

\* The directory published has every file the writer was started with.
LEMMA PublishKeepsRuns ==
    ASSUME RunsAreSummed, JobsAreBegun, NEW w, Publish(w), history' = history
    PROVE  RunsAreSummed'
<1> DEFINE mine == Target(w)
           path == writers[w].path
           files == dirs[mine]
<1>1. /\ w \in DOMAIN writers /\ Checksums \in DOMAIN files /\ path \notin DOMAIN dirs \ {mine}
      /\ IsWriting(writers[w]) /\ mine \in DOMAIN dirs /\ IsBegun(files, writers[w].contents)
  BY DEF Publish, JobsAreBegun
<1>2. /\ DOMAIN dirs' = (DOMAIN dirs \ {mine}) \cup {path}
      /\ dirs'[path] = files
      /\ \A d \in DOMAIN dirs \ {mine} : dirs'[d] = dirs[d]
  <2> DEFINE rest == Without(dirs, {mine})
  <2>1. DOMAIN rest = DOMAIN dirs \ {mine} /\ \A d \in DOMAIN dirs \ {mine} : rest[d] = dirs[d]
    BY DEF Without
  <2>2. dirs' = Assign(rest, path, files)
    BY DEF Publish
  <2> HIDE DEF rest
  <2> QED BY <2>1, <2>2, <1>1 DEF Assign
<1>3. /\ DOMAIN writers' = DOMAIN writers \ {w}
      /\ \A v \in DOMAIN writers \ {w} : writers'[v] = writers[v]
  BY DEF Publish, Without
<1>4. path[1] = "runs" => RunIsSummed(files)
  <2> SUFFICES ASSUME path[1] = "runs" PROVE RunIsSummed(files)
    OBVIOUS
  <2>1. RunIsSummed(writers[w].contents)
    BY <1>1 DEF RunsAreSummed
  <2>2. \A f \in DOMAIN writers[w].contents : f \in DOMAIN files /\ files[f] = writers[w].contents[f]
    BY <1>1 DEF IsBegun, IsWriting
  <2> HIDE DEF files
  <2>3. PICK contents : contents = writers[w].contents
    OBVIOUS
  <2>4. /\ {"run_manifest.json", "aggregate_results.json", "raw_results.jsonl"} \subseteq DOMAIN files
        /\ ManifestOf(files) = ManifestOf(contents) /\ AggregateOf(files) = AggregateOf(contents)
        /\ RawOf(files) = RawOf(contents)
    BY <2>1, <2>2, <2>3 DEF RunIsSummed, ManifestOf, AggregateOf, RawOf
  <2> QED BY <2>1, <2>3, <2>4 DEF RunIsSummed
<1> HIDE DEF files
<1>5. RunsIn(dirs')
  <2> SUFFICES ASSUME NEW d \in DOMAIN dirs', d[1] = "runs" PROVE RunIsSummed(dirs'[d])
    BY DEF RunsIn
  <2>1. CASE d = path
    BY <1>2, <1>4, <2>1
  <2>2. CASE d # path
    <3>1. d \in DOMAIN dirs /\ dirs'[d] = dirs[d]
      BY <1>2, <2>2
    <3> QED BY <3>1 DEF RunsAreSummed, RunsIn
  <2> QED BY <2>1, <2>2
<1>6. \A v \in DOMAIN writers' :
        writers'[v].path[1] = "runs" => RunIsSummed(writers'[v].contents)
  BY <1>3 DEF RunsAreSummed
<1> QED BY <1>5, <1>6 DEF RunsAreSummed, RunsIn

LEMMA AbandonKeepsRuns ==
    ASSUME RunsAreSummed, NEW w, Abandon(w), history' = history
    PROVE  RunsAreSummed'
<1>1. /\ \A d \in DOMAIN dirs' : d \in DOMAIN dirs /\ dirs'[d] = dirs[d]
      /\ \A v \in DOMAIN writers' : v \in DOMAIN writers /\ writers'[v] = writers[v]
  BY DEF Abandon, Without
<1> QED BY <1>1 DEF RunsAreSummed, RunsIn

\* The aggregate of a run is of its raw results.
LEMMA RunFilesAreSummed ==
    ASSUME NEW r, NEW results, IsFiniteSet(DOMAIN results),
           \A q \in DOMAIN results : results[q].status \in {"success", "failed", "invalid"}
    PROVE  RunIsSummed(RunFiles(r, results))
<1>1. PICK files : files = RunFiles(r, results)
  OBVIOUS
<1>2. /\ {"run_manifest.json", "aggregate_results.json", "raw_results.jsonl"} \subseteq DOMAIN files
      /\ files["run_manifest.json"]
           = [id |-> r.id, config |-> r.config, mode |-> r.mode,
              approval |-> r.approval, revision |-> r.revision]
      /\ files["aggregate_results.json"]
           = [status |-> RunStatus(results), degraded |-> DegradedCount(results)]
      /\ files["raw_results.jsonl"]
           = [q \in DOMAIN results |-> [status |-> results[q].status,
                                       degraded |-> results[q].degraded]]
  BY <1>1 DEF RunFiles
<1>3. ManifestOf(files) = [id |-> r.id, config |-> r.config, mode |-> r.mode,
                           approval |-> r.approval, revision |-> r.revision]
  BY <1>2 DEF ManifestOf
<1>4. /\ AggregateOf(files).status = RunStatus(results)
      /\ AggregateOf(files).degraded = DegradedCount(results)
      /\ DOMAIN RawOf(files) = DOMAIN results
      /\ \A q \in DOMAIN results : /\ RawOf(files)[q].status = results[q].status
                                   /\ RawOf(files)[q].degraded = results[q].degraded
  BY <1>2 DEF AggregateOf, RawOf
<1>5. RunStatus(results) = "success" => \A q \in DOMAIN results : results[q].status = "success"
  BY DEF RunStatus
<1>6. DegradedCount(results) = 0 => \A q \in DOMAIN results : ~ results[q].degraded
  <2>1. PICK D : D = {q \in DOMAIN results : results[q].degraded}
    OBVIOUS
  <2>2. IsFiniteSet(D)
    BY <2>1, FS_Subset
  <2>3. Cardinality(D) = 0 => D = {}
    BY <2>2, FS_EmptySet
  <2> QED BY <2>1, <2>3 DEF DegradedCount
<1>7. \E id, config, mode, approval, revision :
          ManifestOf(files) = [id |-> id, config |-> config, mode |-> mode,
                               approval |-> approval, revision |-> revision]
  BY <1>3
<1> QED BY <1>1, <1>2, <1>4, <1>5, <1>6, <1>7 DEF RunIsSummed

------------------------------------------------------------------------------
\* A gate once closed stays in the history.
LEMMA AuthorizedStays ==
    ASSUME DOMAIN history \subseteq DOMAIN history',
           \A c \in DOMAIN history : history'[c] = history[c],
           NEW approval, Authorized(approval)
    PROVE  Authorized(approval)'
<1>1. PICK c \in DOMAIN history :
        history[c].gate = approval /\ history[c].package = PackageOf[approval]
  BY DEF Authorized
<1>2. c \in DOMAIN history' /\ history'[c] = history[c]
  OBVIOUS
<1> QED BY <1>1, <1>2 DEF Authorized

\* Every other process keeps what backs it.
LEMMA OthersStayBacked ==
    ASSUME ExperimentInvariant, BackedInvariant, IsOrdered(history)',
           DOMAIN history \subseteq DOMAIN history',
           \A c \in DOMAIN history : history'[c] = history[c],
           NEW v \in Writers, proc[v] # None, proc'[v] = proc[v]
    PROVE  RequestIsBacked(v)'
<1>1. proc[v].revision \in DOMAIN history
  BY DEF ExperimentInvariant, RequestsAreSound, RequestIsSound
<1>2. RequestIsBacked(v)
  BY DEF BackedInvariant, RequestsAreBacked
<1>3. ASSUME Backed(proc[v].revision, proc[v].approval)
      PROVE  Backed(proc[v].revision, proc[v].approval)'
  <2>1. PICK r, a : r = proc[v].revision /\ a = proc[v].approval
    OBVIOUS
  <2>2. r \in DOMAIN history /\ Backed(r, a)
    BY <1>1, <1>3, <2>1
  <2>3. Backed(r, a)'
    BY <2>2, BackedStays DEF BackedInvariant
  <2>4. r = proc'[v].revision /\ a = proc'[v].approval
    BY <2>1
  <2> QED BY <2>3, <2>4
<1>4. Authorized(proc[v].approval)'
  <2>1. PICK a : a = proc[v].approval
    OBVIOUS
  <2>2. Authorized(a)'
    BY <1>2, <2>1, AuthorizedStays DEF RequestIsBacked
  <2> QED BY <2>1, <2>2
<1> QED BY <1>2, <1>3, <1>4 DEF RequestIsBacked

LEMMA PublishedStayBacked ==
    ASSUME ExperimentInvariant, BackedInvariant, IsOrdered(history)',
           DOMAIN history \subseteq DOMAIN history',
           \A c \in DOMAIN history : history'[c] = history[c],
           NEW run \in published, run.manifest.mode = "formal"
    PROVE  /\ Authorized(run.manifest.approval)'
           /\ Backed(run.manifest.revision, run.manifest.approval)'
<1>1. run.manifest.revision \in DOMAIN history
  BY DEF ExperimentInvariant, PublishedInvariant
<1>2. /\ Authorized(run.manifest.approval)
      /\ Backed(run.manifest.revision, run.manifest.approval)
  BY FormalIsBacked DEF BackedInvariant
<1> QED BY <1>1, <1>2, BackedStays, AuthorizedStays DEF BackedInvariant

\* Published results stay backed, and so is whatever joins them.
LEMMA FormalStaysBacked ==
    ASSUME ExperimentInvariant, BackedInvariant, IsOrdered(history)',
           DOMAIN history \subseteq DOMAIN history',
           \A c \in DOMAIN history : history'[c] = history[c],
           \A run \in published' \ published :
               run.manifest.mode = "formal" =>
                   /\ Authorized(run.manifest.approval)'
                   /\ Backed(run.manifest.revision, run.manifest.approval)'
    PROVE  FormalRunsAreBacked'
<1>1. ASSUME NEW run \in published', run.manifest.mode = "formal"
      PROVE  /\ Authorized(run.manifest.approval)'
             /\ Backed(run.manifest.revision, run.manifest.approval)'
  BY <1>1, PublishedStayBacked
<1> QED BY <1>1 DEF FormalRunsAreBacked, Backed, ReceiptBacks

\* A step of one process that publishes nothing.
LEMMA MoveKeepsBacked ==
    ASSUME ExperimentInvariant, BackedInvariant, NEW w \in Writers, NEW r, Move(w, r),
           history' = history, published' = published, RunsAreSummed',
           r # None => RequestIsBacked(w)'
    PROVE  BackedInvariant'
<1>1. proc'[w] = r /\ DOMAIN proc' = Writers /\ \A v \in Writers \ {w} : proc'[v] = proc[v]
  BY DEF Move, ExperimentInvariant, RequestsAreSound
<1>2. IsOrdered(history)'
  BY DEF BackedInvariant
<1>3. ASSUME NEW v \in Writers, proc'[v] # None PROVE RequestIsBacked(v)'
  <2>1. CASE v = w
    BY <1>1, <1>3, <2>1
  <2>2. CASE v # w
    BY <1>1, <1>2, <1>3, <2>2, OthersStayBacked
  <2> QED BY <2>1, <2>2
<1>4. FormalRunsAreBacked'
  BY <1>2, FormalStaysBacked
<1> QED BY <1>2, <1>3, <1>4 DEF BackedInvariant, RequestsAreBacked

LEMMA RequestKeepsBacked ==
    ASSUME ExperimentInvariant, BackedInvariant, NEW w \in Writers, Request(w)
    PROVE  BackedInvariant'
<1>1. /\ UNCHANGED <<dirs, writers, published, history>>
      /\ AuthorityHolds(work.gate)
  BY DEF Request, storeVars, repository
<1>2. PICK r : Move(w, r) /\ r.phase = "issued" /\ r.approval = work.gate
  BY DEF Request
<1>3. RunsAreSummed'
  BY <1>1 DEF BackedInvariant, RunsAreSummed
<1>4. proc'[w] = r
  BY <1>2 DEF Move, ExperimentInvariant, RequestsAreSound
<1>5. Authorized(work.gate)
  <2>1. head \in DOMAIN history
    BY DEF ExperimentInvariant, StoreInvariant, HistoryIsWhole
  <2> QED BY <1>1, <2>1 DEF AuthorityHolds, Authorized
<1>6. RequestIsBacked(w)'
  BY <1>1, <1>2, <1>4, <1>5 DEF RequestIsBacked, Authorized
<1> QED BY <1>1, <1>2, <1>3, <1>6, MoveKeepsBacked

LEMMA BindKeepsBacked ==
    ASSUME ExperimentInvariant, BackedInvariant, NEW w \in Writers, Prepare(w) \/ Renew(w)
    PROVE  BackedInvariant'
<1>1. UNCHANGED <<dirs, writers, published, history>> /\ proc[w] # None
  BY DEF Prepare, Renew, InPhase, storeVars, repository
<1>2. RequestIsBacked(w) /\ IsRequest(proc[w])
  BY <1>1 DEF BackedInvariant, RequestsAreBacked, ExperimentInvariant, RequestsAreSound,
              RequestIsSound
<1>3. PICK r : Move(w, r) /\ r.phase # "writing" /\ r.approval = proc[w].approval
  <2>1. CASE Prepare(w)
    <3> DEFINE r == [proc[w] EXCEPT !.phase = "prepared", !.sources = work.package]
    <3>1. Move(w, r)
      BY <2>1 DEF Prepare
    <3>2. r.phase = "prepared" /\ r.approval = proc[w].approval
      BY <1>2 DEF IsRequest
    <3> HIDE DEF r
    <3> QED BY <3>1, <3>2
  <2>2. CASE Renew(w)
    <3> DEFINE r == [proc[w] EXCEPT !.phase = "renewing"]
    <3>1. Move(w, r)
      BY <2>2 DEF Renew
    <3>2. r.phase = "renewing" /\ r.approval = proc[w].approval
      BY <1>2 DEF IsRequest
    <3> HIDE DEF r
    <3> QED BY <3>1, <3>2
  <2> QED BY <2>1, <2>2
<1>4. RunsAreSummed'
  BY <1>1 DEF BackedInvariant, RunsAreSummed
<1>5. proc'[w] = r
  BY <1>3 DEF Move, ExperimentInvariant, RequestsAreSound
<1>6. RequestIsBacked(w)'
  BY <1>1, <1>2, <1>3, <1>5 DEF RequestIsBacked, Authorized
<1> QED BY <1>1, <1>3, <1>4, <1>6, MoveKeepsBacked

\* The second validation finds the receipt of a formal request, in whatever
\* state the repository is by then.
LEMMA ExecuteKeepsBacked ==
    ASSUME ExperimentInvariant, BackedInvariant, NEW w \in Writers, Execute(w)
    PROVE  BackedInvariant'
<1> DEFINE r == [proc[w] EXCEPT !.phase = "writing", !.code = work.code]
<1>1. /\ UNCHANGED <<history, head, published>> /\ Move(w, r)
      /\ proc[w] # None /\ proc[w].phase = "renewing" /\ Verified(proc[w])
  BY DEF Execute, InPhase, repository
<1>2. /\ IsRequest(proc[w])
      /\ Authorized(proc[w].approval) /\ proc[w].approval \in Approved
      /\ proc[w].sources = PackageOf[proc[w].approval]
  BY <1>1 DEF BackedInvariant, RequestsAreBacked, RequestIsBacked, Authorized,
              ExperimentInvariant, RequestsAreSound, RequestIsSound
<1>3. /\ r.approval = proc[w].approval /\ r.revision = proc[w].revision
      /\ r.mode = proc[w].mode /\ r.phase = "writing"
  BY <1>2 DEF IsRequest
<1>4. proc[w].mode = "formal" => Backed(proc[w].revision, proc[w].approval)
  <2>1. head \in DOMAIN history
    BY DEF ExperimentInvariant, StoreInvariant, HistoryIsWhole
  <2> QED BY <1>1, <2>1, HeldReceiptBacks DEF Verified, BackedInvariant
<1>5. PICK results :
        /\ IsFiniteSet(DOMAIN results)
        /\ \A q \in DOMAIN results : results[q].status \in {"success", "failed", "invalid"}
        /\ StartWriting(w, RunPath(proc[w].id), RunFiles(proc[w], results))
  <2>1. PICK S, data, config, answers :
          /\ S = QueriesOf(proc[w].sources, proc[w].mode)
          /\ StartWriting(w, RunPath(proc[w].id),
                 RunFiles(proc[w], [q \in S |-> QueryResult(data, q, config, answers[q])]))
    <3> DEFINE S == QueriesOf(proc[w].sources, proc[w].mode)
               data == Corpora[proc[w].sources]
               config == Matrix[proc[w].config]
    <3>1. PICK answers :
            StartWriting(w, RunPath(proc[w].id),
                RunFiles(proc[w], [q \in S |-> QueryResult(data, q, config, answers[q])]))
      BY DEF Execute
    <3> HIDE DEF data, config
    <3> QED BY <3>1
  <2>2. IsFiniteSet(S)
    <3>1. S \subseteq DOMAIN Corpora[proc[w].sources].queries
      BY <2>1 DEF QueriesOf
    <3>2. IsFiniteSet(DOMAIN Corpora[proc[w].sources].queries)
      BY <1>2, CorporaAreFinite, ApprovalsBindCorpora
    <3> QED BY <3>1, <3>2, FS_Subset
  <2>3. \A q : QueryResult(data, q, config, answers[q]).status \in {"success", "failed", "invalid"}
    BY DEF QueryResult, QueryStatus
  <2> DEFINE results == [q \in S |-> QueryResult(data, q, config, answers[q])]
  <2>4. DOMAIN results = S /\ \A q \in S : results[q].status \in {"success", "failed", "invalid"}
    BY <2>3
  <2> QED BY <2>1, <2>2, <2>4
<1>6. RunsAreSummed'
  BY <1>1, <1>5, RunFilesAreSummed, StartKeepsRuns DEF BackedInvariant
<1>7. proc'[w] = r
  BY <1>1 DEF Move, ExperimentInvariant, RequestsAreSound
<1> HIDE DEF r
<1>8. Backed(proc[w].revision, proc[w].approval)
          => Backed(proc[w].revision, proc[w].approval)'
  <2> SUFFICES ASSUME Backed(proc[w].revision, proc[w].approval)
               PROVE  Backed(proc[w].revision, proc[w].approval)'
    OBVIOUS
  <2>1. PICK k, a : k = proc[w].revision /\ a = proc[w].approval
    OBVIOUS
  <2>2. Backed(k, a)'
    BY <1>1, <2>1 DEF Backed, Ancestors
  <2>3. k = proc'[w].revision /\ a = proc'[w].approval
    BY <1>3, <1>7, <2>1
  <2> QED BY <2>2, <2>3
<1>9. RequestIsBacked(w)'
  <2>1. PICK a : a = proc[w].approval
    OBVIOUS
  <2>2. Authorized(a)' /\ a = proc'[w].approval
    BY <1>1, <1>2, <1>3, <1>7, <2>1 DEF Authorized
  <2> QED BY <1>3, <1>4, <1>7, <1>8, <2>2 DEF RequestIsBacked
<1> QED BY <1>1, <1>6, <1>9, MoveKeepsBacked

LEMMA ReceiptKeepsBacked ==
    ASSUME ExperimentInvariant, BackedInvariant, NEW w \in Writers,
           WriteReceipt(w) \/ Write(w)
    PROVE  BackedInvariant'
<1>1. UNCHANGED <<history, proc, published>>
  BY DEF WriteReceipt, Write, repository
<1>2. RunsAreSummed'
  <2>1. CASE WriteReceipt(w)
    <3>1. PICK receipt : StartWriting(w, ReceiptPath(receipt),
                                      [file \in {"record.json", "record.json.sha256"} |-> receipt])
      BY <2>1 DEF WriteReceipt
    <3>2. ReceiptPath(receipt)[1] # "runs"
      BY DEF ReceiptPath
    <3> QED BY <1>1, <3>1, <3>2, StartKeepsRuns DEF BackedInvariant
  <2>2. CASE Write(w)
    <3>1. WriteFile(w) /\ Target(w) \in DOMAIN dirs
      BY <2>2 DEF Write, WriteFile, ExperimentInvariant, StoreInvariant, JobsAreBegun
    <3> QED BY <1>1, <3>1, WriteKeepsRuns DEF BackedInvariant
  <2> QED BY <2>1, <2>2
<1>3. RequestsAreBacked'
  BY <1>1 DEF BackedInvariant, RequestsAreBacked, RequestIsBacked, Authorized, Backed,
              Ancestors
<1>4. IsOrdered(history)'
  BY <1>1 DEF BackedInvariant
<1>5. FormalRunsAreBacked'
  BY <1>1, <1>4, FormalStaysBacked
<1> QED BY <1>2, <1>3, <1>4, <1>5 DEF BackedInvariant

LEMMA FinishKeepsBacked ==
    ASSUME ExperimentInvariant, BackedInvariant, NEW w \in Writers, Finish(w)
    PROVE  BackedInvariant'
<1>1. history' = history /\ Publish(w) /\ Move(w, None)
  BY DEF Finish, repository
<1>2. JobsAreBegun /\ IsOrdered(history)' /\ proc'[w] = None
      /\ \A v \in Writers \ {w} : proc'[v] = proc[v]
  BY <1>1 DEF ExperimentInvariant, StoreInvariant, BackedInvariant, Move, RequestsAreSound
<1>3. RunsAreSummed'
  BY <1>1, <1>2, PublishKeepsRuns DEF BackedInvariant
<1>4. ASSUME NEW run \in published' \ published, run.manifest.mode = "formal"
      PROVE  /\ Authorized(run.manifest.approval)'
             /\ Backed(run.manifest.revision, run.manifest.approval)'
  <2> DEFINE files == dirs[Target(w)]
  <2>1. proc[w] # None /\ run.manifest = ManifestOf(files)
    BY <1>4 DEF Finish
  <2>2. /\ w \in DOMAIN writers /\ Checksums \in DOMAIN files
        /\ IsWriting(writers[w]) /\ IsBegun(files, writers[w].contents)
    BY <1>1 DEF Publish, ExperimentInvariant, StoreInvariant, JobsAreBegun
  <2>3. proc[w].phase = "writing" /\ SaysWhatItRan(writers[w].contents, proc[w])
    BY <2>1, <2>2 DEF ExperimentInvariant, RequestsAreSound, RequestIsSound
  <2>4. ManifestOf(files) = ManifestOf(writers[w].contents)
    BY <2>2, <2>3 DEF IsBegun, IsWriting, SaysWhatItRan, ManifestOf
  <2>5. /\ run.manifest.approval = proc[w].approval /\ run.manifest.revision = proc[w].revision
        /\ run.manifest.mode = proc[w].mode
    BY <2>1, <2>3, <2>4 DEF SaysWhatItRan
  <2>6. /\ Authorized(run.manifest.approval)
        /\ Backed(run.manifest.revision, run.manifest.approval)
    BY <1>4, <2>1, <2>3, <2>5 DEF BackedInvariant, RequestsAreBacked, RequestIsBacked
  <2> QED BY <1>1, <2>6 DEF Authorized, Backed, Ancestors
<1>5. FormalRunsAreBacked'
  BY <1>1, <1>2, <1>4, FormalStaysBacked
<1>6. RequestsAreBacked'
  <2> SUFFICES ASSUME NEW v \in Writers, proc'[v] # None PROVE RequestIsBacked(v)'
    BY DEF RequestsAreBacked
  <2> QED BY <1>1, <1>2, OthersStayBacked
<1> QED BY <1>2, <1>3, <1>5, <1>6 DEF BackedInvariant

LEMMA StopKeepsBacked ==
    ASSUME ExperimentInvariant, BackedInvariant, NEW w \in Writers, Stop(w)
    PROVE  BackedInvariant'
<1>1. history' = history /\ published' = published /\ Move(w, None)
  BY DEF Stop, repository
<1>2. RunsAreSummed'
  <2>1. CASE Abandon(w)
    BY <1>1, <2>1, AbandonKeepsRuns DEF BackedInvariant
  <2>2. CASE UNCHANGED storeVars
    BY <1>1, <2>2 DEF storeVars, BackedInvariant, RunsAreSummed
  <2> QED BY <2>1, <2>2 DEF Stop
<1> QED BY <1>1, <1>2, MoveKeepsBacked

LEMMA CommitKeepsOrder ==
    ASSUME ExperimentInvariant, BackedInvariant, People(Commit)
    PROVE  IsOrdered(history)' /\ RunsAreSummed'
<1> DEFINE artifacts == Restrict(dirs, Final)
           commit == [parent |-> head, code |-> work.code, package |-> work.package,
                      gate |-> work.gate, artifacts |-> artifacts]
<1>1. history' = Append(history, commit) /\ dirs' = dirs /\ writers' = writers
  BY DEF People, Commit
<1>2. RunsIn(artifacts)
  BY DEF BackedInvariant, RunsAreSummed, RunsIn, Restrict, Final
<1> HIDE DEF artifacts
<1>3. commit.artifacts = artifacts /\ commit.parent = head
  OBVIOUS
<1> HIDE DEF commit
<1>4. PICK S : history \in Seq(S)
  BY DEF ExperimentInvariant, StoreInvariant, HistoryIsWhole
<1>5. history \in Seq(S \cup {commit})
  BY <1>4
<1>6. /\ Len(history) \in Nat /\ Len(history') = Len(history) + 1
      /\ DOMAIN history' = 1..(Len(history) + 1) /\ DOMAIN history = 1..Len(history)
      /\ history'[Len(history) + 1] = commit
      /\ \A c \in DOMAIN history : history'[c] = history[c]
  BY <1>1, <1>5
<1>7. head \in DOMAIN history
  BY DEF ExperimentInvariant, StoreInvariant, HistoryIsWhole
<1>8. ASSUME NEW c \in DOMAIN history'
      PROVE  history'[c].parent \in 0..(c - 1) /\ RunsIn(history'[c].artifacts)
  <2>1. CASE c = Len(history) + 1
    BY <1>2, <1>3, <1>6, <1>7, <2>1
  <2>2. CASE c # Len(history) + 1
    <3>1. c \in DOMAIN history
      BY <1>6, <2>2
    <3> QED BY <1>6, <3>1 DEF BackedInvariant, IsOrdered, RunsAreSummed
  <2> QED BY <2>1, <2>2
<1>9. IsOrdered(history)'
  BY <1>6, <1>8 DEF IsOrdered
<1> QED BY <1>1, <1>8, <1>9 DEF BackedInvariant, RunsAreSummed

LEMMA CheckoutKeepsRuns ==
    ASSUME BackedInvariant, People(Checkout)
    PROVE  RunsAreSummed'
<1>1. history' = history /\ writers' = writers
  BY DEF People, Checkout
<1>2. PICK c \in DOMAIN history \ {head} :
        LET tracked == DOMAIN history[head].artifacts
            arriving == history[c].artifacts
            kept == Restrict(dirs, DOMAIN dirs \ tracked)
        IN  dirs' = [d \in DOMAIN arriving \cup DOMAIN kept |->
                        IF d \in DOMAIN arriving THEN arriving[d] ELSE kept[d]]
  BY DEF People, Checkout
<1>3. \A d \in DOMAIN dirs' :
        \/ d \in DOMAIN history[c].artifacts /\ dirs'[d] = history[c].artifacts[d]
        \/ d \in DOMAIN dirs /\ dirs'[d] = dirs[d]
  BY <1>2 DEF Restrict
<1>4. RunsIn(dirs')
  BY <1>3 DEF BackedInvariant, RunsAreSummed, RunsIn
<1> QED BY <1>1, <1>4 DEF BackedInvariant, RunsAreSummed

LEMMA PeopleKeepBacked ==
    ASSUME ExperimentInvariant, BackedInvariant, Person
    PROVE  BackedInvariant'
<1>1. UNCHANGED <<writers, proc, published>>
  BY DEF Person, People
<1>2. DOMAIN history \subseteq DOMAIN history' /\ \A c \in DOMAIN history : history'[c] = history[c]
  BY PeopleKeepTheStore DEF ExperimentInvariant
<1>3. IsOrdered(history)' /\ RunsAreSummed'
  <2>1. CASE People(Commit)
    BY <2>1, CommitKeepsOrder
  <2>2. CASE People(Checkout)
    <3>1. history' = history
      BY <2>2 DEF People, Checkout
    <3> QED BY <2>2, <3>1, CheckoutKeepsRuns DEF BackedInvariant
  <2>3. CASE People(EditCode) \/ People(EditPackage) \/ People(SetGate)
    <3>1. UNCHANGED <<history, dirs>>
      BY <2>3 DEF People, EditCode, EditPackage, SetGate
    <3> QED BY <1>1, <3>1 DEF BackedInvariant, RunsAreSummed
  <2> QED BY <2>1, <2>2, <2>3 DEF Person
<1>4. FormalRunsAreBacked'
  BY <1>1, <1>2, <1>3, FormalStaysBacked
<1>5. RequestsAreBacked'
  <2> SUFFICES ASSUME NEW v \in Writers, proc'[v] # None PROVE RequestIsBacked(v)'
    BY DEF RequestsAreBacked
  <2> QED BY <1>1, <1>2, <1>3, OthersStayBacked
<1> QED BY <1>3, <1>4, <1>5 DEF BackedInvariant

LEMMA InitIsBacked ==
    ASSUME Init
    PROVE  BackedInvariant
<1>1. DOMAIN dirs = {} /\ DOMAIN writers = {} /\ published = {} /\ \A w \in Writers : proc[w] = None
  BY DEF Init, StoreInit
<1>2. DOMAIN history = 1..2 /\ Len(history) = 2
      /\ \A c \in 1..2 : history[c].parent = c - 1 /\ DOMAIN history[c].artifacts = {}
  <2>1. PICK P, Q : history = [c \in 1..2 |-> [parent |-> c - 1, package |-> P, gate |-> Q,
                          code |-> history[c].code, artifacts |-> [d \in {} |-> {}]]]
    BY DEF Init
  <2>2. DOMAIN history = 1..2
    BY <2>1
  <2>3. history \in Seq({history[1], history[2]})
    BY <2>1
  <2>4. Len(history) = 2
    BY <2>2, <2>3
  <2> QED BY <2>1, <2>2, <2>4
<1>3. IsOrdered(history)
  BY <1>2 DEF IsOrdered
<1>4. RunsAreSummed
  BY <1>1, <1>2 DEF RunsAreSummed, RunsIn
<1> QED BY <1>1, <1>3, <1>4 DEF BackedInvariant, RequestsAreBacked, FormalRunsAreBacked

(* What is behind the results and the requests stays there.                 *)
THEOREM BackedHolds == Spec => []BackedInvariant
<1>1. ASSUME ExperimentInvariant, BackedInvariant, Next
      PROVE  BackedInvariant'
  <2>1. CASE Person
    BY <1>1, <2>1, PeopleKeepBacked
  <2>2. ASSUME NEW w \in Writers, Process(w)
        PROVE  BackedInvariant'
    BY <1>1, <2>2, RequestKeepsBacked, BindKeepsBacked, ExecuteKeepsBacked, ReceiptKeepsBacked,
       FinishKeepsBacked, StopKeepsBacked DEF Process
  <2> QED BY <1>1, <2>1, <2>2 DEF Next
<1>2. ASSUME ExperimentInvariant, BackedInvariant, UNCHANGED vars
      PROVE  BackedInvariant'
  <2>1. UNCHANGED <<dirs, writers, history, proc, published>>
    BY <1>2 DEF vars
  <2>2. RunsAreSummed' /\ IsOrdered(history)'
    BY <1>2, <2>1 DEF BackedInvariant, RunsAreSummed
  <2>3. FormalRunsAreBacked'
    BY <1>2, <2>1, <2>2, FormalStaysBacked
  <2>4. RequestsAreBacked'
    <3> SUFFICES ASSUME NEW v \in Writers, proc'[v] # None PROVE RequestIsBacked(v)'
      BY DEF RequestsAreBacked
    <3> QED BY <1>2, <2>1, <2>2, OthersStayBacked
  <2> QED BY <2>2, <2>3, <2>4 DEF BackedInvariant
<1>3. ExperimentInvariant /\ BackedInvariant /\ [Next]_vars => BackedInvariant'
  BY <1>1, <1>2
<1>4. Init => BackedInvariant
  BY InitIsBacked
<1> QED BY <1>3, <1>4, InvariantHolds, PTL DEF Spec

(* No formal result without its authority and its dry runs: the history      *)
(* holds a gate closed on its approval, an approved one, beside the frozen   *)
(* files this binds, and the history of the revision it declares a receipt,  *)
(* archived no earlier than the dry runs' revision, of a complete and        *)
(* successful dry run of every configuration on that approval, for any       *)
(* edits, commits, checkouts and crashes between the two validations         *)
(* and the publication (eligibility.py validate_formal_eligibility,          *)
(* _validate_dry_run_receipt).                                               *)
THEOREM FormalRunsAreAlwaysBacked == Spec => []FormalRunsAreBacked
<1>1. BackedInvariant => FormalRunsAreBacked
  BY DEF BackedInvariant
<1> QED BY <1>1, BackedHolds, PTL

------------------------------------------------------------------------------
(* Grades.  Evidence and data are those of one query whose truth is valid.  *)
IsGradable(data, evidence) ==
    /\ IsWellFormed(data)
    /\ TruthIsValid(data, evidence)
    /\ \E q \in DOMAIN data.queries : evidence = data.queries[q].evidence

\* The best grade of some evidence is the grade of one of them, and of no more.
LEMMA BestIsReached ==
    ASSUME NEW T, T \subseteq 0..2
    PROVE  /\ Max({0} \cup T) \in {0} \cup T
           /\ Max({0} \cup T) \in 0..2
           /\ \A g \in T : g <= Max({0} \cup T)
<1> DEFINE S == {0} \cup T
<1>1. S \subseteq 0..2 /\ S # {}
  OBVIOUS
<1>2. Max(S) \in S
  BY <1>1, MostExists
<1>3. \E x \in S : \A y \in S : x >= y
  <2>1. CASE 2 \in S
    BY <1>1, <2>1
  <2>2. CASE 2 \notin S /\ 1 \in S
    BY <1>1, <2>2
  <2>3. CASE 2 \notin S /\ 1 \notin S
    BY <1>1, <2>3
  <2> QED BY <2>1, <2>2, <2>3
<1>4. \A y \in S : Max(S) >= y
  BY <1>3 DEF Max
<1> QED BY <1>1, <1>2, <1>4

\* Two sets of evidence, one within the other, have grades in this order.
LEMMA BestGrows ==
    ASSUME NEW T, NEW U, T \subseteq U, U \subseteq 0..2
    PROVE  Max({0} \cup T) <= Max({0} \cup U)
<1>1. Max({0} \cup T) \in {0} \cup T /\ Max({0} \cup U) \in 0..2
      /\ \A g \in U : g <= Max({0} \cup U)
  BY BestIsReached
<1> QED BY <1>1

LEMMA SpanIsInItsFile ==
    ASSUME NEW data, NEW evidence, IsGradable(data, evidence), NEW e \in evidence
    PROVE  /\ EvidenceSpan(data, e)[1] \in Nat /\ EvidenceSpan(data, e)[2] \in Nat
           /\ EvidenceSpan(data, e)[1] < EvidenceSpan(data, e)[2]
           /\ EvidenceSpan(data, e)[2] <= data.lengths[e.path]
           /\ data.lengths[e.path] \in Nat /\ e.path \in DOMAIN data.lengths
           /\ e.grade \in 0..2
<1>1. /\ e.grade \in 0..2
      /\ IF e.span = << >> THEN e.symbol # None
         ELSE e.span[1] \in Nat /\ e.span[2] \in Nat /\ e.span[1] < e.span[2]
      /\ \A s \in data.symbols : s.id = e.symbol => s.path = e.path
      /\ e.path \in DOMAIN data.lengths /\ data.lengths[e.path] \in Nat
  BY DEF IsGradable, IsWellFormed, TruthIsValid
<1>2. CASE e.span # << >>
  BY <1>1, <1>2 DEF IsGradable, TruthIsValid, EvidenceSpan
<1>3. CASE e.span = << >>
  <2>1. \E s \in data.symbols : s.id = e.symbol
    <3>1. e.symbol # None
      BY <1>1, <1>3
    <3> QED BY <3>1 DEF IsGradable, TruthIsValid
  <2> DEFINE s == CHOOSE s \in data.symbols : s.id = e.symbol
  <2>2. s \in data.symbols /\ s.id = e.symbol
    BY <2>1
  <2>3. s.first \in Nat /\ s.last \in (s.first + 1)..data.lengths[s.path] /\ s.path = e.path
    BY <1>1, <2>2 DEF IsGradable, IsWellFormed
  <2>4. EvidenceSpan(data, e) = <<s.first, s.last>>
    BY <1>3 DEF EvidenceSpan
  <2> HIDE DEF s
  <2> QED BY <1>1, <2>3, <2>4
<1> QED BY <1>2, <1>3

\* To overlap is to share a character.
LEMMA OverlapIsCommon ==
    ASSUME NEW a \in Int, NEW b \in Int, NEW c, c.first \in Int, c.last \in Int
    PROVE  Overlaps(<<a, b>>, c) <=> (a..(b - 1)) \cap (c.first..(c.last - 1)) # {}
<1>1. ASSUME Overlaps(<<a, b>>, c)
      PROVE  Most(c.first, a) \in (a..(b - 1)) \cap (c.first..(c.last - 1))
  BY <1>1 DEF Overlaps, Most, Least
<1>2. ASSUME NEW i \in (a..(b - 1)) \cap (c.first..(c.last - 1))
      PROVE  Overlaps(<<a, b>>, c)
  BY DEF Overlaps, Most, Least
<1> QED BY <1>1, <1>2

\* Below every character is a multiple of the stride, less than a stride away.
LEMMA StridesCover ==
    ASSUME NEW k \in Nat \ {0}, NEW n \in Nat
    PROVE  \E q \in Nat : q * k <= n /\ n < q * k + k
<1> DEFINE Missed == {i \in Nat : ~ \E q \in Nat : q * k <= i /\ i < q * k + k}
<1>1. SUFFICES Missed = {}
  OBVIOUS
<1>2. SUFFICES ASSUME Missed # {} PROVE FALSE
  OBVIOUS
<1>3. PICK i \in Missed : \A j \in Missed : i <= j
  <2>1. Missed \subseteq Nat
    OBVIOUS
  <2> QED BY <1>2, <2>1, LeastExists
<1>4. i # 0
  <2>1. 0 * k <= 0 /\ 0 < 0 * k + k
    OBVIOUS
  <2> QED BY <2>1
<1>5. i - 1 \in Nat /\ i - 1 \notin Missed
  BY <1>3, <1>4
<1>6. PICK q \in Nat : q * k <= i - 1 /\ i - 1 < q * k + k
  BY <1>5
<1>7. (q + 1) * k = q * k + k /\ q * k \in Nat
  OBVIOUS
<1>8. CASE i < q * k + k
  BY <1>6, <1>7, <1>8
<1>9. CASE i = q * k + k
  <2> DEFINE p == q + 1
  <2>1. p \in Nat /\ p * k <= i /\ i < p * k + k
    BY <1>7, <1>9
  <2> HIDE DEF p
  <2> QED BY <2>1, <1>3
<1> QED BY <1>6, <1>7, <1>8, <1>9

\* Every character of a file is in one of its chunks.
LEMMA ChunksCover ==
    ASSUME NEW data, IsWellFormed(data), NEW path \in DOMAIN data.lengths,
           NEW i \in 0..(data.lengths[path] - 1)
    PROVE  \E c \in Candidates(data, "chunk") : c.path = path /\ i \in c.first..(c.last - 1)
<1> DEFINE length == data.lengths[path]
<1>1. length \in Nat
  BY DEF IsWellFormed
<1>2. ChunkStride \in Nat \ {0} /\ ChunkSize \in Nat /\ ChunkStride <= ChunkSize
  BY ChunksOverlap
<1>3. PICK q \in Nat : q * ChunkStride <= i /\ i < q * ChunkStride + ChunkStride
  <2>1. i \in Nat
    BY <1>1
  <2>2. \A n \in Nat : \E q \in Nat : q * ChunkStride <= n /\ n < q * ChunkStride + ChunkStride
    BY <1>2, StridesCover
  <2> QED BY <2>1, <2>2
<1> DEFINE s == q * ChunkStride
           c == Stretch(path, s, Least(s + ChunkSize, length), None)
<1>4. s \in Nat /\ s % ChunkStride = 0
  BY <1>2
<1>5. s \in ChunkStarts(length)
  BY <1>1, <1>3, <1>4 DEF ChunkStarts
<1>6. c \in Candidates(data, "chunk")
  BY <1>5 DEF Candidates, ChunksOf
<1>7. c.path = path /\ c.first = s /\ c.last = Least(s + ChunkSize, length)
  BY DEF Stretch
<1>8. i \in s..(Least(s + ChunkSize, length) - 1)
  BY <1>1, <1>2, <1>3, <1>4 DEF Least
<1> QED BY <1>6, <1>7, <1>8

LEMMA ChunksAreStretches ==
    ASSUME NEW data, IsWellFormed(data), NEW c \in Candidates(data, "chunk")
    PROVE  c.first \in Int /\ c.last \in Int
<1>1. PICK p \in DOMAIN data.lengths : c \in ChunksOf(data, p)
  BY DEF Candidates
<1>2. PICK s \in 0..(data.lengths[p] - 1) : c = Stretch(p, s, Least(s + ChunkSize, data.lengths[p]), None)
  BY <1>1 DEF ChunksOf, ChunkStarts
<1>3. data.lengths[p] \in Nat /\ ChunkSize \in Int
  BY ChunksOverlap DEF IsWellFormed
<1> QED BY <1>2, <1>3 DEF Stretch, Least

(* The units grade by the same truth, whatever the files, symbols, chunk     *)
(* size and evidence (baselines.py TruthMapper).                             *)
LEMMA UnitsGradeAlike ==
    ASSUME NEW data, NEW evidence, IsGradable(data, evidence)
    PROVE  GradesAgree(data, evidence)
<1> DEFINE best(E) == Max({0} \cup {e.grade : e \in E})
           at(e) == EvidenceSpan(data, e)[1]..(EvidenceSpan(data, e)[2] - 1)
           grade(unit, c) == Grade(data, evidence, unit, c)
           here(path) == {e \in evidence : e.path = path}
           whole(path) == Stretch(path, 0, data.lengths[path], None)
           chunks(path) == {c \in Candidates(data, "chunk") : c.path = path}
           near(path, c) == {e \in here(path) : at(e) \cap (c.first..(c.last - 1)) # {}}
           supporting(unit, c) == {e \in evidence : Supports(data, unit, e, c)}
<1>1. \A unit, c : grade(unit, c) = best(supporting(unit, c))
  BY DEF Grade
<1>2. \A E \in SUBSET evidence : {e.grade : e \in E} \subseteq 0..2
  BY SpanIsInItsFile
<1>3. ASSUME NEW path, NEW c \in chunks(path)
      PROVE  supporting("chunk", c) = near(path, c)
  <2>1. c.first \in Int /\ c.last \in Int
    BY ChunksAreStretches DEF IsGradable
  <2>2. ASSUME NEW e \in evidence
        PROVE  Supports(data, "chunk", e, c)
                 <=> e.path = path /\ at(e) \cap (c.first..(c.last - 1)) # {}
    <3>1. PICK a \in Int, b \in Int : a = EvidenceSpan(data, e)[1] /\ b = EvidenceSpan(data, e)[2]
      BY SpanIsInItsFile
    <3>2. Supports(data, "chunk", e, c) <=> e.path = path /\ Overlaps(EvidenceSpan(data, e), c)
      BY DEF Supports
    <3>3. Overlaps(EvidenceSpan(data, e), c) <=> Overlaps(<<a, b>>, c)
      BY <3>1 DEF Overlaps
    <3> QED BY <2>1, <3>1, <3>2, <3>3, OverlapIsCommon
  <2> QED BY <2>2
<1>4. ASSUME NEW path \in DOMAIN data.lengths, NEW e \in here(path), NEW i \in at(e)
      PROVE  \E c \in chunks(path) : i \in c.first..(c.last - 1)
  <2>1. i \in 0..(data.lengths[path] - 1)
    BY SpanIsInItsFile
  <2> QED BY <2>1, ChunksCover DEF IsGradable
<1>5. \A path : grade("file", whole(path)) = best(here(path))
  <2>1. \A path : supporting("file", whole(path)) = here(path)
    BY DEF Supports, Stretch
  <2> QED BY <1>1, <2>1
<1>6. ASSUME NEW path \in DOMAIN data.lengths
      PROVE  Max({0} \cup {grade("chunk", c) : c \in chunks(path)}) = best(here(path))
  <2> DEFINE G == {grade("chunk", c) : c \in chunks(path)}
             H == {e.grade : e \in here(path)}
  <2>1. H \subseteq 0..2
    BY <1>2
  <2>2. \A c \in chunks(path) : {e.grade : e \in near(path, c)} \subseteq H
    OBVIOUS
  <2>3. \A c \in chunks(path) : grade("chunk", c) = best(near(path, c))
    BY <1>1, <1>3
  <2>4. G \subseteq {0} \cup H
    <3>1. ASSUME NEW c \in chunks(path) PROVE grade("chunk", c) \in {0} \cup H
      <4>1. best(near(path, c)) \in {0} \cup {e.grade : e \in near(path, c)}
        BY <2>1, <2>2, BestIsReached
      <4> QED BY <2>2, <2>3, <4>1
    <3> QED BY <3>1
  <2>5. \A g \in H : \E f \in G : g <= f
    <3> SUFFICES ASSUME NEW e \in here(path) PROVE \E f \in G : e.grade <= f
      OBVIOUS
    <3>1. EvidenceSpan(data, e)[1] \in at(e)
      BY SpanIsInItsFile
    <3>2. PICK c \in chunks(path) : EvidenceSpan(data, e)[1] \in c.first..(c.last - 1)
      BY <1>4, <3>1
    <3>3. e \in near(path, c)
      BY <3>1, <3>2
    <3>4. e.grade <= best(near(path, c))
      BY <2>1, <2>2, <3>3, BestIsReached
    <3> QED BY <2>3, <3>4
  <2> HIDE DEF G, H
  <2>6. G \subseteq 0..2
    BY <2>1, <2>4
  <2>7. /\ Max({0} \cup G) \in {0} \cup G /\ \A g \in G : g <= Max({0} \cup G)
        /\ Max({0} \cup H) \in {0} \cup H /\ \A g \in H : g <= Max({0} \cup H)
    BY <2>1, <2>6, BestIsReached
  <2>8. Max({0} \cup G) = Max({0} \cup H)
    BY <2>1, <2>4, <2>5, <2>6, <2>7
  <2> QED BY <2>8 DEF G, H
<1>7. ASSUME NEW path, NEW s \in SymbolsOf(data), s.path = path
      PROVE  grade("symbol", s) <= grade("file", whole(path))
  <2>1. supporting("symbol", s) \subseteq here(path)
    BY <1>7 DEF Supports
  <2>2. best(supporting("symbol", s)) <= best(here(path))
    BY <1>2, <2>1, BestGrows
  <2> QED BY <1>1, <1>5, <2>2
<1>8. \A path : \A c \in chunks(path) : grade("chunk", c) = best(near(path, c))
  BY <1>1, <1>3
<1> QED BY <1>4, <1>5, <1>6, <1>7, <1>8 DEF GradesAgree

\* Whoever writes a run has found the truth of every selected query valid.
RequestIsValidated(w) ==
    proc[w].phase = "writing" =>
        /\ proc[w].sources \in DOMAIN Corpora
        /\ \A q \in QueriesOf(proc[w].sources, proc[w].mode) : <<proc[w].sources, q>> \in Validated

ValidatedInvariant ==
    /\ \A w \in Writers : proc[w] # None => RequestIsValidated(w)
    /\ \A run \in published :
          /\ run.sources \in DOMAIN Corpora
          /\ \A q \in run.queries : <<run.sources, q>> \in Validated

\* A step of one process that publishes nothing.
LEMMA MoveKeepsValidated ==
    ASSUME ExperimentInvariant, ValidatedInvariant, NEW w \in Writers, NEW r, Move(w, r),
           published' = published, r # None => RequestIsValidated(w)'
    PROVE  ValidatedInvariant'
<1>1. proc'[w] = r /\ \A v \in Writers \ {w} : proc'[v] = proc[v]
  BY DEF Move, ExperimentInvariant, RequestsAreSound
<1>2. ASSUME NEW v \in Writers, proc'[v] # None PROVE RequestIsValidated(v)'
  <2>1. CASE v = w
    BY <1>1, <1>2, <2>1
  <2>2. CASE v # w
    BY <1>1, <1>2, <2>2 DEF ValidatedInvariant, RequestIsValidated
  <2> QED BY <2>1, <2>2
<1> QED BY <1>2 DEF ValidatedInvariant

\* Until it writes, a request owes nothing.
LEMMA BindKeepsValidated ==
    ASSUME ExperimentInvariant, ValidatedInvariant, NEW w \in Writers,
           Request(w) \/ Prepare(w) \/ Renew(w)
    PROVE  ValidatedInvariant'
<1>1. published' = published
  BY DEF Request, Prepare, Renew
<1>2. PICK r : Move(w, r) /\ r.phase # "writing"
  <2>1. CASE Request(w)
    BY <2>1 DEF Request
  <2>2. CASE Prepare(w) \/ Renew(w)
    <3>1. IsRequest(proc[w])
      BY <2>2 DEF Prepare, Renew, InPhase, ExperimentInvariant, RequestsAreSound, RequestIsSound
    <3>2. CASE Prepare(w)
      <4> DEFINE r == [proc[w] EXCEPT !.phase = "prepared", !.sources = work.package]
      <4>1. Move(w, r) /\ r.phase = "prepared"
        BY <3>1, <3>2 DEF Prepare, IsRequest
      <4> HIDE DEF r
      <4> QED BY <4>1
    <3>3. CASE Renew(w)
      <4> DEFINE r == [proc[w] EXCEPT !.phase = "renewing"]
      <4>1. Move(w, r) /\ r.phase = "renewing"
        BY <3>1, <3>3 DEF Renew, IsRequest
      <4> HIDE DEF r
      <4> QED BY <4>1
    <3> QED BY <2>2, <3>2, <3>3
  <2> QED BY <2>1, <2>2
<1>3. proc'[w] = r
  BY <1>2 DEF Move, ExperimentInvariant, RequestsAreSound
<1> QED BY <1>1, <1>2, <1>3, MoveKeepsValidated DEF RequestIsValidated

\* A run is written once the truth of its queries has been validated.
LEMMA ExecuteKeepsValidated ==
    ASSUME ExperimentInvariant, BackedInvariant, ValidatedInvariant,
           NEW w \in Writers, Execute(w)
    PROVE  ValidatedInvariant'
<1> DEFINE r == [proc[w] EXCEPT !.phase = "writing", !.code = work.code]
<1>1. Move(w, r) /\ published' = published /\ proc[w] # None /\ proc[w].phase = "renewing"
  BY DEF Execute, InPhase
<1>2. IsRequest(proc[w]) /\ proc[w].sources \in DOMAIN Corpora
  BY <1>1, ApprovalsBindCorpora
     DEF ExperimentInvariant, RequestsAreSound, RequestIsSound,
         BackedInvariant, RequestsAreBacked, RequestIsBacked, Authorized
<1>3. r.sources = proc[w].sources /\ r.mode = proc[w].mode
  BY <1>2 DEF IsRequest
<1>4. \A q \in QueriesOf(proc[w].sources, proc[w].mode) : <<proc[w].sources, q>> \in Validated
  <2>1. ASSUME NEW q \in QueriesOf(proc[w].sources, proc[w].mode)
        PROVE  TruthIsValid(Corpora[proc[w].sources], Corpora[proc[w].sources].queries[q].evidence)
    BY DEF Execute, Gradable
  <2> QED BY <1>2, <2>1 DEF QueriesOf, Validated
<1>5. proc'[w] = r
  BY <1>1 DEF Move, ExperimentInvariant, RequestsAreSound
<1> HIDE DEF r
<1>6. RequestIsValidated(w)'
  BY <1>2, <1>3, <1>4, <1>5 DEF RequestIsValidated, QueriesOf, Validated
<1> QED BY <1>1, <1>6, MoveKeepsValidated

LEMMA FinishKeepsValidated ==
    ASSUME ExperimentInvariant, ValidatedInvariant, NEW w \in Writers, Finish(w)
    PROVE  ValidatedInvariant'
<1> DEFINE files == dirs[Target(w)]
<1>1. Publish(w) /\ Move(w, None)
  BY DEF Finish
<1>2. proc'[w] = None /\ \A v \in Writers \ {w} : proc'[v] = proc[v]
  BY <1>1 DEF Move, ExperimentInvariant, RequestsAreSound
<1>3. ASSUME NEW run \in published' \ published
      PROVE  /\ run.sources \in DOMAIN Corpora
             /\ \A q \in run.queries : <<run.sources, q>> \in Validated
  <2>1. proc[w] # None /\ run.queries = DOMAIN RawOf(files) /\ run.sources = proc[w].sources
    BY <1>3 DEF Finish
  <2>2. /\ w \in DOMAIN writers /\ Checksums \in DOMAIN files
        /\ IsWriting(writers[w]) /\ IsBegun(files, writers[w].contents)
    BY <1>1 DEF Publish, ExperimentInvariant, StoreInvariant, JobsAreBegun
  <2>3. proc[w].phase = "writing" /\ SaysWhatItRan(writers[w].contents, proc[w])
    BY <2>1, <2>2 DEF ExperimentInvariant, RequestsAreSound, RequestIsSound
  <2>4. RawOf(files) = RawOf(writers[w].contents)
    BY <2>2, <2>3 DEF IsBegun, IsWriting, SaysWhatItRan, RawOf
  <2>5. run.queries = QueriesOf(proc[w].sources, proc[w].mode)
    BY <2>1, <2>3, <2>4 DEF SaysWhatItRan
  <2> QED BY <2>1, <2>3, <2>5 DEF ValidatedInvariant, RequestIsValidated
<1>4. \A v \in Writers : proc'[v] # None => RequestIsValidated(v)'
  BY <1>2 DEF ValidatedInvariant, RequestIsValidated
<1> QED BY <1>3, <1>4 DEF ValidatedInvariant

THEOREM ValidatedHolds == Spec => []ValidatedInvariant
<1>1. ASSUME ExperimentInvariant, BackedInvariant, ValidatedInvariant, Next
      PROVE  ValidatedInvariant'
  <2>1. CASE Person
    BY <1>1, <2>1 DEF Person, People, ValidatedInvariant, RequestIsValidated
  <2>2. ASSUME NEW w \in Writers, Process(w)
        PROVE  ValidatedInvariant'
    <3>1. CASE WriteReceipt(w) \/ Write(w)
      BY <1>1, <3>1 DEF WriteReceipt, Write, ValidatedInvariant, RequestIsValidated
    <3>2. CASE Stop(w)
      BY <1>1, <3>2, MoveKeepsValidated DEF Stop
    <3> QED BY <1>1, <2>2, <3>1, <3>2, BindKeepsValidated, ExecuteKeepsValidated,
               FinishKeepsValidated DEF Process
  <2> QED BY <1>1, <2>1, <2>2 DEF Next
<1>2. ASSUME ValidatedInvariant, UNCHANGED vars
      PROVE  ValidatedInvariant'
  BY <1>2 DEF vars, ValidatedInvariant, RequestIsValidated
<1>3. ExperimentInvariant /\ BackedInvariant /\ ValidatedInvariant /\ [Next]_vars
          => ValidatedInvariant'
  BY <1>1, <1>2
<1>4. Init => ValidatedInvariant
  BY DEF Init, ValidatedInvariant
<1> QED BY <1>3, <1>4, InvariantHolds, BackedHolds, PTL DEF Spec

\* A query whose truth is valid is graded evenly, in any frozen data.
LEMMA ValidatedIsEven == Validated \subseteq EvenlyGraded
<1> SUFFICES ASSUME NEW x \in Validated
             PROVE  GradesAgree(Corpora[x[1]], Corpora[x[1]].queries[x[2]].evidence)
  BY DEF EvenlyGraded
<1>1. /\ x[1] \in DOMAIN Corpora /\ x[2] \in DOMAIN Corpora[x[1]].queries
      /\ TruthIsValid(Corpora[x[1]], Corpora[x[1]].queries[x[2]].evidence)
  BY DEF Validated
<1>2. IsWellFormed(Corpora[x[1]])
  BY <1>1, CorporaAreWellFormed
<1>3. IsGradable(Corpora[x[1]], Corpora[x[1]].queries[x[2]].evidence)
  BY <1>1, <1>2 DEF IsGradable
<1> QED BY <1>3, UnitsGradeAlike

(* Every query of a published run has a valid truth, by which its file, its  *)
(* chunks and its symbols are graded alike, for any frozen data, any chunk   *)
(* size and any stride up to it (baselines.py TruthMapper, validate_truth).  *)
THEOREM UnitsAlwaysAgree == Spec => []UnitsAgree
<1>1. ValidatedInvariant => UnitsAgree
  BY ValidatedIsEven DEF ValidatedInvariant, UnitsAgree
<1> QED BY <1>1, ValidatedHolds, PTL

------------------------------------------------------------------------------
(* Scores.  First what ProductSet returns: that there is a function such as  *)
(* it takes the value of, and that it stays a positive number.               *)

\* f multiplies the members of every subset of S, the way ProductSet does.
Products(S, f) ==
    f = [s \in SUBSET S |-> IF s = {} THEN 1 ELSE Pick(s) * f[s \ {Pick(s)}]]

LEMMA ProductsAgree ==
    ASSUME NEW S, NEW T, NEW f, NEW g, Products(S, f), Products(T, g),
           NEW C, IsFiniteSet(C), C \subseteq S, C \subseteq T
    PROVE  f[C] = g[C]
<1> DEFINE Bad == {V \in SUBSET C : f[V] # g[V]}
<1>1. SUFFICES ASSUME Bad # {} PROVE FALSE
  OBVIOUS
<1>2. PICK V \in Bad : \A U \in Bad : U \subseteq V => U = V
  <2>1. Bad \in SUBSET SUBSET C
    OBVIOUS
  <2> HIDE DEF Bad
  <2> QED BY <1>1, <2>1, SmallestCounterexample
<1>3. /\ V \in SUBSET S /\ V \in SUBSET T
      /\ f[V] = IF V = {} THEN 1 ELSE Pick(V) * f[V \ {Pick(V)}]
      /\ g[V] = IF V = {} THEN 1 ELSE Pick(V) * g[V \ {Pick(V)}]
  BY DEF Products
<1>4. V # {} /\ Pick(V) \in V
  BY <1>3, PickIsIn
<1>5. f[V \ {Pick(V)}] = g[V \ {Pick(V)}]
  BY <1>2, <1>4
<1> QED BY <1>3, <1>4, <1>5

LEMMA ProductsExist ==
    ASSUME NEW S, IsFiniteSet(S)
    PROVE  \E f : Products(S, f)
<1> DEFINE Bad == {V \in SUBSET S : ~ \E f : Products(V, f)}
<1>1. SUFFICES ASSUME Bad # {} PROVE FALSE
  BY <1>1
<1>2. PICK V \in Bad : IsFiniteSet(V) /\ \A U \in Bad : U \subseteq V => U = V
  <2>1. Bad \in SUBSET SUBSET S
    OBVIOUS
  <2> HIDE DEF Bad
  <2> QED BY <1>1, <2>1, SmallestCounterexample
<1> DEFINE G(U) == CHOOSE f : Products(U, f)
           Less(s) == s \ {Pick(s)}
           h == [s \in SUBSET V |-> IF s = {} THEN 1 ELSE Pick(s) * G(Less(s))[Less(s)]]
<1>3. \A U \in SUBSET V : U # V => Products(U, G(U))
  BY <1>2
<1>4. \A U \in SUBSET V : U # V => h[U] = G(U)[U]
  <2> SUFFICES ASSUME NEW U \in SUBSET V, U # V PROVE h[U] = G(U)[U]
    OBVIOUS
  <2>1. Products(U, G(U))
    BY <1>3
  <2>2. G(U)[U] = IF U = {} THEN 1 ELSE Pick(U) * G(U)[Less(U)]
    <3> HIDE DEF G
    <3> QED BY <2>1 DEF Products
  <2>3. CASE U = {}
    BY <2>2, <2>3
  <2>4. CASE U # {}
    <3>1. Less(U) \in SUBSET V /\ Less(U) # V /\ Less(U) \subseteq U /\ IsFiniteSet(Less(U))
      BY <1>2, <2>4, PickIsIn, FS_Subset
    <3>2. Products(Less(U), G(Less(U)))
      BY <1>3, <3>1
    <3>3. G(U)[Less(U)] = G(Less(U))[Less(U)]
      <4> HIDE DEF G, Less
      <4> QED BY <2>1, <3>1, <3>2, ProductsAgree
    <3> QED BY <2>2, <2>4, <3>3
  <2> QED BY <2>3, <2>4
<1>5. \A s \in SUBSET V : h[s] = IF s = {} THEN 1 ELSE Pick(s) * h[s \ {Pick(s)}]
  <2>1. ASSUME NEW s \in SUBSET V, s = {} PROVE h[s] = 1
    BY <2>1
  <2>2. ASSUME NEW s \in SUBSET V, s # {}
        PROVE  h[s] = Pick(s) * h[s \ {Pick(s)}]
    <3>1. s \ {Pick(s)} \in SUBSET V /\ s \ {Pick(s)} # V
      BY <2>2, PickIsIn
    <3>2. h[s] = Pick(s) * G(s \ {Pick(s)})[s \ {Pick(s)}]
      BY <2>2
    <3> QED BY <3>1, <3>2, <1>4
  <2> HIDE DEF h
  <2> QED BY <2>1, <2>2
<1>6. Products(V, h)
  <2> h = [s \in SUBSET V |-> h[s]]
    OBVIOUS
  <2> HIDE DEF h
  <2> QED BY <1>5 DEF Products
<1> QED BY <1>6

\* A product of positive numbers is one.
LEMMA ProductIsPositive ==
    ASSUME NEW S, IsFiniteSet(S)
    PROVE  S \subseteq Nat \ {0} => ProductSet(S) \in Nat \ {0}
<1>1. ProductSet(S) = (CHOOSE f : Products(S, f))[S]
  BY DEF ProductSet, FoldSet, MapThenFoldSet, Products, Pick
<1>2. PICK f : Products(S, f) /\ ProductSet(S) = f[S]
  BY <1>1, ProductsExist
<1> DEFINE Bad == {V \in SUBSET S : f[V] \notin Nat \ {0}}
<1>3. ASSUME S \subseteq Nat \ {0}, Bad # {} PROVE FALSE
  <2>1. PICK V \in Bad : IsFiniteSet(V) /\ \A U \in Bad : U \subseteq V => U = V
    <3>1. Bad \in SUBSET SUBSET S /\ Bad # {}
      BY <1>3
    <3> HIDE DEF Bad
    <3> QED BY <3>1, SmallestCounterexample
  <2>2. f[V] = IF V = {} THEN 1 ELSE Pick(V) * f[V \ {Pick(V)}]
    BY <1>2 DEF Products
  <2>3. V # {} /\ Pick(V) \in V
    BY <2>2, PickIsIn
  <2>4. f[V \ {Pick(V)}] \in Nat \ {0}
    <3>1. V \ {Pick(V)} \notin Bad /\ V \ {Pick(V)} \in SUBSET S
      BY <2>1, <2>3
    <3> QED BY <3>1
  <2>5. Pick(V) \in Nat \ {0}
    BY <1>3, <2>3
  <2>6. \A a, b \in Nat \ {0} : a * b \in Nat \ {0}
    OBVIOUS
  <2> QED BY <2>1, <2>2, <2>3, <2>4, <2>5, <2>6
<1> QED BY <1>2, <1>3

\* A sum in which some members count at most a fixed amount, and others nothing.
LEMMA TotalIsBounded ==
    ASSUME NEW S, IsFiniteSet(S), NEW v, NEW C, C \subseteq S, NEW most \in Nat,
           \A x \in S : v[x] \in Nat,
           \A x \in S : v[x] <= IF x \in C THEN most ELSE 0
    PROVE  /\ Total(v, S) \in Nat
           /\ Total(v, S) <= most * Cardinality(C)
<1> DEFINE Within(V) == Total(v, V) <= most * Cardinality(C \cap V)
           Bad == {V \in SUBSET S : ~ Within(V)}
<1>1. ASSUME Bad # {} PROVE FALSE
  <2>1. PICK V \in Bad : IsFiniteSet(V) /\ \A U \in Bad : U \subseteq V => U = V
    <3>1. Bad \in SUBSET SUBSET S
      OBVIOUS
    <3> HIDE DEF Bad
    <3> QED BY <1>1, <3>1, SmallestCounterexample
  <2>2. Total(v, V) = IF V = {} THEN 0 ELSE v[Pick(V)] + Total(v, V \ {Pick(V)})
    BY <2>1, TotalUnfolds
  <2>3. V # {}
    <3>1. CASE V = {}
      <4>1. Total(v, V) = 0 /\ C \cap V = {} /\ Cardinality(C \cap V) = 0
        BY <2>2, <3>1, FS_EmptySet
      <4>2. most * 0 = 0
        OBVIOUS
      <4> QED BY <2>1, <4>1, <4>2
    <3> QED BY <3>1
  <2> DEFINE x == Pick(V)
             W == V \ {x}
  <2>4. x \in V /\ W \in SUBSET S /\ W # V /\ W \subseteq V
    BY <2>1, <2>3, PickIsIn
  <2>5. Within(W)
    BY <2>1, <2>4
  <2>6. /\ IsFiniteSet(C \cap V) /\ C \cap W = (C \cap V) \ {x}
        /\ Cardinality(C \cap V) \in Nat /\ Cardinality(C \cap W) \in Nat
    <3>1. IsFiniteSet(C \cap V) /\ IsFiniteSet(C \cap W)
      BY <2>1, <2>4, FS_Subset
    <3> QED BY <3>1, FS_CardinalityType
  <2>7. Cardinality(C \cap W) = IF x \in C THEN Cardinality(C \cap V) - 1 ELSE Cardinality(C \cap V)
    <3> DEFINE D == C \cap V
    <3>1. Cardinality(D \ {x}) = IF x \in D THEN Cardinality(D) - 1 ELSE Cardinality(D)
      <4> HIDE DEF D, x
      <4> QED BY <2>6, FS_RemoveElement DEF D
    <3>2. x \in D <=> x \in C
      BY <2>4
    <3> HIDE DEF x
    <3> QED BY <2>6, <3>1, <3>2
  <2>8. Total(v, W) \in Nat
    <3>1. IsFiniteSet(W) /\ \A y \in W : v[y] \in Nat
      BY <2>1, <2>4, FS_Subset
    <3> HIDE DEF W
    <3> QED BY <3>1, TotalIsNat
  <2>9. v[x] \in Nat /\ v[x] <= IF x \in C THEN most ELSE 0
    BY <2>4
  <2>10. Total(v, V) = v[x] + Total(v, W)
    BY <2>2, <2>3
  <2> HIDE DEF x, W
  <2>11. PICK c \in Nat : c = Cardinality(C \cap W)
    BY <2>6
  <2>12. Total(v, W) <= most * c
    BY <2>5, <2>11
  <2>13. CASE x \in C
    <3>1. Cardinality(C \cap V) = c + 1
      BY <2>6, <2>7, <2>11, <2>13
    <3>2. most * (c + 1) = most * c + most /\ most * c \in Nat
      OBVIOUS
    <3>3. Total(v, V) <= most * (c + 1)
      BY <2>8, <2>9, <2>10, <2>12, <2>13, <3>2
    <3> QED BY <2>1, <3>1, <3>3
  <2>14. CASE x \notin C
    <3>1. Cardinality(C \cap V) = c
      BY <2>6, <2>7, <2>11, <2>14
    <3>2. most * c \in Nat
      OBVIOUS
    <3>3. Total(v, V) <= most * c
      BY <2>8, <2>9, <2>10, <2>12, <2>14, <3>2
    <3> QED BY <2>1, <3>1, <3>3
  <2> QED BY <2>13, <2>14
<1>2. Within(S)
  BY <1>1
<1>3. C \cap S = C
  OBVIOUS
<1> QED BY <1>2, <1>3, TotalIsNat

\* A score lies between zero and one; without success it is zero.
IsScored(result) ==
    /\ result.status \in {"success", "failed", "invalid"}
    /\ \A m \in MetricNames :
           /\ result.metrics[m][1] \in Nat /\ result.metrics[m][2] \in Nat \ {0}
           /\ result.metrics[m][1] <= result.metrics[m][2]
           /\ result.status # "success" => result.metrics[m][1] = 0

\* What one result adds to the numerator of a mean over the denominator.
Share(results, m, denominator, q) ==
    results[q].metrics[m][1] * (denominator \div results[q].metrics[m][2])

\* The common denominator of a mean.
Common(results, m) == ProductSet({results[q].metrics[m][2] : q \in DOMAIN results})

LEMMA MeanIsTotal ==
    ASSUME NEW results, IsFiniteSet(DOMAIN results), NEW m, NEW v,
           \A q \in DOMAIN results : v[q] = Share(results, m, Common(results, m), q)
    PROVE  Mean(results, m)
               = <<Total(v, DOMAIN results), Common(results, m) * Cardinality(DOMAIN results)>>
<1> DEFINE S == DOMAIN results
           Form(f) == f = [s \in SUBSET S |-> IF s = {} THEN 0
                ELSE Share(results, m, Common(results, m), Pick(s)) + f[s \ {Pick(s)}]]
<1>1. Mean(results, m) = <<(CHOOSE f : Form(f))[S], Common(results, m) * Cardinality(S)>>
  BY DEF Mean, MapThenSumSet, MapThenFoldSet, Pick, Share, Common
<1>2. \A s \in SUBSET S : s # {} =>
          Share(results, m, Common(results, m), Pick(s)) = v[Pick(s)]
  BY PickIsIn
<1>3. \A f : Form(f) <=> Sums(v, S, f)
  BY <1>2 DEF Sums
<1> HIDE DEF S
<1>4. PICK f : Sums(v, S, f) /\ Total(v, S) = f[S]
  BY TotalIsSum DEF S
<1>5. Form(CHOOSE g : Form(g))
  BY <1>3, <1>4
<1>6. Sums(v, S, CHOOSE g : Form(g))
  BY <1>3, <1>5
<1> HIDE DEF Form
<1>7. (CHOOSE g : Form(g))[S] = f[S]
  BY <1>4, <1>6, SumsAgree DEF S
<1> QED BY <1>1, <1>4, <1>7 DEF S

\* The mean of any number of scores is at most the share of successes.
LEMMA MeanIsBounded ==
    ASSUME NEW results, IsFiniteSet(DOMAIN results),
           \A q \in DOMAIN results : IsScored(results[q]), NEW m \in MetricNames
    PROVE  AtMost(Mean(results, m),
                  <<Count(results, "success"), Cardinality(DOMAIN results)>>)
<1> DEFINE S == DOMAIN results
           won == {q \in S : results[q].status = "success"}
           divisors == {results[q].metrics[m][2] : q \in S}
<1>1. PICK D : D = Common(results, m)
  OBVIOUS
<1>2. D \in Nat \ {0}
  <2>1. divisors \subseteq Nat \ {0}
    BY DEF IsScored
  <2>2. IsFiniteSet(divisors)
    <3>1. PICK f : f = [q \in S |-> results[q].metrics[m][2]]
      OBVIOUS
    <3>2. f \in Surjection(S, divisors)
      BY <3>1 DEF Surjection
    <3> QED BY <3>2, FS_Surjection
  <2> HIDE DEF divisors
  <2> QED BY <1>1, <2>1, <2>2, ProductIsPositive DEF Common, divisors, S
<1>3. PICK v : v = [q \in S |-> Share(results, m, D, q)]
  OBVIOUS
<1>4. \A a, b \in Nat : a * b \in Nat
  OBVIOUS
<1>5. ASSUME NEW q \in S
      PROVE  v[q] \in Nat /\ v[q] <= IF q \in won THEN D ELSE 0
  <2>1. PICK n \in Nat, d \in Nat \ {0} :
            /\ n = results[q].metrics[m][1] /\ d = results[q].metrics[m][2]
            /\ n <= d /\ (q \notin won => n = 0)
    BY DEF IsScored
  <2>2. PICK e \in Nat : e = D \div d /\ d * e <= D
    BY <1>2
  <2>3. v[q] = n * e
    BY <1>3, <2>1, <2>2 DEF Share
  <2>4. n * e \in Nat /\ d * e \in Nat
    BY <1>4
  <2>5. n * e <= d * e
    <3>1. PICK k \in Nat : d = n + k
      <4>1. d - n \in Nat /\ d = n + (d - n)
        BY <2>1
      <4> QED BY <4>1
    <3>2. (n + k) * e = n * e + k * e /\ k * e \in Nat
      BY <1>4
    <3> QED BY <2>4, <3>1, <3>2
  <2>6. n = 0 => n * e = 0
    OBVIOUS
  <2> QED BY <1>2, <2>1, <2>2, <2>3, <2>4, <2>5, <2>6
<1>6. Total(v, S) \in Nat /\ Total(v, S) <= D * Cardinality(won)
  <2> HIDE DEF S
  <2>1. won \subseteq S /\ D \in Nat /\ IsFiniteSet(S)
    BY <1>2 DEF S
  <2>2. (\A q \in S : v[q] \in Nat) /\ \A q \in S : v[q] <= IF q \in won THEN D ELSE 0
    BY <1>5
  <2> HIDE DEF won
  <2> QED BY <2>1, <2>2, TotalIsBounded
<1>7. Mean(results, m) = <<Total(v, S), D * Cardinality(S)>>
  BY <1>1, <1>3, MeanIsTotal
<1>8. Count(results, "success") = Cardinality(won) /\ Cardinality(won) \in Nat
  <2>1. IsFiniteSet(won)
    BY FS_Subset
  <2> QED BY <2>1, FS_CardinalityType DEF Count
<1>9. Cardinality(S) \in Nat
  BY FS_CardinalityType
<1> HIDE DEF S, won
<1>10. PICK t \in Nat, c \in Nat, n \in Nat :
           /\ t = Total(v, S) /\ c = Cardinality(won) /\ n = Cardinality(S) /\ t <= D * c
  BY <1>6, <1>8, <1>9
<1>11. t * n <= c * (D * n)
  <2>1. D * c \in Nat /\ c * D = D * c
    BY <1>2, <1>4
  <2>2. PICK k \in Nat : D * c = t + k
    <3>1. D * c - t \in Nat /\ D * c = t + (D * c - t)
      BY <1>10, <2>1
    <3> QED BY <3>1
  <2>3. (t + k) * n = t * n + k * n /\ t * n \in Nat /\ k * n \in Nat
    BY <1>4
  <2>4. c * (D * n) = (D * c) * n
    BY <1>2
  <2> QED BY <2>2, <2>3, <2>4
<1> QED BY <1>7, <1>8, <1>10, <1>11 DEF AtMost, S

\* So a summary of any scores is sound, however many there are.
LEMMA AnySummaryIsSound ==
    ASSUME NEW results, IsFiniteSet(DOMAIN results),
           \A q \in DOMAIN results : IsScored(results[q])
    PROVE  SummaryIsSound(results)
<1>1. ASSUME NEW m \in MetricNames
      PROVE  AtMost(Summary(results).means[m],
                    <<Summary(results).counts["success"], Cardinality(DOMAIN results)>>)
  BY <1>1, MeanIsBounded DEF Summary
<1>2. Summary(results).status = "success"
          <=> \A q \in DOMAIN results : results[q].status = "success"
  <2>1. \A q \in DOMAIN results : results[q].status \in {"success", "failed", "invalid"}
    BY DEF IsScored
  <2> QED BY <2>1 DEF Summary, RunStatus
<1> QED BY <1>1, <1>2 DEF SummaryIsSound

\* What ranks count together.
Weight(ranks) == Total(Discount, ranks)

Ranks == 1..ShortCutoff

LEMMA RanksAreWeighed ==
    /\ ShortCutoff \in Nat \ {0} /\ IsFiniteSet(Ranks)
    /\ \A i \in Ranks : Discount[i] \in Nat \ {0} /\ Discount[i] \in Int
    /\ \A i, j \in Ranks : i < j => Discount[j] < Discount[i]
<1>1. ShortCutoff \in Nat \ {0}
  BY CutoffsAreOrdered
<1>2. IsFiniteSet(Ranks)
  BY <1>1, FS_Interval DEF Ranks
<1> QED BY <1>1, <1>2, DiscountsFall DEF Ranks

LEMMA WeightsAdd ==
    ASSUME NEW A \in SUBSET Ranks
    PROVE  /\ IsFiniteSet(A) /\ Cardinality(A) \in Nat /\ Weight(A) \in Nat
           /\ A = {} => Weight(A) = 0 /\ Cardinality(A) = 0
           /\ \A i \in A : /\ Weight(A) = Discount[i] + Weight(A \ {i})
                           /\ Cardinality(A) = 1 + Cardinality(A \ {i})
<1>1. IsFiniteSet(A) /\ Cardinality(A) \in Nat
  BY RanksAreWeighed, FS_Subset, FS_CardinalityType
<1>2. \A i \in A : Discount[i] \in Nat /\ Discount[i] \in Int
  BY RanksAreWeighed
<1>3. Weight(A) \in Nat
  BY <1>1, <1>2, TotalIsNat DEF Weight
<1>4. A = {} => Weight(A) = 0 /\ Cardinality(A) = 0
  BY <1>1, TotalUnfolds, FS_EmptySet DEF Weight
<1>5. ASSUME NEW i \in A
      PROVE  /\ Weight(A) = Discount[i] + Weight(A \ {i})
             /\ Cardinality(A) = 1 + Cardinality(A \ {i})
  <2>1. Weight(A) = Discount[i] + Weight(A \ {i})
    BY <1>1, <1>2, TotalAdds DEF Weight
  <2>2. Cardinality(A \ {i}) = Cardinality(A) - 1
    BY <1>1, FS_RemoveElement
  <2> QED BY <1>1, <2>1, <2>2
<1> QED BY <1>1, <1>3, <1>4, <1>5

LEMMA FirstRanks ==
    ASSUME NEW b \in 0..ShortCutoff
    PROVE  /\ 1..b \in SUBSET Ranks /\ Cardinality(1..b) = b
           /\ b > 0 => Weight(1..b) = Discount[b] + Weight(1..(b - 1))
<1>1. ShortCutoff \in Nat
  BY RanksAreWeighed
<1>2. 1..b \in SUBSET Ranks
  BY <1>1 DEF Ranks
<1>3. Cardinality(1..b) = b
  BY <1>1, FS_Interval
<1>4. b > 0 => b \in 1..b /\ (1..b) \ {b} = 1..(b - 1)
  BY <1>1
<1> QED BY <1>2, <1>3, <1>4, WeightsAdd

\* Of all choices of at most b ranks the first b weigh most, and no other as
\* much.
Heaviest(b) ==
    \A A \in SUBSET Ranks :
        Cardinality(A) <= b => /\ Weight(A) <= Weight(1..b)
                               /\ Weight(A) = Weight(1..b) => A = 1..b

LEMMA FirstAreHeaviest == \A b \in 0..ShortCutoff : Heaviest(b)
<1> DEFINE Bad == {b \in 0..ShortCutoff : ~ Heaviest(b)}
<1>0. ShortCutoff \in Nat
  BY RanksAreWeighed
<1>1. ASSUME Bad # {} PROVE FALSE
  <2>1. PICK b \in Bad : \A k \in Bad : b <= k
    <3>1. Bad \subseteq Nat
      BY <1>0
    <3> HIDE DEF Bad
    <3> QED BY <1>1, <3>1, LeastExists
  <2>2. b \in 0..ShortCutoff /\ b \in Nat /\ ~ Heaviest(b)
    BY <1>0, <2>1
  <2>3. PICK A \in SUBSET Ranks :
            /\ Cardinality(A) <= b
            /\ ~ (Weight(A) <= Weight(1..b) /\ (Weight(A) = Weight(1..b) => A = 1..b))
    BY <2>2 DEF Heaviest
  <2>4. /\ Cardinality(A) \in Nat /\ Weight(A) \in Nat /\ IsFiniteSet(A)
        /\ 1..b \in SUBSET Ranks /\ Cardinality(1..b) = b /\ Weight(1..b) \in Nat
    BY <2>2, WeightsAdd, FirstRanks
  <2>5. b # 0
    <3>1. CASE b = 0
      <4>1. Cardinality(A) = 0
        BY <2>3, <2>4, <3>1
      <4>2. A = {}
        BY <2>4, <4>1, FS_EmptySet
      <4>3. 1..b = {}
        BY <3>1
      <4> QED BY <2>3, <2>4, <4>2, <4>3
    <3> QED BY <3>1
  <2>6. /\ b - 1 \in 0..ShortCutoff /\ Heaviest(b - 1) /\ b \in Ranks
        /\ 1..(b - 1) \in SUBSET Ranks
        /\ Weight(1..b) = Discount[b] + Weight(1..(b - 1))
    <3>1. b - 1 \in 0..ShortCutoff /\ ~ (b <= b - 1) /\ b \in Ranks /\ b > 0
      BY <1>0, <2>2, <2>5 DEF Ranks
    <3>2. b - 1 \notin Bad
      BY <2>1, <3>1
    <3> QED BY <2>2, <3>1, <3>2, FirstRanks
  <2>7. Discount[b] \in Nat \ {0} /\ Weight(1..(b - 1)) \in Nat
    BY <2>6, RanksAreWeighed, WeightsAdd
  <2>8. CASE A \subseteq 1..(b - 1)
    <3>1. Cardinality(A) <= b - 1
      <4>1. IsFiniteSet(1..(b - 1)) /\ Cardinality(1..(b - 1)) = b - 1
        BY <2>2, <2>5, FS_Interval
      <4> QED BY <2>8, <4>1, FS_Subset
    <3>2. Weight(A) <= Weight(1..(b - 1))
      BY <2>6, <3>1 DEF Heaviest
    <3>3. Weight(A) < Weight(1..b)
      BY <2>4, <2>6, <2>7, <3>2
    <3> QED BY <2>3, <2>4, <3>3
  <2>9. CASE ~ (A \subseteq 1..(b - 1))
    <3>1. PICK m \in A : m \notin 1..(b - 1)
      BY <2>9
    <3>2. m \in Ranks /\ m \in Nat /\ m >= b
      BY <1>0, <2>2, <3>1 DEF Ranks
    <3>3. /\ Weight(A) = Discount[m] + Weight(A \ {m})
          /\ Cardinality(A) = 1 + Cardinality(A \ {m})
          /\ A \ {m} \in SUBSET Ranks
      BY <3>1, WeightsAdd
    <3>4. Cardinality(A \ {m}) \in Nat /\ Weight(A \ {m}) \in Nat
      BY <3>3, WeightsAdd
    <3>5. /\ Weight(A \ {m}) <= Weight(1..(b - 1))
          /\ Weight(A \ {m}) = Weight(1..(b - 1)) => A \ {m} = 1..(b - 1)
      <4>1. Cardinality(A \ {m}) <= b - 1
        BY <2>2, <2>3, <2>4, <3>3, <3>4
      <4> QED BY <2>6, <3>3, <4>1 DEF Heaviest
    <3>6. /\ Discount[m] \in Nat /\ Discount[m] <= Discount[b]
          /\ Discount[m] = Discount[b] => m = b
      <4>1. CASE m = b
        BY <2>7, <4>1
      <4>2. CASE m # b
        <5>1. b < m /\ Discount[m] \in Nat
          BY <2>2, <3>2, <4>2, RanksAreWeighed
        <5>2. Discount[m] < Discount[b]
          BY <2>6, <3>2, <5>1, RanksAreWeighed
        <5> QED BY <2>7, <5>1, <5>2
      <4> QED BY <4>1, <4>2
    <3>7. Weight(A) <= Weight(1..b)
      BY <2>6, <2>7, <3>3, <3>4, <3>5, <3>6
    <3>8. ASSUME Weight(A) = Weight(1..b)
          PROVE  A = 1..b
      <4>1. Discount[m] = Discount[b] /\ Weight(A \ {m}) = Weight(1..(b - 1))
        BY <2>6, <2>7, <3>3, <3>4, <3>5, <3>6, <3>8
      <4>2. m = b /\ A \ {b} = 1..(b - 1) /\ b \in A
        BY <3>1, <3>5, <3>6, <4>1
      <4>3. (1..(b - 1)) \cup {b} = 1..b
        BY <2>2, <2>5
      <4> QED BY <4>2, <4>3
    <3> QED BY <2>3, <3>7, <3>8
  <2> QED BY <2>8, <2>9
<1> QED BY <1>1

\* The ranks that hold at least a grade.
Layer(graded, t) == {i \in DOMAIN graded : graded[i] >= t}

LEMMA GainIsTotal ==
    ASSUME NEW graded, IsFiniteSet(DOMAIN graded), NEW w,
           \A i \in DOMAIN graded : w[i] = Gain(graded[i]) * Discount[i]
    PROVE  CumulatedGain(graded) = Total(w, DOMAIN graded)
<1> DEFINE S == DOMAIN graded
           Form(f) == f = [s \in SUBSET S |-> IF s = {} THEN 0
                ELSE Gain(graded[Pick(s)]) * Discount[Pick(s)] + f[s \ {Pick(s)}]]
<1>1. CumulatedGain(graded) = (CHOOSE f : Form(f))[S]
  BY DEF CumulatedGain, MapThenSumSet, MapThenFoldSet, Pick
<1>2. \A s \in SUBSET S : s # {} => Gain(graded[Pick(s)]) * Discount[Pick(s)] = w[Pick(s)]
  BY PickIsIn
<1>3. \A f : Form(f) <=> Sums(w, S, f)
  BY <1>2 DEF Sums
<1> HIDE DEF S
<1>4. PICK f : Sums(w, S, f) /\ Total(w, S) = f[S]
  BY TotalIsSum DEF S
<1>5. Form(CHOOSE g : Form(g))
  BY <1>3, <1>4
<1>6. Sums(w, S, CHOOSE g : Form(g))
  BY <1>3, <1>5
<1> HIDE DEF Form
<1>7. (CHOOSE g : Form(g))[S] = f[S]
  BY <1>4, <1>6, SumsAgree DEF S
<1> QED BY <1>1, <1>4, <1>7 DEF S

LEMMA GainsAre == Gain(0) = 0 /\ Gain(1) = 1 /\ Gain(2) = 3
<1>1. 2^0 = 1 /\ 2^1 = 2 /\ 2^2 = 4
  OBVIOUS
<1> QED BY <1>1 DEF Gain

\* A gain counts every rank once for each grade it reaches, the second twice.
LEMMA GainIsLayered ==
    ASSUME NEW graded, DOMAIN graded \in SUBSET Ranks,
           \A i \in DOMAIN graded : graded[i] \in 0..2
    PROVE  CumulatedGain(graded) = Weight(Layer(graded, 1)) + 2 * Weight(Layer(graded, 2))
<1> DEFINE S == DOMAIN graded
           part(V, t) == V \cap Layer(graded, t)
           Layered(w, V) == Total(w, V) = Weight(part(V, 1)) + 2 * Weight(part(V, 2))
<1>1. IsFiniteSet(S)
  BY WeightsAdd
<1>2. PICK w : w = [i \in S |-> Gain(graded[i]) * Discount[i]]
  OBVIOUS
<1> DEFINE Bad == {V \in SUBSET S : ~ Layered(w, V)}
<1>3. ASSUME Bad # {} PROVE FALSE
  <2>1. PICK V \in Bad : IsFiniteSet(V) /\ \A U \in Bad : U \subseteq V => U = V
    <3>1. Bad \in SUBSET SUBSET S /\ Bad # {}
      BY <1>3
    <3> HIDE DEF Bad, S
    <3> QED BY <1>1, <3>1, SmallestCounterexample
  <2>2. V \in SUBSET S /\ ~ Layered(w, V)
    BY <2>1
  <2>3. Total(w, V) = IF V = {} THEN 0 ELSE w[Pick(V)] + Total(w, V \ {Pick(V)})
    BY <2>1, TotalUnfolds
  <2>4. ASSUME V = {} PROVE FALSE
    <3>1. Total(w, V) = 0 /\ part(V, 1) = {} /\ part(V, 2) = {}
      BY <2>3, <2>4
    <3>2. Weight({}) = 0
      BY WeightsAdd
    <3> QED BY <2>2, <3>1, <3>2
  <2>5. PICK x \in V : Total(w, V) = w[x] + Total(w, V \ {x})
    BY <2>3, <2>4, PickIsIn
  <2>6. Total(w, V \ {x}) = Weight(part(V \ {x}, 1)) + 2 * Weight(part(V \ {x}, 2))
    <3>1. V \ {x} \in SUBSET S /\ V \ {x} \notin Bad
      BY <2>1, <2>2, <2>5
    <3> QED BY <3>1
  <2>7. x \in Ranks /\ graded[x] \in 0..2 /\ w[x] = Gain(graded[x]) * Discount[x]
        /\ Discount[x] \in Nat
    BY <1>2, <2>2, RanksAreWeighed
  <2>8. \A t : /\ part(V, t) \in SUBSET Ranks /\ part(V \ {x}, t) \in SUBSET Ranks
               /\ part(V \ {x}, t) = part(V, t) \ {x}
               /\ x \in part(V, t) <=> graded[x] >= t
    BY <2>2 DEF Layer
  <2>9. ASSUME NEW t \in 1..2
        PROVE  /\ Weight(part(V \ {x}, t)) \in Nat
               /\ Weight(part(V, t)) = (IF graded[x] >= t THEN Discount[x] ELSE 0)
                                          + Weight(part(V \ {x}, t))
    <3>1. PICK A, B : A = part(V, t) /\ B = part(V \ {x}, t)
      OBVIOUS
    <3>2. A \in SUBSET Ranks /\ B \in SUBSET Ranks /\ B = A \ {x} /\ (x \in A <=> graded[x] >= t)
      BY <2>8, <3>1
    <3>3. Weight(B) \in Nat
      BY <3>2, WeightsAdd
    <3>4. Weight(A) = (IF graded[x] >= t THEN Discount[x] ELSE 0) + Weight(B)
      <4>1. x \in A => Weight(A) = Discount[x] + Weight(B)
        BY <3>2, WeightsAdd
      <4>2. x \notin A => Weight(A) = Weight(B)
        <5>1. x \notin A => A = B
          BY <3>2
        <5> QED BY <5>1
      <4>3. x \in A <=> graded[x] >= t
        BY <3>2
      <4> QED BY <3>3, <4>1, <4>2, <4>3
    <3> HIDE DEF part
    <3> QED BY <3>1, <3>3, <3>4
  <2>10. PICK a, b, d, p, q :
            /\ a \in Nat /\ b \in Nat /\ d \in Nat
            /\ a = Weight(part(V \ {x}, 1)) /\ b = Weight(part(V \ {x}, 2)) /\ d = Discount[x]
            /\ p = Weight(part(V, 1)) /\ q = Weight(part(V, 2))
    BY <2>7, <2>9
  <2>11. /\ a \in Nat /\ b \in Nat /\ d \in Nat
         /\ p = (IF graded[x] >= 1 THEN d ELSE 0) + a
         /\ q = (IF graded[x] >= 2 THEN d ELSE 0) + b
    BY <2>9, <2>10
  <2>12. Total(w, V) = Gain(graded[x]) * d + (a + 2 * b)
    BY <2>5, <2>6, <2>7, <2>10
  <2>13. Total(w, V) # p + 2 * q
    BY <2>2, <2>10
  <2>14. CASE graded[x] = 0
    BY <2>11, <2>12, <2>13, <2>14, GainsAre
  <2>15. CASE graded[x] = 1
    BY <2>11, <2>12, <2>13, <2>15, GainsAre
  <2>16. CASE graded[x] = 2
    BY <2>11, <2>12, <2>13, <2>16, GainsAre
  <2> QED BY <2>7, <2>14, <2>15, <2>16
<1>4. Layered(w, S)
  BY <1>3
<1>5. part(S, 1) = Layer(graded, 1) /\ part(S, 2) = Layer(graded, 2)
  BY DEF Layer
<1>6. CumulatedGain(graded) = Total(w, S)
  BY <1>1, <1>2, GainIsTotal
<1> QED BY <1>4, <1>5, <1>6

\* The grades of a catalogue, some of them above zero.
IsTruth(grades) ==
    /\ IsFiniteSet(DOMAIN grades)
    /\ \A c \in DOMAIN grades : grades[c] \in 0..2
    /\ Relevant(grades) # {}

\* Candidates, each at one rank.
IsRanked(ranked, grades) ==
    /\ Len(ranked) \in Nat
    /\ \A i \in 1..Len(ranked) : ranked[i] \in DOMAIN grades
    /\ \A i, j \in 1..Len(ranked) : ranked[i] = ranked[j] => i = j

Reaching(grades, t) == {c \in DOMAIN grades : grades[c] >= t}
Shown(ranked) == 1..Least(ShortCutoff, Len(ranked))
Taken(ranked, grades, t) == {i \in Shown(ranked) : grades[ranked[i]] >= t}
Room(grades, t) == Least(ShortCutoff, Cardinality(Reaching(grades, t)))

LEMMA ShownAreRanks ==
    ASSUME NEW ranked, Len(ranked) \in Nat
    PROVE  /\ Least(ShortCutoff, Len(ranked)) \in 0..ShortCutoff
           /\ Least(ShortCutoff, Len(ranked)) \in 0..Len(ranked)
           /\ Shown(ranked) \in SUBSET Ranks /\ Shown(ranked) \subseteq 1..Len(ranked)
<1>1. ShortCutoff \in Nat
  BY RanksAreWeighed
<1> QED BY <1>1 DEF Shown, Least, Ranks

LEMMA ReachingIsFinite ==
    ASSUME NEW grades, IsTruth(grades)
    PROVE  /\ \A t : /\ IsFiniteSet(Reaching(grades, t))
                     /\ Cardinality(Reaching(grades, t)) \in Nat
                     /\ Room(grades, t) \in 0..ShortCutoff
                     /\ Room(grades, t) <= Cardinality(Reaching(grades, t))
           /\ Cardinality(Reaching(grades, 2)) <= Cardinality(Reaching(grades, 1))
<1>1. ShortCutoff \in Nat
  BY RanksAreWeighed
<1>2. ASSUME NEW t
      PROVE  /\ IsFiniteSet(Reaching(grades, t))
             /\ Cardinality(Reaching(grades, t)) \in Nat
  BY FS_Subset, FS_CardinalityType DEF IsTruth, Reaching
<1>3. Reaching(grades, 2) \in SUBSET Reaching(grades, 1)
  BY DEF Reaching, IsTruth
<1>4. Cardinality(Reaching(grades, 2)) <= Cardinality(Reaching(grades, 1))
  BY <1>2, <1>3, FS_Subset
<1>5. \A n \in Nat : Least(ShortCutoff, n) \in 0..ShortCutoff /\ Least(ShortCutoff, n) <= n
  BY <1>1 DEF Least
<1> QED BY <1>2, <1>4, <1>5 DEF Room

\* A ranking shows no more candidates of a grade than there are.
LEMMA TakenAreFew ==
    ASSUME NEW ranked, NEW grades, IsTruth(grades), IsRanked(ranked, grades), NEW t
    PROVE  /\ Taken(ranked, grades, t) \in SUBSET Ranks
           /\ Cardinality(Taken(ranked, grades, t)) <= Room(grades, t)
           /\ Cardinality(Taken(ranked, grades, t)) = Cardinality(Reaching(grades, t))
                 <=> \A c \in Reaching(grades, t) : \E i \in Taken(ranked, grades, t) : ranked[i] = c
<1> DEFINE A == Taken(ranked, grades, t)
           C == Reaching(grades, t)
<1>1. A \in SUBSET Ranks /\ \A i \in A : i \in 1..Len(ranked) /\ ranked[i] \in C
  BY ShownAreRanks DEF Taken, Reaching, IsRanked
<1>2. PICK f : f = [i \in A |-> ranked[i]]
  OBVIOUS
<1>3. IsFiniteSet(C) /\ Cardinality(C) \in Nat
  BY ReachingIsFinite
<1>4. \A i, j \in A : f[i] = f[j] => i = j
  BY <1>1, <1>2 DEF IsRanked
<1> HIDE DEF A, C
<1>5. f \in [A -> C]
  BY <1>1, <1>2
<1>6. f \in Injection(A, C)
  BY <1>4, <1>5 DEF Injection, IsInjective
<1>7. Cardinality(A) <= Cardinality(C) /\ (Cardinality(A) = Cardinality(C) <=> f \in Surjection(A, C))
  BY <1>3, <1>6, FS_Injection
<1>8. f \in Surjection(A, C) <=> \A c \in C : \E i \in A : ranked[i] = c
  BY <1>2, <1>5 DEF Surjection
<1>9. Cardinality(A) <= Room(grades, t)
  <2>1. ShortCutoff \in Nat /\ Cardinality(Ranks) = ShortCutoff
    BY RanksAreWeighed, FS_Interval DEF Ranks
  <2>2. Cardinality(A) <= ShortCutoff /\ Cardinality(A) \in Nat
    BY <1>1, <2>1, RanksAreWeighed, WeightsAdd, FS_Subset
  <2> QED BY <1>3, <1>7, <2>1, <2>2 DEF Room, Least, C
<1> QED BY <1>1, <1>7, <1>8, <1>9 DEF A, C

\* The layers of the ideal order.
LEMMA IdealIsLayered ==
    ASSUME NEW ranked, NEW grades, IsTruth(grades)
    PROVE  LET ideal == IdealGrades(ranked, grades)
           IN  /\ DOMAIN ideal = Ranks
               /\ \A i \in Ranks : ideal[i] \in 0..2
               /\ \A t \in 1..2 : Layer(ideal, t) = 1..Room(grades, t)
<1> DEFINE at(t) == Cardinality(Reaching(grades, t))
           ideal == IdealGrades(ranked, grades)
<1>1. ShortCutoff \in Nat
  BY RanksAreWeighed
<1>2. at(1) \in Nat /\ at(2) \in Nat /\ at(2) <= at(1)
  BY ReachingIsFinite
<1>3. ideal = [i \in Ranks |-> Cardinality({g \in 1..2 : i <= at(g)})]
  BY DEF IdealGrades, Reaching, Ranks
<1> HIDE DEF at, ideal
<1>4. Cardinality({}) = 0 /\ Cardinality({1}) = 1 /\ Cardinality({1} \cup {2}) = 2
  <2>1. Cardinality({}) = 0
    BY FS_EmptySet
  <2>2. Cardinality({1}) = 1 /\ IsFiniteSet({1})
    BY FS_Singleton
  <2>3. Cardinality({1} \cup {2}) = IF 2 \in {1} THEN Cardinality({1}) ELSE Cardinality({1}) + 1
    BY <2>2, FS_AddElement
  <2> QED BY <2>1, <2>2, <2>3
<1>5. ASSUME NEW i \in Ranks
      PROVE  ideal[i] \in 0..2 /\ \A t \in 1..2 : ideal[i] >= t <=> i <= at(t)
  <2>1. i \in Nat
    BY <1>1 DEF Ranks
  <2>2. CASE i <= at(2)
    <3>1. {g \in 1..2 : i <= at(g)} = {1} \cup {2}
      BY <1>2, <2>1, <2>2
    <3>2. ideal[i] = 2
      BY <1>3, <1>4, <3>1
    <3> QED BY <1>2, <2>1, <2>2, <3>2
  <2>3. CASE ~ (i <= at(2)) /\ i <= at(1)
    <3>1. {g \in 1..2 : i <= at(g)} = {1}
      BY <1>2, <2>1, <2>3
    <3>2. ideal[i] = 1
      BY <1>3, <1>4, <3>1
    <3> QED BY <1>2, <2>1, <2>3, <3>2
  <2>4. CASE ~ (i <= at(1))
    <3>1. {g \in 1..2 : i <= at(g)} = {}
      BY <1>2, <2>1, <2>4
    <3>2. ideal[i] = 0
      BY <1>3, <1>4, <3>1
    <3> QED BY <1>2, <2>1, <2>4, <3>2
  <2> QED BY <2>2, <2>3, <2>4
<1>6. ASSUME NEW t \in 1..2
      PROVE  Layer(ideal, t) = 1..Room(grades, t)
  <2>1. Layer(ideal, t) = {i \in Ranks : i <= at(t)}
    BY <1>3, <1>5 DEF Layer
  <2>2. at(t) \in Nat
    BY <1>2
  <2>3. Room(grades, t) = IF ShortCutoff < at(t) THEN ShortCutoff ELSE at(t)
    BY DEF Room, Least, at
  <2>4. {i \in 1..ShortCutoff : i <= at(t)} = 1..(IF ShortCutoff < at(t) THEN ShortCutoff ELSE at(t))
    BY <1>1, <2>2
  <2> QED BY <2>1, <2>3, <2>4 DEF Ranks
<1> QED BY <1>3, <1>5, <1>6 DEF ideal

\* The two numbers of nDCG by layers.
LEMMA NDCGIsLayered ==
    ASSUME NEW ranked, NEW grades, IsTruth(grades), IsRanked(ranked, grades)
    PROVE  /\ NDCG(ranked, grades)[1] = Weight(Taken(ranked, grades, 1))
                                        + 2 * Weight(Taken(ranked, grades, 2))
           /\ NDCG(ranked, grades)[2] = Weight(1..Room(grades, 1))
                                        + 2 * Weight(1..Room(grades, 2))
<1>1. PICK seen : seen = [i \in Shown(ranked) |-> grades[ranked[i]]]
  OBVIOUS
<1>2. CumulatedGain(seen) = Weight(Taken(ranked, grades, 1)) + 2 * Weight(Taken(ranked, grades, 2))
  <2>1. DOMAIN seen \in SUBSET Ranks /\ DOMAIN seen = Shown(ranked)
    BY <1>1, ShownAreRanks DEF IsRanked
  <2>2. \A i \in DOMAIN seen : seen[i] \in 0..2
    <3>1. ASSUME NEW i \in Shown(ranked) PROVE grades[ranked[i]] \in 0..2
      <4>1. i \in 1..Len(ranked)
        BY ShownAreRanks DEF IsRanked
      <4> QED BY <4>1 DEF IsRanked, IsTruth
    <3> QED BY <1>1, <3>1
  <2>3. \A t : Layer(seen, t) = Taken(ranked, grades, t)
    BY <1>1 DEF Layer, Taken
  <2> QED BY <2>1, <2>2, <2>3, GainIsLayered
<1>3. PICK ideal : ideal = IdealGrades(ranked, grades)
  OBVIOUS
<1>4. CumulatedGain(ideal) = Weight(1..Room(grades, 1)) + 2 * Weight(1..Room(grades, 2))
  <2>1. /\ DOMAIN ideal = Ranks /\ \A i \in Ranks : ideal[i] \in 0..2
        /\ \A t \in 1..2 : Layer(ideal, t) = 1..Room(grades, t)
    BY <1>3, IdealIsLayered
  <2>2. Layer(ideal, 1) = 1..Room(grades, 1) /\ Layer(ideal, 2) = 1..Room(grades, 2)
    BY <2>1
  <2> QED BY <2>1, <2>2, GainIsLayered
<1>5. NDCG(ranked, grades) = <<CumulatedGain(seen), CumulatedGain(ideal)>>
  BY <1>1, <1>3 DEF NDCG, Shown
<1> QED BY <1>2, <1>4, <1>5

\* Both layers begin the ranking and leave no room.
IsFull(ranked, grades) == \A t \in 1..2 : Taken(ranked, grades, t) = 1..Room(grades, t)

\* nDCG compares the layers with the first ranks.
LEMMA NDCGComparesLayers ==
    ASSUME NEW ranked, NEW grades, IsTruth(grades), IsRanked(ranked, grades)
    PROVE  /\ NDCG(ranked, grades)[1] \in Nat /\ NDCG(ranked, grades)[2] \in Nat
           /\ NDCG(ranked, grades)[1] <= NDCG(ranked, grades)[2]
           /\ NDCG(ranked, grades)[1] = NDCG(ranked, grades)[2] <=> IsFull(ranked, grades)
<1>1. ASSUME NEW t \in 1..2
      PROVE  /\ Weight(Taken(ranked, grades, t)) \in Nat /\ Weight(1..Room(grades, t)) \in Nat
             /\ Weight(Taken(ranked, grades, t)) <= Weight(1..Room(grades, t))
             /\ Weight(Taken(ranked, grades, t)) = Weight(1..Room(grades, t))
                   => Taken(ranked, grades, t) = 1..Room(grades, t)
  <2>1. PICK A, b : A = Taken(ranked, grades, t) /\ b = Room(grades, t)
    OBVIOUS
  <2>2. A \in SUBSET Ranks /\ b \in 0..ShortCutoff /\ Cardinality(A) <= b
    BY <2>1, TakenAreFew, ReachingIsFinite
  <2>3. Weight(A) <= Weight(1..b) /\ (Weight(A) = Weight(1..b) => A = 1..b)
    BY <2>2, FirstAreHeaviest DEF Heaviest
  <2>4. Weight(A) \in Nat /\ Weight(1..b) \in Nat
    BY <2>2, FirstRanks, WeightsAdd
  <2> QED BY <2>1, <2>3, <2>4
<1>2. PICK a1, a2, b1, b2 :
          /\ a1 = Weight(Taken(ranked, grades, 1)) /\ a2 = Weight(Taken(ranked, grades, 2))
          /\ b1 = Weight(1..Room(grades, 1)) /\ b2 = Weight(1..Room(grades, 2))
  OBVIOUS
<1>3. NDCG(ranked, grades)[1] = a1 + 2 * a2 /\ NDCG(ranked, grades)[2] = b1 + 2 * b2
  BY <1>2, NDCGIsLayered
<1>4. a1 \in Nat /\ a2 \in Nat /\ b1 \in Nat /\ b2 \in Nat /\ a1 <= b1 /\ a2 <= b2
  BY <1>1, <1>2
<1>5. a1 = b1 /\ a2 = b2 <=> IsFull(ranked, grades)
  <2>1. \A t \in 1..2 : t = 1 \/ t = 2
    OBVIOUS
  <2> QED BY <1>1, <1>2, <2>1 DEF IsFull
<1> QED BY <1>3, <1>4, <1>5

\* A candidate that is not shown but reaches a grade.
LEMMA MissingIsIdeal ==
    ASSUME NEW ranked, NEW grades, IsTruth(grades), IsRanked(ranked, grades),
           IsFull(ranked, grades), NEW c \in DOMAIN grades,
           \A i \in Shown(ranked) : ranked[i] # c, grades[c] # 0
    PROVE  /\ Least(ShortCutoff, Len(ranked)) = ShortCutoff
           /\ \A i \in Shown(ranked) : grades[ranked[i]] >= grades[c]
<1>1. PICK t \in 1..2 : t = grades[c]
  BY DEF IsTruth
<1>2. c \in Reaching(grades, t)
  BY <1>1 DEF Reaching
<1>3. PICK A : A = Taken(ranked, grades, t)
  OBVIOUS
<1>4. A \in SUBSET Ranks /\ A \subseteq Shown(ranked)
  BY <1>3, TakenAreFew DEF Taken
<1>5. Cardinality(A) # Cardinality(Reaching(grades, t))
  BY <1>2, <1>3, <1>4, TakenAreFew
<1>6. A = 1..Room(grades, t) /\ Room(grades, t) \in 0..ShortCutoff
  BY <1>1, <1>3, ReachingIsFinite DEF IsFull
<1>7. Cardinality(A) = Room(grades, t)
  BY <1>6, FirstRanks
<1>8. Room(grades, t) = ShortCutoff
  <2>1. Room(grades, t) = ShortCutoff \/ Room(grades, t) = Cardinality(Reaching(grades, t))
    BY DEF Room, Least
  <2> QED BY <1>5, <1>7, <2>1
<1>9. A = Ranks
  BY <1>6, <1>8 DEF Ranks
<1>10. PICK n \in 0..ShortCutoff : n = Least(ShortCutoff, Len(ranked)) /\ Shown(ranked) = 1..n
  BY ShownAreRanks DEF Shown, IsRanked
<1>11. ShortCutoff \in Ranks /\ ShortCutoff \in Nat
  BY RanksAreWeighed DEF Ranks
<1>12. n = ShortCutoff
  BY <1>4, <1>9, <1>10, <1>11
<1>13. Shown(ranked) = A
  BY <1>9, <1>10, <1>12 DEF Ranks
<1>14. \A i \in A : grades[ranked[i]] >= t
  BY <1>3 DEF Taken
<1> QED BY <1>1, <1>10, <1>12, <1>13, <1>14

LEMMA FullIsIdeal ==
    ASSUME NEW ranked, NEW grades, IsTruth(grades), IsRanked(ranked, grades),
           IsFull(ranked, grades)
    PROVE  IsIdeal(ranked, grades)
<1> DEFINE n == Least(ShortCutoff, Len(ranked))
           better(c) == {i \in 1..n : ranked[i] = c}
<1>1. ShortCutoff \in Nat /\ n \in 0..ShortCutoff /\ n \in Nat /\ Shown(ranked) = 1..n
  BY RanksAreWeighed, ShownAreRanks DEF Shown, IsRanked
<1>2. \A i \in 1..n : ranked[i] \in DOMAIN grades /\ grades[ranked[i]] \in 0..2
  BY <1>1, ShownAreRanks DEF IsRanked, IsTruth
<1>3. ASSUME NEW c \in DOMAIN grades, better(c) = {}
      PROVE  (n < ShortCutoff => grades[c] = 0) /\ \A i \in 1..n : grades[ranked[i]] >= grades[c]
  <2>1. grades[c] \in 0..2 /\ \A i \in Shown(ranked) : ranked[i] # c
    BY <1>1, <1>3 DEF IsTruth
  <2>2. CASE grades[c] = 0
    BY <1>2, <2>2
  <2>3. CASE grades[c] # 0
    <3>1. n = ShortCutoff /\ \A i \in Shown(ranked) : grades[ranked[i]] >= grades[c]
      BY <2>1, <2>3, MissingIsIdeal
    <3> QED BY <1>1, <3>1
  <2> QED BY <2>2, <2>3
<1>4. ASSUME NEW c \in DOMAIN grades, NEW i \in better(c), NEW j \in 1..(i - 1)
      PROVE  grades[ranked[j]] >= grades[c]
  <2>1. i \in 1..n /\ j \in 1..n /\ j < i /\ ranked[i] = c /\ grades[c] \in 0..2
    BY <1>1 DEF IsTruth
  <2>2. CASE grades[c] = 0
    BY <1>2, <2>1, <2>2
  <2>3. CASE grades[c] # 0
    <3>1. PICK t \in 1..2 : t = grades[c]
      BY <2>1, <2>3
    <3>2. i \in Taken(ranked, grades, t)
      BY <1>1, <2>1, <3>1 DEF Taken
    <3>3. Taken(ranked, grades, t) = 1..Room(grades, t) /\ Room(grades, t) \in Nat
      BY <3>1, ReachingIsFinite, <1>1 DEF IsFull
    <3>4. j \in Taken(ranked, grades, t)
      BY <1>1, <2>1, <3>2, <3>3
    <3> QED BY <3>1, <3>4 DEF Taken
  <2> QED BY <2>2, <2>3
<1> QED BY <1>3, <1>4 DEF IsIdeal

LEMMA IdealIsFull ==
    ASSUME NEW ranked, NEW grades, IsTruth(grades), IsRanked(ranked, grades),
           IsIdeal(ranked, grades)
    PROVE  IsFull(ranked, grades)
<1> SUFFICES ASSUME NEW t \in 1..2
             PROVE  Taken(ranked, grades, t) = 1..Room(grades, t)
  BY DEF IsFull
<1> DEFINE n == Least(ShortCutoff, Len(ranked))
<1>1. ShortCutoff \in Nat /\ n \in 0..ShortCutoff /\ n \in Nat /\ Shown(ranked) = 1..n
  BY RanksAreWeighed, ShownAreRanks DEF Shown, IsRanked
<1>2. \A i \in 1..n : ranked[i] \in DOMAIN grades /\ grades[ranked[i]] \in 0..2
  BY <1>1, ShownAreRanks DEF IsRanked, IsTruth
<1>3. PICK A, b : A = Taken(ranked, grades, t) /\ b = Room(grades, t)
  OBVIOUS
<1>4. /\ A \in SUBSET Ranks /\ Cardinality(A) <= b /\ b \in 0..ShortCutoff
      /\ b <= Cardinality(Reaching(grades, t)) /\ b \in Nat
      /\ Cardinality(Reaching(grades, t)) \in Nat
  BY <1>1, <1>3, TakenAreFew, ReachingIsFinite
<1>5. \A i : i \in A <=> i \in 1..n /\ grades[ranked[i]] >= t
  BY <1>1, <1>3 DEF Taken
<1>6. ASSUME NEW i \in A, NEW j \in 1..(i - 1)
      PROVE  j \in A
  <2>1. i \in 1..n /\ j \in 1..n
    BY <1>1, <1>5
  <2>2. grades[ranked[j]] >= grades[ranked[i]]
    <3>1. i \in {k \in 1..n : ranked[k] = ranked[i]} /\ ranked[i] \in DOMAIN grades
      BY <1>2, <2>1
    <3> QED BY <3>1 DEF IsIdeal
  <2>3. grades[ranked[i]] >= t /\ grades[ranked[i]] \in 0..2 /\ grades[ranked[j]] \in 0..2
    BY <1>2, <1>5, <2>1
  <2> QED BY <1>5, <2>1, <2>2, <2>3
<1>7. ASSUME NEW i \in 1..b, i \notin A
      PROVE  FALSE
  <2>0. i \in Nat /\ i <= ShortCutoff /\ i > 0
    BY <1>1, <1>4
  <2>1. A \subseteq 1..(i - 1)
    <3>1. ASSUME NEW k \in A PROVE k \in 1..(i - 1)
      <4>1. k \in 1..n
        BY <1>5
      <4>2. k # i /\ ~ (i < k)
        BY <1>6, <1>7, <2>0, <4>1
      <4> QED BY <1>1, <2>0, <4>1, <4>2
    <3> QED BY <3>1
  <2>2. Cardinality(A) < b /\ Cardinality(A) \in Nat
    <3>1. IsFiniteSet(1..(i - 1)) /\ Cardinality(1..(i - 1)) = i - 1
      BY <2>0, FS_Interval
    <3>2. Cardinality(A) <= i - 1
      BY <2>1, <3>1, FS_Subset
    <3> QED BY <1>4, <2>0, <3>2, WeightsAdd
  <2>3. PICK c \in Reaching(grades, t) : \A k \in A : ranked[k] # c
    <3>1. Cardinality(A) # Cardinality(Reaching(grades, t))
      BY <1>4, <2>2
    <3> QED BY <1>3, <3>1, TakenAreFew
  <2>4. c \in DOMAIN grades /\ grades[c] \in 0..2 /\ grades[c] >= t /\ grades[c] # 0
    BY <2>3 DEF Reaching, IsTruth
  <2>5. {k \in 1..n : ranked[k] = c} = {}
    BY <1>5, <2>3, <2>4
  <2>6. (n < ShortCutoff => grades[c] = 0) /\ \A k \in 1..n : grades[ranked[k]] >= grades[c]
    BY <2>4, <2>5 DEF IsIdeal
  <2>7. i \in 1..n
    BY <1>1, <1>4, <2>0, <2>4, <2>6
  <2>8. grades[ranked[i]] >= t
    BY <1>2, <2>4, <2>6, <2>7
  <2> QED BY <1>5, <1>7, <2>7, <2>8
<1>8. 1..b \in SUBSET A
  BY <1>7
<1>9. IsFiniteSet(A) /\ Cardinality(A) \in Nat
  BY <1>4, WeightsAdd
<1>10. Cardinality(1..b) = b
  BY <1>4, FirstRanks
<1>11. 1..b = A
  <2>1. Cardinality(1..b) <= Cardinality(A)
    BY <1>8, <1>9, FS_Subset
  <2>2. Cardinality(1..b) = Cardinality(A)
    BY <1>4, <1>9, <1>10, <2>1
  <2> QED BY <1>8, <1>9, <2>2, FS_Subset
<1> QED BY <1>3, <1>11

\* What is found among the first ranks.
Found(ranked, grades, k) == Relevant(grades) \cap First(ranked, k)

LEMMA FoundIsFinite ==
    ASSUME NEW ranked, NEW grades, IsTruth(grades), NEW k
    PROVE  /\ IsFiniteSet(Relevant(grades)) /\ Cardinality(Relevant(grades)) \in Nat \ {0}
           /\ IsFiniteSet(Found(ranked, grades, k))
           /\ Cardinality(Found(ranked, grades, k)) \in Nat
           /\ Cardinality(Found(ranked, grades, k)) <= Cardinality(Relevant(grades))
           /\ Cardinality(Found(ranked, grades, k)) > 0 <=> Found(ranked, grades, k) # {}
<1>1. IsFiniteSet(Relevant(grades))
  <2>1. Relevant(grades) \in SUBSET DOMAIN grades
    BY DEF Relevant
  <2> QED BY <2>1, FS_Subset DEF IsTruth
<1>2. Cardinality(Relevant(grades)) \in Nat \ {0}
  BY <1>1, FS_CardinalityType, FS_EmptySet DEF IsTruth
<1>3. Found(ranked, grades, k) \in SUBSET Relevant(grades)
  BY DEF Found
<1>4. /\ IsFiniteSet(Found(ranked, grades, k))
      /\ Cardinality(Found(ranked, grades, k)) <= Cardinality(Relevant(grades))
  BY <1>1, <1>3, FS_Subset
<1>5. Cardinality(Found(ranked, grades, k)) \in Nat
  BY <1>4, FS_CardinalityType
<1>6. Cardinality(Found(ranked, grades, k)) = 0 <=> Found(ranked, grades, k) = {}
  BY <1>4, FS_EmptySet
<1> QED BY <1>1, <1>2, <1>4, <1>5, <1>6

\* Something is found when one of these ranks holds a relevant candidate.
LEMMA FoundAtRank ==
    ASSUME NEW ranked, NEW grades, IsTruth(grades), IsRanked(ranked, grades), NEW k \in Nat
    PROVE  Found(ranked, grades, k) # {}
               <=> \E i \in 1..Least(k, Len(ranked)) : grades[ranked[i]] > 0
<1>1. \A i \in 1..Least(k, Len(ranked)) : ranked[i] \in DOMAIN grades
  BY DEF Least, IsRanked
<1>2. Found(ranked, grades, k)
          = {c \in DOMAIN grades : grades[c] > 0 /\ \E i \in 1..Least(k, Len(ranked)) : c = ranked[i]}
  BY DEF Found, Relevant, First
<1> QED BY <1>1, <1>2

LEMMA FoundGrows ==
    ASSUME NEW ranked, NEW grades, IsTruth(grades), IsRanked(ranked, grades),
           NEW k \in Nat, NEW l \in Nat, k <= l
    PROVE  Cardinality(Found(ranked, grades, k)) <= Cardinality(Found(ranked, grades, l))
<1>1. 1..Least(k, Len(ranked)) \subseteq 1..Least(l, Len(ranked))
  BY DEF Least, IsRanked
<1>2. First(ranked, k) \subseteq First(ranked, l)
  BY <1>1 DEF First
<1>3. Found(ranked, grades, k) \in SUBSET Found(ranked, grades, l)
  BY <1>2 DEF Found
<1> QED BY <1>3, FoundIsFinite, FS_Subset

\* The first rank that holds a relevant candidate.
LEMMA ReciprocalRankIs ==
    ASSUME NEW ranked, NEW grades, IsTruth(grades), IsRanked(ranked, grades)
    PROVE  LET mrr == ReciprocalRank(ranked, grades)
           IN  /\ mrr[1] \in Nat /\ mrr[2] \in Nat \ {0} /\ mrr[1] <= mrr[2]
               /\ mrr[1] > 0 <=> Found(ranked, grades, MrrCutoff) # {}
               /\ Found(ranked, grades, ShortCutoff) # {} => mrr[2] <= mrr[1] * ShortCutoff
<1> DEFINE found == {i \in 1..Least(MrrCutoff, Len(ranked)) : grades[ranked[i]] > 0}
<1>1. MrrCutoff \in Nat /\ ShortCutoff \in Nat /\ ShortCutoff <= MrrCutoff
  BY CutoffsAreOrdered
<1>2. Found(ranked, grades, MrrCutoff) # {} <=> found # {}
  BY <1>1, FoundAtRank
<1>3. ReciprocalRank(ranked, grades) = IF found = {} THEN <<0, 1>> ELSE <<1, Min(found)>>
  BY DEF ReciprocalRank
<1>4. Found(ranked, grades, ShortCutoff) # {} => \E i \in found : i <= ShortCutoff
  <2>1. 1..Least(ShortCutoff, Len(ranked)) \subseteq 1..Least(MrrCutoff, Len(ranked))
    BY <1>1 DEF Least, IsRanked
  <2>2. \A i \in 1..Least(ShortCutoff, Len(ranked)) : i <= ShortCutoff
    BY <1>1 DEF Least, IsRanked
  <2> QED BY <1>1, <2>1, <2>2, FoundAtRank
<1>5. found \subseteq Nat \ {0}
  BY <1>1 DEF Least, IsRanked
<1> HIDE DEF found
<1>6. found # {} => Min(found) \in found /\ \A i \in found : Min(found) <= i
  <2>1. ASSUME found # {} PROVE \E m \in found : \A i \in found : m <= i
    <3>1. found \subseteq Nat
      BY <1>5
    <3> QED BY <2>1, <3>1, LeastExists
  <2> QED BY <2>1 DEF Min
<1>7. CASE found = {}
  <2>1. ReciprocalRank(ranked, grades) = <<0, 1>>
    BY <1>3, <1>7
  <2> QED BY <1>2, <1>4, <1>7, <2>1
<1>8. CASE found # {}
  <2>1. PICK r \in Nat \ {0} : r = Min(found) /\ \A i \in found : r <= i
    BY <1>5, <1>6, <1>8
  <2>2. ReciprocalRank(ranked, grades) = <<1, r>>
    BY <1>3, <1>8, <2>1
  <2>3. Found(ranked, grades, ShortCutoff) # {} => r <= ShortCutoff
    <3>1. ASSUME NEW i \in found, i <= ShortCutoff PROVE r <= ShortCutoff
      BY <1>1, <1>5, <2>1, <3>1
    <3> QED BY <1>4, <3>1
  <2> QED BY <1>1, <1>2, <1>8, <2>2, <2>3
<1> QED BY <1>7, <1>8

\* With a relevant candidate the ideal gain is not zero.
LEMMA IdealIsPositive ==
    ASSUME NEW ranked, NEW grades, IsTruth(grades), IsRanked(ranked, grades)
    PROVE  NDCG(ranked, grades)[2] > 0
<1>1. PICK b1, b2 : b1 = Room(grades, 1) /\ b2 = Room(grades, 2)
  OBVIOUS
<1>2. b1 \in 0..ShortCutoff /\ b2 \in 0..ShortCutoff /\ ShortCutoff \in Nat \ {0}
  BY <1>1, ReachingIsFinite, RanksAreWeighed
<1>3. b1 > 0
  <2>1. Reaching(grades, 1) = Relevant(grades)
    BY DEF Reaching, Relevant, IsTruth
  <2>2. Cardinality(Reaching(grades, 1)) \in Nat \ {0}
    BY <2>1, FoundIsFinite
  <2> QED BY <1>1, <1>2, <2>2 DEF Room, Least
<1>4. 1..b1 \in SUBSET Ranks /\ Weight(1..b1) = Discount[b1] + Weight(1..(b1 - 1))
  BY <1>2, <1>3, FirstRanks
<1>5. b1 - 1 \in 0..ShortCutoff /\ b1 \in Ranks
  BY <1>2, <1>3 DEF Ranks
<1>6. Weight(1..(b1 - 1)) \in Nat /\ Weight(1..b2) \in Nat /\ Discount[b1] \in Nat \ {0}
  BY <1>2, <1>5, FirstRanks, WeightsAdd, RanksAreWeighed
<1>7. NDCG(ranked, grades)[2] = Weight(1..b1) + 2 * Weight(1..b2)
  BY <1>1, NDCGIsLayered
<1> QED BY <1>4, <1>6, <1>7

\* The metrics of a ranking of candidates are sound, and scores.
LEMMA MetricsAreSound ==
    ASSUME NEW result, NEW grades, IsTruth(grades), IsRanked(result.ranked, grades),
           result.metrics = Metrics(result.ranked, grades), result.status = "success"
    PROVE  ScoreIsSound(result, grades) /\ IsScored(result)
<1> DEFINE ranked == result.ranked
           m == Metrics(ranked, grades)
           c(k) == Cardinality(Found(ranked, grades, k))
<1>1. PICK R \in Nat \ {0} : R = Cardinality(Relevant(grades))
  BY FoundIsFinite
<1>2. PICK k1, k5, k10 \in Nat :
          /\ k1 = RecallCutoffs[1] /\ k5 = RecallCutoffs[2] /\ k10 = RecallCutoffs[3]
          /\ k1 <= k5 /\ k5 <= k10 /\ k10 = MrrCutoff
  BY CutoffsAreOrdered
<1>3. ShortCutoff \in Nat \ {0} /\ MrrCutoff \in Nat
  BY RanksAreWeighed, CutoffsAreOrdered
<1>4. PICK r1, r5, r10, hits \in Nat :
          r1 = c(k1) /\ r5 = c(k5) /\ r10 = c(k10) /\ hits = c(ShortCutoff)
  BY FoundIsFinite
<1>5. r1 <= r5 /\ r5 <= r10 /\ r10 <= R
  <2>1. c(k1) <= c(k5) /\ c(k5) <= c(k10)
    BY <1>2, FoundGrows
  <2>2. c(k10) <= R
    BY <1>1, FoundIsFinite
  <2> QED BY <1>4, <2>1, <2>2
<1>6. /\ m.recall_at_1 = <<r1, R>> /\ m.recall_at_5 = <<r5, R>> /\ m.recall_at_10 = <<r10, R>>
      /\ m.precision_at_5 = <<hits, ShortCutoff>>
      /\ m.hit_rate_at_5 = <<IF hits > 0 THEN 1 ELSE 0, 1>>
      /\ m.mrr = ReciprocalRank(ranked, grades) /\ m.ndcg_at_5 = NDCG(ranked, grades)
  BY <1>1, <1>2, <1>4 DEF Metrics, Recall, Found
<1>7. hits <= ShortCutoff
  <2>1. IsFiniteSet(Shown(ranked)) /\ Cardinality(Shown(ranked)) <= ShortCutoff
    <3>1. PICK n \in 0..ShortCutoff : n = Least(ShortCutoff, Len(ranked))
      BY ShownAreRanks DEF IsRanked
    <3>2. IsFiniteSet(1..n) /\ Cardinality(1..n) = n /\ n <= ShortCutoff
      BY <1>3, <3>1, FirstRanks, WeightsAdd
    <3> QED BY <3>1, <3>2 DEF Shown
  <2>2. PICK f : f = [i \in Shown(ranked) |-> ranked[i]]
    OBVIOUS
  <2>3. f \in Surjection(Shown(ranked), First(ranked, ShortCutoff))
    BY <2>2 DEF Surjection, First, Shown
  <2>4. /\ IsFiniteSet(First(ranked, ShortCutoff))
        /\ Cardinality(First(ranked, ShortCutoff)) <= Cardinality(Shown(ranked))
    BY <2>1, <2>3, FS_Surjection
  <2>5. Found(ranked, grades, ShortCutoff) \in SUBSET First(ranked, ShortCutoff)
    BY DEF Found
  <2>6. hits <= Cardinality(First(ranked, ShortCutoff))
    BY <1>4, <2>4, <2>5, FS_Subset
  <2>7. Cardinality(First(ranked, ShortCutoff)) \in Nat /\ Cardinality(Shown(ranked)) \in Nat
    BY <2>1, <2>4, FS_CardinalityType
  <2> QED BY <1>3, <2>1, <2>4, <2>6, <2>7
<1>8. PICK p, q : m.mrr = <<p, q>>
  BY <1>6 DEF ReciprocalRank
<1>9. /\ p \in Nat /\ q \in Nat \ {0} /\ p <= q
      /\ p > 0 <=> r10 > 0
      /\ hits > 0 => q <= p * ShortCutoff
  <2>1. r10 > 0 <=> Found(ranked, grades, MrrCutoff) # {}
    BY <1>2, <1>4, FoundIsFinite
  <2>2. hits > 0 <=> Found(ranked, grades, ShortCutoff) # {}
    BY <1>4, FoundIsFinite
  <2>3. ReciprocalRank(ranked, grades)[1] = p /\ ReciprocalRank(ranked, grades)[2] = q
    BY <1>6, <1>8
  <2> QED BY <2>1, <2>2, <2>3, ReciprocalRankIs
<1>10. PICK g, h : m.ndcg_at_5 = <<g, h>>
  BY <1>6 DEF NDCG
<1>11. /\ g \in Nat /\ h \in Nat /\ g <= h
       /\ g = h <=> IsIdeal(ranked, grades)
  <2>1. NDCG(ranked, grades)[1] = g /\ NDCG(ranked, grades)[2] = h
    BY <1>6, <1>10
  <2>2. IsFull(ranked, grades) <=> IsIdeal(ranked, grades)
    BY FullIsIdeal, IdealIsFull
  <2> QED BY <2>1, <2>2, NDCGComparesLayers
<1>12. h > 0
  <2>1. NDCG(ranked, grades)[2] > 0
    BY IdealIsPositive
  <2> QED BY <1>6, <1>10, <2>1
<1> HIDE DEF m, c
<1>13. result.metrics = m
  BY DEF m
<1>14. ScoreIsSound(result, grades)
  <2>1. r1 * R <= r5 * R /\ r5 * R <= r10 * R /\ r10 * 1 <= 1 * R
    <3>1. \A a, b \in Nat : a <= b => a * R <= b * R
      <4> SUFFICES ASSUME NEW a \in Nat, NEW b \in Nat, a <= b PROVE a * R <= b * R
        OBVIOUS
      <4>1. PICK k \in Nat : b = a + k
        <5>1. b - a \in Nat /\ b = a + (b - a)
          OBVIOUS
        <5> QED BY <5>1
      <4>2. (a + k) * R = a * R + k * R /\ a * R \in Nat /\ k * R \in Nat
        BY <1>1
      <4> QED BY <4>1, <4>2
    <3> QED BY <1>1, <1>4, <1>5, <3>1
  <2>2. AtMost(m.recall_at_1, m.recall_at_5) /\ AtMost(m.recall_at_5, m.recall_at_10)
        /\ AtMost(m.recall_at_10, <<1, 1>>)
    BY <1>6, <2>1 DEF AtMost
  <2>3. AtMost(m.ndcg_at_5, <<1, 1>>) /\ (m.ndcg_at_5[1] = m.ndcg_at_5[2]) = IsIdeal(ranked, grades)
    <3>1. m.ndcg_at_5[1] = g /\ m.ndcg_at_5[2] = h
      BY <1>10
    <3>2. AtMost(m.ndcg_at_5, <<1, 1>>)
      BY <1>11, <3>1 DEF AtMost
    <3>3. IsIdeal(ranked, grades) \in BOOLEAN
      BY DEF IsIdeal
    <3> QED BY <1>11, <3>1, <3>2, <3>3
  <2>4. (m.mrr[1] > 0) = (m.recall_at_10[1] > 0)
    BY <1>4, <1>6, <1>8, <1>9
  <2>5. m.hit_rate_at_5[1] > 0 => AtMost(<<1, ShortCutoff>>, m.mrr)
    BY <1>3, <1>4, <1>6, <1>8, <1>9 DEF AtMost
  <2>6. (m.hit_rate_at_5[1] > 0) = (m.precision_at_5[1] > 0)
    BY <1>4, <1>6
  <2> QED BY <1>13, <2>2, <2>3, <2>4, <2>5, <2>6 DEF ScoreIsSound
<1>15. IsScored(result)
  <2>1. ASSUME NEW x \in MetricNames
        PROVE  m[x][1] \in Nat /\ m[x][2] \in Nat \ {0} /\ m[x][1] <= m[x][2]
    <3>1. CASE x = "recall_at_1"
      BY <1>1, <1>4, <1>5, <1>6, <3>1
    <3>2. CASE x = "recall_at_5"
      BY <1>1, <1>4, <1>5, <1>6, <3>2
    <3>3. CASE x = "recall_at_10"
      BY <1>1, <1>4, <1>5, <1>6, <3>3
    <3>4. CASE x = "mrr"
      BY <1>8, <1>9, <3>4
    <3>5. CASE x = "ndcg_at_5"
      BY <1>10, <1>11, <1>12, <3>5
    <3>6. CASE x = "precision_at_5"
      BY <1>3, <1>4, <1>6, <1>7, <3>6
    <3>7. CASE x = "hit_rate_at_5"
      BY <1>4, <1>6, <3>7
    <3> QED BY <3>1, <3>2, <3>3, <3>4, <3>5, <3>6, <3>7 DEF MetricNames
  <2> QED BY <1>13, <2>1 DEF IsScored
<1> QED BY <1>14, <1>15

IsFrozen(data) ==
    /\ IsWellFormed(data)
    /\ IsFiniteSet(DOMAIN data.lengths) /\ IsFiniteSet(data.symbols)

Units == {"file", "chunk", "symbol"}

\* A catalogue has finitely many candidates.
LEMMA CandidatesAreFinite ==
    ASSUME NEW data, IsFrozen(data), NEW unit \in Units
    PROVE  IsFiniteSet(Candidates(data, unit))
<1>1. IsFiniteSet(DOMAIN data.lengths) /\ IsFiniteSet(data.symbols)
      /\ \A p \in DOMAIN data.lengths : data.lengths[p] \in Nat
  BY DEF IsFrozen, IsWellFormed
<1>2. CASE unit = "file"
  <2>1. PICK f : f = [p \in DOMAIN data.lengths |-> Stretch(p, 0, data.lengths[p], None)]
    OBVIOUS
  <2>2. f \in Surjection(DOMAIN data.lengths, Candidates(data, unit))
    BY <1>2, <2>1 DEF Surjection, Candidates
  <2> QED BY <1>1, <2>2, FS_Surjection
<1>3. CASE unit = "symbol"
  <2>1. PICK f : f = [s \in data.symbols |-> Stretch(s.path, s.first, s.last, s.id)]
    OBVIOUS
  <2>2. f \in Surjection(data.symbols, Candidates(data, unit))
    BY <1>3, <2>1 DEF Surjection, Candidates, SymbolsOf
  <2> QED BY <1>1, <2>2, FS_Surjection
<1>4. CASE unit = "chunk"
  <2>1. ASSUME NEW p \in DOMAIN data.lengths
        PROVE  IsFiniteSet(ChunksOf(data, p))
    <3>1. PICK n \in Nat : n = data.lengths[p]
      BY <1>1
    <3>2. IsFiniteSet(ChunkStarts(n))
      <4>1. ChunkStarts(n) \in SUBSET (0..(n - 1))
        BY DEF ChunkStarts
      <4>2. IsFiniteSet(0..(n - 1))
        BY FS_Interval
      <4> QED BY <4>1, <4>2, FS_Subset
    <3>3. PICK f : f = [s \in ChunkStarts(n) |-> Stretch(p, s, Least(s + ChunkSize, n), None)]
      OBVIOUS
    <3>4. f \in Surjection(ChunkStarts(n), ChunksOf(data, p))
      BY <3>1, <3>3 DEF Surjection, ChunksOf
    <3> QED BY <3>2, <3>4, FS_Surjection
  <2>2. PICK f : f = [p \in DOMAIN data.lengths |-> ChunksOf(data, p)]
    OBVIOUS
  <2> DEFINE all == {ChunksOf(data, p) : p \in DOMAIN data.lengths}
  <2>3. f \in Surjection(DOMAIN data.lengths, all)
    BY <2>2 DEF Surjection
  <2>4. IsFiniteSet(all)
    <3> HIDE DEF all
    <3> QED BY <1>1, <2>3, FS_Surjection
  <2>5. \A T \in all : IsFiniteSet(T)
    BY <2>1
  <2>6. IsFiniteSet(UNION all)
    <3> HIDE DEF all
    <3> QED BY <2>4, <2>5, FS_UNION
  <2> QED BY <1>4, <2>6 DEF Candidates
<1> QED BY <1>2, <1>3, <1>4 DEF Units

\* What compute_metrics asks of the grades of a query.
LEMMA GradesAreTruth ==
    ASSUME NEW data, IsFrozen(data), NEW evidence, \A e \in evidence : e.grade \in 0..2,
           NEW unit \in Units, Gradable(data, evidence, unit)
    PROVE  IsTruth(RelevanceMap(data, evidence, unit))
<1> DEFINE grades == RelevanceMap(data, evidence, unit)
<1>1. DOMAIN grades = Candidates(data, unit)
      /\ \A c \in Candidates(data, unit) : grades[c] = Grade(data, evidence, unit, c)
  BY DEF RelevanceMap
<1>2. ASSUME NEW c
      PROVE  Grade(data, evidence, unit, c) \in 0..2
  <2>1. PICK T : T = {e.grade : e \in {e \in evidence : Supports(data, unit, e, c)}}
    OBVIOUS
  <2>2. T \subseteq 0..2
    BY <2>1
  <2> QED BY <2>1, <2>2, BestIsReached DEF Grade
<1> QED BY <1>1, <1>2, CandidatesAreFinite DEF IsTruth, Gradable

\* The records of one query's result are those of a ranking of its catalogue.
LEMMA HitsAreRanked ==
    ASSUME NEW S, NEW hits \in Rankings(S), NEW grades, Range(hits) \subseteq DOMAIN grades
    PROVE  IsRanked(SubSeq(hits, 1, Kept(hits)), grades)
<1>1. PICK n \in 0..TopK : hits \in [1..n -> S] /\ IsInjective(hits)
  BY DEF Rankings
<1>2. TopK \in Nat /\ n \in Nat
  BY CutoffsAreOrdered
<1>3. \A i, j \in 1..n : hits[i] = hits[j] => i = j
  BY <1>1 DEF IsInjective
<1>4. \A i \in 1..n : hits[i] \in DOMAIN grades
  BY <1>1 DEF Range
<1>5. Kept(hits) \in 0..n
  <2>1. Fresh(hits) \in SUBSET (1..n)
    BY <1>1 DEF Fresh
  <2>2. IsFiniteSet(1..n) /\ Cardinality(1..n) = n
    BY <1>2, FS_Interval
  <2>3. Cardinality(Fresh(hits)) <= n /\ Cardinality(Fresh(hits)) \in Nat
    BY <2>1, <2>2, FS_Subset, FS_CardinalityType
  <2> QED BY <1>2, <2>3 DEF Kept, Least
<1>6. PICK k \in 0..n : k = Kept(hits)
  BY <1>5
<1>7. hits \in Seq(S) /\ Len(hits) = n
  BY <1>1, <1>2
<1>8. PICK ranked : ranked = SubSeq(hits, 1, k)
  OBVIOUS
<1>9. Len(ranked) = k /\ \A i \in 1..k : ranked[i] = hits[i]
  BY <1>2, <1>7, <1>8
<1>10. k \in Nat /\ 1..k \subseteq 1..n
  BY <1>2
<1> QED BY <1>3, <1>4, <1>6, <1>8, <1>9, <1>10 DEF IsRanked

\* The result of a query is sound, whatever its strategy answers.
LEMMA ResultIsSound ==
    ASSUME NEW data, IsFrozen(data), NEW q \in DOMAIN data.queries,
           NEW config, config.unit \in Units,
           Gradable(data, data.queries[q].evidence, config.unit),
           NEW S, NEW answer, answer.hits \in Rankings(S)
    PROVE  LET result == QueryResult(data, q, config, answer)
               grades == RelevanceMap(data, data.queries[q].evidence, config.unit)
           IN  ScoreIsSound(result, grades) /\ IsScored(result)
<1> DEFINE grades == RelevanceMap(data, data.queries[q].evidence, config.unit)
           status == QueryStatus(DOMAIN grades, config.semantic, answer)
           ranked == SubSeq(answer.hits, 1, Kept(answer.hits))
           result == QueryResult(data, q, config, answer)
<1>1. IsTruth(grades)
  <2>1. \A e \in data.queries[q].evidence : e.grade \in 0..2
    BY DEF IsFrozen, IsWellFormed
  <2> QED BY <2>1, GradesAreTruth
<1>2. /\ result.status = status
      /\ status = "success" => result.ranked = ranked /\ result.metrics = Metrics(ranked, grades)
      /\ status # "success" => result.ranked = << >> /\ result.metrics = Zero
  BY DEF QueryResult
<1>3. /\ status \in {"success", "failed", "invalid"}
      /\ status = "success" => Range(answer.hits) \subseteq DOMAIN grades
  BY DEF QueryStatus
<1> HIDE DEF grades, status, ranked, result
<1>4. CASE status = "success"
  <2>1. IsRanked(ranked, grades)
    BY <1>3, <1>4, HitsAreRanked DEF ranked
  <2> QED BY <1>1, <1>2, <1>4, <2>1, MetricsAreSound DEF grades, result
<1>5. CASE status # "success"
  <2>1. ScoreIsSound(result, grades)
    BY <1>2, <1>5 DEF ScoreIsSound
  <2>2. \A m \in MetricNames : result.metrics[m] = <<0, 1>>
    BY <1>2, <1>5 DEF Zero
  <2>3. IsScored(result)
    BY <1>2, <1>3, <1>5, <2>2 DEF IsScored
  <2> QED BY <2>1, <2>3 DEF grades, result
<1> QED BY <1>4, <1>5

LEMMA EveryPackageIsSoundlyScored == DOMAIN Corpora \subseteq SoundlyScored
<1> SUFFICES ASSUME NEW name \in DOMAIN Corpora
             PROVE  name \in SoundlyScored
  OBVIOUS
<1> DEFINE data == Corpora[name]
           answers(unit) == [raises : BOOLEAN, degraded : BOOLEAN,
                hits : Rankings(Candidates(data, unit) \cup {Stretch("stray", 0, 1, None)})]
           config(unit) == [unit |-> unit, semantic |-> TRUE]
           result(unit, q, a) == QueryResult(data, q, config(unit), a)
<1>1. IsFrozen(data)
  BY CorporaAreFinite, CorporaAreWellFormed DEF IsFrozen
<1>2. ASSUME NEW unit \in Units, NEW q \in DOMAIN data.queries,
             Gradable(data, data.queries[q].evidence, unit), NEW a \in answers(unit)
      PROVE  /\ ScoreIsSound(result(unit, q, a), RelevanceMap(data, data.queries[q].evidence, unit))
             /\ IsScored(result(unit, q, a))
  <2>1. config(unit).unit = unit
        /\ a.hits \in Rankings(Candidates(data, unit) \cup {Stretch("stray", 0, 1, None)})
    OBVIOUS
  <2> HIDE DEF data, config
  <2> QED BY <1>1, <1>2, <2>1, ResultIsSound
<1>3. ASSUME NEW r, NEW s, IsScored(r), IsScored(s)
      PROVE  SummaryIsSound(<<r, s>>)
  <2>1. PICK pair : pair = <<r, s>>
    OBVIOUS
  <2>2. DOMAIN pair = 1..Len(pair) /\ \A i \in DOMAIN pair : IsScored(pair[i])
    BY <1>3, <2>1
  <2>3. PICK n \in Nat : n = Len(pair)
    BY <2>1
  <2>4. IsFiniteSet(1..n)
    BY FS_Interval
  <2>5. IsFiniteSet(DOMAIN pair)
    BY <2>2, <2>3, <2>4
  <2> QED BY <2>1, <2>2, <2>5, AnySummaryIsSound
<1> DEFINE grades(unit, q) == RelevanceMap(data, data.queries[q].evidence, unit)
           results(unit, q) == {QueryResult(data, q, config(unit), a) : a \in answers(unit)}
<1>4. ASSUME NEW unit \in Units, NEW q \in DOMAIN data.queries,
             Gradable(data, data.queries[q].evidence, unit)
      PROVE  /\ \A r \in results(unit, q) : ScoreIsSound(r, grades(unit, q))
             /\ \A r, s \in results(unit, q) : SummaryIsSound(<<r, s>>)
  <2>1. \A r \in results(unit, q) : ScoreIsSound(r, grades(unit, q)) /\ IsScored(r)
    BY <1>2, <1>4
  <2> HIDE DEF results
  <2> QED BY <1>3, <2>1
<1>5. \A unit \in Units : \A q \in DOMAIN data.queries :
          Gradable(data, data.queries[q].evidence, unit) =>
              /\ \A r \in results(unit, q) : ScoreIsSound(r, grades(unit, q))
              /\ \A r, s \in results(unit, q) : SummaryIsSound(<<r, s>>)
  BY <1>4
<1> QED BY <1>5 DEF SoundlyScored, Units

(* No published run has an unsound score, for any frozen data, any strategy, *)
(* any cutoffs in order and any discounts that fall: recalls grow with the   *)
(* cutoff, nDCG is one exactly for a best ranking, and no mean passes the    *)
(* share of queries that succeeded (metrics.py compute_metrics,              *)
(* summarize_metrics).                                                       *)
THEOREM ScoresAreAlwaysSound == Spec => []ScoresAreSound
<1>1. ValidatedInvariant => ScoresAreSound
  BY EveryPackageIsSoundlyScored DEF ValidatedInvariant, ScoresAreSound
<1> QED BY <1>1, ValidatedHolds, PTL
=============================================================================
