--------------------------- MODULE BatchRunProofs ---------------------------
(***************************************************************************)
(* One provider serves a batch, with a key and an address meant for it: the *)
(* settings never hold a key or an address entered for another provider,    *)
(* what is built from them is meant for its provider, and a batch keeps     *)
(* what it took when it began.  However it ends, nothing of it stays on     *)
(* disk but its archive, and the archive holds what the log says succeeded  *)
(* and what failed writes have left: the directory follows the log record   *)
(* by record, and the paths in the archive are as distinct as the relative  *)
(* ones.                                                                    *)
(***************************************************************************)
EXTENDS BatchRun, FiniteSetTheorems, WellFoundedInduction, SequenceTheorems, TLAPS

SettingsFit(s) ==
    /\ DOMAIN s = {"provider", "model", "key", "url", "custom"}
    /\ s.key \in KeysFor[s.provider] \cup {None}
    /\ s.url \in UrlsFor[s.provider] \cup {None, Blank}

ConfigInvariant ==
    /\ SettingsFit(active)
    /\ built # None => MeantFor(built)

BatchInvariant ==
    /\ asked \in Seq({provider})
    /\ pc = "start" => asked = << >>
    /\ pc \notin {"start", "ended"} \/ asked # << >> => MeantFor(provider)

------------------------------------------------------------------------------
(* The settings.                                                            *)

\* A provider object built from fitting settings is meant for its provider:
\* EffectiveKey and EffectiveUrl fill in only that provider's own defaults.
LEMMA BuiltIsMeant ==
    ASSUME NEW s, SettingsFit(s)
    PROVE  MeantFor(BuiltFrom(s))
<1>1. BuiltFrom(s).config.provider = s.provider
  BY DEF BuiltFrom, ModelConfig
<1>2. BuiltFrom(s).key \in KeysFor[s.provider] \cup {EnvKey[s.provider], NoKey}
  BY DEF BuiltFrom, EffectiveKey, SettingsFit
<1>3. BuiltFrom(s).config.url \in UrlsFor[s.provider] \cup {DefaultUrl[s.provider]}
  BY DEF BuiltFrom, ModelConfig, EffectiveUrl, SettingsFit
<1> QED BY <1>1, <1>2, <1>3 DEF MeantFor

\* Import: no key, and at most an address for the provider of the environment.
LEMMA ConfigStarts == ConfigInit => ConfigInvariant
<1> SUFFICES ASSUME ConfigInit PROVE ConfigInvariant
  OBVIOUS
<1> QED BY DEF ConfigInit, ConfigInvariant, SettingsFit

\* Settings are committed together with the object built from them.
LEMMA CommitKeeps ==
    ASSUME NEW candidate, SettingsFit(candidate), Commit(candidate)
    PROVE  ConfigInvariant'
<1>1. MeantFor(BuiltFrom(candidate))
  BY BuiltIsMeant
<1> QED BY <1>1 DEF Commit, ConfigInvariant, SettingsFit, MeantFor

\* A switch keeps a key or an address only when the provider stays.
LEMMA SwitchFits ==
    ASSUME ConfigInvariant, NEW p, NEW model, NEW custom,
           NEW key \in KeysFor[p] \cup {None, Blank},
           NEW url \in UrlsFor[p] \cup {None, Blank, Slashes}
    PROVE  /\ NextKey(p, key) \in KeysFor[p] \cup {None}
           /\ NextUrl(p, url) \in UrlsFor[p] \cup {None, Blank}
<1>1. NextKey(p, key) \in KeysFor[p] \cup {None}
  BY DEF ConfigInvariant, SettingsFit, NextKey
<1>2. NextUrl(p, url) \in UrlsFor[p] \cup {None, Blank}
  BY DEF ConfigInvariant, SettingsFit, NextUrl, Stripped
<1> QED BY <1>1, <1>2

LEMMA ConfigureKeeps ==
    ASSUME ConfigInvariant, Configure
    PROVE  ConfigInvariant'
<1>1. ASSUME NEW p \in Providers, NEW model, NEW custom,
             NEW key \in KeysFor[p] \cup {None, Blank},
             NEW url \in UrlsFor[p] \cup {None, Blank, Slashes},
             SwitchProvider(p, model, key, url, custom)
      PROVE  ConfigInvariant'
  <2> DEFINE candidate ==
          [provider |-> p, model |-> NextModel(p, model, custom), key |-> NextKey(p, key),
           url |-> NextUrl(p, url),
           custom |-> IF p = "custom" /\ custom # None THEN custom ELSE active.custom]
  <2>1. SettingsFit(candidate)
    BY SwitchFits DEF SettingsFit
  <2>2. Commit(candidate)
    BY <1>1 DEF SwitchProvider
  <2> QED BY <2>1, <2>2, CommitKeeps
<1>2. ASSUME NEW key \in KeysFor[active.provider] \cup {Blank}, SetApiKey(key)
      PROVE  ConfigInvariant'
  <2> DEFINE candidate == [active EXCEPT !.key = IF key = Blank THEN None ELSE key]
  <2>1. SettingsFit(candidate)
    BY DEF ConfigInvariant, SettingsFit
  <2>2. Commit(candidate)
    BY <1>2 DEF SetApiKey
  <2> QED BY <2>1, <2>2, CommitKeeps
<1>3. ASSUME NEW url \in UrlsFor[active.provider] \cup {None, Blank, Slashes},
             SetCustomBaseUrl(url)
      PROVE  ConfigInvariant'
  <2> DEFINE candidate ==
          [active EXCEPT !.url = IF url \in {None, Blank} THEN None ELSE Stripped(url)]
  <2>1. SettingsFit(candidate)
    BY DEF ConfigInvariant, SettingsFit, Stripped
  <2>2. Commit(candidate)
    BY <1>3 DEF SetCustomBaseUrl
  <2> QED BY <2>1, <2>2, CommitKeeps
<1>4. CASE Refused
  BY <1>4 DEF Refused, ConfigInvariant, SettingsFit, MeantFor
<1> QED BY <1>1, <1>2, <1>3, <1>4 DEF Configure

\* What a getter hands out is meant for its provider, built now or before.
LEMMA ActiveIsMeant ==
    ASSUME ConfigInvariant
    PROVE  MeantFor(ActiveProvider)
BY BuiltIsMeant DEF ConfigInvariant, ActiveProvider

LEMMA BuildKeeps ==
    ASSUME ConfigInvariant, BuildIfNeeded
    PROVE  ConfigInvariant'
<1>1. MeantFor(ActiveProvider)
  BY ActiveIsMeant
<1> QED BY <1>1 DEF BuildIfNeeded, ConfigInvariant, SettingsFit, MeantFor

------------------------------------------------------------------------------
(* The batch.                                                               *)

\* A step that asks no provider and does not go back to the start.
LEMMA AsksNobody ==
    ASSUME BatchInvariant, UNCHANGED <<provider, asked>>,
           pc' # "start", pc \notin {"start", "ended"} \/ pc' = "ended"
    PROVE  BatchInvariant'
BY DEF BatchInvariant, MeantFor

LEMMA ConfigUnchanged ==
    ASSUME ConfigInvariant, UNCHANGED configVars
    PROVE  ConfigInvariant'
BY DEF ConfigInvariant, configVars, SettingsFit, MeantFor

LEMMA FirstState == BatchInit => ConfigInvariant /\ BatchInvariant
<1> SUFFICES ASSUME BatchInit PROVE ConfigInvariant /\ BatchInvariant
  OBVIOUS
<1>1. ConfigInvariant
  BY ConfigStarts DEF BatchInit
<1>2. BatchInvariant
  BY DEF BatchInit, BatchInvariant
<1> QED BY <1>1, <1>2

LEMMA StartKeeps ==
    ASSUME ConfigInvariant, BatchInvariant, Start
    PROVE  ConfigInvariant' /\ BatchInvariant'
<1>1. ConfigInvariant'
  BY BuildKeeps DEF Start
<1>2. MeantFor(provider')
  BY ActiveIsMeant DEF Start
<1>3. asked' = << >>
  BY DEF Start, BatchInvariant
<1>4. pc' # "start"
  BY DEF Start, End
<1> QED BY <1>1, <1>2, <1>3, <1>4 DEF BatchInvariant, MeantFor

\* Each file is given the provider the batch took.
LEMMA ProcessFileKeeps ==
    ASSUME ConfigInvariant, BatchInvariant,
           NEW r \in {"raises", "raises_between", "no_text", "annotated",
                      "annotated_with_failures"},
           ProcessFile(r)
    PROVE  ConfigInvariant' /\ BatchInvariant'
<1>1. ConfigInvariant'
  BY ConfigUnchanged DEF ProcessFile
<1>2. pc = "processing" /\ provider' = provider /\ asked' = Append(asked, provider)
  BY DEF ProcessFile, ProviderOfFile
<1>3. pc' # "start"
  BY DEF ProcessFile, NextFile
<1>4. MeantFor(provider)
  BY <1>2 DEF BatchInvariant
<1>5. asked' \in Seq({provider'})
  BY <1>2 DEF BatchInvariant
<1> QED BY <1>2, <1>3, <1>4, <1>5, <1>1 DEF BatchInvariant, MeantFor

LEMMA StepKeeps ==
    ASSUME ConfigInvariant, BatchInvariant, [BatchNext]_batchAllVars
    PROVE  ConfigInvariant' /\ BatchInvariant'
<1> USE DEF End, NextFile
<1>1. CASE Start
  BY <1>1, StartKeeps
<1>2. CASE StartFails
  BY <1>2, AsksNobody, ConfigUnchanged DEF StartFails
<1>3. CASE Expand
  <2>1. pc = "expand" /\ pc' \in {"expand", "expanded"} /\ UNCHANGED <<provider, asked, configVars>>
    BY <1>3 DEF Expand
  <2> QED BY <2>1, AsksNobody, ConfigUnchanged
<1>4. CASE ResumeExpansion
  BY <1>4, AsksNobody, ConfigUnchanged DEF ResumeExpansion
<1>5. CASE CopyFails
  BY <1>5, AsksNobody, ConfigUnchanged DEF CopyFails
<1>6. CASE BeginLoop
  <2>1. pc = "expand" /\ pc' \in {"file", "ended"} /\ UNCHANGED <<provider, asked, configVars>>
    BY <1>6 DEF BeginLoop
  <2> QED BY <2>1, AsksNobody, ConfigUnchanged
<1>7. CASE BeginFile
  BY <1>7, AsksNobody, ConfigUnchanged DEF BeginFile
<1>8. CASE ReadFails
  BY <1>8, AsksNobody, ConfigUnchanged DEF ReadFails
<1>9. CASE OpenFails
  BY <1>9, AsksNobody, ConfigUnchanged DEF OpenFails
<1>10. ASSUME NEW r \in {"raises", "raises_between", "no_text", "annotated",
                         "annotated_with_failures"},
              ProcessFile(r)
       PROVE  ConfigInvariant' /\ BatchInvariant'
  BY <1>10, ProcessFileKeeps
<1>11. CASE Classify
  <2>1. pc = "written" /\ pc' \in {"file", "report"} /\ UNCHANGED <<provider, asked, configVars>>
    BY <1>11 DEF Classify
  <2> QED BY <2>1, AsksNobody, ConfigUnchanged
<1>12. CASE Report
  BY <1>12, AsksNobody, ConfigUnchanged DEF Report
<1>13. CASE Summarize
  BY <1>13, AsksNobody, ConfigUnchanged DEF Summarize
<1>14. ASSUME NEW works \in BOOLEAN, PackageResults(works)
       PROVE  ConfigInvariant' /\ BatchInvariant'
  <2>1. pc = "package" /\ pc' = "ended" /\ UNCHANGED <<provider, asked, configVars>>
    BY <1>14 DEF PackageResults
  <2> QED BY <2>1, AsksNobody, ConfigUnchanged
<1>15. CASE Leave
  BY <1>15, AsksNobody, ConfigUnchanged DEF Leave
<1>16. CASE Cancel
  <2>1. UNCHANGED <<pc, provider, asked, configVars>>
    BY <1>16 DEF Cancel
  <2> QED BY <2>1, ConfigUnchanged DEF BatchInvariant, MeantFor
<1>17. CASE OtherSession
  <2>1. ConfigInvariant'
    BY <1>17, ConfigureKeeps, BuildKeeps DEF OtherSession
  <2>2. UNCHANGED <<pc, provider, asked>>
    BY <1>17 DEF OtherSession, batchVars
  <2> QED BY <2>1, <2>2 DEF BatchInvariant, MeantFor
<1>18. CASE UNCHANGED batchAllVars
  <2>1. UNCHANGED <<pc, provider, asked, configVars>>
    BY <1>18 DEF batchAllVars, batchVars
  <2> QED BY <2>1, ConfigUnchanged DEF BatchInvariant, MeantFor
<1> QED BY <1>1, <1>2, <1>3, <1>4, <1>5, <1>6, <1>7, <1>8, <1>9, <1>10, <1>11, <1>12,
           <1>13, <1>14, <1>15, <1>16, <1>17, <1>18 DEF BatchNext

LEMMA InvariantImplies == BatchInvariant => OneProviderPerBatch
<1> SUFFICES ASSUME BatchInvariant PROVE OneProviderPerBatch
  OBVIOUS
<1>1. ASSUME NEW i \in DOMAIN asked PROVE asked[i] = provider /\ MeantFor(provider)
  <2>1. asked[i] = provider
    BY DEF BatchInvariant
  <2>2. asked # << >>
    OBVIOUS
  <2> QED BY <2>1, <2>2 DEF BatchInvariant
<1> QED BY <1>1 DEF OneProviderPerBatch

(* Every file of a batch goes to the provider that was active when it began, *)
(* with a key and an address entered for that provider or its defaults, for  *)
(* any providers, keys and addresses, and any switches by other sessions     *)
(* (config.py switch_provider, processor.py task_provider).                  *)
THEOREM BatchKeepsItsProvider == BatchSpec => []OneProviderPerBatch
<1>1. BatchInit => ConfigInvariant /\ BatchInvariant
  BY FirstState
<1>2. (ConfigInvariant /\ BatchInvariant) /\ [BatchNext]_batchAllVars
          => (ConfigInvariant /\ BatchInvariant)'
  BY StepKeeps
<1>3. ConfigInvariant /\ BatchInvariant => OneProviderPerBatch
  BY InvariantImplies
<1> QED BY <1>1, <1>2, <1>3, PTL DEF BatchSpec
------------------------------------------------------------------------------
(* The log and the files on disk.                                           *)

Labels == {"read_failed", "processing_failed", "failed", "write_failed"} \cup Succeeded

LogInvariant ==
    /\ label \in Seq(Labels)
    /\ pos = Len(label) + 1
    /\ pc = "report" => result \in Succeeded
    /\ pc \in {"start", "expand", "expanded"} => label = << >> /\ output = << >>
    /\ pc \in {"processing", "written", "report", "ended"} => ~suspended
    /\ pc # "ended" => archive = None
    /\ pc = "start" => temp = {}

\* What a process_code that raised left of its own.
Abandoned == {Markdown(i) : i \in {j \in DOMAIN label : label[j] = "processing_failed"}}

\* While the batch runs there is its directory, and from the return of
\* process_code to the end of the same iteration the two files of one record.
FilesInvariant ==
    /\ pc # "ended" =>
          temp \ Abandoned \subseteq
              {Directory} \cup (IF pc = "written" THEN {Markdown(pos), Annotated(pos)} ELSE {})
    /\ NothingIsLeftBehind

\* A record is reported: the log grows by its label.
LEMMA LogGrows ==
    ASSUME label \in Seq(Labels), NEW l \in Labels, label' = Append(label, l)
    PROVE  /\ label' \in Seq(Labels)
           /\ Len(label) \in Nat /\ Len(label') = Len(label) + 1
           /\ DOMAIN label = 1..Len(label) /\ DOMAIN label' = 1..Len(label')
           /\ \A i \in DOMAIN label : i \in DOMAIN label' /\ label'[i] = label[i]
           /\ label'[Len(label) + 1] = l
           /\ Abandoned \subseteq Abandoned'
<1>1. /\ label' \in Seq(Labels)
      /\ Len(label) \in Nat /\ Len(label') = Len(label) + 1
      /\ DOMAIN label = 1..Len(label) /\ DOMAIN label' = 1..Len(label')
      /\ \A i \in DOMAIN label : i \in DOMAIN label' /\ label'[i] = label[i]
      /\ label'[Len(label) + 1] = l
  OBVIOUS
<1> QED BY <1>1 DEF Abandoned

\* The steps between two records.
Quiet ==
    \/ StartFails \/ Expand \/ ResumeExpansion \/ CopyFails \/ BeginLoop \/ BeginFile
    \/ OpenFails \/ Summarize \/ Leave \/ Cancel \/ OtherSession
    \/ UNCHANGED batchAllVars

LEMMA QuietKeepsLog ==
    ASSUME LogInvariant, Quiet
    PROVE  LogInvariant' /\ UNCHANGED <<label, pos, archive>>
<1> USE DEF LogInvariant, End
<1>1. CASE StartFails
  BY <1>1 DEF StartFails
<1>2. CASE Expand
  BY <1>2 DEF Expand
<1>3. CASE ResumeExpansion
  BY <1>3 DEF ResumeExpansion
<1>4. CASE CopyFails
  BY <1>4 DEF CopyFails
<1>5. CASE BeginLoop
  BY <1>5 DEF BeginLoop
<1>6. CASE BeginFile
  BY <1>6 DEF BeginFile
<1>7. CASE OpenFails
  BY <1>7 DEF OpenFails
<1>8. CASE Summarize
  BY <1>8 DEF Summarize
<1>9. CASE Leave
  BY <1>9 DEF Leave
<1>10. CASE Cancel
  BY <1>10 DEF Cancel
<1>11. CASE OtherSession
  BY <1>11 DEF OtherSession, batchVars
<1>12. CASE UNCHANGED batchAllVars
  BY <1>12 DEF batchAllVars, batchVars
<1> QED BY <1>1, <1>2, <1>3, <1>4, <1>5, <1>6, <1>7, <1>8, <1>9, <1>10, <1>11, <1>12 DEF Quiet

\* None of them touches the disk but to remove the directory at the end.
LEMMA QuietKeepsFiles ==
    ASSUME LogInvariant, FilesInvariant, Quiet
    PROVE  FilesInvariant'
<1>1. UNCHANGED <<label, pos, archive>>
  BY QuietKeepsLog
<1>2. Abandoned' = Abandoned
  BY <1>1 DEF Abandoned
<1>3. ASSUME UNCHANGED <<temp, pc>> PROVE FilesInvariant'
  BY <1>1, <1>2, <1>3 DEF FilesInvariant, NothingIsLeftBehind, Abandoned
<1>4. ASSUME pc \notin {"written", "ended"}, pc' \notin {"written", "ended"}, temp' = temp
      PROVE  FilesInvariant'
  BY <1>2, <1>4 DEF FilesInvariant, NothingIsLeftBehind
<1>5. ASSUME pc \notin {"written", "ended"}, End PROVE FilesInvariant'
  <2>1. temp' = temp \ {Directory} /\ pc' = "ended" /\ archive' = None
    BY <1>1, <1>5 DEF End, LogInvariant
  <2>2. temp \ Abandoned \subseteq {Directory}
    BY <1>5 DEF FilesInvariant
  <2>3. temp' \ Abandoned' = {}
    BY <1>2, <2>1, <2>2
  <2> QED BY <2>1, <2>3 DEF FilesInvariant, NothingIsLeftBehind, Abandoned
<1>6. CASE StartFails
  BY <1>5, <1>6 DEF StartFails
<1>7. CASE Expand
  BY <1>4, <1>7 DEF Expand
<1>8. CASE ResumeExpansion
  BY <1>4, <1>5, <1>8 DEF ResumeExpansion
<1>9. CASE CopyFails
  BY <1>5, <1>9 DEF CopyFails
<1>10. CASE BeginLoop
  BY <1>4, <1>5, <1>10 DEF BeginLoop
<1>11. CASE BeginFile
  BY <1>4, <1>11 DEF BeginFile
<1>12. CASE OpenFails
  BY <1>5, <1>12 DEF OpenFails
<1>13. CASE Summarize
  BY <1>4, <1>13 DEF Summarize
<1>14. CASE Leave
  BY <1>5, <1>14 DEF Leave, LogInvariant
<1>15. CASE Cancel \/ OtherSession \/ UNCHANGED batchAllVars
  BY <1>3, <1>15 DEF Cancel, OtherSession, batchAllVars, batchVars
<1> QED BY <1>6, <1>7, <1>8, <1>9, <1>10, <1>11, <1>12, <1>13, <1>14, <1>15 DEF Quiet

\* The steps that report a record, or end one.
LEMMA ReportKeepsLog ==
    ASSUME LogInvariant,
           \/ ReadFails \/ Classify \/ Report
           \/ \E r \in {"raises", "raises_between", "no_text", "annotated",
                        "annotated_with_failures"} : ProcessFile(r)
    PROVE  LogInvariant'
<1>1. ASSUME NEW l \in Labels, NextFile(l), archive' = archive, pc # "ended"
      PROVE  LogInvariant'
  BY <1>1, LogGrows DEF LogInvariant, NextFile
<1>2. ASSUME pc' = "written", UNCHANGED <<label, pos, suspended, archive>>, pc = "processing"
      PROVE  LogInvariant'
  BY <1>2 DEF LogInvariant
<1>3. CASE ReadFails
  BY <1>1, <1>3 DEF ReadFails, Labels
<1>4. CASE Classify
  <2>1. CASE \E l \in {"failed", "write_failed"} : NextFile(l)
    BY <1>1, <1>4, <2>1 DEF Classify, Labels
  <2>2. CASE ~ \E l \in {"failed", "write_failed"} : NextFile(l)
    <3>1. /\ Classified # "failed" /\ result' = Classified
          /\ pc' = "report" /\ UNCHANGED <<label, pos, suspended, archive>>
          /\ pc = "written"
      BY <1>4, <2>2 DEF Classify
    <3> QED BY <3>1 DEF LogInvariant, Classified, Succeeded
  <2> QED BY <2>1, <2>2
<1>5. CASE Report
  <2>1. result \in Succeeded /\ "cancelled" \in Succeeded
    BY <1>5 DEF Report, LogInvariant, Succeeded
  <2> QED BY <1>1, <1>5, <2>1 DEF Report, Labels
<1>6. ASSUME NEW r \in {"raises", "raises_between", "no_text", "annotated",
                        "annotated_with_failures"}, ProcessFile(r)
      PROVE  LogInvariant'
  <2>1. \/ NextFile("processing_failed")
        \/ pc' = "written" /\ UNCHANGED <<label, pos, suspended>>
    BY <1>6 DEF ProcessFile
  <2> QED BY <1>1, <1>2, <1>6, <2>1 DEF ProcessFile, Labels
<1> QED BY <1>3, <1>4, <1>5, <1>6

LEMMA ReportKeepsFiles ==
    ASSUME LogInvariant, FilesInvariant,
           \/ ReadFails \/ Classify \/ Report
           \/ \E r \in {"raises", "raises_between", "no_text", "annotated",
                        "annotated_with_failures"} : ProcessFile(r)
    PROVE  FilesInvariant'
<1>1. ASSUME NEW l \in Labels, NextFile(l), temp' \ Abandoned \subseteq {Directory}
      PROVE  FilesInvariant'
  <2>1. Abandoned \subseteq Abandoned' /\ pc' = "file"
    BY <1>1, LogGrows DEF LogInvariant, NextFile
  <2> QED BY <1>1, <2>1 DEF FilesInvariant, NothingIsLeftBehind
<1>2. CASE ReadFails
  BY <1>1, <1>2 DEF ReadFails, Labels, FilesInvariant
<1>3. CASE Classify
  <2>1. temp' \ Abandoned \subseteq {Directory}
    BY <1>3 DEF Classify, Discard, FilesInvariant
  <2>2. CASE \E l \in {"failed", "write_failed"} : NextFile(l)
    BY <1>1, <2>1, <2>2 DEF Labels
  <2>3. CASE ~ \E l \in {"failed", "write_failed"} : NextFile(l)
    <3>1. pc' = "report" /\ label' = label
      BY <1>3, <2>3 DEF Classify
    <3> QED BY <2>1, <3>1 DEF FilesInvariant, NothingIsLeftBehind, Abandoned
  <2> QED BY <2>2, <2>3
<1>4. CASE Report
  <2>1. result \in Succeeded /\ "cancelled" \in Succeeded
    BY <1>4 DEF Report, LogInvariant, Succeeded
  <2> QED BY <1>1, <1>4, <2>1 DEF Report, Labels, FilesInvariant
<1>5. ASSUME NEW r \in {"raises", "raises_between", "no_text", "annotated",
                        "annotated_with_failures"}, ProcessFile(r)
      PROVE  FilesInvariant'
  <2>1. pc = "processing" /\ temp \ Abandoned \subseteq {Directory}
    BY <1>5 DEF ProcessFile, FilesInvariant
  <2>2. CASE r = "raises"
    BY <1>1, <1>5, <2>1, <2>2 DEF ProcessFile, Labels
  <2>3. CASE r = "raises_between"
    <3>1. NextFile("processing_failed") /\ temp' = temp \cup {Markdown(pos)}
      BY <1>5, <2>3 DEF ProcessFile
    <3>2. Abandoned \subseteq Abandoned' /\ Markdown(pos) \in Abandoned'
      <4>1. /\ Abandoned \subseteq Abandoned'
            /\ pos \in DOMAIN label' /\ label'[pos] = "processing_failed"
        BY <3>1, LogGrows DEF LogInvariant, NextFile, Labels
      <4> QED BY <4>1 DEF Abandoned
    <3> QED BY <2>1, <3>1, <3>2 DEF FilesInvariant, NothingIsLeftBehind, NextFile
  <2>4. CASE r \notin {"raises", "raises_between"}
    <3>1. /\ pc' = "written" /\ UNCHANGED <<label, pos>>
          /\ temp' \subseteq temp \cup {Markdown(pos), Annotated(pos)}
      BY <1>5, <2>4 DEF ProcessFile
    <3>2. Abandoned' = Abandoned
      BY <3>1 DEF Abandoned
    <3> QED BY <2>1, <3>1, <3>2 DEF FilesInvariant, NothingIsLeftBehind
  <2> QED BY <2>2, <2>3, <2>4
<1> QED BY <1>2, <1>3, <1>4, <1>5

LEMMA StartKeepsFiles ==
    ASSUME LogInvariant, FilesInvariant, Start
    PROVE  LogInvariant' /\ FilesInvariant'
<1>1. /\ pc = "start" /\ temp = {} /\ archive' = None
      /\ UNCHANGED <<label, pos, output, result>>
      /\ \/ pc' = "ended" /\ ~suspended' /\ temp' = {}
         \/ pc' = "expand" /\ temp' = {Directory}
  BY DEF Start, End, LogInvariant
<1> QED BY <1>1 DEF LogInvariant, FilesInvariant, NothingIsLeftBehind

LEMMA PackageKeepsFiles ==
    ASSUME LogInvariant, FilesInvariant, NEW works \in BOOLEAN, PackageResults(works)
    PROVE  LogInvariant' /\ FilesInvariant'
<1>1. /\ pc = "package" /\ pc' = "ended" /\ ~suspended'
      /\ temp' = (temp \ {Directory}) \cup (IF archive' # None THEN {Package} ELSE {})
      /\ UNCHANGED <<label, pos, output, result>>
  BY DEF PackageResults
<1>2. LogInvariant'
  BY <1>1 DEF LogInvariant
<1>3. Abandoned' = Abandoned /\ temp \ Abandoned \subseteq {Directory}
  BY <1>1 DEF Abandoned, FilesInvariant
<1>4. Package \notin Abandoned
  BY DEF Package, Abandoned, Markdown
<1>5. temp' \ Abandoned' = IF archive' = None THEN {} ELSE {Package}
  BY <1>1, <1>3, <1>4
<1> QED BY <1>1, <1>2, <1>5 DEF FilesInvariant, NothingIsLeftBehind, Abandoned

LEMMA FilesStep ==
    LogInvariant /\ FilesInvariant /\ [BatchNext]_batchAllVars
        => LogInvariant' /\ FilesInvariant'
BY QuietKeepsLog, QuietKeepsFiles, ReportKeepsLog, ReportKeepsFiles, StartKeepsFiles,
   PackageKeepsFiles DEF BatchNext, Quiet

LEMMA FilesStart == BatchInit => LogInvariant /\ FilesInvariant
BY DEF BatchInit, LogInvariant, FilesInvariant, NothingIsLeftBehind, Abandoned

(* However a batch ends, for any uploads, records and outcomes of            *)
(* process_code, the disk holds the archive it returns and nothing else of   *)
(* it, but the document of a process_code that raised between its two files  *)
(* (process_batch_with_progress, the finally clauses).                       *)
THEOREM BatchLeavesNothing == BatchSpec => []NothingIsLeftBehind
<1>1. FilesInvariant => NothingIsLeftBehind
  BY DEF FilesInvariant
<1>2. (LogInvariant /\ FilesInvariant) /\ [BatchNext]_batchAllVars
          => (LogInvariant /\ FilesInvariant)'
  BY FilesStep
<1> QED BY FilesStart, <1>1, <1>2, PTL DEF BatchSpec

------------------------------------------------------------------------------
(* Relative paths are paths.                                                *)

\* A strict order on a finite set leaves an element without a predecessor: one
\* with a smallest set of predecessors.
LEMMA FirstExists ==
    ASSUME NEW S, IsFiniteSet(S), S # {}, NEW R,
           \A x \in S : <<x, x>> \notin R,
           \A x, y, z \in S : <<x, y>> \in R /\ <<y, z>> \in R => <<x, z>> \in R
    PROVE  \E s \in S : \A x \in S : <<x, s>> \notin R
<1> DEFINE Before(s) == {x \in S : <<x, s>> \in R}
           F == {Before(s) : s \in S}
<1>1. F \subseteq FiniteSubsetsOf(S) /\ F # {}
  <2>1. \A s \in S : Before(s) \in SUBSET S
    OBVIOUS
  <2>2. FiniteSubsetsOf(S) = SUBSET S
    BY FS_FiniteSubsetsOfFinite
  <2> HIDE DEF Before
  <2> QED BY <2>1, <2>2
<1>2. PICK V \in F : \A U \in F : <<U, V>> \notin StrictSubsetOrdering(S)
  <2>1. IsWellFoundedOn(StrictSubsetOrdering(S), FiniteSubsetsOf(S))
    BY FS_StrictSubsetOrderingWellFounded
  <2> HIDE DEF F
  <2> QED BY <1>1, <2>1, WFMin
<1>3. PICK s \in S : V = Before(s)
  BY <1>2
<1>4. ASSUME NEW x \in S, <<x, s>> \in R PROVE FALSE
  <2>0. Before(x) \in F
    OBVIOUS
  <2>1. PICK U \in F : U = Before(x)
    BY <2>0
  <2>2. U \subseteq V /\ V \subseteq S /\ x \in V /\ x \notin U
    BY <1>3, <1>4, <2>1
  <2> HIDE DEF F
  <2>3. <<U, V>> \in StrictSubsetOrdering(S)
    BY <2>2 DEF StrictSubsetOrdering
  <2> QED BY <1>2, <2>1, <2>3
<1> QED BY <1>4

LEMMA Extremes ==
    ASSUME NEW S \in SUBSET Int, IsFiniteSet(S), S # {}
    PROVE  Max(S) \in S /\ Min(S) \in S
<1>1. PICK s \in S : \A x \in S : ~(x > s)
  <2> DEFINE R == {p \in S \X S : p[1] > p[2]}
  <2>1. /\ \A x, y \in S : <<x, y>> \in R <=> x > y
        /\ \A x \in S : <<x, x>> \notin R
        /\ \A x, y, z \in S : <<x, y>> \in R /\ <<y, z>> \in R => <<x, z>> \in R
    OBVIOUS
  <2> HIDE DEF R
  <2> QED BY <2>1, FirstExists
<1>2. PICK m \in S : \A x \in S : ~(x < m)
  <2> DEFINE R == {p \in S \X S : p[1] < p[2]}
  <2>1. /\ \A x, y \in S : <<x, y>> \in R <=> x < y
        /\ \A x \in S : <<x, x>> \notin R
        /\ \A x, y, z \in S : <<x, y>> \in R /\ <<y, z>> \in R => <<x, z>> \in R
    OBVIOUS
  <2> HIDE DEF R
  <2> QED BY <2>1, FirstExists
<1>3. (\A x \in S : s >= x) /\ (\A x \in S : m =< x)
  BY <1>1, <1>2
<1> QED BY <1>3 DEF Max, Min

LEMMA ZeroOrMore ==
    ASSUME NEW n \in Int
    PROVE  Max({0, n}) \in Nat
<1>1. PICK S : S = {0, n}
  OBVIOUS
<1>2. S \in SUBSET Int /\ S # {} /\ 0 \in S
  BY <1>1
<1>3. PICK x \in S : \A y \in S : x >= y
  <2>1. CASE n >= 0
    BY <1>1, <2>1
  <2>2. CASE ~(n >= 0)
    BY <1>1, <2>2
  <2> QED BY <2>1, <2>2
<1>4. Max(S) \in S /\ \A y \in S : Max(S) >= y
  BY <1>3 DEF Max
<1> QED BY <1>1, <1>2, <1>4

\* The sources share a number of parts.
LEMMA CommonPartsIsNat ==
    ASSUME NEW all, DOMAIN all = 1..Len(all), Len(all) \in Nat \ {0},
           \A i \in DOMAIN all : IsPath(all[i])
    PROVE  CommonParts(all) \in Nat
<1> DEFINE paths == ToSet(all)
           lengths == {Len(p) : p \in paths}
           shortest == Min(lengths)
           shared(n) == \A p, q \in paths : SubSeq(p, 1, n) = SubSeq(q, 1, n)
           counts == {n \in 0..shortest : shared(n)}
<1>1. \A p \in paths : Len(p) \in Nat
  BY DEF ToSet, IsPath, IsSequence
<1>2. IsFiniteSet(lengths)
  <2> DEFINE f == [i \in DOMAIN all |-> Len(all[i])]
  <2>1. f \in Surjection(DOMAIN all, lengths)
    BY DEF Surjection, ToSet
  <2>2. IsFiniteSet(DOMAIN all)
    BY FS_Interval
  <2> QED BY <2>1, <2>2, FS_Surjection
<1>3. lengths \in SUBSET Int /\ lengths # {}
  <2>1. all[1] \in paths
    BY DEF ToSet
  <2>2. lengths \in SUBSET Int
    BY <1>1
  <2>3. Len(all[1]) \in lengths
    BY <2>1
  <2> QED BY <2>2, <2>3
<1>4. shortest \in Nat
  <2>1. shortest \in lengths
    BY <1>2, <1>3, Extremes
  <2> QED BY <1>1, <2>1
<1>5. 0 \in counts
  <2>1. \A p : SubSeq(p, 1, 0) = << >>
    BY SubSeqEmpty
  <2> HIDE DEF shortest, paths
  <2> QED BY <1>4, <2>1
<1>6. counts \in SUBSET Int /\ IsFiniteSet(counts)
  <2> HIDE DEF shortest
  <2>1. IsFiniteSet(0..shortest)
    BY <1>4, FS_Interval
  <2>2. counts \in SUBSET (0..shortest)
    OBVIOUS
  <2> QED BY <1>4, <2>1, <2>2, FS_Subset
<1>7. Max(counts) \in counts
  BY <1>5, <1>6, Extremes
<1>8. SharedParts(paths) = Max(counts)
  BY DEF SharedParts
<1>9. SharedParts(paths) \in Nat
  BY <1>4, <1>7, <1>8
<1> HIDE DEF paths, shortest
<1>10. PICK k \in Nat : k = SharedParts(paths)
  BY <1>9
<1>11. PICK d \in Int : d = k - 1
  BY <1>10
<1>12. Max({0, d}) \in Nat
  BY ZeroOrMore
<1> QED BY <1>10, <1>11, <1>12 DEF CommonParts, paths, shortest

\* What IsSequence says, whatever the set the elements are taken from.
LEMMA SequenceOf ==
    ASSUME NEW S, NEW s \in Seq(S)
    PROVE  IsSequence(s) /\ DOMAIN s = 1..Len(s) /\ Len(s) \in Nat
BY DEF IsSequence, ToSet

LEMMA Concatenation ==
    ASSUME NEW s, NEW t, IsSequence(s), IsSequence(t)
    PROVE  /\ IsSequence(s \o t) /\ Len(s \o t) = Len(s) + Len(t)
           /\ \A i \in DOMAIN (s \o t) : \/ i \in DOMAIN s /\ (s \o t)[i] = s[i]
                                         \/ i - Len(s) \in DOMAIN t /\ (s \o t)[i] = t[i - Len(s)]
<1>1. PICK S : S = ToSet(s) \cup ToSet(t)
  OBVIOUS
<1>2. s \in Seq(S) /\ t \in Seq(S)
  BY <1>1 DEF IsSequence, ToSet
<1>3. s \o t \in Seq(S)
  BY <1>2
<1>4. IsSequence(s \o t)
  BY <1>3, SequenceOf
<1> QED BY <1>2, <1>3, <1>4, ConcatProperties

LEMMA RelativeIsPath ==
    ASSUME NEW all, IsSequence(all), all # << >>,
           \A i \in DOMAIN all : IsPath(all[i]),
           NEW path, IsPath(path)
    PROVE  IsPath(RelativePath(all, path))
<1>1. CommonParts(all) \in Nat
  BY CommonPartsIsNat DEF IsSequence
<1>2. Len(path) \in Nat \ {0} /\ DOMAIN path = 1..Len(path)
  BY DEF IsPath, IsSequence
<1>3. CASE CommonParts(all) > 1 /\ Len(path) > CommonParts(all)
  <2>1. PICK k \in Nat : k = CommonParts(all)
    BY <1>1
  <2>2. k > 1 /\ Len(path) > k
    BY <1>3, <2>1
  <2>3. RelativePath(all, path) = SubSeq(path, k + 1, Len(path))
    BY <1>3, <2>1 DEF RelativePath
  <2>4. PICK n \in Nat : n = Len(path)
    BY <1>2
  <2>5. \A i \in k + 1 .. n : path[i] \in ToSet(path)
    BY <1>2, <2>1, <2>4 DEF ToSet
  <2>6. /\ SubSeq(path, k + 1, n) \in Seq(ToSet(path))
        /\ Len(SubSeq(path, k + 1, n)) = n - (k + 1) + 1
    BY <2>2, <2>4, <2>5, SubSeqProperties
  <2>7. SubSeq(path, k + 1, n) # << >>
    <3>1. n - (k + 1) + 1 # 0
      BY <2>2, <2>4
    <3>2. Len(SubSeq(path, k + 1, n)) # 0
      BY <2>6, <3>1, ZenonT(30)
    <3>3. Len(<< >>) = 0
      OBVIOUS
    <3> QED BY <3>2, <3>3, Zenon
  <2>8. IsSequence(SubSeq(path, k + 1, n))
    BY <2>6, SequenceOf
  <2>9. RelativePath(all, path) = SubSeq(path, k + 1, n)
    BY <2>3, <2>4
  <2> QED BY <2>7, <2>8, <2>9 DEF IsPath
<1>4. CASE ~(CommonParts(all) > 1 /\ Len(path) > CommonParts(all))
  <2>1. RelativePath(all, path) = <<Last(path)>>
    BY <1>4 DEF RelativePath
  <2>2. <<Last(path)>> \in Seq({Last(path)}) /\ <<Last(path)>> # << >>
    OBVIOUS
  <2> QED BY <2>1, <2>2, SequenceOf DEF IsPath
<1> QED BY <1>3, <1>4

LEMMA FrontOf ==
    ASSUME NEW S, NEW s \in Seq(S), s # << >>
    PROVE  /\ Front(s) \in Seq(S) /\ Len(Front(s)) = Len(s) - 1
           /\ \A i \in 1..Len(s) - 1 : Front(s)[i] = s[i]
<1>1. PICK n \in Nat : n = Len(s) /\ n > 0
  OBVIOUS
<1>2. \A i \in 1..n - 1 : s[i] \in S
  BY <1>1
<1>3. /\ SubSeq(s, 1, n - 1) \in Seq(S)
      /\ Len(SubSeq(s, 1, n - 1)) = IF 1 <= n - 1 THEN n - 1 - 1 + 1 ELSE 0
      /\ \A i \in 1..n - 1 - 1 + 1 : SubSeq(s, 1, n - 1)[i] = s[1 + i - 1]
  BY <1>1, <1>2, SubSeqProperties
<1> QED BY <1>1, <1>3 DEF Front

\* No two paths have one name in the archive.
LEMMA ArchivePathsDiffer ==
    ASSUME NEW naming \in {"same", "suffix", "subdir"},
           NEW p, NEW q, IsPath(p), IsPath(q),
           ArchivePath(naming, p) = ArchivePath(naming, q)
    PROVE  p = q
<1>0. PICK S : p \in Seq(S) /\ q \in Seq(S)
  <2>1. p \in Seq(ToSet(p) \cup ToSet(q)) /\ q \in Seq(ToSet(p) \cup ToSet(q))
    BY DEF IsPath, IsSequence, ToSet
  <2> QED BY <2>1
<1>1. CASE naming = "same"
  BY <1>1 DEF ArchivePath
<1>2. CASE naming = "suffix"
  <2>1. Append(Front(p), <<Last(p), "annotated">>) = Append(Front(q), <<Last(q), "annotated">>)
    BY <1>2 DEF ArchivePath
  <2>2. PICK T : /\ p \in Seq(T) /\ q \in Seq(T) /\ p # << >> /\ q # << >>
                 /\ <<Last(p), "annotated">> \in T /\ <<Last(q), "annotated">> \in T
    <3>1. p \in Seq(S \cup {<<Last(p), "annotated">>, <<Last(q), "annotated">>})
      BY <1>0
    <3>2. q \in Seq(S \cup {<<Last(p), "annotated">>, <<Last(q), "annotated">>})
      BY <1>0
    <3> QED BY <3>1, <3>2 DEF IsPath
  <2>3. /\ Front(p) \in Seq(T) /\ Len(Front(p)) = Len(p) - 1
        /\ \A i \in 1..Len(p) - 1 : Front(p)[i] = p[i]
    BY <2>2, FrontOf
  <2>4. /\ Front(q) \in Seq(T) /\ Len(Front(q)) = Len(q) - 1
        /\ \A i \in 1..Len(q) - 1 : Front(q)[i] = q[i]
    BY <2>2, FrontOf
  <2>5. Front(p) = Front(q) /\ <<Last(p), "annotated">> = <<Last(q), "annotated">>
    <3> HIDE DEF Front, Last
    <3> QED BY <2>1, <2>2, <2>3, <2>4, AppendInjective
  <2>6. Last(p) = Last(q)
    BY <2>5
  <2>7. Len(p) = Len(q) /\ \A i \in 1..Len(p) - 1 : p[i] = q[i]
    BY <2>2, <2>3, <2>4, <2>5
  <2>8. \A i \in 1..Len(p) : p[i] = q[i]
    BY <2>2, <2>6, <2>7 DEF Last
  <2> QED BY <2>2, <2>7, <2>8
<1>3. CASE naming = "subdir"
  <2>1. PICK T : /\ p \in Seq(T) /\ q \in Seq(T) /\ <<"annotated">> \in Seq(T)
    <3>1. p \in Seq(S \cup {"annotated"}) /\ q \in Seq(S \cup {"annotated"})
      BY <1>0
    <3>2. <<"annotated">> \in Seq(S \cup {"annotated"})
      OBVIOUS
    <3> QED BY <3>1, <3>2
  <2>2. <<"annotated">> \o p = <<"annotated">> \o q
    BY <1>3 DEF ArchivePath
  <2> QED BY <2>1, <2>2, ConcatSimplifications
<1> QED BY <1>1, <1>2, <1>3

------------------------------------------------------------------------------
(* The records, the directory and the archive.                              *)

PathsIn(s) == IsSequence(s) /\ \A i \in DOMAIN s : IsPath(s[i])

\* The records have relative paths.
RecordsInvariant ==
    /\ request \in Requests /\ upload \in Nat \ {0}
    /\ IsSequence(sources) /\ \A i \in DOMAIN sources : IsPath(sources[i].path)
    /\ PathsIn(records)

\* The log does not run ahead of the records, and stops short of them only
\* when the batch was cancelled.
CountInvariant ==
    /\ pc \in {"file", "processing", "written", "report", "summary", "package"} =>
          Len(label) + (IF pc \in {"processing", "written", "report"} THEN 1 ELSE 0)
              <= Len(records)
    /\ pc \in {"summary", "package"} => (Len(label) < Len(records) => token)

\* The records whose text is in the directory.
Done == {i \in DOMAIN label : label[i] \in Succeeded} \cup (IF pc = "report" THEN {pos} ELSE {})

\* The records whose text could not be written.
Spoilt == {i \in DOMAIN label : label[i] = "write_failed"}

\* The directory holds a file for every success, and under every path what the
\* last record of that path has written.
OutputInvariant ==
    /\ \A i \in Done : records[i] \in DOMAIN output /\ output[records[i]] >= i
    /\ \A p \in DOMAIN output : output[p] \in Done \cup Spoilt /\ records[output[p]] = p

LEMMA ConcatenatedPaths ==
    ASSUME NEW s, NEW t, PathsIn(s), PathsIn(t)
    PROVE  PathsIn(s \o t)
BY Concatenation DEF PathsIn

LEMMA CollectedPaths ==
    ASSUME NEW u, PathsIn(u.members)
    PROVE  PathsIn(Collected(u))
<1>1. ASSUME NEW i \in DOMAIN u.members PROVE IsPath(<<u.stem>> \o u.members[i])
  <2>1. PICK m : m = u.members[i] /\ IsPath(m)
    BY <1>1 DEF PathsIn
  <2>2. IsSequence(<<u.stem>>) /\ Len(<<u.stem>>) = 1
    <3>1. <<u.stem>> \in Seq({u.stem})
      OBVIOUS
    <3> QED BY <3>1, SequenceOf
  <2>3. IsSequence(<<u.stem>> \o m) /\ Len(<<u.stem>> \o m) = 1 + Len(m) /\ Len(m) \in Nat
    BY <2>1, <2>2, Concatenation, SequenceOf DEF IsPath, IsSequence
  <2>4. <<u.stem>> \o m # << >>
    BY <2>3
  <2> QED BY <2>1, <2>3, <2>4 DEF IsPath
<1>2. PICK n \in Nat : DOMAIN u.members = 1..n
  BY DEF PathsIn, IsSequence
<1>3. PICK T : \A i \in DOMAIN u.members : <<u.stem>> \o u.members[i] \in T
  <2>1. \A i \in DOMAIN u.members :
            <<u.stem>> \o u.members[i] \in {<<u.stem>> \o u.members[j] : j \in DOMAIN u.members}
    OBVIOUS
  <2> QED BY <2>1
<1>4. IsSequence(Collected(u))
  <2>1. Collected(u) \in [1..n -> T]
    BY <1>2, <1>3 DEF Collected
  <2>2. Collected(u) \in Seq(T)
    BY <2>1
  <2> QED BY <2>2, SequenceOf
<1> QED BY <1>1, <1>4 DEF PathsIn, Collected

LEMMA SourcePaths ==
    ASSUME RecordsInvariant
    PROVE  PathsIn(SourceRecords)
<1> DEFINE paths == [i \in DOMAIN sources |-> sources[i].path]
<1>1. PICK n \in Nat : DOMAIN sources = 1..n
  BY DEF RecordsInvariant, IsSequence
<1>2. IsSequence(paths) /\ DOMAIN paths = 1..n
  <2>1. paths \in Seq({sources[i].path : i \in DOMAIN sources})
    BY <1>1
  <2>2. DOMAIN paths = 1..n
    BY <1>1
  <2> HIDE DEF paths
  <2> QED BY <2>1, <2>2, SequenceOf
<1>3. \A i \in DOMAIN paths : IsPath(paths[i])
  BY DEF RecordsInvariant
<1>4. ASSUME NEW i \in DOMAIN sources PROVE IsPath(RelativePath(paths, sources[i].path))
  <2>1. paths[i] = sources[i].path /\ IsPath(sources[i].path)
    BY DEF RecordsInvariant
  <2>2. paths # << >>
    BY <1>1, <1>2
  <2> HIDE DEF paths
  <2> QED BY <1>2, <1>3, <2>1, <2>2, RelativeIsPath
<1>5. SourceRecords = [i \in DOMAIN sources |-> RelativePath(paths, sources[i].path)]
  BY DEF SourceRecords
<1> HIDE DEF paths
<1>6. SourceRecords \in Seq({RelativePath(paths, sources[i].path) : i \in DOMAIN sources})
  BY <1>1, <1>5
<1>7. IsSequence(SourceRecords)
  BY <1>6, SequenceOf
<1> QED BY <1>4, <1>5, <1>7 DEF PathsIn

LEMMA ExpandKeepsRecords ==
    ASSUME RecordsInvariant, Expand
    PROVE  RecordsInvariant'
<1>1. PICK u : u = Uploads[upload]
  OBVIOUS
<1>2. /\ upload' = upload + 1 /\ request' = request
      /\ records' = IF u.kind = "zip" THEN records \o Collected(u) ELSE records
      /\ sources' = IF u.kind = "source" THEN Append(sources, u) ELSE sources
  BY <1>1 DEF Expand
<1>3. upload \in DOMAIN request.uploads
  BY UploadsHavePaths DEF RecordsInvariant, Expand, Uploads, IsSequence
<1>4. /\ u.kind = "source" => IsPath(u.path)
      /\ u.kind = "zip" => PathsIn(u.members)
  BY <1>1, <1>3, UploadsHavePaths DEF RecordsInvariant, Uploads, PathsIn
<1>5. PathsIn(records')
  BY <1>2, <1>4, CollectedPaths, ConcatenatedPaths DEF RecordsInvariant
<1>6. CASE u.kind = "source"
  <2>1. PICK S : sources \in Seq(S) /\ u \in S
    <3>1. sources \in Seq(ToSet(sources) \cup {u})
      BY DEF RecordsInvariant, IsSequence
    <3> QED BY <3>1
  <2>2. /\ sources' \in Seq(S) /\ Len(sources') = Len(sources) + 1
        /\ \A i \in 1..Len(sources) : sources'[i] = sources[i]
        /\ sources'[Len(sources) + 1] = u
    BY <1>2, <1>6, <2>1
  <2>3. \A i \in DOMAIN sources' : IsPath(sources'[i].path)
    BY <1>4, <1>6, <2>1, <2>2 DEF RecordsInvariant
  <2>4. IsSequence(sources')
    BY <2>2, SequenceOf
  <2> QED BY <1>2, <1>5, <2>3, <2>4 DEF RecordsInvariant
<1>7. CASE u.kind # "source"
  BY <1>2, <1>5, <1>7 DEF RecordsInvariant
<1> QED BY <1>6, <1>7

LEMMA LoopKeepsRecords ==
    ASSUME RecordsInvariant, BeginLoop
    PROVE  RecordsInvariant'
<1>1. records' = records \o SourceRecords /\ UNCHANGED <<request, upload, sources>>
  BY DEF BeginLoop
<1>2. PathsIn(records')
  BY <1>1, SourcePaths, ConcatenatedPaths DEF RecordsInvariant
<1> QED BY <1>1, <1>2 DEF RecordsInvariant

\* Every other step leaves the records alone.
LEMMA RecordsStep ==
    RecordsInvariant /\ [BatchNext]_batchAllVars => RecordsInvariant'
<1> SUFFICES ASSUME RecordsInvariant, [BatchNext]_batchAllVars PROVE RecordsInvariant'
  OBVIOUS
<1>1. ASSUME UNCHANGED <<request, upload, sources, records>> PROVE RecordsInvariant'
  BY <1>1 DEF RecordsInvariant
<1>2. CASE Expand
  BY <1>2, ExpandKeepsRecords
<1>3. CASE BeginLoop
  BY <1>3, LoopKeepsRecords
<1>4. CASE StartFails \/ ResumeExpansion \/ CopyFails \/ BeginFile \/ OpenFails \/ Summarize
           \/ Leave \/ Cancel
  BY <1>1, <1>4 DEF StartFails, ResumeExpansion, CopyFails, BeginFile, OpenFails, Summarize,
                    Leave, Cancel
<1>5. CASE OtherSession \/ UNCHANGED batchAllVars
  BY <1>1, <1>5 DEF OtherSession, batchAllVars, batchVars
<1>6. CASE Start
  BY <1>1, <1>6 DEF Start
<1>7. CASE ReadFails \/ Classify \/ Report
  BY <1>1, <1>7 DEF ReadFails, Classify, Report
<1>8. ASSUME NEW r \in {"raises", "raises_between", "no_text", "annotated",
                        "annotated_with_failures"}, ProcessFile(r)
      PROVE  RecordsInvariant'
  BY <1>1, <1>8 DEF ProcessFile
<1>9. ASSUME NEW works \in BOOLEAN, PackageResults(works) PROVE RecordsInvariant'
  BY <1>1, <1>9 DEF PackageResults
<1> QED BY <1>2, <1>3, <1>4, <1>5, <1>6, <1>7, <1>8, <1>9 DEF BatchNext

\* The counters: a step that goes on, one that ends the batch, one that reports.
LEMMA CountStep ==
    LogInvariant /\ RecordsInvariant /\ CountInvariant /\ [BatchNext]_batchAllVars
        => CountInvariant'
<1> SUFFICES ASSUME LogInvariant, RecordsInvariant, CountInvariant, [BatchNext]_batchAllVars
             PROVE  CountInvariant'
  OBVIOUS
<1>0. Len(label) \in Nat /\ Len(records) \in Nat
  BY SequenceOf DEF LogInvariant, RecordsInvariant, PathsIn, IsSequence
<1>1. ASSUME pc' \in {"start", "expand", "expanded", "ended"} PROVE CountInvariant'
  BY <1>1 DEF CountInvariant
<1>2. ASSUME UNCHANGED <<pc, label, records>>, token' = token \/ token' PROVE CountInvariant'
  BY <1>2 DEF CountInvariant
<1>3. ASSUME NEW l, NextFile(l), records' = records, pc \in {"processing", "written", "report"},
             l \in Labels
      PROVE  CountInvariant'
  <2>1. Len(label') = Len(label) + 1 /\ pc' = "file"
    BY <1>3, LogGrows DEF LogInvariant, NextFile
  <2> QED BY <1>0, <1>3, <2>1 DEF CountInvariant
<1>4. ASSUME UNCHANGED <<label, records>>, pc \in {"processing", "written"},
             pc' \in {"written", "report"}
      PROVE  CountInvariant'
  BY <1>4 DEF CountInvariant
<1>5. CASE Start \/ StartFails \/ Expand \/ ResumeExpansion \/ CopyFails \/ OpenFails \/ Leave
  BY <1>1, <1>5 DEF Start, StartFails, Expand, ResumeExpansion, CopyFails, OpenFails, Leave, End
<1>6. CASE BeginLoop
  <2>1. CASE pc' = "ended"
    BY <1>1, <2>1
  <2>2. CASE pc' # "ended"
    <3>1. pc' = "file" /\ label' = << >>
      BY <1>6, <2>2 DEF BeginLoop, LogInvariant, End
    <3>2. Len(records') \in Nat
      BY <1>6, LoopKeepsRecords, SequenceOf DEF RecordsInvariant, PathsIn, IsSequence
    <3> QED BY <3>1, <3>2 DEF CountInvariant
  <2> QED BY <2>1, <2>2
<1>7. CASE BeginFile
  <2>1. UNCHANGED <<label, records, token>> /\ pc = "file" /\ pos = Len(label) + 1
    BY <1>7 DEF BeginFile, LogInvariant
  <2>2. \/ pc' = "summary" /\ (pos > Len(records) \/ token)
        \/ pc' = "processing" /\ ~(pos > Len(records))
    BY <1>7 DEF BeginFile
  <2> QED BY <1>0, <2>1, <2>2 DEF CountInvariant
<1>8. CASE Summarize
  BY <1>8 DEF Summarize, CountInvariant
<1>9. CASE Cancel
  BY <1>2, <1>9 DEF Cancel
<1>10. CASE OtherSession \/ UNCHANGED batchAllVars
  BY <1>2, <1>10 DEF OtherSession, batchAllVars, batchVars
<1>11. CASE ReadFails
  BY <1>3, <1>11 DEF ReadFails, Labels
<1>12. CASE Classify
  BY <1>3, <1>4, <1>12 DEF Classify, Labels
<1>13. CASE Report
  <2>1. result \in Succeeded /\ "cancelled" \in Succeeded
    BY <1>13 DEF Report, LogInvariant, Succeeded
  <2> QED BY <1>3, <1>13, <2>1 DEF Report, Labels
<1>14. ASSUME NEW r \in {"raises", "raises_between", "no_text", "annotated",
                        "annotated_with_failures"}, ProcessFile(r)
      PROVE  CountInvariant'
  BY <1>3, <1>4, <1>14 DEF ProcessFile, Labels
<1>15. ASSUME NEW works \in BOOLEAN, PackageResults(works) PROVE CountInvariant'
  BY <1>1, <1>15 DEF PackageResults
<1> QED BY <1>5, <1>6, <1>7, <1>8, <1>9, <1>10, <1>11, <1>12, <1>13, <1>14, <1>15 DEF BatchNext

\* The record at hand writes its file, whole or in part.
LEMMA StoreKeepsOutput ==
    ASSUME OutputInvariant, output' = Stored(records[pos], pos), UNCHANGED records,
           pos \in Nat, \A i \in Done : i \in Nat /\ i <= pos,
           Done \subseteq Done', Done' \subseteq Done \cup {pos}, Spoilt \subseteq Spoilt',
           pos \in Done' \cup Spoilt'
    PROVE  OutputInvariant'
<1>1. /\ DOMAIN output' = {records[pos]} \cup DOMAIN output
      /\ output'[records[pos]] = pos
      /\ \A p \in DOMAIN output : p # records[pos] => output'[p] = output[p]
  BY DEF Stored
<1> HIDE DEF Done, Spoilt
<1>2. ASSUME NEW i \in Done' PROVE records'[i] \in DOMAIN output' /\ output'[records'[i]] >= i
  <2>1. CASE records[i] = records[pos]
    BY <1>1, <2>1
  <2>2. CASE records[i] # records[pos]
    <3>1. i \in Done
      BY <2>2
    <3> QED BY <1>1, <2>2, <3>1 DEF OutputInvariant
  <2> QED BY <2>1, <2>2
<1>3. ASSUME NEW p \in DOMAIN output'
      PROVE  output'[p] \in Done' \cup Spoilt' /\ records'[output'[p]] = p
  <2>1. CASE p = records[pos]
    BY <1>1, <2>1
  <2>2. CASE p # records[pos]
    BY <1>1, <2>2 DEF OutputInvariant
  <2> QED BY <2>1, <2>2
<1> QED BY <1>2, <1>3 DEF OutputInvariant

LEMMA OutputStep ==
    LogInvariant /\ OutputInvariant /\ [BatchNext]_batchAllVars => OutputInvariant'
<1> SUFFICES ASSUME LogInvariant, OutputInvariant, [BatchNext]_batchAllVars
             PROVE  OutputInvariant'
  OBVIOUS
<1>1. ASSUME UNCHANGED <<output, records>>, Done' = Done, Spoilt \subseteq Spoilt'
      PROVE  OutputInvariant'
  <2> HIDE DEF Done, Spoilt
  <2> QED BY <1>1 DEF OutputInvariant
<1>2. ASSUME UNCHANGED <<output, records, label>>, pc # "report", pc' # "report"
      PROVE  OutputInvariant'
  BY <1>1, <1>2 DEF Done, Spoilt
<1>3. ASSUME UNCHANGED <<output, records, label, pos, pc>> PROVE OutputInvariant'
  BY <1>1, <1>3 DEF Done, Spoilt
<1>4. ASSUME UNCHANGED <<output, label>>, pc \in {"start", "expand", "expanded"}, pc' # "report"
      PROVE  OutputInvariant'
  <2>1. label = << >> /\ output = << >>
    BY <1>4 DEF LogInvariant
  <2>2. Done' = {} /\ DOMAIN output' = {}
    BY <1>4, <2>1 DEF Done
  <2> HIDE DEF Done
  <2> QED BY <2>2 DEF OutputInvariant
<1>0. ASSUME NEW l \in Labels, NextFile(l)
      PROVE  /\ DOMAIN label = 1..Len(label) /\ DOMAIN label' = 1..Len(label) + 1
             /\ Len(label) \in Nat /\ pc' = "file" /\ pos = Len(label) + 1
             /\ \A i \in DOMAIN label : label'[i] = label[i]
             /\ label'[Len(label) + 1] = l
             /\ Spoilt \subseteq Spoilt'
  <2>1. /\ DOMAIN label = 1..Len(label) /\ DOMAIN label' = 1..Len(label) + 1
        /\ Len(label) \in Nat /\ pc' = "file" /\ pos = Len(label) + 1
        /\ \A i \in DOMAIN label : label'[i] = label[i]
        /\ label'[Len(label) + 1] = l
    BY <1>0, LogGrows DEF LogInvariant, NextFile
  <2> QED BY <2>1 DEF Spoilt
<1>5. ASSUME NEW l \in Labels, l \notin Succeeded, NextFile(l), UNCHANGED <<output, records>>,
             pc # "report"
      PROVE  OutputInvariant'
  <2>1. /\ DOMAIN label = 1..Len(label) /\ DOMAIN label' = 1..Len(label) + 1
        /\ Len(label) \in Nat /\ pc' = "file"
        /\ \A i \in DOMAIN label : label'[i] = label[i]
        /\ label'[Len(label) + 1] = l
        /\ Spoilt \subseteq Spoilt'
    BY <1>0, <1>5
  <2>2. Done' = Done
    BY <1>5, <2>1 DEF Done
  <2> QED BY <1>1, <1>5, <2>1, <2>2
<1>6. CASE Start \/ StartFails \/ Expand \/ ResumeExpansion \/ CopyFails \/ BeginLoop
  BY <1>4, <1>6 DEF Start, StartFails, Expand, ResumeExpansion, CopyFails, BeginLoop, End,
                    Uploads
<1>7. CASE BeginFile \/ OpenFails \/ Summarize \/ Leave
  BY <1>2, <1>7 DEF BeginFile, OpenFails, Summarize, Leave, End, LogInvariant
<1>8. CASE Cancel \/ OtherSession \/ UNCHANGED batchAllVars
  BY <1>3, <1>8 DEF Cancel, OtherSession, batchAllVars, batchVars
<1>9. CASE ReadFails
  BY <1>5, <1>9 DEF ReadFails, Labels, Succeeded
<1>10. CASE Classify
  <2>1. pc = "written" /\ UNCHANGED records
    BY <1>10 DEF Classify
  <2>2. CASE \E l \in {"failed", "write_failed"} : NextFile(l) /\ output' = output
    BY <1>5, <2>1, <2>2 DEF Labels, Succeeded
  <2>3. pos \in Nat /\ \A i \in Done : i \in Nat /\ i <= pos
    BY <2>1 DEF Done, LogInvariant
  <2>4. CASE NextFile("write_failed") /\ output' = Stored(records[pos], pos)
    <3>1. "write_failed" \in Labels /\ "write_failed" \notin Succeeded
      BY DEF Labels, Succeeded
    <3>2. /\ DOMAIN label = 1..Len(label) /\ DOMAIN label' = 1..Len(label) + 1
          /\ Len(label) \in Nat /\ pc' = "file" /\ pos = Len(label) + 1
          /\ \A i \in DOMAIN label : label'[i] = label[i]
          /\ label'[Len(label) + 1] = "write_failed"
          /\ Spoilt \subseteq Spoilt'
      BY <1>0, <2>4, <3>1
    <3>3. Done' = Done
      BY <2>1, <3>1, <3>2 DEF Done
    <3>4. pos \in Spoilt'
      BY <3>2 DEF Spoilt
    <3> HIDE DEF Done, Spoilt
    <3> QED BY <2>1, <2>3, <2>4, <3>2, <3>3, <3>4, StoreKeepsOutput
  <2>5. CASE pc' = "report" /\ UNCHANGED <<label, pos>> /\ output' = Stored(records[pos], pos)
    <3>1. Done' = Done \cup {pos} /\ Spoilt' = Spoilt
      BY <2>1, <2>5 DEF Done, Spoilt
    <3> HIDE DEF Done, Spoilt
    <3> QED BY <2>1, <2>3, <2>5, <3>1, StoreKeepsOutput
  <2> QED BY <1>10, <2>2, <2>4, <2>5 DEF Classify
<1>11. CASE Report
  <2>1. PICK l \in Succeeded : NextFile(l)
    <3>1. result \in Succeeded /\ "cancelled" \in Succeeded
      BY <1>11 DEF Report, LogInvariant, Succeeded
    <3> QED BY <1>11, <3>1 DEF Report
  <2>2. /\ DOMAIN label = 1..Len(label) /\ DOMAIN label' = 1..Len(label) + 1
        /\ Len(label) \in Nat /\ pc' = "file" /\ pos = Len(label) + 1
        /\ \A i \in DOMAIN label : label'[i] = label[i]
        /\ label'[Len(label) + 1] = l
        /\ Spoilt \subseteq Spoilt'
    <3>1. l \in Labels
      BY DEF Labels
    <3> QED BY <1>0, <2>1, <3>1
  <2>3. Done' = Done
    BY <1>11, <2>2 DEF Done, Report
  <2> QED BY <1>1, <1>11, <2>2, <2>3 DEF Report
<1>12. ASSUME NEW r \in {"raises", "raises_between", "no_text", "annotated",
                        "annotated_with_failures"}, ProcessFile(r)
      PROVE  OutputInvariant'
  <2>1. CASE NextFile("processing_failed")
    BY <1>5, <1>12, <2>1 DEF ProcessFile, Labels, Succeeded
  <2>2. CASE ~NextFile("processing_failed")
    <3>1. /\ pc = "processing" /\ pc' = "written"
          /\ UNCHANGED <<output, records, label>>
      BY <1>12, <2>2 DEF ProcessFile
    <3> QED BY <1>2, <3>1
  <2> QED BY <2>1, <2>2
<1>13. ASSUME NEW works \in BOOLEAN, PackageResults(works) PROVE OutputInvariant'
  BY <1>2, <1>13 DEF PackageResults
<1> QED BY <1>6, <1>7, <1>8, <1>9, <1>10, <1>11, <1>12, <1>13 DEF BatchNext

\* What the package takes from the directory, path by path.
LEMMA PackageIsDone ==
    ASSUME LogInvariant, RecordsInvariant, CountInvariant, OutputInvariant,
           NEW works \in BOOLEAN, PackageResults(works)
    PROVE  ArchiveHoldsSuccesses'
<1> SUFFICES ASSUME archive' # None PROVE ArchiveHoldsSuccesses'
  BY DEF ArchiveHoldsSuccesses
<1> DEFINE path(i) == ArchivePath(request.naming, records[i])
           inside(p) == CHOOSE rel \in DOMAIN output : ArchivePath(request.naming, rel) = p
<1>1. /\ pc = "package" /\ UNCHANGED <<request, token, records, label, output>>
      /\ archive' = [p \in {ArchivePath(request.naming, rel) : rel \in DOMAIN output} |->
                        output[inside(p)]]
  BY DEF PackageResults
<1>2. Done = {i \in DOMAIN label : label[i] \in Succeeded}
  BY <1>1 DEF Done
<1>3. Len(label) < Len(records) => token
  BY <1>1 DEF CountInvariant
<1>4. \A i \in Done \cup Spoilt : IsPath(records[i]) /\ i \in Nat
  <2>1. Len(label) <= Len(records) /\ Len(label) \in Nat /\ DOMAIN label = 1..Len(label)
    BY <1>1, SequenceOf DEF CountInvariant, LogInvariant
  <2>2. Len(records) \in Nat /\ DOMAIN records = 1..Len(records)
    BY DEF RecordsInvariant, PathsIn, IsSequence
  <2> QED BY <1>2, <2>1, <2>2 DEF RecordsInvariant, PathsIn, Spoilt
<1>5. request.naming \in {"same", "suffix", "subdir"}
  BY RequestsAreValid DEF RecordsInvariant
<1> HIDE DEF Done, Spoilt
<1>6. ASSUME NEW rel \in DOMAIN output
      PROVE  /\ ArchivePath(request.naming, rel) \in DOMAIN archive'
             /\ archive'[ArchivePath(request.naming, rel)] = output[rel]
             /\ output[rel] \in Done \cup Spoilt /\ records[output[rel]] = rel
  <2>1. PICK p : p = ArchivePath(request.naming, rel)
    OBVIOUS
  <2>2. inside(p) \in DOMAIN output /\ ArchivePath(request.naming, inside(p)) = p
    BY <2>1
  <2>3. \A r \in DOMAIN output : /\ output[r] \in Done \cup Spoilt
                                 /\ records[output[r]] = r /\ IsPath(r)
    BY <1>4 DEF OutputInvariant
  <2>4. inside(p) = rel
    <3> HIDE DEF inside
    <3> QED BY <1>5, <2>1, <2>2, <2>3, ArchivePathsDiffer
  <2>5. p \in {ArchivePath(request.naming, r) : r \in DOMAIN output}
    BY <2>1
  <2>6. p \in DOMAIN archive' /\ archive'[p] = output[inside(p)]
    <3> HIDE DEF path, inside
    <3> QED BY <1>1, <2>5
  <2> HIDE DEF inside
  <2> QED BY <2>1, <2>3, <2>4, <2>6
<1>7. ASSUME NEW i \in Done PROVE path(i) \in DOMAIN archive' /\ archive'[path(i)] >= i
  <2>1. records[i] \in DOMAIN output /\ output[records[i]] >= i
    BY DEF OutputInvariant
  <2> QED BY <1>6, <2>1
<1>8. ASSUME NEW p \in DOMAIN archive'
      PROVE  archive'[p] \in Done \cup Spoilt /\ path(archive'[p]) = p
  <2>1. PICK rel \in DOMAIN output : p = ArchivePath(request.naming, rel)
    <3> HIDE DEF path, inside
    <3> QED BY <1>1
  <2> QED BY <1>6, <2>1
<1>9. UNCHANGED <<request, token, records, label>>
  BY <1>1
<1>10. Spoilt = {i \in DOMAIN label : label[i] = "write_failed"}
  BY DEF Spoilt
<1> HIDE DEF inside
<1> QED BY <1>2, <1>3, <1>7, <1>8, <1>9, <1>10 DEF ArchiveHoldsSuccesses

LEMMA ArchiveStep ==
    LogInvariant /\ RecordsInvariant /\ CountInvariant /\ OutputInvariant
        /\ ArchiveHoldsSuccesses /\ [BatchNext]_batchAllVars
        => ArchiveHoldsSuccesses'
<1> SUFFICES ASSUME LogInvariant, RecordsInvariant, CountInvariant, OutputInvariant,
                    ArchiveHoldsSuccesses, [BatchNext]_batchAllVars
             PROVE  ArchiveHoldsSuccesses'
  OBVIOUS
<1>1. CASE \E works \in BOOLEAN : PackageResults(works)
  BY <1>1, PackageIsDone
<1>2. ASSUME pc # "ended", archive' = archive PROVE ArchiveHoldsSuccesses'
  BY <1>2 DEF LogInvariant, ArchiveHoldsSuccesses
<1>3. CASE UNCHANGED batchAllVars
  BY <1>3 DEF batchAllVars, batchVars, ArchiveHoldsSuccesses
<1>4. CASE Start \/ StartFails \/ Expand \/ ResumeExpansion \/ CopyFails \/ BeginLoop
           \/ BeginFile \/ OpenFails \/ Summarize \/ Leave \/ Cancel
  BY <1>2, <1>4 DEF Start, StartFails, Expand, ResumeExpansion, CopyFails, BeginLoop, BeginFile,
                    OpenFails, Summarize, Leave, Cancel, LogInvariant
<1>5. CASE OtherSession
  BY <1>2, <1>5 DEF OtherSession, batchVars
<1>6. CASE ReadFails \/ Classify \/ Report
  BY <1>2, <1>6 DEF ReadFails, Classify, Report
<1>7. ASSUME NEW r \in {"raises", "raises_between", "no_text", "annotated",
                        "annotated_with_failures"}, ProcessFile(r)
      PROVE  ArchiveHoldsSuccesses'
  BY <1>2, <1>7 DEF ProcessFile
<1> QED BY <1>1, <1>3, <1>4, <1>5, <1>6, <1>7 DEF BatchNext

LEMMA ArchiveStart ==
    BatchInit => RecordsInvariant /\ CountInvariant /\ OutputInvariant /\ ArchiveHoldsSuccesses
<1> SUFFICES ASSUME BatchInit
             PROVE  RecordsInvariant /\ CountInvariant /\ OutputInvariant
                        /\ ArchiveHoldsSuccesses
  OBVIOUS
<1>1. << >> \in Seq({})
  OBVIOUS
<1>2. RecordsInvariant
  <2>1. IsSequence(<< >>)
    BY <1>1, SequenceOf
  <2>2. \A i \in DOMAIN << >> : FALSE
    OBVIOUS
  <2> QED BY <2>1, <2>2 DEF BatchInit, RecordsInvariant, PathsIn
<1>3. Done = {} /\ DOMAIN output = {}
  BY DEF BatchInit, Done
<1>4. OutputInvariant
  <2> HIDE DEF Done
  <2> QED BY <1>3 DEF OutputInvariant
<1> QED BY <1>2, <1>4 DEF BatchInit, CountInvariant, ArchiveHoldsSuccesses

(* The archive of a batch has a file under the path of every record the log  *)
(* counts as successful, written by it or by a later record of that path,    *)
(* and nothing else but what failed writes have left, for any uploads,       *)
(* paths, outcomes and moment of cancellation; it is short of records only   *)
(* when the batch was cancelled (processor.py process_batch_with_progress,   *)
(* _build_batch_zip).                                                        *)
THEOREM ArchiveHoldsWhatSucceeded == BatchSpec => []ArchiveHoldsSuccesses
<1> DEFINE Inv == LogInvariant /\ FilesInvariant /\ RecordsInvariant /\ CountInvariant
                  /\ OutputInvariant /\ ArchiveHoldsSuccesses
<1>1. BatchInit => Inv
  BY FilesStart, ArchiveStart
<1>2. Inv /\ [BatchNext]_batchAllVars => Inv'
  BY FilesStep, RecordsStep, CountStep, OutputStep, ArchiveStep
<1>3. Inv => ArchiveHoldsSuccesses
  OBVIOUS
<1> HIDE DEF Inv
<1> QED BY <1>1, <1>2, <1>3, PTL DEF BatchSpec
=============================================================================
