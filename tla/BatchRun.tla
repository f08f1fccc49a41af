------------------------------ MODULE BatchRun ------------------------------
(***************************************************************************)
(* A batch of uploads, process_batch_with_progress and process_batch_files: *)
(* expansion of the uploads, the loop over the source files, packaging and  *)
(* clean-up, while the user may cancel or leave and other sessions change   *)
(* the provider settings.                                                   *)
(*                                                                          *)
(* An upload is [kind, path, stem, members]; kind is "source", "zip" or why *)
(* it is skipped.  A path is a sequence of parts, the root first.  Members  *)
(* are the relative paths of an archive's source files, sorted.             *)
(***************************************************************************)
EXTENDS ProviderConfig, SequencesExt, FiniteSetsExt, Functions, TLC

CONSTANTS
    Requests,     \* bound: [streaming, naming, uploads]
    MaxFiles      \* RUNTIME_LIMITS.batch_file_count

Skipped == {"invalid", "oversize", "unsupported"}
Broken == {"bad_zip", "rejected_zip", "unreadable_zip"}

\* A sequence of whatever its elements are; a path has a part at least.
IsSequence(s) == s \in Seq(ToSet(s))
IsPath(path) == IsSequence(path) /\ path # << >>

ASSUME RequestsAreValid ==
    \A r \in Requests :
        /\ r.streaming \in BOOLEAN
        /\ r.naming \in {"same", "suffix", "subdir"}
        /\ \A i \in DOMAIN r.uploads :
               r.uploads[i].kind \in Skipped \cup Broken \cup {"source", "zip"}

\* Uploads and members have names, so no path is empty.
ASSUME UploadsHavePaths ==
    \A r \in Requests :
        /\ IsSequence(r.uploads)
        /\ \A i \in DOMAIN r.uploads :
               LET u == r.uploads[i]
               IN  /\ u.kind = "source" => IsPath(u.path)
                   /\ u.kind = "zip" => /\ IsSequence(u.members)
                                        /\ \A k \in DOMAIN u.members : IsPath(u.members[k])

VARIABLES
    request,     \* the arguments of the call
    token,       \* whether the CancelToken is set
    pc,          \* where the function is
    suspended,   \* the generator has handed out a frame and waits to be resumed
    upload,      \* the next upload
    sources,     \* nonzip_sources
    records,     \* file_records: the relative paths
    pos,         \* the record being processed
    result,      \* what process_code gave for it
    label,       \* per record, how the log reports it
    output,      \* the files under out/: relative path -> the record that wrote them last
    temp,        \* temporary files and directories
    provider,    \* task_provider
    asked,       \* the provider each processed record was given
    archive      \* the ZIP that is returned: archive path -> record

batchVars == <<request, token, pc, suspended, upload, sources, records, pos, result, label,
               output, temp, provider, asked, archive>>
batchAllVars == <<batchVars, configVars>>

Streaming == request.streaming
Uploads == request.uploads
Succeeded == {"succeeded", "partial", "cancelled"}
Count(S) == Cardinality({i \in DOMAIN label : label[i] \in S})

Directory == <<"dir">>
Markdown(i) == <<"md", i>>
Annotated(i) == <<"src", i>>
Package == <<"zip">>

BatchInit ==
    /\ ConfigInit
    /\ request \in Requests
    /\ token = FALSE
    /\ pc = "start"
    /\ suspended = FALSE
    /\ upload = 1
    /\ sources = << >>
    /\ records = << >>
    /\ pos = 1
    /\ result = None
    /\ label = << >>
    /\ output = << >>
    /\ temp = {}
    /\ provider = None
    /\ asked = << >>
    /\ archive = None

------------------------------------------------------------------------------
(* Relative paths.                                                          *)

\* How many parts all the paths share from the root on.
SharedParts(paths) ==
    LET shortest == Min({Len(p) : p \in paths})
        shared(n) == \A p, q \in paths : SubSeq(p, 1, n) = SubSeq(q, 1, n)
    IN  Max({n \in 0..shortest : shared(n)})

\* The common parent, one level up to keep the sources' own folder.
CommonParts(all) ==
    LET paths == ToSet(all)
        shared == SharedParts(paths)
        shortest == Min({Len(p) : p \in paths})
        dirs == IF shared = shortest /\ Len(all) > 1 THEN Max({0, shared - 1}) ELSE shared
    IN  IF dirs > 1 THEN dirs - 1 ELSE dirs

\* Below the root itself, or without a common parent, only the name is left:
\* no path starts with the root and one more separator.
RelativePath(all, path) ==
    LET common == CommonParts(all)
    IN  IF common > 1 /\ Len(path) > common THEN SubSeq(path, common + 1, Len(path))
        ELSE <<Last(path)>>

SourceRecords ==
    LET paths == [i \in DOMAIN sources |-> sources[i].path]
    IN  [i \in DOMAIN sources |-> RelativePath(paths, sources[i].path)]

ArchivePath(naming, rel) ==
    CASE naming = "same" -> rel
      [] naming = "suffix" -> Append(Front(rel), <<Last(rel), "annotated">>)
      [] naming = "subdir" -> <<"annotated">> \o rel

------------------------------------------------------------------------------
(* Up to the loop.                                                          *)

\* `finally` removes the directory; what lies outside it stays.
End ==
    /\ pc' = "ended"
    /\ suspended' = FALSE
    /\ temp' = temp \ {Directory}

Start ==
    /\ pc = "start"
    /\ provider' = ActiveProvider
    /\ BuildIfNeeded
    /\ IF Uploads = << >> \/ Len(Uploads) > MaxFiles
       THEN End
       ELSE /\ pc' = "expand"
            /\ temp' = temp \cup {Directory}
            /\ UNCHANGED suspended
    /\ UNCHANGED <<request, token, upload, sources, records, pos, result, label, output, asked,
                   archive>>

\* The provider cannot be built: get_active_llm_provider raises.
StartFails ==
    /\ pc = "start" /\ built = None
    /\ End
    /\ UNCHANGED <<request, token, upload, sources, records, pos, result, label, output,
                   provider, asked, archive, configVars>>

\* The records an archive gives, under its own name.
Collected(u) == [i \in DOMAIN u.members |-> <<u.stem>> \o u.members[i]]

\* An upload that cannot be resolved is passed over without a frame.
Expand ==
    /\ pc = "expand"
    /\ upload <= Len(Uploads)
    /\ LET u == Uploads[upload]
       IN  /\ upload' = upload + 1
           /\ records' = IF u.kind = "zip" THEN records \o Collected(u) ELSE records
           /\ sources' = IF u.kind = "source" THEN Append(sources, u) ELSE sources
           /\ suspended' = (Streaming /\ u.kind # "invalid")
           /\ pc' = IF Streaming /\ u.kind \notin {"invalid", "oversize"}
                    THEN "expanded" ELSE pc
    /\ UNCHANGED <<request, token, pos, result, label, output, temp, provider, asked, archive,
                   configVars>>

\* After the frame of an upload the token is looked at.
ResumeExpansion ==
    /\ pc = "expanded"
    /\ IF token
       THEN End
       ELSE pc' = "expand" /\ suspended' = FALSE /\ UNCHANGED temp
    /\ UNCHANGED <<request, token, upload, sources, records, pos, result, label, output,
                   provider, asked, archive, configVars>>

\* Copying an upload into the directory fails: nothing handles it.
CopyFails ==
    /\ pc = "expand"
    /\ upload <= Len(Uploads) /\ Uploads[upload].kind = "source"
    /\ End
    /\ UNCHANGED <<request, token, upload, sources, records, pos, result, label, output,
                   provider, asked, archive, configVars>>

BeginLoop ==
    /\ pc = "expand"
    /\ upload > Len(Uploads)
    /\ records' = records \o SourceRecords
    /\ IF Len(records') > MaxFiles \/ records' = << >>
       THEN End
       ELSE pc' = "file" /\ suspended' = Streaming /\ UNCHANGED temp
    /\ UNCHANGED <<request, token, upload, sources, pos, result, label, output, provider, asked,
                   archive, configVars>>

------------------------------------------------------------------------------
(* One file.                                                                *)

\* Goes to the next file with this one reported as l.
NextFile(l) ==
    /\ label' = Append(label, l)
    /\ pos' = pos + 1
    /\ pc' = "file"
    /\ suspended' = Streaming

\* The token ends the loop, but only in front of a file.
BeginFile ==
    /\ pc = "file"
    /\ pc' = IF pos > Len(records) \/ (Streaming /\ token) THEN "summary" ELSE "processing"
    /\ suspended' = FALSE
    /\ UNCHANGED <<request, token, upload, sources, records, pos, result, label, output, temp,
                   provider, asked, archive, configVars>>

ReadFails ==
    /\ pc = "processing"
    /\ NextFile("read_failed")
    /\ UNCHANGED <<request, token, upload, sources, records, result, output, temp, provider,
                   asked, archive, configVars>>

\* Only the generator version handles a file it cannot open.
OpenFails ==
    /\ pc = "processing"
    /\ ~Streaming
    /\ End
    /\ UNCHANGED <<request, token, upload, sources, records, pos, result, label, output,
                   provider, asked, archive, configVars>>

\* Fault: each file asks for the provider that is active when it is processed.
ActiveNow == ActiveProvider

ProviderOfFile == provider

\* process_code: no text, a text with or without failed symbols, or an
\* exception, which can come between its two temporary files.
ProcessFile(r) ==
    /\ pc = "processing"
    /\ asked' = Append(asked, ProviderOfFile)
    /\ CASE r = "raises" ->
              NextFile("processing_failed") /\ UNCHANGED <<result, temp>>
         [] r = "raises_between" ->
              /\ NextFile("processing_failed")
              /\ temp' = temp \cup {Markdown(pos)}
              /\ UNCHANGED result
         [] r = "no_text" ->
              pc' = "written" /\ result' = r /\ UNCHANGED <<temp, label, pos, suspended>>
         [] r \in {"annotated", "annotated_with_failures"} ->
              /\ pc' = "written"
              /\ result' = r
              /\ temp' = temp \cup {Markdown(pos), Annotated(pos)}
              /\ UNCHANGED <<label, pos, suspended>>
    /\ UNCHANGED <<request, token, upload, sources, records, output, provider, archive,
                   configVars>>

\* Fault: only the document is removed.
DiscardMarkdown(i) == temp \ {Markdown(i)}

Discard(i) == temp \ {Markdown(i), Annotated(i)}

\* Fault: files go into the directory by name alone.
StoredByName(rel, i) == (<<Last(rel)>> :> i) @@ output

\* A file of the same relative path is overwritten.
Stored(rel, i) ==
    [path \in DOMAIN output \cup {rel} |-> IF path = rel THEN i ELSE output[path]]

\* _classify_batch_result, before the token is read again for the log.
Classified ==
    IF result = "no_text" THEN "failed"
    ELSE IF Streaming /\ token THEN "cancelled"
    ELSE IF result = "annotated_with_failures" THEN "partial" ELSE "succeeded"

\* The temporary files of a file go whatever happens to it (the frame of a
\* failed one comes first, and closing the generator there removes them too).
\* Writing the result can fail before its file is opened, which creates or
\* empties it, or after: then what was written so far stays under out/.
Classify ==
    /\ pc = "written"
    /\ temp' = Discard(pos)
    /\ \/ /\ Classified = "failed"
          /\ NextFile("failed")
          /\ UNCHANGED <<result, output>>
       \/ /\ Classified # "failed"
          /\ NextFile("write_failed")
          /\ output' \in {output, Stored(records[pos], pos)}
          /\ UNCHANGED result
       \/ /\ Classified # "failed"
          /\ output' = Stored(records[pos], pos)
          /\ result' = Classified
          /\ pc' = "report"
          /\ UNCHANGED <<label, pos, suspended>>
    /\ UNCHANGED <<request, token, upload, sources, records, provider, asked, archive,
                   configVars>>

Report ==
    /\ pc = "report"
    /\ NextFile(IF result = "partial" /\ Streaming /\ token THEN "cancelled" ELSE result)
    /\ UNCHANGED <<request, token, upload, sources, records, result, output, temp, provider,
                   asked, archive, configVars>>

------------------------------------------------------------------------------
(* After the loop.                                                          *)

Summarize ==
    /\ pc = "summary"
    /\ pc' = "package"
    /\ suspended' = Streaming
    /\ UNCHANGED <<request, token, upload, sources, records, pos, result, label, output, temp,
                   provider, asked, archive, configVars>>

\* The ZIP lies outside the directory; if it cannot be finished it is removed.
PackageResults(works) ==
    /\ pc = "package"
    /\ archive' = IF Count(Succeeded) > 0 /\ works
                  THEN [path \in {ArchivePath(request.naming, rel) : rel \in DOMAIN output} |->
                           output[CHOOSE rel \in DOMAIN output :
                                      ArchivePath(request.naming, rel) = path]]
                  ELSE None
    /\ pc' = "ended"
    /\ suspended' = FALSE
    /\ temp' = (temp \ {Directory}) \cup (IF archive' # None THEN {Package} ELSE {})
    /\ UNCHANGED <<request, token, upload, sources, records, pos, result, label, output,
                   provider, asked, configVars>>

\* The browser goes away: the generator is closed where it waits.
Leave ==
    /\ suspended
    /\ End
    /\ UNCHANGED <<request, token, upload, sources, records, pos, result, label, output,
                   provider, asked, archive, configVars>>

\* A caller sets the token at any time; the page of ui.py holds it from the
\* first frame to the second.
Cancel ==
    /\ Streaming /\ pc # "ended"
    /\ ~token
    /\ token' = TRUE
    /\ UNCHANGED <<request, pc, suspended, upload, sources, records, pos, result, label, output,
                   temp, provider, asked, archive, configVars>>

OtherSession ==
    /\ pc # "ended"
    /\ Configure \/ (built = None /\ BuildIfNeeded)
    /\ UNCHANGED batchVars

BatchNext ==
    \/ Start \/ StartFails \/ Expand \/ ResumeExpansion \/ CopyFails \/ BeginLoop
    \/ BeginFile \/ ReadFails \/ OpenFails
    \/ \E r \in {"raises", "raises_between", "no_text", "annotated", "annotated_with_failures"} :
           ProcessFile(r)
    \/ Classify \/ Report \/ Summarize
    \/ \E works \in BOOLEAN : PackageResults(works)
    \/ Leave \/ Cancel \/ OtherSession

BatchSpec == BatchInit /\ [][BatchNext]_batchAllVars

------------------------------------------------------------------------------
(* Properties.                                                              *)

(* The archive has a file under the path of every success: its annotated    *)
(* text, or what a later record of the same path made of it.  What it holds *)
(* otherwise was left by a failed write, never by a file that could not be  *)
(* read or annotated.  It falls short of the records only when cancelled.   *)
ArchiveHoldsSuccesses ==
    archive # None =>
        LET done == {i \in DOMAIN label : label[i] \in Succeeded}
            spoilt == {i \in DOMAIN label : label[i] = "write_failed"}
            path(i) == ArchivePath(request.naming, records[i])
        IN  /\ {path(i) : i \in done} \subseteq DOMAIN archive
            /\ \A p \in DOMAIN archive :
                   archive[p] \in done \cup spoilt /\ path(archive[p]) = p
            /\ \A i \in done : archive[path(i)] >= i
            /\ Len(label) < Len(records) => token

(* However a batch ends -- finished, cancelled, abandoned between two       *)
(* frames or broken by an exception -- nothing it made is left on disk but  *)
(* the archive it returns, and what a process_code that raised left itself. *)
NothingIsLeftBehind ==
    pc = "ended" =>
        temp \ {Markdown(i) : i \in {j \in DOMAIN label : label[j] = "processing_failed"}}
            = IF archive = None THEN {} ELSE {Package}

(* Every file of a batch goes to the provider that was active when it       *)
(* began, with a key and an address meant for that provider, whatever other *)
(* sessions do to the settings in the meantime.                             *)
OneProviderPerBatch ==
    /\ \A i, j \in DOMAIN asked : asked[i] = asked[j]
    /\ \A i \in DOMAIN asked : MeantFor(asked[i])
=============================================================================
