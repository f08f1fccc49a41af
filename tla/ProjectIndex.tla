---------------------------- MODULE ProjectIndex ----------------------------
(***************************************************************************)
(* From a directory that people go on editing to a retrieval index: the     *)
(* scan, the snapshot, the corpus and the index of code_maintenance and     *)
(* project_intelligence.  Every pass reads the files one by one, so an edit *)
(* can come between any two reads; the passes of one snapshot read each     *)
(* file up to three times, and a corpus build three times more.             *)
(***************************************************************************)
EXTENDS SourceSymbols

CONSTANTS
    FileOrder,     \* the paths there can be, as a sequence in sorted order
    Versions,      \* path -> the contents it can have
    Gone,          \* a path without a readable regular file
    RuleSets,      \* the ignore rules .gitignore can give, defaults included
    Fingerprints,  \* embedding spaces
    Lexical,       \* embedding_enabled is False
    FirstVersions, \* bound: the versions a path starts with
    None,
    MaxEdits,      \* bound: edits of the directory
    MaxScans       \* bound: scans

Files == ToSet(FileOrder)
ContentKey(c) == c   \* sha256 of a file: injective on contents

ASSUME FileOrderIsASequence == FileOrder \in Seq(Files)
ASSUME GoneIsNoContent == \A f \in Files : Gone \notin Versions[f]
ASSUME FirstVersionsAreVersions == \A f \in Files : FirstVersions[f] \subseteq Versions[f] \cup {Gone}
\* A parser gives finitely many items and imports.
ASSUME ContentsAreFinite ==
    \A f \in Files : \A c \in Versions[f] :
        /\ IsFiniteSet(DOMAIN c.items) /\ IsFiniteSet(c.imports)
        /\ \A i \in DOMAIN c.items : c.items[i].size \in Nat
ASSUME LexicalIsNoFingerprint == Lexical \notin Fingerprints
ASSUME NoneIsNoRefusal ==
    None \notin {"IndexSnapshotMismatchError", "EmbeddingFingerprintMismatchError",
                 "RetrievalConfigMismatchError"}
ASSUME BoundsAreNatural == MaxEdits \in Nat /\ MaxScans \in Nat

VARIABLES
    disk,       \* the directory: path -> content
    gitignore,  \* its ignore rules
    edits, scans,
    pass,       \* the pass under way: [name, next, rules, got, files]
    snapshot,   \* the newest ProjectSnapshot
    corpus,     \* the corpus of that snapshot: a set of documents
    index,      \* the newest RetrievalIndex
    problem     \* why the last operation raised, None after a success

vars == <<disk, gitignore, edits, scans, pass, snapshot, corpus, index, problem>>
world == <<disk, gitignore, edits>>

\* A product of per-file choices.
Directories == {d \in [Files -> UNION {FirstVersions[f] : f \in Files}] :
                   \A f \in Files : d[f] \in FirstVersions[f]}

Empty == [f \in {} |-> None]
Begin(name, files, rules) ==
    [name |-> name, next |-> 1, rules |-> rules, got |-> Empty,
     files |-> files, symbols |-> {}, documents |-> {}]
Idle == Begin("idle", Empty, << >>)

Init ==
    /\ disk \in Directories
    /\ gitignore \in RuleSets
    /\ edits = 0
    /\ scans = 0
    /\ pass = Idle
    /\ snapshot = None
    /\ corpus = None
    /\ index = None
    /\ problem = None

------------------------------------------------------------------------------
(* The people who work in the directory.                                    *)

EditFile(f, c) ==
    /\ edits < MaxEdits
    /\ disk[f] # c
    /\ edits' = edits + 1
    /\ disk' = [disk EXCEPT ![f] = c]
    /\ UNCHANGED <<gitignore, scans, pass, snapshot, corpus, index, problem>>

EditRules(rules) ==
    /\ edits < MaxEdits
    /\ gitignore # rules
    /\ edits' = edits + 1
    /\ gitignore' = rules
    /\ UNCHANGED <<disk, scans, pass, snapshot, corpus, index, problem>>

------------------------------------------------------------------------------
(* One pass over files: what each read leaves in got.                       *)

Reading(name) == pass.name = name /\ pass.next <= Len(FileOrder)
PassDone(name) == pass.name = name /\ pass.next > Len(FileOrder)

Current == FileOrder[pass.next]

Skip == [pass EXCEPT !.next = @ + 1]
With(got, f, c) == [g \in DOMAIN got \cup {f} |-> IF g = f THEN c ELSE got[g]]
Keep(f, c) == [Skip EXCEPT !.got = With(pass.got, f, c)]

\* The rest of the build does not happen: an exception left it.
Raise(reason) ==
    /\ pass' = Idle
    /\ problem' = reason

------------------------------------------------------------------------------
(* ProjectScanner.scan, run for a snapshot and twice for a corpus.          *)

ScanPasses == {"scan", "first_scan", "final_scan"}

StartScan ==
    /\ pass.name = "idle"
    /\ scans < MaxScans
    /\ scans' = scans + 1
    /\ pass' = Begin("scan", Empty, gitignore)
    /\ problem' = None
    /\ UNCHANGED <<world, snapshot, corpus, index>>

\* A file that is ignored, or is gone or not readable just now, is left out.
ScanFile ==
    /\ pass.name \in ScanPasses
    /\ pass.next <= Len(FileOrder)
    /\ pass' = IF Listed(pass.rules, Current) /\ disk[Current] # Gone
               THEN Keep(Current, ContentKey(disk[Current]))
               ELSE Skip
    /\ UNCHANGED <<world, scans, snapshot, corpus, index, problem>>

------------------------------------------------------------------------------
(* SnapshotBuilder.build: hashes from the scan, symbols and graph each from *)
(* a read of their own.                                                     *)

EndScan ==
    /\ PassDone("scan")
    /\ pass' = Begin("symbols", pass.got, << >>)
    /\ UNCHANGED <<world, scans, snapshot, corpus, index, problem>>

\* A scanned file that cannot be read or parsed any more has no symbols.
ReadParsed(name) ==
    /\ Reading(name)
    /\ pass' = IF /\ Current \in DOMAIN pass.files
                  /\ HasAdapter(Current)
                  /\ disk[Current] # Gone
                  /\ disk[Current].parses
               THEN Keep(Current, disk[Current])
               ELSE Skip
    /\ UNCHANGED <<world, scans, snapshot, corpus, index, problem>>

SymbolStates(f, c) ==
    LET symbols == ParseSymbols(f, c)
    IN  {[id |-> symbols[i].id, hash |-> symbols[i].text] : i \in DOMAIN symbols}

ReadSymbols == ReadParsed("symbols")

EndSymbols ==
    /\ PassDone("symbols")
    /\ pass' = [Begin("graph", pass.files, << >>)
                    EXCEPT !.symbols = UNION {SymbolStates(f, pass.got[f]) : f \in DOMAIN pass.got}]
    /\ UNCHANGED <<world, scans, snapshot, corpus, index, problem>>

ReadForGraph == ReadParsed("graph")

\* Callers index a snapshot with a corpus built for it, so the old one is done.
EndSnapshot ==
    /\ PassDone("graph")
    /\ corpus' = None
    /\ snapshot' = [files |-> pass.files, symbols |-> pass.symbols,
                    graph |-> BuildGraph(DOMAIN pass.files, pass.got)]
    /\ pass' = Idle
    /\ problem' = None
    /\ UNCHANGED <<world, scans, index>>

------------------------------------------------------------------------------
(* compare_snapshots, by symbol.                                            *)

Ids(symbols) == {s.id : s \in symbols}

\* Fault: a symbol is unchanged when its identity is still there.
DifferenceOfIds(old, new) ==
    [added |-> Ids(new.symbols) \ Ids(old.symbols),
     removed |-> Ids(old.symbols) \ Ids(new.symbols),
     changed |-> {},
     unchanged |-> Ids(old.symbols) \cap Ids(new.symbols)]

Difference(old, new) ==
    LET shared == Ids(old.symbols) \cap Ids(new.symbols)
        same == {s.id : s \in old.symbols \cap new.symbols}
    IN  [added |-> Ids(new.symbols) \ Ids(old.symbols),
         removed |-> Ids(old.symbols) \ Ids(new.symbols),
         changed |-> shared \ same,
         unchanged |-> same]

------------------------------------------------------------------------------
(* CorpusBuilder.build for the newest snapshot.                             *)

StartCorpus ==
    /\ pass.name = "idle"
    /\ snapshot # None
    /\ pass' = Begin("first_scan", snapshot.files, gitignore)
    /\ problem' = None
    /\ UNCHANGED <<world, scans, snapshot, corpus, index>>

\* Every file of the snapshot is listed with the same hash; others may be new.
FilesAreFresh(expected, current) ==
    /\ DOMAIN expected \subseteq DOMAIN current
    /\ \A f \in DOMAIN expected : current[f] = expected[f]

EndFirstScan ==
    /\ PassDone("first_scan")
    /\ IF FilesAreFresh(pass.files, pass.got)
       THEN /\ pass' = Begin("sources", pass.files, << >>)
            /\ UNCHANGED problem
       ELSE Raise("CorpusSnapshotMismatchError")
    /\ UNCHANGED <<world, scans, snapshot, corpus, index>>

\* Fault: what is read after the scan is taken as it is.
AnySource(f, c) == TRUE

\* _read_source checks the hash of what it read.
SourceIsFresh(f, c) == ContentKey(c) = pass.files[f]

ReadSource ==
    /\ Reading("sources")
    /\ IF Current \notin DOMAIN pass.files \/ ~HasAdapter(Current)
       THEN pass' = Skip /\ UNCHANGED problem
       ELSE IF disk[Current] = Gone
       THEN Raise("CorpusIOError")
       ELSE IF ~SourceIsFresh(Current, disk[Current])
       THEN Raise("CorpusSnapshotMismatchError")
       ELSE pass' = Keep(Current, disk[Current]) /\ UNCHANGED problem
    /\ UNCHANGED <<world, scans, snapshot, corpus, index>>

Documents(f, c) == IF c.parses THEN ToSet(ParseSymbols(f, c)) ELSE {}

\* Parsed again, the sources must give the symbols of the snapshot.
SymbolsAreFresh(sources) ==
    LET expected(f) == {s \in snapshot.symbols : s.id.file = f}
        states(f) == {[id |-> d.id, hash |-> d.text] : d \in Documents(f, sources[f])}
    IN  \A f \in DOMAIN sources : states(f) = expected(f)

UniqueSymbols(sources) ==
    \A f \in DOMAIN sources : \A d, e \in Documents(f, sources[f]) : d.id = e.id => d = e

BuildDocuments ==
    /\ PassDone("sources")
    /\ IF SymbolsAreFresh(pass.got) /\ UniqueSymbols(pass.got)
       THEN /\ pass' = [Begin("final_scan", pass.files, gitignore) EXCEPT
                            !.documents = UNION {Documents(f, pass.got[f]) : f \in DOMAIN pass.got}]
            /\ UNCHANGED problem
       ELSE Raise("CorpusBuildError")
    /\ UNCHANGED <<world, scans, snapshot, corpus, index>>

EndCorpus ==
    /\ PassDone("final_scan")
    /\ IF FilesAreFresh(pass.files, pass.got)
       THEN corpus' = pass.documents /\ pass' = Idle /\ problem' = None
       ELSE Raise("CorpusSnapshotMismatchError") /\ UNCHANGED corpus
    /\ UNCHANGED <<world, scans, snapshot, index>>

------------------------------------------------------------------------------
(* RetrievalIndex.build and .update.  A provider belongs to one embedding   *)
(* space; a vector is [space, id, text], what it embeds.                    *)

EmbeddedText(d) == [name |-> d.id, text |-> d.text]
Embed(space, d) == [space |-> space, of |-> EmbeddedText(d)]
NoVector == [space |-> Lexical, of |-> None]

\* The documents are exactly the symbols of the snapshot, with their hashes.
DocumentsMatch(documents, target) ==
    {[id |-> d.id, hash |-> d.text] : d \in documents} = target.symbols

\* Why build and update raise before they embed anything.
Refusal(documents, space, provider) ==
    IF ~DocumentsMatch(documents, snapshot) THEN "IndexSnapshotMismatchError"
    ELSE IF space # Lexical /\ provider # space THEN "EmbeddingFingerprintMismatchError"
    ELSE None

FreshVector(space, provider, d) ==
    IF space = Lexical THEN NoVector ELSE Embed(provider, d)

BuildIndex(space, provider) ==
    /\ pass.name = "idle" /\ corpus # None
    /\ problem' = Refusal(corpus, space, provider)
    /\ index' = IF problem' # None THEN index
                ELSE [snapshot |-> snapshot, space |-> space,
                      entries |-> {[document |-> d, vector |-> FreshVector(space, provider, d)]
                                      : d \in corpus}]
    /\ UNCHANGED <<world, scans, pass, snapshot, corpus>>

\* A symbol that did not change keeps the vector the old index has for it.
CarriedOver(diff, provider, d) ==
    IF d.id \in diff.unchanged
    THEN (CHOOSE e \in index.entries : e.document.id = d.id).vector
    ELSE FreshVector(index.space, provider, d)

UpdateIndex(space, provider) ==
    /\ pass.name = "idle" /\ corpus # None /\ index # None
    /\ problem' = IF space # index.space THEN "RetrievalConfigMismatchError"
                  ELSE Refusal(corpus, space, provider)
    /\ index' = IF problem' # None THEN index
                ELSE LET diff == Difference(index.snapshot, snapshot)
                     IN  [snapshot |-> snapshot, space |-> space,
                          entries |-> {[document |-> d, vector |-> CarriedOver(diff, provider, d)]
                                          : d \in corpus}]
    /\ UNCHANGED <<world, scans, pass, snapshot, corpus>>

\* The model cannot be loaded or run, or returns vectors of the wrong shape or
\* number: build and update raise and the old index is as it was.
EmbeddingFails ==
    /\ pass.name = "idle" /\ corpus # None /\ corpus # {}
    /\ Fingerprints # {}
    /\ DocumentsMatch(corpus, snapshot)
    /\ problem' = "IndexBuildError"
    /\ UNCHANGED <<world, scans, pass, snapshot, corpus, index>>

------------------------------------------------------------------------------
Build ==
    \/ StartScan \/ ScanFile \/ EndScan \/ ReadSymbols \/ EndSymbols \/ ReadForGraph \/ EndSnapshot
    \/ StartCorpus \/ EndFirstScan \/ ReadSource \/ BuildDocuments \/ EndCorpus
    \/ \E space, provider \in Fingerprints \cup {Lexical} :
           BuildIndex(space, provider) \/ UpdateIndex(space, provider)
    \/ EmbeddingFails

Edit ==
    \/ \E f \in Files : \E c \in Versions[f] \cup {Gone} : EditFile(f, c)
    \/ \E rules \in RuleSets : EditRules(rules)

Next == Edit \/ Build

Spec == Init /\ [][Next]_vars

------------------------------------------------------------------------------
(* Properties.                                                              *)

IndexDocuments == {e.document : e \in index.entries}

(* However the directory is edited between the reads, the documents of an   *)
(* index are those of one version of every file: the version whose hash its *)
(* snapshot records (corpus.py checks hashes before, at and after reading). *)
IndexIsOfOneVersion ==
    index # None =>
        LET files == index.snapshot.files
        IN  IndexDocuments = UNION {Documents(f, files[f]) :
                                       f \in {g \in DOMAIN files : HasAdapter(g)}}

(* After any sequence of builds and incremental updates every entry carries *)
(* the vector a fresh build would compute for its text, in the embedding    *)
(* space of the index: nothing stale is reused (index.py update).           *)
VectorsAreFresh ==
    index # None =>
        \A e \in index.entries :
            e.vector = FreshVector(index.space, index.space, e.document)
=============================================================================
