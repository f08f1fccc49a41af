----------------------- MODULE ProjectIntelligenceProofs -----------------------
(***************************************************************************)
(* Theorems about ProjectIndex and ProjectIntelligence, for any directory,  *)
(* any versions of its files, any ignore rules, any number of edits and any *)
(* embedding spaces: the index, whatever is edited while it is built; the   *)
(* import cycles an analysis reports, which follow                          *)
(* _strongly_connected_components through its two depth-first passes; and   *)
(* what an answer shows, from the rankings over the breadth-first expansion *)
(* to the text cut to its budget.                                           *)
(***************************************************************************)
EXTENDS ProjectIntelligence, CreditDomainProofs, SequenceTheorems, WellFoundedInduction

\* The pass stays a record, which every update of one of its fields needs.
IsPass(p) ==
    \E name, next, rules, got, files, symbols, documents :
        p = [name |-> name, next |-> next, rules |-> rules, got |-> got,
             files |-> files, symbols |-> symbols, documents |-> documents]

\* Two documents with one identity have one text.
SameIdSameText(documents) ==
    \A d, e \in documents : d.id = e.id => d.text = e.text

VectorInvariant ==
    /\ IsPass(pass)
    /\ pass.name = "final_scan" => SameIdSameText(pass.documents)
    /\ corpus # None => SameIdSameText(corpus)
    /\ index # None =>
          /\ SameIdSameText(IndexDocuments)
          /\ DocumentsMatch(IndexDocuments, index.snapshot)
    /\ VectorsAreFresh

------------------------------------------------------------------------------
(* Every symbol an adapter finds in a file names that file.                 *)
LEMMA DocumentsNameTheirFile ==
    ASSUME NEW f, NEW c, NEW d \in Documents(f, c)
    PROVE  d.id.file = f
<1>1. c.parses /\ d \in ToSet(ParseSymbols(f, c))
  BY DEF Documents
<1>2. PICK i \in DOMAIN c.items : d = ParseSymbols(f, c)[i]
  BY <1>1 DEF ToSet, ParseSymbols
<1>3. d.id = SymbolId(f, c.items, i)
  BY <1>2 DEF ParseSymbols
<1> QED BY <1>3 DEF SymbolId

(* Sources that pass the two checks of BuildDocuments give documents with   *)
(* distinct identities across all files (corpus.py _build_documents).       *)
LEMMA CheckedSourcesAreUnique ==
    ASSUME NEW sources, UniqueSymbols(sources)
    PROVE  SameIdSameText(UNION {Documents(f, sources[f]) : f \in DOMAIN sources})
<1> SUFFICES ASSUME NEW f \in DOMAIN sources, NEW g \in DOMAIN sources,
                    NEW d \in Documents(f, sources[f]), NEW e \in Documents(g, sources[g]),
                    d.id = e.id
             PROVE  d.text = e.text
  BY DEF SameIdSameText
<1>1. f = g
  BY DocumentsNameTheirFile
<1>2. d = e
  BY <1>1 DEF UniqueSymbols
<1> QED BY <1>2

(* A symbol the comparison calls unchanged has, in an index whose documents *)
(* match their snapshot, the text it has in the new documents.              *)
LEMMA UnchangedHasItsText ==
    ASSUME NEW old, NEW new, NEW documents, NEW indexed,
           DocumentsMatch(documents, new), SameIdSameText(documents),
           DocumentsMatch(indexed, old), SameIdSameText(indexed),
           NEW d \in documents, NEW e \in indexed,
           d.id \in Difference(old, new).unchanged, e.id = d.id
    PROVE  e.text = d.text
<1>1. PICK s \in old.symbols \cap new.symbols : s.id = d.id
  BY DEF Difference
<1>2. PICK x \in documents : s = [id |-> x.id, hash |-> x.text]
  BY <1>1 DEF DocumentsMatch
<1>3. PICK y \in indexed : s = [id |-> y.id, hash |-> y.text]
  BY <1>1 DEF DocumentsMatch
<1>4. x.text = d.text
  BY <1>1, <1>2 DEF SameIdSameText
<1>5. y.text = e.text
  BY <1>1, <1>3 DEF SameIdSameText
<1> QED BY <1>2, <1>3, <1>4, <1>5

------------------------------------------------------------------------------
(* Updates of the pass.                                                     *)
LEMMA PassUpdates ==
    ASSUME IsPass(pass)
    PROVE  /\ IsPass(Skip) /\ Skip.name = pass.name /\ Skip.documents = pass.documents
           /\ Skip.next = pass.next + 1 /\ Skip.got = pass.got /\ Skip.files = pass.files
           /\ \A f, c : /\ IsPass(Keep(f, c))
                       /\ Keep(f, c).name = pass.name
                       /\ Keep(f, c).documents = pass.documents
                       /\ Keep(f, c).next = pass.next + 1
                       /\ Keep(f, c).files = pass.files
                       /\ Keep(f, c).got = With(pass.got, f, c)
<1>1. PICK name, next, rules, got, files, symbols, documents :
         pass = [name |-> name, next |-> next, rules |-> rules, got |-> got,
                 files |-> files, symbols |-> symbols, documents |-> documents]
  BY DEF IsPass
<1>2. Skip = [name |-> name, next |-> next + 1, rules |-> rules, got |-> got,
              files |-> files, symbols |-> symbols, documents |-> documents]
  BY <1>1 DEF Skip
<1>3. \A f, c : Keep(f, c) = [name |-> name, next |-> next + 1, rules |-> rules,
                             got |-> With(pass.got, f, c), files |-> files,
                             symbols |-> symbols, documents |-> documents]
  BY <1>2 DEF Keep
<1> QED BY <1>1, <1>2, <1>3 DEF IsPass

\* What a pass that begins holds.
LEMMA NewPasses ==
    /\ IsPass(Idle) /\ Idle.name = "idle" /\ Idle.next = 1
    /\ Idle.got = Empty /\ Idle.files = Empty
    /\ \A name, files, rules : /\ IsPass(Begin(name, files, rules))
                              /\ Begin(name, files, rules).name = name
                              /\ Begin(name, files, rules).next = 1
                              /\ Begin(name, files, rules).got = Empty
                              /\ Begin(name, files, rules).files = files
  BY DEF IsPass, Idle, Begin

------------------------------------------------------------------------------
\* Without an index nothing is stale.
LEMMA VectorInit == Init => VectorInvariant
  BY NewPasses DEF Init, VectorInvariant, VectorsAreFresh

\* What a step that touches neither corpus nor index leaves as it is.
LEMMA VectorFrame ==
    ASSUME VectorInvariant, UNCHANGED <<corpus, index>>,
           IsPass(pass'),
           pass'.name = "final_scan" => SameIdSameText(pass'.documents)
    PROVE  VectorInvariant'
  BY DEF VectorInvariant, VectorsAreFresh, IndexDocuments, SameIdSameText, DocumentsMatch,
         IsPass, FreshVector, Embed, NoVector, EmbeddedText

\* A full build embeds every document of the corpus.
LEMMA VectorBuild ==
    ASSUME VectorInvariant, NEW space, NEW provider, BuildIndex(space, provider)
    PROVE  VectorInvariant'
<1>1. CASE problem' # None
  <2>1. UNCHANGED <<pass, corpus, index>>
    BY <1>1 DEF BuildIndex
  <2> QED BY <2>1, VectorFrame DEF VectorInvariant
<1>2. CASE problem' = None
  <2>1. /\ index' = [snapshot |-> snapshot, space |-> space,
                     entries |-> {[document |-> d, vector |-> FreshVector(space, provider, d)]
                                      : d \in corpus}]
        /\ UNCHANGED <<pass, corpus>> /\ corpus # None
        /\ Refusal(corpus, space, provider) = None
    BY <1>2 DEF BuildIndex
  <2>2. IndexDocuments' = corpus
    <3>1. ASSUME NEW d \in corpus PROVE d \in IndexDocuments'
      <4> DEFINE e == [document |-> d, vector |-> FreshVector(space, provider, d)]
      <4>1. e \in index'.entries /\ e.document = d
        BY <2>1
      <4> QED BY <4>1 DEF IndexDocuments
    <3>2. ASSUME NEW d \in IndexDocuments' PROVE d \in corpus
      BY <2>1 DEF IndexDocuments
    <3> QED BY <3>1, <3>2
  <2>3. DocumentsMatch(corpus, snapshot)
    BY <2>1, NoneIsNoRefusal DEF Refusal
  <2>4. space # Lexical => provider = space
    BY <2>1, NoneIsNoRefusal DEF Refusal
  <2>5. VectorsAreFresh'
    <3> SUFFICES ASSUME NEW e \in index'.entries
                 PROVE  e.vector = FreshVector(index'.space, index'.space, e.document)
      BY DEF VectorsAreFresh, FreshVector, NoVector, Embed, EmbeddedText
    <3>1. e.vector = FreshVector(space, provider, e.document)
      BY <2>1
    <3> QED BY <3>1, <2>1, <2>4 DEF FreshVector
  <2> QED BY <2>1, <2>2, <2>3, <2>5 DEF VectorInvariant
<1> QED BY <1>1, <1>2

\* An update carries over only vectors of documents whose text did not change.
LEMMA VectorUpdate ==
    ASSUME VectorInvariant, NEW space, NEW provider, UpdateIndex(space, provider)
    PROVE  VectorInvariant'
<1>1. CASE problem' # None
  <2>1. UNCHANGED <<pass, corpus, index>>
    BY <1>1 DEF UpdateIndex
  <2> QED BY <2>1, VectorFrame DEF VectorInvariant
<1>2. CASE problem' = None
  <2> DEFINE diff == Difference(index.snapshot, snapshot)
  <2>1. /\ index' = [snapshot |-> snapshot, space |-> space,
                     entries |-> {[document |-> d, vector |-> CarriedOver(diff, provider, d)]
                                      : d \in corpus}]
        /\ UNCHANGED <<pass, corpus>> /\ corpus # None /\ index # None
        /\ space = index.space
        /\ Refusal(corpus, space, provider) = None
    BY <1>2, NoneIsNoRefusal DEF UpdateIndex
  <2>2. IndexDocuments' = corpus
    <3>1. ASSUME NEW d \in corpus PROVE d \in IndexDocuments'
      <4> DEFINE e == [document |-> d, vector |-> CarriedOver(diff, provider, d)]
      <4>1. e \in index'.entries /\ e.document = d
        BY <2>1
      <4> QED BY <4>1 DEF IndexDocuments
    <3>2. ASSUME NEW d \in IndexDocuments' PROVE d \in corpus
      BY <2>1 DEF IndexDocuments
    <3> QED BY <3>1, <3>2
  <2>3. DocumentsMatch(corpus, snapshot)
    BY <2>1, NoneIsNoRefusal DEF Refusal
  <2>4. space # Lexical => provider = space
    BY <2>1, NoneIsNoRefusal DEF Refusal
  <2>5. ASSUME NEW d \in corpus
        PROVE  CarriedOver(diff, provider, d) = FreshVector(space, space, d)
    <3>1. CASE d.id \notin diff.unchanged
      BY <3>1, <2>1, <2>4 DEF CarriedOver, FreshVector
    <3>2. CASE d.id \in diff.unchanged
      <4> DEFINE e == CHOOSE x \in index.entries : x.document.id = d.id
      <4>1. \E x \in index.entries : x.document.id = d.id
        <5>1. PICK s \in index.snapshot.symbols : s.id = d.id
          BY <3>2 DEF Difference
        <5>2. PICK y \in IndexDocuments : s = [id |-> y.id, hash |-> y.text]
          BY <2>1, <5>1 DEF VectorInvariant, DocumentsMatch
        <5> QED BY <5>1, <5>2 DEF IndexDocuments
      <4>2. e \in index.entries /\ e.document.id = d.id
        BY <4>1
      <4>3. e.document \in IndexDocuments
        BY <4>2 DEF IndexDocuments
      <4>4. e.document.text = d.text
        BY <2>1, <2>3, <3>2, <4>2, <4>3, UnchangedHasItsText DEF VectorInvariant
      <4>5. e.vector = FreshVector(space, space, e.document)
        BY <2>1, <4>2 DEF VectorInvariant, VectorsAreFresh
      <4>6. FreshVector(space, space, e.document) = FreshVector(space, space, d)
        BY <4>2, <4>4 DEF FreshVector, Embed, EmbeddedText
      <4> QED BY <3>2, <4>5, <4>6 DEF CarriedOver
    <3> QED BY <3>1, <3>2
  <2>6. VectorsAreFresh'
    <3> SUFFICES ASSUME NEW e \in index'.entries
                 PROVE  e.vector = FreshVector(index'.space, index'.space, e.document)
      BY DEF VectorsAreFresh, FreshVector, NoVector, Embed, EmbeddedText
    <3>1. PICK d \in corpus : e = [document |-> d, vector |-> CarriedOver(diff, provider, d)]
      BY <2>1
    <3> QED BY <3>1, <2>1, <2>5
  <2> QED BY <2>1, <2>2, <2>3, <2>6 DEF VectorInvariant
<1> QED BY <1>1, <1>2

\* Steps of a pass that is not the last scan of a corpus build, or goes on with it.
LEMMA VectorPass ==
    ASSUME VectorInvariant,
           \/ StartScan \/ ScanFile \/ EndScan \/ ReadSymbols \/ EndSymbols \/ ReadForGraph
           \/ StartCorpus \/ EndFirstScan \/ ReadSource
    PROVE  VectorInvariant'
<1>0. IsPass(pass)
  BY DEF VectorInvariant
<1>1. UNCHANGED <<corpus, index>>
  BY DEF StartScan, ScanFile, EndScan, ReadSymbols, EndSymbols, ReadForGraph, ReadParsed,
         StartCorpus, EndFirstScan, ReadSource
<1>2. /\ IsPass(pass')
      /\ pass'.name = "final_scan" => /\ pass.name = "final_scan"
                                      /\ pass'.documents = pass.documents
  <2>1. CASE EndSymbols
    <3>1. PICK symbols :
             pass' = [Begin("graph", pass.files, << >>) EXCEPT !.symbols = symbols]
      BY <2>1 DEF EndSymbols
    <3>2. pass' = [name |-> "graph", next |-> 1, rules |-> << >>, got |-> Empty,
                   files |-> pass.files, symbols |-> symbols, documents |-> {}]
      BY <3>1 DEF Begin
    <3> QED BY <3>2 DEF IsPass
  <2>2. CASE StartScan \/ EndScan \/ StartCorpus \/ EndFirstScan
    BY <2>2, NewPasses DEF StartScan, EndScan, StartCorpus, EndFirstScan, Raise
  <2>3. CASE ScanFile
    BY <2>3, <1>0, PassUpdates DEF ScanFile
  <2>4. CASE ReadSymbols \/ ReadForGraph
    BY <2>4, <1>0, PassUpdates DEF ReadSymbols, ReadForGraph, ReadParsed
  <2>5. CASE ReadSource
    BY <2>5, <1>0, PassUpdates, NewPasses DEF ReadSource, Raise
  <2> QED BY <2>1, <2>2, <2>3, <2>4, <2>5
<1> QED BY <1>1, <1>2, VectorFrame DEF VectorInvariant

\* A corpus has one text per identity; it ends with its snapshot.
LEMMA VectorCorpus ==
    ASSUME VectorInvariant, BuildDocuments \/ EndCorpus \/ EndSnapshot
    PROVE  VectorInvariant'
<1>1. CASE BuildDocuments
  <2>1. UNCHANGED <<corpus, index>>
    BY <1>1 DEF BuildDocuments
  <2>2. CASE SymbolsAreFresh(pass.got) /\ UniqueSymbols(pass.got)
    <3> DEFINE docs == UNION {Documents(f, pass.got[f]) : f \in DOMAIN pass.got}
    <3>1. pass' = [Begin("final_scan", pass.files, gitignore) EXCEPT !.documents = docs]
      BY <1>1, <2>2 DEF BuildDocuments
    <3> HIDE DEF docs
    <3>2. pass' = [name |-> "final_scan", next |-> 1, rules |-> gitignore,
                   got |-> Empty, files |-> pass.files, symbols |-> {},
                   documents |-> docs]
      BY <3>1 DEF Begin
    <3>3. IsPass(pass') /\ pass'.documents = docs
      BY <3>2 DEF IsPass
    <3>4. SameIdSameText(docs)
      BY <2>2, CheckedSourcesAreUnique DEF docs
    <3> QED BY <2>1, <3>3, <3>4, VectorFrame
  <2>3. CASE ~(SymbolsAreFresh(pass.got) /\ UniqueSymbols(pass.got))
    BY <1>1, <2>1, <2>3, NewPasses, VectorFrame DEF BuildDocuments, Raise
  <2> QED BY <2>2, <2>3
<1>2. CASE EndCorpus
  <2>1. /\ IsPass(pass') /\ pass'.name = "idle" /\ UNCHANGED index
        /\ corpus' = corpus \/ (corpus' = pass.documents /\ pass.name = "final_scan")
    BY <1>2, NewPasses DEF EndCorpus, Raise, PassDone
  <2> QED BY <2>1 DEF VectorInvariant, VectorsAreFresh, IndexDocuments, FreshVector, Embed,
                      NoVector, EmbeddedText, DocumentsMatch
<1>3. CASE EndSnapshot
  <2>1. IsPass(pass') /\ pass'.name = "idle" /\ UNCHANGED index /\ corpus' = None
    BY <1>3, NewPasses DEF EndSnapshot
  <2> QED BY <2>1 DEF VectorInvariant, VectorsAreFresh, IndexDocuments, FreshVector, Embed,
                      NoVector, EmbeddedText, DocumentsMatch
<1> QED BY <1>1, <1>2, <1>3

\* Every step keeps the vectors fresh.
LEMMA VectorNext == VectorInvariant /\ [Next]_vars => VectorInvariant'
<1> SUFFICES ASSUME VectorInvariant, [Next]_vars
             PROVE  VectorInvariant'
  OBVIOUS
<1>1. CASE Edit \/ EmbeddingFails \/ UNCHANGED vars
  <2>1. UNCHANGED <<pass, corpus, index>>
    BY <1>1 DEF Edit, EditFile, EditRules, EmbeddingFails, vars
  <2> QED BY <2>1, VectorFrame DEF VectorInvariant
<1>2. ASSUME NEW space, NEW provider, BuildIndex(space, provider) \/ UpdateIndex(space, provider)
      PROVE  VectorInvariant'
  BY <1>2, VectorBuild, VectorUpdate
<1> QED BY <1>1, <1>2, VectorPass, VectorCorpus DEF Next, Build

(* No sequence of edits, rebuilds and incremental updates leaves an entry   *)
(* of the index with a vector other than the one a fresh build would give   *)
(* it, in the index's embedding space (index.py build and update).          *)
THEOREM NoVectorIsStale == Spec => []VectorsAreFresh
<1>1. VectorInvariant => VectorsAreFresh
  BY DEF VectorInvariant
<1> QED BY <1>1, VectorInit, VectorNext, PTL DEF Spec

------------------------------------------------------------------------------
(* One version of every file.                                               *)

Annotated(files) == {f \in DOMAIN files : HasAdapter(f)}
DocumentsOf(files) == UNION {Documents(f, files[f]) : f \in Annotated(files)}

\* What a pass over the directory has read so far.
ReadSoFar ==
    /\ IsPass(pass)
    /\ pass.next \in Nat \ {0}
    /\ DOMAIN pass.got \subseteq Files
    /\ DOMAIN pass.files \subseteq Files

\* A corpus build has read, of the files before its position, the contents
\* the snapshot records.
SourcesAreRecorded ==
    pass.name = "sources" =>
        /\ DOMAIN pass.got \subseteq Annotated(pass.files)
        /\ \A f \in DOMAIN pass.got : pass.got[f] = pass.files[f]
        /\ \A i \in DOMAIN FileOrder :
               i < pass.next /\ FileOrder[i] \in Annotated(pass.files)
                   => FileOrder[i] \in DOMAIN pass.got

SourceInvariant ==
    /\ ReadSoFar
    /\ SourcesAreRecorded
    /\ snapshot # None => DOMAIN snapshot.files \subseteq Files
    /\ pass.name \in {"first_scan", "sources", "final_scan"} =>
           snapshot # None /\ pass.files = snapshot.files
    /\ pass.name = "final_scan" => pass.documents = DocumentsOf(pass.files)
    /\ corpus # None => snapshot # None /\ corpus = DocumentsOf(snapshot.files)
    /\ IndexIsOfOneVersion

\* A position of the order is a file and every file has one.
LEMMA FilesAreListed ==
    /\ DOMAIN FileOrder = 1..Len(FileOrder) /\ Len(FileOrder) \in Nat
    /\ Files = {FileOrder[i] : i \in DOMAIN FileOrder}
  BY FileOrderIsASequence DEF Files, ToSet

\* Nothing was read at the beginning of a pass.
LEMMA EmptyIsEmpty == DOMAIN Empty = {}
  BY DEF Empty

\* The property, with the documents of a snapshot under their name.
LEMMA OneVersionMeans ==
    IndexIsOfOneVersion <=> (index # None => IndexDocuments = DocumentsOf(index.snapshot.files))
  BY DEF IndexIsOfOneVersion, DocumentsOf, Annotated

\* What ends a corpus build's reading: every annotated file was read.
LEMMA AllSourcesRead ==
    ASSUME SourceInvariant, PassDone("sources")
    PROVE  UNION {Documents(f, pass.got[f]) : f \in DOMAIN pass.got} = DocumentsOf(pass.files)
<1>1. DOMAIN pass.got = Annotated(pass.files)
  <2>1. ASSUME NEW f \in Annotated(pass.files)
        PROVE  f \in DOMAIN pass.got
    <3>1. f \in Files
      BY DEF SourceInvariant, ReadSoFar, Annotated
    <3>2. PICK i \in DOMAIN FileOrder : f = FileOrder[i]
      BY <3>1, FilesAreListed
    <3>3. i < pass.next
      BY <3>2, FilesAreListed DEF PassDone, SourceInvariant, ReadSoFar
    <3> QED BY <3>2, <3>3 DEF SourceInvariant, SourcesAreRecorded, PassDone
  <2> QED BY <2>1 DEF SourceInvariant, SourcesAreRecorded, PassDone
<1>2. \A f \in DOMAIN pass.got : Documents(f, pass.got[f]) = Documents(f, pass.files[f])
  BY DEF SourceInvariant, SourcesAreRecorded, PassDone
<1> QED BY <1>1, <1>2 DEF DocumentsOf

------------------------------------------------------------------------------
\* Nothing is read yet.
LEMMA SourceInit == Init => SourceInvariant
  BY NewPasses, EmptyIsEmpty
     DEF Init, SourceInvariant, ReadSoFar, SourcesAreRecorded, IndexIsOfOneVersion

\* Going back to idle keeps whatever does not depend on the pass.
LEMMA SourceIdle ==
    ASSUME SourceInvariant, pass' = Idle, UNCHANGED <<snapshot, index>>,
           corpus' # None => snapshot # None /\ corpus' = DocumentsOf(snapshot.files)
    PROVE  SourceInvariant'
<1>1. ReadSoFar' /\ SourcesAreRecorded'
  BY NewPasses, EmptyIsEmpty DEF ReadSoFar, SourcesAreRecorded
<1>2. IndexIsOfOneVersion'
  BY DEF SourceInvariant, IndexIsOfOneVersion, IndexDocuments
<1> QED BY <1>1, <1>2, NewPasses DEF SourceInvariant

\* So does beginning a pass over the files of the pass before.
LEMMA SourceBegin ==
    ASSUME SourceInvariant, NEW name, NEW rules, NEW files,
           pass' = Begin(name, files, rules),
           DOMAIN files \subseteq Files,
           name \in {"first_scan", "sources"} => snapshot # None /\ files = snapshot.files,
           name # "final_scan",
           UNCHANGED <<snapshot, corpus, index>>
    PROVE  SourceInvariant'
<1>1. ReadSoFar'
  BY NewPasses, EmptyIsEmpty DEF ReadSoFar
<1>2. SourcesAreRecorded'
  BY NewPasses, EmptyIsEmpty, FilesAreListed DEF SourcesAreRecorded
<1>3. IndexIsOfOneVersion'
  BY DEF SourceInvariant, IndexIsOfOneVersion, IndexDocuments
<1> QED BY <1>1, <1>2, <1>3, NewPasses DEF SourceInvariant

\* A scan and the reads of a snapshot touch neither corpus nor index.
LEMMA SourceScan ==
    ASSUME SourceInvariant, ScanFile \/ ReadSymbols \/ ReadForGraph
    PROVE  SourceInvariant'
<1>0. IsPass(pass) /\ pass.name # "sources" /\ pass.next <= Len(FileOrder)
  BY DEF SourceInvariant, ReadSoFar, ScanFile, ScanPasses, ReadSymbols, ReadForGraph, ReadParsed,
         Reading
<1>1. UNCHANGED <<snapshot, corpus, index>>
  BY DEF ScanFile, ReadSymbols, ReadForGraph, ReadParsed
<1>2. \/ pass' = Skip
      \/ \E c : pass' = Keep(Current, c)
  BY DEF ScanFile, ReadSymbols, ReadForGraph, ReadParsed
<1>3. Current \in Files
  BY <1>0, FilesAreListed DEF Current, SourceInvariant, ReadSoFar
<1>4. /\ IsPass(pass') /\ pass'.name = pass.name /\ pass'.files = pass.files
      /\ pass'.documents = pass.documents /\ pass'.next = pass.next + 1
      /\ DOMAIN pass'.got \subseteq DOMAIN pass.got \cup {Current}
  <2>1. CASE pass' = Skip
    BY <1>0, <2>1, PassUpdates
  <2>2. ASSUME NEW c, pass' = Keep(Current, c)
        PROVE  /\ IsPass(pass') /\ pass'.name = pass.name /\ pass'.files = pass.files
               /\ pass'.documents = pass.documents /\ pass'.next = pass.next + 1
               /\ DOMAIN pass'.got \subseteq DOMAIN pass.got \cup {Current}
    <3>1. /\ IsPass(pass') /\ pass'.name = pass.name /\ pass'.files = pass.files
          /\ pass'.documents = pass.documents /\ pass'.next = pass.next + 1
          /\ pass'.got = With(pass.got, Current, c)
      BY <1>0, <2>2, PassUpdates
    <3> QED BY <3>1 DEF With
  <2> QED BY <1>2, <2>1, <2>2
<1>5. ReadSoFar'
  BY <1>3, <1>4 DEF SourceInvariant, ReadSoFar
<1>6. SourcesAreRecorded'
  BY <1>0, <1>4 DEF SourcesAreRecorded
<1>7. IndexIsOfOneVersion'
  BY <1>1 DEF SourceInvariant, IndexIsOfOneVersion, IndexDocuments
<1> QED BY <1>1, <1>4, <1>5, <1>6, <1>7 DEF SourceInvariant

\* A source that is kept is the content the snapshot records.
LEMMA SourceRead ==
    ASSUME SourceInvariant, ReadSource
    PROVE  SourceInvariant'
<1>0. IsPass(pass) /\ pass.name = "sources" /\ pass.next <= Len(FileOrder)
  BY DEF SourceInvariant, ReadSoFar, ReadSource, Reading
<1>1. UNCHANGED <<snapshot, corpus, index>>
  BY DEF ReadSource
<1>2. Current \in Files /\ pass.next \in DOMAIN FileOrder /\ pass.next \in Nat
  BY <1>0, FilesAreListed DEF Current, SourceInvariant, ReadSoFar
<1>3. CASE pass' = Idle
  BY <1>1, <1>3, SourceIdle DEF SourceInvariant
<1>4. CASE pass' = Skip /\ Current \notin Annotated(pass.files)
  <2>1. /\ IsPass(pass') /\ pass'.name = pass.name /\ pass'.files = pass.files
        /\ pass'.next = pass.next + 1 /\ pass'.got = pass.got
    BY <1>0, <1>4, PassUpdates
  <2>2. ReadSoFar'
    BY <2>1 DEF SourceInvariant, ReadSoFar
  <2>3. ASSUME NEW i \in DOMAIN FileOrder, i < pass.next + 1,
               FileOrder[i] \in Annotated(pass.files)
        PROVE  i < pass.next
    BY <1>2, <1>4, <2>3, FilesAreListed DEF Current
  <2>4. SourcesAreRecorded'
    BY <2>1, <2>3 DEF SourceInvariant, SourcesAreRecorded
  <2>5. IndexIsOfOneVersion'
    BY <1>1 DEF SourceInvariant, IndexIsOfOneVersion, IndexDocuments
  <2> QED BY <1>0, <1>1, <2>1, <2>2, <2>4, <2>5 DEF SourceInvariant
<1>5. CASE /\ Current \in Annotated(pass.files)
           /\ \E c : pass' = Keep(Current, c) /\ c = pass.files[Current]
  <2>1. PICK c : pass' = Keep(Current, c) /\ c = pass.files[Current]
    BY <1>5
  <2>2. /\ IsPass(pass') /\ pass'.name = pass.name /\ pass'.files = pass.files
        /\ pass'.next = pass.next + 1 /\ pass'.got = With(pass.got, Current, c)
    BY <1>0, <2>1, PassUpdates
  <2>3. /\ DOMAIN pass'.got = DOMAIN pass.got \cup {Current}
        /\ \A g \in DOMAIN pass.got : g # Current => pass'.got[g] = pass.got[g]
        /\ pass'.got[Current] = c
    BY <2>2 DEF With
  <2>4. ReadSoFar'
    BY <1>2, <2>2, <2>3 DEF SourceInvariant, ReadSoFar
  <2>5. ASSUME NEW i \in DOMAIN FileOrder, i < pass.next + 1,
               FileOrder[i] \in Annotated(pass.files)
        PROVE  FileOrder[i] \in DOMAIN pass'.got
    <3>1. CASE i = pass.next
      BY <3>1, <2>3 DEF Current
    <3>2. CASE i # pass.next
      <4>1. i < pass.next
        BY <1>2, <2>5, <3>2, FilesAreListed
      <4> QED BY <1>0, <2>3, <2>5, <4>1 DEF SourceInvariant, SourcesAreRecorded
    <3> QED BY <3>1, <3>2
  <2>6. SourcesAreRecorded'
    BY <1>0, <1>5, <2>1, <2>2, <2>3, <2>5 DEF SourceInvariant, SourcesAreRecorded
  <2>7. IndexIsOfOneVersion'
    BY <1>1 DEF SourceInvariant, IndexIsOfOneVersion, IndexDocuments
  <2> QED BY <1>0, <1>1, <2>2, <2>4, <2>6, <2>7 DEF SourceInvariant
<1> QED BY <1>3, <1>4, <1>5 DEF ReadSource, Raise, Annotated, SourceIsFresh, ContentKey

\* One pass gives way to the next.
LEMMA SourceTurn ==
    ASSUME SourceInvariant, StartScan \/ EndScan \/ EndSymbols \/ StartCorpus \/ EndFirstScan
    PROVE  SourceInvariant'
<1>0. UNCHANGED <<snapshot, corpus, index>>
  BY DEF StartScan, EndScan, EndSymbols, StartCorpus, EndFirstScan
<1>1. CASE StartScan
  BY <1>0, <1>1, SourceBegin, EmptyIsEmpty DEF StartScan
<1>2. CASE EndScan
  BY <1>0, <1>2, SourceBegin DEF EndScan, SourceInvariant, ReadSoFar
<1>3. CASE EndSymbols
  <2>1. PICK symbols : pass' = [Begin("graph", pass.files, << >>) EXCEPT !.symbols = symbols]
    BY <1>3 DEF EndSymbols
  <2>2. pass' = [name |-> "graph", next |-> 1, rules |-> << >>, got |-> Empty,
                 files |-> pass.files, symbols |-> symbols, documents |-> {}]
    BY <2>1 DEF Begin
  <2>3. IsPass(pass')
    BY <2>2 DEF IsPass
  <2>4. ReadSoFar' /\ SourcesAreRecorded'
    BY <2>2, <2>3, EmptyIsEmpty DEF SourceInvariant, ReadSoFar, SourcesAreRecorded
  <2>5. IndexIsOfOneVersion'
    BY <1>0 DEF SourceInvariant, IndexIsOfOneVersion, IndexDocuments
  <2> QED BY <1>0, <2>2, <2>4, <2>5 DEF SourceInvariant
<1>4. CASE StartCorpus
  BY <1>0, <1>4, SourceBegin DEF StartCorpus, SourceInvariant
<1>5. CASE EndFirstScan
  <2>1. CASE pass' = Idle
    BY <1>0, <2>1, SourceIdle DEF SourceInvariant
  <2>2. CASE pass' = Begin("sources", pass.files, << >>)
    BY <1>0, <1>5, <2>2, SourceBegin DEF EndFirstScan, PassDone, SourceInvariant, ReadSoFar
  <2> QED BY <1>5, <2>1, <2>2 DEF EndFirstScan, Raise
<1> QED BY <1>1, <1>2, <1>3, <1>4, <1>5

\* The documents of a corpus are those of the snapshot's contents.
LEMMA SourceDocuments ==
    ASSUME SourceInvariant, BuildDocuments \/ EndCorpus \/ EndSnapshot
    PROVE  SourceInvariant'
<1>1. CASE BuildDocuments
  <2>0. UNCHANGED <<snapshot, corpus, index>>
    BY <1>1 DEF BuildDocuments
  <2>1. CASE pass' = Idle
    BY <2>0, <2>1, SourceIdle DEF SourceInvariant
  <2>2. CASE pass' = [Begin("final_scan", pass.files, gitignore) EXCEPT
                         !.documents = UNION {Documents(f, pass.got[f]) : f \in DOMAIN pass.got}]
    <3> DEFINE docs == UNION {Documents(f, pass.got[f]) : f \in DOMAIN pass.got}
    <3>1. docs = DocumentsOf(pass.files)
      BY <1>1, AllSourcesRead DEF BuildDocuments
    <3>2. pass' = [Begin("final_scan", pass.files, gitignore) EXCEPT !.documents = docs]
      BY <2>2
    <3> HIDE DEF docs
    <3>3. pass' = [name |-> "final_scan", next |-> 1, rules |-> gitignore, got |-> Empty,
                   files |-> pass.files, symbols |-> {}, documents |-> docs]
      BY <3>2 DEF Begin
    <3>4. IsPass(pass')
      BY <3>3 DEF IsPass
    <3>5. ReadSoFar' /\ SourcesAreRecorded'
      BY <3>3, <3>4, EmptyIsEmpty DEF SourceInvariant, ReadSoFar, SourcesAreRecorded
    <3>6. IndexIsOfOneVersion'
      BY <2>0 DEF SourceInvariant, IndexIsOfOneVersion, IndexDocuments
    <3>7. pass.name = "sources"
      BY <1>1 DEF BuildDocuments, PassDone
    <3> QED BY <2>0, <3>1, <3>3, <3>5, <3>6, <3>7 DEF SourceInvariant
  <2> QED BY <1>1, <2>1, <2>2 DEF BuildDocuments, Raise
<1>2. CASE EndCorpus
  <2>1. /\ UNCHANGED <<snapshot, index>> /\ pass' = Idle /\ pass.name = "final_scan"
        /\ corpus' \in {corpus, pass.documents}
    BY <1>2 DEF EndCorpus, Raise, PassDone
  <2> QED BY <2>1, SourceIdle DEF SourceInvariant
<1>3. CASE EndSnapshot
  <2>1. pass' = Idle /\ corpus' = None /\ UNCHANGED index /\ snapshot'.files = pass.files
    BY <1>3 DEF EndSnapshot
  <2>2. ReadSoFar' /\ SourcesAreRecorded'
    BY <2>1, NewPasses, EmptyIsEmpty DEF ReadSoFar, SourcesAreRecorded
  <2>3. IndexIsOfOneVersion'
    BY <2>1 DEF SourceInvariant, IndexIsOfOneVersion, IndexDocuments
  <2> QED BY <2>1, <2>2, <2>3, NewPasses DEF SourceInvariant, ReadSoFar
<1> QED BY <1>1, <1>2, <1>3

\* An index takes over its corpus as it is.
LEMMA SourceIndex ==
    ASSUME SourceInvariant, NEW space, NEW provider,
           BuildIndex(space, provider) \/ UpdateIndex(space, provider)
    PROVE  SourceInvariant'
<1>0. UNCHANGED <<pass, snapshot, corpus>> /\ corpus # None
  BY DEF BuildIndex, UpdateIndex
<1>1. index' # None => IndexDocuments' = DocumentsOf(index'.snapshot.files)
  <2>1. CASE UNCHANGED index
    BY <2>1, OneVersionMeans DEF SourceInvariant, IndexDocuments
  <2>2. CASE index' # index
    <3>1. \E vector : index' = [snapshot |-> snapshot, space |-> space,
             entries |-> {[document |-> d, vector |-> vector[d]] : d \in corpus}]
      <4>1. CASE BuildIndex(space, provider)
        <5> DEFINE vector == [d \in corpus |-> FreshVector(space, provider, d)]
        <5>1. index' = [snapshot |-> snapshot, space |-> space,
                 entries |-> {[document |-> d, vector |-> FreshVector(space, provider, d)]
                                 : d \in corpus}]
          BY <2>2, <4>1 DEF BuildIndex
        <5>2. index' = [snapshot |-> snapshot, space |-> space,
                 entries |-> {[document |-> d, vector |-> vector[d]] : d \in corpus}]
          BY <5>1
        <5> QED BY <5>2
      <4>2. CASE UpdateIndex(space, provider)
        <5> DEFINE diff == Difference(index.snapshot, snapshot)
                   vector == [d \in corpus |-> CarriedOver(diff, provider, d)]
        <5>1. index' = [snapshot |-> snapshot, space |-> space,
                 entries |-> {[document |-> d, vector |-> CarriedOver(diff, provider, d)]
                                 : d \in corpus}]
          BY <2>2, <4>2 DEF UpdateIndex
        <5> HIDE DEF diff
        <5>2. index' = [snapshot |-> snapshot, space |-> space,
                 entries |-> {[document |-> d, vector |-> vector[d]] : d \in corpus}]
          BY <5>1
        <5> QED BY <5>2
      <4> QED BY <4>1, <4>2
    <3>2. PICK vector : index' = [snapshot |-> snapshot, space |-> space,
             entries |-> {[document |-> d, vector |-> vector[d]] : d \in corpus}]
      BY <3>1
    <3>3. ASSUME NEW d \in corpus PROVE d \in IndexDocuments'
      <4> DEFINE e == [document |-> d, vector |-> vector[d]]
      <4>1. e \in index'.entries /\ e.document = d
        BY <3>2
      <4> QED BY <4>1 DEF IndexDocuments
    <3>4. ASSUME NEW d \in IndexDocuments' PROVE d \in corpus
      BY <3>2 DEF IndexDocuments
    <3>5. IndexDocuments' = corpus
      BY <3>3, <3>4
    <3> QED BY <1>0, <3>2, <3>5 DEF SourceInvariant
  <2> QED BY <2>1, <2>2
<1>2. IndexIsOfOneVersion'
  BY <1>1 DEF IndexIsOfOneVersion, DocumentsOf, Annotated, IndexDocuments
<1>3. ReadSoFar' /\ SourcesAreRecorded'
  BY <1>0 DEF SourceInvariant, ReadSoFar, SourcesAreRecorded
<1> QED BY <1>0, <1>2, <1>3 DEF SourceInvariant

\* Every step keeps the sources those of one version.
LEMMA SourceNext == SourceInvariant /\ [Next]_vars => SourceInvariant'
<1> SUFFICES ASSUME SourceInvariant, [Next]_vars
             PROVE  SourceInvariant'
  OBVIOUS
<1>1. CASE Edit \/ EmbeddingFails \/ UNCHANGED vars
  <2>1. UNCHANGED <<pass, snapshot, corpus, index>>
    BY <1>1 DEF Edit, EditFile, EditRules, EmbeddingFails, vars
  <2> QED BY <2>1 DEF SourceInvariant, ReadSoFar, SourcesAreRecorded, IndexIsOfOneVersion,
                      IndexDocuments
<1>2. ASSUME NEW space, NEW provider, BuildIndex(space, provider) \/ UpdateIndex(space, provider)
      PROVE  SourceInvariant'
  BY <1>2, SourceIndex
<1> QED BY <1>1, <1>2, SourceTurn, SourceScan, SourceRead, SourceDocuments DEF Next, Build

(* Whatever is edited between the reads of the scans and of the corpus      *)
(* build, an index holds exactly the documents of the contents whose hashes *)
(* its snapshot records, one version of each file (corpus.py build).        *)
THEOREM NoMixedVersions == Spec => []IndexIsOfOneVersion
<1>1. SourceInvariant => IndexIsOfOneVersion
  BY DEF SourceInvariant
<1> QED BY <1>1, SourceInit, SourceNext, PTL DEF Spec

------------------------------------------------------------------------------
(* Counting up, and the sequence Listing makes of a set.                    *)

\* A set of numbers that is not empty has a least one.
LEMMA LeastExists ==
    ASSUME NEW S, S \subseteq Nat, S # {}
    PROVE  \E m \in S : \A k \in S : m <= k
<1>1. PICK R : R = OpToRel(<, Nat)
  OBVIOUS
<1>2. \A k, m \in Nat : <<k, m>> \in R <=> k < m
  BY <1>1 DEF OpToRel
<1>3. IsWellFoundedOn(R, Nat)
  BY <1>1, NatLessThanWellFounded
<1>4. PICK m \in S : \A k \in S : <<k, m>> \notin R
  BY <1>3, WFMin
<1>5. ASSUME NEW k \in S PROVE m <= k
  <2>1. k \in Nat /\ m \in Nat
    OBVIOUS
  <2>2. ~ (k < m)
    BY <1>2, <1>4, <2>1
  <2> QED BY <2>1, <2>2
<1> QED BY <1>5

\* What holds at 0 and is handed on by every turn holds after every turn.
LEMMA EveryTurn ==
    ASSUME NEW n \in Nat, NEW G, 0 \in G,
           \A k \in 1..n : k - 1 \in G => k \in G
    PROVE  \A k \in 0..n : k \in G
<1> DEFINE Bad == {k \in 0..n : k \notin G}
<1>1. SUFFICES ASSUME Bad # {} PROVE FALSE
  OBVIOUS
<1>2. PICK m \in Bad : \A k \in Bad : m <= k
  <2>1. Bad \subseteq Nat
    OBVIOUS
  <2> HIDE DEF Bad
  <2> QED BY <1>1, <2>1, LeastExists
<1>3. m \in 1..n /\ m \notin G
  BY <1>2
<1>4. m - 1 \in 0..n /\ m - 1 \notin Bad
  BY <1>2, <1>3
<1> QED BY <1>3, <1>4

\* f lists every subset of S, the way FoldSet goes through it.
Lists(S, f) ==
    f = [s \in SUBSET S |-> IF s = {} THEN << >> ELSE Append(f[s \ {Pick(s)}], Pick(s))]

\* Two such lists agree where both are defined.
LEMMA ListsAgree ==
    ASSUME NEW S, NEW T, NEW f, NEW g, Lists(S, f), Lists(T, g),
           NEW C, IsFiniteSet(C), C \subseteq S, C \subseteq T
    PROVE  f[C] = g[C]
<1> DEFINE Bad == {V \in SUBSET C : f[V] # g[V]}
<1>1. SUFFICES ASSUME Bad # {} PROVE FALSE
  OBVIOUS
<1>2. PICK V \in Bad : \A U \in Bad : U \subseteq V => U = V
  <2>1. Bad \in SUBSET SUBSET C
    OBVIOUS
  <2> HIDE DEF Bad
  <2> QED BY <1>1, <2>1, SmallestCounterexample
<1>3. /\ V \in SUBSET S /\ V \in SUBSET T
      /\ f[V] = IF V = {} THEN << >> ELSE Append(f[V \ {Pick(V)}], Pick(V))
      /\ g[V] = IF V = {} THEN << >> ELSE Append(g[V \ {Pick(V)}], Pick(V))
  BY DEF Lists
<1>4. V # {} /\ Pick(V) \in V
  BY <1>3, PickIsIn
<1>5. f[V \ {Pick(V)}] = g[V \ {Pick(V)}]
  BY <1>2, <1>4
<1> QED BY <1>3, <1>4, <1>5

\* There is one for every finite set.
LEMMA ListsExist ==
    ASSUME NEW S, IsFiniteSet(S)
    PROVE  \E f : Lists(S, f)
<1> DEFINE Bad == {V \in SUBSET S : ~ \E f : Lists(V, f)}
<1>1. SUFFICES ASSUME Bad # {} PROVE FALSE
  BY <1>1
<1>2. PICK V \in Bad : \A U \in Bad : U \subseteq V => U = V
  <2>1. Bad \in SUBSET SUBSET S
    OBVIOUS
  <2> HIDE DEF Bad
  <2> QED BY <1>1, <2>1, SmallestCounterexample
<1> DEFINE G(U) == CHOOSE f : Lists(U, f)
           h == [s \in SUBSET V |-> IF s = {} THEN << >>
                   ELSE Append(G(s \ {Pick(s)})[s \ {Pick(s)}], Pick(s))]
<1>3. \A U \in SUBSET V : U # V => Lists(U, G(U))
  BY <1>2
<1>4. \A U \in SUBSET V : U # V => h[U] = G(U)[U]
  <2> SUFFICES ASSUME NEW U \in SUBSET V, U # V PROVE h[U] = G(U)[U]
    OBVIOUS
  <2>1. Lists(U, G(U))
    BY <1>3
  <2>2. G(U)[U] = IF U = {} THEN << >> ELSE Append(G(U)[U \ {Pick(U)}], Pick(U))
    <3> HIDE DEF G
    <3> QED BY <2>1 DEF Lists
  <2>3. CASE U = {}
    BY <2>2, <2>3
  <2>4. CASE U # {}
    <3> DEFINE W == U \ {Pick(U)}
    <3>1. W \in SUBSET V /\ W # V /\ W \subseteq U /\ IsFiniteSet(W)
      <4>1. IsFiniteSet(V)
        BY FS_Subset
      <4> QED BY <2>4, <4>1, PickIsIn, FS_Subset
    <3>2. Lists(W, G(W))
      BY <1>3, <3>1
    <3>3. G(U)[W] = G(W)[W]
      <4> HIDE DEF G, W
      <4> QED BY <2>1, <3>1, <3>2, ListsAgree
    <3> QED BY <2>2, <2>4, <3>3
  <2> QED BY <2>3, <2>4
<1>5. \A s \in SUBSET V :
         h[s] = IF s = {} THEN << >> ELSE Append(h[s \ {Pick(s)}], Pick(s))
  <2>1. ASSUME NEW s \in SUBSET V, s = {} PROVE h[s] = << >>
    BY <2>1
  <2>2. ASSUME NEW s \in SUBSET V, s # {}
        PROVE  h[s] = Append(h[s \ {Pick(s)}], Pick(s))
    <3>1. s \ {Pick(s)} \in SUBSET V /\ s \ {Pick(s)} # V
      BY <2>2, PickIsIn
    <3>2. h[s] = Append(G(s \ {Pick(s)})[s \ {Pick(s)}], Pick(s))
      BY <2>2
    <3> QED BY <3>1, <3>2, <1>4
  <2> HIDE DEF h
  <2> QED BY <2>1, <2>2
<1>6. Lists(V, h)
  <2> h = [s \in SUBSET V |-> h[s]]
    OBVIOUS
  <2> HIDE DEF h
  <2> QED BY <1>5 DEF Lists
<1> QED BY <1>6

\* Every member of S once.
Enumerates(seq, S) ==
    /\ seq \in Seq(S)
    /\ Len(seq) = Cardinality(S)
    /\ \A x \in S : \E i \in 1..Len(seq) : seq[i] = x
    /\ \A i, j \in 1..Len(seq) : seq[i] = seq[j] => i = j

\* A listing without x becomes one with x by appending it.
LEMMA AppendEnumerates ==
    ASSUME NEW S, IsFiniteSet(S), NEW x \in S, NEW seq, Enumerates(seq, S \ {x})
    PROVE  Enumerates(Append(seq, x), S)
<1>1. /\ seq \in Seq(S) /\ Len(seq) \in Nat
      /\ \A i \in 1..Len(seq) : seq[i] \in S \ {x}
  <2>1. seq \in Seq(S \ {x})
    BY DEF Enumerates
  <2>2. \A i \in 1..Len(seq) : seq[i] \in S \ {x}
    BY <2>1
  <2>3. Len(seq) \in Nat
    BY <2>1
  <2>4. seq \in Seq(S)
    BY <2>1, <2>2, <2>3, SeqOfRange, IsASeq
  <2> QED BY <2>2, <2>3, <2>4
<1>2. /\ Append(seq, x) \in Seq(S)
      /\ Len(Append(seq, x)) = Len(seq) + 1
      /\ \A i \in 1..Len(seq) : Append(seq, x)[i] = seq[i]
      /\ Append(seq, x)[Len(seq) + 1] = x
  BY <1>1
<1>3. PICK app : app = Append(seq, x)
  OBVIOUS
<1>4. Len(seq) + 1 = Cardinality(S)
  <2>1. Cardinality(S \ {x}) = Cardinality(S) - 1 /\ Cardinality(S) \in Nat
    BY FS_RemoveElement, FS_CardinalityType
  <2> QED BY <2>1 DEF Enumerates
<1>5. ASSUME NEW y \in S PROVE \E i \in 1..Len(app) : app[i] = y
  <2>1. CASE y = x
    BY <1>1, <1>2, <1>3, <2>1
  <2>2. CASE y # x
    <3>1. PICK i \in 1..Len(seq) : seq[i] = y
      BY <2>2 DEF Enumerates
    <3>2. i \in 1..Len(app) /\ app[i] = y
      BY <1>1, <1>2, <1>3, <3>1
    <3> QED BY <3>2
  <2> QED BY <2>1, <2>2
<1>6. ASSUME NEW i \in 1..Len(app), NEW j \in 1..Len(app), app[i] = app[j] PROVE i = j
  <2>1. i \in 1..Len(seq) \/ i = Len(seq) + 1
    BY <1>1, <1>2, <1>3
  <2>2. j \in 1..Len(seq) \/ j = Len(seq) + 1
    BY <1>1, <1>2, <1>3
  <2> QED BY <2>1, <2>2, <1>1, <1>2, <1>3, <1>6 DEF Enumerates
<1> QED BY <1>2, <1>3, <1>4, <1>5, <1>6 DEF Enumerates

(* The listing of a finite set names every member once.                     *)
LEMMA ListingEnumerates ==
    ASSUME NEW S, IsFiniteSet(S)
    PROVE  Enumerates(Listing(S), S)
<1>1. Listing(S) = (CHOOSE f : Lists(S, f))[S]
  BY DEF Listing, FoldSet, MapThenFoldSet, Lists, Pick
<1>2. PICK f : Lists(S, f) /\ Listing(S) = f[S]
  BY <1>1, ListsExist
<1> DEFINE Bad == {V \in SUBSET S : ~ Enumerates(f[V], V)}
<1>3. SUFFICES ASSUME Bad # {} PROVE FALSE
  BY <1>2
<1>4. PICK V \in Bad : IsFiniteSet(V) /\ \A U \in Bad : U \subseteq V => U = V
  <2>1. Bad \in SUBSET SUBSET S
    OBVIOUS
  <2> HIDE DEF Bad
  <2> QED BY <1>3, <2>1, SmallestCounterexample
<1>5. f[V] = IF V = {} THEN << >> ELSE Append(f[V \ {Pick(V)}], Pick(V))
  BY <1>2, <1>4 DEF Lists
<1>6. CASE V = {}
  <2>1. f[V] = << >> /\ Cardinality(V) = 0
    BY <1>5, <1>6, FS_EmptySet
  <2>2. Enumerates(<< >>, V)
    BY <2>1, <1>6 DEF Enumerates
  <2> QED BY <2>1, <2>2, <1>4
<1>7. CASE V # {}
  <2>1. Pick(V) \in V
    BY <1>7, PickIsIn
  <2>2. Enumerates(f[V \ {Pick(V)}], V \ {Pick(V)})
    BY <1>4, <2>1
  <2>3. Enumerates(f[V], V)
    BY <1>4, <1>5, <1>7, <2>1, <2>2, AppendEnumerates
  <2> QED BY <2>3, <1>4
<1> QED BY <1>6, <1>7

------------------------------------------------------------------------------
(* The import graph of a snapshot and what reaches what in it.              *)

IsGraph(V, E) == IsFiniteSet(V) /\ E \subseteq V \X V

Together(V, E, f, g) == Reaches(V, E, f, g) /\ Reaches(V, E, g, f)

\* Reaching is reflexive,
LEMMA ReachesItself ==
    ASSUME NEW V, NEW E, NEW f PROVE Reaches(V, E, f, f)
  BY DEF Reaches

\* transitive,
LEMMA ReachesOn ==
    ASSUME NEW V, NEW E, NEW f, NEW g, NEW h, Reaches(V, E, f, g), Reaches(V, E, g, h)
    PROVE  Reaches(V, E, f, h)
  BY DEF Reaches

\* and holds along every edge.
LEMMA ReachesAlong ==
    ASSUME NEW V, NEW E, NEW e \in E PROVE Reaches(V, E, e[1], e[2])
  BY DEF Reaches

\* To reach each other is an equivalence.
LEMMA TogetherIsEquivalence ==
    ASSUME NEW V, NEW E
    PROVE  /\ \A f : Together(V, E, f, f)
           /\ \A f, g : Together(V, E, f, g) => Together(V, E, g, f)
           /\ \A f, g, h : Together(V, E, f, g) /\ Together(V, E, g, h) => Together(V, E, f, h)
  BY ReachesItself, ReachesOn DEF Together

\* N lists, for every vertex, what its edges lead to, each once.
IsNeighbors(V, E, N) ==
    /\ N \in [V -> Seq(V)]
    /\ \A v \in V : \A i \in 1..Len(N[v]) : <<v, N[v][i]>> \in E
    /\ \A e \in E : \E i \in 1..Len(N[e[1]]) : N[e[1]][i] = e[2]
    /\ \A v \in V : \A i, j \in 1..Len(N[v]) : N[v][i] = N[v][j] => i = j

\* The neighbors the first pass follows are those of the edges.
LEMMA NeighborsAre ==
    ASSUME NEW V, NEW E, IsGraph(V, E)
    PROVE  IsNeighbors(V, E, [v \in V |-> Listing({e[2] : e \in {x \in E : x[1] = v}})])
<1> DEFINE T(v) == {e[2] : e \in {x \in E : x[1] = v}}
           N == [v \in V |-> Listing(T(v))]
<1>1. ASSUME NEW v \in V PROVE T(v) \subseteq V /\ IsFiniteSet(T(v))
  <2>1. T(v) \subseteq V
    BY DEF IsGraph
  <2> HIDE DEF T
  <2> QED BY <2>1, FS_Subset DEF IsGraph
<1>2. \A e \in E : e[1] \in V /\ e[2] \in V /\ e = <<e[1], e[2]>> /\ e[2] \in T(e[1])
  BY DEF IsGraph
<1>3. \A v \in V : \A x \in T(v) : <<v, x>> \in E
  BY <1>2
<1> HIDE DEF T
<1>4. ASSUME NEW v \in V PROVE N[v] = Listing(T(v)) /\ Enumerates(N[v], T(v))
  BY <1>1, ListingEnumerates
<1>5. ASSUME NEW v \in V
      PROVE  /\ N[v] \in Seq(V)
             /\ \A i \in 1..Len(N[v]) : <<v, N[v][i]>> \in E
             /\ \A i, j \in 1..Len(N[v]) : N[v][i] = N[v][j] => i = j
  <2>1. PICK q : q = N[v]
    OBVIOUS
  <2>2. q \in Seq(T(v)) /\ \A i, j \in 1..Len(q) : q[i] = q[j] => i = j
    BY <1>4, <2>1 DEF Enumerates
  <2>3. Len(q) \in Nat /\ \A i \in 1..Len(q) : q[i] \in T(v)
    BY <2>2
  <2>4. q \in Seq(V)
    BY <1>1, <2>2
  <2> QED BY <1>3, <2>1, <2>2, <2>3, <2>4
<1>6. ASSUME NEW e \in E PROVE \E i \in 1..Len(N[e[1]]) : N[e[1]][i] = e[2]
  <2>1. e[1] \in V /\ e[2] \in T(e[1])
    BY <1>2
  <2> HIDE DEF N
  <2> QED BY <2>1, <1>4 DEF Enumerates
<1>7. N \in [V -> Seq(V)]
  BY <1>5
<1>8. IsNeighbors(V, E, N)
  <2> HIDE DEF N
  <2> QED BY <1>5, <1>6, <1>7 DEF IsNeighbors
<1> QED BY <1>8 DEF T

------------------------------------------------------------------------------
(* The first pass.  Below the top of the stack lies a path; every vertex is *)
(* finished after everything it leads to that is not above it; so from a    *)
(* finished vertex nothing is reached that was finished later than the      *)
(* whole of its component, as long as no part of that is on the stack.      *)

Marks(V) == [vertex: V, next: Nat \ {0}]

Passes(V) == [start: Nat \ {0}, visited: SUBSET V, stack: Seq(Marks(V)), finish: Seq(V)]

Finished(s) == {s.finish[i] : i \in 1..Len(s.finish)}
OnStack(s) == {s.stack[i].vertex : i \in 1..Len(s.stack)}

StackIsPath(V, E, s) ==
    /\ \A i \in 1..Len(s.stack) : s.stack[i].vertex \notin Finished(s)
    /\ \A i, j \in 1..Len(s.stack) :
          /\ s.stack[i].vertex = s.stack[j].vertex => i = j
          /\ i <= j => Reaches(V, E, s.stack[i].vertex, s.stack[j].vertex)

EdgesAreFollowed(E, N, s) ==
    /\ \A e \in E : e[1] \in Finished(s) => e[2] \in s.visited
    /\ \A i \in 1..Len(s.stack) :
          /\ s.stack[i].next <= Len(N[s.stack[i].vertex]) + 1
          /\ \A k \in 1..Len(N[s.stack[i].vertex]) :
                k < s.stack[i].next => N[s.stack[i].vertex][k] \in s.visited

\* No vertex v that u leads to was finished after all of u's component.
OutlastedBy(V, E, finish, u, v) ==
    \A b \in 1..Len(finish) :
        finish[b] = v => \E c \in b..Len(finish) : Together(V, E, u, finish[c])

FinishedLast(V, E, s) ==
    \A u \in Finished(s) : \A v \in V :
        Reaches(V, E, u, v) =>
            \/ v \in Finished(s) /\ OutlastedBy(V, E, s.finish, u, v)
            \/ \E i \in 1..Len(s.stack) : Together(V, E, u, s.stack[i].vertex)

PassInvariant(V, E, N, s) ==
    /\ s \in Passes(V)
    /\ s.visited = OnStack(s) \cup Finished(s)
    /\ StackIsPath(V, E, s)
    /\ EdgesAreFollowed(E, N, s)
    /\ FinishedLast(V, E, s)

\* A stack whose top was replaced, or taken off.
LEMMA StackTop ==
    ASSUME NEW S, NEW q \in Seq(S), q # << >>
    PROVE  /\ Len(q) \in Nat \ {0} /\ Last(q) = q[Len(q)] /\ Last(q) \in S
           /\ Front(q) \in Seq(S) /\ Len(Front(q)) = Len(q) - 1
           /\ \A i \in 1..(Len(q) - 1) : Front(q)[i] = q[i]
           /\ \A x \in S : /\ Append(Front(q), x) \in Seq(S)
                           /\ Len(Append(Front(q), x)) = Len(q)
                           /\ \A i \in 1..(Len(q) - 1) : Append(Front(q), x)[i] = q[i]
                           /\ Append(Front(q), x)[Len(q)] = x
<1>1. Len(q) \in Nat \ {0}
  BY EmptySeq
<1>2. /\ Front(q) \in Seq(S) /\ Len(Front(q)) = Len(q) - 1
      /\ \A i \in 1..(Len(q) - 1) : Front(q)[i] = q[i]
  <2>1. PICK n \in Nat : n = Len(q) - 1
    BY <1>1
  <2>2. \A i \in 1..n : q[i] \in S
    BY <1>1, <2>1
  <2>3. /\ SubSeq(q, 1, n) \in Seq(S)
        /\ Len(SubSeq(q, 1, n)) = IF 1 <= n THEN n - 1 + 1 ELSE 0
        /\ \A i \in 1..(n - 1 + 1) : SubSeq(q, 1, n)[i] = q[1 + i - 1]
    BY <2>2, SubSeqProperties
  <2>4. n - 1 + 1 = n /\ (~ (1 <= n) => n = 0) /\ \A i \in 1..n : 1 + i - 1 = i
    OBVIOUS
  <2>5. \A i \in 1..n : SubSeq(q, 1, n)[i] = q[i]
    BY <2>3, <2>4
  <2>6. Len(SubSeq(q, 1, n)) = n
    BY <2>3, <2>4
  <2> QED BY <2>1, <2>3, <2>5, <2>6 DEF Front
<1>3. Last(q) = q[Len(q)] /\ Last(q) \in S
  BY <1>1 DEF Last
<1>4. ASSUME NEW x \in S
      PROVE  /\ Append(Front(q), x) \in Seq(S)
             /\ Len(Append(Front(q), x)) = Len(q)
             /\ \A i \in 1..(Len(q) - 1) : Append(Front(q), x)[i] = q[i]
             /\ Append(Front(q), x)[Len(q)] = x
  <2>1. PICK f : f = Front(q)
    OBVIOUS
  <2> QED BY <1>1, <1>2, <2>1, AppendProperties
<1> QED BY <1>1, <1>2, <1>3, <1>4

\* The invariant looks at the vertices of the stack, at what each has
\* followed, at the finished and at the visited.
LEMMA SamePath ==
    ASSUME NEW V, NEW E, NEW N, NEW s, NEW t, PassInvariant(V, E, N, s),
           t \in Passes(V), t.finish = s.finish, t.visited = s.visited,
           Len(t.stack) = Len(s.stack),
           \A i \in 1..Len(s.stack) : t.stack[i].vertex = s.stack[i].vertex,
           EdgesAreFollowed(E, N, t)
    PROVE  PassInvariant(V, E, N, t)
<1>1. Finished(t) = Finished(s)
  BY DEF Finished
<1>2. OnStack(t) = OnStack(s)
  BY DEF OnStack
<1>3. StackIsPath(V, E, t)
  BY <1>1 DEF StackIsPath, PassInvariant
<1>4. FinishedLast(V, E, t)
  BY <1>1 DEF FinishedLast, PassInvariant
<1> QED BY <1>1, <1>2, <1>3, <1>4 DEF PassInvariant

\* A vertex put on top of the stack that was not visited before.
LEMMA LongerPath ==
    ASSUME NEW V, NEW E, NEW N, NEW s, NEW t, PassInvariant(V, E, N, s),
           NEW w \in V, w \notin s.visited,
           t \in Passes(V), t.finish = s.finish, t.visited = s.visited \cup {w},
           Len(t.stack) = Len(s.stack) + 1, t.stack[Len(s.stack) + 1].vertex = w,
           \A i \in 1..Len(s.stack) : /\ t.stack[i].vertex = s.stack[i].vertex
                                     /\ Reaches(V, E, s.stack[i].vertex, w),
           EdgesAreFollowed(E, N, t)
    PROVE  PassInvariant(V, E, N, t)
<1>0. s \in Passes(V) /\ Len(s.stack) \in Nat
  BY DEF PassInvariant, Passes
<1>1. Finished(t) = Finished(s) /\ w \notin Finished(s) /\ w \notin OnStack(s)
  BY DEF Finished, PassInvariant
<1>2. OnStack(t) = OnStack(s) \cup {w}
  <2>1. ASSUME NEW i \in 1..Len(t.stack) PROVE t.stack[i].vertex \in OnStack(s) \cup {w}
    BY <1>0 DEF OnStack
  <2>2. ASSUME NEW i \in 1..Len(s.stack) PROVE s.stack[i].vertex \in OnStack(t)
    <3>1. i \in 1..Len(t.stack) /\ t.stack[i].vertex = s.stack[i].vertex
      BY <1>0
    <3> QED BY <3>1 DEF OnStack
  <2>3. w \in OnStack(t)
    <3>1. Len(s.stack) + 1 \in 1..Len(t.stack)
      BY <1>0
    <3> QED BY <3>1 DEF OnStack
  <2>4. OnStack(t) \subseteq OnStack(s) \cup {w}
    BY <2>1 DEF OnStack
  <2>5. OnStack(s) \subseteq OnStack(t)
    BY <2>2 DEF OnStack
  <2> QED BY <2>3, <2>4, <2>5
<1>3. StackIsPath(V, E, t)
  <2>1. ASSUME NEW i \in 1..Len(t.stack)
        PROVE  \/ i \in 1..Len(s.stack) /\ t.stack[i].vertex = s.stack[i].vertex
               \/ i = Len(s.stack) + 1 /\ t.stack[i].vertex = w
    BY <1>0
  <2>2. ASSUME NEW i \in 1..Len(t.stack) PROVE t.stack[i].vertex \notin Finished(t)
    BY <2>1, <1>1 DEF PassInvariant, StackIsPath
  <2>3. \A i \in 1..Len(s.stack) : s.stack[i].vertex # w
    BY <1>1 DEF OnStack
  <2>4. ASSUME NEW i \in 1..Len(t.stack), NEW j \in 1..Len(t.stack),
               t.stack[i].vertex = t.stack[j].vertex
        PROVE  i = j
    <3>1. CASE i \in 1..Len(s.stack) /\ j \in 1..Len(s.stack)
      BY <2>4, <3>1 DEF PassInvariant, StackIsPath
    <3> QED BY <2>1, <2>3, <2>4, <3>1
  <2>5. ASSUME NEW i \in 1..Len(t.stack), NEW j \in 1..Len(t.stack), i <= j
        PROVE  Reaches(V, E, t.stack[i].vertex, t.stack[j].vertex)
    <3>1. CASE i \in 1..Len(s.stack) /\ j \in 1..Len(s.stack)
      BY <2>5, <3>1 DEF PassInvariant, StackIsPath
    <3>2. CASE i \in 1..Len(s.stack) /\ j = Len(s.stack) + 1
      BY <3>2
    <3>3. CASE i = Len(s.stack) + 1 /\ j = Len(s.stack) + 1
      BY <3>3, ReachesItself
    <3>4. ~ (i = Len(s.stack) + 1 /\ j \in 1..Len(s.stack))
      BY <1>0, <2>5
    <3> QED BY <2>1, <3>1, <3>2, <3>3, <3>4
  <2> QED BY <2>2, <2>4, <2>5 DEF StackIsPath
<1>4. FinishedLast(V, E, t)
  <2> SUFFICES ASSUME NEW u \in Finished(t), NEW v \in V, Reaches(V, E, u, v)
               PROVE  \/ v \in Finished(t) /\ OutlastedBy(V, E, t.finish, u, v)
                      \/ \E i \in 1..Len(t.stack) : Together(V, E, u, t.stack[i].vertex)
    BY DEF FinishedLast
  <2>1. CASE v \in Finished(s) /\ OutlastedBy(V, E, s.finish, u, v)
    BY <1>1, <2>1
  <2>2. ASSUME NEW i \in 1..Len(s.stack), Together(V, E, u, s.stack[i].vertex)
        PROVE  \E k \in 1..Len(t.stack) : Together(V, E, u, t.stack[k].vertex)
    <3>1. i \in 1..Len(t.stack) /\ t.stack[i].vertex = s.stack[i].vertex
      BY <1>0
    <3> QED BY <2>2, <3>1
  <2> QED BY <1>1, <2>1, <2>2 DEF PassInvariant, FinishedLast
<1> QED BY <1>1, <1>2, <1>3, <1>4 DEF PassInvariant

\* Where nothing below the top leads back to it, everything it reaches is
\* finished before it.
LEMMA ReachedIsFinished ==
    ASSUME NEW V, NEW E, NEW N, IsGraph(V, E), IsNeighbors(V, E, N),
           NEW s, PassInvariant(V, E, N, s), NEW top \in 1..Len(s.stack), top = Len(s.stack),
           s.stack[top].next > Len(N[s.stack[top].vertex]),
           \A i \in 1..(top - 1) : ~ Together(V, E, s.stack[top].vertex, s.stack[i].vertex),
           NEW v \in V, Reaches(V, E, s.stack[top].vertex, v)
    PROVE  v \in Finished(s) \cup {s.stack[top].vertex}
<1>0. PICK x : x = s.stack[top].vertex
  OBVIOUS
<1> DEFINE S == {y \in V : Reaches(V, E, x, y) /\ y \in Finished(s) \cup {x}}
<1>1. x \in V /\ s.stack[top].next \in Nat
  <2>1. s.stack \in Seq(Marks(V))
    BY DEF PassInvariant, Passes
  <2>2. s.stack[top] \in Marks(V)
    BY <2>1
  <2> QED BY <1>0, <2>2 DEF Marks
<1>2. x \in S
  BY <1>1, ReachesItself
<1>3. ASSUME NEW e \in E, e[1] \in S PROVE e[2] \in S
  <2>1. e[1] \in V /\ e[2] \in V /\ Reaches(V, E, x, e[2])
    BY <1>3, ReachesAlong, ReachesOn DEF IsGraph
  <2>2. e[2] \in s.visited
    <3>1. CASE e[1] \in Finished(s)
      BY <3>1 DEF PassInvariant, EdgesAreFollowed
    <3>2. CASE e[1] = x
      <4>1. PICK k \in 1..Len(N[x]) : N[x][k] = e[2]
        BY <3>2 DEF IsNeighbors
      <4>2. Len(N[x]) \in Nat /\ s.stack[top].next \in Nat
        BY <1>1 DEF IsNeighbors
      <4>3. k < s.stack[top].next
        BY <1>0, <4>1, <4>2
      <4> QED BY <1>0, <4>1, <4>3 DEF PassInvariant, EdgesAreFollowed
    <3> QED BY <1>3, <3>1, <3>2
  <2>3. CASE e[2] \in Finished(s)
    BY <2>1, <2>3
  <2>4. ASSUME NEW i \in 1..Len(s.stack), e[2] = s.stack[i].vertex PROVE e[2] = x
    <3>1. CASE i = top
      BY <1>0, <2>4, <3>1
    <3>2. CASE i # top
      <4>1. i \in 1..(top - 1) /\ i <= top
        BY <3>2 DEF PassInvariant, Passes
      <4>2. Reaches(V, E, s.stack[i].vertex, x)
        BY <1>0, <4>1 DEF PassInvariant, StackIsPath
      <4>3. Together(V, E, x, s.stack[i].vertex)
        BY <2>1, <2>4, <4>2 DEF Together
      <4> QED BY <1>0, <4>1, <4>3
    <3> QED BY <3>1, <3>2
  <2> QED BY <2>1, <2>2, <2>3, <2>4 DEF PassInvariant, OnStack
<1>4. v \in S
  <2>1. S \in SUBSET V /\ Reaches(V, E, x, v)
    BY <1>0
  <2> HIDE DEF S
  <2> QED BY <1>2, <1>3, <2>1 DEF Reaches
<1> QED BY <1>0, <1>4

\* The top of the stack is finished.
LEMMA FinishedPath ==
    ASSUME NEW V, NEW E, NEW N, IsGraph(V, E), IsNeighbors(V, E, N),
           NEW s, NEW t, PassInvariant(V, E, N, s), s.stack # << >>,
           s.stack[Len(s.stack)].next > Len(N[s.stack[Len(s.stack)].vertex]),
           t \in Passes(V), t.visited = s.visited, t.stack = Front(s.stack),
           t.finish = Append(s.finish, s.stack[Len(s.stack)].vertex)
    PROVE  PassInvariant(V, E, N, t) /\ Finished(t) = Finished(s) \cup {s.stack[Len(s.stack)].vertex}
<1>0. PICK n, x : n = Len(s.stack) /\ x = s.stack[n].vertex
  OBVIOUS
<1>1. /\ s \in Passes(V) /\ n \in Nat \ {0} /\ n \in 1..Len(s.stack)
      /\ s.stack \in Seq(Marks(V)) /\ s.finish \in Seq(V) /\ s.start \in Nat \ {0}
      /\ s.visited \in SUBSET V /\ x \in V /\ Len(s.finish) \in Nat
  <2>1. s \in Passes(V)
    BY DEF PassInvariant
  <2>2. n \in Nat \ {0} /\ n \in 1..Len(s.stack) /\ s.stack \in Seq(Marks(V))
    BY <1>0, <2>1, StackTop DEF Passes
  <2>3. s.stack[n] \in Marks(V)
    BY <2>2
  <2> QED BY <1>0, <2>1, <2>2, <2>3 DEF Passes, Marks
<1>2. /\ Front(s.stack) \in Seq(Marks(V)) /\ Len(Front(s.stack)) = n - 1
      /\ \A i \in 1..(n - 1) : Front(s.stack)[i] = s.stack[i]
  BY <1>0, <1>1, StackTop
<1>3. t.finish = Append(s.finish, x)
  BY <1>0
<1>4. /\ Len(t.stack) = n - 1
      /\ \A i \in 1..(n - 1) : i \in 1..Len(s.stack) /\ i # n /\ t.stack[i] = s.stack[i]
  BY <1>0, <1>1, <1>2, <1>3
<1>5. /\ Len(t.finish) = Len(s.finish) + 1
      /\ \A b \in 1..Len(s.finish) : t.finish[b] = s.finish[b]
      /\ t.finish[Len(s.finish) + 1] = x
  BY <1>1, <1>3
<1>6. Finished(t) = Finished(s) \cup {x}
  <2>1. ASSUME NEW b \in 1..Len(t.finish) PROVE t.finish[b] \in Finished(s) \cup {x}
    <3>1. b \in 1..Len(s.finish) \/ b = Len(s.finish) + 1
      BY <1>1, <1>5
    <3> QED BY <1>5, <3>1 DEF Finished
  <2>2. ASSUME NEW b \in 1..Len(s.finish) PROVE s.finish[b] \in Finished(t)
    <3>1. b \in 1..Len(t.finish) /\ t.finish[b] = s.finish[b]
      BY <1>1, <1>5
    <3> QED BY <3>1 DEF Finished
  <2>3. x \in Finished(t)
    <3>1. Len(s.finish) + 1 \in 1..Len(t.finish)
      BY <1>1, <1>5
    <3> QED BY <1>5, <3>1 DEF Finished
  <2> QED BY <2>1, <2>2, <2>3 DEF Finished
<1>7. x \notin Finished(s) /\ \A i \in 1..(n - 1) : s.stack[i].vertex # x
  BY <1>0, <1>1, <1>4 DEF PassInvariant, StackIsPath
<1>8. OnStack(s) = OnStack(t) \cup {x}
  <2>1. ASSUME NEW i \in 1..Len(s.stack) PROVE s.stack[i].vertex \in OnStack(t) \cup {x}
    <3>1. i = n \/ i \in 1..Len(t.stack)
      BY <1>0, <1>1, <1>4
    <3> QED BY <1>0, <1>4, <3>1 DEF OnStack
  <2>2. ASSUME NEW i \in 1..Len(t.stack) PROVE t.stack[i].vertex \in OnStack(s)
    BY <1>4 DEF OnStack
  <2>3. x \in OnStack(s)
    BY <1>0, <1>1 DEF OnStack
  <2> QED BY <2>1, <2>2, <2>3 DEF OnStack
<1>9. t.visited = OnStack(t) \cup Finished(t)
  BY <1>3, <1>6, <1>8 DEF PassInvariant
<1>10. StackIsPath(V, E, t)
  BY <1>4, <1>6, <1>7 DEF PassInvariant, StackIsPath
<1>11. EdgesAreFollowed(E, N, t)
  <2>1. ASSUME NEW e \in E, e[1] = x PROVE e[2] \in s.visited
    <3>1. PICK k \in 1..Len(N[x]) : N[x][k] = e[2]
      BY <2>1 DEF IsNeighbors
    <3>2. Len(N[x]) \in Nat /\ s.stack[n].next \in Nat
      <4>1. s.stack[n] \in Marks(V)
        BY <1>1
      <4>2. s.stack[n].next \in Nat
        BY <4>1 DEF Marks
      <4>3. N[x] \in Seq(V)
        BY <1>1, <4>1 DEF IsNeighbors, Marks
      <4> QED BY <4>2, <4>3
    <3>3. k < s.stack[n].next
      BY <1>0, <3>1, <3>2
    <3> QED BY <1>0, <1>1, <3>1, <3>3 DEF PassInvariant, EdgesAreFollowed
  <2> QED BY <2>1, <1>3, <1>4, <1>6 DEF PassInvariant, EdgesAreFollowed
<1>12. FinishedLast(V, E, t)
  <2> SUFFICES ASSUME NEW u \in Finished(t), NEW v \in V, Reaches(V, E, u, v),
                      \A i \in 1..Len(t.stack) : ~ Together(V, E, u, t.stack[i].vertex)
               PROVE  v \in Finished(t) /\ OutlastedBy(V, E, t.finish, u, v)
    BY DEF FinishedLast
  <2>1. CASE Together(V, E, u, x)
    <3>1. Reaches(V, E, x, v)
      BY <2>1, ReachesOn DEF Together
    <3>2. ASSUME NEW i \in 1..(n - 1), Together(V, E, x, s.stack[i].vertex) PROVE FALSE
      <4>1. Together(V, E, u, s.stack[i].vertex)
        BY <2>1, <3>2, TogetherIsEquivalence
      <4>2. i \in 1..Len(t.stack) /\ t.stack[i].vertex = s.stack[i].vertex
        BY <1>4
      <4> QED BY <4>1, <4>2
    <3>3. v \in Finished(s) \cup {x}
      BY <1>0, <1>1, <3>1, <3>2, ReachedIsFinished
    <3>4. ASSUME NEW b \in 1..Len(t.finish)
          PROVE  \E c \in b..Len(t.finish) : Together(V, E, u, t.finish[c])
      <4>1. Len(s.finish) + 1 \in b..Len(t.finish)
        BY <1>1, <1>5
      <4> QED BY <1>5, <2>1, <4>1
    <3> QED BY <1>6, <3>3, <3>4 DEF OutlastedBy
  <2>2. CASE ~ Together(V, E, u, x)
    <3>1. u \in Finished(s)
      BY <1>6, <2>2, TogetherIsEquivalence
    <3>2. \A i \in 1..Len(s.stack) : ~ Together(V, E, u, s.stack[i].vertex)
      <4>1. ASSUME NEW i \in 1..Len(s.stack) PROVE i = n \/ i \in 1..Len(t.stack)
        BY <1>0, <1>1, <1>4
      <4> QED BY <4>1, <1>0, <1>4, <2>2
    <3>3. v \in Finished(s) /\ OutlastedBy(V, E, s.finish, u, v)
      BY <3>1, <3>2 DEF PassInvariant, FinishedLast
    <3>4. ASSUME NEW b \in 1..Len(t.finish), t.finish[b] = v
          PROVE  \E c \in b..Len(t.finish) : Together(V, E, u, t.finish[c])
      <4>1. b # Len(s.finish) + 1
        BY <1>5, <1>7, <3>3, <3>4
      <4>2. b \in 1..Len(s.finish) /\ s.finish[b] = v
        BY <1>1, <1>5, <3>4, <4>1
      <4>3. PICK c \in b..Len(s.finish) : Together(V, E, u, s.finish[c])
        BY <3>3, <4>2 DEF OutlastedBy
      <4>4. c \in b..Len(t.finish) /\ t.finish[c] = s.finish[c]
        BY <1>1, <1>5, <4>2, <4>3
      <4> QED BY <4>3, <4>4
    <3> QED BY <1>6, <3>3, <3>4 DEF OutlastedBy
  <2> QED BY <2>1, <2>2
<1> QED BY <1>0, <1>3, <1>6, <1>9, <1>10, <1>11, <1>12 DEF PassInvariant

\* The edges the pass has followed.
Followed(E, N, s) ==
    {e \in E : \/ e[1] \in Finished(s)
               \/ \E i \in 1..Len(s.stack) : \E k \in 1..Len(N[e[1]]) :
                     /\ s.stack[i].vertex = e[1] /\ N[e[1]][k] = e[2]
                     /\ k < s.stack[i].next}

\* One more at every turn until the pass is over.
Progress(E, N, s) == (s.start - 1) + Cardinality(Finished(s)) + Cardinality(Followed(E, N, s))

IsOver(order, s) == s.stack = << >> /\ s.start > Len(order)

TurnInvariant(V, E, order, N, s, k) ==
    /\ PassInvariant(V, E, N, s)
    /\ s.start <= Len(order) + 1
    /\ \A i \in 1..Len(order) : i < s.start => order[i] \in s.visited
    /\ IsOver(order, s) \/ Progress(E, N, s) = k

\* What Progress counts is finite.
LEMMA CountsAreNumbers ==
    ASSUME NEW V, NEW E, NEW N, IsGraph(V, E), NEW s, PassInvariant(V, E, N, s)
    PROVE  /\ IsFiniteSet(Finished(s)) /\ Finished(s) \subseteq V
           /\ IsFiniteSet(E) /\ IsFiniteSet(Followed(E, N, s)) /\ Followed(E, N, s) \subseteq E
           /\ Cardinality(Finished(s)) \in Nat /\ Cardinality(Followed(E, N, s)) \in Nat
           /\ s.start \in Nat \ {0} /\ Progress(E, N, s) \in Nat
<1>1. Finished(s) \subseteq V
  <2>1. s.finish \in Seq(V)
    BY DEF PassInvariant, Passes
  <2>2. \A i \in 1..Len(s.finish) : s.finish[i] \in V
    BY <2>1
  <2> QED BY <2>2 DEF Finished
<1>2. IsFiniteSet(E)
  BY FS_Product, FS_Subset DEF IsGraph
<1>3. Followed(E, N, s) \subseteq E
  BY DEF Followed
<1>4. IsFiniteSet(Finished(s)) /\ IsFiniteSet(Followed(E, N, s))
  BY <1>1, <1>2, <1>3, FS_Subset DEF IsGraph
<1>5. Cardinality(Finished(s)) \in Nat /\ Cardinality(Followed(E, N, s)) \in Nat
  BY <1>4, FS_CardinalityType
<1>6. s.start \in Nat \ {0}
  BY DEF PassInvariant, Passes
<1> QED BY <1>1, <1>2, <1>3, <1>4, <1>5, <1>6 DEF Progress

\* The top of the stack is a vertex that is not finished.
LEMMA TopOfStack ==
    ASSUME NEW V, NEW E, NEW N, IsNeighbors(V, E, N), NEW s, PassInvariant(V, E, N, s), s.stack # << >>
    PROVE  /\ s.stack \in Seq(Marks(V)) /\ Len(s.stack) \in Nat \ {0}
           /\ Len(s.stack) \in 1..Len(s.stack)
           /\ Last(s.stack) = s.stack[Len(s.stack)] /\ Last(s.stack) \in Marks(V)
           /\ Last(s.stack).vertex \in V /\ Last(s.stack).next \in Nat \ {0}
           /\ N[Last(s.stack).vertex] \in Seq(V) /\ Len(N[Last(s.stack).vertex]) \in Nat
           /\ Last(s.stack).vertex \notin Finished(s)
<1>1. s.stack \in Seq(Marks(V))
  BY DEF PassInvariant, Passes
<1>2. /\ Len(s.stack) \in Nat \ {0} /\ Last(s.stack) = s.stack[Len(s.stack)]
      /\ Last(s.stack) \in Marks(V)
  BY <1>1, StackTop
<1>3. Last(s.stack).vertex \in V /\ Last(s.stack).next \in Nat \ {0}
  BY <1>2 DEF Marks
<1>4. N[Last(s.stack).vertex] \in Seq(V)
  BY <1>3 DEF IsNeighbors
<1>5. Len(N[Last(s.stack).vertex]) \in Nat
  BY <1>4
<1>6. Last(s.stack).vertex \notin Finished(s)
  BY <1>2 DEF PassInvariant, StackIsPath
<1> QED BY <1>1, <1>2, <1>3, <1>4, <1>5, <1>6

\* A vertex without an edge left is taken off the stack.
LEMMA FinishTurn ==
    ASSUME NEW V, NEW E, NEW N, IsGraph(V, E), IsNeighbors(V, E, N),
           NEW s, PassInvariant(V, E, N, s), s.stack # << >>,
           Last(s.stack).next > Len(N[Last(s.stack).vertex])
    PROVE  /\ PassInvariant(V, E, N, FinishStep(N, s))
           /\ FinishStep(N, s).start = s.start /\ FinishStep(N, s).visited = s.visited
           /\ Progress(E, N, FinishStep(N, s)) = Progress(E, N, s) + 1
<1>0. PICK n, m, x : n = Len(s.stack) /\ m = Last(s.stack) /\ x = m.vertex
  OBVIOUS
<1>1. /\ s.stack \in Seq(Marks(V)) /\ n \in Nat \ {0} /\ n \in 1..n /\ m = s.stack[n]
      /\ x \in V /\ m.next \in Nat /\ Len(N[x]) \in Nat /\ x \notin Finished(s)
      /\ m.next > Len(N[x])
  BY <1>0, TopOfStack
<1>2. /\ Front(s.stack) \in Seq(Marks(V)) /\ Len(Front(s.stack)) = n - 1
      /\ \A i \in 1..(n - 1) : Front(s.stack)[i] = s.stack[i]
  BY <1>0, <1>1, StackTop
<1>3. s \in Passes(V)
  BY DEF PassInvariant
<1>4. PICK t : t = FinishStep(N, s)
  OBVIOUS
<1>5. t = [s EXCEPT !.stack = Front(s.stack), !.finish = Append(@, x)]
  BY <1>0, <1>1, <1>4 DEF FinishStep
<1>6. /\ t \in Passes(V) /\ t.visited = s.visited /\ t.stack = Front(s.stack)
      /\ t.finish = Append(s.finish, x) /\ t.start = s.start
  <2>1. Append(s.finish, x) \in Seq(V)
    BY <1>1, <1>3 DEF Passes
  <2>2. PICK a, b : a = Front(s.stack) /\ b = Append(s.finish, x)
    OBVIOUS
  <2>3. t = [s EXCEPT !.stack = a, !.finish = b]
    BY <1>5, <2>2
  <2>4. /\ t \in Passes(V) /\ t.visited = s.visited /\ t.stack = a /\ t.finish = b
        /\ t.start = s.start
    BY <1>2, <1>3, <2>1, <2>2, <2>3 DEF Passes
  <2> QED BY <2>2, <2>4
<1>7. PassInvariant(V, E, N, t) /\ Finished(t) = Finished(s) \cup {x}
  BY <1>0, <1>1, <1>6, FinishedPath
<1>8. Followed(E, N, t) = Followed(E, N, s)
  <2>1. ASSUME NEW e \in E, e[1] = x PROVE e \in Followed(E, N, s)
    <3>1. PICK k \in 1..Len(N[x]) : N[x][k] = e[2]
      BY <2>1 DEF IsNeighbors
    <3>2. k < m.next
      BY <1>1, <3>1
    <3> QED BY <1>0, <1>1, <2>1, <3>1, <3>2 DEF Followed
  <2>2. ASSUME NEW e \in E, e[1] # x, e \in Followed(E, N, s) PROVE e \in Followed(E, N, t)
    <3>1. CASE e[1] \in Finished(s)
      BY <1>7, <3>1 DEF Followed
    <3>2. ASSUME NEW i \in 1..Len(s.stack), NEW k \in 1..Len(N[e[1]]),
                 s.stack[i].vertex = e[1], N[e[1]][k] = e[2], k < s.stack[i].next
          PROVE  e \in Followed(E, N, t)
      <4>1. i # n
        BY <1>0, <1>1, <2>2, <3>2
      <4>2. i \in 1..(n - 1)
        BY <1>0, <1>1, <4>1
      <4>3. Len(t.stack) = n - 1 /\ \A h \in 1..(n - 1) : t.stack[h] = s.stack[h]
        BY <1>2, <1>6
      <4>4. i \in 1..Len(t.stack) /\ t.stack[i] = s.stack[i]
        BY <4>2, <4>3
      <4> QED BY <3>2, <4>4 DEF Followed
    <3> QED BY <2>2, <3>1, <3>2 DEF Followed
  <2>3. ASSUME NEW e \in E, e[1] # x, e \in Followed(E, N, t) PROVE e \in Followed(E, N, s)
    <3>1. CASE e[1] \in Finished(t)
      BY <1>7, <2>3, <3>1 DEF Followed
    <3>2. ASSUME NEW i \in 1..Len(t.stack), NEW k \in 1..Len(N[e[1]]),
                 t.stack[i].vertex = e[1], N[e[1]][k] = e[2], k < t.stack[i].next
          PROVE  e \in Followed(E, N, s)
      <4>1. i \in 1..Len(s.stack) /\ t.stack[i] = s.stack[i]
        BY <1>0, <1>1, <1>2, <1>6
      <4> QED BY <3>2, <4>1 DEF Followed
    <3> QED BY <2>3, <3>1, <3>2 DEF Followed
  <2>4. ASSUME NEW e \in E, e[1] = x PROVE e \in Followed(E, N, t)
    BY <1>7, <2>4 DEF Followed
  <2>5. Followed(E, N, t) \subseteq E /\ Followed(E, N, s) \subseteq E
    BY DEF Followed
  <2> QED BY <2>1, <2>2, <2>3, <2>4, <2>5
<1>9. Cardinality(Finished(t)) = Cardinality(Finished(s)) + 1
  BY <1>1, <1>7, CountsAreNumbers, FS_AddElement
<1>10. Progress(E, N, t) = Progress(E, N, s) + 1
  <2>1. /\ Cardinality(Finished(s)) \in Nat /\ Cardinality(Followed(E, N, s)) \in Nat
        /\ s.start \in Nat
    BY CountsAreNumbers
  <2>2. PICK a, b, c : /\ a = Cardinality(Finished(s)) /\ b = Cardinality(Followed(E, N, s))
                       /\ c = s.start
    OBVIOUS
  <2>3. Progress(E, N, s) = (c - 1) + a + b
    BY <2>2 DEF Progress
  <2>4. Progress(E, N, t) = (c - 1) + (a + 1) + b
    BY <1>6, <1>8, <1>9, <2>2 DEF Progress
  <2>5. a \in Nat /\ b \in Nat /\ c \in Nat
    BY <2>1, <2>2
  <2> QED BY <2>3, <2>4, <2>5
<1> QED BY <1>4, <1>6, <1>7, <1>10

\* What following an edge does to the edges followed.  The stack may have a
\* new vertex on top that has followed nothing.
LEMMA OneMoreEdge ==
    ASSUME NEW V, NEW E, NEW N, IsGraph(V, E), IsNeighbors(V, E, N),
           NEW s, PassInvariant(V, E, N, s), s.stack # << >>,
           NEW x, x = Last(s.stack).vertex, NEW j \in 1..Len(N[x]), j = Last(s.stack).next,
           NEW t, Finished(t) = Finished(s), Len(t.stack) \in Nat, Len(t.stack) >= Len(s.stack),
           \A i \in 1..(Len(s.stack) - 1) : t.stack[i] = s.stack[i],
           t.stack[Len(s.stack)].vertex = x, t.stack[Len(s.stack)].next = j + 1,
           \A i \in 1..Len(t.stack) : i > Len(s.stack) => t.stack[i].next = 1
    PROVE  Cardinality(Followed(E, N, t)) = Cardinality(Followed(E, N, s)) + 1
<1>0. PICK n, w : n = Len(s.stack) /\ w = N[x][j]
  OBVIOUS
<1>1. /\ n \in Nat \ {0} /\ n \in 1..Len(s.stack) /\ s.stack[n].vertex = x /\ s.stack[n].next = j
      /\ x \in V /\ Len(N[x]) \in Nat /\ x \notin Finished(s) /\ n \in 1..Len(t.stack)
  BY <1>0, TopOfStack
<1>2. <<x, w>> \in E
  BY <1>0, <1>1 DEF IsNeighbors
<1>3. <<x, w>> \notin Followed(E, N, s)
  <2> SUFFICES ASSUME NEW i \in 1..Len(s.stack), NEW k \in 1..Len(N[x]),
                      s.stack[i].vertex = x, N[x][k] = w, k < s.stack[i].next
               PROVE  FALSE
    BY <1>1 DEF Followed
  <2>1. i = n
    BY <1>1 DEF PassInvariant, StackIsPath
  <2>2. k = j
    <3>1. N[x][k] = N[x][j]
      BY <1>0
    <3>2. x \in V
      BY <1>1
    <3> QED BY <3>1, <3>2 DEF IsNeighbors
  <2> QED BY <1>1, <2>1, <2>2
<1>4. ASSUME NEW e \in Followed(E, N, s) PROVE e \in Followed(E, N, t)
  <2>1. CASE e[1] \in Finished(s)
    BY <2>1 DEF Followed
  <2>2. ASSUME NEW i \in 1..Len(s.stack), NEW k \in 1..Len(N[e[1]]),
               s.stack[i].vertex = e[1], N[e[1]][k] = e[2], k < s.stack[i].next
        PROVE  e \in Followed(E, N, t)
    <3>1. i \in 1..Len(t.stack) /\ (i = n \/ i \in 1..(n - 1))
      BY <1>0, <1>1
    <3>2. t.stack[i].vertex = e[1] /\ k < t.stack[i].next
      <4>1. CASE i = n
        <5>1. x = e[1] /\ k < j
          <6>1. s.stack[n].vertex = e[1] /\ k < s.stack[n].next
            BY <2>2, <4>1
          <6> QED BY <6>1, <1>1
        <5>2. t.stack[n].vertex = x /\ t.stack[n].next = j + 1 /\ j \in Nat /\ k \in Nat
          BY <1>0, <1>1
        <5>3. k < j + 1
          BY <5>1, <5>2
        <5> QED BY <4>1, <5>1, <5>2, <5>3
      <4>2. CASE i \in 1..(n - 1)
        BY <1>0, <2>2, <4>2
      <4> QED BY <3>1, <4>1, <4>2
    <3> QED BY <2>2, <3>1, <3>2 DEF Followed
  <2> QED BY <2>1, <2>2 DEF Followed
<1>5. <<x, w>> \in Followed(E, N, t)
  <2>1. j < t.stack[n].next /\ t.stack[n].vertex = x
    BY <1>0
  <2> QED BY <1>0, <1>1, <1>2, <2>1 DEF Followed
<1>6. ASSUME NEW e \in Followed(E, N, t), e \notin Followed(E, N, s) PROVE e = <<x, w>>
  <2>1. e \in E /\ e[1] \notin Finished(t)
    BY <1>6 DEF Followed
  <2>2. PICK i \in 1..Len(t.stack), k \in 1..Len(N[e[1]]) :
           t.stack[i].vertex = e[1] /\ N[e[1]][k] = e[2] /\ k < t.stack[i].next
    BY <2>1 DEF Followed
  <2>3. i \in 1..(n - 1) \/ i = n \/ i > n
    BY <1>1
  <2>4. ~ (i > n)
    <3>1. e[1] \in V /\ N[e[1]] \in Seq(V)
      BY <2>1 DEF IsGraph, IsNeighbors
    <3>2. k \in Nat \ {0}
      BY <3>1
    <3> QED BY <1>0, <2>2, <3>2
  <2>5. i \notin 1..(n - 1)
    <3>1. ASSUME i \in 1..(n - 1) PROVE i \in 1..Len(s.stack) /\ s.stack[i] = t.stack[i]
      BY <1>0, <1>1, <3>1
    <3> QED BY <1>6, <2>1, <2>2, <3>1 DEF Followed
  <2>6. e[1] = x /\ k < j + 1
    BY <1>0, <2>2, <2>3, <2>4, <2>5
  <2>7. ~ (k < j)
    <3> SUFFICES ASSUME k < j PROVE FALSE
      OBVIOUS
    <3>1. s.stack[n].vertex = e[1] /\ k < s.stack[n].next
      BY <1>1, <2>6
    <3> QED BY <1>1, <1>6, <2>1, <2>2, <3>1 DEF Followed
  <2>8. k = j
    BY <1>1, <2>6, <2>7
  <2>9. e = <<e[1], e[2]>>
    BY <2>1 DEF IsGraph
  <2> QED BY <1>0, <2>2, <2>6, <2>8, <2>9
<1>7. Followed(E, N, t) = Followed(E, N, s) \cup {<<x, w>>}
  BY <1>4, <1>5, <1>6
<1>8. IsFiniteSet(Followed(E, N, s))
  BY CountsAreNumbers
<1>9. PICK F, e : F = Followed(E, N, s) /\ e = <<x, w>>
  OBVIOUS
<1>10. Cardinality(F \cup {e}) = Cardinality(F) + 1
  BY <1>3, <1>8, <1>9, FS_AddElement
<1> QED BY <1>7, <1>9, <1>10

\* A turn that starts a file or follows an edge makes progress by one.
LEMMA OneFurther ==
    ASSUME NEW V, NEW E, NEW N, IsGraph(V, E), NEW s, PassInvariant(V, E, N, s),
           NEW t, Finished(t) = Finished(s),
           \/ /\ t.start = s.start
              /\ Cardinality(Followed(E, N, t)) = Cardinality(Followed(E, N, s)) + 1
           \/ /\ t.start = s.start + 1
              /\ Followed(E, N, t) = Followed(E, N, s)
    PROVE  Progress(E, N, t) = Progress(E, N, s) + 1
<1>1. PICK i, m, n : i = s.start /\ m = Cardinality(Finished(s)) /\ n = Cardinality(Followed(E, N, s))
  OBVIOUS
<1>2. i \in Nat /\ m \in Nat /\ n \in Nat
  BY <1>1, CountsAreNumbers
<1>3. Progress(E, N, s) = (i - 1) + m + n
  BY <1>1 DEF Progress
<1>4. \/ Progress(E, N, t) = (i - 1) + m + (n + 1)
      \/ Progress(E, N, t) = ((i + 1) - 1) + m + n
  BY <1>1 DEF Progress
<1> QED BY <1>2, <1>3, <1>4

\* The next edge of the top vertex is followed.
LEMMA FollowTurn ==
    ASSUME NEW V, NEW E, NEW N, IsGraph(V, E), IsNeighbors(V, E, N),
           NEW s, PassInvariant(V, E, N, s), s.stack # << >>,
           ~ (Last(s.stack).next > Len(N[Last(s.stack).vertex]))
    PROVE  /\ PassInvariant(V, E, N, FinishStep(N, s))
           /\ FinishStep(N, s).start = s.start /\ s.visited \subseteq FinishStep(N, s).visited
           /\ Progress(E, N, FinishStep(N, s)) = Progress(E, N, s) + 1
<1>0. PICK n, m, x, j : n = Len(s.stack) /\ m = Last(s.stack) /\ x = m.vertex /\ j = m.next
  OBVIOUS
<1>1. /\ s.stack \in Seq(Marks(V)) /\ n \in Nat \ {0} /\ n \in 1..n /\ m = s.stack[n]
      /\ m \in Marks(V) /\ x \in V /\ Len(N[x]) \in Nat /\ j \in 1..Len(N[x])
      /\ N[x] \in Seq(V) /\ x \notin Finished(s)
  <2>1. /\ s.stack \in Seq(Marks(V)) /\ n \in Nat \ {0} /\ n \in 1..n /\ m = s.stack[n]
        /\ m \in Marks(V) /\ x \in V /\ Len(N[x]) \in Nat /\ j \in Nat \ {0}
        /\ N[x] \in Seq(V) /\ x \notin Finished(s)
    BY <1>0, TopOfStack
  <2>2. ~ (j > Len(N[x]))
    BY <1>0
  <2> QED BY <2>1, <2>2
<1>2. PICK w, a, up : w = N[x][j] /\ up = [m EXCEPT !.next = @ + 1] /\ a = Append(Front(s.stack), up)
  OBVIOUS
<1>3. w \in V /\ <<x, w>> \in E /\ Reaches(V, E, x, w)
  <2>1. w \in V
    BY <1>1, <1>2
  <2>2. <<x, w>> \in E
    BY <1>1, <1>2 DEF IsNeighbors
  <2>3. Reaches(V, E, <<x, w>>[1], <<x, w>>[2])
    BY <2>2, ReachesAlong
  <2> QED BY <2>1, <2>2, <2>3
<1>4. up \in Marks(V) /\ up.vertex = x /\ up.next = j + 1
  <2>1. up = [m EXCEPT !.next = @ + 1]
    BY <1>2
  <2>2. m \in Marks(V) /\ m.vertex = x /\ m.next = j /\ j \in Nat \ {0}
    BY <1>0, <1>1
  <2> QED BY <2>1, <2>2 DEF Marks
<1>5. /\ a \in Seq(Marks(V)) /\ Len(a) = n /\ a[n] = up
      /\ \A i \in 1..(n - 1) : a[i] = s.stack[i]
  <2>1. PICK q : q = s.stack
    OBVIOUS
  <2>2. q \in Seq(Marks(V)) /\ q # << >>
    BY <1>1, <2>1
  <2>3. /\ Append(Front(q), up) \in Seq(Marks(V)) /\ Len(Append(Front(q), up)) = Len(q)
        /\ \A i \in 1..(Len(q) - 1) : Append(Front(q), up)[i] = q[i]
        /\ Append(Front(q), up)[Len(q)] = up
    BY <1>4, <2>2, StackTop
  <2>4. a = Append(Front(q), up) /\ n = Len(q)
    BY <1>0, <1>2, <2>1
  <2> QED BY <2>1, <2>3, <2>4
<1>6. /\ s \in Passes(V) /\ s.visited \in SUBSET V /\ s.start \in Nat \ {0} /\ s.finish \in Seq(V)
      /\ s = [start |-> s.start, visited |-> s.visited, stack |-> s.stack, finish |-> s.finish]
  BY DEF PassInvariant, Passes
<1>7. PICK t : t = FinishStep(N, s)
  OBVIOUS
<1>8. t = IF w \in s.visited THEN [s EXCEPT !.stack = a]
          ELSE [s EXCEPT !.visited = @ \cup {w}, !.stack = Append(a, [vertex |-> w, next |-> 1])]
  BY <1>0, <1>1, <1>2, <1>7 DEF FinishStep
\* The edges of the vertices that were on the stack.
<1>9. ASSUME NEW i \in 1..n
      PROVE  /\ a[i].vertex = s.stack[i].vertex
             /\ a[i].next <= Len(N[a[i].vertex]) + 1
             /\ \A k \in 1..Len(N[a[i].vertex]) :
                   k < a[i].next => N[a[i].vertex][k] \in s.visited \cup {w}
  <2>1. CASE i # n
    <3>1. a[i] = s.stack[i]
      BY <1>1, <1>5, <2>1
    <3> QED BY <1>0, <3>1 DEF PassInvariant, EdgesAreFollowed
  <2>2. CASE i = n
    <3>1. a[i] = up /\ s.stack[i].vertex = x /\ s.stack[i].next = j
      BY <1>0, <1>1, <1>5, <2>2
    <3>2. ASSUME NEW k \in 1..Len(N[x]), k < j + 1 PROVE N[x][k] \in s.visited \cup {w}
      <4>1. k = j \/ k < j
        BY <1>1, <3>2
      <4>2. k < j => N[x][k] \in s.visited
        BY <1>0, <3>1 DEF PassInvariant, EdgesAreFollowed
      <4> QED BY <4>1, <4>2, <1>2
    <3> QED BY <1>1, <1>4, <3>1, <3>2
  <2> QED BY <2>1, <2>2
<1>10. ASSUME NEW i \in 1..n PROVE Reaches(V, E, s.stack[i].vertex, w)
  <2>1. Reaches(V, E, s.stack[i].vertex, x)
    <3>1. n \in 1..Len(s.stack) /\ i \in 1..Len(s.stack) /\ i <= n /\ s.stack[n].vertex = x
      BY <1>0, <1>1
    <3> QED BY <3>1 DEF PassInvariant, StackIsPath
  <2> QED BY <2>1, <1>3, ReachesOn
<1>11. CASE w \in s.visited
  <2>1. t = [start |-> s.start, visited |-> s.visited, stack |-> a, finish |-> s.finish]
    BY <1>6, <1>8, <1>11
  <2>2. /\ t \in Passes(V) /\ t.start = s.start /\ t.visited = s.visited /\ t.stack = a
        /\ t.finish = s.finish
    BY <1>5, <1>6, <2>1 DEF Passes
  <2>3. Finished(t) = Finished(s)
    BY <2>2 DEF Finished
  <2>4. EdgesAreFollowed(E, N, t)
    BY <1>5, <1>9, <1>11, <2>2, <2>3 DEF EdgesAreFollowed, PassInvariant
  <2>5. PassInvariant(V, E, N, t)
    BY <1>0, <1>5, <1>9, <2>2, <2>4, SamePath
  <2>6. Cardinality(Followed(E, N, t)) = Cardinality(Followed(E, N, s)) + 1
    <3>1. \A i \in 1..Len(a) : ~ (i > n)
      BY <1>1, <1>5
    <3>2. a[n].vertex = x /\ a[n].next = j + 1 /\ Len(a) \in Nat /\ Len(a) >= n
      BY <1>1, <1>4, <1>5
    <3>3. /\ x = Last(s.stack).vertex /\ j \in 1..Len(N[x]) /\ j = Last(s.stack).next
          /\ Len(t.stack) \in Nat /\ Len(t.stack) >= Len(s.stack)
          /\ \A i \in 1..(Len(s.stack) - 1) : t.stack[i] = s.stack[i]
          /\ t.stack[Len(s.stack)].vertex = x /\ t.stack[Len(s.stack)].next = j + 1
          /\ \A i \in 1..Len(t.stack) : i > Len(s.stack) => t.stack[i].next = 1
      BY <1>0, <1>1, <1>5, <2>2, <3>1, <3>2
    <3> QED BY <2>3, <3>3, OneMoreEdge
  <2>7. Progress(E, N, t) = Progress(E, N, s) + 1
    BY <2>3, <2>6, <2>2, OneFurther
  <2> QED BY <1>7, <2>2, <2>5, <2>7
<1>12. CASE w \notin s.visited
  <2> DEFINE b == Append(a, [vertex |-> w, next |-> 1])
  <2>0. [vertex |-> w, next |-> 1] \in Marks(V)
    BY <1>3 DEF Marks
  <2>1. /\ b \in Seq(Marks(V)) /\ Len(b) = n + 1 /\ b[n + 1] = [vertex |-> w, next |-> 1]
        /\ \A i \in 1..n : b[i] = a[i]
    BY <1>1, <1>5, <2>0, AppendProperties
  <2> HIDE DEF b
  <2>2. t = [start |-> s.start, visited |-> s.visited \cup {w}, stack |-> b, finish |-> s.finish]
    BY <1>6, <1>8, <1>12 DEF b
  <2>3. /\ t \in Passes(V) /\ t.start = s.start /\ t.visited = s.visited \cup {w} /\ t.stack = b
        /\ t.finish = s.finish
    BY <1>3, <1>6, <2>1, <2>2 DEF Passes
  <2>4. Finished(t) = Finished(s)
    BY <2>3 DEF Finished
  <2>5. ASSUME NEW i \in 1..Len(b)
        PROVE  \/ i \in 1..n /\ b[i] = a[i]
               \/ i = n + 1 /\ b[i] = [vertex |-> w, next |-> 1]
    BY <1>1, <2>1
  <2>6. EdgesAreFollowed(E, N, t)
    <3>1. \A e \in E : e[1] \in Finished(t) => e[2] \in t.visited
      BY <2>3, <2>4 DEF EdgesAreFollowed, PassInvariant
    <3>2. ASSUME NEW i \in 1..Len(b)
          PROVE  /\ b[i].next <= Len(N[b[i].vertex]) + 1
                 /\ \A k \in 1..Len(N[b[i].vertex]) :
                       k < b[i].next => N[b[i].vertex][k] \in t.visited
      <4>1. CASE i \in 1..n /\ b[i] = a[i]
        BY <1>9, <2>3, <4>1
      <4>2. CASE i = n + 1 /\ b[i] = [vertex |-> w, next |-> 1]
        <5>1. Len(N[w]) \in Nat
          BY <1>3 DEF IsNeighbors
        <5>2. b[i].vertex = w /\ b[i].next = 1
          BY <4>2
        <5>3. 1 <= Len(N[w]) + 1 /\ \A k \in 1..Len(N[w]) : ~ (k < 1)
          BY <5>1
        <5> QED BY <5>2, <5>3
      <4> QED BY <2>5, <4>1, <4>2
    <3> QED BY <2>3, <3>1, <3>2 DEF EdgesAreFollowed
  <2>7. \A i \in 1..n : b[i].vertex = s.stack[i].vertex
    BY <1>9, <2>1
  <2>8. PassInvariant(V, E, N, t)
    <3>1. b[n + 1].vertex = w
      BY <2>1
    <3> QED BY <1>0, <1>3, <1>10, <1>12, <2>1, <2>3, <2>6, <2>7, <3>1, LongerPath
  <2>9. Cardinality(Followed(E, N, t)) = Cardinality(Followed(E, N, s)) + 1
    <3>1. \A i \in 1..Len(b) : i > n => b[i].next = 1
      <4>1. \A i \in 1..Len(b) : i > n => i = n + 1
        BY <1>1, <2>1
      <4> QED BY <2>1, <4>1
    <3>2. b[n].vertex = x /\ b[n].next = j + 1 /\ Len(b) \in Nat /\ Len(b) >= n
      BY <1>1, <1>4, <1>5, <2>1
    <3>3. \A i \in 1..(n - 1) : b[i] = s.stack[i]
      BY <1>1, <1>5, <2>1
    <3>4. /\ x = Last(s.stack).vertex /\ j \in 1..Len(N[x]) /\ j = Last(s.stack).next
          /\ Len(t.stack) \in Nat /\ Len(t.stack) >= Len(s.stack)
          /\ \A i \in 1..(Len(s.stack) - 1) : t.stack[i] = s.stack[i]
          /\ t.stack[Len(s.stack)].vertex = x /\ t.stack[Len(s.stack)].next = j + 1
          /\ \A i \in 1..Len(t.stack) : i > Len(s.stack) => t.stack[i].next = 1
      BY <1>0, <1>1, <2>3, <3>1, <3>2, <3>3
    <3> QED BY <2>4, <3>4, OneMoreEdge
  <2>10. Progress(E, N, t) = Progress(E, N, s) + 1
    BY <2>4, <2>9, <2>3, OneFurther
  <2>11. s.visited \subseteq t.visited
    BY <2>3
  <2> QED BY <1>7, <2>3, <2>8, <2>10, <2>11
<1> QED BY <1>11, <1>12

\* With nothing on the stack the next file is taken up, or passed over.
LEMMA StartTurn ==
    ASSUME NEW V, NEW E, NEW N, IsGraph(V, E), IsNeighbors(V, E, N),
           NEW s, PassInvariant(V, E, N, s), s.stack = << >>,
           NEW order \in Seq(V), s.start <= Len(order)
    PROVE  /\ PassInvariant(V, E, N, StartStep(order, s))
           /\ StartStep(order, s).start = s.start + 1
           /\ StartStep(order, s).visited = s.visited \cup {order[s.start]}
           /\ Progress(E, N, StartStep(order, s)) = Progress(E, N, s) + 1
<1>0. PICK w, t : w = order[s.start] /\ t = StartStep(order, s)
  OBVIOUS
<1>1. /\ s \in Passes(V) /\ s.visited \in SUBSET V /\ s.start \in Nat \ {0} /\ s.finish \in Seq(V)
      /\ s = [start |-> s.start, visited |-> s.visited, stack |-> s.stack, finish |-> s.finish]
      /\ Len(s.stack) = 0
  BY DEF PassInvariant, Passes
<1>2. w \in V
  <2>1. s.start \in 1..Len(order)
    BY <1>1
  <2> QED BY <1>0, <2>1
<1>3. CASE w \in s.visited
  <2>1. t = [start |-> s.start + 1, visited |-> s.visited, stack |-> s.stack, finish |-> s.finish]
    BY <1>0, <1>1, <1>3 DEF StartStep
  <2>2. /\ t \in Passes(V) /\ t.start = s.start + 1 /\ t.visited = s.visited
        /\ t.stack = s.stack /\ t.finish = s.finish
    BY <1>1, <2>1 DEF Passes
  <2>3. Finished(t) = Finished(s) /\ Followed(E, N, t) = Followed(E, N, s)
    BY <2>2 DEF Finished, Followed
  <2>4. EdgesAreFollowed(E, N, t)
    BY <2>2, <2>3 DEF EdgesAreFollowed, PassInvariant
  <2>5. PassInvariant(V, E, N, t)
    BY <2>2, <2>4, SamePath
  <2>6. t.visited = s.visited \cup {w}
    BY <2>2, <1>3
  <2>7. Progress(E, N, t) = Progress(E, N, s) + 1
    BY <2>2, <2>3, OneFurther
  <2> QED BY <1>0, <2>2, <2>5, <2>6, <2>7
<1>4. CASE w \notin s.visited
  <2> DEFINE b == <<[vertex |-> w, next |-> 1]>>
  <2>1. b \in Seq(Marks(V)) /\ Len(b) = 1 /\ b[1] = [vertex |-> w, next |-> 1]
    BY <1>2 DEF Marks
  <2> HIDE DEF b
  <2>2. t = [start |-> s.start + 1, visited |-> s.visited \cup {w}, stack |-> b, finish |-> s.finish]
    BY <1>0, <1>1, <1>4 DEF StartStep, b
  <2>3. /\ t \in Passes(V) /\ t.start = s.start + 1 /\ t.visited = s.visited \cup {w}
        /\ t.stack = b /\ t.finish = s.finish
    BY <1>1, <1>2, <2>1, <2>2 DEF Passes
  <2>4. Finished(t) = Finished(s)
    BY <2>3 DEF Finished
  <2>5. \A i \in 1..Len(b) : i = 1 /\ b[i].vertex = w /\ b[i].next = 1
    BY <2>1
  <2>6. EdgesAreFollowed(E, N, t)
    <3>1. \A e \in E : e[1] \in Finished(t) => e[2] \in t.visited
      BY <2>3, <2>4 DEF EdgesAreFollowed, PassInvariant
    <3>2. Len(N[w]) \in Nat
      BY <1>2 DEF IsNeighbors
    <3>3. 1 <= Len(N[w]) + 1 /\ \A k \in 1..Len(N[w]) : ~ (k < 1)
      BY <3>2
    <3> QED BY <2>3, <2>5, <3>1, <3>3 DEF EdgesAreFollowed
  <2>7. PassInvariant(V, E, N, t)
    <3>1. Len(t.stack) = Len(s.stack) + 1 /\ t.stack[Len(s.stack) + 1].vertex = w
      BY <1>1, <2>1, <2>3
    <3>2. \A i \in 1..Len(s.stack) : FALSE
      BY <1>1
    <3> QED BY <1>2, <1>4, <2>3, <2>6, <3>1, <3>2, LongerPath
  <2>8. Followed(E, N, t) = Followed(E, N, s)
    <3>1. ASSUME NEW e \in E, NEW i \in 1..Len(t.stack), NEW k \in 1..Len(N[e[1]]),
                 k < t.stack[i].next
          PROVE  FALSE
      <4>1. e[1] \in V /\ N[e[1]] \in Seq(V)
        BY DEF IsGraph, IsNeighbors
      <4>2. k \in Nat \ {0}
        BY <4>1
      <4> QED BY <2>3, <2>5, <3>1, <4>2
    <3>2. ASSUME NEW i \in 1..Len(s.stack) PROVE FALSE
      BY <1>1
    <3> QED BY <2>4, <3>1, <3>2 DEF Followed
  <2>9. Progress(E, N, t) = Progress(E, N, s) + 1
    BY <2>3, <2>4, <2>8, OneFurther
  <2> QED BY <1>0, <2>3, <2>7, <2>9
<1> QED BY <1>3, <1>4

\* Every turn of the first pass keeps its invariant and counts as one.
LEMMA FirstPassTurn ==
    ASSUME NEW V, NEW E, NEW N, IsGraph(V, E), IsNeighbors(V, E, N),
           NEW order, Enumerates(order, V),
           NEW s, NEW k \in Nat, TurnInvariant(V, E, order, N, s, k)
    PROVE  TurnInvariant(V, E, order, N, FirstPass(order, N, s), k + 1)
<1>0. /\ PassInvariant(V, E, N, s) /\ s.start \in Nat \ {0} /\ s.start <= Len(order) + 1
      /\ order \in Seq(V) /\ Len(order) \in Nat
      /\ \A i \in 1..Len(order) : i < s.start => order[i] \in s.visited
  <2>1. order \in Seq(V)
    BY DEF Enumerates
  <2>2. PassInvariant(V, E, N, s)
    BY DEF TurnInvariant
  <2>3. Len(order) \in Nat
    BY <2>1
  <2>4. s.start \in Nat \ {0}
    BY <2>2, CountsAreNumbers
  <2> QED BY <2>1, <2>2, <2>3, <2>4 DEF TurnInvariant
<1>1. PICK t : t = FirstPass(order, N, s)
  OBVIOUS
<1>2. CASE s.stack # << >>
  <2>1. t = FinishStep(N, s) /\ Progress(E, N, s) = k
    BY <1>1, <1>2 DEF FirstPass, TurnInvariant, IsOver
  <2>2. /\ PassInvariant(V, E, N, t) /\ t.start = s.start /\ s.visited \subseteq t.visited
        /\ Progress(E, N, t) = k + 1
    BY <1>0, <1>2, <2>1, FinishTurn, FollowTurn
  <2> QED BY <1>0, <1>1, <2>2 DEF TurnInvariant
<1>3. CASE s.stack = << >> /\ s.start <= Len(order)
  <2>1. t = StartStep(order, s) /\ Progress(E, N, s) = k
    BY <1>0, <1>1, <1>3 DEF FirstPass, TurnInvariant, IsOver
  <2>2. /\ PassInvariant(V, E, N, t) /\ t.start = s.start + 1
        /\ t.visited = s.visited \cup {order[s.start]} /\ Progress(E, N, t) = k + 1
    BY <1>0, <1>3, <2>1, StartTurn
  <2>3. \A i \in 1..Len(order) : i < s.start + 1 => order[i] \in t.visited
    <3>1. \A i \in 1..Len(order) : i < s.start + 1 => i < s.start \/ i = s.start
      BY <1>0
    <3> QED BY <1>0, <2>2, <3>1
  <2>4. s.start + 1 <= Len(order) + 1
    BY <1>0, <1>3
  <2> QED BY <1>1, <2>2, <2>3, <2>4 DEF TurnInvariant
<1>4. CASE s.stack = << >> /\ ~ (s.start <= Len(order))
  <2>1. t = s /\ IsOver(order, s)
    BY <1>0, <1>1, <1>4 DEF FirstPass, IsOver
  <2> QED BY <1>1, <2>1 DEF TurnInvariant
<1> QED BY <1>2, <1>3, <1>4

NoPass == [start |-> 1, visited |-> {}, stack |-> << >>, finish |-> << >>]

\* The first pass begins with nothing visited.
LEMMA FirstTurn ==
    ASSUME NEW V, NEW E, NEW N, IsGraph(V, E), NEW order, Enumerates(order, V)
    PROVE  TurnInvariant(V, E, order, N, NoPass, 0)
<1>1. NoPass \in Passes(V) /\ Len(NoPass.stack) = 0 /\ Len(NoPass.finish) = 0 /\ NoPass.start = 1
      /\ NoPass.visited = {}
  BY DEF NoPass, Passes
<1>2. Finished(NoPass) = {} /\ OnStack(NoPass) = {} /\ Followed(E, N, NoPass) = {}
  <2>1. \A i \in 1..Len(NoPass.stack) : FALSE
    BY <1>1
  <2>2. \A i \in 1..Len(NoPass.finish) : FALSE
    BY <1>1
  <2> QED BY <2>1, <2>2 DEF Finished, OnStack, Followed
<1>3. PassInvariant(V, E, N, NoPass)
  <2>1. \A i \in 1..Len(NoPass.stack) : FALSE
    BY <1>1
  <2> QED BY <1>1, <1>2, <2>1 DEF PassInvariant, StackIsPath, EdgesAreFollowed, FinishedLast
<1>4. Progress(E, N, NoPass) = 0
  BY <1>1, <1>2, FS_EmptySet DEF Progress
<1>5. Len(order) \in Nat
  BY DEF Enumerates
<1>6. 1 <= Len(order) + 1 /\ \A i \in 1..Len(order) : ~ (i < 1)
  BY <1>5
<1> QED BY <1>1, <1>3, <1>4, <1>6 DEF TurnInvariant

\* f follows the turns of the first pass.
Turns(f, n, order, N) ==
    f = [k \in 0..n |-> IF k = 0 THEN NoPass ELSE FirstPass(order, N, f[k - 1])]

\* The recursion that runs the first pass defines a function.
LEMMA TurnsExist ==
    ASSUME NEW n \in Nat, NEW order, NEW N
    PROVE  \E f : Turns(f, n, order, N)
<1> DEFINE Good == {m \in 0..n : \E f : Turns(f, m, order, N)}
<1>1. 0 \in Good
  <2>1. PICK f : f = [k \in 0..0 |-> NoPass]
    OBVIOUS
  <2>2. \A k \in 0..0 : k = 0
    OBVIOUS
  <2>3. Turns(f, 0, order, N)
    BY <2>1, <2>2 DEF Turns
  <2> QED BY <2>3
<1>2. ASSUME NEW m \in 1..n, m - 1 \in Good PROVE m \in Good
  <2>1. PICK g : Turns(g, m - 1, order, N)
    BY <1>2
  <2> DEFINE f == [k \in 0..m |-> IF k < m THEN g[k] ELSE FirstPass(order, N, g[m - 1])]
  <2>2. \A k \in 0..(m - 1) : f[k] = g[k]
    OBVIOUS
  <2>3. ASSUME NEW k \in 0..m
        PROVE  f[k] = IF k = 0 THEN NoPass ELSE FirstPass(order, N, f[k - 1])
    <3>1. CASE k = 0
      <4>1. f[k] = g[k] /\ k \in 0..(m - 1)
        BY <2>2, <3>1
      <4> QED BY <2>1, <3>1, <4>1 DEF Turns
    <3>2. CASE k # 0 /\ k < m
      <4>1. k \in 0..(m - 1) /\ k - 1 \in 0..(m - 1)
        BY <3>2
      <4>2. f[k] = g[k] /\ f[k - 1] = g[k - 1]
        BY <2>2, <4>1
      <4> QED BY <2>1, <3>2, <4>1, <4>2 DEF Turns
    <3>3. CASE k # 0 /\ k = m
      <4>1. f[m] = FirstPass(order, N, g[m - 1]) /\ m - 1 \in 0..(m - 1)
        OBVIOUS
      <4>2. f[m - 1] = g[m - 1]
        BY <2>2, <4>1
      <4> QED BY <3>3, <4>1, <4>2
    <3> QED BY <3>1, <3>2, <3>3
  <2>4. f = [k \in 0..m |-> f[k]]
    OBVIOUS
  <2>5. Turns(f, m, order, N)
    <3> HIDE DEF f
    <3> QED BY <2>3, <2>4 DEF Turns
  <2> QED BY <2>5
<1>3. n \in Good
  <2> HIDE DEF Good
  <2>1. \A k \in 0..n : k \in Good
    BY <1>1, <1>2, EveryTurn
  <2> QED BY <2>1
<1> QED BY <1>3

\* The order in which a first pass may leave the vertices: no vertex comes
\* later than the whole component of a vertex that reaches it.
IsFinishOrder(V, E, q) ==
    /\ q \in Seq(V)
    /\ \A x \in V : \E i \in 1..Len(q) : q[i] = x
    /\ \A a, b \in 1..Len(q) :
          Reaches(V, E, q[a], q[b]) => \E c \in b..Len(q) : Together(V, E, q[a], q[c])

\* After as many turns as files and edges allow, the first pass is over.
LEMMA OverIsFinished ==
    ASSUME NEW V, NEW E, NEW N, IsGraph(V, E), NEW order, Enumerates(order, V),
           NEW s, TurnInvariant(V, E, order, N, s, 2 * Cardinality(V) + Cardinality(E))
    PROVE  IsFinishOrder(V, E, s.finish)
<1>0. /\ PassInvariant(V, E, N, s) /\ s.start \in Nat \ {0} /\ s.start <= Len(order) + 1
      /\ Len(order) \in Nat /\ Len(order) = Cardinality(V)
      /\ s.stack \in Seq(Marks(V)) /\ s.finish \in Seq(V)
  BY CountsAreNumbers DEF TurnInvariant, Enumerates, PassInvariant, Passes
<1>1. IsOver(order, s)
  <2> SUFFICES ASSUME Progress(E, N, s) = 2 * Cardinality(V) + Cardinality(E)
               PROVE  IsOver(order, s)
    BY DEF TurnInvariant
  <2>1. /\ IsFiniteSet(E) /\ IsFiniteSet(V) /\ Finished(s) \subseteq V /\ Followed(E, N, s) \subseteq E
    BY CountsAreNumbers, <1>0 DEF IsGraph
  <2>2. PICK i, m, n, a, b : /\ i = s.start /\ m = Cardinality(Finished(s))
                             /\ n = Cardinality(Followed(E, N, s))
                             /\ a = Cardinality(V) /\ b = Cardinality(E)
    OBVIOUS
  <2>3. m <= a /\ n <= b
    BY <2>1, <2>2, FS_Subset
  <2>4. i \in Nat \ {0} /\ m \in Nat /\ n \in Nat /\ a \in Nat /\ b \in Nat /\ i <= a + 1
    BY <1>0, <2>1, <2>2, CountsAreNumbers, FS_CardinalityType
  <2>5. (i - 1) + m + n = 2 * a + b
    BY <2>2 DEF Progress
  <2>6. i = a + 1 /\ m = a
    BY <2>3, <2>4, <2>5
  <2>7. Finished(s) = V
    BY <2>1, <2>2, <2>6, FS_Subset
  <2>8. s.stack = << >>
    <3> SUFFICES ASSUME s.stack # << >> PROVE FALSE
      OBVIOUS
    <3>1. Len(s.stack) \in 1..Len(s.stack) /\ s.stack[Len(s.stack)] \in Marks(V)
      BY <1>0, StackTop
    <3>2. s.stack[Len(s.stack)].vertex \in V
      BY <3>1 DEF Marks
    <3> QED BY <1>0, <2>7, <3>1, <3>2 DEF PassInvariant, StackIsPath
  <2> QED BY <1>0, <2>2, <2>4, <2>6, <2>8 DEF IsOver
<1>2. Len(s.stack) = 0 /\ \A i \in 1..Len(s.stack) : FALSE
  BY <1>1 DEF IsOver
<1>3. ASSUME NEW x \in V PROVE x \in Finished(s)
  <2>1. PICK i \in 1..Len(order) : order[i] = x
    BY DEF Enumerates
  <2>2. i < s.start
    BY <1>0, <1>1 DEF IsOver
  <2>3. x \in s.visited
    BY <2>1, <2>2 DEF TurnInvariant
  <2> QED BY <1>0, <1>2, <2>3 DEF PassInvariant, OnStack
<1>4. ASSUME NEW a \in 1..Len(s.finish), NEW b \in 1..Len(s.finish),
             Reaches(V, E, s.finish[a], s.finish[b])
      PROVE  \E c \in b..Len(s.finish) : Together(V, E, s.finish[a], s.finish[c])
  <2>1. s.finish[a] \in Finished(s) /\ s.finish[b] \in V
    BY <1>0 DEF Finished
  <2>2. OutlastedBy(V, E, s.finish, s.finish[a], s.finish[b])
    BY <1>0, <1>2, <1>4, <2>1 DEF PassInvariant, FinishedLast
  <2> QED BY <2>2 DEF OutlastedBy
<1> QED BY <1>0, <1>3, <1>4 DEF IsFinishOrder, Finished

(* The first pass ends and leaves the vertices in such an order.            *)
LEMMA FinishOrderIs ==
    ASSUME NEW V, NEW E, IsGraph(V, E)
    PROVE  IsFinishOrder(V, E, FinishOrder(V, E))
<1>1. PICK N : N = [v \in V |-> Listing({e[2] : e \in {x \in E : x[1] = v}})]
  OBVIOUS
<1>2. IsNeighbors(V, E, N)
  BY <1>1, NeighborsAre
<1>3. PICK order : order = Listing(V) /\ Enumerates(order, V)
  BY ListingEnumerates DEF IsGraph
<1>4. PICK turns \in Nat : turns = 2 * Cardinality(V) + Cardinality(E)
  <2>1. IsFiniteSet(V) /\ IsFiniteSet(E)
    BY FS_Product, FS_Subset DEF IsGraph
  <2>2. Cardinality(V) \in Nat /\ Cardinality(E) \in Nat
    BY <2>1, FS_CardinalityType
  <2> QED BY <2>2
<1>5. FinishOrder(V, E) = (CHOOSE f : Turns(f, turns, order, N))[turns].finish
  BY <1>1, <1>3, <1>4 DEF FinishOrder, Turns, NoPass
<1>6. PICK f : Turns(f, turns, order, N) /\ FinishOrder(V, E) = f[turns].finish
  BY <1>5, TurnsExist
<1> DEFINE Good == {k \in 0..turns : TurnInvariant(V, E, order, N, f[k], k)}
<1>7. 0 \in Good
  <2>1. f[0] = NoPass
    BY <1>6 DEF Turns
  <2> QED BY <1>3, <2>1, FirstTurn
<1>8. ASSUME NEW k \in 1..turns, k - 1 \in Good PROVE k \in Good
  <2>1. f[k] = FirstPass(order, N, f[k - 1])
    BY <1>6 DEF Turns
  <2>2. k - 1 \in Nat /\ (k - 1) + 1 = k
    OBVIOUS
  <2>3. TurnInvariant(V, E, order, N, f[k - 1], k - 1)
    BY <1>8
  <2>4. TurnInvariant(V, E, order, N, f[k], (k - 1) + 1)
    BY <1>2, <1>3, <2>1, <2>2, <2>3, FirstPassTurn
  <2> QED BY <2>2, <2>4
<1>9. TurnInvariant(V, E, order, N, f[turns], turns)
  <2> HIDE DEF Good
  <2>1. \A k \in 0..turns : k \in Good
    BY <1>7, <1>8, EveryTurn
  <2> QED BY <2>1 DEF Good
<1> QED BY <1>3, <1>4, <1>6, <1>9, OverIsFinished

------------------------------------------------------------------------------
(* The second pass: flooding against the edges.                             *)

\* f follows the flood back from start.
Floods(f, n, E, free, start) ==
    f = [k \in 0..n |-> IF k = 0 THEN {start} ELSE Back(E, free, f[k - 1])]

\* The recursion of the flood defines a function.
LEMMA FloodsExist ==
    ASSUME NEW n \in Nat, NEW E, NEW free, NEW start
    PROVE  \E f : Floods(f, n, E, free, start)
<1> DEFINE Good == {m \in 0..n : \E f : Floods(f, m, E, free, start)}
<1>1. 0 \in Good
  <2>1. PICK f : f = [k \in 0..0 |-> {start}]
    OBVIOUS
  <2>2. \A k \in 0..0 : k = 0
    OBVIOUS
  <2>3. Floods(f, 0, E, free, start)
    BY <2>1, <2>2 DEF Floods
  <2> QED BY <2>3
<1>2. ASSUME NEW m \in 1..n, m - 1 \in Good PROVE m \in Good
  <2>1. PICK g : Floods(g, m - 1, E, free, start)
    BY <1>2
  <2> DEFINE f == [k \in 0..m |-> IF k < m THEN g[k] ELSE Back(E, free, g[m - 1])]
  <2>2. \A k \in 0..(m - 1) : f[k] = g[k]
    OBVIOUS
  <2>3. ASSUME NEW k \in 0..m
        PROVE  f[k] = IF k = 0 THEN {start} ELSE Back(E, free, f[k - 1])
    <3>1. CASE k = 0
      <4>1. f[k] = g[k] /\ k \in 0..(m - 1)
        BY <2>2, <3>1
      <4> QED BY <2>1, <3>1, <4>1 DEF Floods
    <3>2. CASE k # 0 /\ k < m
      <4>1. k \in 0..(m - 1) /\ k - 1 \in 0..(m - 1)
        BY <3>2
      <4>2. f[k] = g[k] /\ f[k - 1] = g[k - 1]
        BY <2>2, <4>1
      <4> QED BY <2>1, <3>2, <4>1, <4>2 DEF Floods
    <3>3. CASE k # 0 /\ k = m
      <4>1. f[m] = Back(E, free, g[m - 1]) /\ m - 1 \in 0..(m - 1)
        OBVIOUS
      <4>2. f[m - 1] = g[m - 1]
        BY <2>2, <4>1
      <4> QED BY <3>3, <4>1, <4>2
    <3> QED BY <3>1, <3>2, <3>3
  <2>4. f = [k \in 0..m |-> f[k]]
    OBVIOUS
  <2>5. Floods(f, m, E, free, start)
    <3> HIDE DEF f
    <3> QED BY <2>3, <2>4 DEF Floods
  <2> QED BY <2>5
<1>3. n \in Good
  <2> HIDE DEF Good
  <2>1. \A k \in 0..n : k \in Good
    BY <1>1, <1>2, EveryTurn
  <2> QED BY <2>1
<1> QED BY <1>3

\* After k turns the flood has stopped or reached more than k vertices.
FloodInvariant(V, E, free, start, R, k) ==
    /\ start \in R /\ R \subseteq free
    /\ \A y \in R : Reaches(V, E, y, start)
    /\ Back(E, free, R) = R \/ Cardinality(R) > k

\* The flood stops at what leads to start through free vertices.
LEMMA FloodIs ==
    ASSUME NEW V, NEW E, IsGraph(V, E), NEW free \in SUBSET V, NEW start \in free
    PROVE  /\ start \in FloodAgainst(E, free, start) /\ FloodAgainst(E, free, start) \subseteq free
           /\ \A y \in FloodAgainst(E, free, start) : Reaches(V, E, y, start)
           /\ \A e \in E : e[2] \in FloodAgainst(E, free, start) /\ e[1] \in free
                              => e[1] \in FloodAgainst(E, free, start)
<1>0. IsFiniteSet(free)
  BY FS_Subset DEF IsGraph
<1>1. PICK n \in Nat : n = Cardinality(free)
  BY <1>0, FS_CardinalityType
<1>2. FloodAgainst(E, free, start) = (CHOOSE f : Floods(f, n, E, free, start))[n]
  BY <1>1 DEF FloodAgainst, Floods
<1>3. PICK f : Floods(f, n, E, free, start) /\ FloodAgainst(E, free, start) = f[n]
  BY <1>2, FloodsExist
<1> DEFINE Good == {k \in 0..n : FloodInvariant(V, E, free, start, f[k], k)}
<1>4. 0 \in Good
  <2>1. f[0] = {start}
    BY <1>3 DEF Floods
  <2>2. Cardinality({start}) > 0
    BY FS_Singleton
  <2> QED BY <2>1, <2>2, ReachesItself DEF FloodInvariant
<1>5. ASSUME NEW k \in 1..n, k - 1 \in Good PROVE k \in Good
  <2>1. PICK R, S : R = f[k - 1] /\ S = f[k]
    OBVIOUS
  <2>2. S = Back(E, free, R)
    <3>1. k \in 0..n /\ k # 0
      OBVIOUS
    <3> QED BY <1>3, <2>1, <3>1 DEF Floods
  <2>3. FloodInvariant(V, E, free, start, R, k - 1)
    BY <1>5, <2>1
  <2>4. R \subseteq S /\ S \subseteq free /\ start \in S
    BY <2>2, <2>3 DEF FloodInvariant, Back
  <2>5. ASSUME NEW y \in S PROVE Reaches(V, E, y, start)
    <3>1. CASE y \in R
      BY <2>3, <3>1 DEF FloodInvariant
    <3>2. CASE y \notin R
      <4>1. PICK e \in E : e[2] \in R /\ e[1] = y
        BY <2>2, <3>2 DEF Back
      <4> QED BY <2>3, <4>1, ReachesAlong, ReachesOn DEF FloodInvariant
    <3> QED BY <3>1, <3>2
  <2>6. CASE S = R
    <3>1. Back(E, free, S) = S
      BY <2>2, <2>6
    <3>2. FloodInvariant(V, E, free, start, S, k)
      BY <2>4, <2>5, <3>1 DEF FloodInvariant
    <3> QED BY <2>1, <3>2
  <2>7. CASE S # R
    <3>1. IsFiniteSet(S) /\ IsFiniteSet(R)
      BY <1>0, <2>4, FS_Subset
    <3>2. Cardinality(R) <= Cardinality(S) /\ Cardinality(R) # Cardinality(S)
      BY <2>4, <2>7, <3>1, FS_Subset
    <3>3. Cardinality(R) \in Nat /\ Cardinality(S) \in Nat
      BY <3>1, FS_CardinalityType
    <3>4. Cardinality(R) > k - 1
      BY <2>2, <2>3, <2>7 DEF FloodInvariant
    <3>5. Cardinality(S) > k
      BY <3>2, <3>3, <3>4
    <3> QED BY <2>1, <2>4, <2>5, <3>5 DEF FloodInvariant
  <2> QED BY <2>6, <2>7
<1>6. FloodInvariant(V, E, free, start, f[n], n)
  <2> HIDE DEF Good
  <2>1. \A k \in 0..n : k \in Good
    BY <1>4, <1>5, EveryTurn
  <2> QED BY <2>1 DEF Good
<1>7. Back(E, free, f[n]) = f[n]
  <2>1. f[n] \subseteq free
    BY <1>6 DEF FloodInvariant
  <2>2. Cardinality(f[n]) <= n /\ Cardinality(f[n]) \in Nat
    BY <1>0, <1>1, <2>1, FS_Subset, FS_CardinalityType
  <2> QED BY <1>6, <2>2 DEF FloodInvariant
<1>8. \A e \in E : e[2] \in f[n] /\ e[1] \in free => e[1] \in f[n]
  BY <1>7 DEF Back
<1> QED BY <1>3, <1>6, <1>8 DEF FloodInvariant

------------------------------------------------------------------------------
(* What a start floods is its component, when everything that was taken     *)
(* before is whole components and holds no vertex before it.                *)

\* A finish order, the last first.
IsStartOrder(V, E, q) ==
    /\ q \in Seq(V)
    /\ \A x \in V : \E i \in 1..Len(q) : q[i] = x
    /\ \A a, b \in 1..Len(q) :
          Reaches(V, E, q[a], q[b]) => \E c \in 1..b : Together(V, E, q[a], q[c])

\* The second pass takes the vertices in the order of IsStartOrder.
LEMMA ReversedOrder ==
    ASSUME NEW V, NEW E, NEW q, IsFinishOrder(V, E, q)
    PROVE  IsStartOrder(V, E, Reverse(q))
<1>0. q \in Seq(V) /\ Len(q) \in Nat
  <2>1. q \in Seq(V)
    BY DEF IsFinishOrder
  <2> QED BY <2>1
<1>1. PICK n \in Nat : n = Len(q)
  BY <1>0
<1>2. Reverse(q) = [i \in 1..n |-> q[(n - i) + 1]]
  BY <1>1 DEF Reverse
<1>3. PICK r : r = Reverse(q)
  OBVIOUS
<1>4. \A i \in 1..n : (n - i) + 1 \in 1..n /\ (n - ((n - i) + 1)) + 1 = i
  OBVIOUS
<1>5. \A i \in 1..n : r[i] = q[(n - i) + 1] /\ r[i] \in V /\ q[i] = r[(n - i) + 1]
  BY <1>0, <1>1, <1>2, <1>3, <1>4
<1>6. r \in Seq(V) /\ Len(r) = n
  <2>1. r \in [1..n -> V]
    BY <1>2, <1>3, <1>5
  <2> QED BY <2>1
<1>7. ASSUME NEW x \in V PROVE \E i \in 1..Len(r) : r[i] = x
  <2>1. PICK i \in 1..n : q[i] = x
    BY <1>1 DEF IsFinishOrder
  <2> QED BY <1>4, <1>5, <1>6, <2>1
<1>8. ASSUME NEW a \in 1..n, NEW b \in 1..n, Reaches(V, E, r[a], r[b])
      PROVE  \E c \in 1..b : Together(V, E, r[a], r[c])
  <2>1. PICK i \in 1..n, j \in 1..n : i = (n - a) + 1 /\ j = (n - b) + 1
    BY <1>4
  <2>2. r[a] = q[i] /\ r[b] = q[j]
    BY <1>5, <2>1
  <2>3. PICK c \in j..n : Together(V, E, q[i], q[c])
    BY <1>1, <1>8, <2>2 DEF IsFinishOrder
  <2>4. c \in 1..n /\ (n - c) + 1 \in 1..b
    BY <2>1, <2>3
  <2>5. q[c] = r[(n - c) + 1]
    BY <1>5, <2>4
  <2> QED BY <2>2, <2>3, <2>4, <2>5
<1> QED BY <1>3, <1>6, <1>7, <1>8, <1>0 DEF IsStartOrder

SecondInvariant(V, E, starts, s, k) ==
    /\ s \in [free: SUBSET V, found: SUBSET SUBSET V]
    /\ \A i \in 1..k : starts[i] \notin s.free
    /\ \A x \in s.free : \A y \in V : Together(V, E, x, y) => y \in s.free
    /\ s.found = {Component(V, E, x) : x \in V \ s.free}

\* From the free vertex that was finished last, the flood is its component.
LEMMA FloodIsComponent ==
    ASSUME NEW V, NEW E, IsGraph(V, E), NEW starts, IsStartOrder(V, E, starts),
           NEW k \in 1..Len(starts), NEW s, SecondInvariant(V, E, starts, s, k - 1),
           starts[k] \in s.free
    PROVE  FloodAgainst(E, s.free, starts[k]) = Component(V, E, starts[k])
<1>0. PICK x, free, C : x = starts[k] /\ free = s.free /\ C = FloodAgainst(E, free, x)
  OBVIOUS
<1>1. /\ free \in SUBSET V /\ x \in free /\ Len(starts) \in Nat
      /\ \A y \in free : \A z \in V : Together(V, E, y, z) => z \in free
      /\ \A i \in 1..(k - 1) : starts[i] \notin free
  <2>1. starts \in Seq(V)
    BY DEF IsStartOrder
  <2>2. Len(starts) \in Nat
    BY <2>1
  <2> QED BY <1>0, <2>2 DEF SecondInvariant
<1>2. /\ x \in C /\ C \subseteq free /\ \A y \in C : Reaches(V, E, y, x)
      /\ \A e \in E : e[2] \in C /\ e[1] \in free => e[1] \in C
  BY <1>0, <1>1, FloodIs
<1>3. ASSUME NEW y \in C PROVE y \in V /\ Together(V, E, x, y)
  <2>1. y \in V /\ y \in free /\ Reaches(V, E, y, x)
    BY <1>1, <1>2
  <2>2. PICK b \in 1..Len(starts) : starts[b] = y
    BY <2>1 DEF IsStartOrder
  <2>3. PICK c \in 1..k : Together(V, E, y, starts[c])
    BY <1>0, <2>1, <2>2 DEF IsStartOrder
  <2>4. starts[c] \in V
    <3>1. starts \in Seq(V) /\ c \in 1..Len(starts)
      BY <1>1, <2>3 DEF IsStartOrder
    <3> QED BY <3>1
  <2>5. starts[c] \in free
    BY <1>1, <2>1, <2>3, <2>4
  <2>6. c = k
    BY <1>1, <2>3, <2>5
  <2> QED BY <1>0, <2>1, <2>3, <2>6, TogetherIsEquivalence
<1>4. ASSUME NEW z \in V, Together(V, E, x, z) PROVE z \in C
  <2> DEFINE S == {y \in V : Reaches(V, E, x, y) /\ (Reaches(V, E, y, x) => y \notin C)}
  <2>1. SUFFICES ASSUME z \notin C PROVE FALSE
    OBVIOUS
  <2>2. z \in S
    BY <1>4, <2>1 DEF Together
  <2>3. ASSUME NEW e \in E, e[1] \in S PROVE e[2] \in S
    <3>1. /\ e[1] \in V /\ e[2] \in V /\ Reaches(V, E, e[1], e[2]) /\ Reaches(V, E, x, e[1])
          /\ Reaches(V, E, x, e[2])
      BY <2>3, ReachesAlong, ReachesOn DEF IsGraph
    <3>2. ASSUME Reaches(V, E, e[2], x), e[2] \in C PROVE FALSE
      <4>1. Reaches(V, E, e[1], x)
        BY <3>1, <3>2, ReachesOn
      <4>2. e[1] \notin C
        BY <2>3, <4>1
      <4>3. e[1] \in free
        BY <1>1, <3>1, <4>1 DEF Together
      <4> QED BY <1>2, <3>2, <4>2, <4>3
    <3> QED BY <3>1, <3>2
  <2>4. x \in S
    <3>1. S \in SUBSET V /\ Reaches(V, E, z, x)
      BY <1>4 DEF Together
    <3> HIDE DEF S
    <3> QED BY <2>2, <2>3, <3>1 DEF Reaches
  <2> QED BY <1>2, <2>4, ReachesItself
<1>5. C = Component(V, E, x)
  BY <1>3, <1>4 DEF Component, Together
<1> QED BY <1>0, <1>5

\* Vertices that reach each other have one component.
LEMMA SameComponent ==
    ASSUME NEW V, NEW E, NEW x, NEW y, Together(V, E, x, y)
    PROVE  Component(V, E, x) = Component(V, E, y)
<1>1. \A z \in V : Together(V, E, x, z) <=> Together(V, E, y, z)
  BY TogetherIsEquivalence
<1> QED BY <1>1 DEF Component, Together

\* Every turn of the second pass takes one whole component or nothing.
LEMMA TakeTurn ==
    ASSUME NEW V, NEW E, IsGraph(V, E), NEW starts, IsStartOrder(V, E, starts),
           NEW k \in 1..Len(starts), NEW s, SecondInvariant(V, E, starts, s, k - 1)
    PROVE  SecondInvariant(V, E, starts, TakeComponent(E, s, starts[k]), k)
<1>0. PICK x, t : x = starts[k] /\ t = TakeComponent(E, s, x)
  OBVIOUS
<1>1. \A i \in 1..k : i = k \/ i \in 1..(k - 1)
  OBVIOUS
<1>2. CASE x \notin s.free
  <2>1. t = s
    BY <1>0, <1>2 DEF TakeComponent
  <2> QED BY <1>0, <1>1, <1>2, <2>1 DEF SecondInvariant
<1>3. CASE x \in s.free
  <2>1. PICK C : C = Component(V, E, x) /\ C = FloodAgainst(E, s.free, x)
    BY <1>0, <1>3, FloodIsComponent
  <2>2. t = [free |-> s.free \ C, found |-> s.found \cup {C}]
    BY <1>0, <1>3, <2>1 DEF TakeComponent
  <2>3. s.free \in SUBSET V /\ s.found \in SUBSET SUBSET V /\ x \in V
    BY <1>3 DEF SecondInvariant
  <2>4. \A y : y \in C <=> y \in V /\ Together(V, E, x, y)
    BY <2>1 DEF Component, Together
  <2>5. x \in C /\ C \subseteq s.free
    BY <1>3, <2>3, <2>4, TogetherIsEquivalence DEF SecondInvariant
  <2>6. t.free = s.free \ C /\ t.found = s.found \cup {C} /\ t \in [free: SUBSET V, found: SUBSET SUBSET V]
    BY <2>2, <2>3, <2>4
  <2>7. \A i \in 1..k : starts[i] \notin t.free
    BY <1>0, <1>1, <2>5, <2>6 DEF SecondInvariant
  <2>8. ASSUME NEW y \in t.free, NEW z \in V, Together(V, E, y, z) PROVE z \in t.free
    <3>1. z \in s.free
      BY <2>6, <2>8 DEF SecondInvariant
    <3>2. z \notin C
      BY <2>3, <2>4, <2>6, <2>8, TogetherIsEquivalence
    <3> QED BY <2>6, <3>1, <3>2
  <2>9. t.found = {Component(V, E, y) : y \in V \ t.free}
    <3>1. s.found = {Component(V, E, y) : y \in V \ s.free}
      BY DEF SecondInvariant
    <3>2. ASSUME NEW y \in V \ t.free PROVE Component(V, E, y) \in t.found
      <4>1. CASE y \in C
        <5>1. Component(V, E, y) = C
          BY <2>1, <2>4, <4>1, SameComponent
        <5> QED BY <2>6, <5>1
      <4>2. CASE y \notin C
        BY <2>6, <3>1, <4>2
      <4> QED BY <4>1, <4>2
    <3>3. ASSUME NEW c \in t.found PROVE \E y \in V \ t.free : c = Component(V, E, y)
      <4>1. CASE c = C
        BY <2>1, <2>3, <2>5, <2>6, <4>1
      <4>2. CASE c \in s.found
        BY <2>6, <3>1, <4>2
      <4> QED BY <2>6, <4>1, <4>2
    <3> QED BY <3>2, <3>3
  <2> QED BY <1>0, <2>6, <2>7, <2>8, <2>9 DEF SecondInvariant
<1> QED BY <1>2, <1>3

\* f follows the second pass.
Takes(f, n, V, E, starts) ==
    f = [k \in 0..n |-> IF k = 0 THEN [free |-> V, found |-> {}]
                        ELSE TakeComponent(E, f[k - 1], starts[k])]

\* The recursion of the second pass defines a function.
LEMMA TakesExist ==
    ASSUME NEW n \in Nat, NEW V, NEW E, NEW starts
    PROVE  \E f : Takes(f, n, V, E, starts)
<1> DEFINE Good == {m \in 0..n : \E f : Takes(f, m, V, E, starts)}
<1>1. 0 \in Good
  <2>1. PICK f : f = [k \in 0..0 |-> [free |-> V, found |-> {}]]
    OBVIOUS
  <2>2. \A k \in 0..0 : k = 0
    OBVIOUS
  <2>3. Takes(f, 0, V, E, starts)
    BY <2>1, <2>2 DEF Takes
  <2> QED BY <2>3
<1>2. ASSUME NEW m \in 1..n, m - 1 \in Good PROVE m \in Good
  <2>1. PICK g : Takes(g, m - 1, V, E, starts)
    BY <1>2
  <2> DEFINE f == [k \in 0..m |-> IF k < m THEN g[k] ELSE TakeComponent(E, g[m - 1], starts[m])]
  <2>2. \A k \in 0..(m - 1) : f[k] = g[k]
    OBVIOUS
  <2>3. ASSUME NEW k \in 0..m
        PROVE  f[k] = IF k = 0 THEN [free |-> V, found |-> {}]
                      ELSE TakeComponent(E, f[k - 1], starts[k])
    <3>1. CASE k = 0
      <4>1. f[k] = g[k] /\ k \in 0..(m - 1)
        BY <2>2, <3>1
      <4> QED BY <2>1, <3>1, <4>1 DEF Takes
    <3>2. CASE k # 0 /\ k < m
      <4>1. k \in 0..(m - 1) /\ k - 1 \in 0..(m - 1)
        BY <3>2
      <4>2. f[k] = g[k] /\ f[k - 1] = g[k - 1]
        BY <2>2, <4>1
      <4> QED BY <2>1, <3>2, <4>1, <4>2 DEF Takes
    <3>3. CASE k # 0 /\ k = m
      <4>1. f[m] = TakeComponent(E, g[m - 1], starts[m]) /\ m - 1 \in 0..(m - 1)
        OBVIOUS
      <4>2. f[m - 1] = g[m - 1]
        BY <2>2, <4>1
      <4> QED BY <3>3, <4>1, <4>2
    <3> QED BY <3>1, <3>2, <3>3
  <2>4. f = [k \in 0..m |-> f[k]]
    OBVIOUS
  <2>5. Takes(f, m, V, E, starts)
    <3> HIDE DEF f
    <3> QED BY <2>3, <2>4 DEF Takes
  <2> QED BY <2>5
<1>3. n \in Good
  <2> HIDE DEF Good
  <2>1. \A k \in 0..n : k \in Good
    BY <1>1, <1>2, EveryTurn
  <2> QED BY <2>1
<1> QED BY <1>3

\* In such an order the second pass finds every component and nothing else.
LEMMA SecondPassIs ==
    ASSUME NEW V, NEW E, IsGraph(V, E), NEW starts, IsStartOrder(V, E, starts)
    PROVE  SecondPass(V, E, starts) = {Component(V, E, x) : x \in V}
<1>1. PICK n \in Nat : n = Len(starts)
  <2>1. starts \in Seq(V)
    BY DEF IsStartOrder
  <2> QED BY <2>1
<1>2. SecondPass(V, E, starts) = (CHOOSE f : Takes(f, n, V, E, starts))[n].found
  BY <1>1 DEF SecondPass, Takes
<1>3. PICK f : Takes(f, n, V, E, starts) /\ SecondPass(V, E, starts) = f[n].found
  BY <1>2, TakesExist
<1> DEFINE Good == {k \in 0..n : SecondInvariant(V, E, starts, f[k], k)}
<1>4. 0 \in Good
  <2>1. f[0] = [free |-> V, found |-> {}]
    BY <1>3 DEF Takes
  <2>2. SecondInvariant(V, E, starts, f[0], 0)
    <3>1. \A i \in 1..0 : FALSE
      OBVIOUS
    <3> QED BY <2>1, <3>1 DEF SecondInvariant
  <2> QED BY <2>2
<1>5. ASSUME NEW k \in 1..n, k - 1 \in Good PROVE k \in Good
  <2>1. f[k] = TakeComponent(E, f[k - 1], starts[k])
    <3>1. k \in 0..n /\ k # 0
      OBVIOUS
    <3> QED BY <1>3, <3>1 DEF Takes
  <2>2. SecondInvariant(V, E, starts, f[k - 1], k - 1)
    BY <1>5
  <2>3. SecondInvariant(V, E, starts, f[k], k)
    BY <1>1, <2>1, <2>2, TakeTurn
  <2> QED BY <2>3
<1>6. SecondInvariant(V, E, starts, f[n], n)
  <2> HIDE DEF Good
  <2>1. \A k \in 0..n : k \in Good
    BY <1>4, <1>5, EveryTurn
  <2> QED BY <2>1 DEF Good
<1>7. f[n].free = {}
  <2>1. f[n].free \subseteq V
    BY <1>6 DEF SecondInvariant
  <2> QED BY <1>1, <1>6, <2>1 DEF SecondInvariant, IsStartOrder
<1> QED BY <1>3, <1>6, <1>7 DEF SecondInvariant

(* The two passes find exactly the strongly connected components, whatever  *)
(* the graph (_strongly_connected_components).                              *)
LEMMA ComponentsAreFound ==
    ASSUME NEW V, NEW E, IsGraph(V, E)
    PROVE  StronglyConnectedComponents(V, E) = {Component(V, E, x) : x \in V}
  BY FinishOrderIs, ReversedOrder, SecondPassIs DEF StronglyConnectedComponents

------------------------------------------------------------------------------
(* The project graph of a snapshot.                                         *)

\* The import edges of a graph lead from files to files that it has.
IsImportGraph(graph) ==
    /\ IsGraph(ScannedFiles(graph), Adjacency(graph))
    /\ \A e \in graph.edges : e.relation = "imports" => e.source[1] = "file"

(* A directory has finitely many files.                                     *)
LEMMA FilesAreFinite == IsFiniteSet(Files)
<1> DEFINE n == Len(FileOrder)
           f == [i \in 1..n |-> FileOrder[i]]
<1>1. n \in Nat /\ Files = {FileOrder[i] : i \in 1..n}
  BY FilesAreListed
<1>2. f \in [1..n -> Files] /\ \A x \in Files : \E i \in 1..n : f[i] = x
  BY <1>1
<1>3. f \in Surjection(1..n, Files)
  BY <1>2 DEF Surjection
<1> QED BY <1>1, <1>3, FS_Interval, FS_Surjection

(* The node of an import is a file the lookup names, or is outside.         *)
LEMMA ImportLeadsToAFile ==
    ASSUME NEW modules, NEW types, NEW f, NEW t, NEW files,
           \A p \in modules \cup types : p[2] \in files,
           ImportTarget(modules, types, f, t)[1] = "file"
    PROVE  \E g \in files : ImportTarget(modules, types, f, t) = FileNode(g)
<1> DEFINE pairs == IF f.lang = "python" THEN modules ELSE types
           inside == {FileNode(g) : g \in UniqueFile(pairs, ImportedName(t, f))}
           outside == ExternalNode(ImportedName(t, f))
           n == CHOOSE x \in inside \cup {outside} : x \in inside \/ inside = {}
<1>1. ImportTarget(modules, types, f, t) = n
  BY DEF ImportTarget
<1>2. \A x \in inside : \E g \in files : x = FileNode(g)
  BY DEF UniqueFile
<1>3. outside[1] # "file"
  BY DEF ExternalNode
<1> HIDE DEF inside, outside
<1>4. \E x \in inside \cup {outside} : x \in inside \/ inside = {}
  OBVIOUS
<1>5. n \in inside \cup {outside}
  BY <1>4
<1> HIDE DEF n
<1> QED BY <1>1, <1>2, <1>3, <1>5

(* Both lookups name scanned files only.                                    *)
LEMMA LookupsNameFiles ==
    ASSUME NEW files, NEW read, DOMAIN read \subseteq files
    PROVE  \A p \in PythonModules(files) \cup JavaTypes(read) : p[2] \in files
<1>1. ASSUME NEW p \in PythonModules(files) PROVE p[2] \in files
  BY DEF PythonModules
<1>2. ASSUME NEW p \in JavaTypes(read) PROVE p[2] \in files
  <2> DEFINE classes(f) == {i \in DOMAIN read[f].items : read[f].items[i].type = "class"}
             named(f) == {<<read[f].package \o BaseKey("java", read[f].items, i).name, f, i>>
                             : i \in classes(f)}
             plain(f) == IF classes(f) = {} THEN {<<Append(read[f].package, f.stem), f, 0>>} ELSE {}
  <2>1. JavaTypes(read) = UNION {named(f) \cup plain(f) : f \in {g \in DOMAIN read : g.lang = "java"}}
    BY DEF JavaTypes
  <2>2. \A f : \A q \in named(f) \cup plain(f) : q[2] = f
    <3> HIDE DEF classes
    <3>1. ASSUME NEW f, NEW q \in named(f) PROVE q[2] = f
      <4>1. PICK i \in classes(f) :
               q = <<read[f].package \o BaseKey("java", read[f].items, i).name, f, i>>
        OBVIOUS
      <4> QED BY <4>1
    <3>2. ASSUME NEW f, NEW q \in plain(f) PROVE q[2] = f
      <4>1. q = <<Append(read[f].package, f.stem), f, 0>>
        OBVIOUS
      <4> QED BY <4>1
    <3> HIDE DEF named, plain
    <3> QED BY <3>1, <3>2
  <2> HIDE DEF named, plain
  <2> QED BY <2>1, <2>2
<1> QED BY <1>1, <1>2

(* The edges of the graph built from the scanned files and what was read.   *)
LEMMA EdgesOfAGraph ==
    ASSUME NEW files, NEW read, DOMAIN read \subseteq files
    PROVE  /\ \A f \in files : Edge("contains", Project, FileNode(f)) \in BuildGraph(files, read).edges
           /\ \A e \in BuildGraph(files, read).edges :
                  /\ e.target[1] = "file" => e.target[2] \in files
                  /\ e.relation = "imports" => e.source[1] = "file" /\ e.source[2] \in files
<1> DEFINE modules == PythonModules(files)
           types == JavaTypes(read)
           E == BuildGraph(files, read).edges
           top == {Edge("contains", Project, FileNode(f)) : f \in files}
           inner == UNION {SymbolEdges(f, read[f]) : f \in DOMAIN read}
           found(m, j) == UNION {{Edge("imports", FileNode(f), ImportTarget(m, j, f, t))
                                     : t \in read[f].imports} : f \in DOMAIN read}
           imports == found(modules, types)
<1>1. E = top \cup inner \cup imports
  <2>1. E = (top \cup inner) \cup UNION {found(m, j) : m \in {modules}, j \in {types}}
    BY DEF BuildGraph
  <2> HIDE DEF E, top, inner, found, modules, types
  <2>2. UNION {found(m, j) : m \in {modules}, j \in {types}} = found(modules, types)
    OBVIOUS
  <2> QED BY <2>1, <2>2
<1>2. ASSUME NEW e \in top
      PROVE  e.relation = "contains" /\ (e.target[1] = "file" => e.target[2] \in files)
  BY DEF Edge, FileNode
<1>3. ASSUME NEW e \in inner
      PROVE  e.relation = "contains" /\ e.target[1] # "file"
  BY DEF Edge, SymbolEdges, SymbolNode
<1>4. ASSUME NEW e \in imports
      PROVE  /\ e.source[1] = "file" /\ e.source[2] \in files
             /\ e.target[1] = "file" => e.target[2] \in files
  <2>0. PICK f \in DOMAIN read :
           e \in {Edge("imports", FileNode(f), ImportTarget(modules, types, f, t))
                     : t \in read[f].imports}
    OBVIOUS
  <2>1. PICK t \in read[f].imports :
           e = Edge("imports", FileNode(f), ImportTarget(modules, types, f, t))
    BY <2>0
  <2>2. e.source = FileNode(f) /\ e.target = ImportTarget(modules, types, f, t)
    BY <2>1 DEF Edge
  <2>3. \A p \in modules \cup types : p[2] \in files
    BY LookupsNameFiles
  <2> HIDE DEF modules, types
  <2>4. e.target[1] = "file" => \E g \in files : e.target = FileNode(g)
    BY <2>2, <2>3, ImportLeadsToAFile
  <2> QED BY <2>2, <2>4 DEF FileNode
<1>5. \A f \in files : Edge("contains", Project, FileNode(f)) \in top
  OBVIOUS
<1> HIDE DEF E, top, inner, imports
<1>6. \A e \in E : /\ e.target[1] = "file" => e.target[2] \in files
                   /\ e.relation = "imports" => e.source[1] = "file" /\ e.source[2] \in files
  BY <1>1, <1>2, <1>3, <1>4
<1> QED BY <1>1, <1>5, <1>6 DEF E

\* The import graph of a snapshot is one over its files.
LEMMA BuiltGraphIsSound ==
    ASSUME NEW files, NEW read, files \subseteq Files, DOMAIN read \subseteq files
    PROVE  IsImportGraph(BuildGraph(files, read))
<1> DEFINE graph == BuildGraph(files, read)
<1>1. graph.nodes = {Project} \cup {e.target : e \in graph.edges}
  BY DEF BuildGraph
<1>2. /\ \A f \in files : Edge("contains", Project, FileNode(f)) \in graph.edges
      /\ \A e \in graph.edges :
             /\ e.target[1] = "file" => e.target[2] \in files
             /\ e.relation = "imports" => e.source[1] = "file" /\ e.source[2] \in files
  BY EdgesOfAGraph
<1> HIDE DEF graph
<1>3. ScannedFiles(graph) = files
  <2>1. ASSUME NEW f \in files PROVE f \in ScannedFiles(graph)
    <3>1. Edge("contains", Project, FileNode(f)).target = FileNode(f)
      BY DEF Edge
    <3>2. FileNode(f) \in graph.nodes
      BY <1>1, <1>2, <3>1
    <3> QED BY <3>2 DEF ScannedFiles, FileNode
  <2>2. ASSUME NEW f \in ScannedFiles(graph) PROVE f \in files
    <3>1. PICK n \in graph.nodes : n[1] = "file" /\ f = n[2]
      BY DEF ScannedFiles
    <3>2. n # Project
      BY <3>1 DEF Project
    <3> QED BY <1>1, <1>2, <3>1, <3>2
  <2> QED BY <2>1, <2>2
<1>4. Adjacency(graph) \subseteq files \X files
  BY <1>2 DEF Adjacency, FileImports
<1>5. IsFiniteSet(files)
  BY FilesAreFinite, FS_Subset
<1>6. IsImportGraph(graph)
  BY <1>2, <1>3, <1>4, <1>5 DEF IsImportGraph, IsGraph
<1> QED BY <1>6 DEF graph

------------------------------------------------------------------------------
(* What the findings of an analysis say of cycles.                          *)

(* Of the findings, only those of the dependency tool name a cycle.         *)
LEMMA OnlyDependenciesNameCycles ==
    ASSUME NEW s, NEW failing,
           <<"analysis.tool_failure", "dependency">> \notin Analyze(s, failing)
    PROVE  \A y : y[1] = "dependency.cycle" =>
               (y \in Analyze(s, failing) <=> y \in DependencyFindings(s))
<1> DEFINE F(tool) ==
               IF tool \in failing THEN {<<"analysis.tool_failure", tool>>}
               ELSE CASE tool = "complexity" -> ComplexityFindings(s)
                      [] tool = "structure" -> StructureFindings(s)
                      [] tool = "dependency" -> DependencyFindings(s)
<1>1. Analyze(s, failing) = UNION {F(tool) : tool \in Tools}
  BY DEF Analyze
<1>2. \A y \in ComplexityFindings(s) : y[1] # "dependency.cycle"
  <2> SUFFICES ASSUME NEW y \in ComplexityFindings(s) PROVE y[1] # "dependency.cycle"
    OBVIOUS
  <2>1. \E class : y = <<"complexity.class_method_count", class[2]>>
    BY DEF ComplexityFindings
  <2> QED BY <2>1
<1>3. \A y \in StructureFindings(s) : y[1] # "dependency.cycle"
  <2> SUFFICES ASSUME NEW y \in StructureFindings(s) PROVE y[1] # "dependency.cycle"
    OBVIOUS
  <2>1. \E f : y = <<"structure.symbol_density", f>>
    BY DEF StructureFindings
  <2> QED BY <2>1
<1>4. "dependency" \notin failing
  <2>1. "dependency" \in failing => <<"analysis.tool_failure", "dependency">> \in F("dependency")
    <3>1. "dependency" \in failing => F("dependency") = {<<"analysis.tool_failure", "dependency">>}
      OBVIOUS
    <3> HIDE DEF F
    <3> QED BY <3>1
  <2>2. F("dependency") \subseteq Analyze(s, failing)
    <3> HIDE DEF F
    <3> QED BY <1>1 DEF Tools
  <2> QED BY <2>1, <2>2
<1>5. F("dependency") = DependencyFindings(s)
  BY <1>4
<1>6. ASSUME NEW y, y[1] = "dependency.cycle"
      PROVE  y \notin F("complexity") /\ y \notin F("structure")
  <2>1. F("complexity") = {<<"analysis.tool_failure", "complexity">>} \/ F("complexity") = ComplexityFindings(s)
    OBVIOUS
  <2>2. F("structure") = {<<"analysis.tool_failure", "structure">>} \/ F("structure") = StructureFindings(s)
    OBVIOUS
  <2> HIDE DEF F
  <2> QED BY <1>2, <1>3, <1>6, <2>1, <2>2
<1> HIDE DEF F
<1> QED BY <1>1, <1>5, <1>6 DEF Tools

\* The components DependencyTool keeps as cycles, and those it should.
CyclesKept(V, E) ==
    {d \in StronglyConnectedComponents(V, E) :
        Cardinality(d) > 1 \/ \E v \in d : <<v, v>> \in E}
CyclicComponents(V, E) ==
    {Component(V, E, f) : f \in {g \in V : \/ Cardinality(Component(V, E, g)) > 1
                                           \/ <<g, g>> \in E}}

(* The components kept as cycles are those of more than one file, or of a   *)
(* file that imports itself (analysis.py DependencyTool).                   *)
LEMMA CyclesOfAGraph ==
    ASSUME NEW V, NEW E, IsGraph(V, E)
    PROVE  CyclesKept(V, E) = CyclicComponents(V, E)
<1> DEFINE Cyclic(d) == Cardinality(d) > 1 \/ \E v \in d : <<v, v>> \in E
<1>1. StronglyConnectedComponents(V, E) = {Component(V, E, x) : x \in V}
  BY ComponentsAreFound
<1>2. ASSUME NEW x \in V PROVE x \in Component(V, E, x)
  BY ReachesItself DEF Component
<1>3. ASSUME NEW x \in V, NEW v \in Component(V, E, x)
      PROVE  v \in V /\ Component(V, E, v) = Component(V, E, x)
  BY <1>3, SameComponent DEF Component, Together
<1>4. ASSUME NEW x \in V, Cyclic(Component(V, E, x))
      PROVE  \E f \in V : /\ Component(V, E, f) = Component(V, E, x)
                          /\ Cardinality(Component(V, E, f)) > 1 \/ <<f, f>> \in E
  BY <1>3, <1>4
<1>5. ASSUME NEW f \in V, Cardinality(Component(V, E, f)) > 1 \/ <<f, f>> \in E
      PROVE  Cyclic(Component(V, E, f))
  BY <1>2, <1>5
<1>6. {d \in StronglyConnectedComponents(V, E) : Cyclic(d)}
         = {Component(V, E, f) : f \in {g \in V : \/ Cardinality(Component(V, E, g)) > 1
                                                  \/ <<g, g>> \in E}}
  <2> HIDE DEF Cyclic
  <2> QED BY <1>1, <1>4, <1>5
<1> QED BY <1>6 DEF CyclesKept, CyclicComponents

\* What an analysis says of cycles is what the graph says.
LEMMA AnalysisNamesTheCycles ==
    ASSUME NEW failing, findings = Analyze(snapshot, failing), IsImportGraph(snapshot.graph)
    PROVE  CyclesAreComponents
<1> SUFFICES ASSUME <<"analysis.tool_failure", "dependency">> \notin findings
             PROVE  CyclesAreComponents
  BY DEF CyclesAreComponents
<1> DEFINE files == {n[2] : n \in {m \in snapshot.graph.nodes : m[1] = "file"}}
           edges == {<<e.source[2], e.target[2]>> :
                        e \in {x \in snapshot.graph.edges :
                                  x.relation = "imports" /\ x.target[1] = "file"}}
           cycles == CyclesKept(files, edges)
           said == {y \in findings : y[1] = "dependency.cycle"}
<1>1. files = ScannedFiles(snapshot.graph)
  BY DEF ScannedFiles
<1>2. edges = Adjacency(snapshot.graph)
  BY DEF Adjacency, FileImports, IsImportGraph
<1>3. IsGraph(files, edges)
  BY <1>1, <1>2 DEF IsImportGraph
<1> HIDE DEF files, edges
<1>4. cycles = CyclicComponents(files, edges)
  BY <1>3, CyclesOfAGraph
<1>5. said = {<<"dependency.cycle", c>> : c \in cycles}
  <2>1. said = {y \in DependencyFindings(snapshot) : y[1] = "dependency.cycle"}
    BY OnlyDependenciesNameCycles
  <2>2. PICK others : /\ DependencyFindings(snapshot) = {<<"dependency.cycle", c>> : c \in cycles} \cup others
                      /\ \A y \in others : y[1] # "dependency.cycle"
    <3> DEFINE fanOut(v) == Cardinality({e \in FileImports(snapshot.graph) : e.source[2] = v})
               many == {u \in files : fanOut(u) > MaxFanOut}
               others == {<<"dependency.concentration", v>> : v \in many}
    <3>1. DependencyFindings(snapshot) = {<<"dependency.cycle", c>> : c \in cycles} \cup others
      BY <1>1, <1>2 DEF DependencyFindings, CyclesKept
    <3>2. \A y \in others : y[1] # "dependency.cycle"
      <4> HIDE DEF many
      <4> QED OBVIOUS
    <3> HIDE DEF others
    <3> QED BY <3>1, <3>2
  <2> HIDE DEF said, cycles
  <2> QED BY <2>1, <2>2
<1>6. {x[2] : x \in said} = cycles
  <2> HIDE DEF said, cycles
  <2>1. \A c \in cycles : <<"dependency.cycle", c>> \in said /\ <<"dependency.cycle", c>>[2] = c
    BY <1>5
  <2>2. \A x \in said : x[2] \in cycles
    BY <1>5
  <2> QED BY <2>1, <2>2
<1> HIDE DEF cycles
<1> QED BY <1>4, <1>6 DEF CyclesAreComponents, CyclicComponents, files, edges

------------------------------------------------------------------------------
(* The queries and the analysis beside the passes.                          *)

\* What the analysis needs of the state, and what it left.
AnalysisInvariant ==
    /\ SourceInvariant
    /\ pass.name = "graph" => DOMAIN pass.got \subseteq DOMAIN pass.files
    /\ snapshot # None => IsImportGraph(snapshot.graph)
    /\ findings # None =>
           snapshot # None /\ \E failing : findings = Analyze(snapshot, failing)

\* Nothing is analysed yet.
LEMMA AnalysisInit == PIInit => AnalysisInvariant
  BY SourceInit, NewPasses DEF PIInit, Init, AnalysisInvariant

\* Neither invariant speaks of what went wrong last.
LEMMA QueryFrame ==
    ASSUME UNCHANGED <<world, scans, pass, snapshot, corpus, index>>
    PROVE  /\ SourceInvariant => SourceInvariant'
           /\ VectorInvariant => VectorInvariant'
<1>1. SourceInvariant => SourceInvariant'
  BY DEF SourceInvariant, ReadSoFar, SourcesAreRecorded, IndexIsOfOneVersion, IndexDocuments
<1>2. VectorInvariant => VectorInvariant'
  BY DEF VectorInvariant, VectorsAreFresh, IndexDocuments, SameIdSameText, DocumentsMatch
<1> QED BY <1>1, <1>2

(* A step of the directory, of a query or of an analysis, beside the index. *)
LEMMA StepsBeside ==
    ASSUME PINext \/ UNCHANGED piVars
    PROVE  [Next]_vars \/ UNCHANGED <<world, scans, pass, snapshot, corpus, index>>
<1>1. CASE \E failing : AnalyzeSnapshot(failing)
  BY <1>1 DEF AnalyzeSnapshot
<1>2. CASE Query \/ RetrieveNothing
  <2>1. RetrieveNothing => UNCHANGED <<world, scans, pass, snapshot, corpus, index>>
    BY DEF RetrieveNothing
  <2>2. \A cfg, n, budget, lex, sem, fails :
           Retrieve(cfg, n, budget, lex, sem, fails)
               => UNCHANGED <<world, scans, pass, snapshot, corpus, index>>
    BY DEF Retrieve
  <2>3. Query => UNCHANGED <<world, scans, pass, snapshot, corpus, index>>
    BY <2>2 DEF Query
  <2> QED BY <1>2, <2>1, <2>3
<1>3. CASE UNCHANGED piVars
  BY <1>3 DEF piVars
<1>4. CASE Edit \/ Build
  BY <1>4 DEF Next
<1>5. PINext => \/ Edit \/ Build \/ Query \/ RetrieveNothing
                \/ \E failing : AnalyzeSnapshot(failing)
  BY DEF PINext
<1> QED BY <1>1, <1>2, <1>3, <1>4, <1>5

\* The invariants of the index hold beside analyses and queries.
LEMMA IndexNext ==
    /\ SourceInvariant /\ [PINext]_piVars => SourceInvariant'
    /\ VectorInvariant /\ [PINext]_piVars => VectorInvariant'
  BY StepsBeside, QueryFrame, SourceNext, VectorNext

\* The graph pass reads only files the scan listed.
LEMMA GraphPass ==
    ASSUME AnalysisInvariant, Edit \/ Build
    PROVE  pass'.name = "graph" => DOMAIN pass'.got \subseteq DOMAIN pass'.files
<1>0. IsPass(pass)
  BY DEF AnalysisInvariant, SourceInvariant, ReadSoFar
<1>1. CASE UNCHANGED pass
  BY <1>1 DEF AnalysisInvariant
<1>2. CASE pass' = Idle
  BY <1>2, NewPasses
<1>3. CASE pass' = Skip
  BY <1>0, <1>3, PassUpdates DEF AnalysisInvariant
<1>4. ASSUME NEW name, NEW files, NEW rules, pass' = Begin(name, files, rules)
      PROVE  pass'.name = "graph" => DOMAIN pass'.got \subseteq DOMAIN pass'.files
  BY <1>4, NewPasses, EmptyIsEmpty
<1>5. ASSUME NEW c, pass' = Keep(Current, c),
             pass.name = "graph" => Current \in DOMAIN pass.files
      PROVE  pass'.name = "graph" => DOMAIN pass'.got \subseteq DOMAIN pass'.files
  <2>1. /\ pass'.name = pass.name /\ pass'.files = pass.files
        /\ pass'.got = With(pass.got, Current, c)
    BY <1>0, <1>5, PassUpdates
  <2>2. DOMAIN pass'.got = DOMAIN pass.got \cup {Current}
    BY <2>1 DEF With
  <2> QED BY <1>5, <2>1, <2>2 DEF AnalysisInvariant
<1>6. CASE EndSymbols
  <2>1. PICK symbols : pass' = [Begin("graph", pass.files, << >>) EXCEPT !.symbols = symbols]
    BY <1>6 DEF EndSymbols
  <2>2. pass'.got = Empty
    BY <2>1 DEF Begin
  <2> QED BY <2>2, EmptyIsEmpty
<1>7. CASE BuildDocuments
  <2>1. CASE pass' = Idle
    BY <2>1, <1>2
  <2>2. CASE \E docs : pass' = [Begin("final_scan", pass.files, gitignore) EXCEPT !.documents = docs]
    BY <2>2 DEF Begin
  <2> QED BY <1>7, <2>1, <2>2 DEF BuildDocuments, Raise
<1>8. CASE ScanFile \/ ReadSymbols \/ ReadForGraph \/ ReadSource
  <2>1. \/ pass' = Skip \/ pass' = Idle
        \/ \E c : /\ pass' = Keep(Current, c)
                  /\ pass.name = "graph" => Current \in DOMAIN pass.files
    BY <1>8 DEF ScanFile, ScanPasses, ReadSymbols, ReadForGraph, ReadParsed, ReadSource, Reading, Raise
  <2> QED BY <2>1, <1>2, <1>3, <1>5
<1>9. CASE StartScan \/ EndScan \/ StartCorpus \/ EndFirstScan \/ EndCorpus \/ EndSnapshot
  <2>1. \/ UNCHANGED pass \/ pass' = Idle
        \/ \E name, files, rules : pass' = Begin(name, files, rules)
    BY <1>9 DEF StartScan, EndScan, StartCorpus, EndFirstScan, EndCorpus, EndSnapshot, Raise
  <2> QED BY <2>1, <1>1, <1>2, <1>4
<1>10. CASE Edit \/ EmbeddingFails
            \/ \E space, provider : BuildIndex(space, provider) \/ UpdateIndex(space, provider)
  <2>1. UNCHANGED pass
    BY <1>10 DEF Edit, EditFile, EditRules, EmbeddingFails, BuildIndex, UpdateIndex
  <2> QED BY <2>1, <1>1
<1> QED BY <1>6, <1>7, <1>8, <1>9, <1>10 DEF Build

\* Only the end of a snapshot's build makes a new snapshot.
LEMMA GraphStep ==
    ASSUME AnalysisInvariant, Edit \/ Build
    PROVE  snapshot' # None => IsImportGraph(snapshot'.graph)
<1>1. CASE EndSnapshot
  <2>1. /\ snapshot' = [files |-> pass.files, symbols |-> pass.symbols,
                        graph |-> BuildGraph(DOMAIN pass.files, pass.got)]
        /\ pass.name = "graph"
    BY <1>1 DEF EndSnapshot, PassDone
  <2>2. snapshot'.graph = BuildGraph(DOMAIN pass.files, pass.got)
    BY <2>1
  <2>3. DOMAIN pass.files \subseteq Files /\ DOMAIN pass.got \subseteq DOMAIN pass.files
    BY <2>1 DEF AnalysisInvariant, SourceInvariant, ReadSoFar
  <2>4. IsImportGraph(BuildGraph(DOMAIN pass.files, pass.got))
    BY <2>3, BuiltGraphIsSound
  <2> QED BY <2>2, <2>4
<1>2. CASE ~EndSnapshot
  <2>1. UNCHANGED snapshot
    BY <1>2 DEF Build, Edit, EditFile, EditRules, StartScan, ScanFile, EndScan, ReadSymbols,
             EndSymbols, ReadForGraph, ReadParsed, StartCorpus, EndFirstScan, ReadSource,
             BuildDocuments, EndCorpus, BuildIndex, UpdateIndex, EmbeddingFails
  <2> QED BY <2>1 DEF AnalysisInvariant
<1> QED BY <1>1, <1>2

\* Every step keeps what the analysis relies on.
LEMMA AnalysisNext == AnalysisInvariant /\ [PINext]_piVars => AnalysisInvariant'
<1> SUFFICES ASSUME AnalysisInvariant, [PINext]_piVars
             PROVE  AnalysisInvariant'
  OBVIOUS
<1>0. SourceInvariant'
  BY IndexNext DEF AnalysisInvariant
<1>1. CASE (Edit \/ Build) /\ Forget
  BY <1>0, <1>1, GraphPass, GraphStep DEF AnalysisInvariant, Forget
<1>2. ASSUME NEW failing, AnalyzeSnapshot(failing)
      PROVE  AnalysisInvariant'
  <2>1. UNCHANGED <<pass, snapshot>> /\ snapshot # None /\ findings' = Analyze(snapshot, failing)
    BY <1>2 DEF AnalyzeSnapshot, vars
  <2>2. findings' = Analyze(snapshot', failing)
    BY <2>1
  <2> QED BY <1>0, <2>1, <2>2 DEF AnalysisInvariant
<1>3. CASE Query \/ RetrieveNothing
  <2>1. UNCHANGED <<pass, snapshot>> /\ findings' = None
    BY <1>3 DEF Query, Retrieve, RetrieveNothing
  <2> QED BY <1>0, <2>1 DEF AnalysisInvariant
<1>4. CASE UNCHANGED piVars
  BY <1>0, <1>4 DEF AnalysisInvariant, piVars, vars
<1> QED BY <1>1, <1>2, <1>3, <1>4 DEF PINext

(* Whatever the directory holds and however it is edited while it is read,  *)
(* an analysis whose dependency tool did not fail reports as cycles exactly *)
(* the strongly connected components of the import graph that have more     *)
(* than one file or a file that imports itself: the two passes of           *)
(* _strongly_connected_components end, miss none and merge none             *)
(* (analysis.py DependencyTool).                                            *)
THEOREM CyclesAreFound == PISpec => []CyclesAreComponents
<1>1. AnalysisInvariant => CyclesAreComponents
  <2>1. findings = None => CyclesAreComponents
    BY DEF CyclesAreComponents
  <2> QED BY <2>1, AnalysisNamesTheCycles DEF AnalysisInvariant
<1> QED BY <1>1, AnalysisInit, AnalysisNext, PTL DEF PISpec

(* Beside analyses and queries too, an index is of one version of every     *)
(* file, and no vector of it is stale.                                      *)
THEOREM QueriesLeaveTheIndex == PISpec => [](IndexIsOfOneVersion /\ VectorsAreFresh)
<1>1. PIInit => SourceInvariant /\ VectorInvariant
  BY SourceInit, VectorInit DEF PIInit
<1>2. SourceInvariant /\ VectorInvariant => IndexIsOfOneVersion /\ VectorsAreFresh
  BY DEF SourceInvariant, VectorInvariant
<1> QED BY <1>1, <1>2, IndexNext, PTL DEF PISpec

------------------------------------------------------------------------------
(* Going through a sequence, and sorting a set.                             *)

\* A step leads from T to T in each of n turns; f is what the turns leave.
IsTurn(n, T, step) == step \in [(1..n) \X T -> T]
Repeats(f, n, T, base, step) ==
    /\ f \in [0..n -> T] /\ f[0] = base
    /\ \A k \in 1..n : f[k] = step[<<k, f[k - 1]>>]

\* Applying step to what the turn before left defines a function.
LEMMA RepetitionExists ==
    ASSUME NEW n \in Nat, NEW T, NEW base \in T, NEW step, IsTurn(n, T, step)
    PROVE  \E f : Repeats(f, n, T, base, step)
<1>0. step \in [(1..n) \X T -> T]
  BY DEF IsTurn
<1> DEFINE Runs(f, m) == /\ f \in [0..m -> T] /\ f[0] = base
                         /\ \A k \in 1..m : f[k] = step[<<k, f[k - 1]>>]
           Good == {m \in 0..n : \E f : Runs(f, m)}
<1>1. 0 \in Good
  <2>1. PICK f : f = [k \in 0..0 |-> base]
    OBVIOUS
  <2>2. f \in [0..0 -> T] /\ f[0] = base
    BY <2>1
  <2>3. Runs(f, 0)
    BY <2>2
  <2> QED BY <2>3
<1>2. ASSUME NEW m \in 1..n, m - 1 \in Good PROVE m \in Good
  <2>1. PICK g : Runs(g, m - 1)
    BY <1>2
  <2>2. m \in Nat \ {0} /\ m - 1 \in 0..(m - 1) /\ g[m - 1] \in T
    BY <2>1
  <2> DEFINE f == [k \in 0..m |-> IF k < m THEN g[k] ELSE step[<<m, g[m - 1]>>]]
  <2>3. step[<<m, g[m - 1]>>] \in T
    BY <1>0, <2>2
  <2>4. \A k \in 0..m : k < m => k \in 0..(m - 1)
    OBVIOUS
  <2>5. f \in [0..m -> T]
    BY <2>1, <2>3, <2>4
  <2>6. f[0] = base
    BY <2>1, <2>2
  <2>7. ASSUME NEW k \in 1..m PROVE f[k] = step[<<k, f[k - 1]>>]
    <3>1. CASE k < m
      <4>1. k \in 1..(m - 1) /\ k \in 0..m /\ k - 1 \in 0..m /\ k - 1 < m
        BY <3>1
      <4>2. f[k] = g[k] /\ f[k - 1] = g[k - 1]
        BY <3>1, <4>1
      <4> QED BY <2>1, <4>1, <4>2
    <3>2. CASE k = m
      <4>1. m \in 0..m /\ m - 1 \in 0..m /\ m - 1 < m /\ ~ (m < m)
        BY <2>2
      <4>2. f[m] = step[<<m, g[m - 1]>>] /\ f[m - 1] = g[m - 1]
        BY <4>1
      <4> QED BY <3>2, <4>2
    <3> QED BY <3>1, <3>2
  <2>8. Runs(f, m)
    <3> HIDE DEF f
    <3> QED BY <2>5, <2>6, <2>7
  <2>9. \E h : Runs(h, m)
    <3> HIDE DEF f, Runs
    <3> QED BY <2>8
  <2> HIDE DEF Runs
  <2> QED BY <2>9
<1>3. n \in Good
  <2> HIDE DEF Good
  <2>1. \A k \in 0..n : k \in Good
    BY <1>1, <1>2, EveryTurn
  <2> QED BY <2>1
<1> QED BY <1>3 DEF Repeats

\* r is q with x at one more place.
OneIn(r, q, x) ==
    \E p \in 1..(Len(q) + 1) :
        /\ r[p] = x
        /\ \A i \in 1..(Len(q) + 1) : (i < p => r[i] = q[i]) /\ (i > p => r[i] = q[i - 1])

\* Where x goes, everything else stays in its order.
LEMMA InsertedIs ==
    ASSUME NEW S, NEW q \in Seq(S), NEW x \in S, NEW before
    PROVE  /\ Inserted(q, x, before) \in Seq(S) /\ Len(Inserted(q, x, before)) = Len(q) + 1
           /\ OneIn(Inserted(q, x, before), q, x)
<1> DEFINE I == {i \in DOMAIN q : <<q[i], x>> \in before}
<1>1. PICK n \in Nat : n = Len(q) /\ DOMAIN q = 1..n
  OBVIOUS
<1>2. PICK c \in 0..n : c = Cardinality(I)
  <2>1. I \in SUBSET (1..n)
    BY <1>1
  <2>2. IsFiniteSet(1..n) /\ Cardinality(1..n) = n
    BY FS_Interval
  <2> HIDE DEF I
  <2>3. IsFiniteSet(I) /\ Cardinality(I) <= n
    BY <2>1, <2>2, FS_Subset
  <2>4. Cardinality(I) \in Nat
    BY <2>3, FS_CardinalityType
  <2> QED BY <2>3, <2>4
<1>3. PICK a, b : a = SubSeq(q, 1, c) /\ b = SubSeq(q, c + 1, n)
  OBVIOUS
<1>4. Inserted(q, x, before) = (a \o <<x>>) \o b
  <2>1. (c + 1) - 1 = c
    OBVIOUS
  <2> QED BY <1>1, <1>2, <1>3, <2>1 DEF Inserted, InsertAt
<1>5. /\ a \in Seq(S) /\ Len(a) = c /\ \A i \in 1..c : a[i] = q[i]
      /\ b \in Seq(S) /\ Len(b) = n - c /\ \A i \in 1..(n - c) : b[i] = q[c + i]
  <2>1. \A i \in 1..n : q[i] \in S
    BY <1>1
  <2>2. (\A i \in 1..c : q[i] \in S) /\ (\A i \in (c + 1)..n : q[i] \in S)
    BY <2>1
  <2>3. a \in Seq(S) /\ Len(a) = c /\ \A i \in 1..c : a[i] = q[i]
    <3>1. \A i \in 1..(c - 1 + 1) : SubSeq(q, 1, c)[i] = q[1 + i - 1]
      BY <2>2, SubSeqProperties
    <3>2. SubSeq(q, 1, c) \in Seq(S) /\ Len(SubSeq(q, 1, c)) = IF 1 <= c THEN c - 1 + 1 ELSE 0
      BY <2>2, SubSeqProperties
    <3> QED BY <1>3, <3>1, <3>2
  <2>4. b \in Seq(S) /\ Len(b) = n - c /\ \A i \in 1..(n - c) : b[i] = q[c + i]
    <3>0. c + 1 \in Int /\ n \in Int
      OBVIOUS
    <3>1. \A i \in 1..(n - (c + 1) + 1) : SubSeq(q, c + 1, n)[i] = q[(c + 1) + i - 1]
      BY <2>2, <3>0, SubSeqProperties
    <3>2. /\ SubSeq(q, c + 1, n) \in Seq(S)
          /\ Len(SubSeq(q, c + 1, n)) = IF c + 1 <= n THEN n - (c + 1) + 1 ELSE 0
      BY <2>2, <3>0, SubSeqProperties
    <3> QED BY <1>3, <3>1, <3>2
  <2> QED BY <2>3, <2>4
<1>6. PICK d : d = a \o <<x>>
  OBVIOUS
<1>7. d \in Seq(S) /\ Len(d) = c + 1 /\ d[c + 1] = x /\ \A i \in 1..c : d[i] = q[i]
  BY <1>5, <1>6
<1>8. PICK e : e = d \o b
  OBVIOUS
<1>9. /\ e \in Seq(S) /\ Len(e) = n + 1 /\ e[c + 1] = x
      /\ \A i \in 1..(n + 1) : (i < c + 1 => e[i] = q[i]) /\ (i > c + 1 => e[i] = q[i - 1])
  <2>1. /\ e \in Seq(S) /\ Len(e) = (c + 1) + (n - c)
        /\ \A i \in 1..((c + 1) + (n - c)) : e[i] = IF i <= c + 1 THEN d[i] ELSE b[i - (c + 1)]
    <3>1. d \in Seq(S) /\ b \in Seq(S) /\ Len(d) = c + 1 /\ Len(b) = n - c
      BY <1>5, <1>7
    <3>2. /\ d \o b \in Seq(S) /\ Len(d \o b) = Len(d) + Len(b)
          /\ \A i \in 1..(Len(d) + Len(b)) :
                 (d \o b)[i] = IF i <= Len(d) THEN d[i] ELSE b[i - Len(d)]
      BY <3>1, ConcatProperties
    <3> QED BY <1>8, <3>1, <3>2
  <2>2. (c + 1) + (n - c) = n + 1
    OBVIOUS
  <2>3. \A i \in 1..(n + 1) : e[i] = IF i <= c + 1 THEN d[i] ELSE b[i - (c + 1)]
    BY <2>1, <2>2
  <2>4. ASSUME NEW i \in 1..(n + 1), i < c + 1 PROVE e[i] = q[i]
    BY <1>7, <2>3, <2>4
  <2>5. ASSUME NEW i \in 1..(n + 1), i > c + 1 PROVE e[i] = q[i - 1]
    <3>1. i - (c + 1) \in 1..(n - c) /\ c + (i - (c + 1)) = i - 1
      BY <2>5
    <3> QED BY <1>5, <2>3, <2>5, <3>1
  <2>6. e[c + 1] = x
    <3>1. c + 1 \in 1..(n + 1)
      OBVIOUS
    <3> QED BY <1>7, <2>3, <3>1
  <2> QED BY <2>1, <2>2, <2>4, <2>5, <2>6
<1>10. c + 1 \in 1..(n + 1)
  OBVIOUS
<1>11. OneIn(e, q, x)
  BY <1>1, <1>9, <1>10 DEF OneIn
<1>12. e = Inserted(q, x, before)
  BY <1>4, <1>6, <1>8
<1> QED BY <1>1, <1>9, <1>11, <1>12

\* Each member of S has its place, whatever comes before what.
LEMMA InsertionSortEnumerates ==
    ASSUME NEW S, IsFiniteSet(S), NEW before
    PROVE  Enumerates(InsertionSort(S, before), S)
<1>1. PICK L, n : L = Listing(S) /\ n = Len(L)
  OBVIOUS
<1>2. Enumerates(L, S)
  BY <1>1, ListingEnumerates
<1>3. n \in Nat /\ n = Cardinality(S) /\ \A k \in 1..n : L[k] \in S
  <2>1. L \in Seq(S)
    BY <1>2 DEF Enumerates
  <2> QED BY <1>1, <1>2, <2>1 DEF Enumerates
<1> DEFINE T == Seq(S)
           step == [p \in (1..n) \X T |-> Inserted(p[2], L[p[1]], before)]
           Sorts(f) == f = [k \in 0..n |-> IF k = 0 THEN << >> ELSE Inserted(f[k - 1], L[k], before)]
<1>4. InsertionSort(S, before) = (CHOOSE f : Sorts(f))[n]
  BY <1>1 DEF InsertionSort, Through
<1>5. \E f : Sorts(f)
  <2>1. \A k \in 1..n : \A q \in T : step[<<k, q>>] = Inserted(q, L[k], before)
    OBVIOUS
  <2>2. step \in [(1..n) \X T -> T]
    <3>1. \A k \in 1..n : \A q \in T : Inserted(q, L[k], before) \in T
      BY <1>3, InsertedIs
    <3> QED BY <3>1
  <2>3. << >> \in T
    OBVIOUS
  <2> HIDE DEF step, T
  <2>4. PICK f : Repeats(f, n, T, << >>, step)
    <3>1. n \in Nat /\ << >> \in T /\ IsTurn(n, T, step)
      BY <1>3, <2>2, <2>3 DEF IsTurn
    <3> QED BY <3>1, RepetitionExists
  <2>5. ASSUME NEW k \in 0..n, k # 0 PROVE f[k] = Inserted(f[k - 1], L[k], before)
    <3>1. k \in 1..n /\ k - 1 \in 0..n
      BY <2>5, <1>3
    <3> QED BY <2>1, <2>4, <3>1 DEF Repeats
  <2>6. f = [k \in 0..n |-> f[k]] /\ f[0] = << >>
    BY <2>4 DEF Repeats
  <2>7. Sorts(f)
    BY <2>5, <2>6
  <2> QED BY <2>7
<1>6. PICK f : Sorts(f) /\ InsertionSort(S, before) = f[n]
  <2> HIDE DEF Sorts
  <2> QED BY <1>4, <1>5
<1>7. f[0] = << >> /\ \A k \in 1..n : f[k] = Inserted(f[k - 1], L[k], before)
  <2>1. \A k \in 1..n : k \in 0..n /\ k # 0
    OBVIOUS
  <2>2. 0 \in 0..n
    BY <1>3
  <2> QED BY <1>6, <2>1, <2>2
<1> HIDE DEF Sorts
<1> DEFINE Good == {k \in 0..n :
               /\ f[k] \in Seq(S) /\ Len(f[k]) = k
               /\ \A i \in 1..k : \E j \in 1..k : f[k][i] = L[j]
               /\ \A j \in 1..k : \E i \in 1..k : f[k][i] = L[j]
               /\ \A i, j \in 1..k : f[k][i] = f[k][j] => i = j}
<1>8. 0 \in Good
  <2>1. f[0] \in Seq(S) /\ Len(f[0]) = 0
    BY <1>7
  <2>2. \A i \in 1..0 : FALSE
    OBVIOUS
  <2> QED BY <1>3, <2>1, <2>2
<1>9. ASSUME NEW k \in 1..n, k - 1 \in Good PROVE k \in Good
  <2>1. PICK q, x, r : q = f[k - 1] /\ x = L[k] /\ r = f[k]
    OBVIOUS
  <2>2. PICK m \in Nat : m = k - 1 /\ k = m + 1
    BY <1>3
  <2>3. /\ q \in Seq(S) /\ Len(q) = m /\ x \in S
        /\ \A i \in 1..m : \E j \in 1..m : q[i] = L[j]
        /\ \A j \in 1..m : \E i \in 1..m : q[i] = L[j]
        /\ \A i, j \in 1..m : q[i] = q[j] => i = j
    BY <1>3, <1>9, <2>1, <2>2
  <2>4. r = Inserted(q, x, before)
    BY <1>7, <2>1
  <2>5. r \in Seq(S) /\ Len(r) = m + 1
    BY <2>3, <2>4, InsertedIs
  <2>6. PICK p \in 1..(m + 1) :
           /\ r[p] = x
           /\ \A i \in 1..(m + 1) : (i < p => r[i] = q[i]) /\ (i > p => r[i] = q[i - 1])
    <3>1. q \in Seq(S) /\ x \in S /\ Len(q) = m
      BY <2>3
    <3>2. OneIn(Inserted(q, x, before), q, x)
      <4> HIDE DEF Good
      <4> QED BY <3>1, InsertedIs
    <3>3. OneIn(r, q, x)
      BY <2>4, <3>2
    <3> HIDE DEF Good
    <3> QED BY <3>1, <3>3 DEF OneIn
  <2>7. \A i \in 1..(m + 1) : i # p => \E h \in 1..m : r[i] = q[h] /\ h = IF i < p THEN i ELSE i - 1
    BY <2>6
  <2>8. \A h \in 1..m : \E i \in 1..(m + 1) : r[i] = q[h]
    <3> SUFFICES ASSUME NEW h \in 1..m PROVE \E i \in 1..(m + 1) : r[i] = q[h]
      OBVIOUS
    <3>1. CASE h < p
      BY <2>6, <3>1
    <3>2. CASE ~ (h < p)
      <4>1. h + 1 \in 1..(m + 1) /\ h + 1 > p /\ (h + 1) - 1 = h
        BY <3>2
      <4> QED BY <2>6, <4>1
    <3> QED BY <3>1, <3>2
  <2>9. \A h \in 1..m : q[h] # x
    <3>1. \A j \in 1..m : j \in 1..n /\ j # k
      BY <2>2, <1>3
    <3>2. \A j \in 1..n : L[j] = L[k] => j = k
      BY <1>1, <1>2 DEF Enumerates
    <3> QED BY <2>1, <2>3, <3>1, <3>2
  <2>10. \A i \in 1..(m + 1) : \E j \in 1..(m + 1) : r[i] = L[j]
    <3>1. k \in 1..(m + 1) /\ \A j \in 1..m : j \in 1..(m + 1)
      BY <2>2
    <3> SUFFICES ASSUME NEW i \in 1..(m + 1) PROVE \E j \in 1..(m + 1) : r[i] = L[j]
      OBVIOUS
    <3>2. CASE i = p
      BY <2>1, <2>6, <3>1, <3>2
    <3>3. CASE i # p
      <4>1. PICK h \in 1..m : r[i] = q[h]
        BY <2>7, <3>3
      <4>2. PICK j \in 1..m : q[h] = L[j]
        BY <2>3
      <4> QED BY <3>1, <4>1, <4>2
    <3> QED BY <3>2, <3>3
  <2>11. \A j \in 1..(m + 1) : \E i \in 1..(m + 1) : r[i] = L[j]
    <3>1. \A j \in 1..(m + 1) : j = k \/ j \in 1..m
      BY <2>2
    <3> SUFFICES ASSUME NEW j \in 1..(m + 1) PROVE \E i \in 1..(m + 1) : r[i] = L[j]
      OBVIOUS
    <3>2. CASE j = k
      BY <2>1, <2>6, <3>2
    <3>3. CASE j \in 1..m
      <4>1. PICK h \in 1..m : q[h] = L[j]
        BY <2>3, <3>3
      <4> QED BY <2>8, <4>1
    <3> QED BY <3>1, <3>2, <3>3
  <2>12. \A i, j \in 1..(m + 1) : r[i] = r[j] => i = j
    <3> SUFFICES ASSUME NEW i \in 1..(m + 1), NEW j \in 1..(m + 1), r[i] = r[j] PROVE i = j
      OBVIOUS
    <3>1. CASE i = p \/ j = p
      BY <2>6, <2>7, <2>9, <3>1
    <3>2. CASE i # p /\ j # p
      <4>1. PICK g \in 1..m : r[i] = q[g] /\ g = IF i < p THEN i ELSE i - 1
        BY <2>7, <3>2
      <4>2. PICK h \in 1..m : r[j] = q[h] /\ h = IF j < p THEN j ELSE j - 1
        BY <2>7, <3>2
      <4>3. q[g] = q[h]
        BY <4>1, <4>2
      <4>4. g = h
        BY <2>3, <4>3
      <4>5. i \in Nat /\ j \in Nat /\ p \in Nat /\ g \in Nat
        BY <1>3
      <4>6. i < p \/ i > p
        BY <3>2, <4>5
      <4>7. j < p \/ j > p
        BY <3>2, <4>5
      <4>8. /\ i < p => g = i
            /\ i > p => g = i - 1
            /\ j < p => g = j
            /\ j > p => g = j - 1
        <5>1. /\ i > p => ~ (i < p)
              /\ j > p => ~ (j < p)
          BY <4>5
        <5> QED BY <4>1, <4>2, <4>4, <5>1
      <4> HIDE DEF Good
      <4> QED BY <4>5, <4>6, <4>7, <4>8
    <3> QED BY <3>1, <3>2
  <2>13. m + 1 = k /\ k \in 0..n
    BY <2>2
  <2>14. /\ f[k] \in Seq(S) /\ Len(f[k]) = k
         /\ \A i \in 1..k : \E j \in 1..k : f[k][i] = L[j]
         /\ \A j \in 1..k : \E i \in 1..k : f[k][i] = L[j]
         /\ \A i, j \in 1..k : f[k][i] = f[k][j] => i = j
    <3>1. r = f[k] /\ m + 1 = k
      BY <2>1, <2>13
    <3> HIDE DEF Good
    <3>2. f[k] \in Seq(S) /\ Len(f[k]) = k
      BY <2>5, <3>1
    <3>3. \A i \in 1..k : \E j \in 1..k : f[k][i] = L[j]
      BY <2>10, <3>1
    <3>4. \A j \in 1..k : \E i \in 1..k : f[k][i] = L[j]
      BY <2>11, <3>1
    <3>5. \A i, j \in 1..k : f[k][i] = f[k][j] => i = j
      BY <2>12, <3>1
    <3> QED BY <3>2, <3>3, <3>4, <3>5
  <2> QED BY <2>13, <2>14
<1>10. n \in Good
  <2> HIDE DEF Good
  <2>1. \A k \in 0..n : k \in Good
    BY <1>3, <1>8, <1>9, EveryTurn
  <2> QED BY <1>3, <2>1
<1>11. \A x \in S : \E i \in 1..n : f[n][i] = x
  <2>1. \A x \in S : \E j \in 1..n : L[j] = x
    BY <1>1, <1>2 DEF Enumerates
  <2>2. \A j \in 1..n : \E i \in 1..n : f[n][i] = L[j]
    BY <1>10
  <2> HIDE DEF Good
  <2> QED BY <2>1, <2>2
<1>12. /\ f[n] \in Seq(S) /\ Len(f[n]) = n
       /\ \A i, j \in 1..n : f[n][i] = f[n][j] => i = j
  BY <1>10
<1> QED BY <1>3, <1>6, <1>11, <1>12 DEF Enumerates

------------------------------------------------------------------------------
(* Sequences without repetition.                                            *)

\* A sequence that repeats nothing.
Distinct(q) == \A i, j \in 1..Len(q) : q[i] = q[j] => i = j

\* An enumeration has the members of its set, each once.
LEMMA EnumerationIs ==
    ASSUME NEW S, NEW q, Enumerates(q, S)
    PROVE  q \in Seq(S) /\ Distinct(q) /\ ToSet(q) = S
<1>1. q \in Seq(S) /\ Distinct(q)
  BY DEF Enumerates, Distinct
<1>2. \A x \in S : \E i \in DOMAIN q : q[i] = x
  <2>1. DOMAIN q = 1..Len(q)
    BY <1>1
  <2> QED BY <2>1 DEF Enumerates
<1>3. \A i \in DOMAIN q : q[i] \in S
  BY <1>1
<1> QED BY <1>1, <1>2, <1>3 DEF ToSet

\* What a sequence of two parts holds.
LEMMA ConcatIs ==
    ASSUME NEW S, NEW a \in Seq(S), NEW b \in Seq(S)
    PROVE  /\ a \o b \in Seq(S) /\ ToSet(a \o b) = ToSet(a) \cup ToSet(b)
           /\ Distinct(a) /\ Distinct(b) /\ ToSet(a) \cap ToSet(b) = {} => Distinct(a \o b)
<1>1. PICK c, m, n : c = a \o b /\ m = Len(a) /\ n = Len(b)
  OBVIOUS
<1>2. m \in Nat /\ n \in Nat /\ DOMAIN a = 1..m /\ DOMAIN b = 1..n
  BY <1>1
<1>3. /\ c \in Seq(S) /\ Len(c) = m + n /\ DOMAIN c = 1..(m + n)
      /\ \A i \in 1..(m + n) : c[i] = IF i <= m THEN a[i] ELSE b[i - m]
  <2>1. /\ a \o b \in Seq(S) /\ Len(a \o b) = Len(a) + Len(b)
        /\ \A i \in 1..(Len(a) + Len(b)) : (a \o b)[i] = IF i <= Len(a) THEN a[i] ELSE b[i - Len(a)]
    BY ConcatProperties
  <2>2. c \in Seq(S) /\ Len(c) = m + n
    BY <1>1, <2>1
  <2>3. DOMAIN c = 1..(m + n)
    BY <2>2
  <2> QED BY <1>1, <2>1, <2>2, <2>3
<1>4. \A i \in 1..(m + n) : \/ /\ i \in 1..m
                              /\ c[i] = a[i]
                           \/ /\ i > m
                              /\ i - m \in 1..n
                              /\ c[i] = b[i - m]
  BY <1>2, <1>3
<1>5. \A j \in 1..m : j \in 1..(m + n) /\ c[j] = a[j]
  BY <1>2, <1>3
<1>6. \A j \in 1..n : j + m \in 1..(m + n) /\ c[j + m] = b[j]
  <2> SUFFICES ASSUME NEW j \in 1..n PROVE j + m \in 1..(m + n) /\ c[j + m] = b[j]
    OBVIOUS
  <2>1. j + m \in 1..(m + n) /\ ~ (j + m <= m) /\ (j + m) - m = j
    BY <1>2
  <2> QED BY <1>3, <2>1
<1>14. /\ ToSet(a) = {a[j] : j \in 1..m} /\ ToSet(b) = {b[j] : j \in 1..n}
       /\ ToSet(c) = {c[i] : i \in 1..(m + n)}
  <2>1. DOMAIN a = 1..m /\ DOMAIN b = 1..n /\ DOMAIN c = 1..(m + n)
    BY <1>2, <1>3
  <2> QED BY <2>1 DEF ToSet
<1>7. ToSet(c) \subseteq ToSet(a) \cup ToSet(b)
  BY <1>4, <1>14
<1>8. ToSet(a) \subseteq ToSet(c)
  BY <1>5, <1>14
<1>9. ToSet(b) \subseteq ToSet(c)
  BY <1>6, <1>14
<1>10. ASSUME Distinct(a), Distinct(b), ToSet(a) \cap ToSet(b) = {} PROVE Distinct(c)
  <2> SUFFICES ASSUME NEW i \in 1..(m + n), NEW j \in 1..(m + n), c[i] = c[j] PROVE i = j
    BY <1>3 DEF Distinct
  <2>1. \A k \in 1..m, h \in 1..n : a[k] # b[h]
    BY <1>2, <1>10 DEF ToSet
  <2>2. \A k, h \in 1..m : a[k] = a[h] => k = h
    BY <1>1, <1>10 DEF Distinct
  <2>3. \A k, h \in 1..n : b[k] = b[h] => k = h
    BY <1>1, <1>10 DEF Distinct
  <2>4. CASE i \in 1..m /\ j \in 1..m /\ c[i] = a[i] /\ c[j] = a[j]
    BY <2>2, <2>4
  <2>5. CASE i > m /\ j > m /\ i - m \in 1..n /\ j - m \in 1..n /\ c[i] = b[i - m] /\ c[j] = b[j - m]
    <3>1. i - m = j - m
      BY <2>3, <2>5
    <3> QED BY <1>2, <3>1
  <2> QED BY <1>4, <2>1, <2>4, <2>5
<1> QED BY <1>1, <1>3, <1>7, <1>8, <1>9, <1>10

\* The parts of q hold nothing twice, neither one part nor two.
Apart(q) == /\ \A i \in 1..Len(q) : Distinct(q[i])
            /\ \A i, j \in 1..Len(q) : i # j => ToSet(q[i]) \cap ToSet(q[j]) = {}

\* Parts put one behind the other have the members of all parts, each once when
\* the parts are apart.
LEMMA FlattenIs ==
    ASSUME NEW S, NEW q \in Seq(Seq(S))
    PROVE  /\ FlattenSeq(q) \in Seq(S)
           /\ ToSet(FlattenSeq(q)) = UNION {ToSet(q[i]) : i \in 1..Len(q)}
           /\ Apart(q) => Distinct(FlattenSeq(q))
<1>1. PICK n \in Nat : n = Len(q) /\ DOMAIN q = 1..n
  OBVIOUS
<1>2. CASE n = 0
  <2>1. q = << >> /\ FlattenSeq(q) = q
    BY <1>1, <1>2 DEF FlattenSeq
  <2>2. ToSet(<< >>) = {} /\ Distinct(<< >>) /\ \A i \in 1..0 : FALSE
    BY DEF ToSet, Distinct
  <2>3. << >> \in Seq(S) /\ Len(q) = 0 /\ UNION {ToSet(q[i]) : i \in 1..Len(q)} = {}
    BY <1>1, <1>2
  <2> QED BY <2>1, <2>2, <2>3
<1>3. CASE n # 0
  <2> DEFINE T == Seq(S)
             step == [p \in (1..n) \X T |-> p[2] \o q[p[1]]]
             Flattens(f) == f = [i \in 1..n |-> IF i = 1 THEN q[i] ELSE f[i - 1] \o q[i]]
  <2>1. FlattenSeq(q) = (CHOOSE f : Flattens(f))[n]
    BY <1>1, <1>3 DEF FlattenSeq
  <2>2. \A k \in 1..n : q[k] \in Seq(S)
    BY <1>1
  <2>3. \A k \in 1..n : \A s \in T : step[<<k, s>>] = s \o q[k]
    OBVIOUS
  <2>4. \E f : Flattens(f)
    <3>1. step \in [(1..n) \X T -> T]
      <4>1. \A k \in 1..n : \A s \in T : s \o q[k] \in T
        BY <2>2, ConcatIs
      <4> QED BY <4>1
    <3>2. << >> \in T
      OBVIOUS
    <3> HIDE DEF step, T
    <3>3. PICK g : Repeats(g, n, T, << >>, step)
      <4>1. n \in Nat /\ << >> \in T /\ IsTurn(n, T, step)
        BY <3>1, <3>2 DEF IsTurn
      <4> QED BY <4>1, RepetitionExists
    <3>4. PICK f : f = [i \in 1..n |-> g[i]]
      OBVIOUS
    <3>5. \A i \in 1..n : g[i] = g[i - 1] \o q[i] /\ g[i - 1] \in T
      <4>1. \A i \in 1..n : i - 1 \in 0..n
        OBVIOUS
      <4> QED BY <2>3, <3>3, <4>1 DEF Repeats
    <3>6. 1 \in 1..n => g[1] = q[1]
      <4>1. g[0] = << >>
        BY <3>3 DEF Repeats
      <4>2. 1 \in 1..n => q[1] \in Seq(S) /\ << >> \o q[1] = q[1]
        BY <2>2
      <4>3. 1 - 1 = 0
        OBVIOUS
      <4> QED BY <3>5, <4>1, <4>2, <4>3
    <3>7. \A i \in 1..n : f[i] = IF i = 1 THEN q[i] ELSE f[i - 1] \o q[i]
      <4> SUFFICES ASSUME NEW i \in 1..n PROVE f[i] = IF i = 1 THEN q[i] ELSE f[i - 1] \o q[i]
        OBVIOUS
      <4>1. CASE i = 1
        BY <3>4, <3>6, <4>1
      <4>2. CASE i # 1
        <5>1. i - 1 \in 1..n
          BY <4>2
        <5> QED BY <3>4, <3>5, <4>2, <5>1
      <4> QED BY <4>1, <4>2
    <3>8. f = [i \in 1..n |-> f[i]]
      BY <3>4
    <3>9. Flattens(f)
      BY <3>7, <3>8
    <3> QED BY <3>9
  <2>5. PICK f : Flattens(f) /\ FlattenSeq(q) = f[n]
    <3> HIDE DEF Flattens
    <3> QED BY <2>1, <2>4
  <2>6. \A i \in 1..n : f[i] = IF i = 1 THEN q[i] ELSE f[i - 1] \o q[i]
    <3>1. f = [i \in 1..n |-> IF i = 1 THEN q[i] ELSE f[i - 1] \o q[i]]
      BY <2>5
    <3> QED BY <3>1
  <2> HIDE DEF Flattens
  <2> DEFINE G == {k \in 0..n : k # 0 =>
                 /\ f[k] \in Seq(S) /\ ToSet(f[k]) = UNION {ToSet(q[i]) : i \in 1..k}
                 /\ Apart(q) => Distinct(f[k])}
  <2>7. 0 \in G
    BY <1>1
  <2>8. ASSUME NEW k \in 1..n, k - 1 \in G PROVE k \in G
    <3>0. k \in 0..n /\ k # 0
      OBVIOUS
    <3>1. CASE k = 1
      <4>1. f[k] = q[k] /\ q[k] \in Seq(S)
        BY <2>2, <2>6, <3>1
      <4>2. UNION {ToSet(q[i]) : i \in 1..k} = ToSet(q[k])
        <5>1. 1..k = {k}
          BY <3>1
        <5> QED BY <5>1
      <4>3. Apart(q) => Distinct(q[k])
        BY <1>1 DEF Apart
      <4> QED BY <3>0, <4>1, <4>2, <4>3
    <3>2. CASE k # 1
      <4>1. f[k] = f[k - 1] \o q[k] /\ q[k] \in Seq(S) /\ k - 1 # 0
        <5>1. k - 1 # 0
          BY <3>2
        <5> QED BY <2>2, <2>6, <3>2, <5>1
      <4>2. /\ f[k - 1] \in Seq(S) /\ ToSet(f[k - 1]) = UNION {ToSet(q[i]) : i \in 1..(k - 1)}
            /\ Apart(q) => Distinct(f[k - 1])
        BY <2>8, <4>1
      <4>3. /\ f[k] \in Seq(S) /\ ToSet(f[k]) = ToSet(f[k - 1]) \cup ToSet(q[k])
            /\ Distinct(f[k - 1]) /\ Distinct(q[k]) /\ ToSet(f[k - 1]) \cap ToSet(q[k]) = {}
                   => Distinct(f[k])
        BY <4>1, <4>2, ConcatIs
      <4>4. (UNION {ToSet(q[i]) : i \in 1..k}) = (UNION {ToSet(q[i]) : i \in 1..(k - 1)}) \cup ToSet(q[k])
        <5>1. 1..k = (1..(k - 1)) \cup {k}
          OBVIOUS
        <5> QED BY <5>1
      <4>5. ASSUME Apart(q) PROVE Distinct(q[k]) /\ ToSet(f[k - 1]) \cap ToSet(q[k]) = {}
        <5>1. \A i \in 1..(k - 1) : i \in 1..n /\ i # k
          OBVIOUS
        <5>2. /\ \A i \in 1..n : Distinct(q[i])
              /\ \A i, j \in 1..n : i # j => ToSet(q[i]) \cap ToSet(q[j]) = {}
          BY <1>1, <4>5 DEF Apart
        <5>3. \A i \in 1..(k - 1) : ToSet(q[i]) \cap ToSet(q[k]) = {}
          BY <5>1, <5>2
        <5> QED BY <4>2, <5>2, <5>3
      <4> QED BY <3>0, <4>2, <4>3, <4>4, <4>5
    <3> QED BY <3>1, <3>2
  <2>9. n \in G
    <3> HIDE DEF G
    <3>1. \A k \in 0..n : k \in G
      BY <2>7, <2>8, EveryTurn
    <3> QED BY <3>1
  <2> QED BY <1>1, <1>3, <2>5, <2>9
<1> QED BY <1>2, <1>3

------------------------------------------------------------------------------
(* The plan of a context: what is shown, in which order.                    *)

\* No symbol is a candidate twice.
OneEach(C) ==
    \A c, d \in C : c.node[1] = "symbol" /\ d.node[1] = "symbol" /\ c.node[2] = d.node[2] => c = d

\* The symbols of candidates, in the order of an enumeration.
NamesOf(cs) == [i \in DOMAIN cs |-> cs[i].node[2]]

\* Different candidates give different names.
LEMMA NamesAre ==
    ASSUME NEW C, IsFiniteSet(C), NEW before, \A c, d \in C : c.node[2] = d.node[2] => c = d,
           NEW I, \A c \in C : c.node[2] \in I
    PROVE  /\ NamesOf(InsertionSort(C, before)) \in Seq(I)
           /\ ToSet(NamesOf(InsertionSort(C, before))) = {c.node[2] : c \in C}
           /\ Distinct(NamesOf(InsertionSort(C, before)))
<1>1. PICK q : q = InsertionSort(C, before)
  OBVIOUS
<1>2. Enumerates(q, C)
  BY <1>1, InsertionSortEnumerates
<1>3. q \in Seq(C) /\ ToSet(q) = C /\ Distinct(q)
  BY <1>2, EnumerationIs
<1>4. PICK n \in Nat : n = Len(q) /\ DOMAIN q = 1..n
  BY <1>3
<1>5. \A i \in 1..n : q[i] \in C
  BY <1>3, <1>4
<1>6. PICK r : r = NamesOf(q)
  OBVIOUS
<1>7. r = [i \in 1..n |-> q[i].node[2]]
  BY <1>4, <1>6 DEF NamesOf
<1>8. r \in Seq(I) /\ Len(r) = n /\ DOMAIN r = 1..n
  BY <1>5, <1>7
<1>9. ToSet(r) = {c.node[2] : c \in C}
  <2>1. C = {q[i] : i \in 1..n}
    BY <1>3, <1>4 DEF ToSet
  <2>2. ToSet(r) = {q[i].node[2] : i \in 1..n}
    BY <1>7, <1>8 DEF ToSet
  <2> QED BY <2>1, <2>2
<1>10. Distinct(r)
  <2> SUFFICES ASSUME NEW i \in 1..n, NEW j \in 1..n, r[i] = r[j] PROVE i = j
    BY <1>8 DEF Distinct
  <2>1. q[i].node[2] = q[j].node[2]
    BY <1>7
  <2>2. q[i] = q[j]
    BY <1>5, <2>1
  <2> QED BY <1>3, <1>4, <2>2 DEF Distinct
<1> QED BY <1>1, <1>6, <1>8, <1>9, <1>10

\* A plan holds every hit and every symbol the graph adds, each once.
LEMMA PlanIs ==
    ASSUME NEW I, NEW hits \in Seq(I), Distinct(hits), NEW C, IsFiniteSet(C), OneEach(C), NEW order,
           \A c \in C : c.node[1] = "symbol" => c.node[2] \in I
    PROVE  /\ Plan(hits, C, order) \in Seq(I) /\ Distinct(Plan(hits, C, order))
           /\ ToSet(Plan(hits, C, order))
                = ToSet(hits) \cup {c.node[2] : c \in {x \in C : x.node[1] = "symbol"}}
<1> DEFINE primary == ToSet(hits)
           extra == {c \in C : c.node[1] = "symbol" /\ c.node[2] \notin primary}
           key(c) == <<Position(order, c.seed), c.hop,
                       IF c.relation = "imports" THEN 1 ELSE 0,
                       IF c.direction = "reverse" THEN 1 ELSE 0,
                       Position(order, c.node[2])>>
           comes(a, b) == LET differs == {i \in 1..5 : key(a)[i] # key(b)[i]}
                          IN  differs # {} /\ key(a)[Min(differs)] < key(b)[Min(differs)]
           before(E) == {p \in E \X E : comes(p[1], p[2])}
           of(s) == {c \in extra : c.seed = s}
           rest == {c \in extra : c.seed \notin primary}
           names(E) == NamesOf(InsertionSort(E, before(E)))
           parts == [i \in DOMAIN hits |-> <<hits[i]>> \o names(of(hits[i]))]
<1>1. Plan(hits, C, order) = FlattenSeq(parts) \o names(rest)
  BY DEF Plan, SortedBy, NamesOf
<1> HIDE DEF before
<1>2. \A c, d \in extra : c.node[2] = d.node[2] => c = d
  BY DEF OneEach
<1>3. ASSUME NEW E \in SUBSET extra
      PROVE  /\ names(E) \in Seq(I) /\ ToSet(names(E)) = {c.node[2] : c \in E}
             /\ Distinct(names(E))
  <2>1. IsFiniteSet(E)
    BY FS_Subset
  <2>2. \A c, d \in E : c.node[2] = d.node[2] => c = d
    BY <1>2
  <2>3. \A c \in E : c.node[2] \in I
    OBVIOUS
  <2>4. PICK b : b = before(E)
    OBVIOUS
  <2> HIDE DEF extra
  <2> QED BY <2>1, <2>2, <2>3, <2>4, NamesAre
<1>4. PICK n \in Nat : n = Len(hits) /\ DOMAIN hits = 1..n
  OBVIOUS
<1>5. /\ \A i \in 1..n : of(hits[i]) \in SUBSET extra /\ hits[i] \in I /\ hits[i] \in primary
      /\ rest \in SUBSET extra
      /\ \A c \in extra : c.node[2] \notin primary
  BY <1>4 DEF ToSet
<1> HIDE DEF names, extra, of, rest, primary
<1>6. ASSUME NEW i \in 1..n
      PROVE  /\ parts[i] \in Seq(I) /\ Distinct(parts[i])
             /\ ToSet(parts[i]) = {hits[i]} \cup {c.node[2] : c \in of(hits[i])}
  <2>1. PICK a, b : a = <<hits[i]>> /\ b = names(of(hits[i]))
    OBVIOUS
  <2>2. b \in Seq(I) /\ ToSet(b) = {c.node[2] : c \in of(hits[i])} /\ Distinct(b)
    BY <1>3, <1>5, <2>1
  <2>3. a \in Seq(I) /\ ToSet(a) = {hits[i]} /\ Distinct(a)
    <3>1. a \in Seq(I) /\ Len(a) = 1 /\ a[1] = hits[i] /\ DOMAIN a = 1..1
      BY <1>5, <2>1
    <3>2. \A x \in 1..1 : x = 1
      OBVIOUS
    <3>3. 1 \in 1..1
      OBVIOUS
    <3> QED BY <3>1, <3>2, <3>3 DEF ToSet, Distinct
  <2>4. ToSet(a) \cap ToSet(b) = {}
    BY <1>5, <2>2, <2>3
  <2>5. a \o b \in Seq(I) /\ ToSet(a \o b) = ToSet(a) \cup ToSet(b) /\ Distinct(a \o b)
    BY <2>2, <2>3, <2>4, ConcatIs
  <2>6. parts[i] = a \o b
    BY <1>4, <2>1
  <2> QED BY <2>2, <2>3, <2>5, <2>6
<1>7. parts \in Seq(Seq(I)) /\ Len(parts) = n
  <2>1. parts = [i \in 1..n |-> parts[i]]
    BY <1>4
  <2> HIDE DEF parts
  <2> QED BY <1>6, <2>1
<1>8. Apart(parts)
  <2>1. ASSUME NEW i \in 1..n, NEW j \in 1..n, i # j PROVE ToSet(parts[i]) \cap ToSet(parts[j]) = {}
    <3>1. hits[i] # hits[j]
      BY <1>4, <2>1 DEF Distinct
    <3>2. of(hits[i]) \cap of(hits[j]) = {}
      BY <3>1 DEF of
    <3>3. \A c \in of(hits[i]), d \in of(hits[j]) : c.node[2] # d.node[2]
      BY <1>2, <1>5, <3>2
    <3>4. /\ \A c \in of(hits[i]) : c.node[2] # hits[j]
          /\ \A d \in of(hits[j]) : d.node[2] # hits[i]
      BY <1>5
    <3>5. /\ ToSet(parts[i]) = {hits[i]} \cup {c.node[2] : c \in of(hits[i])}
          /\ ToSet(parts[j]) = {hits[j]} \cup {c.node[2] : c \in of(hits[j])}
      BY <1>6
    <3> HIDE DEF parts
    <3> QED BY <3>1, <3>3, <3>4, <3>5
  <2> HIDE DEF parts
  <2> QED BY <1>6, <1>7, <2>1 DEF Apart
<1> HIDE DEF parts
<1>9. PICK a : a = FlattenSeq(parts)
  OBVIOUS
<1>10. /\ a \in Seq(I) /\ Distinct(a) /\ ToSet(a) = UNION {ToSet(parts[i]) : i \in 1..n}
  BY <1>7, <1>8, <1>9, FlattenIs
<1>11. \A x : x \in ToSet(a) <=> \/ x \in primary
                               \/ \E c \in extra : c.seed \in primary /\ x = c.node[2]
  <2>1. \A x : x \in primary <=> \E i \in 1..n : x = hits[i]
    BY <1>4 DEF primary, ToSet
  <2>2. \A x : x \in ToSet(a) <=>
             \E i \in 1..n : x = hits[i] \/ \E c \in of(hits[i]) : x = c.node[2]
    <3> SUFFICES ASSUME NEW x
                 PROVE  x \in ToSet(a) <=>
                            \E i \in 1..n : x = hits[i] \/ \E c \in of(hits[i]) : x = c.node[2]
      OBVIOUS
    <3>1. x \in ToSet(a) <=> \E i \in 1..n : x \in ToSet(parts[i])
      BY <1>10
    <3>2. ASSUME NEW i \in 1..n
          PROVE  x \in ToSet(parts[i]) <=> x = hits[i] \/ \E c \in of(hits[i]) : x = c.node[2]
      <4>1. ToSet(parts[i]) = {hits[i]} \cup {c.node[2] : c \in of(hits[i])}
        BY <1>6
      <4> QED BY <4>1
    <3> QED BY <3>1, <3>2
  <2>3. \A x : (\E i \in 1..n : \E c \in of(hits[i]) : x = c.node[2])
                <=> \E c \in extra : c.seed \in primary /\ x = c.node[2]
    <3>1. \A c : (\E i \in 1..n : c \in of(hits[i])) <=> c \in extra /\ c.seed \in primary
      <4>1. \A c, i : c \in of(hits[i]) <=> c \in extra /\ c.seed = hits[i]
        BY DEF of
      <4> QED BY <2>1, <4>1
    <3> QED BY <3>1
  <2>4. \A x : x \in ToSet(a) <=>
             \/ \E i \in 1..n : x = hits[i]
             \/ \E i \in 1..n : \E c \in of(hits[i]) : x = c.node[2]
    BY <2>2
  <2>5. ASSUME NEW x
        PROVE  x \in ToSet(a) <=> x \in primary \/ \E c \in extra : c.seed \in primary /\ x = c.node[2]
    <3>1. x \in primary <=> \E i \in 1..n : x = hits[i]
      BY <2>1
    <3>2. (\E i \in 1..n : \E c \in of(hits[i]) : x = c.node[2])
          <=> \E c \in extra : c.seed \in primary /\ x = c.node[2]
      BY <2>3
    <3>3. x \in ToSet(a) <=> \/ \E i \in 1..n : x = hits[i]
                            \/ \E i \in 1..n : \E c \in of(hits[i]) : x = c.node[2]
      BY <2>4
    <3> QED BY <3>1, <3>2, <3>3
  <2> QED BY <2>5
<1>12. PICK b : b = names(rest)
  OBVIOUS
<1>13. b \in Seq(I) /\ ToSet(b) = {c.node[2] : c \in rest} /\ Distinct(b)
  BY <1>3, <1>5, <1>12
<1>14. ToSet(a) \cap ToSet(b) = {}
  <2> SUFFICES ASSUME NEW d \in rest, d.node[2] \in ToSet(a) PROVE FALSE
    BY <1>13
  <2>1. d \in extra /\ d.seed \notin primary
    BY DEF rest
  <2>2. PICK c \in extra : c.seed \in primary /\ d.node[2] = c.node[2]
    BY <1>5, <1>11, <2>1
  <2> QED BY <1>2, <2>1, <2>2
<1>15. /\ a \o b \in Seq(I) /\ Distinct(a \o b) /\ ToSet(a \o b) = ToSet(a) \cup ToSet(b)
  BY <1>10, <1>13, <1>14, ConcatIs
<1>16. ToSet(a) \cup ToSet(b) = primary \cup {c.node[2] : c \in {x \in C : x.node[1] = "symbol"}}
  <2>1. \A x : x \in ToSet(a) \cup ToSet(b) <=> x \in primary \/ \E c \in extra : x = c.node[2]
    BY <1>11, <1>13 DEF rest
  <2>2. \A x : x \in primary \/ (\E c \in extra : x = c.node[2])
            <=> x \in primary \/ \E c \in C : c.node[1] = "symbol" /\ x = c.node[2]
    BY DEF extra
  <2> QED BY <2>1, <2>2
<1> QED BY <1>1, <1>9, <1>12, <1>15, <1>16 DEF primary

------------------------------------------------------------------------------
(* The text of a context.                                                   *)

\* The snippets of a text, and what they add up to.
Pieces(I) == [id : I, length : Nat, cut : BOOLEAN]
Texts(I) == [used : Nat, snippets : Seq(Pieces(I)), truncated : BOOLEAN, open : BOOLEAN]
NoText == [used |-> 0, snippets |-> << >>, truncated |-> FALSE, open |-> TRUE]

\* f adds up the lengths of the pieces q.
Adds(f, q) == f = [k \in 0..Len(q) |-> IF k = 0 THEN 0 ELSE f[k - 1] + q[k].length]
TotalOf(q) == (CHOOSE f : Adds(f, q))[Len(q)]
Gaps(n) == IF n = 0 THEN 0 ELSE 2 * (n - 1)

\* Adding the lengths one by one defines their sum.
LEMMA AddingEnds ==
    ASSUME NEW I, NEW q \in Seq(Pieces(I))
    PROVE  \E f : Adds(f, q) /\ TotalOf(q) = f[Len(q)]
<1>1. PICK n \in Nat : n = Len(q) /\ DOMAIN q = 1..n
  OBVIOUS
<1>2. PICK step : step = [p \in (1..n) \X Nat |-> p[2] + q[p[1]].length]
  OBVIOUS
<1>3. \A k \in 1..n : q[k].length \in Nat
  <2>1. \A k \in 1..n : q[k] \in Pieces(I)
    BY <1>1
  <2> QED BY <2>1 DEF Pieces
<1>4. IsTurn(n, Nat, step) /\ 0 \in Nat
  BY <1>2, <1>3 DEF IsTurn
<1>5. PICK g : Repeats(g, n, Nat, 0, step)
  BY <1>4, RepetitionExists
<1>6. g \in [0..n -> Nat] /\ g[0] = 0 /\ \A k \in 1..n : g[k] = step[<<k, g[k - 1]>>]
  BY <1>5 DEF Repeats
<1>7. \A k \in 0..n : g[k] = IF k = 0 THEN 0 ELSE g[k - 1] + q[k].length
  <2> SUFFICES ASSUME NEW k \in 0..n, k # 0 PROVE g[k] = g[k - 1] + q[k].length
    BY <1>6
  <2>1. k \in 1..n /\ k - 1 \in 0..n
    OBVIOUS
  <2>2. g[k - 1] \in Nat
    BY <1>6, <2>1
  <2>3. step[<<k, g[k - 1]>>] = g[k - 1] + q[k].length
    BY <1>2, <2>1, <2>2
  <2> QED BY <1>6, <2>1, <2>3
<1>8. g = [k \in 0..n |-> g[k]]
  BY <1>6
<1>9. \E f : Adds(f, q)
  BY <1>1, <1>7, <1>8 DEF Adds
<1> QED BY <1>9 DEF TotalOf

\* What the first k symbols of a plan have made of the text.
TextInvariant(I, P, budget, s, k) ==
    /\ s \in Texts(I) /\ s.used <= budget /\ Len(s.snippets) <= k
    /\ \A i \in 1..Len(s.snippets) : s.snippets[i].id = P[i]
    /\ s.truncated = ~ s.open
    /\ s.open => Len(s.snippets) = k /\ \A i \in 1..Len(s.snippets) : ~ s.snippets[i].cut
    /\ ~ s.open => Len(s.snippets) < k \/ \E i \in 1..Len(s.snippets) : s.snippets[i].cut
    /\ \A f : Adds(f, s.snippets) => s.used = f[Len(s.snippets)] + Gaps(Len(s.snippets))

\* One more piece adds its length and a gap.
LEMMA OnePieceMore ==
    ASSUME NEW I, NEW q \in Seq(Pieces(I)), NEW used \in Nat,
           \A f : Adds(f, q) => used = f[Len(q)] + Gaps(Len(q)),
           NEW x \in Pieces(I), NEW g, Adds(g, Append(q, x))
    PROVE  g[Len(q) + 1] + Gaps(Len(q) + 1) = used + Separator(q) + x.length
<1>1. PICK n \in Nat : n = Len(q) /\ DOMAIN q = 1..n
  OBVIOUS
<1>2. PICK r : r = Append(q, x)
  OBVIOUS
<1>3. Len(r) = n + 1 /\ r[n + 1] = x /\ \A k \in 1..n : r[k] = q[k]
  BY <1>1, <1>2
<1>4. \A k \in 0..(n + 1) : g[k] = IF k = 0 THEN 0 ELSE g[k - 1] + r[k].length
  <2>1. g = [k \in 0..(n + 1) |-> IF k = 0 THEN 0 ELSE g[k - 1] + r[k].length]
    BY <1>2, <1>3 DEF Adds
  <2> QED BY <2>1
<1>5. PICK f : f = [k \in 0..n |-> g[k]]
  OBVIOUS
<1>6. Adds(f, q)
  <2>1. ASSUME NEW k \in 0..n PROVE g[k] = IF k = 0 THEN 0 ELSE f[k - 1] + q[k].length
    <3>1. k \in 0..(n + 1)
      OBVIOUS
    <3>2. CASE k = 0
      BY <1>4, <3>1, <3>2
    <3>3. CASE k # 0
      <4>1. k - 1 \in 0..n /\ k \in 1..n
        BY <3>3
      <4> QED BY <1>3, <1>4, <1>5, <3>1, <3>3, <4>1
    <3> QED BY <3>2, <3>3
  <2> QED BY <1>1, <1>5, <2>1 DEF Adds
<1>7. used = g[n] + Gaps(n)
  <2>1. f[n] = g[n]
    BY <1>5
  <2> QED BY <1>1, <1>6, <2>1
<1>8. g[n + 1] = g[n] + x.length
  <2>1. n + 1 \in 0..(n + 1) /\ n + 1 # 0 /\ (n + 1) - 1 = n
    OBVIOUS
  <2> QED BY <1>3, <1>4, <2>1
<1>9. Gaps(n) + Separator(q) = Gaps(n + 1) /\ Gaps(n) \in Nat /\ Separator(q) \in Nat
  <2>1. q = << >> <=> n = 0
    BY <1>1
  <2> QED BY <2>1 DEF Gaps, Separator
<1>10. PICK a, l, u, w : a = g[n] /\ l = x.length /\ u = Gaps(n) /\ w = Separator(q)
  OBVIOUS
<1>11. l \in Nat /\ u \in Nat /\ w \in Nat /\ used = a + u
  BY <1>7, <1>9, <1>10 DEF Pieces
<1>12. a \in Nat
  <2>1. ASSUME NEW k \in 1..(n + 1), g[k - 1] \in Nat PROVE g[k] \in Nat
    <3>1. r[k] \in Pieces(I)
      BY <1>1, <1>3
    <3>2. r[k].length \in Nat
      BY <3>1 DEF Pieces
    <3>3. k \in 0..(n + 1) /\ k # 0
      OBVIOUS
    <3> QED BY <1>4, <2>1, <3>2, <3>3
  <2> DEFINE G == {k \in 0..(n + 1) : g[k] \in Nat}
  <2>2. 0 \in G
    <3>1. 0 \in 0..(n + 1)
      OBVIOUS
    <3> QED BY <1>4, <3>1
  <2>3. \A k \in 1..(n + 1) : k - 1 \in G => k \in G
    BY <2>1
  <2>4. n + 1 \in Nat
    OBVIOUS
  <2>5. \A k \in 0..(n + 1) : k \in G
    <3> HIDE DEF G
    <3> QED BY <2>2, <2>3, <2>4, EveryTurn
  <2> QED BY <1>10, <2>5
<1>13. g[n + 1] = a + l /\ Gaps(n + 1) = u + w
  BY <1>8, <1>9, <1>10
<1>14. (a + l) + (u + w) = used + w + l
  BY <1>11, <1>12
<1> QED BY <1>1, <1>10, <1>13, <1>14

\* Placing one more symbol of the plan keeps the text in order.
LEMMA PlaceTurn ==
    ASSUME NEW I, NEW P \in Seq(I), NEW size \in [I -> Nat], NEW budget \in Nat,
           NEW k \in 1..Len(P), NEW s, TextInvariant(I, P, budget, s, k - 1)
    PROVE  TextInvariant(I, P, budget, Place(budget, size, s, P[k]), k)
<1>1. PICK q, n, used, gap, id, l :
          /\ q = s.snippets /\ n = Len(q) /\ used = s.used /\ gap = Separator(q)
          /\ id = P[k] /\ l = size[id]
  OBVIOUS
<1>2. /\ s \in Texts(I) /\ q \in Seq(Pieces(I)) /\ n \in Nat /\ DOMAIN q = 1..n /\ used \in Nat
      /\ id \in I /\ l \in Nat /\ gap \in Nat
      /\ s.truncated \in BOOLEAN /\ s.open \in BOOLEAN
  <2>1. s \in Texts(I)
    BY DEF TextInvariant
  <2>2. q \in Seq(Pieces(I)) /\ used \in Nat /\ s.truncated \in BOOLEAN /\ s.open \in BOOLEAN
    BY <1>1, <2>1 DEF Texts
  <2>3. id \in I /\ l \in Nat
    BY <1>1
  <2> QED BY <1>1, <2>1, <2>2, <2>3 DEF Separator
<1>3. /\ used <= budget /\ n <= k - 1 /\ \A i \in 1..n : q[i].id = P[i]
      /\ s.truncated = ~ s.open
      /\ s.open => n = k - 1 /\ \A i \in 1..n : ~ q[i].cut
      /\ ~ s.open => n < k - 1 \/ \E i \in 1..n : q[i].cut
      /\ \A f : Adds(f, q) => used = f[n] + Gaps(n)
  BY <1>1 DEF TextInvariant
<1>4. PICK t : t = Place(budget, size, s, id)
  OBVIOUS
<1>5. ASSUME NEW x \in Pieces(I), x.id = id, n = k - 1
      PROVE  /\ Append(q, x) \in Seq(Pieces(I)) /\ Len(Append(q, x)) = k
             /\ \A i \in 1..k : Append(q, x)[i] = IF i = k THEN x ELSE q[i]
             /\ \A i \in 1..k : Append(q, x)[i].id = P[i]
             /\ \A g : Adds(g, Append(q, x)) => g[k] + Gaps(k) = used + gap + x.length
  <2>1. Append(q, x) \in Seq(Pieces(I)) /\ Len(Append(q, x)) = k
    BY <1>1, <1>2, <1>5
  <2>2. \A i \in 1..k : Append(q, x)[i] = IF i = k THEN x ELSE q[i]
    BY <1>1, <1>2, <1>5
  <2>3. \A i \in 1..k : Append(q, x)[i].id = P[i]
    <3>1. \A i \in 1..k : i = k \/ i \in 1..n
      BY <1>5
    <3> QED BY <1>1, <1>3, <1>5, <2>2, <3>1
  <2>4. ASSUME NEW g, Adds(g, Append(q, x)) PROVE g[k] + Gaps(k) = used + gap + x.length
    <3>1. \A f : Adds(f, q) => used = f[Len(q)] + Gaps(Len(q))
      BY <1>1, <1>3
    <3>2. g[Len(q) + 1] + Gaps(Len(q) + 1) = used + Separator(q) + x.length
      <4>1. q \in Seq(Pieces(I)) /\ used \in Nat /\ x \in Pieces(I)
        BY <1>2, <1>5
      <4> QED BY <2>4, <3>1, <4>1, OnePieceMore
    <3>3. Len(q) + 1 = k
      BY <1>1, <1>5
    <3> QED BY <1>1, <3>2, <3>3
  <2> QED BY <2>1, <2>2, <2>3, <2>4
<1>6. CASE ~ s.open
  <2>1. t = s
    BY <1>4, <1>6 DEF Place
  <2>2. n < k - 1 => n < k
    BY <1>2
  <2>3. n <= k
    BY <1>2, <1>3
  <2>4. ~ s.open => n < k \/ \E i \in 1..n : q[i].cut
    BY <1>3, <2>2
  <2> QED BY <1>1, <1>2, <1>3, <1>4, <1>6, <2>1, <2>3, <2>4 DEF TextInvariant
<1>7. CASE s.open /\ gap + l <= budget - used
  <2>1. PICK x : x = [id |-> id, length |-> l, cut |-> FALSE]
    OBVIOUS
  <2>2. t = [s EXCEPT !.used = @ + gap + l, !.snippets = Append(@, x)]
    BY <1>1, <1>4, <1>7, <2>1 DEF Place
  <2>3. x \in Pieces(I) /\ x.id = id /\ x.length = l /\ x.cut = FALSE
    BY <1>2, <2>1 DEF Pieces
  <2>4. n = k - 1
    BY <1>3, <1>7
  <2>5. /\ t.used = used + gap + l /\ t.snippets = Append(q, x)
        /\ t.truncated = s.truncated /\ t.open = s.open
    BY <1>1, <1>2, <2>2 DEF Texts
  <2>6. used + gap + l \in Nat /\ used + gap + l <= budget
    BY <1>2, <1>7
  <2>7. Append(q, x) \in Seq(Pieces(I))
    BY <1>5, <2>3, <2>4
  <2>8. t \in Texts(I)
    BY <1>1, <1>2, <2>2, <2>6, <2>7 DEF Texts
  <2>9. \A i \in 1..k : ~ Append(q, x)[i].cut
    <3>1. \A i \in 1..k : i = k \/ i \in 1..n
      BY <2>4
    <3>2. \A i \in 1..k : Append(q, x)[i] = IF i = k THEN x ELSE q[i]
      BY <1>5, <2>3, <2>4
    <3> QED BY <1>3, <1>7, <2>3, <3>1, <3>2
  <2>10. /\ Len(Append(q, x)) = k /\ \A i \in 1..k : Append(q, x)[i].id = P[i]
         /\ \A g : Adds(g, Append(q, x)) => g[k] + Gaps(k) = used + gap + l
    BY <1>5, <2>3, <2>4
  <2>11. /\ Len(t.snippets) = k /\ \A i \in 1..k : t.snippets[i].id = P[i] /\ ~ t.snippets[i].cut
         /\ \A g : Adds(g, t.snippets) => t.used = g[k] + Gaps(k)
    BY <2>5, <2>9, <2>10
  <2>12. t.used <= budget /\ t.truncated = ~ t.open /\ t.open
    BY <1>3, <1>7, <2>5, <2>6
  <2>13. k <= k
    OBVIOUS
  <2> QED BY <1>1, <1>4, <2>8, <2>11, <2>12, <2>13 DEF TextInvariant
<1>8. CASE s.open /\ ~ (gap + l <= budget - used) /\ budget - used > gap
  <2>1. PICK x, m : m = (budget - used) - gap /\ x = [id |-> id, length |-> m, cut |-> TRUE]
    OBVIOUS
  <2>2. t = [s EXCEPT !.truncated = TRUE, !.open = FALSE, !.used = budget, !.snippets = Append(@, x)]
    BY <1>1, <1>2, <1>4, <1>8, <2>1 DEF Place, Texts
  <2>3. m \in Nat
    BY <1>2, <1>8, <2>1
  <2>4. x \in Pieces(I) /\ x.id = id /\ x.length = m /\ x.cut = TRUE
    BY <1>2, <2>1, <2>3 DEF Pieces
  <2>5. n = k - 1
    BY <1>3, <1>8
  <2>6. t.used = budget /\ t.snippets = Append(q, x) /\ t.truncated = TRUE /\ t.open = FALSE
    BY <1>1, <1>2, <2>2 DEF Texts
  <2>7. Append(q, x) \in Seq(Pieces(I))
    BY <1>5, <2>4, <2>5
  <2>8. t \in Texts(I)
    BY <1>1, <1>2, <2>2, <2>7 DEF Texts
  <2>9. /\ Len(Append(q, x)) = k /\ \A i \in 1..k : Append(q, x)[i].id = P[i]
        /\ \A g : Adds(g, Append(q, x)) => g[k] + Gaps(k) = used + gap + m
    BY <1>5, <2>4, <2>5
  <2>10. Append(q, x)[k] = x /\ k \in 1..k
    BY <1>5, <2>4, <2>5
  <2>11. used + gap + m = budget
    BY <1>2, <2>1
  <2>12. /\ Len(t.snippets) = k /\ \A i \in 1..k : t.snippets[i].id = P[i]
         /\ \E i \in 1..k : t.snippets[i].cut
         /\ \A g : Adds(g, t.snippets) => t.used = g[k] + Gaps(k)
    BY <2>4, <2>6, <2>9, <2>10, <2>11
  <2>13. t.used <= budget /\ k <= k
    <3>1. budget <= budget /\ k <= k
      OBVIOUS
    <3> QED BY <2>6, <3>1
  <2>14. t.truncated = ~ t.open /\ ~ t.open
    BY <2>6
  <2> QED BY <1>1, <1>4, <2>8, <2>12, <2>13, <2>14 DEF TextInvariant
<1>9. CASE s.open /\ ~ (gap + l <= budget - used) /\ ~ (budget - used > gap)
  <2>1. t = [s EXCEPT !.truncated = TRUE, !.open = FALSE]
    BY <1>1, <1>4, <1>9 DEF Place
  <2>2. /\ t.used = used /\ t.snippets = q /\ t.truncated = TRUE /\ t.open = FALSE
        /\ t \in Texts(I)
    BY <1>1, <1>2, <2>1 DEF Texts
  <2>3. n < k /\ n <= k
    BY <1>2, <1>3
  <2> QED BY <1>1, <1>3, <1>4, <2>2, <2>3 DEF TextInvariant
<1> QED BY <1>6, <1>7, <1>8, <1>9

\* What Place makes of a text is a text.
LEMMA PlaceIsAText ==
    ASSUME NEW I, NEW size \in [I -> Nat], NEW budget \in Nat, NEW id \in I, NEW s \in Texts(I)
    PROVE  Place(budget, size, s, id) \in Texts(I)
<1>1. PICK q, used, gap, l, t :
          /\ q = s.snippets /\ used = s.used /\ gap = Separator(q) /\ l = size[id]
          /\ t = Place(budget, size, s, id)
  OBVIOUS
<1>2. /\ q \in Seq(Pieces(I)) /\ used \in Nat /\ l \in Nat /\ gap \in Nat
      /\ s.truncated \in BOOLEAN /\ s.open \in BOOLEAN
  BY <1>1 DEF Texts, Separator
<1>3. CASE ~ s.open
  BY <1>1, <1>3 DEF Place
<1>4. CASE s.open /\ gap + l <= budget - used
  <2>1. PICK x : x = [id |-> id, length |-> l, cut |-> FALSE]
    OBVIOUS
  <2>2. t = [s EXCEPT !.used = @ + gap + l, !.snippets = Append(@, x)]
    BY <1>1, <1>4, <2>1 DEF Place
  <2>3. Append(q, x) \in Seq(Pieces(I)) /\ used + gap + l \in Nat
    BY <1>2, <2>1 DEF Pieces
  <2> QED BY <1>1, <1>2, <2>2, <2>3 DEF Texts
<1>5. CASE s.open /\ ~ (gap + l <= budget - used) /\ budget - used > gap
  <2>1. PICK x, m : m = (budget - used) - gap /\ x = [id |-> id, length |-> m, cut |-> TRUE]
    OBVIOUS
  <2>2. t = [s EXCEPT !.truncated = TRUE, !.open = FALSE, !.used = budget, !.snippets = Append(@, x)]
    BY <1>1, <1>2, <1>5, <2>1 DEF Place, Texts
  <2>3. m \in Nat
    BY <1>2, <1>5, <2>1
  <2>4. Append(q, x) \in Seq(Pieces(I))
    BY <1>2, <2>1, <2>3 DEF Pieces
  <2> QED BY <1>1, <1>2, <2>2, <2>4 DEF Texts
<1>6. CASE s.open /\ ~ (gap + l <= budget - used) /\ ~ (budget - used > gap)
  <2>1. t = [s EXCEPT !.truncated = TRUE, !.open = FALSE]
    BY <1>1, <1>6 DEF Place
  <2> QED BY <1>1, <1>2, <2>1 DEF Texts
<1> QED BY <1>3, <1>4, <1>5, <1>6

\* A text that fits its budget, shows each symbol at most once, and is called
\* truncated exactly when a piece was cut or something found was left out.
FitsIn(t, budget, found) ==
    LET shown == {t.snippets[i].id : i \in DOMAIN t.snippets}
    IN  /\ t.used = TotalOf(t.snippets) + Gaps(Len(t.snippets))
        /\ t.used <= budget
        /\ \A i, j \in DOMAIN t.snippets : t.snippets[i].id = t.snippets[j].id => i = j
        /\ t.truncated <=> \/ found \ shown # {}
                           \/ \E i \in DOMAIN t.snippets : t.snippets[i].cut
        /\ shown \subseteq found

\* The pieces of a plan are placed one after another until one does not fit.
LEMMA FillContextIs ==
    ASSUME NEW I, NEW P \in Seq(I), Distinct(P), NEW size \in [I -> Nat], NEW budget \in Nat,
           NEW t, t = FillContext(P, size, budget)
    PROVE  FitsIn(t, budget, ToSet(P))
<1>1. PICK n \in Nat : n = Len(P) /\ DOMAIN P = 1..n
  OBVIOUS
<1> DEFINE T == Texts(I)
           step == [p \in (1..n) \X T |-> Place(budget, size, p[2], P[p[1]])]
           Fills(f) == f = [k \in 0..n |-> IF k = 0 THEN NoText
                                           ELSE Place(budget, size, f[k - 1], P[k])]
<1>2. t = (CHOOSE f : Fills(f))[n]
  BY <1>1 DEF FillContext, Through, NoText
<1>3. NoText \in T
  BY DEF NoText, Texts
<1>4. TextInvariant(I, P, budget, NoText, 0)
  <2>2. /\ NoText.used = 0 /\ NoText.snippets = << >> /\ NoText.truncated = FALSE
        /\ NoText.open = TRUE
    BY DEF NoText
  <2>3. \A f : Adds(f, << >>) => f[0] + Gaps(0) = 0
    <3> SUFFICES ASSUME NEW f, Adds(f, << >>) PROVE f[0] + Gaps(0) = 0
      OBVIOUS
    <3>1. f = [k \in 0..0 |-> IF k = 0 THEN 0 ELSE f[k - 1] + << >>[k].length]
      BY DEF Adds
    <3>2. f[0] = 0
      BY <3>1
    <3> QED BY <3>2 DEF Gaps
  <2>4. \A i \in 1..0 : FALSE
    OBVIOUS
  <2>5. Len(<< >>) = 0
    OBVIOUS
  <2>6. Len(NoText.snippets) = 0
    BY <2>2, <2>5
  <2>7. \A f : Adds(f, NoText.snippets)
                 => NoText.used = f[Len(NoText.snippets)] + Gaps(Len(NoText.snippets))
    BY <2>2, <2>3, <2>6
  <2>8. NoText.used <= budget /\ Len(NoText.snippets) <= 0
    BY <2>2, <2>6
  <2>9. \A i \in 1..Len(NoText.snippets) : FALSE
    BY <2>4, <2>6
  <2> QED BY <1>3, <2>2, <2>6, <2>7, <2>8, <2>9 DEF TextInvariant
<1>5. \E f : Fills(f)
  <2>1. \A k \in 1..n : \A s \in T : step[<<k, s>>] = Place(budget, size, s, P[k])
    OBVIOUS
  <2>2. IsTurn(n, T, step)
    <3>1. \A k \in 1..n : P[k] \in I
      BY <1>1
    <3>2. \A k \in 1..n : \A s \in T : Place(budget, size, s, P[k]) \in T
      BY <3>1, PlaceIsAText
    <3> QED BY <3>2 DEF IsTurn
  <2> HIDE DEF step, T
  <2>3. PICK f : Repeats(f, n, T, NoText, step)
    BY <1>3, <2>2, RepetitionExists
  <2>4. f = [k \in 0..n |-> f[k]] /\ f[0] = NoText
    BY <2>3 DEF Repeats
  <2>5. ASSUME NEW k \in 0..n, k # 0 PROVE f[k] = Place(budget, size, f[k - 1], P[k])
    <3>1. k \in 1..n /\ k - 1 \in 0..n
      BY <2>5
    <3> QED BY <2>1, <2>3, <3>1 DEF Repeats
  <2>6. Fills(f)
    BY <2>4, <2>5
  <2> QED BY <2>6
<1>6. PICK f : Fills(f) /\ t = f[n]
  <2> HIDE DEF Fills
  <2> QED BY <1>2, <1>5
<1>7. f[0] = NoText /\ \A k \in 1..n : f[k] = Place(budget, size, f[k - 1], P[k])
  <2>1. \A k \in 0..n : f[k] = IF k = 0 THEN NoText ELSE Place(budget, size, f[k - 1], P[k])
    BY <1>6
  <2>2. \A k \in 1..n : k \in 0..n /\ k # 0
    OBVIOUS
  <2>3. 0 \in 0..n
    OBVIOUS
  <2> QED BY <2>1, <2>2, <2>3
<1> HIDE DEF Fills
<1> DEFINE G == {k \in 0..n : TextInvariant(I, P, budget, f[k], k)}
<1>8. TextInvariant(I, P, budget, t, n)
  <2>1. 0 \in G
    BY <1>4, <1>7
  <2>2. ASSUME NEW k \in 1..n, k - 1 \in G PROVE k \in G
    <3>1. TextInvariant(I, P, budget, f[k - 1], k - 1)
      BY <2>2
    <3>2. TextInvariant(I, P, budget, Place(budget, size, f[k - 1], P[k]), k)
      BY <1>1, <3>1, PlaceTurn
    <3> QED BY <1>7, <3>2
  <2>3. \A k \in 0..n : k \in G
    <3> HIDE DEF G
    <3> QED BY <2>1, <2>2, EveryTurn
  <2> QED BY <1>6, <2>3
<1>9. PICK q, m : q = t.snippets /\ m = Len(q)
  OBVIOUS
<1>10. /\ t \in Texts(I) /\ t.used <= budget /\ m <= n
       /\ \A i \in 1..m : q[i].id = P[i]
       /\ t.truncated = ~ t.open
       /\ t.open => m = n /\ \A i \in 1..m : ~ q[i].cut
       /\ ~ t.open => m < n \/ \E i \in 1..m : q[i].cut
       /\ \A g : Adds(g, q) => t.used = g[m] + Gaps(m)
  BY <1>8, <1>9 DEF TextInvariant
<1>11. q \in Seq(Pieces(I)) /\ m \in Nat /\ DOMAIN q = 1..m
       /\ t.truncated \in BOOLEAN /\ t.open \in BOOLEAN
  <2>1. q \in Seq(Pieces(I)) /\ t.truncated \in BOOLEAN /\ t.open \in BOOLEAN
    BY <1>9, <1>10 DEF Texts
  <2> QED BY <1>9, <2>1
<1>12. t.used = TotalOf(q) + Gaps(m)
  <2>1. PICK used : used = t.used
    OBVIOUS
  <2>2. q \in Seq(Pieces(I))
    BY <1>11
  <2>3. \A g : Adds(g, q) => used = g[Len(q)] + Gaps(Len(q))
    BY <1>9, <1>10, <2>1
  <2>4. used = TotalOf(q) + Gaps(Len(q))
    BY <2>2, <2>3, AddingEnds
  <2> QED BY <1>9, <2>1, <2>4
<1>13. \A i, j \in 1..m : q[i].id = q[j].id => i = j
  <2>1. \A i \in 1..m : i \in 1..n
    BY <1>10, <1>11
  <2> QED BY <1>1, <1>10, <2>1 DEF Distinct
<1>14. {q[i].id : i \in 1..m} \subseteq ToSet(P)
  <2>1. \A i \in 1..m : i \in 1..n
    BY <1>10, <1>11
  <2> QED BY <1>1, <1>10, <2>1 DEF ToSet
<1>15. t.truncated <=> ToSet(P) \ {q[i].id : i \in 1..m} # {} \/ \E i \in 1..m : q[i].cut
  <2>1. CASE t.open
    <3>1. m = n /\ (\A i \in 1..m : ~ q[i].cut) /\ ~ t.truncated
      BY <1>10, <1>11, <2>1
    <3>2. \A x \in ToSet(P) : \E i \in 1..m : x = q[i].id
      BY <1>1, <1>10, <3>1 DEF ToSet
    <3> QED BY <3>1, <3>2
  <2>2. CASE ~ t.open
    <3>1. t.truncated
      BY <1>10, <1>11, <2>2
    <3>2. CASE m < n
      <4>1. m + 1 \in 1..n /\ \A i \in 1..m : i # m + 1 /\ i \in 1..n
        BY <1>11, <3>2
      <4>2. P[m + 1] \in ToSet(P)
        BY <1>1, <4>1 DEF ToSet
      <4>3. \A i \in 1..m : q[i].id # P[m + 1]
        <5>1. \A i, j \in 1..n : P[i] = P[j] => i = j
          BY <1>1 DEF Distinct
        <5>2. \A i \in 1..m : P[i] # P[m + 1]
          BY <4>1, <5>1
        <5> QED BY <1>10, <5>2
      <4> QED BY <3>1, <4>2, <4>3
    <3> QED BY <1>10, <2>2, <3>1, <3>2
  <2> QED BY <2>1, <2>2
<1>16. t.snippets = q /\ Len(t.snippets) = m /\ DOMAIN t.snippets = 1..m
  BY <1>9, <1>11
<1>17. \A i, j \in DOMAIN t.snippets : t.snippets[i].id = t.snippets[j].id => i = j
  BY <1>13, <1>16
<1>18. {t.snippets[i].id : i \in DOMAIN t.snippets} = {q[i].id : i \in 1..m}
  BY <1>16
<1>19. (\E i \in DOMAIN t.snippets : t.snippets[i].cut) <=> \E i \in 1..m : q[i].cut
  BY <1>16
<1>20. t.truncated <=> \/ ToSet(P) \ {t.snippets[i].id : i \in DOMAIN t.snippets} # {}
                      \/ \E i \in DOMAIN t.snippets : t.snippets[i].cut
  BY <1>15, <1>18, <1>19
<1>21. /\ t.used = TotalOf(t.snippets) + Gaps(Len(t.snippets)) /\ t.used <= budget
      /\ {t.snippets[i].id : i \in DOMAIN t.snippets} \subseteq ToSet(P)
  BY <1>10, <1>12, <1>14, <1>16, <1>18
<1> QED BY <1>17, <1>20, <1>21 DEF FitsIn

------------------------------------------------------------------------------
(* Finite sets.                                                             *)

\* An image of a finite set is finite.
LEMMA ImageIsFinite ==
    ASSUME NEW D, IsFiniteSet(D), NEW g
    PROVE  IsFiniteSet({g[x] : x \in D})
<1>1. PICK S : S = {g[x] : x \in D}
  OBVIOUS
<1>2. PICK h : h = [x \in D |-> g[x]]
  OBVIOUS
<1>3. h \in [D -> S] /\ \A y \in S : \E x \in D : h[x] = y
  BY <1>1, <1>2
<1>4. h \in Surjection(D, S)
  BY <1>3 DEF Surjection
<1>5. IsFiniteSet(S)
  BY <1>4, FS_Surjection
<1> QED BY <1>1, <1>5

\* A sequence has finitely many members.
LEMMA MembersAreFinite ==
    ASSUME NEW S, NEW q \in Seq(S)
    PROVE  IsFiniteSet(ToSet(q))
<1>1. PICK n \in Nat : n = Len(q) /\ DOMAIN q = 1..n
  OBVIOUS
<1>2. q \in [1..n -> S] /\ IsFiniteSet(1..n)
  <2>1. q \in [1..n -> S]
    BY <1>1
  <2>2. IsFiniteSet(1..n)
    BY FS_Interval
  <2> QED BY <2>1, <2>2
<1>3. IsFiniteSet({q[i] : i \in 1..n})
  BY <1>2, ImageIsFinite
<1> QED BY <1>1, <1>3 DEF ToSet

\* What is taken from a sequence begins it.
LEMMA TakeIs ==
    ASSUME NEW S, NEW q \in Seq(S), NEW n \in Nat
    PROVE  /\ Take(q, n) \in Seq(S) /\ ToSet(Take(q, n)) \subseteq ToSet(q)
           /\ Distinct(q) => Distinct(Take(q, n))
<1>1. PICK m \in Nat : m = Len(q) /\ DOMAIN q = 1..m
  OBVIOUS
<1>2. PICK l \in 0..m : l = IF m < n THEN m ELSE n
  OBVIOUS
<1>3. PICK r : r = Take(q, n)
  OBVIOUS
<1>4. r = SubSeq(q, 1, l)
  BY <1>1, <1>2, <1>3 DEF Take
<1>5. r \in Seq(S) /\ Len(r) = l /\ \A i \in 1..l : r[i] = q[i]
  <2>1. \A i \in 1..l : q[i] \in S
    BY <1>1
  <2>2. l \in Int /\ 1 \in Int /\ l - 1 + 1 = l /\ 1..(l - 1 + 1) = 1..l
    OBVIOUS
  <2>3. \A i \in 1..(l - 1 + 1) : SubSeq(q, 1, l)[i] = q[1 + i - 1]
    BY <2>1, <2>2, SubSeqProperties
  <2>4. SubSeq(q, 1, l) \in Seq(S) /\ Len(SubSeq(q, 1, l)) = IF 1 <= l THEN l - 1 + 1 ELSE 0
    BY <2>1, <2>2, SubSeqProperties
  <2> QED BY <1>4, <2>2, <2>3, <2>4
<1>6. DOMAIN r = 1..l /\ \A i \in 1..l : i \in 1..m
  BY <1>5
<1> QED BY <1>1, <1>3, <1>5, <1>6 DEF ToSet, Distinct

\* Every turn from a value that is in order leads to another.
KeepsOrder(n, T, Inv, step) ==
    \A k \in 1..n : \A s \in T :
        <<k - 1, s>> \in Inv => step[<<k, s>>] \in T /\ <<k, step[<<k, s>>]>> \in Inv

\* A repetition whose turns keep an invariant keeps it to the end.
LEMMA OrderIsKept ==
    ASSUME NEW n \in Nat, NEW T, NEW Inv, NEW base \in T, <<0, base>> \in Inv,
           NEW step, KeepsOrder(n, T, Inv, step)
    PROVE  \E f : Repeats(f, n, T, base, step) /\ \A k \in 0..n : <<k, f[k]>> \in Inv
<1> DEFINE turn == [p \in (1..n) \X T |-> IF step[p] \in T THEN step[p] ELSE base]
<1>1. IsTurn(n, T, turn)
  BY DEF IsTurn
<1>2. \A k \in 1..n : \A s \in T :
          turn[<<k, s>>] = IF step[<<k, s>>] \in T THEN step[<<k, s>>] ELSE base
  OBVIOUS
<1> HIDE DEF turn
<1>3. PICK f : Repeats(f, n, T, base, turn)
  BY <1>1, RepetitionExists
<1>4. /\ f \in [0..n -> T] /\ f[0] = base
      /\ \A k \in 1..n : f[k] = turn[<<k, f[k - 1]>>]
  BY <1>3 DEF Repeats
<1> DEFINE G == {k \in 0..n : <<k, f[k]>> \in Inv /\ (k # 0 => f[k] = step[<<k, f[k - 1]>>])}
<1>5. 0 \in G
  BY <1>4
<1>6. ASSUME NEW k \in 1..n, k - 1 \in G PROVE k \in G
  <2>1. k - 1 \in 0..n /\ f[k - 1] \in T /\ <<k - 1, f[k - 1]>> \in Inv
    BY <1>4, <1>6
  <2>2. step[<<k, f[k - 1]>>] \in T /\ <<k, step[<<k, f[k - 1]>>]>> \in Inv
    BY <2>1 DEF KeepsOrder
  <2>3. f[k] = step[<<k, f[k - 1]>>]
    BY <1>2, <1>4, <2>1, <2>2
  <2> QED BY <2>2, <2>3
<1>7. \A k \in 0..n : k \in G
  <2> HIDE DEF G
  <2> QED BY <1>5, <1>6, EveryTurn
<1>8. \A k \in 1..n : k \in 0..n /\ k # 0
  OBVIOUS
<1>9. \A k \in 1..n : f[k] = step[<<k, f[k - 1]>>]
  BY <1>7, <1>8
<1> QED BY <1>4, <1>7, <1>9 DEF Repeats

------------------------------------------------------------------------------
(* Distances in a graph.                                                    *)

\* What an edge joins to x, and every node an edge could join to m.
Beside(graph, x) == {s.node : s \in Steps(graph, x)}
Around(graph, m) == {m} \cup {e.source : e \in graph.edges} \cup {e.target : e \in graph.edges}

\* The rings around m, up to the n-th.
Rings(f, graph, m, n) ==
    /\ f \in [0..n -> SUBSET Around(graph, m)] /\ f[0] = {m}
    /\ \A k \in 1..n : f[k] = f[k - 1] \cup UNION {Beside(graph, x) : x \in f[k - 1]}

\* No step leads out of the graph.
LEMMA StepsStayAround ==
    ASSUME NEW graph, NEW m, NEW x
    PROVE  Beside(graph, x) \subseteq Around(graph, m)
  BY DEF Beside, Around, Steps

\* Going outwards ring by ring defines the rings.
LEMMA RingsExist ==
    ASSUME NEW graph, NEW m, NEW n \in Nat
    PROVE  \E f : Rings(f, graph, m, n)
<1> DEFINE T == SUBSET Around(graph, m)
           step == [p \in (1..n) \X T |-> p[2] \cup UNION {Beside(graph, x) : x \in p[2]}]
<1>1. IsTurn(n, T, step)
  BY StepsStayAround DEF IsTurn
<1>2. \A k \in 1..n : \A s \in T : step[<<k, s>>] = s \cup UNION {Beside(graph, x) : x \in s}
  OBVIOUS
<1>3. {m} \in T
  BY DEF Around
<1> HIDE DEF step
<1>4. PICK f : Repeats(f, n, T, {m}, step)
  <2> HIDE DEF T
  <2> QED BY <1>1, <1>3, RepetitionExists
<1>5. \A k \in 1..n : k - 1 \in 0..n
  OBVIOUS
<1>6. f \in [0..n -> T] /\ f[0] = {m} /\ \A k \in 1..n : f[k] = step[<<k, f[k - 1]>>]
  BY <1>4 DEF Repeats
<1>7. \A k \in 1..n : f[k - 1] \in T
  BY <1>5, <1>6
<1>8. \A k \in 1..n : f[k] = f[k - 1] \cup UNION {Beside(graph, x) : x \in f[k - 1]}
  BY <1>2, <1>6, <1>7
<1>9. Rings(f, graph, m, n)
  BY <1>6, <1>8 DEF Rings
<1> QED BY <1>9

\* A ring holds those inside it.
LEMMA RingsGrow ==
    ASSUME NEW graph, NEW m, NEW n \in Nat, NEW f, Rings(f, graph, m, n),
           NEW i \in 0..n, NEW j \in 0..n, i <= j
    PROVE  f[i] \subseteq f[j]
<1> DEFINE G == {k \in 0..n : i <= k => f[i] \subseteq f[k]}
<1>1. 0 \in G
  OBVIOUS
<1>2. ASSUME NEW k \in 1..n, k - 1 \in G PROVE k \in G
  <2>1. f[k - 1] \subseteq f[k] /\ k \in 0..n
    BY DEF Rings
  <2>2. CASE i <= k - 1
    BY <1>2, <2>1, <2>2
  <2>3. CASE i = k
    BY <2>1, <2>3
  <2>4. CASE i > k
    BY <2>1, <2>4
  <2> QED BY <2>2, <2>3, <2>4
<1>3. \A k \in 0..n : k \in G
  <2> HIDE DEF G
  <2> QED BY <1>1, <1>2, EveryTurn
<1> QED BY <1>3

\* Within is being in a ring.
LEMMA WithinIs ==
    ASSUME NEW graph, NEW m, NEW n \in Nat, NEW f, Rings(f, graph, m, n), NEW h \in 0..n, NEW x
    PROVE  Within(graph, h, m, x) <=> x \in f[h]
<1> DEFINE Ring(g) == g = [k \in 0..h |-> IF k = 0 THEN {m}
                            ELSE g[k - 1] \cup UNION {{s.node : s \in Steps(graph, y)} : y \in g[k - 1]}]
<1>1. Within(graph, h, m, x) <=> x \in (CHOOSE g : Ring(g))[h]
  BY DEF Within
<1>2. \E g : Ring(g)
  <2>1. PICK g : g = [k \in 0..h |-> f[k]]
    OBVIOUS
  <2>2. ASSUME NEW k \in 0..h
        PROVE  f[k] = IF k = 0 THEN {m}
                      ELSE g[k - 1] \cup UNION {{s.node : s \in Steps(graph, y)} : y \in g[k - 1]}
    <3>1. CASE k = 0
      BY <3>1 DEF Rings
    <3>2. CASE k # 0
      <4>1. k - 1 \in 0..h /\ k \in 1..n
        BY <3>2
      <4>2. g[k - 1] = f[k - 1]
        BY <2>1, <4>1
      <4> QED BY <3>2, <4>1, <4>2 DEF Rings, Beside
    <3> QED BY <3>1, <3>2
  <2>3. Ring(g)
    BY <2>1, <2>2
  <2> QED BY <2>3
<1>3. PICK g : Ring(g) /\ (Within(graph, h, m, x) <=> x \in g[h])
  <2> HIDE DEF Ring
  <2> QED BY <1>1, <1>2
<1>4. \A k \in 0..h : g[k] = IF k = 0 THEN {m}
                            ELSE g[k - 1] \cup UNION {Beside(graph, y) : y \in g[k - 1]}
  BY <1>3 DEF Beside
<1> HIDE DEF Ring
<1> DEFINE G == {k \in 0..h : g[k] = f[k]}
<1>5. 0 \in G
  <2>1. 0 \in 0..h
    OBVIOUS
  <2> QED BY <1>4, <2>1 DEF Rings
<1>6. ASSUME NEW k \in 1..h, k - 1 \in G PROVE k \in G
  <2>1. k \in 0..h /\ k # 0 /\ k \in 1..n
    OBVIOUS
  <2>2. g[k - 1] = f[k - 1]
    BY <1>6
  <2> QED BY <1>4, <2>1, <2>2 DEF Rings
<1>7. \A k \in 0..h : k \in G
  <2> HIDE DEF G
  <2>1. h \in Nat
    OBVIOUS
  <2> QED BY <1>5, <1>6, <2>1, EveryTurn
<1> QED BY <1>3, <1>7

------------------------------------------------------------------------------
(* The breadth-first search from a seed.                                    *)

\* The entries of the queue, the candidates, and the states of a search.
Entries(graph, seed) == [node : Around(graph, SymbolNode(seed)), hop : 0..MaxHops]
Paths(graph, seed) ==
    [seed : {seed}, relation : Relations, direction : {"forward", "reverse"},
     hop : 1..MaxHops, node : Around(graph, SymbolNode(seed))]
Searches(graph, seed) ==
    [queue : Seq(Entries(graph, seed)), visited : SUBSET Around(graph, SymbolNode(seed)),
     found : Seq(Paths(graph, seed))]

\* A node is at its shortest distance h from the centre of the rings f.
AtDistance(f, node, h) == node \in f[h] /\ (h > 0 => node \notin f[h - 1])

\* What holds at every moment of a search: the queue is in order of distance.
SearchIsSound(graph, documents, seed, f, s) ==
    /\ s \in Searches(graph, seed)
    /\ s.visited = {s.queue[i].node : i \in 1..Len(s.queue)}
    /\ \A i \in 1..Len(s.queue) : AtDistance(f, s.queue[i].node, s.queue[i].hop)
    /\ \A i, j \in 1..Len(s.queue) : i < j => s.queue[i].hop <= s.queue[j].hop
    /\ \A i \in 1..Len(s.found) : /\ Supported(documents, s.found[i].node)
                                  /\ AtDistance(f, s.found[i].node, s.found[i].hop)

\* The queue of t begins with that of s.
GoesOn(s, t) ==
    /\ Len(s.queue) <= Len(t.queue)
    /\ \A i \in 1..Len(s.queue) : t.queue[i] = s.queue[i]

\* What a step records of itself.
LEMMA StepsAre ==
    ASSUME NEW graph, NEW x, NEW step \in Steps(graph, x)
    PROVE  /\ step.relation \in Relations /\ step.direction \in {"forward", "reverse"}
           /\ step.node \in Beside(graph, x)
  BY DEF Steps, Beside

\* An edge from an entry at distance h leads to what has been visited, or to a
\* node at distance h + 1.
LEMMA VisitTurn ==
    ASSUME NEW graph, NEW documents, NEW seed, NEW f, Rings(f, graph, SymbolNode(seed), MaxHops),
           NEW s, SearchIsSound(graph, documents, seed, f, s),
           NEW x, NEW h \in 0..MaxHops, h < MaxHops, x \in f[h], f[h] \subseteq s.visited,
           \A i \in 1..Len(s.queue) : s.queue[i].hop <= h + 1,
           NEW step \in Steps(graph, x)
    PROVE  /\ SearchIsSound(graph, documents, seed, f, Visit(documents, seed, h + 1, s, step))
           /\ GoesOn(s, Visit(documents, seed, h + 1, s, step))
           /\ step.node \in Visit(documents, seed, h + 1, s, step).visited
           /\ \A i \in 1..Len(Visit(documents, seed, h + 1, s, step).queue) :
                  Visit(documents, seed, h + 1, s, step).queue[i].hop <= h + 1
<1>1. PICK t : t = Visit(documents, seed, h + 1, s, step)
  OBVIOUS
<1>2. CASE step.node \in s.visited
  <2>1. t = s
    BY <1>1, <1>2 DEF Visit
  <2>2. Len(s.queue) \in Nat
    BY DEF SearchIsSound, Searches
  <2>3. GoesOn(s, s)
    BY <2>2 DEF GoesOn
  <2> QED BY <1>1, <1>2, <2>1, <2>3
<1>3. CASE step.node \notin s.visited
  <2>1. PICK q, n, y, e, g : /\ q = s.queue /\ n = Len(q) /\ y = step.node /\ g = s.found
                             /\ e = [node |-> y, hop |-> h + 1]
    OBVIOUS
  <2>2. PICK p : p = [seed |-> seed, relation |-> step.relation, direction |-> step.direction,
                      hop |-> h + 1, node |-> y]
    OBVIOUS
  <2>3. /\ q \in Seq(Entries(graph, seed)) /\ n \in Nat /\ DOMAIN q = 1..n
        /\ s.visited \in SUBSET Around(graph, SymbolNode(seed))
        /\ g \in Seq(Paths(graph, seed))
    <3>1. s \in Searches(graph, seed)
      BY DEF SearchIsSound
    <3>2. q \in Seq(Entries(graph, seed)) /\ g \in Seq(Paths(graph, seed))
          /\ s.visited \in SUBSET Around(graph, SymbolNode(seed))
      BY <2>1, <3>1 DEF Searches
    <3> QED BY <2>1, <3>2
  <2>4. /\ s.visited = {q[i].node : i \in 1..n}
        /\ \A i \in 1..n : AtDistance(f, q[i].node, q[i].hop)
        /\ \A i, j \in 1..n : i < j => q[i].hop <= q[j].hop
        /\ \A i \in 1..Len(g) : Supported(documents, g[i].node) /\ AtDistance(f, g[i].node, g[i].hop)
        /\ \A i \in 1..n : q[i].hop <= h + 1
    BY <2>1 DEF SearchIsSound
  <2>5. h + 1 \in 1..MaxHops /\ h + 1 \in 0..MaxHops /\ MaxHops \in Nat
    BY HopsAreNatural
  <2>6. y \in Around(graph, SymbolNode(seed)) /\ y \in Beside(graph, x)
    BY <2>1, StepsAre, StepsStayAround
  <2>7. e \in Entries(graph, seed) /\ p \in Paths(graph, seed)
    BY <2>1, <2>2, <2>5, <2>6, StepsAre DEF Entries, Paths
  <2>8. AtDistance(f, y, h + 1)
    <3>1. h + 1 > 0 /\ (h + 1) - 1 = h
      OBVIOUS
    <3>2. f[h + 1] = f[h] \cup UNION {Beside(graph, z) : z \in f[h]}
      BY <2>5, <3>1 DEF Rings
    <3>3. y \in f[h + 1] /\ y \notin f[h]
      BY <1>3, <2>1, <2>6, <3>2
    <3> QED BY <3>1, <3>3 DEF AtDistance
  <2>9. /\ t.queue = Append(q, e) /\ t.visited = s.visited \cup {y}
        /\ t.found = IF Supported(documents, y) THEN Append(g, p) ELSE g
        /\ t = [queue |-> t.queue, visited |-> t.visited, found |-> t.found]
    BY <1>1, <1>3, <2>1, <2>2 DEF Visit
  <2>10. PICK r, c : r = t.queue /\ c = t.found
    OBVIOUS
  <2>11. /\ r \in Seq(Entries(graph, seed)) /\ Len(r) = n + 1 /\ r[n + 1] = e
         /\ \A i \in 1..n : r[i] = q[i]
    BY <2>1, <2>3, <2>7, <2>9, <2>10
  <2>12. \A i \in 1..(n + 1) : i = n + 1 \/ i \in 1..n
    BY <2>3
  <2>13. /\ c \in Seq(Paths(graph, seed))
         /\ \A i \in 1..Len(c) : /\ Supported(documents, c[i].node)
                                 /\ AtDistance(f, c[i].node, c[i].hop)
    <3>1. CASE ~ Supported(documents, y)
      BY <2>3, <2>4, <2>9, <2>10, <3>1
    <3>2. CASE Supported(documents, y)
      <4>1. PICK m \in Nat : m = Len(g)
        BY <2>3
      <4>2. /\ c \in Seq(Paths(graph, seed)) /\ Len(c) = m + 1 /\ c[m + 1] = p
            /\ \A i \in 1..m : c[i] = g[i]
        BY <2>3, <2>7, <2>9, <2>10, <3>2, <4>1
      <4>3. \A i \in 1..(m + 1) : i = m + 1 \/ i \in 1..m
        OBVIOUS
      <4>4. p.node = y /\ p.hop = h + 1
        BY <2>2
      <4> QED BY <2>4, <2>8, <3>2, <4>1, <4>2, <4>3, <4>4
    <3> QED BY <3>1, <3>2
  <2>14. t \in Searches(graph, seed)
    BY <2>3, <2>6, <2>9, <2>10, <2>11, <2>13 DEF Searches
  <2>15. e.node = y /\ e.hop = h + 1
    BY <2>1
  <2>16. t.visited = {r[i].node : i \in 1..(n + 1)}
    <3>1. \A i \in 1..n : i \in 1..(n + 1)
      BY <2>3
    <3>2. n + 1 \in 1..(n + 1)
      BY <2>3
    <3>3. \A z : z \in t.visited <=> z = y \/ \E i \in 1..n : z = q[i].node
      BY <2>4, <2>9
    <3>4. \A z : (\E i \in 1..(n + 1) : z = r[i].node) <=> z = y \/ \E i \in 1..n : z = q[i].node
      BY <2>11, <2>12, <2>15, <3>1, <3>2
    <3>5. PICK V, W : V = t.visited /\ W = {r[i].node : i \in 1..(n + 1)}
      OBVIOUS
    <3>6. \A z : z \in V <=> z \in W
      <4>1. \A z : z \in W <=> \E i \in 1..(n + 1) : z = r[i].node
        BY <3>5
      <4>2. \A z : z \in V <=> z = y \/ \E i \in 1..n : z = q[i].node
        BY <3>3, <3>5
      <4> QED BY <3>4, <4>1, <4>2, Zenon
    <3>7. V = W
      BY <3>6
    <3> QED BY <3>5, <3>7
  <2>17. \A i \in 1..(n + 1) : AtDistance(f, r[i].node, r[i].hop) /\ r[i].hop <= h + 1
    <3>1. h + 1 <= h + 1
      OBVIOUS
    <3> QED BY <2>4, <2>8, <2>11, <2>12, <2>15, <3>1
  <2>18. \A i, j \in 1..(n + 1) : i < j => r[i].hop <= r[j].hop
    <3> SUFFICES ASSUME NEW i \in 1..(n + 1), NEW j \in 1..(n + 1), i < j
                 PROVE  r[i].hop <= r[j].hop
      OBVIOUS
    <3>1. i \in 1..n
      BY <2>3
    <3>2. CASE j = n + 1
      BY <2>4, <2>11, <2>15, <3>1, <3>2
    <3>3. CASE j \in 1..n
      BY <2>4, <2>11, <3>1, <3>3
    <3> QED BY <2>12, <3>2, <3>3
  <2>19. GoesOn(s, t)
    BY <2>1, <2>3, <2>10, <2>11 DEF GoesOn
  <2>20. y \in t.visited
    BY <2>9
  <2>21. SearchIsSound(graph, documents, seed, f, t)
    BY <2>10, <2>11, <2>13, <2>14, <2>16, <2>17, <2>18 DEF SearchIsSound
  <2> QED BY <1>1, <2>1, <2>10, <2>11, <2>17, <2>19, <2>20, <2>21
<1> QED BY <1>2, <1>3

\* The first k entries of the queue have been taken up.
SearchedTo(graph, documents, seed, f, s, k) ==
    /\ SearchIsSound(graph, documents, seed, f, s)
    /\ SymbolNode(seed) \in s.visited
    /\ \A i \in 1..Len(s.queue) :
           i <= k /\ s.queue[i].hop < MaxHops => Beside(graph, s.queue[i].node) \subseteq s.visited
    /\ \A i, j \in 1..Len(s.queue) : j >= k => s.queue[i].hop <= s.queue[j].hop + 1

\* The queue and the candidates of a search, entry by entry.
LEMMA SearchTypes ==
    ASSUME NEW graph, NEW documents, NEW seed, NEW f, NEW s,
           SearchIsSound(graph, documents, seed, f, s)
    PROVE  /\ Len(s.queue) \in Nat /\ DOMAIN s.queue = 1..Len(s.queue)
           /\ \A i \in 1..Len(s.queue) : /\ s.queue[i].hop \in 0..MaxHops /\ s.queue[i].hop \in Nat
                                         /\ s.queue[i].node \in s.visited
           /\ Len(s.found) \in Nat /\ DOMAIN s.found = 1..Len(s.found)
           /\ \A i \in 1..Len(s.found) : s.found[i] \in Paths(graph, seed)
<1>1. s \in Searches(graph, seed) /\ s.visited = {s.queue[i].node : i \in 1..Len(s.queue)}
  BY DEF SearchIsSound
<1>2. s.queue \in Seq(Entries(graph, seed)) /\ s.found \in Seq(Paths(graph, seed))
  BY <1>1 DEF Searches
<1>3. \A i \in 1..Len(s.queue) : s.queue[i] \in Entries(graph, seed)
  BY <1>2
<1>4. \A i \in 1..Len(s.queue) : s.queue[i].hop \in 0..MaxHops
  BY <1>3 DEF Entries
<1>5. \A i \in 1..Len(s.queue) : s.queue[i].hop \in Nat
  BY <1>4
<1> QED BY <1>1, <1>2, <1>4, <1>5

\* A search that goes on forgets nothing it has visited.
LEMMA VisitedGrows ==
    ASSUME NEW graph, NEW documents, NEW seed, NEW f, NEW s, NEW t,
           SearchIsSound(graph, documents, seed, f, s), SearchIsSound(graph, documents, seed, f, t),
           GoesOn(s, t)
    PROVE  s.visited \subseteq t.visited
<1>1. /\ s.visited = {s.queue[i].node : i \in 1..Len(s.queue)}
      /\ \A i \in 1..Len(t.queue) : t.queue[i].node \in t.visited
  BY SearchTypes DEF SearchIsSound
<1>2. \A i \in 1..Len(s.queue) : i \in 1..Len(t.queue) /\ t.queue[i] = s.queue[i]
  <2>1. Len(s.queue) \in Nat /\ Len(t.queue) \in Nat
    BY SearchTypes
  <2> QED BY <2>1 DEF GoesOn
<1> QED BY <1>1, <1>2

\* When an entry at distance h is taken up, everything as near has been seen.
LEMMA NearerIsVisited ==
    ASSUME NEW graph, NEW documents, NEW seed, NEW f, Rings(f, graph, SymbolNode(seed), MaxHops),
           NEW s, NEW k \in 1..Len(s.queue), SearchedTo(graph, documents, seed, f, s, k - 1)
    PROVE  f[s.queue[k].hop] \subseteq s.visited
<1>1. PICK q, n, V : q = s.queue /\ n = Len(q) /\ V = s.visited
  OBVIOUS
<1>2. SearchIsSound(graph, documents, seed, f, s) /\ MaxHops \in Nat
  BY HopsAreNatural DEF SearchedTo
<1>3. /\ n \in Nat /\ k \in 1..n
      /\ \A i \in 1..n : q[i].hop \in 0..MaxHops /\ q[i].hop \in Nat
  BY <1>1, <1>2, SearchTypes
<1>4. PICK h \in 0..MaxHops : h = q[k].hop /\ h \in Nat
  BY <1>3
<1>5. /\ V = {q[i].node : i \in 1..n} /\ SymbolNode(seed) \in V
      /\ \A i \in 1..n : AtDistance(f, q[i].node, q[i].hop)
      /\ \A i, j \in 1..n : i < j => q[i].hop <= q[j].hop
      /\ \A i \in 1..n : i <= k - 1 /\ q[i].hop < MaxHops => Beside(graph, q[i].node) \subseteq V
  BY <1>1 DEF SearchedTo, SearchIsSound
<1> DEFINE G == {g \in 0..h : f[g] \subseteq V}
<1>6. 0 \in G
  BY <1>5 DEF Rings
<1>7. ASSUME NEW g \in 1..h, g - 1 \in G PROVE g \in G
  <2>1. g \in 1..MaxHops /\ g - 1 \in 0..MaxHops /\ f[g - 1] \subseteq V
    <3>1. f[g - 1] \subseteq V
      BY <1>7
    <3>2. g \in 1..MaxHops
      BY <1>2, <1>4
    <3>3. g - 1 \in 0..MaxHops
      BY <1>2, <3>2
    <3> QED BY <3>1, <3>2, <3>3
  <2>2. f[g] = f[g - 1] \cup UNION {Beside(graph, z) : z \in f[g - 1]}
    BY <2>1 DEF Rings
  <2>3. ASSUME NEW z \in f[g - 1] PROVE Beside(graph, z) \subseteq V
    <3>1. PICK i \in 1..n : z = q[i].node
      BY <1>5, <2>1
    <3>2. PICK d \in 0..MaxHops : d = q[i].hop /\ d \in Nat
      BY <1>3
    <3>3. d <= g - 1
      <4>1. SUFFICES ASSUME ~ (d <= g - 1) PROVE FALSE
        OBVIOUS
      <4>2. d > 0 /\ d - 1 \in 0..MaxHops /\ g - 1 <= d - 1
        <5>1. g \in Nat /\ g > 0 /\ d <= MaxHops
          BY <3>2
        <5> QED BY <1>2, <3>2, <4>1, <5>1
      <4>3. f[g - 1] \subseteq f[d - 1]
        <5>1. PICK a \in 0..MaxHops, b \in 0..MaxHops : a = g - 1 /\ b = d - 1
          BY <2>1, <4>2
        <5>2. PICK m : m = SymbolNode(seed)
          OBVIOUS
        <5>3. a <= b /\ Rings(f, graph, m, MaxHops) /\ MaxHops \in Nat
          BY <1>2, <4>2, <5>1, <5>2
        <5>4. f[a] \subseteq f[b]
          BY <5>3, RingsGrow
        <5> QED BY <5>1, <5>4
      <4>4. z \notin f[d - 1]
        BY <1>5, <3>1, <3>2, <4>2 DEF AtDistance
      <4> QED BY <2>3, <4>3, <4>4
    <3>4. d < h /\ d < MaxHops
      <4>1. g \in Nat /\ g <= h /\ h <= MaxHops
        BY <1>4
      <4> QED BY <1>2, <1>4, <3>2, <3>3, <4>1
    <3>5. i <= k - 1
      <4>1. SUFFICES ASSUME ~ (i <= k - 1) PROVE FALSE
        OBVIOUS
      <4>2. i = k \/ k < i
        BY <1>3, <4>1
      <4>3. h <= d
        BY <1>3, <1>4, <1>5, <3>2, <4>2
      <4> QED BY <1>4, <3>2, <3>4, <4>3
    <3> QED BY <1>5, <3>1, <3>2, <3>4, <3>5
  <2> QED BY <2>1, <2>2, <2>3
<1>8. \A g \in 0..h : g \in G
  <2> HIDE DEF G
  <2> QED BY <1>4, <1>6, <1>7, EveryTurn
<1> QED BY <1>1, <1>4, <1>8

\* A node has finitely many steps.
LEMMA StepsAreFinite ==
    ASSUME NEW graph, IsFiniteSet(graph.edges), NEW x
    PROVE  IsFiniteSet(Steps(graph, x))
<1>1. PICK E, A, B : /\ E = {e \in graph.edges : e.relation \in Relations}
                     /\ A = {e \in E : e.source = x} /\ B = {e \in E : e.target = x}
  OBVIOUS
<1>2. IsFiniteSet(A) /\ IsFiniteSet(B)
  BY <1>1, FS_Subset
<1>3. PICK a, b : /\ a = [e \in A |-> [relation |-> e.relation, direction |-> "forward", node |-> e.target]]
                  /\ b = [e \in B |-> [relation |-> e.relation, direction |-> "reverse", node |-> e.source]]
  OBVIOUS
<1>4. a \in [A -> {a[e] : e \in A}] /\ b \in [B -> {b[e] : e \in B}]
  BY <1>3
<1>5. IsFiniteSet({a[e] : e \in A}) /\ IsFiniteSet({b[e] : e \in B})
  <2>1. PICK R, S : a \in [A -> R] /\ b \in [B -> S]
    BY <1>4
  <2>2. IsFiniteSet({a[e] : e \in A})
    BY <1>2, <2>1, ImageIsFinite
  <2>3. IsFiniteSet({b[e] : e \in B})
    BY <1>2, <2>1, ImageIsFinite
  <2> QED BY <2>2, <2>3
<1>6. IsFiniteSet({a[e] : e \in A} \cup {b[e] : e \in B})
  BY <1>5, FS_Union
<1>7. Steps(graph, x) = {a[e] : e \in A} \cup {b[e] : e \in B}
  <2>1. /\ {a[e] : e \in A} = {[relation |-> e.relation, direction |-> "forward", node |-> e.target] : e \in A}
        /\ {b[e] : e \in B} = {[relation |-> e.relation, direction |-> "reverse", node |-> e.source] : e \in B}
    BY <1>3
  <2> QED BY <1>1, <2>1 DEF Steps
<1> QED BY <1>6, <1>7

\* After some of the steps from the k-th entry of s, in the order of L.
VisitedTo(graph, documents, seed, f, s, h, L, t, j) ==
    /\ SearchIsSound(graph, documents, seed, f, t) /\ GoesOn(s, t)
    /\ \A i \in 1..Len(t.queue) : t.queue[i].hop <= h + 1
    /\ \A i \in 1..j : L[i].node \in t.visited

\* Following one more edge from an entry keeps the search sound.
LEMMA VisitsTurn ==
    ASSUME NEW graph, NEW documents, NEW seed, NEW f, Rings(f, graph, SymbolNode(seed), MaxHops),
           NEW s, SearchIsSound(graph, documents, seed, f, s),
           NEW x, NEW h \in 0..MaxHops, h < MaxHops, x \in f[h], f[h] \subseteq s.visited,
           NEW L \in Seq(Steps(graph, x)), NEW j \in 1..Len(L),
           NEW t, VisitedTo(graph, documents, seed, f, s, h, L, t, j - 1)
    PROVE  VisitedTo(graph, documents, seed, f, s, h, L, Visit(documents, seed, h + 1, t, L[j]), j)
<1>1. PICK u, step : u = Visit(documents, seed, h + 1, t, L[j]) /\ step = L[j]
  OBVIOUS
<1>2. /\ SearchIsSound(graph, documents, seed, f, t) /\ GoesOn(s, t)
      /\ \A i \in 1..Len(t.queue) : t.queue[i].hop <= h + 1
      /\ \A i \in 1..(j - 1) : L[i].node \in t.visited
  BY DEF VisitedTo
<1>3. f[h] \subseteq t.visited
  BY <1>2, VisitedGrows
<1>4. step \in Steps(graph, x)
  BY <1>1
<1>5. /\ SearchIsSound(graph, documents, seed, f, u) /\ GoesOn(t, u) /\ step.node \in u.visited
      /\ \A i \in 1..Len(u.queue) : u.queue[i].hop <= h + 1
  BY <1>1, <1>2, <1>3, <1>4, VisitTurn
<1>6. t.visited \subseteq u.visited
  BY <1>2, <1>5, VisitedGrows
<1>7. GoesOn(s, u)
  <2>1. Len(s.queue) \in Nat /\ Len(t.queue) \in Nat /\ Len(u.queue) \in Nat
    BY <1>2, <1>5, SearchTypes
  <2>2. \A i \in 1..Len(s.queue) : i \in 1..Len(t.queue)
    BY <1>2, <2>1 DEF GoesOn
  <2> QED BY <1>2, <1>5, <2>1, <2>2 DEF GoesOn
<1>8. \A i \in 1..j : i = j \/ i \in 1..(j - 1)
  OBVIOUS
<1>9. \A i \in 1..j : L[i].node \in u.visited
  <2> SUFFICES ASSUME NEW i \in 1..j PROVE L[i].node \in u.visited
    OBVIOUS
  <2>1. CASE i = j
    BY <1>1, <1>5, <2>1
  <2>2. CASE i \in 1..(j - 1)
    BY <1>2, <1>6, <2>2
  <2> QED BY <1>8, <2>1, <2>2
<1> QED BY <1>1, <1>5, <1>7, <1>9 DEF VisitedTo

\* All the steps from an entry are followed.
LEMMA VisitsEnd ==
    ASSUME NEW graph, NEW documents, NEW seed, NEW f, Rings(f, graph, SymbolNode(seed), MaxHops),
           NEW s, SearchIsSound(graph, documents, seed, f, s),
           NEW x, NEW h \in 0..MaxHops, h < MaxHops, x \in f[h], f[h] \subseteq s.visited,
           \A i \in 1..Len(s.queue) : s.queue[i].hop <= h + 1,
           NEW L \in Seq(Steps(graph, x)), NEW n, n = Len(L),
           NEW t, t = (CHOOSE g : g = [j \in 0..n |-> IF j = 0 THEN s
                                         ELSE Visit(documents, seed, h + 1, g[j - 1], L[j])])[n]
    PROVE  VisitedTo(graph, documents, seed, f, s, h, L, t, n)
<1> DEFINE T == Searches(graph, seed)
           step == [p \in (1..n) \X T |-> Visit(documents, seed, h + 1, p[2], L[p[1]])]
           Inv == {p \in (0..n) \X T : VisitedTo(graph, documents, seed, f, s, h, L, p[2], p[1])}
           Visits(g) == g = [j \in 0..n |-> IF j = 0 THEN s
                                            ELSE Visit(documents, seed, h + 1, g[j - 1], L[j])]
<1>1. n \in Nat
  OBVIOUS
<1>2. VisitedTo(graph, documents, seed, f, s, h, L, s, 0)
  <2>1. Len(s.queue) \in Nat
    BY SearchTypes
  <2>2. GoesOn(s, s)
    BY <2>1 DEF GoesOn
  <2>3. \A i \in 1..0 : FALSE
    OBVIOUS
  <2> QED BY <2>2, <2>3 DEF VisitedTo
<1>3. s \in T /\ <<0, s>> \in Inv
  BY <1>1, <1>2 DEF SearchIsSound
<1>4. ASSUME NEW j \in 1..n, NEW u, VisitedTo(graph, documents, seed, f, s, h, L, u, j - 1)
      PROVE  VisitedTo(graph, documents, seed, f, s, h, L, Visit(documents, seed, h + 1, u, L[j]), j)
  <2>1. j \in 1..Len(L)
    OBVIOUS
  <2> QED BY <1>4, <2>1, VisitsTurn
<1>5. \A j \in 1..n : \A u \in T : step[<<j, u>>] = Visit(documents, seed, h + 1, u, L[j])
  OBVIOUS
<1> HIDE DEF step
<1>6. KeepsOrder(n, T, Inv, step)
  <2> SUFFICES ASSUME NEW j \in 1..n, NEW u \in T, <<j - 1, u>> \in Inv
               PROVE  step[<<j, u>>] \in T /\ <<j, step[<<j, u>>]>> \in Inv
    BY DEF KeepsOrder
  <2>1. VisitedTo(graph, documents, seed, f, s, h, L, u, j - 1)
    OBVIOUS
  <2>2. PICK v : v = Visit(documents, seed, h + 1, u, L[j])
    OBVIOUS
  <2>3. VisitedTo(graph, documents, seed, f, s, h, L, v, j)
    BY <1>4, <2>1, <2>2
  <2>4. v \in T /\ j \in 0..n
    BY <1>1, <2>3 DEF VisitedTo, SearchIsSound
  <2> QED BY <1>5, <2>2, <2>3, <2>4
<1>7. \E g : Visits(g)
  <2>1. PICK g : Repeats(g, n, T, s, step)
    <3> HIDE DEF T, Inv
    <3> QED BY <1>1, <1>3, <1>6, OrderIsKept
  <2>2. g \in [0..n -> T] /\ g[0] = s /\ \A j \in 1..n : g[j] = step[<<j, g[j - 1]>>]
    BY <2>1 DEF Repeats
  <2>3. ASSUME NEW j \in 0..n, j # 0 PROVE g[j] = Visit(documents, seed, h + 1, g[j - 1], L[j])
    <3>1. j \in 1..n /\ j - 1 \in 0..n
      BY <2>3
    <3>2. g[j - 1] \in T
      BY <2>2, <3>1
    <3> HIDE DEF T
    <3> QED BY <1>5, <2>2, <3>1, <3>2
  <2>4. g = [j \in 0..n |-> g[j]] /\ g[0] = s
    BY <2>2
  <2>5. Visits(g)
    BY <2>3, <2>4
  <2> QED BY <2>5
<1>8. PICK g : Visits(g) /\ t = g[n]
  <2> HIDE DEF Visits
  <2>1. t = (CHOOSE g : Visits(g))[n]
    BY DEF Visits
  <2> QED BY <1>7, <2>1
<1>9. g[0] = s /\ \A j \in 1..n : g[j] = Visit(documents, seed, h + 1, g[j - 1], L[j])
  <2>1. \A j \in 0..n : g[j] = IF j = 0 THEN s ELSE Visit(documents, seed, h + 1, g[j - 1], L[j])
    BY <1>8
  <2>2. \A j \in 1..n : j \in 0..n /\ j # 0
    OBVIOUS
  <2>3. 0 \in 0..n
    BY <1>1
  <2> QED BY <2>1, <2>2, <2>3
<1> HIDE DEF Visits
<1> DEFINE G == {j \in 0..n : VisitedTo(graph, documents, seed, f, s, h, L, g[j], j)}
<1>10. 0 \in G
  BY <1>1, <1>2, <1>9
<1>11. ASSUME NEW j \in 1..n, j - 1 \in G PROVE j \in G
  BY <1>4, <1>9, <1>11
<1>12. \A j \in 0..n : j \in G
  <2> HIDE DEF G
  <2> QED BY <1>1, <1>10, <1>11, EveryTurn
<1> QED BY <1>1, <1>8, <1>12

\* Taking up one more entry of the queue keeps the search sound.
LEMMA PopTurn ==
    ASSUME NEW graph, IsFiniteSet(graph.edges), NEW nodes, NEW documents, NEW seed,
           NEW f, Rings(f, graph, SymbolNode(seed), MaxHops),
           NEW s, NEW k \in Nat \ {0}, SearchedTo(graph, documents, seed, f, s, k - 1)
    PROVE  SearchedTo(graph, documents, seed, f, Pop(graph, nodes, documents, seed, s, k), k)
<1>1. PICK t : t = Pop(graph, nodes, documents, seed, s, k)
  OBVIOUS
<1>2. /\ SearchIsSound(graph, documents, seed, f, s) /\ SymbolNode(seed) \in s.visited
      /\ \A i \in 1..Len(s.queue) :
             i <= k - 1 /\ s.queue[i].hop < MaxHops => Beside(graph, s.queue[i].node) \subseteq s.visited
      /\ \A i, j \in 1..Len(s.queue) : j >= k - 1 => s.queue[i].hop <= s.queue[j].hop + 1
  BY DEF SearchedTo
<1>3. PICK n \in Nat : n = Len(s.queue)
  BY <1>2, SearchTypes
<1>4. MaxHops \in Nat
  BY HopsAreNatural
<1>5. CASE k > n
  <2>1. t = s
    BY <1>1, <1>3, <1>5 DEF Pop
  <2>2. \A i \in 1..n : i <= k - 1 /\ ~ (i >= k)
    BY <1>5
  <2> QED BY <1>1, <1>2, <1>3, <2>1, <2>2 DEF SearchedTo
<1>6. CASE k <= n /\ s.queue[k].hop >= MaxHops
  <2>1. t = s
    BY <1>1, <1>3, <1>6 DEF Pop
  <2>2. s.queue[k].hop \in Nat
    BY <1>2, <1>3, <1>6, SearchTypes
  <2>3. \A i \in 1..n : i <= k /\ s.queue[i].hop < MaxHops => i <= k - 1
    BY <1>4, <1>6, <2>2
  <2>4. \A i \in 1..n : i >= k => i >= k - 1
    OBVIOUS
  <2> QED BY <1>1, <1>2, <1>3, <2>1, <2>3, <2>4 DEF SearchedTo
<1>7. CASE k <= n /\ ~ (s.queue[k].hop >= MaxHops)
  <2>1. PICK h, x : h = s.queue[k].hop /\ x = s.queue[k].node
    OBVIOUS
  <2>2. k \in 1..n /\ h \in 0..MaxHops /\ h \in Nat /\ h < MaxHops
    <3>1. k \in 1..n
      BY <1>7
    <3>2. h \in 0..MaxHops
      BY <1>2, <1>3, <2>1, <3>1, SearchTypes
    <3> QED BY <1>4, <1>7, <2>1, <3>1, <3>2
  <2>3. f[h] \subseteq s.visited
    BY <1>3, <2>1, <2>2, NearerIsVisited
  <2>4. x \in f[h]
    BY <1>2, <1>3, <2>1, <2>2 DEF SearchIsSound, AtDistance
  <2>5. \A i \in 1..n : s.queue[i].hop <= h + 1
    <3>1. k >= k - 1
      OBVIOUS
    <3> QED BY <1>2, <1>3, <2>1, <2>2, <3>1
  <2> DEFINE beforeOf(y) == {p \in Steps(graph, y) \X Steps(graph, y) :
                                StepKey(nodes, p[1]) < StepKey(nodes, p[2])}
             sorted(y) == InsertionSort(Steps(graph, y), beforeOf(y))
             Goes(g, hop, q) == g = [j \in 0..Len(q) |-> IF j = 0 THEN s
                                        ELSE Visit(documents, seed, hop + 1, g[j - 1], q[j])]
             last(hop, q) == (CHOOSE g : Goes(g, hop, q))[Len(q)]
             before == beforeOf(x)
  <2>6. PICK L, m : L = InsertionSort(Steps(graph, x), before) /\ m = Len(L)
    OBVIOUS
  <2>7. Enumerates(L, Steps(graph, x))
    BY <2>6, StepsAreFinite, InsertionSortEnumerates
  <2>8. L \in Seq(Steps(graph, x)) /\ ToSet(L) = Steps(graph, x) /\ m \in Nat /\ DOMAIN L = 1..m
    <3>1. L \in Seq(Steps(graph, x)) /\ ToSet(L) = Steps(graph, x)
      BY <2>7, EnumerationIs
    <3> QED BY <2>6, <3>1
  <2>9. t = (CHOOSE g : g = [j \in 0..m |-> IF j = 0 THEN s
                               ELSE Visit(documents, seed, h + 1, g[j - 1], L[j])])[m]
    <3>1. Pop(graph, nodes, documents, seed, s, k)
            = IF k > Len(s.queue) \/ s.queue[k].hop >= MaxHops THEN s
              ELSE last(s.queue[k].hop, sorted(s.queue[k].node))
      BY DEF Pop, Through, SortedBy
    <3>2. t = last(h, L)
      <4>1. sorted(x) = L
        BY <2>6
      <4> HIDE DEF last, sorted
      <4>2. t = last(s.queue[k].hop, sorted(s.queue[k].node))
        BY <1>1, <1>3, <1>7, <3>1
      <4> QED BY <2>1, <4>1, <4>2
    <3> QED BY <2>6, <3>2
  <2>10. VisitedTo(graph, documents, seed, f, s, h, L, t, m)
    <3>1. \A i \in 1..Len(s.queue) : s.queue[i].hop <= h + 1
      BY <1>3, <2>5
    <3>2. h \in 0..MaxHops /\ h < MaxHops /\ L \in Seq(Steps(graph, x)) /\ m = Len(L)
      BY <2>2, <2>6, <2>8
    <3>3. SearchIsSound(graph, documents, seed, f, s)
      BY <1>2
    <3> QED BY <2>3, <2>4, <2>9, <3>1, <3>2, <3>3, VisitsEnd
  <2>11. /\ SearchIsSound(graph, documents, seed, f, t) /\ GoesOn(s, t)
         /\ \A i \in 1..Len(t.queue) : t.queue[i].hop <= h + 1
         /\ \A i \in 1..m : L[i].node \in t.visited
    BY <2>10 DEF VisitedTo
  <2>12. s.visited \subseteq t.visited
    BY <1>2, <2>11, VisitedGrows
  <2>13. PICK l \in Nat : l = Len(t.queue)
    BY <2>11, SearchTypes
  <2>14. n <= l /\ \A i \in 1..n : i \in 1..l /\ t.queue[i] = s.queue[i]
    BY <1>3, <2>11, <2>13 DEF GoesOn
  <2>15. Beside(graph, x) \subseteq t.visited
    <3>1. Beside(graph, x) = {L[i].node : i \in 1..m}
      BY <2>8 DEF Beside, ToSet
    <3> QED BY <2>11, <3>1
  <2>16. ASSUME NEW i \in 1..l, i <= k, t.queue[i].hop < MaxHops
         PROVE  Beside(graph, t.queue[i].node) \subseteq t.visited
    <3>1. i \in 1..n
      BY <2>2, <2>16
    <3>2. CASE i = k
      BY <2>1, <2>14, <2>15, <3>1, <3>2
    <3>3. CASE i # k
      <4>1. i <= k - 1
        BY <2>16, <3>3
      <4> QED BY <1>2, <1>3, <2>12, <2>14, <2>16, <3>1, <4>1
    <3> QED BY <3>2, <3>3
  <2>17. ASSUME NEW i \in 1..l, NEW j \in 1..l, j >= k
         PROVE  t.queue[i].hop <= t.queue[j].hop + 1
    <3>1. /\ t.queue[k].hop = h /\ k \in 1..l
      BY <2>1, <2>2, <2>14
    <3>2. \A a, b \in 1..l : a < b => t.queue[a].hop <= t.queue[b].hop
      BY <2>11, <2>13 DEF SearchIsSound
    <3>3. t.queue[j].hop \in Nat /\ t.queue[i].hop \in Nat
      BY <2>11, <2>13, SearchTypes
    <3>4. j = k \/ k < j
      BY <2>17
    <3>5. h <= t.queue[j].hop
      BY <2>2, <3>1, <3>2, <3>4
    <3>6. t.queue[i].hop <= h + 1
      BY <2>11, <2>13
    <3> QED BY <2>2, <3>3, <3>5, <3>6
  <2> QED BY <1>1, <1>2, <2>11, <2>12, <2>13, <2>16, <2>17 DEF SearchedTo
<1> QED BY <1>3, <1>5, <1>6, <1>7

\* A candidate says how near its seed it is, and has something to show.
IsFound(graph, documents, c) ==
    /\ c.hop \in 1..MaxHops
    /\ Within(graph, c.hop, SymbolNode(c.seed), c.node)
    /\ ~ Within(graph, c.hop - 1, SymbolNode(c.seed), c.node)
    /\ Supported(documents, c.node)
    /\ c.node \in Around(graph, SymbolNode(c.seed))

\* A search begins with its seed, at distance 0.
LEMMA SearchBegins ==
    ASSUME NEW graph, NEW documents, NEW seed, NEW f, Rings(f, graph, SymbolNode(seed), MaxHops),
           NEW s, s = [queue |-> <<[node |-> SymbolNode(seed), hop |-> 0]>>,
                       visited |-> {SymbolNode(seed)}, found |-> << >>]
    PROVE  SearchedTo(graph, documents, seed, f, s, 0)
<1>1. PICK m, e : m = SymbolNode(seed) /\ e = [node |-> m, hop |-> 0]
  OBVIOUS
<1>2. s.queue = <<e>> /\ s.visited = {m} /\ s.found = << >>
  BY <1>1
<1>3. m \in Around(graph, m) /\ 0 \in 0..MaxHops /\ MaxHops \in Nat
  BY HopsAreNatural DEF Around
<1>4. e \in Entries(graph, seed) /\ e.node = m /\ e.hop = 0
  BY <1>1, <1>3 DEF Entries
<1>5. Len(s.queue) = 1 /\ s.queue[1] = e /\ \A i \in 1..1 : i = 1
  BY <1>2
<1>6. s \in Searches(graph, seed)
  <2>1. <<e>> \in Seq(Entries(graph, seed)) /\ << >> \in Seq(Paths(graph, seed))
    BY <1>4
  <2>2. {m} \in SUBSET Around(graph, SymbolNode(seed))
    BY <1>1, <1>3
  <2> QED BY <1>1, <2>1, <2>2 DEF Searches
<1>7. AtDistance(f, m, 0)
  BY <1>1 DEF AtDistance, Rings
<1>8. Len(s.found) = 0 /\ \A i \in 1..0 : FALSE
  BY <1>2
<1>9. s.visited = {s.queue[i].node : i \in 1..Len(s.queue)}
  <2>1. 1 \in 1..1
    OBVIOUS
  <2> QED BY <1>2, <1>4, <1>5, <2>1
<1>10. \A i \in 1..Len(s.queue) : s.queue[i] = e /\ ~ (i <= 0)
  BY <1>5
<1>11. \A i, j \in 1..Len(s.queue) : s.queue[i].hop <= s.queue[j].hop /\ s.queue[i].hop <= s.queue[j].hop + 1
  BY <1>4, <1>10
<1>12. SearchIsSound(graph, documents, seed, f, s)
  BY <1>4, <1>6, <1>7, <1>8, <1>9, <1>10, <1>11 DEF SearchIsSound
<1> QED BY <1>1, <1>2, <1>10, <1>11, <1>12 DEF SearchedTo

\* What a search from a seed returns is at the distance it says.
LEMMA FromSeedIs ==
    ASSUME NEW graph, IsFiniteSet(graph.edges), NEW nodes, Len(nodes) \in Nat,
           NEW documents, NEW seed, NEW r, r = FromSeed(graph, nodes, documents, seed)
    PROVE  /\ r \in Seq(Paths(graph, seed))
           /\ \A c \in ToSet(r) : c.seed = seed /\ IsFound(graph, documents, c)
<1>1. PICK n \in Nat : n = Len(nodes)
  OBVIOUS
<1>2. PICK m, base, H : /\ m = SymbolNode(seed) /\ H = MaxHops
                        /\ base = [queue |-> <<[node |-> m, hop |-> 0]>>, visited |-> {m}, found |-> << >>]
  OBVIOUS
<1>3. H \in Nat
  BY <1>2, HopsAreNatural
<1>4. PICK f : Rings(f, graph, m, H)
  BY <1>3, RingsExist
<1>5. Rings(f, graph, SymbolNode(seed), MaxHops)
  BY <1>2, <1>4
<1>6. SearchedTo(graph, documents, seed, f, base, 0)
  BY <1>2, <1>5, SearchBegins
<1> DEFINE T == Searches(graph, seed)
           step == [p \in (1..n) \X T |-> Pop(graph, nodes, documents, seed, p[2], p[1])]
           Inv == {p \in (0..n) \X T : SearchedTo(graph, documents, seed, f, p[2], p[1])}
           Pops(g) == g = [k \in 0..n |-> IF k = 0 THEN base
                                          ELSE Pop(graph, nodes, documents, seed, g[k - 1], k)]
           comes(a, b) == \/ a.hop < b.hop
                          \/ a.hop = b.hop /\ Position(nodes, a.node) < Position(nodes, b.node)
           before(S) == {p \in S \X S : comes(p[1], p[2])}
           order(found) == InsertionSort(ToSet(found), before(ToSet(found)))
<1>7. r = Take(order((CHOOSE g : Pops(g))[n].found), MaxPerSeed)
  BY <1>1, <1>2 DEF FromSeed, SortedBy
<1>8. base \in T /\ <<0, base>> \in Inv
  BY <1>6 DEF SearchedTo, SearchIsSound
<1>9. ASSUME NEW k \in 1..n, NEW u, SearchedTo(graph, documents, seed, f, u, k - 1)
      PROVE  SearchedTo(graph, documents, seed, f, Pop(graph, nodes, documents, seed, u, k), k)
  <2>1. k \in Nat \ {0}
    OBVIOUS
  <2> QED BY <1>5, <1>9, <2>1, PopTurn
<1>10. \A k \in 1..n : \A u \in T : step[<<k, u>>] = Pop(graph, nodes, documents, seed, u, k)
  OBVIOUS
<1> HIDE DEF step
<1>11. KeepsOrder(n, T, Inv, step)
  <2> SUFFICES ASSUME NEW k \in 1..n, NEW u \in T, <<k - 1, u>> \in Inv
               PROVE  step[<<k, u>>] \in T /\ <<k, step[<<k, u>>]>> \in Inv
    BY DEF KeepsOrder
  <2>1. SearchedTo(graph, documents, seed, f, u, k - 1)
    OBVIOUS
  <2>2. PICK v : v = Pop(graph, nodes, documents, seed, u, k)
    OBVIOUS
  <2>3. SearchedTo(graph, documents, seed, f, v, k)
    BY <1>9, <2>1, <2>2
  <2>4. v \in T /\ k \in 0..n
    BY <2>3 DEF SearchedTo, SearchIsSound
  <2> QED BY <1>10, <2>2, <2>3, <2>4
<1>12. \E g : Pops(g)
  <2>1. PICK g : Repeats(g, n, T, base, step)
    <3> HIDE DEF T, Inv
    <3> QED BY <1>8, <1>11, OrderIsKept
  <2>2. g \in [0..n -> T] /\ g[0] = base /\ \A k \in 1..n : g[k] = step[<<k, g[k - 1]>>]
    BY <2>1 DEF Repeats
  <2>3. ASSUME NEW k \in 0..n, k # 0 PROVE g[k] = Pop(graph, nodes, documents, seed, g[k - 1], k)
    <3>1. k \in 1..n /\ k - 1 \in 0..n
      BY <2>3
    <3>2. g[k - 1] \in T
      BY <2>2, <3>1
    <3> HIDE DEF T
    <3> QED BY <1>10, <2>2, <3>1, <3>2
  <2>4. g = [k \in 0..n |-> g[k]] /\ g[0] = base
    BY <2>2
  <2>5. Pops(g)
    BY <2>3, <2>4
  <2> QED BY <2>5
<1>13. PICK g : Pops(g) /\ r = Take(order(g[n].found), MaxPerSeed)
  <2> HIDE DEF Pops, order
  <2> QED BY <1>7, <1>12
<1>14. g[0] = base /\ \A k \in 1..n : g[k] = Pop(graph, nodes, documents, seed, g[k - 1], k)
  <2>1. \A k \in 0..n : g[k] = IF k = 0 THEN base ELSE Pop(graph, nodes, documents, seed, g[k - 1], k)
    BY <1>13
  <2>2. \A k \in 1..n : k \in 0..n /\ k # 0
    OBVIOUS
  <2>3. 0 \in 0..n
    OBVIOUS
  <2> QED BY <2>1, <2>2, <2>3
<1> HIDE DEF Pops
<1> DEFINE G == {k \in 0..n : SearchedTo(graph, documents, seed, f, g[k], k)}
<1>15. 0 \in G
  BY <1>6, <1>14
<1>16. ASSUME NEW k \in 1..n, k - 1 \in G PROVE k \in G
  BY <1>9, <1>14, <1>16
<1>17. \A k \in 0..n : k \in G
  <2> HIDE DEF G
  <2> QED BY <1>15, <1>16, EveryTurn
<1>18. PICK s : s = g[n] /\ SearchIsSound(graph, documents, seed, f, s)
  BY <1>17 DEF SearchedTo
<1>19. PICK R : R = ToSet(s.found)
  OBVIOUS
<1>20. s.found \in Seq(Paths(graph, seed)) /\ IsFiniteSet(R) /\ R \subseteq Paths(graph, seed)
  <2>1. s.found \in Seq(Paths(graph, seed))
    BY <1>18 DEF SearchIsSound, Searches
  <2>2. IsFiniteSet(R)
    BY <1>19, <2>1, MembersAreFinite
  <2>3. R \subseteq Paths(graph, seed)
    BY <1>19, <2>1 DEF ToSet
  <2> QED BY <2>1, <2>2, <2>3
<1>21. ASSUME NEW c \in R PROVE c.seed = seed /\ IsFound(graph, documents, c)
  <2>1. PICK i \in 1..Len(s.found) : c = s.found[i]
    <3>1. DOMAIN s.found = 1..Len(s.found)
      BY <1>18, SearchTypes
    <3> QED BY <1>19, <3>1 DEF ToSet
  <2>2. Supported(documents, c.node) /\ AtDistance(f, c.node, c.hop)
    BY <1>18, <2>1 DEF SearchIsSound
  <2>3. c.seed = seed /\ c.hop \in 1..MaxHops /\ c.node \in Around(graph, m)
    BY <1>2, <1>20 DEF Paths
  <2>4. PICK h \in 1..H : h = c.hop
    BY <1>2, <2>3
  <2>5. h \in 0..H /\ h - 1 \in 0..H /\ h > 0
    BY <1>3
  <2>6. Within(graph, h, m, c.node)
    <3>1. c.node \in f[h]
      BY <2>2, <2>4 DEF AtDistance
    <3> QED BY <1>3, <1>4, <2>5, <3>1, WithinIs
  <2>7. ~ Within(graph, h - 1, m, c.node)
    <3>1. PICK l \in 0..H : l = h - 1
      BY <2>5
    <3>2. c.node \notin f[l]
      BY <2>2, <2>4, <2>5, <3>1 DEF AtDistance
    <3>3. ~ Within(graph, l, m, c.node)
      BY <1>3, <1>4, <3>2, WithinIs
    <3> QED BY <3>1, <3>3
  <2> QED BY <1>2, <2>2, <2>3, <2>4, <2>6, <2>7 DEF IsFound
<1>22. PICK q : q = order(s.found)
  OBVIOUS
<1>23. q \in Seq(R) /\ ToSet(q) = R
  <2>1. PICK b : q = InsertionSort(R, b)
    BY <1>19, <1>22
  <2>2. Enumerates(q, R)
    BY <1>20, <2>1, InsertionSortEnumerates
  <2> QED BY <2>2, EnumerationIs
<1>24. q \in Seq(Paths(graph, seed))
  BY <1>20, <1>23
<1>25. r = Take(q, MaxPerSeed) /\ MaxPerSeed \in Nat
  BY <1>13, <1>18, <1>22, ExpansionIsBounded
<1>26. r \in Seq(Paths(graph, seed)) /\ ToSet(r) \subseteq R
  BY <1>23, <1>24, <1>25, TakeIs
<1> QED BY <1>21, <1>26

------------------------------------------------------------------------------
(* The expansion and the hits.                                              *)

\* The expansion is found from the seeds, each node once.
LEMMA ExpandGraphIs ==
    ASSUME NEW graph, IsFiniteSet(graph.edges), IsFiniteSet(graph.nodes),
           NEW seeds, IsFiniteSet(seeds), NEW documents, NEW order,
           NEW D, D = ExpandGraph(graph, seeds, documents, order)
    PROVE  /\ IsFiniteSet(D) /\ \A c, d \in D : c.node = d.node => c = d
           /\ \A c \in D : IsFound(graph, documents, c)
<1> DEFINE known == {s \in seeds : SymbolNode(s) \in graph.nodes}
           before == {p \in known \X known : Position(order, p[1]) < Position(order, p[2])}
           adds(selected, c) == IF \/ Cardinality(selected) >= MaxNodes
                                   \/ \E x \in selected : x.node = c.node
                                THEN selected ELSE selected \cup {c}
           Expands(g, flat) == g = [k \in 0..Len(flat) |-> IF k = 0 THEN {} ELSE adds(g[k - 1], flat[k])]
           last(flat) == (CHOOSE g : Expands(g, flat))[Len(flat)]
           partsOf(nodes, ordered) ==
               [i \in DOMAIN ordered |-> FromSeed(graph, nodes, documents, ordered[i])]
           sorted == InsertionSort(known, before)
           joined == FlattenSeq(partsOf(Listing(graph.nodes), sorted))
<1>0. D = last(joined)
  BY DEF ExpandGraph, Through, SortedBy
<1>1. PICK nodes, ordered : nodes = Listing(graph.nodes) /\ ordered = InsertionSort(known, before)
  OBVIOUS
<1>2. PICK parts : parts = [i \in DOMAIN ordered |-> FromSeed(graph, nodes, documents, ordered[i])]
  OBVIOUS
<1>3. PICK flat : flat = FlattenSeq(parts)
  OBVIOUS
<1>4. D = (CHOOSE g : Expands(g, flat))[Len(flat)]
  <2>1. sorted = ordered
    BY <1>1
  <2>2. parts = partsOf(Listing(graph.nodes), sorted)
    <3>1. parts = partsOf(nodes, ordered)
      BY <1>2
    <3> HIDE DEF partsOf, sorted
    <3> QED BY <1>1, <2>1, <3>1
  <2>3. flat = joined
    <3> HIDE DEF partsOf, sorted
    <3> QED BY <1>3, <2>2
  <2>4. D = last(flat)
    <3> HIDE DEF last, joined
    <3> QED BY <1>0, <2>3
  <2> QED BY <2>4
<1>5. Len(nodes) \in Nat
  <2>1. nodes \in Seq(graph.nodes)
    BY <1>1, ListingEnumerates DEF Enumerates
  <2> QED BY <2>1
<1>6. ordered \in Seq(seeds)
  <2>1. PICK K : K = known
    OBVIOUS
  <2>2. IsFiniteSet(K) /\ K \subseteq seeds
    BY <2>1, FS_Subset
  <2>3. Enumerates(ordered, K)
    <3>1. PICK b : ordered = InsertionSort(K, b)
      BY <1>1, <2>1
    <3> QED BY <2>2, <3>1, InsertionSortEnumerates
  <2>4. ordered \in Seq(K)
    BY <2>3 DEF Enumerates
  <2> QED BY <2>2, <2>4
<1>7. PICK n \in Nat : n = Len(ordered) /\ DOMAIN ordered = 1..n
  BY <1>6
<1>8. PICK U : U = UNION {Paths(graph, s) : s \in seeds}
  OBVIOUS
<1>9. ASSUME NEW i \in 1..n
      PROVE  parts[i] \in Seq(U) /\ \A c \in ToSet(parts[i]) : IsFound(graph, documents, c)
  <2>1. PICK s \in seeds : s = ordered[i]
    BY <1>6, <1>7
  <2>2. PICK r : r = FromSeed(graph, nodes, documents, s)
    OBVIOUS
  <2>3. parts[i] = r
    BY <1>2, <1>7, <2>1, <2>2
  <2>4. r \in Seq(Paths(graph, s)) /\ \A c \in ToSet(r) : c.seed = s /\ IsFound(graph, documents, c)
    BY <1>5, <2>2, FromSeedIs
  <2>5. Paths(graph, s) \subseteq U
    BY <1>8
  <2>6. r \in Seq(U)
    BY <2>4, <2>5
  <2> QED BY <2>3, <2>4, <2>6
<1>10. parts \in Seq(Seq(U)) /\ Len(parts) = n
  <2>1. parts = [i \in 1..n |-> parts[i]]
    BY <1>2, <1>7
  <2> QED BY <1>9, <2>1
<1>11. /\ flat \in Seq(U) /\ ToSet(flat) = UNION {ToSet(parts[i]) : i \in 1..n}
  BY <1>3, <1>10, FlattenIs
<1>12. \A c \in ToSet(flat) : IsFound(graph, documents, c)
  BY <1>9, <1>11
<1>13. PICK m \in Nat : m = Len(flat) /\ DOMAIN flat = 1..m
  BY <1>11
<1>14. PICK F : F = ToSet(flat)
  OBVIOUS
<1>15. IsFiniteSet(F) /\ \A k \in 1..m : flat[k] \in F
  BY <1>11, <1>13, <1>14, MembersAreFinite DEF ToSet
<1> DEFINE T == SUBSET F
           step == [p \in (1..m) \X T |-> adds(p[2], flat[p[1]])]
<1>16. \A k \in 1..m : \A s \in T : step[<<k, s>>] = adds(s, flat[k])
  OBVIOUS
<1>17. IsTurn(m, T, step)
  BY <1>15 DEF IsTurn
<1>18. {} \in T
  OBVIOUS
<1>19. \E g : Expands(g, flat)
  <2> HIDE DEF step, adds
  <2>1. PICK g : Repeats(g, m, T, {}, step)
    <3> HIDE DEF T
    <3> QED BY <1>17, <1>18, RepetitionExists
  <2>2. g \in [0..m -> T] /\ g[0] = {} /\ \A k \in 1..m : g[k] = step[<<k, g[k - 1]>>]
    BY <2>1 DEF Repeats
  <2>3. ASSUME NEW k \in 0..m, k # 0 PROVE g[k] = adds(g[k - 1], flat[k])
    <3>1. k \in 1..m /\ k - 1 \in 0..m
      BY <2>3
    <3>2. g[k - 1] \in T
      BY <2>2, <3>1
    <3> HIDE DEF T
    <3> QED BY <1>16, <2>2, <3>1, <3>2
  <2>4. g = [k \in 0..m |-> g[k]] /\ g[0] = {}
    BY <2>2
  <2>5. Expands(g, flat)
    BY <1>13, <2>3, <2>4
  <2> QED BY <2>5
<1>20. PICK g : Expands(g, flat) /\ D = g[m]
  <2> HIDE DEF Expands
  <2> QED BY <1>4, <1>13, <1>19
<1>21. g[0] = {} /\ \A k \in 1..m : g[k] = adds(g[k - 1], flat[k])
  <2> HIDE DEF adds
  <2>1. \A k \in 0..m : g[k] = IF k = 0 THEN {} ELSE adds(g[k - 1], flat[k])
    BY <1>13, <1>20
  <2>2. \A k \in 1..m : k \in 0..m /\ k # 0
    OBVIOUS
  <2>3. 0 \in 0..m
    OBVIOUS
  <2> QED BY <2>1, <2>2, <2>3
<1> HIDE DEF Expands
<1> DEFINE G == {k \in 0..m : g[k] \subseteq F /\ \A c, d \in g[k] : c.node = d.node => c = d}
<1>22. 0 \in G
  BY <1>21
<1>23. ASSUME NEW k \in 1..m, k - 1 \in G PROVE k \in G
  <2>1. g[k - 1] \subseteq F /\ \A c, d \in g[k - 1] : c.node = d.node => c = d
    BY <1>23
  <2>2. PICK s, x : s = g[k - 1] /\ x = flat[k]
    OBVIOUS
  <2>3. \/ g[k] = s
        \/ g[k] = s \cup {x} /\ ~ \E y \in s : y.node = x.node
    BY <1>21, <2>2
  <2>4. x \in F
    BY <1>15, <2>2
  <2>5. g[k] \subseteq F
    BY <2>1, <2>2, <2>3, <2>4
  <2>6. \A c, d \in g[k] : c.node = d.node => c = d
    BY <2>1, <2>2, <2>3
  <2> QED BY <2>5, <2>6
<1>24. \A k \in 0..m : k \in G
  <2> HIDE DEF G
  <2> QED BY <1>22, <1>23, EveryTurn
<1>25. D \subseteq F /\ \A c, d \in D : c.node = d.node => c = d
  BY <1>20, <1>24
<1>26. IsFiniteSet(D)
  BY <1>15, <1>25, FS_Subset
<1> QED BY <1>12, <1>14, <1>25, <1>26

\* A ranking holds members of its set, each once.
LEMMA RankedIs ==
    ASSUME NEW S, IsFiniteSet(S), NEW score, NEW order, NEW n \in Nat
    PROVE  Ranked(S, score, order, n) \in Seq(S) /\ Distinct(Ranked(S, score, order, n))
<1> DEFINE before == {p \in S \X S : \/ score[p[1]] > score[p[2]]
                                     \/ /\ score[p[1]] = score[p[2]]
                                        /\ Position(order, p[1]) < Position(order, p[2])}
<1>1. Ranked(S, score, order, n) = Take(InsertionSort(S, before), n)
  BY DEF Ranked, SortedBy
<1> HIDE DEF before
<1>2. PICK q : q = InsertionSort(S, before)
  OBVIOUS
<1>3. q \in Seq(S) /\ Distinct(q)
  BY <1>2, InsertionSortEnumerates, EnumerationIs
<1> QED BY <1>1, <1>2, <1>3, TakeIs

\* The ends of every edge are nodes, and there are finitely many.
IsSearchable(graph) ==
    /\ IsFiniteSet(graph.edges) /\ IsFiniteSet(graph.nodes)
    /\ \A e \in graph.edges : /\ e.source = <<e.source[1], e.source[2]>>
                              /\ e.target = <<e.target[1], e.target[2]>>

\* Finitely many documents, each with a length.
IsCorpus(docs) == IsFiniteSet(docs) /\ \A d \in docs : d.size \in Nat

\* What a package promises of its text.
TextIsSound(a) ==
    FitsIn(a, a.budget, ToSet(a.hits)
                            \cup {c.node[2] : c \in {x \in a.candidates : x.node[1] = "symbol"}})

\* A text made from distinct hits and distinct candidates keeps its promises.
LEMMA ContextIs ==
    ASSUME NEW cfg, NEW budget \in Nat, NEW degraded, NEW order, NEW I, NEW size \in [I -> Nat],
           NEW hits \in Seq(I), Distinct(hits), NEW C, IsFiniteSet(C), OneEach(C),
           \A c \in C : c.node[1] = "symbol" => c.node[2] \in I,
           NEW a, a = Context(cfg, budget, degraded, order, size, hits, C)
    PROVE  a.candidates = C /\ TextIsSound(a)
<1>1. PICK P, t : P = Plan(hits, C, order) /\ t = FillContext(P, size, budget)
  OBVIOUS
<1>2. /\ a.hits = hits /\ a.candidates = C /\ a.budget = budget
      /\ a.used = t.used /\ a.snippets = t.snippets /\ a.truncated = t.truncated
  <2>1. a = [budget |-> budget, degraded |-> degraded, candidates |-> C, hits |-> hits,
             used |-> t.used, snippets |-> t.snippets, truncated |-> t.truncated]
    BY <1>1 DEF Context
  <2> QED BY <2>1
<1>3. PICK found : found = ToSet(hits) \cup {c.node[2] : c \in {x \in C : x.node[1] = "symbol"}}
  OBVIOUS
<1>4. P \in Seq(I) /\ Distinct(P) /\ ToSet(P) = found
  BY <1>1, <1>3, PlanIs
<1>8. t = FillContext(P, size, budget)
  BY <1>1
<1>5. FitsIn(t, budget, found)
  BY <1>4, <1>8, FillContextIs
<1>6. found = ToSet(a.hits) \cup {c.node[2] : c \in {x \in a.candidates : x.node[1] = "symbol"}}
  BY <1>2, <1>3
<1> DEFINE sound(q, used, truncated) ==
               /\ used = TotalOf(q) + Gaps(Len(q))
               /\ used <= budget
               /\ \A i, j \in DOMAIN q : q[i].id = q[j].id => i = j
               /\ truncated <=> \/ found \ {q[i].id : i \in DOMAIN q} # {}
                                \/ \E i \in DOMAIN q : q[i].cut
               /\ {q[i].id : i \in DOMAIN q} \subseteq found
<1>9. sound(t.snippets, t.used, t.truncated)
  BY <1>5 DEF FitsIn
<1>10. sound(a.snippets, a.used, a.truncated)
  <2> HIDE DEF sound
  <2> QED BY <1>2, <1>9
<1>11. FitsIn(a, budget, found)
  BY <1>10 DEF FitsIn
<1>7. TextIsSound(a)
  BY <1>2, <1>6, <1>11 DEF TextIsSound
<1> QED BY <1>2, <1>7

\* What the graph adds are documents, each once.
LEMMA ExpansionIs ==
    ASSUME NEW graph, IsSearchable(graph), NEW docs, NEW C,
           \A c, d \in C : c.node = d.node => c = d,
           \A c \in C : IsFound(graph, docs, c)
    PROVE  OneEach(C) /\ \A c \in C : c.node[1] = "symbol" => c.node[2] \in {d.id : d \in docs}
<1>1. ASSUME NEW c \in C PROVE c.node = <<c.node[1], c.node[2]>>
  <2>0. SymbolNode(c.seed) = <<SymbolNode(c.seed)[1], SymbolNode(c.seed)[2]>>
    BY DEF SymbolNode
  <2>1. PICK m : m = SymbolNode(c.seed) /\ m = <<m[1], m[2]>>
    BY <2>0
  <2>2. c.node \in {m} \cup {e.source : e \in graph.edges} \cup {e.target : e \in graph.edges}
    BY <2>1 DEF IsFound, Around
  <2> QED BY <2>1, <2>2 DEF IsSearchable
<1>2. OneEach(C)
  <2> SUFFICES ASSUME NEW c \in C, NEW d \in C, c.node[1] = "symbol", d.node[1] = "symbol",
                      c.node[2] = d.node[2]
               PROVE  c = d
    BY DEF OneEach
  <2>1. c.node = d.node
    BY <1>1
  <2> QED BY <2>1
<1>3. ASSUME NEW c \in C, c.node[1] = "symbol" PROVE c.node[2] \in {d.id : d \in docs}
  <2>1. Supported(docs, c.node)
    BY DEF IsFound
  <2> QED BY <1>3, <2>1 DEF Supported
<1> QED BY <1>2, <1>3

\* The ids of a corpus, and the lengths of its documents by id.
LEMMA CorpusIs ==
    ASSUME NEW docs, IsCorpus(docs), NEW ids, ids = {d.id : d \in docs}
    PROVE  /\ IsFiniteSet(ids)
           /\ [id \in ids |-> (CHOOSE d \in docs : d.id = id).size] \in [ids -> Nat]
<1>1. IsFiniteSet(ids)
  <2>1. PICK g : g = [d \in docs |-> d.id]
    OBVIOUS
  <2>2. g \in [docs -> ids] /\ \A id \in ids : \E d \in docs : g[d] = id
    BY <2>1
  <2>3. g \in Surjection(docs, ids)
    BY <2>2 DEF Surjection
  <2>4. IsFiniteSet(docs)
    BY DEF IsCorpus
  <2> QED BY <2>3, <2>4, FS_Surjection
<1>2. ASSUME NEW id \in ids PROVE (CHOOSE d \in docs : d.id = id).size \in Nat
  <2>1. \E d \in docs : d.id = id
    OBVIOUS
  <2>2. (CHOOSE d \in docs : d.id = id) \in docs
    BY <2>1
  <2> QED BY <2>2 DEF IsCorpus
<1> QED BY <1>1, <1>2

\* Either ranking lists documents of the corpus.
LEMMA HitsAre ==
    ASSUME NEW ids, IsFiniteSet(ids), NEW score, NEW order, NEW n \in Nat
    PROVE  /\ LexicalHits(Restrict(score, ids), order, n) \in Seq(ids)
           /\ SemanticHits(Restrict(score, ids), order, n) \in Seq(ids)
<1>0. DOMAIN Restrict(score, ids) = ids
  BY DEF Restrict
<1>1. PICK s : s = Restrict(score, ids) /\ DOMAIN s = ids
  BY <1>0
<1>2. PICK S : S = {d \in ids : s[d] > 0}
  OBVIOUS
<1>3. S \subseteq ids /\ IsFiniteSet(S)
  BY <1>2, FS_Subset
<1>4. Ranked(S, s, order, n) \in Seq(S) /\ Ranked(ids, s, order, n) \in Seq(ids)
  BY <1>3, RankedIs
<1>5. Ranked(S, s, order, n) \in Seq(ids)
  BY <1>3, <1>4
<1>6. LexicalHits(s, order, n) = Ranked(S, s, order, n) /\ SemanticHits(s, order, n) = Ranked(ids, s, order, n)
  BY <1>1, <1>2 DEF LexicalHits, SemanticHits
<1> QED BY <1>1, <1>4, <1>5, <1>6

\* The fused hits are documents of either ranking, each once.
LEMMA FusedAre ==
    ASSUME NEW cfg, NEW I, NEW lexical \in Seq(I), NEW semantic \in Seq(I), NEW lex, NEW sem,
           NEW C, NEW order, NEW n \in Nat,
           NEW hits, hits = Fuse(cfg, lexical, semantic, lex, sem, C, order, n)
    PROVE  hits \in Seq(I) /\ Distinct(hits)
<1>1. PICK S : S = ToSet(lexical) \cup ToSet(semantic)
  OBVIOUS
<1>2. IsFiniteSet(S)
  BY <1>1, MembersAreFinite, FS_Union
<1>3. S \subseteq I
  BY <1>1 DEF ToSet
<1>4. PICK score : hits = Ranked(S, score, order, n)
  BY <1>1 DEF Fuse
<1>5. hits \in Seq(S) /\ Distinct(hits)
  BY <1>2, <1>4, RankedIs
<1> QED BY <1>3, <1>5

\* Whatever a query asks for, its answer keeps every promise.
LEMMA AnswersAreSound ==
    ASSUME NEW cfg, NEW n \in Nat, NEW budget \in Nat, NEW order, NEW docs, IsCorpus(docs),
           NEW lex, NEW sem, NEW fails, IsSearchable(index.snapshot.graph),
           NEW a \in Answers(cfg, n, budget, order, docs, lex, sem, fails)
    PROVE  TextIsSound(a) /\ \A c \in a.candidates : IsFound(index.snapshot.graph, docs, c)
<1>1. PICK ids, graph : ids = {d.id : d \in docs} /\ graph = index.snapshot.graph
  OBVIOUS
<1>2. PICK size : size = [id \in ids |-> (CHOOSE d \in docs : d.id = id).size]
  OBVIOUS
<1>3. IsFiniteSet(ids) /\ size \in [ids -> Nat]
  BY <1>1, <1>2, CorpusIs
<1>4. PICK h : h = <<IF cfg.lexical > 0 THEN LexicalHits(Restrict(lex, ids), order, n) ELSE << >>,
                     IF cfg.semantic > 0 /\ ~fails
                     THEN SemanticHits(Restrict(sem, ids), order, n) ELSE << >>>>
  OBVIOUS
<1>5. PICK seeds : seeds = ToSet(h[1]) \cup ToSet(h[2])
  OBVIOUS
<1>6. PICK C : C = IF cfg.graphEnabled THEN ExpandGraph(graph, seeds, docs, order) ELSE {}
  OBVIOUS
<1>7. PICK hits : hits = Fuse(cfg, h[1], h[2], lex, sem, C, order, n)
  OBVIOUS
<1>8. a = Context(cfg, budget, cfg.semantic > 0 /\ fails, order, size, hits, C)
  <2> DEFINE expand(g) == IF cfg.graphEnabled
                          THEN ExpandGraph(graph, ToSet(g[1]) \cup ToSet(g[2]), docs, order) ELSE {}
             fused(g, cd) == Fuse(cfg, g[1], g[2], lex, sem, cd, order, n)
             text(hs, cd) == Context(cfg, budget, cfg.semantic > 0 /\ fails, order, size, hs, cd)
             all(g) == UNION {{text(hs, cd) : hs \in {fused(g, cd)}} : cd \in {expand(g)}}
  <2>1. Answers(cfg, n, budget, order, docs, lex, sem, fails) = UNION {all(g) : g \in {h}}
    BY <1>1, <1>2, <1>4 DEF Answers
  <2>2. expand(h) = C
    BY <1>5, <1>6
  <2>3. fused(h, C) = hits
    BY <1>7
  <2>4. all(h) = {text(hits, C)}
    <3> HIDE DEF expand, fused, text
    <3>1. all(h) = UNION {{text(hs, cd) : hs \in {fused(h, cd)}} : cd \in {C}}
      BY <2>2
    <3>2. all(h) = {text(hs, C) : hs \in {fused(h, C)}}
      BY <3>1
    <3> QED BY <2>3, <3>2
  <2>5. a \in all(h)
    <3> HIDE DEF all
    <3> QED BY <2>1
  <2> QED BY <2>4, <2>5
<1>9. h[1] \in Seq(ids) /\ h[2] \in Seq(ids)
  <2>1. << >> \in Seq(ids)
    OBVIOUS
  <2> QED BY <1>3, <1>4, <2>1, HitsAre
<1>10. IsFiniteSet(seeds)
  BY <1>5, <1>9, MembersAreFinite, FS_Union
<1>11. /\ IsFiniteSet(C) /\ \A c, d \in C : c.node = d.node => c = d
       /\ \A c \in C : IsFound(graph, docs, c)
  <2>1. CASE cfg.graphEnabled
    <3>1. C = ExpandGraph(graph, seeds, docs, order)
      BY <1>6, <2>1
    <3>2. IsFiniteSet(graph.edges) /\ IsFiniteSet(graph.nodes)
      BY <1>1 DEF IsSearchable
    <3> QED BY <1>10, <3>1, <3>2, ExpandGraphIs
  <2>2. CASE ~ cfg.graphEnabled
    BY <1>6, <2>2, FS_EmptySet
  <2> QED BY <2>1, <2>2
<1>12. IsSearchable(graph)
  BY <1>1
<1>13. OneEach(C) /\ \A c \in C : c.node[1] = "symbol" => c.node[2] \in ids
  BY <1>1, <1>11, <1>12, ExpansionIs
<1>14. hits \in Seq(ids) /\ Distinct(hits)
  BY <1>7, <1>9, FusedAre
<1>15. a.candidates = C /\ TextIsSound(a)
  <2>1. PICK degraded : a = Context(cfg, budget, degraded, order, size, hits, C)
    BY <1>8
  <2> QED BY <1>3, <1>11, <1>13, <1>14, <2>1, ContextIs
<1> QED BY <1>1, <1>11, <1>15

------------------------------------------------------------------------------
(* What is read is finite.                                                  *)

\* Finitely many finite sets have finitely many members.
LEMMA FamilyIsFinite ==
    ASSUME NEW D, IsFiniteSet(D), NEW g, \A x \in D : IsFiniteSet(g[x])
    PROVE  IsFiniteSet(UNION {g[x] : x \in D})
<1>1. PICK S : S = {g[x] : x \in D}
  OBVIOUS
<1>2. IsFiniteSet(S)
  <2>1. PICK h : h = [x \in D |-> g[x]]
    OBVIOUS
  <2>2. h \in [D -> S] /\ \A y \in S : \E x \in D : h[x] = y
    BY <1>1, <2>1
  <2>3. h \in Surjection(D, S)
    BY <2>2 DEF Surjection
  <2> QED BY <2>3, FS_Surjection
<1>3. \A T \in S : IsFiniteSet(T)
  BY <1>1
<1>4. IsFiniteSet(UNION S)
  BY <1>2, <1>3, FS_UNION
<1> QED BY <1>1, <1>4

\* What a map of paths to contents may be: each path a file, each content a
\* version of it.
AreVersions(files) ==
    DOMAIN files \subseteq Files /\ \A f \in DOMAIN files : files[f] \in Versions[f]

\* A file has finitely many symbols, each with a length.
LEMMA DocumentsAreFinite ==
    ASSUME NEW f \in Files, NEW c \in Versions[f]
    PROVE  IsCorpus(Documents(f, c))
<1>1. IsFiniteSet(DOMAIN c.items) /\ \A i \in DOMAIN c.items : c.items[i].size \in Nat
  BY ContentsAreFinite
<1>2. PICK D, s : D = DOMAIN c.items /\ s = ParseSymbols(f, c)
  OBVIOUS
<1>3. DOMAIN s = D /\ \A i \in D : s[i].size = c.items[i].size
  BY <1>2 DEF ParseSymbols
<1>4. IsFiniteSet({s[i] : i \in D})
  <2>1. IsFiniteSet(D)
    BY <1>1, <1>2
  <2> QED BY <2>1, ImageIsFinite
<1>5. \A d \in {s[i] : i \in D} : d.size \in Nat
  BY <1>1, <1>2, <1>3
<1>6. Documents(f, c) = {s[i] : i \in D} \/ Documents(f, c) = {}
  BY <1>2, <1>3 DEF Documents, ToSet
<1>7. IsCorpus({s[i] : i \in D}) /\ IsCorpus({})
  BY <1>4, <1>5, FS_EmptySet DEF IsCorpus
<1> QED BY <1>6, <1>7

\* So does a directory, or a part of it.
LEMMA CorpusIsFinite ==
    ASSUME NEW files, AreVersions(files)
    PROVE  IsCorpus(DocumentsOf(files))
<1>1. PICK A : A = Annotated(files)
  OBVIOUS
<1>2. IsFiniteSet(A) /\ \A f \in A : f \in Files /\ files[f] \in Versions[f]
  <2>1. A \subseteq Files /\ \A f \in A : files[f] \in Versions[f]
    BY <1>1 DEF Annotated, AreVersions
  <2> QED BY <2>1, FilesAreFinite, FS_Subset
<1>3. PICK g : g = [f \in A |-> Documents(f, files[f])]
  OBVIOUS
<1>4. \A f \in A : g[f] = Documents(f, files[f]) /\ IsCorpus(g[f])
  BY <1>2, <1>3, DocumentsAreFinite
<1>5. DocumentsOf(files) = UNION {g[f] : f \in A}
  BY <1>1, <1>4 DEF DocumentsOf
<1>6. IsFiniteSet(UNION {g[f] : f \in A})
  <2>1. \A f \in A : IsFiniteSet(g[f])
    BY <1>4 DEF IsCorpus
  <2> QED BY <1>2, <2>1, FamilyIsFinite
<1>7. \A d \in UNION {g[f] : f \in A} : d.size \in Nat
  BY <1>4 DEF IsCorpus
<1>8. IsCorpus(UNION {g[f] : f \in A})
  BY <1>6, <1>7 DEF IsCorpus
<1> QED BY <1>5, <1>8

\* A node is a kind and an identity.
IsNode(n) == n = <<n[1], n[2]>>

\* Edges that end in nodes.
AreEdges(E) == \A e \in E : IsNode(e.source) /\ IsNode(e.target)

\* Whatever an import names, a node stands for it.
LEMMA ImportLeadsToANode ==
    ASSUME NEW modules, NEW types, NEW f, NEW t
    PROVE  IsNode(ImportTarget(modules, types, f, t))
<1> DEFINE pairs == IF f.lang = "python" THEN modules ELSE types
           inside == {FileNode(g) : g \in UniqueFile(pairs, ImportedName(t, f))}
           outside == ExternalNode(ImportedName(t, f))
           n == CHOOSE x \in inside \cup {outside} : x \in inside \/ inside = {}
<1>1. ImportTarget(modules, types, f, t) = n
  BY DEF ImportTarget
<1>2. \A x \in inside : IsNode(x)
  <2> HIDE DEF pairs
  <2> QED BY DEF IsNode, FileNode
<1>3. IsNode(outside)
  BY DEF IsNode, ExternalNode
<1> HIDE DEF inside, outside
<1>4. \E x \in inside \cup {outside} : x \in inside \/ inside = {}
  OBVIOUS
<1>5. n \in inside \cup {outside}
  BY <1>4
<1> HIDE DEF n
<1> QED BY <1>1, <1>2, <1>3, <1>5

\* The edges of one file's symbols.
LEMMA SymbolEdgesAre ==
    ASSUME NEW f \in Files, NEW c \in Versions[f]
    PROVE  IsFiniteSet(SymbolEdges(f, c)) /\ AreEdges(SymbolEdges(f, c))
<1>1. PICK s, D : s = ParseSymbols(f, c) /\ D = DOMAIN c.items
  OBVIOUS
<1>2. DOMAIN s = D /\ IsFiniteSet(D)
  <2>1. DOMAIN s = D
    BY <1>1 DEF ParseSymbols
  <2> QED BY <1>1, <2>1, ContentsAreFinite
<1>3. PICK own : own = [i \in D |-> Edge("contains", FileNode(f), SymbolNode(s[i].id))]
  OBVIOUS
<1>4. PICK down : down = [i \in D |-> {Edge("contains", SymbolNode(s[p].id), SymbolNode(s[i].id))
                                         : p \in ParentClasses(s, i)}]
  OBVIOUS
<1>5. SymbolEdges(f, c) = {own[i] : i \in D} \cup UNION {down[i] : i \in D}
  <2> DEFINE beside(i) == Edge("contains", FileNode(f), SymbolNode(s[i].id))
             below(i) == {Edge("contains", SymbolNode(s[p].id), SymbolNode(s[i].id))
                             : p \in ParentClasses(s, i)}
  <2>1. SymbolEdges(f, c) = {beside(i) : i \in DOMAIN s} \cup UNION {below(i) : i \in DOMAIN s}
    BY <1>1 DEF SymbolEdges
  <2>2. \A i \in D : own[i] = beside(i) /\ down[i] = below(i)
    BY <1>3, <1>4
  <2> HIDE DEF beside, below
  <2> QED BY <1>2, <2>1, <2>2
<1>6. IsFiniteSet({own[i] : i \in D})
  BY <1>2, ImageIsFinite
<1>7. \A i \in D : IsFiniteSet(down[i])
  <2> SUFFICES ASSUME NEW i \in D PROVE IsFiniteSet(down[i])
    OBVIOUS
  <2>1. PICK P : P = ParentClasses(s, i)
    OBVIOUS
  <2>2. IsFiniteSet(P)
    <3>1. P \subseteq D
      BY <1>2, <2>1 DEF ParentClasses
    <3> QED BY <1>2, <3>1, FS_Subset
  <2>3. PICK g : g = [p \in P |-> Edge("contains", SymbolNode(s[p].id), SymbolNode(s[i].id))]
    OBVIOUS
  <2>4. down[i] = {g[p] : p \in P}
    BY <1>4, <2>1, <2>3
  <2> QED BY <2>2, <2>4, ImageIsFinite
<1>8. IsFiniteSet(UNION {down[i] : i \in D})
  BY <1>2, <1>7, FamilyIsFinite
<1>9. \A e \in {own[i] : i \in D} : IsNode(e.source) /\ IsNode(e.target)
  BY <1>3 DEF Edge, IsNode, FileNode, SymbolNode
<1>10. \A e \in UNION {down[i] : i \in D} : IsNode(e.source) /\ IsNode(e.target)
  <2> SUFFICES ASSUME NEW i \in D, NEW e \in down[i] PROVE IsNode(e.source) /\ IsNode(e.target)
    OBVIOUS
  <2>1. PICK p : e = Edge("contains", SymbolNode(s[p].id), SymbolNode(s[i].id))
    BY <1>4
  <2> QED BY <2>1 DEF Edge, IsNode, SymbolNode
<1>11. IsFiniteSet({own[i] : i \in D} \cup UNION {down[i] : i \in D})
  BY <1>6, <1>8, FS_Union
<1> QED BY <1>5, <1>9, <1>10, <1>11 DEF AreEdges

\* The edges of one file's imports.
LEMMA ImportEdgesAre ==
    ASSUME NEW f \in Files, NEW c \in Versions[f], NEW modules, NEW types,
           NEW E, E = {Edge("imports", FileNode(f), ImportTarget(modules, types, f, t)) : t \in c.imports}
    PROVE  IsFiniteSet(E) /\ AreEdges(E)
<1>1. PICK T : T = c.imports /\ IsFiniteSet(T)
  BY ContentsAreFinite
<1>2. PICK g : g = [t \in T |-> Edge("imports", FileNode(f), ImportTarget(modules, types, f, t))]
  OBVIOUS
<1>3. E = {g[t] : t \in T}
  BY <1>1, <1>2
<1>4. IsFiniteSet(E)
  BY <1>1, <1>3, ImageIsFinite
<1>5. \A t \in T : IsNode(g[t].source) /\ IsNode(g[t].target)
  <2>1. \A t \in T : g[t].source = FileNode(f) /\ g[t].target = ImportTarget(modules, types, f, t)
    BY <1>2 DEF Edge
  <2>2. IsNode(FileNode(f))
    BY DEF IsNode, FileNode
  <2> QED BY <2>1, <2>2, ImportLeadsToANode
<1> QED BY <1>3, <1>4, <1>5 DEF AreEdges

\* The graph of a snapshot can be searched.
LEMMA BuiltGraphIsSearchable ==
    ASSUME NEW files, files \subseteq Files, NEW read, AreVersions(read)
    PROVE  IsSearchable(BuildGraph(files, read))
<1> DEFINE found(m, j) == UNION {{Edge("imports", FileNode(f), ImportTarget(m, j, f, t))
                                     : t \in read[f].imports} : f \in DOMAIN read}
<1>1. PICK modules, types, graph, R : /\ modules = PythonModules(files) /\ types = JavaTypes(read)
                                      /\ graph = BuildGraph(files, read) /\ R = DOMAIN read
  OBVIOUS
<1>2. PICK top, inner, imports :
          /\ top = [f \in files |-> Edge("contains", Project, FileNode(f))]
          /\ inner = [f \in R |-> SymbolEdges(f, read[f])]
          /\ imports = [f \in R |-> {Edge("imports", FileNode(f), ImportTarget(modules, types, f, t))
                                         : t \in read[f].imports}]
  OBVIOUS
<1>14. PICK A, B, C : /\ A = {top[f] : f \in files} /\ B = UNION {inner[f] : f \in R}
                      /\ C = UNION {imports[f] : f \in R}
  OBVIOUS
<1>3. PICK E : E = (A \cup B) \cup C
  OBVIOUS
<1>4. graph.edges = E
  <2> DEFINE root(f) == Edge("contains", Project, FileNode(f))
             own(f) == SymbolEdges(f, read[f])
  <2>1. graph.edges = ({root(f) : f \in files} \cup UNION {own(f) : f \in R})
                          \cup UNION {found(m, j) : m \in {modules}, j \in {types}}
    BY <1>1 DEF BuildGraph
  <2>2. UNION {found(m, j) : m \in {modules}, j \in {types}} = found(modules, types)
    <3> HIDE DEF found
    <3> QED OBVIOUS
  <2>3. found(modules, types) = C
    <3> DEFINE led(f) == {Edge("imports", FileNode(f), ImportTarget(modules, types, f, t))
                             : t \in read[f].imports}
    <3>1. found(modules, types) = UNION {led(f) : f \in R}
      BY <1>1
    <3>2. \A f \in R : imports[f] = led(f)
      BY <1>2
    <3> HIDE DEF led
    <3> QED BY <1>14, <3>1, <3>2
  <2>4. {root(f) : f \in files} = A
    BY <1>2, <1>14
  <2>5. UNION {own(f) : f \in R} = B
    BY <1>2, <1>14
  <2> HIDE DEF found, root, own
  <2> QED BY <1>3, <2>1, <2>2, <2>3, <2>4, <2>5
<1>5. graph.nodes = {Project} \cup {e.target : e \in graph.edges}
  BY <1>1 DEF BuildGraph
<1>6. R \subseteq Files /\ \A f \in R : f \in Files /\ read[f] \in Versions[f]
  BY <1>1 DEF AreVersions
<1>7. IsFiniteSet(R) /\ IsFiniteSet(files)
  BY <1>6, FilesAreFinite, FS_Subset
<1>8. \A f \in R : IsFiniteSet(inner[f]) /\ AreEdges(inner[f])
  BY <1>2, <1>6, SymbolEdgesAre
<1>9. \A f \in R : IsFiniteSet(imports[f]) /\ AreEdges(imports[f])
  <2> SUFFICES ASSUME NEW f \in R PROVE IsFiniteSet(imports[f]) /\ AreEdges(imports[f])
    OBVIOUS
  <2>3. f \in Files /\ read[f] \in Versions[f]
    BY <1>6
  <2>1. PICK c \in Versions[f] : c = read[f]
    BY <2>3
  <2>2. imports[f] = {Edge("imports", FileNode(f), ImportTarget(modules, types, f, t)) : t \in c.imports}
    BY <1>2, <2>1
  <2> QED BY <2>2, <2>3, ImportEdgesAre
<1>10. IsFiniteSet(E)
  <2>1. IsFiniteSet(A)
    BY <1>7, <1>14, ImageIsFinite
  <2>2. IsFiniteSet(B)
    BY <1>7, <1>8, <1>14, FamilyIsFinite
  <2>3. IsFiniteSet(C)
    BY <1>7, <1>9, <1>14, FamilyIsFinite
  <2>4. IsFiniteSet(A \cup B)
    BY <2>1, <2>2, FS_Union
  <2> QED BY <1>3, <2>3, <2>4, FS_Union
<1>11. AreEdges(E)
  <2>1. \A f \in files : IsNode(top[f].source) /\ IsNode(top[f].target)
    BY <1>2 DEF Edge, IsNode, Project, FileNode
  <2>2. \A f \in R : \A e \in inner[f] : IsNode(e.source) /\ IsNode(e.target)
    BY <1>8 DEF AreEdges
  <2>3. \A f \in R : \A e \in imports[f] : IsNode(e.source) /\ IsNode(e.target)
    BY <1>9 DEF AreEdges
  <2>4. \A e \in A : IsNode(e.source) /\ IsNode(e.target)
    BY <1>14, <2>1
  <2>5. \A e \in B : IsNode(e.source) /\ IsNode(e.target)
    BY <1>14, <2>2
  <2>6. \A e \in C : IsNode(e.source) /\ IsNode(e.target)
    BY <1>14, <2>3
  <2> QED BY <1>3, <2>4, <2>5, <2>6 DEF AreEdges
<1>12. IsFiniteSet(graph.nodes)
  <2>1. PICK g : g = [e \in E |-> e.target]
    OBVIOUS
  <2>2. PICK T : T = {g[e] : e \in E}
    OBVIOUS
  <2>3. graph.nodes = T \cup {Project}
    BY <1>4, <1>5, <2>1, <2>2
  <2>4. IsFiniteSet(T)
    BY <1>10, <2>2, ImageIsFinite
  <2> QED BY <2>3, <2>4, FS_AddElement
<1>13. IsSearchable(graph)
  BY <1>4, <1>10, <1>11, <1>12 DEF IsSearchable, AreEdges, IsNode
<1> QED BY <1>1, <1>13
------------------------------------------------------------------------------
(* The answers of the service.                                              *)

\* What a snapshot records can be indexed and searched.
IsRetrievable(s) == AreVersions(s.files) /\ IsSearchable(s.graph)

\* Whatever was read is a version of the file it was read from.
VersionsAreRead ==
    /\ disk = [f \in Files |-> disk[f]] /\ \A f \in Files : disk[f] \in Versions[f] \cup {Gone}
    /\ AreVersions(pass.got) /\ AreVersions(pass.files)

\* What AnswerIsSound says of an answer from an index with that graph.
PromisesAreKept(a, graph) ==
    /\ TextIsSound(a)
    /\ \A c \in a.candidates : /\ c.hop <= MaxHops
                              /\ Within(graph, c.hop, SymbolNode(c.seed), c.node)
                              /\ ~ Within(graph, c.hop - 1, SymbolNode(c.seed), c.node)

\* The answer, if the last step gave one, keeps its promises.
LastAnswerIsSound == answer # None => PromisesAreKept(answer, index.snapshot.graph)

\* What every answer rests on, and that the last one is sound.
QueryInvariant ==
    /\ SourceInvariant
    /\ VersionsAreRead
    /\ snapshot # None => IsRetrievable(snapshot)
    /\ index # None => IsRetrievable(index.snapshot)
    /\ LastAnswerIsSound

\* Nothing is read yet.
LEMMA EmptyHasVersions == AreVersions(Empty)
  BY EmptyIsEmpty DEF AreVersions

\* At first nothing is read and nothing answered.
LEMMA QueryInit == PIInit => QueryInvariant
<1> SUFFICES ASSUME PIInit PROVE QueryInvariant
  OBVIOUS
<1>1. Init /\ snapshot = None /\ index = None /\ answer = None /\ pass = Idle /\ disk \in Directories
  BY DEF PIInit, Init
<1>2. disk = [f \in Files |-> disk[f]] /\ \A f \in Files : disk[f] \in Versions[f] \cup {Gone}
  BY <1>1, FirstVersionsAreVersions DEF Directories
<1>3. VersionsAreRead
  BY <1>1, <1>2, NewPasses, EmptyHasVersions DEF VersionsAreRead
<1>4. LastAnswerIsSound
  BY <1>1 DEF LastAnswerIsSound
<1> QED BY <1>1, <1>3, <1>4, SourceInit DEF QueryInvariant

\* A content kept is a version of the file it was read from.
LEMMA KeptIsAVersion ==
    ASSUME NEW got, AreVersions(got), NEW f \in Files, NEW c \in Versions[f]
    PROVE  AreVersions(With(got, f, c))
  BY DEF AreVersions, With

\* No step of a pass reads anything but versions.
LEMMA PassReadsVersions ==
    ASSUME QueryInvariant, Build
    PROVE  AreVersions(pass'.got) /\ AreVersions(pass'.files)
<1>0. /\ IsPass(pass) /\ AreVersions(pass.got) /\ AreVersions(pass.files)
      /\ pass.next \in Nat \ {0}
  BY DEF QueryInvariant, SourceInvariant, ReadSoFar, VersionsAreRead
<1>1. CASE UNCHANGED pass
  BY <1>0, <1>1
<1>2. CASE pass' = Idle
  BY <1>2, NewPasses, EmptyHasVersions
<1>3. CASE pass' = Skip
  BY <1>0, <1>3, PassUpdates
<1>4. ASSUME NEW name, NEW files, NEW rules, pass' = Begin(name, files, rules), AreVersions(files)
      PROVE  AreVersions(pass'.got) /\ AreVersions(pass'.files)
  BY <1>4, NewPasses, EmptyHasVersions
<1>5. CASE pass' = Keep(Current, disk[Current]) /\ disk[Current] # Gone /\ pass.next <= Len(FileOrder)
  <2>1. Current \in Files
    BY <1>0, <1>5, FilesAreListed DEF Current
  <2>2. disk[Current] \in Versions[Current]
    BY <1>5, <2>1 DEF QueryInvariant, VersionsAreRead
  <2>3. pass'.files = pass.files /\ pass'.got = With(pass.got, Current, disk[Current])
    BY <1>0, <1>5, PassUpdates
  <2> QED BY <1>0, <2>1, <2>2, <2>3, KeptIsAVersion
<1>6. CASE EndSymbols
  <2>1. PICK symbols : pass' = [Begin("graph", pass.files, << >>) EXCEPT !.symbols = symbols]
    BY <1>6 DEF EndSymbols
  <2>2. pass'.got = Empty /\ pass'.files = pass.files
    BY <2>1 DEF Begin
  <2> QED BY <1>0, <2>2, EmptyHasVersions
<1>7. CASE BuildDocuments
  <2>1. CASE \E docs : pass' = [Begin("final_scan", pass.files, gitignore) EXCEPT !.documents = docs]
    <3>1. pass'.got = Empty /\ pass'.files = pass.files
      BY <2>1 DEF Begin
    <3> QED BY <1>0, <3>1, EmptyHasVersions
  <2> QED BY <1>2, <1>7, <2>1 DEF BuildDocuments, Raise
<1>8. CASE ScanFile \/ ReadSymbols \/ ReadForGraph \/ ReadSource
  <2>1. \/ pass' = Skip \/ pass' = Idle
        \/ pass' = Keep(Current, disk[Current]) /\ disk[Current] # Gone /\ pass.next <= Len(FileOrder)
    BY <1>8 DEF ScanFile, ReadSymbols, ReadForGraph, ReadParsed, ReadSource, Reading, Raise, ContentKey
  <2> QED BY <2>1, <1>2, <1>3, <1>5
<1>9. CASE StartScan \/ EndScan \/ StartCorpus \/ EndFirstScan \/ EndCorpus \/ EndSnapshot
  <2>1. snapshot # None => AreVersions(snapshot.files)
    BY DEF QueryInvariant, IsRetrievable
  <2>2. \/ pass' = Idle
        \/ \E name, files, rules : pass' = Begin(name, files, rules) /\ AreVersions(files)
    BY <1>0, <1>9, <2>1, EmptyHasVersions
       DEF StartScan, EndScan, StartCorpus, EndFirstScan, EndCorpus, EndSnapshot, Raise
  <2> QED BY <2>2, <1>2, <1>4
<1>10. CASE EmbeddingFails
            \/ \E space, provider : BuildIndex(space, provider) \/ UpdateIndex(space, provider)
  <2>1. UNCHANGED pass
    BY <1>10 DEF EmbeddingFails, BuildIndex, UpdateIndex
  <2> QED BY <2>1, <1>1
<1> QED BY <1>6, <1>7, <1>8, <1>9, <1>10 DEF Build

\* An edit leaves a version or nothing.
LEMMA EditsAreVersions ==
    ASSUME QueryInvariant, Edit \/ Build
    PROVE  VersionsAreRead'
<1>1. CASE Build
  <2>1. UNCHANGED disk
    BY <1>1 DEF Build, StartScan, ScanFile, EndScan, ReadSymbols, EndSymbols, ReadForGraph,
             ReadParsed, EndSnapshot, StartCorpus, EndFirstScan, ReadSource, BuildDocuments,
             EndCorpus, BuildIndex, UpdateIndex, EmbeddingFails, world
  <2> QED BY <1>1, <2>1, PassReadsVersions DEF QueryInvariant, VersionsAreRead
<1>2. ASSUME NEW f \in Files, NEW c \in Versions[f] \cup {Gone}, EditFile(f, c)
      PROVE  VersionsAreRead'
  <2>1. UNCHANGED pass /\ disk' = [disk EXCEPT ![f] = c]
    BY <1>2 DEF EditFile
  <2> QED BY <2>1 DEF QueryInvariant, VersionsAreRead
<1>3. ASSUME NEW rules, EditRules(rules)
      PROVE  VersionsAreRead'
  BY <1>3 DEF EditRules, QueryInvariant, VersionsAreRead
<1> QED BY <1>1, <1>2, <1>3 DEF Edit

\* A snapshot is of versions, and so is the one an index keeps.
LEMMA SnapshotsAreRetrievable ==
    ASSUME QueryInvariant, Edit \/ Build
    PROVE  /\ snapshot' # None => IsRetrievable(snapshot')
           /\ index' # None => IsRetrievable(index'.snapshot)
<1>1. CASE EndSnapshot
  <2>1. /\ snapshot' = [files |-> pass.files, symbols |-> pass.symbols,
                        graph |-> BuildGraph(DOMAIN pass.files, pass.got)]
        /\ UNCHANGED index
    BY <1>1 DEF EndSnapshot
  <2>2. AreVersions(pass.files) /\ AreVersions(pass.got)
    BY DEF QueryInvariant, VersionsAreRead
  <2>3. IsSearchable(BuildGraph(DOMAIN pass.files, pass.got))
    BY <2>2, BuiltGraphIsSearchable DEF AreVersions
  <2>4. snapshot'.files = pass.files /\ snapshot'.graph = BuildGraph(DOMAIN pass.files, pass.got)
    BY <2>1
  <2> QED BY <2>1, <2>2, <2>3, <2>4 DEF QueryInvariant, IsRetrievable
<1>2. ASSUME NEW space, NEW provider, BuildIndex(space, provider) \/ UpdateIndex(space, provider)
      PROVE  /\ snapshot' # None => IsRetrievable(snapshot')
             /\ index' # None => IsRetrievable(index'.snapshot)
  <2>1. UNCHANGED snapshot /\ corpus # None
    BY <1>2 DEF BuildIndex, UpdateIndex
  <2>2. snapshot # None
    BY <2>1 DEF QueryInvariant, SourceInvariant
  <2>3. UNCHANGED index \/ index'.snapshot = snapshot
    BY <1>2 DEF BuildIndex, UpdateIndex
  <2> QED BY <2>1, <2>2, <2>3 DEF QueryInvariant
<1>3. CASE ~ EndSnapshot /\ ~ \E space, provider \in Fingerprints \cup {Lexical} :
                                  BuildIndex(space, provider) \/ UpdateIndex(space, provider)
  <2>1. UNCHANGED <<snapshot, index>>
    BY <1>3 DEF Build, Edit, EditFile, EditRules, StartScan, ScanFile, EndScan, ReadSymbols,
             EndSymbols, ReadForGraph, ReadParsed, StartCorpus, EndFirstScan, ReadSource,
             BuildDocuments, EndCorpus, EmbeddingFails
  <2> QED BY <2>1 DEF QueryInvariant
<1> QED BY <1>1, <1>2, <1>3

\* The sum of the lengths and the blank lines of a text.
LEMMA LengthsAddUp ==
    ASSUME NEW q
    PROVE  /\ Through(LAMBDA sum, s : sum + s.length, 0, q) = TotalOf(q)
           /\ (IF Len(q) = 0 THEN 0 ELSE 2 * (Len(q) - 1)) = Gaps(Len(q))
  BY DEF Through, TotalOf, Adds, Gaps

\* The property, with its parts under their names.
LEMMA AnswerMeans ==
    ASSUME LastAnswerIsSound
    PROVE  AnswerIsSound
<1>1. CASE answer = None
  BY <1>1 DEF AnswerIsSound
<1>2. CASE answer # None
  <2> DEFINE total == Through(LAMBDA sum, s : sum + s.length, 0, answer.snippets)
             count == Len(answer.snippets)
  <2>1. PromisesAreKept(answer, index.snapshot.graph)
    BY <1>2 DEF LastAnswerIsSound
  <2>2. answer.used = total + (IF count = 0 THEN 0 ELSE 2 * (count - 1))
    <3>1. total = TotalOf(answer.snippets) /\ (IF count = 0 THEN 0 ELSE 2 * (count - 1)) = Gaps(count)
      BY LengthsAddUp
    <3> HIDE DEF total
    <3> QED BY <2>1, <3>1 DEF PromisesAreKept, TextIsSound, FitsIn
  <2> HIDE DEF total
  <2> QED BY <1>2, <2>1, <2>2 DEF AnswerIsSound, PromisesAreKept, TextIsSound, FitsIn, total
<1> QED BY <1>1, <1>2

\* What a query is answered is sound.
LEMMA RetrievedIsSound ==
    ASSUME QueryInvariant, NEW cfg, NEW n \in Nat, NEW budget \in Nat, NEW lex, NEW sem, NEW fails,
           Retrieve(cfg, n, budget, lex, sem, fails)
    PROVE  LastAnswerIsSound'
<1>1. CASE answer' = None
  BY <1>1 DEF LastAnswerIsSound
<1>2. CASE answer' # None
  <2>1. /\ UNCHANGED index /\ index # None
        /\ \E order : answer' \in Answers(cfg, n, budget, order, IndexDocuments, lex, sem, fails)
    BY <1>2 DEF Retrieve
  <2>2. IsRetrievable(index.snapshot) /\ IndexDocuments = DocumentsOf(index.snapshot.files)
    BY <2>1, OneVersionMeans DEF QueryInvariant, SourceInvariant
  <2>3. IsSearchable(index.snapshot.graph) /\ IsCorpus(IndexDocuments)
    BY <2>2, CorpusIsFinite DEF IsRetrievable
  <2>4. PICK order, docs : /\ docs = IndexDocuments /\ IsCorpus(docs)
                           /\ answer' \in Answers(cfg, n, budget, order, docs, lex, sem, fails)
    BY <2>1, <2>3
  <2>5. PICK a : a = answer' /\ a \in Answers(cfg, n, budget, order, docs, lex, sem, fails)
    BY <2>4
  <2>6. TextIsSound(a) /\ \A c \in a.candidates : IsFound(index.snapshot.graph, docs, c)
    BY <2>3, <2>4, <2>5, AnswersAreSound
  <2>7. \A c \in a.candidates : /\ c.hop <= MaxHops
            /\ Within(index.snapshot.graph, c.hop, SymbolNode(c.seed), c.node)
            /\ ~ Within(index.snapshot.graph, c.hop - 1, SymbolNode(c.seed), c.node)
    BY <2>6, HopsAreNatural DEF IsFound
  <2>8. PromisesAreKept(answer', index'.snapshot.graph)
    BY <2>1, <2>5, <2>6, <2>7 DEF PromisesAreKept
  <2> QED BY <2>8 DEF LastAnswerIsSound
<1> QED BY <1>1, <1>2

\* A step beside the passes keeps what was read.
LEMMA QueriesReadNothing ==
    ASSUME QueryInvariant, UNCHANGED <<world, scans, pass, snapshot, corpus, index>>
    PROVE  /\ SourceInvariant' /\ VersionsAreRead'
           /\ snapshot' # None => IsRetrievable(snapshot')
           /\ index' # None => IsRetrievable(index'.snapshot)
<1>1. SourceInvariant'
  BY QueryFrame DEF QueryInvariant
<1>2. UNCHANGED <<disk, pass, snapshot, index>>
  BY DEF world
<1>3. VersionsAreRead'
  BY <1>2 DEF QueryInvariant, VersionsAreRead
<1> QED BY <1>1, <1>2, <1>3 DEF QueryInvariant

\* Every step keeps the last answer sound, or forgets it.
LEMMA QueryNext == QueryInvariant /\ [PINext]_piVars => QueryInvariant'
<1> SUFFICES ASSUME QueryInvariant, [PINext]_piVars
             PROVE  QueryInvariant'
  OBVIOUS
<1>0. SourceInvariant'
  BY IndexNext DEF QueryInvariant
<1>1. answer' = None => LastAnswerIsSound'
  BY DEF LastAnswerIsSound
<1>2. CASE (Edit \/ Build) /\ Forget
  <2>1. LastAnswerIsSound'
    BY <1>1, <1>2 DEF Forget
  <2> QED BY <1>0, <1>2, <2>1, EditsAreVersions, SnapshotsAreRetrievable DEF QueryInvariant
<1>3. ASSUME UNCHANGED <<world, scans, pass, snapshot, corpus, index>>, LastAnswerIsSound'
      PROVE  QueryInvariant'
  BY <1>3, QueriesReadNothing DEF QueryInvariant
<1>4. ASSUME NEW failing, AnalyzeSnapshot(failing) PROVE QueryInvariant'
  BY <1>1, <1>3, <1>4 DEF AnalyzeSnapshot, vars, world
<1>5. CASE Query
  <2>5. PICK cfg \in HybridConfigs, n \in TopK, budget \in Budgets, q \in Queries :
           \E fails \in IF cfg.semantic > 0 THEN BOOLEAN ELSE {FALSE} :
               Retrieve(cfg, n, budget, q.lex, q.sem, fails)
    BY <1>5 DEF Query
  <2>1. PICK fails : Retrieve(cfg, n, budget, q.lex, q.sem, fails)
    BY <2>5
  <2>2. n \in Nat /\ budget \in Nat
    BY QueriesAreValid
  <2>3. LastAnswerIsSound'
    BY <2>1, <2>2, RetrievedIsSound
  <2>4. UNCHANGED <<world, scans, pass, snapshot, corpus, index>>
    BY <2>1 DEF Retrieve
  <2> QED BY <1>3, <2>3, <2>4
<1>6. CASE RetrieveNothing
  BY <1>1, <1>3, <1>6 DEF RetrieveNothing
<1>7. CASE UNCHANGED piVars
  <2>1. UNCHANGED <<world, scans, pass, snapshot, corpus, index>> /\ UNCHANGED <<answer, index>>
    BY <1>7 DEF piVars, vars, world
  <2>2. LastAnswerIsSound'
    BY <2>1 DEF QueryInvariant, LastAnswerIsSound
  <2> QED BY <1>3, <2>1, <2>2
<1> QED BY <1>2, <1>4, <1>5, <1>6, <1>7 DEF PINext

(* Whatever the corpus, the graph, the query and the state of the directory *)
(* behind the index, a context package fits its budget with the blank lines *)
(* counted, says truncated exactly when something found was cut or left     *)
(* out, repeats no symbol, shows only hits and what the graph adds to them, *)
(* and records for each of the latter its shortest distance from a seed     *)
(* (retrieval.py, graph_expansion.py, context.py).                          *)
THEOREM AnswersStaySound == PISpec => []AnswerIsSound
<1>1. QueryInvariant => AnswerIsSound
  BY AnswerMeans DEF QueryInvariant
<1> QED BY <1>1, QueryInit, QueryNext, PTL DEF PISpec
===============================================================================
