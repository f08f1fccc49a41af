--------------------------- MODULE SourceSymbols ---------------------------
(***************************************************************************)
(* What code_maintenance reads out of source text: which files a scan       *)
(* lists, the symbols an adapter finds in a file and how it names them, and *)
(* the project graph built from them.                                       *)
(*                                                                          *)
(* A file is named by its path [dir, stem, lang], lang being the language   *)
(* its suffix selects.  A content is what the parsers see in one version of *)
(* a file: [parses, package, imports, items]; two versions have the same    *)
(* SHA-256 exactly when they are the same content.  An item is what the     *)
(* parsers return for a class or function:                                  *)
(* [name, type, first, last, sig, text, size].                              *)
(***************************************************************************)
EXTENDS Integers, Sequences, FiniteSets, TLC, SequencesExt, FiniteSetsExt

\* A sequence of the members of S.  Folding is linear where SetToSeq tries
\* out functions.
Listing(S) == FoldSet(LAMBDA x, seq : Append(seq, x), << >>, S)

\* op applied to the members of seq in their order, beginning with base.
Through(op(_, _), base, seq) ==
    LET after[k \in 0..Len(seq)] == IF k = 0 THEN base ELSE op(after[k - 1], seq[k])
    IN  after[Len(seq)]

\* x behind the members of seq that come before it.
Inserted(seq, x, before) ==
    InsertAt(seq, Cardinality({i \in DOMAIN seq : <<seq[i], x>> \in before}) + 1, x)
InsertionSort(S, before) == Through(LAMBDA seq, x : Inserted(seq, x, before), << >>, Listing(S))

SortedBy(S, Less(_, _)) == InsertionSort(S, {p \in S \X S : Less(p[1], p[2])})

NoSignature == ""
NoLine == 0

------------------------------------------------------------------------------
(* Ignore rules.  A rule is [negated, dirs, files]: the directories and     *)
(* files its pattern matches.                                               *)

\* The last rule that matches decides.
Ignored(rules, part, path) ==
    LET last == SelectLastInSeq(rules, LAMBDA r : path \in r[part])
    IN  last # 0 /\ ~rules[last].negated

\* os.walk goes down only into directories that are kept.
Listed(rules, f) ==
    /\ ~Ignored(rules, "files", f)
    /\ \A k \in 1..Len(f.dir) : ~Ignored(rules, "dirs", SubSeq(f.dir, 1, k))

------------------------------------------------------------------------------
(* Symbols.                                                                 *)

Encloses(outer, inner) == outer.first < inner.first /\ outer.last >= inner.last

\* The classes around an item, the outermost first; sorted is stable.
ContainingClasses(items, i) ==
    SortedBy({c \in DOMAIN items : items[c].type = "class" /\ Encloses(items[c], items[i])},
             LAMBDA c, d : \/ items[c].first < items[d].first
                           \/ items[c].first = items[d].first /\ c < d)

\* Kind, qualified name and, for a Java method, its signature.
BaseKey(lang, items, i) ==
    LET classes == ContainingClasses(items, i)
        kind == IF items[i].type = "class" THEN "class"
                ELSE IF classes # << >> THEN "method" ELSE "function"
    IN  [kind |-> kind,
         name |-> [k \in DOMAIN classes |-> items[classes[k]].name]
                      \o <<items[i].name>>,
         sig |-> IF lang = "java" /\ kind = "method" THEN items[i].sig
                                                     ELSE NoSignature]

\* The line takes part in the identity of items that share their key.
SymbolId(f, items, i) ==
    LET key == BaseKey(f.lang, items, i)
        clash == \E j \in DOMAIN items \ {i} : BaseKey(f.lang, items, j) = key
    IN  [file |-> f, kind |-> key.kind, name |-> key.name, sig |-> key.sig,
         line |-> IF clash THEN items[i].first ELSE NoLine]

ParseSymbols(f, c) ==
    [i \in DOMAIN c.items |-> [id |-> SymbolId(f, c.items, i),
                               first |-> c.items[i].first,
                               last |-> c.items[i].last,
                               text |-> c.items[i].text,
                               size |-> c.items[i].size]]

HasAdapter(f) == f.lang \in {"python", "java"}

------------------------------------------------------------------------------
(* The project graph.  A node is <<kind, identity>>.                        *)

Project == <<"project", "project">>
FileNode(f) == <<"file", f>>
SymbolNode(id) == <<"symbol", id>>
ExternalNode(name) == <<"external_module", name>>

Edge(relation, source, target) ==
    [relation |-> relation, source |-> source, target |-> target]

PythonModule(f) == IF f.stem = "__init__" THEN f.dir ELSE Append(f.dir, f.stem)

\* An import is [level, parts]; a relative one is resolved against the
\* importer's package, or kept as an unresolved name when it leaves it.
CanonicalTarget(t, f) ==
    LET module == PythonModule(f)
        package == IF f.stem = "__init__" \/ module = << >> THEN module
                   ELSE Front(module)
    IN  IF t.level = 0 THEN t.parts
        ELSE IF t.level > Len(package)
             THEN <<"unresolved-relative", ToString(t.level)>> \o package \o t.parts
             ELSE SubSeq(package, 1, Len(package) - t.level + 1) \o t.parts

\* <<name, file, tag>>: a name given by more than one pair resolves to none.
UniqueFile(pairs, name) ==
    {p[2] : p \in {q \in pairs : q[1] = name /\ ~\E r \in pairs \ {q} : r[1] = name}}

\* Classes by package and qualified name; the file's stem if it has no class.
JavaTypes(read) ==
    UNION {LET classes == {i \in DOMAIN read[f].items : read[f].items[i].type = "class"}
           IN  {<<read[f].package \o BaseKey("java", read[f].items, i).name, f, i>> : i \in classes}
               \cup IF classes = {} THEN {<<Append(read[f].package, f.stem), f, 0>>} ELSE {}
           : f \in {g \in DOMAIN read : g.lang = "java"}}

PythonModules(files) == {<<PythonModule(g), g, 0>> : g \in {h \in files : h.lang = "python"}}

ImportedName(t, f) == IF f.lang = "python" THEN CanonicalTarget(t, f) ELSE t.parts

\* The node an import leads to.  modules and types are the lookups of the two
\* languages.
ImportTarget(modules, types, f, t) ==
    LET pairs == IF f.lang = "python" THEN modules ELSE types
        inside == {FileNode(g) : g \in UniqueFile(pairs, ImportedName(t, f))}
    IN  CHOOSE n \in inside \cup {ExternalNode(ImportedName(t, f))} :
            n \in inside \/ inside = {}

\* The innermost class of that qualified name around a symbol, if any.
ParentClasses(symbols, i) ==
    LET around == {c \in DOMAIN symbols :
                      /\ symbols[c].id.kind = "class"
                      /\ symbols[c].id.name = Front(symbols[i].id.name)
                      /\ symbols[c].id # symbols[i].id
                      /\ symbols[c].first <= symbols[i].first
                      /\ symbols[c].last >= symbols[i].last}
    IN  {c \in around : \A d \in around : \/ symbols[d].first < symbols[c].first
                                          \/ /\ symbols[d].first = symbols[c].first
                                             /\ symbols[d].last >= symbols[c].last}

SymbolEdges(f, c) ==
    LET symbols == ParseSymbols(f, c)
    IN  {Edge("contains", FileNode(f), SymbolNode(symbols[i].id)) : i \in DOMAIN symbols}
        \cup UNION {{Edge("contains", SymbolNode(symbols[p].id), SymbolNode(symbols[i].id))
                       : p \in ParentClasses(symbols, i)} : i \in DOMAIN symbols}

\* files: those the scan lists; read: the contents of those that could be read
\* and parsed when the graph was built.
BuildGraph(files, read) ==
    LET contains == {Edge("contains", Project, FileNode(f)) : f \in files}
                    \cup UNION {SymbolEdges(f, read[f]) : f \in DOMAIN read}
        imports == UNION {UNION {{Edge("imports", FileNode(f), ImportTarget(modules, types, f, t))
                                     : t \in read[f].imports} : f \in DOMAIN read}
                             : modules \in {PythonModules(files)}, types \in {JavaTypes(read)}}
        edges == contains \cup imports
    IN  [nodes |-> {Project} \cup {e.target : e \in edges}, edges |-> edges]
=============================================================================
