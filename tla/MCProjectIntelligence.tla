------------------------ MODULE MCProjectIntelligence ------------------------
\* Two Python modules of one package and a Java class.  pkg/a.py comes in
\* three versions: with a relative import of b, with the same symbols shifted
\* by a line, and with changed text and an import of itself.  pkg/b.py imports
\* a and defines g twice, or does not parse.  The ignore rules leave both out
\* and take them in again by a negation, or leave out their directory.
EXTENDS ProjectIntelligence

CONSTANTS gone, none, no_embedding, e5, fake

Path(dir, stem, lang) == [dir |-> dir, stem |-> stem, lang |-> lang]
A == Path(<<"pkg">>, "a", "python")
B == Path(<<"pkg">>, "b", "python")
J == Path(<< >>, "T", "java")
MCFileOrder == <<J, A, B>>

Item(name, type, first, last, text, size) ==
    [name |-> name, type |-> type, first |-> first, last |-> last, sig |-> name,
     text |-> text, size |-> size]
Source(imports, items) ==
    [parses |-> TRUE, package |-> << >>, imports |-> imports, items |-> items]
Import(level, parts) == [level |-> level, parts |-> parts]
Broken == [Source({}, << >>) EXCEPT !.parses = FALSE]

A1 == Source({Import(1, <<"b">>)},
             <<Item("K", "class", 1, 3, "k", 4), Item("m", "function", 2, 3, "m", 2)>>)
A2 == Source({Import(1, <<"b">>), Import(3, <<"x">>)},
             <<Item("K", "class", 2, 4, "k", 4), Item("m", "function", 3, 4, "m", 2)>>)
A3 == Source({Import(0, <<"pkg", "a">>)},
             <<Item("K", "class", 1, 3, "k2", 4), Item("m", "function", 2, 3, "m2", 3)>>)
B1 == Source({Import(0, <<"pkg", "a">>)},
             <<Item("g", "function", 1, 1, "g", 3), Item("g", "function", 2, 2, "h", 3)>>)
J1 == Source({Import(0, <<"T">>)}, <<Item("T", "class", 1, 2, "t", 2)>>)

MCVersions == (A :> {A1, A2, A3} @@ B :> {B1, Broken} @@ J :> {J1})
MCFirstVersions == (A :> {A1} @@ B :> {B1} @@ J :> {J1})

Rule(negated, dirs, files) == [negated |-> negated, dirs |-> dirs, files |-> files]
MCRuleSets == {<<Rule(FALSE, {}, {A, B}), Rule(TRUE, {}, {A, B})>>,
               <<Rule(FALSE, {<<"pkg">>}, {})>>}

MCFingerprints == {e5, fake}
MCSymmetry == Permutations(MCFingerprints)
MCHybridConfigs ==
    {[strategy |-> "weighted", lexical |-> 4, semantic |-> 4, graph |-> 1, graphEnabled |-> TRUE],
     [strategy |-> "rrf", lexical |-> 4, semantic |-> 0, graph |-> 4, graphEnabled |-> TRUE],
     [strategy |-> "rrf", lexical |-> 0, semantic |-> 4, graph |-> 0, graphEnabled |-> FALSE]}
MCQueries ==
    {[lex |-> [id \in ToSet(IdOrder) |-> (Position(IdOrder, id) + r) % 3],
      sem |-> [id \in ToSet(IdOrder) |-> ((Position(IdOrder, id) * s) % 3) - 1]] :
         r \in {0}, s \in {1}}
==============================================================================
