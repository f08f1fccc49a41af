-------------------------- MODULE MCExperimentRun --------------------------
\* Two configurations, one of them semantic, and two approvals of the first
\* package; the second package has the same queries over a shorter file and no
\* approval.  The samples are no package: they only put the units to the test.
EXTENDS ExperimentRun, TLC

CONSTANTS none, w1, w2

Evidence(path, symbol, span, grade) ==
    [path |-> path, symbol |-> symbol, span |-> span, grade |-> grade]
Truth(split, evidence) == [split |-> split, evidence |-> evidence]
Symbol(id, path, first, last) == [id |-> id, path |-> path, first |-> first, last |-> last]

Frozen(length) ==
    [lengths |-> [a |-> length, b |-> 3],
     symbols |-> {Symbol("f", "a", 0, 3), Symbol("g", "a", 3, 5), Symbol("h", "b", 0, 3)},
     queries |-> [dev |-> Truth("english_dev", {Evidence("a", "g", << >>, 2)}),
                  test |-> Truth("english_test", {Evidence("a", None, <<2, 4>>, 1),
                                                  Evidence("b", "h", << >>, 2)})]]

\* Evidence on every span of a file, beside a symbol's.
EverySpan(length) ==
    LET spans == {<<first, last>> \in (0..(length - 1)) \X (1..length) : first < last}
    IN  [lengths |-> [a |-> length], symbols |-> {Symbol("f", "a", 0, 3)},
         queries |-> [q \in spans \X {1, 2} |->
                         Truth("chinese_coverage", {Evidence("a", None, q[1], q[2]),
                                                    Evidence("a", "f", << >>, 1)})]]

MCCorpora == [p1 |-> Frozen(7), p2 |-> Frozen(5), s4 |-> EverySpan(4), s8 |-> EverySpan(8)]

MCMatrix == [chunk |-> [unit |-> "chunk", semantic |-> FALSE, diagnostic |-> FALSE],
             hybrid |-> [unit |-> "symbol", semantic |-> TRUE, diagnostic |-> FALSE]]

Answer(raises, degraded, hits) == [raises |-> raises, degraded |-> degraded, hits |-> hits]
Chunk(first, last) == Stretch("a", first, last, None)
SymbolHit(id, first, last) == Stretch("a", first, last, id)

MCAnswers ==
    [chunk |-> {Answer(FALSE, FALSE, <<Chunk(0, 4), Chunk(3, 7)>>)},
     hybrid |-> {Answer(FALSE, FALSE, <<SymbolHit("g", 3, 5), SymbolHit("f", 0, 3)>>),
                 Answer(FALSE, TRUE, <<SymbolHit("f", 0, 3)>>)}]

MCPackageOf == [a1 |-> "p1", a2 |-> "p1"]
MCRunIds == [chunk |-> [dry_run |-> {"c"}, formal |-> {"cf"}],
             hybrid |-> [dry_run |-> {"h"}, formal |-> {"hf"}]]
MCPackages == {"p1", "p2"}
MCRecallCutoffs == <<1, 2, 3>>
MCDiscount == <<100, 63>>
MCSymmetry == Permutations({w1, w2})
=============================================================================
