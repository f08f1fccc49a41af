----------------------------- MODULE Benchmark -----------------------------
(***************************************************************************)
(* What the benchmark computes from frozen data: the candidates of each     *)
(* retrieval unit, the grade the truth gives a candidate, the metrics of    *)
(* one query and their mean over a run.  Text is positions only: a file is  *)
(* its length, a candidate a stretch [first, last) of it.  A score is a     *)
(* fraction <<n, d>>; the discounts of nDCG are whole numbers in proportion *)
(* to 1/log2(rank + 1).                                                     *)
(***************************************************************************)
EXTENDS Integers, Sequences, FiniteSets, FiniteSetsExt, Functions

CONSTANTS
    None,
    Corpora,      \* frozen data by name: [lengths, symbols, queries]
    ChunkSize, ChunkStride,
    TopK,         \* config.top_k
    RecallCutoffs,
    MrrCutoff,
    ShortCutoff,  \* ndcg_k, precision_k and hit_rate_k
    Discount      \* by rank, 1..ShortCutoff

ASSUME ChunksOverlap == ChunkSize \in Nat /\ ChunkStride \in 1..ChunkSize
ASSUME CutoffsAreOrdered ==
    /\ TopK \in Nat /\ MrrCutoff \in Nat /\ ShortCutoff \in 1..MrrCutoff
    /\ RecallCutoffs \in [1..3 -> Nat]
    /\ RecallCutoffs[1] <= RecallCutoffs[2] /\ RecallCutoffs[2] <= RecallCutoffs[3]
    /\ RecallCutoffs[3] = MrrCutoff
ASSUME DiscountsFall ==
    /\ Discount \in [1..ShortCutoff -> Nat \ {0}]
    /\ \A i, j \in 1..ShortCutoff : i < j => Discount[j] < Discount[i]
ASSUME CorporaAreFinite ==
    \A name \in DOMAIN Corpora :
        /\ IsFiniteSet(DOMAIN Corpora[name].queries)
        /\ IsFiniteSet(DOMAIN Corpora[name].lengths) /\ IsFiniteSet(Corpora[name].symbols)

\* What the registry and its records refuse otherwise: the span of a symbol and
\* of evidence is not empty, a symbol lies in its file and is named with its
\* path, evidence has a symbol or a span and one of three grades.
IsWellFormed(data) ==
    /\ \A p \in DOMAIN data.lengths : data.lengths[p] \in Nat
    /\ \A s \in data.symbols :
           s.first \in Nat /\ s.last \in (s.first + 1)..data.lengths[s.path]
    /\ \A q \in DOMAIN data.queries : \A e \in data.queries[q].evidence :
           /\ e.grade \in 0..2
           /\ IF e.span = << >> THEN e.symbol # None
              ELSE e.span[1] \in Nat /\ e.span[2] \in Nat /\ e.span[1] < e.span[2]
           /\ \A s \in data.symbols : s.id = e.symbol => s.path = e.path

ASSUME CorporaAreWellFormed == \A name \in DOMAIN Corpora : IsWellFormed(Corpora[name])

Least(m, n) == IF m < n THEN m ELSE n
Most(m, n) == IF m < n THEN n ELSE m

------------------------------------------------------------------------------
(* Candidates and truth.                                                    *)

Stretch(path, first, last, symbol) ==
    [path |-> path, first |-> first, last |-> last, symbol |-> symbol]

ChunkStarts(length) == {s \in 0..(length - 1) : s % ChunkStride = 0}

ChunksOf(data, path) ==
    LET length == data.lengths[path]
    IN  {Stretch(path, s, Least(s + ChunkSize, length), None) : s \in ChunkStarts(length)}

SymbolsOf(data) == {Stretch(s.path, s.first, s.last, s.id) : s \in data.symbols}

Candidates(data, unit) ==
    CASE unit = "file" -> {Stretch(p, 0, data.lengths[p], None) : p \in DOMAIN data.lengths}
      [] unit = "chunk" -> UNION {ChunksOf(data, p) : p \in DOMAIN data.lengths}
      [] unit = "symbol" -> SymbolsOf(data)

\* The stretch of an item of evidence: its own offsets, or its symbol's.
EvidenceSpan(data, e) ==
    IF e.span # << >> THEN e.span
    ELSE LET s == CHOOSE s \in data.symbols : s.id = e.symbol IN <<s.first, s.last>>

TruthIsValid(data, evidence) ==
    \A e \in evidence :
        /\ e.path \in DOMAIN data.lengths
        /\ e.symbol # None => \E s \in data.symbols : s.id = e.symbol
        /\ e.span # << >> => e.span[2] <= data.lengths[e.path]

\* Fault: touching is taken for overlapping.
OverlapsTouching(span, c) == Most(c.first, span[1]) <= Least(c.last, span[2])

Overlaps(span, c) == Most(c.first, span[1]) < Least(c.last, span[2])

Supports(data, unit, e, c) ==
    LET span == EvidenceSpan(data, e)
    IN  /\ e.path = c.path
        /\ \/ unit = "file"
           \/ unit = "chunk" /\ Overlaps(span, c)
           \/ /\ unit = "symbol"
              /\ \/ e.symbol = c.symbol
                 \/ c.first <= span[1] /\ span[2] <= c.last

Grade(data, evidence, unit, c) ==
    Max({0} \cup {e.grade : e \in {e \in evidence : Supports(data, unit, e, c)}})

RelevanceMap(data, evidence, unit) ==
    [c \in Candidates(data, unit) |-> Grade(data, evidence, unit, c)]

Relevant(grades) == {c \in DOMAIN grades : grades[c] > 0}

\* validate_truth and relevance_map raise otherwise, and the run with them.
Gradable(data, evidence, unit) ==
    /\ TruthIsValid(data, evidence)
    /\ Relevant(RelevanceMap(data, evidence, unit)) # {}

------------------------------------------------------------------------------
(* Metrics of a ranking.                                                    *)

First(ranked, k) == {ranked[i] : i \in 1..Least(k, Len(ranked))}

Recall(ranked, grades, k) ==
    <<Cardinality(Relevant(grades) \cap First(ranked, k)), Cardinality(Relevant(grades))>>

ReciprocalRank(ranked, grades) ==
    LET found == {i \in 1..Least(MrrCutoff, Len(ranked)) : grades[ranked[i]] > 0}
    IN  IF found = {} THEN <<0, 1>> ELSE <<1, Min(found)>>

Gain(grade) == 2^grade - 1

\* Fault: the ideal order is taken from what was retrieved.
IdealOfRetrieved(ranked, grades) ==
    LET at(g) == Cardinality({i \in DOMAIN ranked : grades[ranked[i]] >= g})
    IN  [i \in 1..ShortCutoff |-> Cardinality({g \in 1..2 : i <= at(g)})]

\* The best grades the truth allows, in descending order.
IdealGrades(ranked, grades) ==
    LET at(g) == Cardinality({c \in DOMAIN grades : grades[c] >= g})
    IN  [i \in 1..ShortCutoff |-> Cardinality({g \in 1..2 : i <= at(g)})]

CumulatedGain(graded) ==
    LET term(i) == Gain(graded[i]) * Discount[i] IN MapThenSumSet(term, DOMAIN graded)

NDCG(ranked, grades) ==
    <<CumulatedGain([i \in 1..Least(ShortCutoff, Len(ranked)) |-> grades[ranked[i]]]),
      CumulatedGain(IdealGrades(ranked, grades))>>

Metrics(ranked, grades) ==
    LET hits == Cardinality(Relevant(grades) \cap First(ranked, ShortCutoff))
    IN  [recall_at_1 |-> Recall(ranked, grades, RecallCutoffs[1]),
         recall_at_5 |-> Recall(ranked, grades, RecallCutoffs[2]),
         recall_at_10 |-> Recall(ranked, grades, RecallCutoffs[3]),
         mrr |-> ReciprocalRank(ranked, grades),
         ndcg_at_5 |-> NDCG(ranked, grades),
         precision_at_5 |-> <<hits, ShortCutoff>>,
         hit_rate_at_5 |-> <<IF hits > 0 THEN 1 ELSE 0, 1>>]

MetricNames == {"recall_at_1", "recall_at_5", "recall_at_10", "mrr",
                "ndcg_at_5", "precision_at_5", "hit_rate_at_5"}

Zero == [m \in MetricNames |-> <<0, 1>>]

------------------------------------------------------------------------------
(* One query, and a run's summary.  An answer is [raises, degraded, hits].   *)

\* Positions a candidate appears at for the first time.
Fresh(hits) == {i \in DOMAIN hits : \A j \in 1..(i - 1) : hits[j] # hits[i]}

Kept(hits) == Least(TopK, Cardinality(Fresh(hits)))

\* A repeated hit keeps its rank from the next one: RawQueryResult refuses the
\* gap, and the run ends.
RanksAreContiguous(hits) == 1..Kept(hits) \subseteq Fresh(hits)

QueryStatus(catalogue, semantic, answer) ==
    IF answer.raises \/ ~ Range(answer.hits) \subseteq catalogue THEN "failed"
    ELSE IF semantic /\ answer.degraded THEN "invalid" ELSE "success"

QueryResult(data, query, config, answer) ==
    LET grades == RelevanceMap(data, data.queries[query].evidence, config.unit)
        status == QueryStatus(DOMAIN grades, config.semantic, answer)
        ranked == IF status = "success" THEN SubSeq(answer.hits, 1, Kept(answer.hits)) ELSE << >>
    IN  [status |-> status, ranked |-> ranked,
         degraded |-> status # "failed" /\ answer.degraded,
         metrics |-> IF status = "success" THEN Metrics(ranked, grades) ELSE Zero]

RunStatus(results) ==
    LET statuses == {results[q].status : q \in DOMAIN results}
    IN  IF "invalid" \in statuses THEN "invalid"
        ELSE IF "failed" \in statuses THEN "failed" ELSE "success"

Count(results, status) == Cardinality({q \in DOMAIN results : results[q].status = status})

DegradedCount(results) == Cardinality({q \in DOMAIN results : results[q].degraded})

\* Fault: only the queries that succeeded enter the mean.
MeanOfSuccesses(results, metric) ==
    LET counted == {q \in DOMAIN results : results[q].status = "success"}
        denominator == ProductSet({results[q].metrics[metric][2] : q \in DOMAIN results})
        term(q) == results[q].metrics[metric][1]
                   * (denominator \div results[q].metrics[metric][2])
    IN  <<MapThenSumSet(term, counted), denominator * Most(1, Cardinality(counted))>>

\* Mean of one metric over all queries, a failed one counting zero.
Mean(results, metric) ==
    LET denominator == ProductSet({results[q].metrics[metric][2] : q \in DOMAIN results})
        term(q) == results[q].metrics[metric][1]
                   * (denominator \div results[q].metrics[metric][2])
    IN  <<MapThenSumSet(term, DOMAIN results), denominator * Cardinality(DOMAIN results)>>

Summary(results) ==
    [status |-> RunStatus(results),
     counts |-> [s \in {"success", "failed", "invalid"} |-> Count(results, s)],
     degraded |-> DegradedCount(results),
     means |-> [m \in MetricNames |-> Mean(results, m)]]

------------------------------------------------------------------------------
(* Properties.                                                              *)

AtMost(a, b) == a[1] * b[2] <= b[1] * a[2]

\* Best possible first ShortCutoff ranks: no grade is below a later one, and
\* none outside is above one inside or left out while there is room.
IsIdeal(ranked, grades) ==
    LET n == Least(ShortCutoff, Len(ranked))
    IN  \A c \in DOMAIN grades :
            LET better == {i \in 1..n : ranked[i] = c}
            IN  IF better = {} THEN /\ n < ShortCutoff => grades[c] = 0
                                    /\ \A i \in 1..n : grades[ranked[i]] >= grades[c]
                ELSE \A i \in better : \A j \in 1..(i - 1) : grades[ranked[j]] >= grades[c]

\* A recall grows with the cutoff and never passes one, nDCG is one exactly for
\* a ranking that could not be better, the reciprocal rank, the hit rate and the
\* precision see a relevant candidate when a recall does; a query without
\* success scores nothing and keeps no hit.
ScoreIsSound(result, grades) ==
    LET m == result.metrics
    IN  IF result.status = "success"
        THEN /\ AtMost(m.recall_at_1, m.recall_at_5)
             /\ AtMost(m.recall_at_5, m.recall_at_10)
             /\ AtMost(m.recall_at_10, <<1, 1>>)
             /\ AtMost(m.ndcg_at_5, <<1, 1>>)
             /\ (m.ndcg_at_5[1] = m.ndcg_at_5[2]) = IsIdeal(result.ranked, grades)
             /\ (m.mrr[1] > 0) = (m.recall_at_10[1] > 0)
             /\ m.hit_rate_at_5[1] > 0 => AtMost(<<1, ShortCutoff>>, m.mrr)
             /\ (m.hit_rate_at_5[1] > 0) = (m.precision_at_5[1] > 0)
        ELSE result.ranked = << >> /\ m = Zero

\* A mean counts every query of the run: it is at most the share that succeeded.
SummaryIsSound(results) ==
    LET summary == Summary(results)
    IN  /\ \A m \in MetricNames :
               AtMost(summary.means[m], <<summary.counts["success"], Cardinality(DOMAIN results)>>)
        /\ summary.status = "success" <=> \A q \in DOMAIN results : results[q].status = "success"

Rankings(S) == UNION {{f \in [1..n -> S] : IsInjective(f)} : n \in 0..TopK}

\* Packages for which every score of every ranking of a unit's catalogue, stray
\* hits, failures and degraded answers included, and every mean over two of a
\* query's results is sound.
SoundlyScored ==
    {name \in DOMAIN Corpora :
        \A unit \in {"file", "chunk", "symbol"} :
            LET data == Corpora[name]
                catalogue == Candidates(data, unit)
                answers == [raises : BOOLEAN, degraded : BOOLEAN,
                            hits : Rankings(catalogue \cup {Stretch("stray", 0, 1, None)})]
                config == [unit |-> unit, semantic |-> TRUE]
            IN  \A q \in {q \in DOMAIN data.queries : data.queries[q].split # "chinese_coverage"} :
                    LET grades == RelevanceMap(data, data.queries[q].evidence, unit)
                        results == {QueryResult(data, q, config, a) : a \in answers}
                    IN  Gradable(data, data.queries[q].evidence, unit) =>
                            /\ \A r \in results : ScoreIsSound(r, grades)
                            /\ \A r, s \in results : SummaryIsSound(<<r, s>>)}

\* One query's truth as the units see it: a chunk has the best grade of the
\* evidence it shares a character with, every character of the evidence is in
\* a chunk, and the best chunk, like the file itself, has the best grade; a
\* symbol is never graded above its file.
GradesAgree(data, evidence) ==
    LET best(E) == Max({0} \cup {e.grade : e \in E})
        at(e) == EvidenceSpan(data, e)[1]..(EvidenceSpan(data, e)[2] - 1)
        grade(unit, c) == Grade(data, evidence, unit, c)
    IN  \A path \in DOMAIN data.lengths :
            LET here == {e \in evidence : e.path = path}
                whole == Stretch(path, 0, data.lengths[path], None)
                chunks == {c \in Candidates(data, "chunk") : c.path = path}
            IN  /\ \A c \in chunks : grade("chunk", c)
                       = best({e \in here : at(e) \cap (c.first..(c.last - 1)) # {}})
                /\ \A e \in here : \A i \in at(e) :
                       \E c \in chunks : i \in c.first..(c.last - 1)
                /\ grade("file", whole) = best(here)
                /\ Max({0} \cup {grade("chunk", c) : c \in chunks}) = best(here)
                /\ \A s \in SymbolsOf(data) :
                       s.path = path => grade("symbol", s) <= grade("file", whole)

\* The queries of the frozen data whose truth validate_truth accepts, and those
\* of them all units grade alike.
Validated ==
    UNION {{<<name, q>> : q \in {q \in DOMAIN Corpora[name].queries :
                                   TruthIsValid(Corpora[name], Corpora[name].queries[q].evidence)}} :
              name \in DOMAIN Corpora}

EvenlyGraded ==
    {x \in Validated : GradesAgree(Corpora[x[1]], Corpora[x[1]].queries[x[2]].evidence)}
=============================================================================
