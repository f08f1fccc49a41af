----------------------------- MODULE Retrieval -----------------------------
(***************************************************************************)
(* Answering a query from an index: the two rankings, the expansion over    *)
(* the project graph, the fusion and the context text.  Scores come from    *)
(* BM25 and the embedding model and are inputs here: lexical scores (0 is   *)
(* no hit) and weights are natural multiples of some unit, cosines multiples *)
(* of 1/CosineScale.  Fused scores are exact multiples of the code's.       *)
(***************************************************************************)
EXTENDS SourceSymbols

CONSTANTS
    MaxHops,      \* GraphExpansionConfig.max_hops
    MaxPerSeed,   \* max_expanded_per_seed
    MaxNodes,     \* max_total_context_nodes
    Relations,    \* relations
    RrfK,         \* HybridConfig.rrf_k
    CosineScale   \* units of a cosine similarity of 1

ASSUME HopsAreNatural == MaxHops \in Nat
ASSUME CosinesAreScaled == CosineScale \in Nat \ {0}
ASSUME ExpansionIsBounded == MaxPerSeed \in Nat /\ MaxNodes \in Nat
ASSUME RelationsAreKnown == Relations \subseteq {"contains", "imports"}
ASSUME RrfKIsPositive == RrfK \in Nat \ {0}

Position(seq, x) == CHOOSE i \in DOMAIN seq : seq[i] = x
Take(seq, n) == SubSeq(seq, 1, IF Len(seq) < n THEN Len(seq) ELSE n)

\* The best n of S, ties in the canonical order of the ids.
Ranked(S, score, order, n) ==
    Take(SortedBy(S, LAMBDA a, b :
             \/ score[a] > score[b]
             \/ score[a] = score[b] /\ Position(order, a) < Position(order, b)), n)

LexicalHits(score, order, n) == Ranked({d \in DOMAIN score : score[d] > 0}, score, order, n)
SemanticHits(score, order, n) == Ranked(DOMAIN score, score, order, n)

------------------------------------------------------------------------------
(* expand_graph: breadth first from each seed, in both directions.          *)

Steps(graph, n) ==
    LET edges == {e \in graph.edges : e.relation \in Relations}
    IN  {[relation |-> e.relation, direction |-> "forward", node |-> e.target]
            : e \in {x \in edges : x.source = n}}
        \cup {[relation |-> e.relation, direction |-> "reverse", node |-> e.source]
                 : e \in {x \in edges : x.target = n}}

\* Relation, then direction, then node.
StepKey(nodes, s) ==
    ((IF s.relation = "imports" THEN 2 ELSE 0) + (IF s.direction = "reverse" THEN 1 ELSE 0))
        * (Len(nodes) + 1) + Position(nodes, s.node)

\* External modules and symbols without a document lead on but are no result.
Supported(documents, n) ==
    \/ n[1] \in {"file", "project"}
    \/ n[1] = "symbol" /\ \E d \in documents : d.id = n[2]

Visit(documents, seed, hop, s, step) ==
    IF step.node \in s.visited THEN s
    ELSE [queue |-> Append(s.queue, [node |-> step.node, hop |-> hop]),
          visited |-> s.visited \cup {step.node},
          found |-> IF Supported(documents, step.node)
                    THEN Append(s.found, [seed |-> seed, relation |-> step.relation,
                                          direction |-> step.direction, hop |-> hop,
                                          node |-> step.node])
                    ELSE s.found]

\* The k-th entry of the queue is taken up.
Pop(graph, nodes, documents, seed, s, k) ==
    IF k > Len(s.queue) \/ s.queue[k].hop >= MaxHops THEN s
    ELSE Through(LAMBDA t, step : Visit(documents, seed, s.queue[k].hop + 1, t, step), s,
                 SortedBy(Steps(graph, s.queue[k].node),
                          LAMBDA a, b : StepKey(nodes, a) < StepKey(nodes, b)))

FromSeed(graph, nodes, documents, seed) ==
    LET pop[k \in 0..Len(nodes)] ==
            IF k = 0
            THEN [queue |-> <<[node |-> SymbolNode(seed), hop |-> 0]>>,
                  visited |-> {SymbolNode(seed)}, found |-> << >>]
            ELSE Pop(graph, nodes, documents, seed, pop[k - 1], k)
        found == pop[Len(nodes)].found
    IN  Take(SortedBy(ToSet(found), LAMBDA a, b :
                 \/ a.hop < b.hop
                 \/ a.hop = b.hop /\ Position(nodes, a.node) < Position(nodes, b.node)),
             MaxPerSeed)

\* Seeds in order; a node belongs to the first seed that reaches it.
ExpandGraph(graph, seeds, documents, order) ==
    LET nodes == Listing(graph.nodes)
        known == {s \in seeds : SymbolNode(s) \in graph.nodes}
        ordered == SortedBy(known, LAMBDA a, b : Position(order, a) < Position(order, b))
        add(selected, c) == IF \/ Cardinality(selected) >= MaxNodes
                               \/ \E x \in selected : x.node = c.node
                            THEN selected ELSE selected \cup {c}
    IN  Through(add, {}, FlattenSeq([i \in DOMAIN ordered |->
                                        FromSeed(graph, nodes, documents, ordered[i])]))

------------------------------------------------------------------------------
(* HybridRetriever.fuse.                                                    *)

\* A signal of 1, which the factors 3/4, 4/5 and 1/hop leave whole.
FullSignal == 20 * ProductSet(1..MaxHops)

\* _graph_signal: relation factor * direction factor / hop.
GraphSignal(c) ==
    ((IF c.relation = "contains" THEN 3 ELSE 4) * (IF c.direction = "forward" THEN 5 ELSE 4)
        * FullSignal) \div (20 * c.hop)

MaxOr(S, default) == IF S = {} THEN default ELSE Max(S)

\* The weighted sum of the normalised scores, with what they are divided by
\* and the unit of the signals as common factors.
WeightedScore(cfg, lexical, semantic, lex, sem, paths, id) ==
    LET best == MaxOr({lex[h] : h \in ToSet(lexical)}, 1)
    IN  (IF id \in ToSet(lexical) THEN cfg.lexical * lex[id] * 2 * CosineScale * FullSignal ELSE 0)
        + (IF id \in ToSet(semantic)
           THEN cfg.semantic * (sem[id] + CosineScale) * best * FullSignal ELSE 0)
        + cfg.graph * MaxOr({GraphSignal(c) : c \in paths}, 0) * best * 2 * CosineScale

\* The reciprocal-rank sum in signals, times a unit that makes every term whole.
RrfScore(cfg, lexical, semantic, paths, id, unit) ==
    LET share(weight, hits) == IF id \in ToSet(hits)
                               THEN weight * FullSignal * (unit \div (RrfK + Position(hits, id)))
                               ELSE 0
    IN  share(cfg.lexical, lexical) + share(cfg.semantic, semantic)
        + (IF paths = {} THEN 0
           ELSE cfg.graph * Max({GraphSignal(c) : c \in paths})
                * (unit \div (RrfK + Min({c.hop : c \in paths}))))

\* Ranks never exceed the number of documents, hops never exceed MaxHops.
RrfUnit(n) == ProductSet({RrfK + i : i \in 1..(IF n < MaxHops THEN MaxHops ELSE n)})

Fuse(cfg, lexical, semantic, lex, sem, candidates, order, n) ==
    LET ids == ToSet(lexical) \cup ToSet(semantic)
        paths(id) == {c \in candidates : c.node = SymbolNode(id)}
        score == [id \in ids |->
                     IF cfg.strategy = "weighted"
                     THEN WeightedScore(cfg, lexical, semantic, lex, sem, paths(id), id)
                     ELSE RrfScore(cfg, lexical, semantic, paths(id), id, RrfUnit(Len(order)))]
    IN  Ranked(ids, score, order, n)

------------------------------------------------------------------------------
(* ContextBuilder.build.                                                    *)

\* Each hit, then what was expanded from it, then the rest of the expansion.
Plan(hits, candidates, order) ==
    LET primary == ToSet(hits)
        extra == {c \in candidates : c.node[1] = "symbol" /\ c.node[2] \notin primary}
        inOrder(S) == SortedBy(S, LAMBDA a, b :
            LET key(c) == <<Position(order, c.seed), c.hop,
                            IF c.relation = "imports" THEN 1 ELSE 0,
                            IF c.direction = "reverse" THEN 1 ELSE 0,
                            Position(order, c.node[2])>>
                differs == {i \in 1..5 : key(a)[i] # key(b)[i]}
            IN  differs # {} /\ key(a)[Min(differs)] < key(b)[Min(differs)])
        ids(cs) == [i \in DOMAIN cs |-> cs[i].node[2]]
    IN  FlattenSeq([i \in DOMAIN hits |->
                       <<hits[i]>> \o ids(inOrder({c \in extra : c.seed = hits[i]}))])
        \o ids(inOrder({c \in extra : c.seed \notin primary}))

\* Fault: the blank lines are not counted.
NoSeparator(snippets) == 0

\* A blank line, two characters, before every piece but the first.
Separator(snippets) == IF snippets = << >> THEN 0 ELSE 2

Place(budget, size, s, id) ==
    LET separator == Separator(s.snippets)
        room == budget - s.used
        cut == [s EXCEPT !.truncated = TRUE, !.open = FALSE]
    IN  IF ~s.open THEN s
        ELSE IF separator + size[id] <= room
        THEN [s EXCEPT !.used = @ + separator + size[id],
                       !.snippets = Append(@, [id |-> id, length |-> size[id], cut |-> FALSE])]
        ELSE IF room > separator
        THEN [cut EXCEPT !.used = budget,
                         !.snippets = Append(@, [id |-> id, length |-> room - separator, cut |-> TRUE])]
        ELSE cut

FillContext(plan, size, budget) ==
    Through(LAMBDA s, id : Place(budget, size, s, id),
            [used |-> 0, snippets |-> << >>, truncated |-> FALSE, open |-> TRUE], plan)
=============================================================================
