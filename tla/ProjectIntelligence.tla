------------------------ MODULE ProjectIntelligence ------------------------
(***************************************************************************)
(* The whole of code_maintenance and project_intelligence around one        *)
(* directory: snapshots, analysis, corpus, index, and the queries a         *)
(* RetrievalService answers from the index while the directory changes.     *)
(***************************************************************************)
EXTENDS ProjectIndex, SnapshotAnalysis, Retrieval

CONSTANTS
    HybridConfigs,  \* [strategy, lexical, semantic, graph, graphEnabled]
    TopK,           \* RetrievalQuery.top_k values
    Budgets,        \* RetrievalQuery.context_budget values
    Queries         \* what the words of a query score: [lex, sem], per symbol

ASSUME HybridConfigsAreValid ==
    \A cfg \in HybridConfigs :
        /\ cfg.strategy \in {"weighted", "rrf"}
        /\ {cfg.lexical, cfg.semantic, cfg.graph} \subseteq Nat
        /\ cfg.lexical > 0 \/ cfg.semantic > 0
        /\ cfg.graphEnabled \/ cfg.graph = 0
ASSUME QueriesAreValid == TopK \subseteq Nat \ {0} /\ Budgets \subseteq Nat \ {0}
VARIABLES
    findings,  \* what the last step, AnalysisEngine.analyze, gave, or None
    answer     \* what the last step, RetrievalService.retrieve, gave, or None

piVars == <<vars, findings, answer>>
\* Results are handed out and kept nowhere: a step forgets those of the last.
Forget == findings' = None /\ answer' = None

\* Any fixed total order stands for the sort keys of the symbol ids.
IdOrder == Listing(UNION {UNION {{d.id : d \in Documents(f, c)} : c \in Versions[f]} :
                              f \in {g \in Files : HasAdapter(g)}})

ASSUME ScoresAreInRange ==
    \A q \in Queries : \A id \in ToSet(IdOrder) :
        q.lex[id] \in Nat /\ q.sem[id] \in -CosineScale..CosineScale

PIInit == Init /\ findings = None /\ answer = None

AnalyzeSnapshot(failing) ==
    /\ pass.name = "idle" /\ snapshot # None
    /\ findings' = Analyze(snapshot, failing)
    /\ answer' = None
    /\ UNCHANGED vars

\* HybridRetriever.retrieve and ContextBuilder.build for a query with words in
\* it: what was found, what the graph adds to it, and the text of both.
Context(cfg, budget, degraded, order, size, hits, candidates) ==
    LET text == FillContext(Plan(hits, candidates, order), size, budget)
    IN  [budget |-> budget, degraded |-> degraded, candidates |-> candidates, hits |-> hits,
         used |-> text.used, snippets |-> text.snippets, truncated |-> text.truncated]

\* Binding each stage's value once, in the order of the stages.
Answers(cfg, n, budget, order, docs, lex, sem, fails) ==
    LET ids == {d.id : d \in docs}
        size == [id \in ids |-> (CHOOSE d \in docs : d.id = id).size]
        expand(seeds) == IF cfg.graphEnabled
                         THEN ExpandGraph(index.snapshot.graph, seeds, docs, order) ELSE {}
        found == {<<IF cfg.lexical > 0 THEN LexicalHits(Restrict(lex, ids), order, n) ELSE << >>,
                    IF cfg.semantic > 0 /\ ~fails
                    THEN SemanticHits(Restrict(sem, ids), order, n) ELSE << >>>>}
        fused(h, candidates) == Fuse(cfg, h[1], h[2], lex, sem, candidates, order, n)
    IN  UNION {UNION {{Context(cfg, budget, cfg.semantic > 0 /\ fails, order, size, hits, candidates)
                          : hits \in {fused(h, candidates)}}
                         : candidates \in {expand(ToSet(h[1]) \cup ToSet(h[2]))}}
                 : h \in found}

\* fails: the provider cannot embed the query.
Retrieve(cfg, n, budget, lex, sem, fails) ==
    /\ pass.name = "idle" /\ index # None
    /\ cfg.semantic > 0 => index.space # Lexical
    /\ IF fails /\ cfg.semantic > 0 /\ cfg.lexical = 0
       THEN problem' = "HybridRetrievalError" /\ answer' = None
       ELSE /\ \E order \in {IdOrder}, docs \in {IndexDocuments} :
                  answer' \in Answers(cfg, n, budget, order, docs, lex, sem, fails)
            /\ problem' = None
    /\ findings' = None
    /\ UNCHANGED <<world, scans, pass, snapshot, corpus, index>>

\* A query without words is answered without looking at the index.
RetrieveNothing ==
    /\ pass.name = "idle" /\ index # None
    /\ answer' = None
    /\ problem' = None
    /\ findings' = None
    /\ UNCHANGED <<world, scans, pass, snapshot, corpus, index>>

Query ==
    \E cfg \in HybridConfigs, n \in TopK, budget \in Budgets, q \in Queries :
        \E fails \in IF cfg.semantic > 0 THEN BOOLEAN ELSE {FALSE} :
            Retrieve(cfg, n, budget, q.lex, q.sem, fails)

PINext ==
    \/ Edit /\ Forget
    \/ Build /\ Forget
    \/ \E failing \in {{}} \cup {{tool} : tool \in Tools} : AnalyzeSnapshot(failing)
    \/ index # None /\ Query
    \/ RetrieveNothing

PISpec == PIInit /\ [][PINext]_piVars

------------------------------------------------------------------------------
(* Properties.                                                              *)

\* Every set of vertices that holds f and what its members lead to holds g.
Reaches(files, edges, f, g) ==
    \A S \in SUBSET files :
        f \in S /\ (\A e \in edges : e[1] \in S => e[2] \in S) => g \in S

\* The strongly connected component of f.
Component(files, edges, f) ==
    {g \in files : Reaches(files, edges, f, g) /\ Reaches(files, edges, g, f)}

(* The cycles the dependency tool reports are the strongly connected        *)
(* components of the import graph, and nothing else (analysis.py).          *)
CyclesAreComponents ==
    findings # None /\ <<"analysis.tool_failure", "dependency">> \notin findings =>
        LET files == {n[2] : n \in {m \in snapshot.graph.nodes : m[1] = "file"}}
            edges == {<<e.source[2], e.target[2]>> :
                         e \in {x \in snapshot.graph.edges :
                                   x.relation = "imports" /\ x.target[1] = "file"}}
            component(f) == Component(files, edges, f)
        IN  {x[2] : x \in {y \in findings : y[1] = "dependency.cycle"}}
                = {component(f) : f \in {g \in files : \/ Cardinality(component(g)) > 1
                                                       \/ <<g, g>> \in edges}}

\* Undirected distance over the admitted relations.
Within(graph, hops, m, n) ==
    LET ring[k \in 0..hops] ==
            IF k = 0 THEN {m}
            ELSE ring[k - 1] \cup UNION {{s.node : s \in Steps(graph, x)} : x \in ring[k - 1]}
    IN  n \in ring[hops]

(* A context package keeps its promises: it fits its budget with the blank  *)
(* lines counted, says truncated exactly when something found was cut or    *)
(* left out, repeats no symbol, and shows beside the hits only documents    *)
(* that are as close to a seed as they claim, no farther than max_hops and  *)
(* each recorded with its shortest distance (context.py, graph_expansion.py). *)
AnswerIsSound ==
    answer # None =>
        LET shown == {answer.snippets[i].id : i \in DOMAIN answer.snippets}
            found == ToSet(answer.hits)
                     \cup {c.node[2] : c \in {x \in answer.candidates : x.node[1] = "symbol"}}
            graph == index.snapshot.graph
            count == Len(answer.snippets)
            total == Through(LAMBDA sum, s : sum + s.length, 0, answer.snippets)
        IN  /\ answer.used = total + (IF count = 0 THEN 0 ELSE 2 * (count - 1))
            /\ answer.used <= answer.budget
            /\ \A i, j \in DOMAIN answer.snippets :
                   answer.snippets[i].id = answer.snippets[j].id => i = j
            /\ answer.truncated <=> \/ found \ shown # {}
                                    \/ \E i \in DOMAIN answer.snippets : answer.snippets[i].cut
            /\ shown \subseteq found
            /\ \A c \in answer.candidates :
                   /\ c.hop <= MaxHops
                   /\ Within(graph, c.hop, SymbolNode(c.seed), c.node)
                   /\ ~Within(graph, c.hop - 1, SymbolNode(c.seed), c.node)
=============================================================================
