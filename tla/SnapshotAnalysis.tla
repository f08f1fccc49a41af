-------------------------- MODULE SnapshotAnalysis --------------------------
(***************************************************************************)
(* The tools of code_maintenance/analysis.py over one snapshot              *)
(* [files, symbols, graph].  A finding is <<rule, subject>>.                *)
(***************************************************************************)
EXTENDS SourceSymbols

CONSTANTS
    MaxMethodsPerClass,  \* ComplexityTool.max_methods_per_class
    MaxSymbolsPerFile,   \* StructureTool.max_symbols_per_file
    MaxFanOut            \* DependencyTool.max_fan_out

ASSUME LimitsAreNatural ==
    /\ MaxMethodsPerClass \in Nat
    /\ MaxSymbolsPerFile \in Nat
    /\ MaxFanOut \in Nat

Tools == {"complexity", "structure", "dependency"}

SymbolNodesOf(graph, kind) ==
    {n \in graph.nodes : n[1] = "symbol" /\ n[2].kind = kind}

ComplexityFindings(snapshot) ==
    LET methods(class) == {e \in snapshot.graph.edges :
                              /\ e.relation = "contains"
                              /\ e.source = class
                              /\ e.target \in SymbolNodesOf(snapshot.graph, "method")}
    IN  {<<"complexity.class_method_count", class[2]>> :
            class \in {n \in SymbolNodesOf(snapshot.graph, "class") :
                          Cardinality(methods(n)) > MaxMethodsPerClass}}

StructureFindings(snapshot) ==
    {<<"structure.symbol_density", f>> :
        f \in {g \in DOMAIN snapshot.files :
                  Cardinality({s \in snapshot.symbols : s.id.file = g}) > MaxSymbolsPerFile}}

------------------------------------------------------------------------------
(* Import cycles: two depth-first passes without recursion in the code.     *)

FileImports(graph) ==
    {e \in graph.edges : e.relation = "imports" /\ e.source[1] = "file"}

\* <<importer, imported>>, inside the project.
Adjacency(graph) ==
    {<<e.source[2], e.target[2]>> : e \in {x \in FileImports(graph) : x.target[1] = "file"}}

ScannedFiles(graph) == {n[2] : n \in {m \in graph.nodes : m[1] = "file"}}

\* One turn of `while stack`: follow the top vertex's next edge, or finish it.
FinishStep(neighbors, s) ==
    LET top == Last(s.stack)
        rest == Front(s.stack)
    IN  IF top.next > Len(neighbors[top.vertex])
        THEN [s EXCEPT !.stack = rest, !.finish = Append(@, top.vertex)]
        ELSE LET target == neighbors[top.vertex][top.next]
                 advanced == Append(rest, [top EXCEPT !.next = @ + 1])
             IN  IF target \in s.visited THEN [s EXCEPT !.stack = advanced]
                 ELSE [s EXCEPT !.visited = @ \cup {target},
                                !.stack = Append(advanced, [vertex |-> target, next |-> 1])]

\* No path is under way: take up the next file that was not visited.
StartStep(order, s) ==
    LET start == order[s.start]
        skipped == [s EXCEPT !.start = @ + 1]
    IN  IF start \in s.visited THEN skipped
        ELSE [skipped EXCEPT !.visited = @ \cup {start},
                             !.stack = <<[vertex |-> start, next |-> 1]>>]

FirstPass(order, neighbors, s) ==
    IF s.stack # << >> THEN FinishStep(neighbors, s)
    ELSE IF s.start <= Len(order) THEN StartStep(order, s)
    ELSE s

\* The vertices in the order in which the first pass leaves them.  A turn
\* starts a file, finishes one or follows an edge.
FinishOrder(files, edges) ==
    LET neighbors == [v \in files |-> Listing({e[2] : e \in {x \in edges : x[1] = v}})]
        turns == 2 * Cardinality(files) + Cardinality(edges)
        run[k \in 0..turns] ==
            IF k = 0 THEN [start |-> 1, visited |-> {}, stack |-> << >>, finish |-> << >>]
            ELSE FirstPass(Listing(files), neighbors, run[k - 1])
    IN  run[turns].finish

\* One edge back from every vertex reached, through vertices no component has
\* taken yet.
Back(edges, free, reached) ==
    reached \cup {e[1] : e \in {x \in edges : x[2] \in reached /\ x[1] \in free}}

FloodAgainst(edges, free, start) ==
    LET flood[k \in 0..Cardinality(free)] ==
            IF k = 0 THEN {start} ELSE Back(edges, free, flood[k - 1])
    IN  flood[Cardinality(free)]

TakeComponent(edges, s, start) ==
    IF start \notin s.free THEN s
    ELSE LET component == FloodAgainst(edges, s.free, start)
         IN  [free |-> s.free \ component, found |-> s.found \cup {component}]

SecondPass(files, edges, starts) ==
    LET taken[k \in 0..Len(starts)] ==
            IF k = 0 THEN [free |-> files, found |-> {}]
            ELSE TakeComponent(edges, taken[k - 1], starts[k])
    IN  taken[Len(starts)].found

\* Fault: the second pass takes the vertices in the order they were finished.
ComponentsInFinishOrder(files, edges) ==
    SecondPass(files, edges, FinishOrder(files, edges))

StronglyConnectedComponents(files, edges) ==
    SecondPass(files, edges, Reverse(FinishOrder(files, edges)))

DependencyFindings(snapshot) ==
    LET files == ScannedFiles(snapshot.graph)
        edges == Adjacency(snapshot.graph)
        fanOut(v) == Cardinality({e \in FileImports(snapshot.graph) : e.source[2] = v})
    IN  {<<"dependency.cycle", c>> :
            c \in {d \in StronglyConnectedComponents(files, edges) :
                      Cardinality(d) > 1 \/ \E v \in d : <<v, v>> \in edges}}
        \cup {<<"dependency.concentration", v>> :
                 v \in {u \in files : fanOut(u) > MaxFanOut}}

\* AnalysisEngine.analyze: a tool that raises gives one finding of its own and
\* takes nothing from the others.
Analyze(snapshot, failing) ==
    LET findings(tool) ==
            IF tool \in failing THEN {<<"analysis.tool_failure", tool>>}
            ELSE CASE tool = "complexity" -> ComplexityFindings(snapshot)
                   [] tool = "structure" -> StructureFindings(snapshot)
                   [] tool = "dependency" -> DependencyFindings(snapshot)
    IN  UNION {findings(tool) : tool \in Tools}
=============================================================================
