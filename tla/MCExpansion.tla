---------------------------- MODULE MCExpansion ----------------------------
(***************************************************************************)
(* Small instances of Definition and Expansion beside those of RunPage.    *)
(* Part "run" executes a few definitions; part "graphs" picks one small    *)
(* graph for the algorithms.                                               *)
(***************************************************************************)
EXTENDS Definition, MCRunPage

CONSTANT Runs  \* the definitions to run, by name

VARIABLES def, x, graph

growthVars == <<def, x, graph>>
vars == <<part, pageVars, growthVars>>

Step(name, type, refs) == [id |-> <<name>>, type |-> type, any |-> FALSE, body |-> "",
                           collect |-> FALSE, added |-> 0, refs |-> {<<r>> : r \in refs}]
Task(name, refs) == Step(name, "noop", refs)
Planner(name) == [Step(name, "planner", {}) EXCEPT !.added = 2]
Map(name, body, collect, refs) == [Step(name, "map", refs) EXCEPT !.body = body, !.collect = collect]
Edge(a, b) == NormalEdge(<<a>>, <<b>>)
When(a, b) == [Edge(a, b) EXCEPT !.when = TRUE]
Loop(a, b, max, fail, guard) ==
    [Edge(a, b) EXCEPT !.loop = TRUE, !.max = max, !.fail = fail, !.guard = guard]
Graph(steps, edges) == [steps |-> steps, edges |-> edges]
Def(steps, edges, templates, onFailure) ==
    [steps |-> steps, edges |-> edges, templates |-> templates, onFailure |-> onFailure,
     caps |-> [added |-> 5, total |-> 12, expansions |-> 2, depth |-> 2]]
NoTemplates == [n \in {} |-> <<>>]

\* a; then w and c up to three times; then z.
Retries == Def(<<Task("a", {}), Task("w", {"a"}), Task("c", {"w"}), Task("z", {"c"})>>,
               <<Edge("a", "w"), Edge("w", "c"), Loop("c", "w", 2, FALSE, "proceed"), Edge("c", "z")>>,
               NoTemplates, "fail_fast")

\* A loop around a fan, and a branch after it.
Fan == Def(<<Task("w", {}), Task("u", {"w"}), Task("v", {"w"}), Task("c", {"u", "v"}),
             Step("z", "branch", {"c"}), Task("y", {}), Task("o", {})>>,
           <<Edge("w", "u"), Edge("w", "v"), Edge("u", "c"), Edge("v", "c"),
             Loop("c", "w", 1, TRUE, "none"), When("c", "z"), When("z", "y"), Edge("z", "o")>>,
           NoTemplates, "continue_independent_branches")

\* A map over a body of two steps.
Fanned == Def(<<Task("a", {}), Map("m", "t", FALSE, {"a"}), Task("z", {"m"})>>,
              <<Edge("a", "m"), Edge("m", "z")>>,
              [t |-> Graph(<<[Task("b", {}) EXCEPT !.refs = {Item}], Task("e", {"b"})>>,
                           <<Edge("b", "e")>>)], "fail_fast")

\* A map that collects its instances' errors, beside a step that may fail.
Collecting == Def(<<Map("m", "t", TRUE, {}), Task("y", {}), Task("z", {"m"})>>, <<Edge("m", "z")>>,
                  [t |-> Graph(<<[Task("b", {}) EXCEPT !.refs = {Item}]>>, <<>>)],
                  "continue_independent_branches")

\* Two planners before one step.
Planned == Def(<<Planner("p"), Planner("q"), Task("z", {"p"})>>, <<Edge("p", "z"), Edge("q", "z")>>,
               NoTemplates, "continue_independent_branches")

\* A planner and a step that may fail beside it.
Beside == Def(<<Planner("p"), Task("y", {}), Task("z", {"p"})>>, <<Edge("p", "z")>>,
              NoTemplates, "fail_fast")

\* Two planners, of which the first lets the join start.
Racing == Def(<<Planner("p"), Planner("q"), [Step("j", "join", {}) EXCEPT !.any = TRUE], Task("z", {})>>,
              <<Edge("p", "j"), Edge("q", "j"), Edge("j", "z")>>, NoTemplates, "fail_fast")

\* A planner before a chain whose second step comes first in string order.
Chain == Def(<<Planner("p"), Task("y", {}), Task("a", {"y"})>>, <<Edge("p", "y"), Edge("y", "a")>>,
             NoTemplates, "fail_fast")

\* Plans: nothing; a step before z; one beside it; one after the other planner,
\* reading it; a cycle; a step over the planner's cap; a nested planner; a loop
\* between new steps; a step from the end of the chain back to its start.
PlanSet == {Graph(<<>>, <<>>),
            Graph(<<Task("n", {"p"})>>, <<Edge("p", "n"), Edge("n", "z")>>),
            Graph(<<Task("n", {"q"})>>, <<>>),
            Graph(<<Task("i", {"q"})>>, <<Edge("q", "i")>>),
            Graph(<<Task("n", {}), Task("i", {})>>, <<Edge("n", "i"), Edge("i", "n")>>),
            Graph(<<Task("n", {}), Task("i", {}), Task("j", {})>>, <<>>),
            Graph(<<Planner("r")>>, <<Edge("r", "z")>>),
            Graph(<<Task("n", {}), Task("i", {"n"})>>,
                  <<Edge("n", "i"), [Edge("i", "z") EXCEPT !.when = TRUE], Loop("i", "n", 1, FALSE, "none")>>),
            Graph(<<Task("n", {})>>, <<Edge("a", "n"), Edge("n", "y")>>)}

Named == [retries |-> Retries, fan |-> Fan, fanned |-> Fanned, collecting |-> Collecting,
          planned |-> Planned, beside |-> Beside, racing |-> Racing, chain |-> Chain]

R == INSTANCE Expansion WITH
        Definitions <- {Named[n] : n \in Runs},
        Names <- <<"a", "b", "c", "e", "i", "j", "m", "n", "o", "p", "q", "r", "u", "v", "w", "y", "z">>,
        Plans <- PlanSet, MaxItems <- 2, MaxSemantic <- 2

Nodes == <<"1", "2", "3", "4">>
Between(n) == {<<Nodes[a], Nodes[b]>> : a \in 1 .. n, b \in 1 .. n}
Listed(E) == SelectSeq([i \in 1 .. 16 |-> <<Nodes[((i - 1) \div 4) + 1], Nodes[((i - 1) % 4) + 1]>>],
                       LAMBDA p : p \in E)
SmallGraph(n, E, L) ==
    Def([i \in 1 .. n |-> Task(Nodes[i], {})],
        [i \in DOMAIN Listed(E) |-> Edge(Listed(E)[i][1], Listed(E)[i][2])]
           \o [i \in DOMAIN Listed(L) |-> Loop(Listed(L)[i][1], Listed(L)[i][2], 1, FALSE, "none")],
        NoTemplates, "fail_fast")

Apart(n) == {p \in Between(n) : p[1] # p[2]}

\* The forward edges of four steps, and three that close cycles of two, three and four.
Woven == {<<Nodes[e[1]], Nodes[e[2]]>> :
             e \in {f \in (1 .. 4) \X (1 .. 4) : f[1] < f[2]} \cup {<<3, 1>>, <<4, 1>>, <<4, 3>>}}

\* Three steps and any edges; three steps and one loop edge; four steps.
Graphs == {SmallGraph(3, E, {}) : E \in SUBSET Between(3)}
          \cup {SmallGraph(3, E, {p}) : E \in SUBSET Apart(3), p \in Between(3)}
          \cup {SmallGraph(4, E, {}) : E \in SUBSET Woven}

NoGraph == Def(<<>>, <<>>, NoTemplates, "fail_fast")
NoRun == R!CreateRun(Retries)

Init ==
    /\ part \in Parts
    /\ PageInit
    /\ graph = NoGraph
    /\ IF part = "run" THEN R!Init ELSE def = Retries /\ x = NoRun

PickGraph ==
    /\ part = "graphs" /\ graph = NoGraph
    /\ graph' \in Graphs
    /\ UNCHANGED <<def, x>>

Next ==
    \/ PageNext /\ UNCHANGED <<part, growthVars>>
    \/ part = "run" /\ R!Next /\ UNCHANGED <<part, graph, pageVars>>
    \/ PickGraph /\ UNCHANGED <<part, pageVars>>

Spec == Init /\ [][Next]_vars

-----------------------------------------------------------------------------

\* See module Expansion: remaining_deps and fired_deps count the in-edges.
DepsExact == part = "run" => R!DepsExact
\* See module Expansion: the counters mirror dag.ReadySteps on the grown graph.
MirrorsReadySteps == part = "run" => R!MirrorsReadySteps
\* See module Expansion: iterations are whole, bounded and before what follows.
LoopsUnrollInOrder == part = "run" => R!LoopsUnrollInOrder
\* See module Expansion: a gather has all its instances.
GatherSeesAll == part = "run" => R!GatherSeesAll
\* See module Expansion: references of a running step resolve.
RefsAvailable == part = "run" => R!RefsAvailable
\* See module Expansion: one version per expanding step.
ExpandsOnce == part = "run" => R!ExpandsOnce
\* See module Expansion: no committed expansion crosses a cap.
CapsHold == part = "run" => R!CapsHold
\* See module Expansion: the engine's own deltas are valid.
EngineDeltasAccepted == part = "run" => R!EngineDeltasAccepted
\* See module Expansion: a run that has not ended has a step that will move it.
NeverStalled == part = "run" => R!NeverStalled

\* The steps reached from s by at least one of the edges: those of every set that
\* holds its successors and is closed.
Reached(edges, s) ==
    LET S == StepIds(graph)
        next(T) == {graph.edges[i].to : i \in {j \in edges : graph.edges[j].from \in T}}
    IN  {t \in S : \A Z \in SUBSET S : (next({s}) \subseteq Z /\ next(Z) \subseteq Z) => t \in Z}

Normal == {i \in DOMAIN graph.edges : ~graph.edges[i].loop}

\* graph.go against reachability along the normal edges: Kahn's order is
\* complete, and the coloured search finds nothing, exactly when no step reaches
\* itself; an order respects every edge; ancestors, descendants and reachability
\* are the closure's; every finding is a closed path of real edges, and without
\* the edges found nothing cyclic is left.
AlgorithmsAgree ==
    LET S == StepIds(graph)
        C == [s \in S |-> Reached(Normal, s)]
        acyclic == \A s \in S : s \notin C[s]
        order == topoOrder(graph)
        place(s) == CHOOSE i \in DOMAIN order : order[i] = s
        found == findCycles(graph)
        rest == Normal \ {found[i].edge : i \in DOMAIN found}
    IN  part = "graphs" =>
            /\ TopoComplete(graph) <=> acyclic
            /\ found = <<>> <=> acyclic
            /\ acyclic => \A i \in Normal : place(graph.edges[i].from) < place(graph.edges[i].to)
            /\ \A s \in S : /\ Ancestors(graph, s) = {t \in S : s \in C[t]}
                            /\ Descendants(graph, s) = C[s]
                            /\ \A t \in S : reaches(graph, s, t) <=> t \in C[s]
            /\ \A i \in DOMAIN found :
                  LET p == found[i].path
                  IN  /\ p[1] = Last(p)
                      /\ \A j \in 1 .. Len(p) - 1 : \E e \in Normal :
                            graph.edges[e].from = p[j] /\ graph.edges[e].to = p[j + 1]
            /\ \A s \in S : s \notin Reached(rest, s)

\* What Validate accepts can be run: completing what ReadySteps returns, round by
\* round, ends with every step, each after all its predecessors; and the target of
\* an accepted loop edge leads to its source.
AcceptedDrains ==
    LET round(done) == ReadySteps(graph, done, {}, {}).ready
        after[n \in 0 .. Len(graph.steps)] ==
            IF n = 0 THEN {} ELSE after[n - 1] \cup round(after[n - 1])
    IN  (part = "graphs" /\ Validate(graph) = {}) =>
            /\ after[Len(graph.steps)] = StepIds(graph)
            /\ \A n \in 1 .. Len(graph.steps) : \A i \in Normal :
                  graph.edges[i].to \in after[n] => graph.edges[i].from \in after[n - 1]
            /\ \A i \in DOMAIN graph.edges \ Normal :
                  graph.edges[i].from \in Reached(Normal, graph.edges[i].to)

\* A graph grows soundly inside its run: counters stay those of the grown graph and
\* mirror ReadySteps, each expansion commits once and within the caps, the engine's
\* own deltas are valid, iterations, instances and references come in order, and a
\* run that has not ended has a step that will move it.
GrowthSound ==
    /\ DepsExact /\ MirrorsReadySteps /\ ExpandsOnce /\ CapsHold /\ EngineDeltasAccepted
    /\ LoopsUnrollInOrder /\ GatherSeesAll /\ RefsAvailable /\ NeverStalled

\* The algorithms of internal/dag compute what they stand for, on every small graph.
GraphsJudged == AlgorithmsAgree /\ AcceptedDrains

\* The rows that a transaction's statements leave behind: attempts and approvals agree
\* with the steps, the holder meets no conflict, and no rollup is missed.
RowsAgree == LedgerMatches /\ HolderNeverRefused /\ RowsNeverStall

\* A page that has heard every event shows run, steps and approvals as they are.
PageHeals == ViewHeals /\ ApprovalsHeal
=============================================================================
