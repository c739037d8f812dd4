---------------------------- MODULE Definition ----------------------------
(***************************************************************************)
(* Workflow definitions (internal/dag): the graph algorithms, the rules a  *)
(* definition must pass, and the deltas that grow a running graph.  All of *)
(* it is pure; module Expansion runs it.                                   *)
(*                                                                         *)
(* A step id is a sequence: <<"w">> is authored, <<"w", 2>> is the         *)
(* instance the source writes w#2, and <<"m", Gather>> is m#gather.  A     *)
(* definition is [steps, edges, templates, caps, onFailure]; a graph, a    *)
(* template and a plan are [steps, edges].                                 *)
(*   step [id, type, any (join mode any), body and collect (map),          *)
(*         added (planner max_added_steps, 0 when absent),                 *)
(*         refs (the steps its strict template references name)]           *)
(*   edge [from, to, loop, when (has a predicate), max, fail (on_exhausted *)
(*         fail), guard (no_progress: "none", "proceed" or "fail"),        *)
(*         watch (no_progress.step, << >> when absent)]                    *)
(***************************************************************************)
EXTENDS Integers, Sequences, FiniteSets, SequencesExt, TLC

Gather == -1
Item == <<"item">> \* the reference ${{ item }} of a template step
StepTypes == {"noop", "branch", "join", "planner", "map", "gather"}
MaxLoopIterations == 100

instanceID(id, k) == Append(id, k)
MapGatherID(id) == Append(id, Gather)
authoredStepID(id) == <<Head(id)>>
loopIteration(id) == IF Len(id) = 1 \/ Last(id) = Gather THEN 0 ELSE Last(id)
IsAuthored(id) == Len(id) = 1

StepIds(g) == {g.steps[i].id : i \in DOMAIN g.steps}
StepOf(g, s) == SelectSeq(g.steps, LAMBDA x : x.id = s)[1]
EdgesWhere(g, Test(_)) == SelectSeq([i \in DOMAIN g.edges |-> i], LAMBDA i : Test(g.edges[i]))
outNormal(g, s) == EdgesWhere(g, LAMBDA e : ~e.loop /\ e.from = s)
inNormal(g, s) == EdgesWhere(g, LAMBDA e : ~e.loop /\ e.to = s)
loopEdges(g) == EdgesWhere(g, LAMBDA e : e.loop)

UniqueIds(g) == Cardinality(StepIds(g)) = Len(g.steps)
NewGraph(g) == /\ UniqueIds(g)
               /\ \A i \in DOMAIN g.edges : {g.edges[i].from, g.edges[i].to} \subseteq StepIds(g)

-----------------------------------------------------------------------------
(* Graph algorithms (graph.go, ready.go), on the normal edges.             *)

Relax(g, acc, e) ==
    LET t == g.edges[e].to
        left == [acc.left EXCEPT ![t] = @ - 1]
    IN  [left |-> left, queue |-> IF left[t] = 0 THEN Append(acc.queue, t) ELSE acc.queue]

RECURSIVE Kahn(_, _, _)
Kahn(g, acc, order) ==
    IF acc.queue = <<>> THEN order
    ELSE LET s == Head(acc.queue)
             popped == [acc EXCEPT !.queue = Tail(@)]
         IN  Kahn(g, FoldLeft(LAMBDA a, e : Relax(g, a, e), popped, outNormal(g, s)),
                  Append(order, s))

topoOrder(g) ==
    LET left == [s \in StepIds(g) |-> Len(inNormal(g, s))]
        ids == [i \in DOMAIN g.steps |-> g.steps[i].id]
    IN  Kahn(g, [left |-> left, queue |-> SelectSeq(ids, LAMBDA s : left[s] = 0)], <<>>)

TopoComplete(g) == Len(topoOrder(g)) = Len(g.steps)

\* Breadth first from s, backwards along the edges or forwards.
Neighbours(g, s, back) ==
    {IF back THEN g.edges[e].from ELSE g.edges[e].to :
        e \in Range(IF back THEN inNormal(g, s) ELSE outNormal(g, s))}

RECURSIVE Visit(_, _, _, _)
Visit(g, back, frontier, visited) ==
    LET new == UNION {Neighbours(g, s, back) : s \in frontier} \ visited
    IN  IF new = {} THEN visited ELSE Visit(g, back, new, visited \cup new)

Ancestors(g, s) == Visit(g, TRUE, {s}, {})
Descendants(g, s) == Visit(g, FALSE, {s}, {})

reaches(g, from, to) == to \in Visit(g, FALSE, {from}, {})

\* The three-colour search with its explicit stack: one finding per back edge.
RECURSIVE Search(_, _, _, _)
Search(g, color, stack, found) ==
    IF stack = <<>> THEN
        LET white == SelectSeq(g.steps, LAMBDA s : color[s.id] = "white")
        IN  IF white = <<>> THEN found
            ELSE Search(g, [color EXCEPT ![white[1].id] = "gray"],
                        <<[step |-> white[1].id, next |-> 1]>>, found)
    ELSE LET top == Last(stack)
             out == outNormal(g, top.step)
             bumped == [stack EXCEPT ![Len(stack)].next = @ + 1]
         IN  IF top.next > Len(out)
             THEN Search(g, [color EXCEPT ![top.step] = "black"], Front(stack), found)
             ELSE LET e == out[top.next]
                      t == g.edges[e].to
                      at == CHOOSE i \in DOMAIN stack : stack[i].step = t
                  IN  CASE color[t] = "white" ->
                             Search(g, [color EXCEPT ![t] = "gray"],
                                    Append(bumped, [step |-> t, next |-> 1]), found)
                        [] color[t] = "gray" ->
                             Search(g, color, bumped,
                                    Append(found, [edge |-> e,
                                      path |-> [i \in 1..(Len(stack) - at + 1) |->
                                                    stack[at + i - 1].step] \o <<t>>]))
                        [] OTHER -> Search(g, color, bumped, found)

findCycles(g) == Search(g, [s \in StepIds(g) |-> "white"], <<>>, <<>>)

\* A step's state from the three input sets; edges resolve from their source.
inputStates(g, completed, skipped, failed) ==
    [s \in StepIds(g) |-> IF s \in completed THEN "completed" ELSE IF s \in skipped THEN "skipped"
                          ELSE IF s \in failed THEN "failed" ELSE "pending"]

AllSkipped(g, states, s) ==
    /\ inNormal(g, s) # <<>>
    /\ \A e \in Range(inNormal(g, s)) : states[g.edges[e].from] = "skipped"

\* Skip propagation in topological order, one pass.
propagate(g, states) ==
    FoldLeft(LAMBDA st, s : IF st[s] = "pending" /\ AllSkipped(g, st, s)
                            THEN [st EXCEPT ![s] = "skipped"] ELSE st,
             states, topoOrder(g))

joinAny(step) == step.type = "join" /\ step.any

isReady(g, states, s) ==
    LET parents == {states[g.edges[e].from] : e \in Range(inNormal(g, s.id))}
    IN  /\ states[s.id] = "pending"
        /\ \/ parents = {}
           \/ "completed" \in parents /\ (joinAny(s) \/ parents \subseteq {"completed", "skipped"})

\* ready and newlySkipped.
ReadySteps(g, completed, skipped, failed) ==
    LET given == inputStates(g, completed, skipped, failed)
        states == propagate(g, given)
    IN  [ready |-> {g.steps[i].id : i \in {j \in DOMAIN g.steps : isReady(g, states, g.steps[j])}},
         skipped |-> {s \in StepIds(g) : given[s] = "pending" /\ states[s] = "skipped"}]

-----------------------------------------------------------------------------
(* Validate (validate.go, mapvalidate.go): the codes of the errors found.  *)

Codes(c, bad) == IF bad THEN {c} ELSE {}

checkSteps(d) ==
    Codes("no_steps", d.steps = <<>>)
    \cup Codes("invalid_step_id", \E s \in StepIds(d) : ~IsAuthored(s))
    \cup Codes("duplicate_step_id", ~UniqueIds(d))
    \cup Codes("unknown_step_type", \E i \in DOMAIN d.steps : d.steps[i].type \notin StepTypes)

checkExpansion(d) ==
    Codes("expansion_field_invalid",
          \/ \E c \in {d.caps.added, d.caps.total, d.caps.expansions, d.caps.depth} : c < 1
          \/ d.caps.added > d.caps.total)
    \cup Codes("config_field_invalid", \E i \in DOMAIN d.steps :
          d.steps[i].type = "planner" /\ d.steps[i].added > d.caps.added)

\* The field rules of an edge, the same for authored and injected ones.
checkEdgeFields(e) ==
    IF e.loop
    THEN Codes("loop_field_forbidden", e.when)
         \cup Codes("loop_field_required", e.max = 0)
         \cup Codes("limit_exceeded", e.max < 0 \/ e.max > MaxLoopIterations)
    ELSE Codes("loop_field_forbidden", e.max # 0 \/ e.fail \/ e.guard # "none")

checkEdges(d) ==
    UNION {Codes("unknown_edge_endpoint", ~({d.edges[i].from, d.edges[i].to} \subseteq StepIds(d)))
           \cup checkEdgeFields(d.edges[i]) : i \in DOMAIN d.edges}

checkGraph(d) ==
    LET known(e) == {e.from, e.to} \subseteq StepIds(d)
        entry(s) == ~\E i \in DOMAIN d.edges : /\ ~d.edges[i].loop /\ known(d.edges[i])
                                              /\ d.edges[i].to = s
        branches == {i \in DOMAIN d.steps : d.steps[i].type = "branch"}
        outs(i) == outNormal(d, d.steps[i].id)
    IN  IF d.steps = <<>> THEN {}
        ELSE Codes("no_entry_step", \A s \in StepIds(d) : ~entry(s))
             \cup Codes("branch_no_out_edges", \E i \in branches : outs(i) = <<>>)
             \cup Codes("branch_edge_unconditioned", \E i \in branches :
                            \E p \in 1..(Len(outs(i)) - 1) : ~d.edges[outs(i)[p]].when)

\* The normal-edge span from the loop's target to its source.
loopBody(g, e) ==
    {e.from, e.to} \cup {s \in Descendants(g, e.to) : s \in Ancestors(g, e.from)}

\* Fault: the ancestry of a loop edge is not checked.
CyclesOnly(g) == Codes("cycle", findCycles(g) # <<>>)

checkCycles(g) ==
    Codes("cycle", findCycles(g) # <<>>)
    \cup Codes("loop_edge_not_ancestor", \E i \in Range(loopEdges(g)) :
                   ~reaches(g, g.edges[i].to, g.edges[i].from))

checkGraphSemantics(d) ==
    checkCycles(d)
    \cup Codes("config_field_invalid", \E i \in Range(loopEdges(d)) :
            LET e == d.edges[i]
            IN  /\ reaches(d, e.to, e.from)
                /\ e.watch # <<>>
                /\ e.watch \notin loopBody(d, e))

\* A reference must name a strict normal-edge ancestor.
classifyUpstreamRef(g, s, r) ==
    IF r \notin StepIds(g) THEN "template_ref_unknown_step"
    ELSE IF r = s \/ r \notin Ancestors(g, s) THEN "template_ref_not_upstream" ELSE "ok"

checkTemplates(d) ==
    UNION {UNION {IF r = Item THEN {"template_ref_invalid"}
                  ELSE {classifyUpstreamRef(d, s.id, r)} \ {"ok"} : r \in s.refs} :
             s \in Range(d.steps)}

checkTemplateGraph(t) ==
    checkCycles(t)
    \cup Codes("template_section_invalid",
               Cardinality({s \in StepIds(t) : outNormal(t, s) = <<>>}) # 1)
    \cup UNION {{classifyUpstreamRef(t, s.id, r) : r \in s.refs \ {Item}} \ {"ok"} :
                   s \in Range(t.steps)}

checkTemplateSection(d) ==
    UNION {LET t == d.templates[n]
           IN  IF t.steps = <<>> THEN {"template_section_invalid"}
               ELSE checkSteps(t)
                    \cup Codes("template_section_invalid", \E s \in Range(t.steps) :
                                   s.type \in {"map", "gather"})
                    \cup checkEdges(t)
                    \cup (IF NewGraph(t) THEN checkTemplateGraph(t) ELSE {}) :
             n \in DOMAIN d.templates}

checkMaps(d) ==
    UNION {IF m.body \notin DOMAIN d.templates THEN {"map_body_unknown"}
           ELSE Codes("config_field_invalid", m.collect /\ Len(d.templates[m.body].steps) > 1) :
             m \in {s \in Range(d.steps) : s.type = "map"}}

Validate(d) ==
    checkExpansion(d) \cup checkSteps(d) \cup checkEdges(d) \cup checkGraph(d)
    \cup checkTemplateSection(d) \cup checkMaps(d)
    \cup (IF NewGraph(d) THEN checkGraphSemantics(d) \cup checkTemplates(d) ELSE {})

-----------------------------------------------------------------------------
(* The deltas the engine generates (mapexpand.go, loopexpand.go).          *)

NormalEdge(from, to) == [from |-> from, to |-> to, loop |-> FALSE, when |-> FALSE,
                         max |-> 0, fail |-> FALSE, guard |-> "none", watch |-> <<>>]

\* Steps without a normal in-edge, and the step without a normal out-edge.
templateFrontier(t) ==
    [entries |-> SelectSeq([i \in DOMAIN t.steps |-> t.steps[i].id],
                           LAMBDA s : inNormal(t, s) = <<>>),
     sink |-> CHOOSE s \in StepIds(t) : outNormal(t, s) = <<>>]

rewriteInstanceStep(s, m, k) ==
    [s EXCEPT !.id = instanceID(s.id, k),
              !.refs = {IF r = Item THEN m ELSE instanceID(r, k) : r \in s.refs}]

\* The instances 0..n-1 of the body, each after the map step, and the gather
\* after the sinks.
GenerateMapExpansion(t, n, m) ==
    LET fr == templateFrontier(t)
        internal(k) == [i \in DOMAIN t.edges |->
                          [t.edges[i] EXCEPT !.from = instanceID(@, k), !.to = instanceID(@, k),
                                             !.fail = FALSE, !.guard = "none", !.watch = <<>>]]
        after(k) == [i \in DOMAIN fr.entries |-> NormalEdge(m, instanceID(fr.entries[i], k))]
        splice(k) == <<NormalEdge(instanceID(fr.sink, k), MapGatherID(m))>>
        sinks == {instanceID(fr.sink, k) : k \in 0..(n - 1)}
        join == [id |-> MapGatherID(m), type |-> "gather", any |-> FALSE, body |-> "",
                 collect |-> FALSE, added |-> 0, refs |-> sinks]
        body(k) == [i \in DOMAIN t.steps |-> rewriteInstanceStep(t.steps[i], m, k)]
    IN  [steps |-> FlattenSeq([k \in 1..n |-> body(k - 1)]) \o <<join>>,
         edges |-> FlattenSeq([k \in 1..n |->
                       internal(k - 1) \o after(k - 1) \o splice(k - 1)])]

loopEntries(d, body) ==
    SelectSeq([i \in DOMAIN d.steps |-> d.steps[i].id],
              LAMBDA s : /\ s \in body
                         /\ \A e \in Range(inNormal(d, s)) : d.edges[e].from \notin body)

rewriteLoopBodyStep(s, body, k) ==
    [s EXCEPT !.id = instanceID(s.id, k),
              !.refs = {IF r \in body THEN instanceID(r, k) ELSE r : r \in s.refs}]

\* Only the source of a loop may leave its body; GenerateLoopExpansion is an
\* error otherwise.
LoopExitsAtSource(d, e) ==
    \A i \in DOMAIN d.edges :
        LET x == d.edges[i]
        IN  (~x.loop /\ x.from \in loopBody(d, e) \ {e.from}) => x.to \in loopBody(d, e)

\* Iteration k: the body's steps and edges with the suffix k, after the
\* completing instance, and before the steps the loop source leads to.
GenerateLoopExpansion(d, e, current, k) ==
    LET body == loopBody(d, e)
        inner == EdgesWhere(d, LAMBDA x : ~x.loop /\ {x.from, x.to} \subseteq body)
        exits == EdgesWhere(d, LAMBDA x : ~x.loop /\ x.from = e.from /\ x.to \notin body)
        members == SelectSeq(d.steps, LAMBDA s : s.id \in body)
        entries == loopEntries(d, body)
    IN  [steps |-> [i \in DOMAIN members |-> rewriteLoopBodyStep(members[i], body, k)],
         edges |-> [i \in DOMAIN inner |->
                      [d.edges[inner[i]] EXCEPT !.from = instanceID(@, k), !.to = instanceID(@, k)]]
                   \o [i \in DOMAIN entries |-> NormalEdge(current, instanceID(entries[i], k))]
                   \o [i \in DOMAIN exits |->
                         [d.edges[exits[i]] EXCEPT !.from = instanceID(@, k)]]]

-----------------------------------------------------------------------------
(* ValidateExpansion (expansion.go).  in is [plan, kind, depth, existing   *)
(* (step -> anchor status), sorted (the existing ids in string order),     *)
(* succeeded, types, edges, perCap, caps, count, expansions].              *)

\* The caps crossed, by name.
CapBreaches(in) ==
    LET n == Len(in.plan.steps)
    IN  Codes("max_added_steps", in.perCap > 0 /\ n > in.perCap)
        \cup Codes("max_total_steps", in.count + n > in.caps.total)
        \cup Codes("max_expansions", in.expansions + 1 > in.caps.expansions)
        \cup Codes("max_depth", in.depth + 1 > in.caps.depth)

checkPlanSteps(in) ==
    Codes("expansion_field_invalid", in.plan.steps = <<>>)
    \cup Codes("invalid_step_id", in.kind = "planner"
                  /\ \E s \in StepIds(in.plan) : ~IsAuthored(s))
    \cup Codes("expansion_anchor_invalid", StepIds(in.plan) \cap DOMAIN in.existing # {})
    \cup Codes("duplicate_step_id", ~UniqueIds(in.plan))
    \cup Codes("unknown_step_type", \E s \in Range(in.plan.steps) : s.type \notin StepTypes)

\* Endpoints, the additive-only rule and the anchors: an edge may leave an
\* existing step until it is terminal, and enter one only while it is pending.
checkPlanEdge(in, e) ==
    LET new == StepIds(in.plan)
        old == DOMAIN in.existing
    IN  Codes("unknown_edge_endpoint", ~({e.from, e.to} \subseteq new \cup old))
        \cup Codes("expansion_anchor_invalid",
               \/ {e.from, e.to} \subseteq old \ new
               \/ e.from \in old \ new /\ in.existing[e.from] = "terminal"
               \/ e.to \in old \ new /\ in.existing[e.to] # "pending")
        \cup checkEdgeFields(e)

\* The order of two ids as strings: names holds the authored ones in order, and
\* a suffix of one digit comes before "gather".
IdLess(names, a, b) ==
    LET rank(id, i) == IF i = 1 THEN CHOOSE n \in DOMAIN names : names[n] = id[1]
                       ELSE IF id[i] = Gather THEN 10 ELSE id[i]
        same(i) == i <= Len(a) /\ i <= Len(b) /\ rank(a, i) = rank(b, i)
        n == CHOOSE i \in 1..(Len(a) + 1) : ~same(i) /\ \A j \in 1..(i - 1) : same(j)
    IN  n <= Len(b) /\ (n > Len(a) \/ rank(a, n) < rank(b, n))

\* Existing steps sorted by id, then the plan's; likewise edges.
buildMergedGraph(in) ==
    [steps |-> [i \in DOMAIN in.sorted |-> [id |-> in.sorted[i], type |-> in.types[in.sorted[i]]]]
               \o [i \in DOMAIN in.plan.steps |->
                     [id |-> in.plan.steps[i].id, type |-> in.plan.steps[i].type]],
     edges |-> in.edges \o in.plan.edges]

checkMergedGraph(in, g) ==
    LET new == StepIds(in.plan)
        touches(e) == e.from \in new \/ e.to \in new
        found == findCycles(g)
    IN  Codes("cycle", \E i \in DOMAIN found : touches(g.edges[found[i].edge]))
        \cup Codes("loop_edge_not_ancestor", \E i \in Range(loopEdges(in.plan)) :
                ~reaches(g, in.plan.edges[i].to, in.plan.edges[i].from))

\* An injected step may also reference an existing step that has succeeded.
checkExpansionRefs(in, g) ==
    UNION {{classifyUpstreamRef(g, s.id, r) :
               r \in {x \in s.refs : ~(x \in in.succeeded /\ x # s.id)}} \ {"ok"} :
              s \in Range(in.plan.steps)}

ValidateExpansion(in) ==
    LET shape == checkPlanSteps(in) \cup UNION {checkPlanEdge(in, e) : e \in Range(in.plan.edges)}
        g == buildMergedGraph(in)
        gate == {"duplicate_step_id", "unknown_edge_endpoint",
                 "expansion_anchor_invalid", "invalid_step_id"}
    IN  [breaches |-> CapBreaches(in),
         issues |-> shape \cup (IF shape \cap gate # {} THEN {}
                                ELSE checkMergedGraph(in, g) \cup checkExpansionRefs(in, g))]
=============================================================================
