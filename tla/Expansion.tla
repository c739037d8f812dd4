----------------------------- MODULE Expansion -----------------------------
(***************************************************************************)
(* A run whose graph grows.  A planner's plan, a map's fan-out and the     *)
(* next iteration of a loop are deltas of steps and edges that             *)
(* completeSuccess (internal/engine/complete.go) hands to ExpandRun        *)
(* (internal/store/expand.go) inside the completion's transaction: after   *)
(* the step's success, before its fan-out.  The definition and the deltas  *)
(* are module Definition's.                                                *)
(*                                                                         *)
(* Each completion is one transaction under the run lock, so one step      *)
(* here.  Deliveries, claims by identity and mechanical retries are        *)
(* modules Dispatch and RunGraph; here a running step is held by a worker  *)
(* until it completes or its completion is given up.                       *)
(***************************************************************************)
EXTENDS Definition

CONSTANTS
    Definitions, \* the workflow definitions submitted
    Names,       \* the authored step names, in string order
    Plans,       \* what a planner may answer when it decodes: [steps, edges]
    MaxItems,    \* bound: the length of the list a map resolves
    MaxSemantic  \* validation.max_semantic_attempts of a planner

VARIABLES
    def, \* runs.definition, the snapshot
    x    \* the run's rows

vars == <<def, x>>

Settled == {"succeeded", "skipped", "dead_lettered", "cancelled", "collected"}

NewRow(status, remaining, version, depth, kind, origin) ==
    [status |-> status, remaining |-> remaining, fired |-> 0, version |-> version,
     depth |-> depth, kind |-> kind, origin |-> origin, held |-> FALSE, failures |-> 0,
     items |-> 0, error |-> "none"]

\* CreateRun: the entry steps are those of ReadySteps on nothing.
CreateRun(d) ==
    LET entry == ReadySteps(d, {}, {}, {}).ready
    IN  [run |-> "running", version |-> 1, total |-> Len(d.steps),
         steps |-> d.steps, edges |-> d.edges,
         res |-> [i \in DOMAIN d.edges |-> "unresolved"],
         row |-> [s \in StepIds(d) |->
                    NewRow(IF s \in entry THEN "ready" ELSE "pending",
                           Len(inNormal(d, s)), 1, 0, "none", <<>>)]]

Init == /\ def \in {d \in Definitions : Validate(d) = {}}
        /\ x = CreateRun(def)

Ids(r) == DOMAIN r.row
In(r, T) == {s \in Ids(r) : r.row[s].status \in T}
SetStatus(r, S, status) ==
    [r EXCEPT !.row = [s \in Ids(r) |-> IF s \in S THEN [r.row[s] EXCEPT !.status = status]
                                        ELSE r.row[s]]]

-----------------------------------------------------------------------------
(* Fan-out, rollups and the disposition of a dead letter.                  *)

\* The verdicts of the normal out-edges, in ordinal order; truth holds those whose
\* predicate is true.  A branch fires its first match only.
planEdges(r, s, truth) ==
    LET out == outNormal(r, s)
        matches(i) == ~r.edges[out[i]].when \/ out[i] \in truth
        first(i) == StepOf(r, s).type # "branch" \/ \A j \in 1 .. i - 1 : ~matches(j)
    IN  [i \in DOMAIN out |-> [edge |-> out[i], fires |-> matches(i) /\ first(i)]]

allSkippedVerdicts(r, s) ==
    LET out == outNormal(r, s)
    IN  [i \in DOMAIN out |-> [edge |-> out[i], fires |-> FALSE]]

ResolveEdge(r, v) ==
    LET t == r.edges[v.edge].to
    IN  [r EXCEPT !.res[v.edge] = IF v.fires THEN "fired" ELSE "skipped",
                  !.row[t].remaining = @ - 1,
                  !.row[t].fired = IF v.fires THEN @ + 1 ELSE @]

Readies(step, row) == row.fired >= 1 /\ (row.remaining = 0 \/ joinAny(step))

RECURSIVE fanOut(_, _)
fanOut(r, work) ==
    IF work = <<>> THEN r
    ELSE LET v == Head(work)
             t == r.edges[v.edge].to
             y == ResolveEdge(r, v)
             row == y.row[t]
         IN  IF r.res[v.edge] # "unresolved" THEN fanOut(r, Tail(work))
             ELSE IF row.status # "pending" THEN fanOut(y, Tail(work))
             ELSE IF Readies(StepOf(r, t), row)
                  THEN fanOut([y EXCEPT !.row[t].status = "ready"], Tail(work))
             ELSE IF row.remaining = 0
                  THEN fanOut([y EXCEPT !.row[t].status = "skipped"],
                              Tail(work) \o allSkippedVerdicts(r, t))
             ELSE fanOut(y, Tail(work))

All(r, T) == \A s \in Ids(r) : r.row[s].status \in T
Open(r) == r.run \in {"running", "parked"}

FailRunRollup(r) == IF Open(r) /\ In(r, {"dead_lettered"}) # {} /\ All(r, Settled)
                    THEN [r EXCEPT !.run = "failed"] ELSE r

attemptCancelRollup(r) == IF r.run = "cancelling" /\ All(r, Settled)
                          THEN [r EXCEPT !.run = "cancelled"] ELSE r

attemptRunRollup(r) ==
    IF Open(r) /\ All(r, {"succeeded", "skipped", "collected"})
    THEN [r EXCEPT !.run = "succeeded"]
    ELSE attemptCancelRollup(FailRunRollup(r))

\* The pending steps that can no longer become ready, round by round.
RECURSIVE planWriteOff(_, _)
planWriteOff(r, blocked) ==
    LET waits(t) == {r.edges[e].from : e \in {i \in Range(inNormal(r, t)) : r.res[i] = "unresolved"}}
        lost(t) == IF joinAny(StepOf(r, t))
                   THEN r.row[t].fired = 0 /\ waits(t) # {} /\ waits(t) \subseteq blocked
                   ELSE waits(t) \cap blocked # {}
        new == {t \in In(r, {"pending"}) \ blocked : lost(t)}
    IN  IF new = {} THEN blocked \cap In(r, {"pending"}) ELSE planWriteOff(r, blocked \cup new)

deadLetterDisposition(r) ==
    IF def.onFailure = "fail_fast"
    THEN IF Open(r) THEN [r EXCEPT !.run = "failed"] ELSE r
    ELSE FailRunRollup(SetStatus(r, planWriteOff(r, In(r, {"dead_lettered", "cancelled"})),
                                 "cancelled"))

-----------------------------------------------------------------------------
(* Completions.                                                            *)

Released(r, s, status) == [r EXCEPT !.row[s].status = status, !.row[s].held = FALSE]

\* Origin kind map, and the origin's config says collect_errors.
isCollectErrorsInstance(r, s) ==
    r.row[s].kind = "map" /\ StepOf(r, r.row[s].origin).collect

completeFailure(r, s, error) ==
    LET died == [Released(r, s, "dead_lettered") EXCEPT !.row[s].error = error]
    IN  IF r.run = "cancelling" THEN attemptCancelRollup(Released(r, s, "cancelled"))
        ELSE IF isCollectErrorsInstance(r, s)
        THEN attemptRunRollup(fanOut(Released(r, s, "collected"), planEdges(r, s, {})))
        ELSE deadLetterDisposition(died)

completeValidationFailure(r, s) ==
    LET again == [Released(r, s, "retrying") EXCEPT !.row[s].failures = @ + 1]
        died == [Released(r, s, "dead_lettered") EXCEPT !.row[s].error = "validation_failed"]
    IN  IF r.run = "cancelling" THEN attemptCancelRollup(Released(r, s, "cancelled"))
        ELSE IF r.row[s].failures + 1 < MaxSemantic THEN again
        ELSE deadLetterDisposition(died)

\* What a completion does besides succeeding.
Nothing == [do |-> "nothing"]
Expands(kind, plan, depth) == [do |-> "expand", kind |-> kind, plan |-> plan, depth |-> depth]
Fails(error) == [do |-> "fail", error |-> error]

planFromOutput(r, s, answer) ==
    IF answer.steps = <<>> THEN Nothing
    ELSE Expands("planner", answer, r.row[s].depth)

Undecodable == [do |-> "retry"]

mapPlanFromOutput(r, s, n) ==
    Expands("map", GenerateMapExpansion(def.templates[StepOf(r, s).body], n, s), r.row[s].depth)

loopAuthoredDepth(r, s) == IF r.row[s].kind = "loop" THEN r.row[s].depth - 1 ELSE r.row[s].depth

findLoopEdge(id) == EdgesWhere(def, LAMBDA e : e.loop /\ e.from = id)

\* The condition, then max_iterations, then the no-progress guard (same: this
\* iteration's output is the last one's), then the next iteration.
loopDecision(r, s, iterate, same) ==
    LET e == def.edges[findLoopEdge(authoredStepID(s))[1]]
        k == loopIteration(s)
    IN  IF ~iterate THEN Nothing
        ELSE IF k >= e.max THEN IF e.fail THEN Fails("loop_exhausted") ELSE Nothing
        ELSE IF e.guard # "none" /\ k >= 1 /\ same
             THEN IF e.guard = "fail" THEN Fails("loop_no_progress") ELSE Nothing
        ELSE IF ~LoopExitsAtSource(def, e) THEN Fails("loop_body_leaves")
        ELSE Expands("loop", GenerateLoopExpansion(def, e, s, k + 1), loopAuthoredDepth(r, s))

Decisions(r, s) ==
    LET type == StepOf(r, s).type
    IN  IF type = "planner" THEN {Undecodable} \cup {planFromOutput(r, s, a) : a \in Plans}
        ELSE IF type = "map" THEN {mapPlanFromOutput(r, s, n) : n \in 0 .. MaxItems}
        ELSE IF findLoopEdge(authoredStepID(s)) = <<>> THEN {Nothing}
        ELSE {loopDecision(r, s, b, c) : b \in BOOLEAN, c \in BOOLEAN}

anchorStatus(status) ==
    CASE status = "pending" -> "pending"
      [] status \in {"ready", "running", "retrying"} -> "active"
      [] OTHER -> "terminal"

\* The origin has succeeded, but its out-edges are still to be resolved.
buildAnchors(r, s) ==
    [t \in Ids(r) |-> IF t = s THEN "active" ELSE anchorStatus(r.row[t].status)]

ExpansionInput(r, s, dec) ==
    LET own == IF dec.kind = "planner" THEN StepOf(r, s).added ELSE 0
    IN  [plan |-> dec.plan, kind |-> dec.kind, depth |-> dec.depth,
         existing |-> buildAnchors(r, s),
         sorted |-> SortSeq([i \in DOMAIN r.steps |-> r.steps[i].id],
                            LAMBDA a, b : IdLess(Names, a, b)),
         succeeded |-> In(r, {"succeeded"}),
         types |-> [t \in Ids(r) |-> StepOf(r, t).type], edges |-> r.edges,
         perCap |-> IF own > 0 /\ own < def.caps.added THEN own ELSE def.caps.added,
         caps |-> def.caps, count |-> Cardinality(Ids(r)), expansions |-> r.version - 1]

\* Fault: a pending step is not widened by the edges spliced before it.
ExpandWithoutWidening(r, s, dec) ==
    LET new == StepIds(dec.plan)
        degree(t) == Len(inNormal(dec.plan, t))
        born(t) == NewRow(IF degree(t) = 0 THEN "ready" ELSE "pending", degree(t),
                          r.version + 1, dec.depth + 1, dec.kind, s)
    IN  [r EXCEPT !.version = @ + 1, !.total = @ + Len(dec.plan.steps),
                  !.steps = @ \o dec.plan.steps, !.edges = @ \o dec.plan.edges,
                  !.res = @ \o [i \in DOMAIN dec.plan.edges |-> "unresolved"],
                  !.row = [t \in Ids(r) \cup new |-> IF t \in new THEN born(t) ELSE r.row[t]]]

\* The writes of ExpandRun: the injected rows, ready when nothing precedes them,
\* the edges, the wider dependencies of the pending steps spliced before, and the
\* run's graph_version and steps_total.
ExpandRun(r, s, dec) ==
    LET new == StepIds(dec.plan)
        degree(t) == Len(inNormal(dec.plan, t))
        born(t) == NewRow(IF degree(t) = 0 THEN "ready" ELSE "pending", degree(t),
                          r.version + 1, dec.depth + 1, dec.kind, s)
        widened(t) == [r.row[t] EXCEPT !.remaining = @ + degree(t)]
    IN  [r EXCEPT !.version = @ + 1, !.total = @ + Len(dec.plan.steps),
                  !.steps = @ \o dec.plan.steps, !.edges = @ \o dec.plan.edges,
                  !.res = @ \o [i \in DOMAIN dec.plan.edges |-> "unresolved"],
                  !.row = [t \in Ids(r) \cup new |-> IF t \in new THEN born(t) ELSE widened(t)]]

\* routeExpansionRejection and routeMapRejection: caps are permanent, a planner's
\* other mistakes go back to the model, an engine-made delta's are permanent.
routeRejection(r, s, dec, verdict) ==
    IF verdict.breaches # {} THEN completeFailure(r, s, "expansion_cap_exceeded")
    ELSE IF dec.kind = "planner" THEN completeValidationFailure(r, s)
    ELSE completeFailure(r, s, IF dec.kind = "map" THEN "map_expansion_invalid"
                               ELSE "loop_expansion_invalid")

\* The transaction: success, expansion, fan-out, rollup.  On a run that is neither
\* running nor parked ExpandRun conflicts, the transaction is rolled back and the
\* entry redelivered; its claim is refused and nobody holds the step any more.
completeSuccess(r, s, dec, truth) ==
    LET done == Released(r, s, "succeeded")
        verdict == ValidateExpansion(ExpansionInput(done, s, dec))
        grown == IF dec.do = "expand"
                 THEN [ExpandRun(done, s, dec) EXCEPT !.row[s].items = Len(dec.plan.steps)]
                 ELSE done
    IN  CASE dec.do = "retry" -> completeValidationFailure(r, s)
          [] dec.do = "fail" -> completeFailure(r, s, dec.error)
          [] dec.do \in {"nothing", "expand"} /\ r.run = "cancelling" -> attemptRunRollup(done)
          [] dec.do = "expand" /\ r.run # "cancelling" /\ ~Open(r) -> [r EXCEPT !.row[s].held = FALSE]
          [] dec.do = "expand" /\ Open(r) /\ (verdict.breaches # {} \/ verdict.issues # {}) ->
                routeRejection(r, s, dec, verdict)
          [] OTHER -> attemptRunRollup(fanOut(grown, planEdges(grown, s, truth)))

-----------------------------------------------------------------------------

Claim(s) ==
    /\ x.run = "running" /\ x.row[s].status \in {"ready", "retrying"}
    /\ x' = [x EXCEPT !.row[s].status = "running", !.row[s].held = TRUE]
    /\ UNCHANGED def

Complete(s) ==
    /\ x.row[s].held
    /\ \E dec \in Decisions(x, s) :
       \E truth \in SUBSET {e \in Range(outNormal(x, s)) : x.edges[e].when} :
          x' = completeSuccess(x, s, dec, truth)
    /\ UNCHANGED def

\* A permanent failure of the executor, or of an edge predicate.
Fail(s) ==
    /\ x.row[s].held
    /\ x' = completeFailure(x, s, "permanent")
    /\ UNCHANGED def

Cancel ==
    /\ Open(x)
    /\ x' = attemptCancelRollup(
                [SetStatus(x, In(x, {"pending", "ready", "retrying"}), "cancelled")
                    EXCEPT !.run = "cancelling"])
    /\ UNCHANGED def

Next == Cancel \/ \E s \in Ids(x) : Claim(s) \/ Complete(s) \/ Fail(s)

Spec == Init /\ [][Next]_vars

-----------------------------------------------------------------------------
(* Correctness.                                                            *)

Ended == {"succeeded", "failed", "cancelled"}
Started(s) == x.row[s].status \in {"ready", "running", "retrying", "succeeded"}
Instances(id) == {s \in Ids(x) : authoredStepID(s) = id}
Loops == {def.edges[i] : i \in Range(loopEdges(def))}

\* Whatever was spliced where, in whatever order completions and expansions
\* committed, a step's remaining_deps and fired_deps are the number of its
\* unresolved and of its fired in-edges (ADR-004's bookkeeping, widened by
\* AddRunStepRemainingDeps).
DepsExact ==
    \A s \in Ids(x) :
        LET count(r) == Cardinality({e \in Range(inNormal(x, s)) : x.res[e] = r})
        IN  x.row[s].remaining = count("unresolved") /\ x.row[s].fired = count("fired")

\* "the reference implementation ADR-004's counters must mirror"
\* (store/instantiate.go): on the grown graph, where no predicate skipped an edge,
\* the steps the counters let start are those dag.ReadySteps finds ready, and
\* nothing it would skip is still pending.
MirrorsReadySteps ==
    LET done == In(x, {"succeeded", "collected"})
        reference == ReadySteps([steps |-> x.steps, edges |-> x.edges], done,
                                In(x, {"skipped"}), In(x, {"dead_lettered", "cancelled"}))
        exact == \A e \in DOMAIN x.edges :
                    x.res[e] = "skipped" => x.row[x.edges[e].from].status = "skipped"
    IN  (x.run = "running" /\ exact) =>
            /\ reference.skipped = {}
            /\ reference.ready = In(x, {"ready", "running", "retrying"})

\* Iterations are whole and bounded: every member of a loop body has the same
\* iterations, consecutive from the authored one, at most max_iterations more, all
\* at one depth; and the steps after the loop do not start while any iteration of
\* its source may still be followed by another.
LoopsUnrollInOrder ==
    \A e \in Loops :
        LET body == loopBody(def, e)
            rounds(id) == {loopIteration(s) : s \in Instances(id)}
        IN  /\ \A id \in body : rounds(id) = rounds(e.from)
            /\ \E n \in 0 .. e.max : rounds(e.from) = 0 .. n
            /\ \A s \in UNION {Instances(id) : id \in body} :
                  x.row[s].depth = IF s \in body THEN 0 ELSE 1
            /\ \A i \in Range(outNormal(def, e.from)) :
                  LET t == def.edges[i].to
                  IN  (t \notin body /\ Started(t)) =>
                          \A s \in Instances(e.from) : x.row[s].status = "succeeded"

\* A gather starts only when every instance of the map's body has settled with an
\* output, and it collects exactly the instances of its map.
GatherSeesAll ==
    \A g \in {s \in Ids(x) : ~IsAuthored(s) /\ Last(s) = Gather /\ Started(s)} :
        LET m == x.row[g].origin
            born == {s \in Ids(x) : x.row[s].origin = m /\ s # g}
        IN  /\ x.row[m].items = Cardinality(born) + 1
            /\ \A s \in born : x.row[s].status \in {"succeeded", "collected"}
            /\ StepOf(x, g).refs \subseteq born

\* A step that runs finds every step it refers to settled, with an output unless it
\* was skipped: authored, injected, instance or gather.  (No definition here has a
\* join of mode any, which may run ahead of an ancestor.)
RefsAvailable ==
    \A s \in {t \in Ids(x) : x.row[t].held} :
        \A r \in StepOf(x, s).refs : r \in Ids(x)
                                     /\ x.row[r].status \in {"succeeded", "collected", "skipped"}

\* The graph version and steps_total account for the rows; every version was made
\* by one step, which succeeded, and no step expands the run twice.
ExpandsOnce ==
    LET born(v) == {s \in Ids(x) : x.row[s].version = v}
        origins(v) == {x.row[s].origin : s \in born(v)}
    IN  /\ x.total = Cardinality(Ids(x)) /\ x.total = Len(x.steps)
        /\ \A v \in 2 .. x.version :
              /\ Cardinality(origins(v)) = 1
              /\ \A o \in origins(v) : x.row[o].status = "succeeded"
              /\ \A w \in 2 .. x.version : w # v => origins(v) \cap origins(w) = {}

\* No committed expansion crosses a cap.
CapsHold ==
    /\ x.version > 1 => x.total <= def.caps.total
    /\ x.version - 1 <= def.caps.expansions
    /\ \A s \in Ids(x) : x.row[s].depth <= def.caps.depth
    /\ \A v \in 2 .. x.version :
          Cardinality({s \in Ids(x) : x.row[s].version = v}) <= def.caps.added

\* routeMapRejection: other than by a cap, the delta of a map or a loop is rejected
\* only for "an internal bookkeeping error the pure validator caught"; there is
\* none.
EngineDeltasAccepted ==
    \A s \in Ids(x) : x.row[s].error \notin {"map_expansion_invalid", "loop_expansion_invalid"}

\* However its graph grew, a run that has not ended has a step a worker holds or
\* may claim: spliced steps get all their dependencies, rejected plans are retried
\* or written off.  Steps only move forward and loops are bounded, so the run ends.
NeverStalled == x.run \notin Ended => \E s \in Ids(x) :
                    \/ x.row[s].held
                    \/ x.run = "running" /\ x.row[s].status \in {"ready", "retrying"}
=============================================================================
