---------------------------- MODULE Transitions ----------------------------
(***************************************************************************)
(* The transactions of a run, statement by statement.  internal/store      *)
(* writes a run through single UPDATE ... WHERE ... RETURNING statements,  *)
(* each a compare-and-swap that matches one row or none; a transition of   *)
(* transitions.go adds the attempt row, the run aggregates and the event;  *)
(* internal/engine composes transitions into a transaction, which the run  *)
(* row lock serialises with every other one.                               *)
(*                                                                         *)
(* Every operator here takes the rows of the run and returns the SET of    *)
(* rows it may leave: {} is the typed conflict that rolls the transaction  *)
(* back.  Module RunPage turns the transactions into actions.              *)
(***************************************************************************)
EXTENDS Integers, Sequences, FiniteSets, FiniteSetsExt, SequencesExt

CONSTANTS
    Steps, Edges, Src, Dst, Conditional, Branch, JoinAny, Gates, RejectEdges,
    OnReject, OnTimeout, Collect, OnFailure, MaxAttempts, MaxSemantic,
    MaxRequeues, \* as in RunGraph; Edges are the ordinals themselves
    MaxClaims    \* bound: how many claims there are in all

Settled == {"succeeded", "skipped", "dead_lettered", "cancelled", "collected"}
Out(s) == {e \in Edges : Src[e] = s}
In(s) == {e \in Edges : Dst[e] = s}

\* Out-edges in ordinal order, the order every plan is made in.
OutSeq == [s \in Steps |-> SetToSortSeq(Out(s), <)]

\* run_steps; claim is the number of the claiming attempt, 0 for NULL, and next
\* the next_attempt_at.  attempts holds the outcomes of step_attempts ("open"
\* until finished), baseline the latest attempts_at_death of dead_letters,
\* approvals the rows of the step's gate.  events are those of the transaction
\* under way, dispatch the steps some outbox row, entry or worker announces.
FirstRows ==
    [run       |-> "running",
     step      |-> [s \in Steps |->
                      [status |-> IF In(s) = {} THEN "ready" ELSE "pending",
                       claim |-> 0, attempt |-> 0, next |-> "null",
                       remaining |-> Cardinality(In(s)), fired |-> 0]],
     edge      |-> [e \in Edges |-> "unresolved"],
     counters  |-> [t \in Settled |-> 0],
     attempts  |-> [s \in Steps |-> <<>>],
     baseline  |-> [s \in Steps |-> 0],
     approvals |-> [s \in Steps |-> <<>>],
     dispatch  |-> {s \in Steps : In(s) = {}},
     requeues  |-> 0,
     events    |-> <<>>]

\* The rows that follow S by Op, and the rows themselves where S conflicted.
Then(S, Op(_)) == UNION {Op(x) : x \in S}
OrElse(S, d) == IF S = {} THEN {d} ELSE S
StepsIn(d, T) == {s \in Steps : d.step[s].status \in T}

\* One statement per step of a set: a conflict of any of them is a conflict.
Each(d, S, Op(_, _)) == FoldSet(LAMBDA s, acc : Then(acc, LAMBDA x : Op(x, s)), {d}, S)

-----------------------------------------------------------------------------
(* Statements on run_steps.                                                *)

Update(d, s, where, row) == IF where THEN {[d EXCEPT !.step[s] = row]} ELSE {}

\* WHERE status = 'running' AND claim_id = @claim_id: the fence.
Fenced(d, s, c) == d.step[s].status = "running" /\ d.step[s].claim = c

\* A fenced UPDATE that keeps claim_id, and one that clears it.
Ends(d, s, c, status) ==
    Update(d, s, Fenced(d, s, c), [d.step[s] EXCEPT !.status = status])
Releases(d, s, c, status, next) ==
    Update(d, s, Fenced(d, s, c),
           [d.step[s] EXCEPT !.status = status, !.claim = 0, !.next = next])

ClaimRunStep(d, s) ==
    LET r == d.step[s]
    IN  Update(d, s, r.status = "ready" \/ (r.status = "retrying" /\ r.next = "past"),
               [r EXCEPT !.status = "running", !.claim = r.attempt + 1,
                         !.attempt = @ + 1, !.next = "null"])

SucceedRunStep(d, s, c) == Ends(d, s, c, "succeeded")
DeadLetterRunStep(d, s, c) == Ends(d, s, c, "dead_lettered")
CollectFailRunStep(d, s, c) == Ends(d, s, c, "collected")
CancelRunningRunStep(d, s, c) == Ends(d, s, c, "cancelled")
RetryRunStep(d, s, c) == Releases(d, s, c, "retrying", "future")
SemanticRetryRunStep(d, s, c) == Releases(d, s, c, "retrying", "past")
AwaitHumanRunStep(d, s, c) == Releases(d, s, c, "awaiting_human", "null")
BudgetParkRunStep(d, s, c) == Releases(d, s, c, "ready", "null")

\* Fault: the takeover is not fenced on the claim that was scanned.
TakeoverAnyClaim(d, s, c) == Releases(d, s, d.step[s].claim, "ready", "null")

TakeoverRunStep(d, s, c) == Releases(d, s, c, "ready", "null")

PoisonDeadLetterRunStep(d, s) ==
    Update(d, s, d.step[s].status \in {"pending", "ready", "running", "retrying"},
           [d.step[s] EXCEPT !.status = "dead_lettered", !.claim = 0, !.next = "null"])

CancelRunStep(d, s) ==
    Update(d, s, d.step[s].status \in {"pending", "ready", "retrying"},
           [d.step[s] EXCEPT !.status = "cancelled", !.next = "null"])

CancelAwaitingHumanRunStep(d, s) ==
    Update(d, s, d.step[s].status = "awaiting_human",
           [d.step[s] EXCEPT !.status = "cancelled", !.next = "null"])

SucceedAwaitingHumanRunStep(d, s) ==
    Update(d, s, d.step[s].status = "awaiting_human",
           [d.step[s] EXCEPT !.status = "succeeded"])

DeadLetterAwaitingHumanRunStep(d, s) ==
    Update(d, s, d.step[s].status = "awaiting_human",
           [d.step[s] EXCEPT !.status = "dead_lettered"])

\* claim_id keeps the dead holder's value until the next claim.
RequeueRunStep(d, s) ==
    Update(d, s, d.step[s].status = "dead_lettered",
           [d.step[s] EXCEPT !.status = "ready", !.next = "null"])

ReviveRunStep(d, s) ==
    Update(d, s, d.step[s].status = "cancelled", [d.step[s] EXCEPT !.status = "pending"])

ReadyRunStep(d, s, joinAny) ==
    LET r == d.step[s]
    IN  Update(d, s, /\ r.status = "pending" /\ r.fired >= 1
                     /\ r.remaining = 0 \/ joinAny,
               [r EXCEPT !.status = "ready"])

SkipRunStep(d, s) ==
    LET r == d.step[s]
    IN  Update(d, s, r.status = "pending" /\ r.remaining = 0 /\ r.fired = 0,
               [r EXCEPT !.status = "skipped"])

\* Fault: the guard on remaining_deps is off by one.
ApplyUnlessLast(d, s, delta) ==
    LET r == d.step[s]
    IN  Update(d, s, r.remaining > 1,
               [r EXCEPT !.remaining = @ - 1, !.fired = @ + delta])

\* ResolveRunEdge, and ApplyEdgeResolution on its target: a target without
\* remaining dependencies is an error of the transaction.
ResolveRunEdge(d, e, fired) ==
    IF d.edge[e] = "unresolved"
    THEN {[d EXCEPT !.edge[e] = IF fired THEN "fired" ELSE "skipped"]} ELSE {}

ApplyEdgeResolution(d, s, delta) ==
    LET r == d.step[s]
    IN  Update(d, s, r.remaining > 0,
               [r EXCEPT !.remaining = @ - 1, !.fired = @ + delta])

-----------------------------------------------------------------------------
(* Statements on the other tables.                                         *)

Bump(d, status, n) == [d EXCEPT !.counters[status] = @ + n]

\* AppendEvent: type and step, and for an approval the row and what is said of it.
Emit(d, type, s) ==
    [d EXCEPT !.events = Append(@, [type |-> type, step |-> s, approval |-> 0, says |-> "none"])]
EmitApproval(d, type, s, n, says) ==
    [d EXCEPT !.events = Append(@, [type |-> type, step |-> s, approval |-> n, says |-> says])]
EmitRun(d, type) == Emit(d, type, "none")

CreateStepAttempt(d, s) == [d EXCEPT !.attempts[s] = Append(@, "open")]

\* FinishStepAttempt on attempt_count: no such row is an integrity error.
Finish(d, s, outcome) ==
    LET n == d.step[s].attempt
    IN  IF n \in DOMAIN d.attempts[s] THEN {[d EXCEPT !.attempts[s][n] = outcome]} ELSE {}

Failures(d, s, outcomes) ==
    Cardinality({n \in DOMAIN d.attempts[s] :
                    n > d.baseline[s] /\ d.attempts[s][n] \in outcomes})

CountCountedFailures(d, s) == Failures(d, s, {"transient", "timeout"})
CountValidationFailures(d, s) == Failures(d, s, {"validation_failed"})

CreateDeadLetter(d, s) == [d EXCEPT !.baseline[s] = d.step[s].attempt]

InsertApproval(d, s) ==
    [d EXCEPT !.approvals[s] =
        Append(@, [status |-> "pending", attempt |-> d.step[s].attempt, expired |-> FALSE])]

PendingApprovals(d, s) == {n \in DOMAIN d.approvals[s] : d.approvals[s][n].status = "pending"}

CancelPendingApprovalByStep(d, s) ==
    {EmitApproval([d EXCEPT !.approvals[s][n].status = "cancelled"],
                  "approval_cancelled", s, n, "none") : n \in PendingApprovals(d, s)}

DecideApproval(d, s, n, status) ==
    IF d.approvals[s][n].status = "pending"
    THEN {[d EXCEPT !.approvals[s][n].status = status,
                    !.approvals[s][n].expired = status = "expired"]} ELSE {}

MarkApprovalExpiredPending(d, s, n) ==
    IF d.approvals[s][n].status = "pending" /\ ~d.approvals[s][n].expired
    THEN {[d EXCEPT !.approvals[s][n].expired = TRUE]} ELSE {}

CreateOutboxTask(d, S) == [d EXCEPT !.dispatch = @ \cup S]

\* ListReadyStepsWithoutOutbox and a row for each: one whose row is still there
\* is announced already.
OutboxReady(d) == CreateOutboxTask(d, StepsIn(d, {"ready"}))

UpdateRun(d, where, status, type) ==
    IF where THEN {EmitRun([d EXCEPT !.run = status], type)} ELSE {}

Sum(d, T) == MapThenSumSet(LAMBDA t : d.counters[t], T)
All(d, T) == Sum(d, T) = Cardinality(Steps)
Live(d) == d.run \in {"running", "parked"}

SucceedRun(d) ==
    UpdateRun(d, /\ Live(d) /\ d.counters["dead_lettered"] = 0
                 /\ All(d, {"succeeded", "skipped", "collected"}), "succeeded", "run_succeeded")
FailRun(d) == UpdateRun(d, Live(d) /\ d.counters["dead_lettered"] >= 1, "failed", "run_failed")
FailRunRollup(d) ==
    UpdateRun(d, Live(d) /\ d.counters["dead_lettered"] >= 1 /\ All(d, Settled),
              "failed", "run_failed")
ResumeRun(d) == UpdateRun(d, d.run = "failed", "running", "run_resumed")
ParkRun(d) == UpdateRun(d, d.run = "running", "parked", "run_parked")
UnparkRun(d) == UpdateRun(d, d.run = "parked", "running", "run_unparked")
CancelRun(d) == UpdateRun(d, Live(d), "cancelling", "run_cancelling")
CancelRunRollup(d) ==
    UpdateRun(d, d.run = "cancelling" /\ All(d, Settled), "cancelled", "run_cancelled")

-----------------------------------------------------------------------------
(* Store transitions: the statement, then attempt row, aggregate and event.*)

\* The open attempt ends with outcome, and the step either settles or goes on.
Settles(S, s, outcome, status, type) ==
    UNION {{Emit(Bump(y, status, 1), type, s) : y \in Finish(x, s, outcome)} : x \in S}
GoesOn(S, s, outcome, type) ==
    UNION {{Emit(y, type, s) : y \in Finish(x, s, outcome)} : x \in S}

\* Only a running run is claimed from.
ClaimStepWithOrigin(d, s) ==
    IF d.run # "running" THEN {}
    ELSE {Emit(CreateStepAttempt(x, s), "step_claimed", s) : x \in ClaimRunStep(d, s)}

TakeoverStep(d, s, c) == GoesOn(TakeoverRunStep(d, s, c), s, "lost", "step_reclaimed")

SucceedStep(d, s, c) ==
    Settles(SucceedRunStep(d, s, c), s, "succeeded", "succeeded", "step_succeeded")
CollectFailStep(d, s, c, class) ==
    Settles(CollectFailRunStep(d, s, c), s, class, "collected", "step_collected")
CancelRunningStep(d, s, c) ==
    Settles(CancelRunningRunStep(d, s, c), s, "cancelled", "cancelled", "step_cancelled")
RetryStep(d, s, c, class) == GoesOn(RetryRunStep(d, s, c), s, class, "step_retry_scheduled")
ThrottleStep(d, s, c) == GoesOn(RetryRunStep(d, s, c), s, "throttled", "step_throttled")
SemanticRetryStep(d, s, c) ==
    GoesOn(SemanticRetryRunStep(d, s, c), s, "validation_failed", "step_semantic_retry_scheduled")

DeadLetterStep(d, s, c, class) ==
    {CreateDeadLetter(x, s) :
        x \in Settles(DeadLetterRunStep(d, s, c), s, class, "dead_lettered", "step_dead_lettered")}

\* Unfenced; the attempt of a running step is lost, others have none open.
PoisonDeadLetterStep(d, s) ==
    {CreateDeadLetter(x, s) :
        x \in IF d.step[s].status = "running"
              THEN Settles(PoisonDeadLetterRunStep(d, s), s, "lost",
                           "dead_lettered", "step_dead_lettered")
              ELSE {Emit(Bump(y, "dead_lettered", 1), "step_dead_lettered", s) :
                        y \in PoisonDeadLetterRunStep(d, s)}}

CancelStep(d, s) ==
    {Emit(Bump(x, "cancelled", 1), "step_cancelled", s) : x \in CancelRunStep(d, s)}
RequeueStep(d, s) ==
    {Emit(Bump(x, "dead_lettered", -1), "step_requeued", s) : x \in RequeueRunStep(d, s)}

ReviveStep(d, s) ==
    {Emit(Bump(x, "cancelled", -1), "step_revived", s) : x \in ReviveRunStep(d, s)}
ReadyStep(d, s) == {Emit(x, "step_ready", s) : x \in ReadyRunStep(d, s, s \in JoinAny)}
SkipStep(d, s) ==
    {Emit(Bump(x, "skipped", 1), "step_skipped", s) : x \in SkipRunStep(d, s)}

\* Resolved: the edge and the counters of its target, in one.
ResolveEdge(d, v) ==
    Then(ResolveRunEdge(d, v.edge, v.fired),
         LAMBDA x : ApplyEdgeResolution(x, Dst[v.edge], IF v.fired THEN 1 ELSE 0))

\* resolveEdgeNoop: the same verdict again is accepted, another one is an error.
ResolveEdgeNoop(d, v) ==
    IF d.edge[v.edge] = (IF v.fired THEN "fired" ELSE "skipped") THEN {d} ELSE {}

\* Parks the gate: the attempt stays open across the wait.
AwaitHumanStep(d, s, c) ==
    {EmitApproval(InsertApproval(x, s), "approval_requested", s,
                  Len(x.approvals[s]) + 1, "pending") : x \in AwaitHumanRunStep(d, s, c)}

CancelAwaitingHumanStep(d, s) ==
    Then(Settles(CancelAwaitingHumanRunStep(d, s), s, "cancelled", "cancelled", "step_cancelled"),
         LAMBDA x : OrElse(CancelPendingApprovalByStep(x, s), x))
SucceedAwaitingHumanStep(d, s) ==
    Settles(SucceedAwaitingHumanRunStep(d, s), s, "succeeded", "succeeded", "step_succeeded")
DeadLetterAwaitingHumanStep(d, s) ==
    {CreateDeadLetter(x, s) :
        x \in Settles(DeadLetterAwaitingHumanRunStep(d, s), s, "permanent",
                      "dead_lettered", "step_dead_lettered")}

\* The step is ready again, and the run parks unless it was closed or parked.
BudgetParkStep(d, s, c) ==
    Then(GoesOn(BudgetParkRunStep(d, s, c), s, "budget_exceeded", "budget_exceeded"),
         LAMBDA x : OrElse(ParkRun(x), x))

-----------------------------------------------------------------------------
(* Engine transactions.                                                    *)

\* planEdges, the predicates in M being true: a branch fires its first match.
PlanEdges(s, M) ==
    LET out == OutSeq[s]
        matches(e) == e \notin Conditional \/ e \in M
    IN  [i \in DOMAIN out |->
            [edge  |-> out[i],
             fired |-> /\ matches(out[i])
                       /\ s \in Branch => \A j \in 1 .. (i - 1) : ~matches(out[j])]]

AllSkippedVerdicts(s) == [i \in DOMAIN OutSeq[s] |-> [edge |-> OutSeq[s][i], fired |-> FALSE]]

\* Fault: the verdicts are not narrowed to the recorded decision.
UnfilteredVerdicts(verdicts, decision) == verdicts

FilterDecisionVerdicts(verdicts, decision) ==
    [i \in DOMAIN verdicts |->
        [verdicts[i] EXCEPT !.fired = @ /\ ((verdicts[i].edge \in RejectEdges)
                                              <=> decision = "reject")]]

RECURSIVE Work(_, _, _)

\* fanOut: a worklist of edge verdicts.  A target that is no longer pending
\* absorbs its edge, one that is satisfied readies, and one with nothing left to
\* wait for and nothing fired skips and appends its own out-edges.  The caller
\* writes an outbox row for every step that became ready.
Work(d, work, readied) ==
    IF work = <<>> THEN {CreateOutboxTask(d, readied)}
    ELSE LET v == Head(work)
             t == Dst[v.edge]
             resolved == ResolveEdge(d, v)
             Chase(x) ==
                IF x.step[t].status # "pending" THEN Work(x, Tail(work), readied)
                ELSE IF x.step[t].fired >= 1 /\ (x.step[t].remaining = 0 \/ t \in JoinAny)
                THEN Then(ReadyStep(x, t), LAMBDA y : Work(y, Tail(work), readied \cup {t}))
                ELSE IF x.step[t].remaining = 0 /\ x.step[t].fired = 0
                THEN Then(SkipStep(x, t),
                          LAMBDA y : Work(y, Tail(work) \o AllSkippedVerdicts(t), readied))
                ELSE Work(x, Tail(work), readied)
         IN  IF d.edge[v.edge] = "unresolved" THEN Then(resolved, Chase)
             ELSE Then(ResolveEdgeNoop(d, v), LAMBDA x : Work(x, Tail(work), readied))

FanOut(d, verdicts) == Work(d, verdicts, {})

AttemptCancelRollup(d) == OrElse(CancelRunRollup(d), d)

\* Each member's conflict is dropped and the next one tried.
AttemptRunRollup(d) ==
    IF SucceedRun(d) # {} THEN SucceedRun(d)
    ELSE IF FailRunRollup(d) # {} THEN FailRunRollup(d)
    ELSE AttemptCancelRollup(d)

\* The rounds of planWriteOff: a pending step none of whose remaining ways to
\* become ready is left is marked, and blocks others in turn.
RECURSIVE PlanWriteOff(_, _, _, _)
PlanWriteOff(d, pending, blocked, marked) ==
    LET unresolved(t) == {e \in In(t) : d.edge[e] = "unresolved"}
        live(t) == {e \in unresolved(t) : Src[e] \notin blocked \cup marked}
        impossible == {t \in pending \ marked :
            IF t \in JoinAny
            THEN d.step[t].fired = 0 /\ unresolved(t) # {} /\ live(t) = {}
            ELSE live(t) # unresolved(t)}
    IN  IF impossible = {} THEN marked
        ELSE PlanWriteOff(d, pending, blocked, marked \cup impossible)

DeadLetterDisposition(d) ==
    IF OnFailure # "continue_independent_branches" THEN OrElse(FailRun(d), d)
    ELSE Then(Each(d, PlanWriteOff(d, StepsIn(d, {"pending"}),
                                   StepsIn(d, {"dead_lettered", "cancelled"}), {}), CancelStep),
              LAMBDA x : OrElse(FailRunRollup(x), x))

\* The completion of a cancelling run that is not a success.
CancelSettled(d, s, c) == Then(CancelRunningStep(d, s, c), AttemptCancelRollup)

\* A success is honoured while cancelling, but fans out nothing.
CompleteSuccess(d, s, c, M) ==
    Then(SucceedStep(d, s, c),
         LAMBDA x : IF x.run = "cancelling" THEN AttemptRunRollup(x)
                    ELSE Then(FanOut(x, PlanEdges(s, M)), AttemptRunRollup))

CompleteFailure(d, s, c, class, M) ==
    IF d.run = "cancelling" THEN CancelSettled(d, s, c)
    ELSE IF class # "permanent" /\ CountCountedFailures(d, s) + 1 < MaxAttempts
    THEN {CreateOutboxTask(x, {s}) : x \in RetryStep(d, s, c, class)}
    ELSE IF s \in Collect
    THEN Then(CollectFailStep(d, s, c, class),
              LAMBDA x : Then(FanOut(x, PlanEdges(s, M)), AttemptRunRollup))
    ELSE Then(DeadLetterStep(d, s, c, class), DeadLetterDisposition)

CompleteValidationFailure(d, s, c) ==
    IF d.run = "cancelling" THEN CancelSettled(d, s, c)
    ELSE IF CountValidationFailures(d, s) + 1 < MaxSemantic
    THEN {CreateOutboxTask(x, {s}) : x \in SemanticRetryStep(d, s, c)}
    ELSE Then(DeadLetterStep(d, s, c, "validation_failed"), DeadLetterDisposition)

CompleteThrottle(d, s, c) ==
    IF d.run = "cancelling" THEN CancelSettled(d, s, c)
    ELSE {CreateOutboxTask(x, {s}) : x \in ThrottleStep(d, s, c)}

CompleteBudgetPark(d, s, c) ==
    IF d.run = "cancelling" THEN CancelSettled(d, s, c) ELSE BudgetParkStep(d, s, c)

CompleteAwaitHuman(d, s, c) ==
    IF d.run = "cancelling" THEN CancelSettled(d, s, c) ELSE AwaitHumanStep(d, s, c)

HandlePoison(d, s) ==
    Then(PoisonDeadLetterStep(d, s),
         LAMBDA x : Then(DeadLetterDisposition(x),
                         LAMBDA y : IF y.run = "failed" THEN {y} ELSE AttemptCancelRollup(y)))

\* Decide: only a live run accepts it, and the approvals row is the arbiter.
Decide(d, s, n, decision, source, M) ==
    LET status == IF source = "timeout" THEN "expired"
                  ELSE IF decision = "reject" THEN "rejected" ELSE "approved"
        decided(x) == IF source = "timeout"
                      THEN EmitApproval(x, "approval_expired", s, n, decision)
                      ELSE EmitApproval(x, "approval_decided", s, n, status)
        settle(x) == IF decision = "reject" /\ OnReject = "fail"
                     THEN Then(DeadLetterAwaitingHumanStep(x, s), DeadLetterDisposition)
                     ELSE Then(SucceedAwaitingHumanStep(x, s),
                               LAMBDA y : Then(FanOut(y, FilterDecisionVerdicts(PlanEdges(s, M),
                                                                               decision)),
                                               AttemptRunRollup))
    IN  IF Live(d) THEN Then(DecideApproval(d, s, n, status), LAMBDA x : settle(decided(x)))
        ELSE {}

\* ExpireApprovalPark: stamps expired_at once and parks the run, unless it is.
ExpireApprovalPark(d, s, n) ==
    Then(MarkApprovalExpiredPending(d, s, n),
         LAMBDA x : IF x.run = "parked"
                    THEN {EmitApproval(x, "approval_expired", s, n, "run_already_parked")}
                    ELSE {EmitApproval(y, "approval_expired", s, n, "run_parked") : y \in ParkRun(x)})

\* cancelRunTx: the sweep settles every step without a claim.
CancelRunTx(d) ==
    Then(CancelRun(d),
         LAMBDA x : Then(Each(x, StepsIn(x, {"pending", "ready", "retrying"}), CancelStep),
         LAMBDA y : Then(Each(y, StepsIn(y, {"awaiting_human"}), CancelAwaitingHumanStep),
                         AttemptCancelRollup)))

HealCancellingStep(d, s, c) ==
    Then(TakeoverStep(d, s, c), LAMBDA x : Then(CancelStep(x, s), AttemptCancelRollup))

Unpark(d) == {OutboxReady(x) : x \in UnparkRun(d)}

\* Requeue: refused on a cancelling or cancelled run; a failed one resumes, and
\* the cancelled steps that the remaining dead letters do not block are revived.
Requeue(d, s) ==
    Then(RequeueStep(d, s),
         LAMBDA x : IF x.run \in {"cancelling", "cancelled"} THEN {}
                    ELSE Then(IF x.run = "failed" THEN ResumeRun(x) ELSE {x},
         LAMBDA y :
            LET cancelled == StepsIn(y, {"cancelled"})
                blocked == PlanWriteOff(y, StepsIn(y, {"pending", "cancelled"}),
                                        StepsIn(y, {"dead_lettered"}), {})
            IN  {[OutboxReady(z) EXCEPT !.requeues = @ + 1] :
                    z \in Each(y, cancelled \ blocked, ReviveStep)}))

=============================================================================
