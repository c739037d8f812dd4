------------------------------ MODULE RunGraph ------------------------------
(***************************************************************************)
(* One run of agentloom as Postgres holds it: the run row, its step rows,  *)
(* its edge rows and its approvals, and every transaction that changes     *)
(* them.  internal/store/transitions.go makes each status change a         *)
(* compare-and-swap under the run-row lock; internal/engine composes those *)
(* changes into transactions.  Each store transition is therefore an       *)
(* operator from rows to rows, and each engine transaction is one action   *)
(* that composes them on the single variable db.                           *)
(*                                                                         *)
(* The queue appears only as db.dispatch, the steps that some outbox row,  *)
(* stream entry, delayed entry or worker still announces, and every        *)
(* completion is by the current holder of the claim.  Module Dispatch      *)
(* opens both abstractions and is shown to implement this specification.   *)
(***************************************************************************)
EXTENDS GraphConstants

VARIABLE db

Settled == {"succeeded", "skipped", "dead_lettered", "cancelled", "collected"}
StepStatus == {"pending", "ready", "running", "retrying", "awaiting_human"} \cup Settled
RunStatus == {"running", "parked", "cancelling", "succeeded", "failed", "cancelled"}
Resolution == {"unresolved", "fired", "skipped"}
ApprovalStatus == {"none", "pending", "approved", "rejected", "expired", "cancelled"}

Rows ==
    [run       : RunStatus,
     step      : [Steps -> StepStatus],
     edge      : [Edges -> Resolution],
     remaining : [Steps -> Int],               \* remaining_deps
     fired     : [Steps -> Int],               \* fired_deps
     counters  : [Settled -> Int],             \* runs.steps_<status>
     transport : [Steps -> Nat],               \* CountCountedFailures since the DLQ baseline
     semantic  : [Steps -> Nat],               \* CountValidationFailures since the DLQ baseline
     due       : SUBSET Steps,                 \* retrying steps whose next_attempt_at has passed
     approval  : [Steps -> ApprovalStatus],    \* the step's latest approvals row
     expired   : SUBSET Steps,                 \* steps whose latest approval has expired_at
     dispatch  : SUBSET Steps,
     requeues  : Nat]

In(t) == {e \in Edges : Dst[e] = t}
Out(s) == {e \in Edges : Src[e] = s}
Roots == {s \in Steps : In(s) = {}}

\* CreateRun: counters seeded with the in-degrees, roots ready and
\* outboxed, in one transaction.
Init ==
    db = [run       |-> "running",
          step      |-> [s \in Steps |-> IF s \in Roots THEN "ready" ELSE "pending"],
          edge      |-> [e \in Edges |-> "unresolved"],
          remaining |-> [s \in Steps |-> Cardinality(In(s))],
          fired     |-> [s \in Steps |-> 0],
          counters  |-> [t \in Settled |-> 0],
          transport |-> [s \in Steps |-> 0],
          semantic  |-> [s \in Steps |-> 0],
          due       |-> {},
          approval  |-> [s \in Steps |-> "none"],
          expired   |-> {},
          dispatch  |-> Roots,
          requeues  |-> 0]

-----------------------------------------------------------------------------
(* Store transitions: rows to rows.  Their guards are the callers'.        *)

StepsIn(d, T) == {s \in Steps : d.step[s] \in T}

SetStatus(d, S, st) ==
    [d EXCEPT !.step = [x \in Steps |-> IF x \in S THEN st ELSE d.step[x]]]

\* Moves S to a settled status and bumps that run aggregate once per step.
Settle(d, S, st) ==
    [SetStatus(d, S, st) EXCEPT !.counters[st] = @ + Cardinality(S)]

\* The inverse: S leaves the settled status `from`, the aggregate is un-bumped.
Reopen(d, S, from, to) ==
    [SetStatus(d, S, to) EXCEPT !.counters[from] = @ - Cardinality(S)]

ClaimStep(d, s) == [SetStatus(d, {s}, "running") EXCEPT !.due = @ \ {s}]

TakeoverStep(d, s) == SetStatus(d, {s}, "ready")

SucceedStep(d, s) == Settle(d, {s}, "succeeded")

CollectFailStep(d, s) == Settle(d, {s}, "collected")

\* The dead_letters row is the new baseline both failure budgets count from.
DeadLetterStep(d, s) ==
    [Settle(d, {s}, "dead_lettered") EXCEPT
        !.transport[s] = 0, !.semantic[s] = 0, !.due = @ \ {s}]

\* Unfenced: from pending, ready, running or retrying alike.
PoisonDeadLetterStep(d, s) == DeadLetterStep(d, s)

DeadLetterAwaitingHumanStep(d, s) == DeadLetterStep(d, s)

\* Fault: an approved gate is not counted as succeeded.
SucceedAwaitingUncounted(d, s) == SetStatus(d, {s}, "succeeded")

SucceedAwaitingHumanStep(d, s) == SucceedStep(d, s)

RequeueStep(d, s) == Reopen(d, {s}, "dead_lettered", "ready")

ReviveSteps(d, S) == Reopen(d, S, "cancelled", "pending")

ResumeRun(d) == [d EXCEPT !.run = IF @ = "failed" THEN "running" ELSE @]

CancelRunningStep(d, s) == Settle(d, {s}, "cancelled")

\* CancelStep on every step of S; edges and dependency counters stay as they are.
CancelSteps(d, S) == [Settle(d, S, "cancelled") EXCEPT !.due = @ \ S]

\* Fault: the sweep cancels the gate and forgets its approvals row.
CancelAwaitingKeepsApproval(d, S) == Settle(d, S, "cancelled")

\* CancelAwaitingHumanStep on every parked gate: its approval goes with it.
CancelAwaiting(d, S) ==
    [Settle(d, S, "cancelled") EXCEPT
        !.approval = [x \in Steps |-> IF x \in S THEN "cancelled" ELSE d.approval[x]]]

RetryStep(d, s) ==
    [SetStatus(d, {s}, "retrying") EXCEPT !.transport[s] = @ + 1]

ThrottleStep(d, s) == SetStatus(d, {s}, "retrying")

\* Due at once: next_attempt_at is the failing attempt's own time.
SemanticRetryStep(d, s) ==
    [SetStatus(d, {s}, "retrying") EXCEPT
        !.semantic[s] = @ + 1, !.due = @ \cup {s}]

\* Fault: the approvals row gets the status of the step.
AwaitHumanStepStatus(d, s) ==
    [SetStatus(d, {s}, "awaiting_human") EXCEPT
        !.approval[s] = "awaiting_human", !.expired = @ \ {s}]

AwaitHumanStep(d, s) ==
    [SetStatus(d, {s}, "awaiting_human") EXCEPT
        !.approval[s] = "pending", !.expired = @ \ {s}]

ParkRun(d) == [d EXCEPT !.run = IF @ = "running" THEN "parked" ELSE @]

BudgetParkStep(d, s) == ParkRun(SetStatus(d, {s}, "ready"))

Outbox(d, S) == [d EXCEPT !.dispatch = @ \cup S]

\* ListReadyWithoutOutbox and the rows written for it.  A step whose row is
\* still there is in db.dispatch already.
OutboxReady(d) == Outbox(d, StepsIn(d, {"ready"}))

-----------------------------------------------------------------------------
(* Fan-out: the edges of a settled step resolve, and skips propagate.      *)

\* planEdges: the sets of out-edges the predicates may fire.  A branch fires
\* its first match, or its unconditioned default when nothing matched.
Verdicts(s) ==
    IF s \in Branch
    THEN {F \in SUBSET Out(s) :
            Cardinality(F) = 1 \/ (F = {} /\ Out(s) \subseteq Conditional)}
    ELSE {F \in SUBSET Out(s) : Out(s) \ Conditional \subseteq F}

\* The edges that resolve when s settles and every step of K skips.
Resolved(d, s, K) == {e \in Edges : Src[e] \in {s} \cup K /\ d.edge[e] = "unresolved"}

RemainingAfter(d, t, R) == d.remaining[t] - Cardinality(R \cap In(t))
FiredAfter(d, t, R, F) == d.fired[t] + Cardinality(R \cap F \cap In(t))

Readies(d, t, R, F) ==
    /\ d.step[t] = "pending" /\ R \cap In(t) # {}
    /\ FiredAfter(d, t, R, F) >= 1
    /\ RemainingAfter(d, t, R) = 0 \/ t \in JoinAny

\* Fault: a step is skipped while other edges of it are open.
SkipsOnFirst(d, t, R, F) ==
    /\ d.step[t] = "pending" /\ R \cap In(t) # {}
    /\ FiredAfter(d, t, R, F) = 0

Skips(d, t, R, F) ==
    /\ d.step[t] = "pending" /\ R \cap In(t) # {}
    /\ RemainingAfter(d, t, R) = 0 /\ FiredAfter(d, t, R, F) = 0

\* The worklist of fanOut reaches the least set closed under skipping.
SkipClosed(d, s, F, K) ==
    \A t \in StepsIn(d, {"pending"}) : Skips(d, t, Resolved(d, s, K), F) => t \in K

SkipSet(d, s, F) ==
    {t \in StepsIn(d, {"pending"}) :
        \A K \in SUBSET StepsIn(d, {"pending"}) : SkipClosed(d, s, F, K) => t \in K}

\* Resolve the edges R, of which those in F fire; ready and skip what follows.
ApplyResolution(d, R, F, K, A) ==
    [d EXCEPT
        !.edge = [e \in Edges |-> IF e \in R
                                  THEN IF e \in F THEN "fired" ELSE "skipped"
                                  ELSE d.edge[e]],
        !.remaining = [t \in Steps |-> RemainingAfter(d, t, R)],
        !.fired = [t \in Steps |-> FiredAfter(d, t, R, F)],
        !.step = [t \in Steps |-> IF t \in K THEN "skipped"
                                  ELSE IF t \in A THEN "ready" ELSE d.step[t]],
        !.counters["skipped"] = @ + Cardinality(K),
        !.dispatch = @ \cup A]

\* fanOut from s with verdict F, and an outbox row per step it readied.
FanOut(d, s, F) ==
    LET K == SkipSet(d, s, F)
        R == Resolved(d, s, K)
        A == {t \in Steps : Readies(d, t, R, F)} \ K
    IN  ApplyResolution(d, R, F, K, A)

-----------------------------------------------------------------------------
(* Rollups and the failure disposition.                                    *)

Sum(d, T) == LET n(t) == IF t \in T THEN d.counters[t] ELSE 0
             IN  n("succeeded") + n("skipped") + n("dead_lettered")
                    + n("cancelled") + n("collected")

Open(d) == d.run \in {"running", "parked"}

SucceedRunGuard(d) ==
    /\ Open(d) /\ d.counters["dead_lettered"] = 0
    /\ Sum(d, {"succeeded", "skipped", "collected"}) = Cardinality(Steps)

FailRunRollupGuard(d) ==
    Open(d) /\ d.counters["dead_lettered"] >= 1 /\ Sum(d, Settled) = Cardinality(Steps)

CancelRunRollupGuard(d) ==
    d.run = "cancelling" /\ Sum(d, Settled) = Cardinality(Steps)

SetRun(d, r) == [d EXCEPT !.run = r]

AttemptCancelRollup(d) == IF CancelRunRollupGuard(d) THEN SetRun(d, "cancelled") ELSE d

AttemptRunRollup(d) ==
    IF SucceedRunGuard(d) THEN SetRun(d, "succeeded")
    ELSE IF FailRunRollupGuard(d) THEN SetRun(d, "failed")
    ELSE AttemptCancelRollup(d)

\* A step cannot become ready once the sources in B never resolve.
Impossible(d, t, B) ==
    LET open == {e \in In(t) : d.edge[e] = "unresolved"}
    IN  IF t \in JoinAny
        THEN d.fired[t] = 0 /\ open # {} /\ \A e \in open : Src[e] \in B
        ELSE \E e \in open : Src[e] \in B

\* planWriteOff: the rounds reach the least set of steps of P closed under
\* impossibility, the steps in B being blocked from the start.
PlanWriteOff(d, P, B) ==
    {t \in P : \A W \in SUBSET P :
        (\A u \in P : Impossible(d, u, B \cup W) => u \in W) => t \in W}

WriteOff(d) == PlanWriteOff(d, StepsIn(d, {"pending"}), StepsIn(d, {"dead_lettered", "cancelled"}))

\* The plan of a requeue: what the remaining dead letters block, written off or not.
Blocked(d) == PlanWriteOff(d, StepsIn(d, {"pending", "cancelled"}), StepsIn(d, {"dead_lettered"}))

\* deadLetterDisposition.  FailRun needs a failed step, which the caller made.
DeadLetterDisposition(d) ==
    IF OnFailure = "fail_fast"
    THEN IF Open(d) /\ d.counters["dead_lettered"] >= 1 THEN SetRun(d, "failed") ELSE d
    ELSE LET c == CancelSteps(d, WriteOff(d))
         IN  IF FailRunRollupGuard(c) THEN SetRun(c, "failed") ELSE c

-----------------------------------------------------------------------------
(* The worker: deliveries and completions by the claim's holder.           *)

Claimable(s) ==
    /\ db.run = "running"
    /\ db.step[s] = "ready" \/ (db.step[s] = "retrying" /\ s \in db.due)

\* Handle: a delivery of s claims it.  Its entry stays in the queue meanwhile.
Claim(s) == s \in db.dispatch /\ Claimable(s) /\ db' = ClaimStep(db, s)

\* The last announcements of S go: one acknowledged after a completion, one
\* acknowledged and dropped by classifyClaimFailure (but never for a pending step),
\* or as many as Redis held when it lost its data.
DropDeliveries(S) ==
    /\ S \subseteq db.dispatch /\ \A s \in S : db.step[s] # "pending"
    /\ db' = [db EXCEPT !.dispatch = @ \ S]

\* Every completion of a cancelling run but a success settles the step as
\* cancelled, unjudged, and tries to finalize.
SettleCancelled(s) == db' = AttemptCancelRollup(CancelRunningStep(db, s))

CompleteSuccess(s) ==
    /\ db.step[s] = "running" /\ s \notin Gates
    /\ \/ /\ db.run = "cancelling"
          /\ db' = AttemptRunRollup(SucceedStep(db, s))
       \/ /\ db.run # "cancelling"
          /\ \E F \in Verdicts(s) : db' = AttemptRunRollup(FanOut(SucceedStep(db, s), s, F))

\* The failure is transient and the transport budget allows another attempt.
Retries(s, retryable) == retryable /\ db.transport[s] + 1 < MaxAttempts

\* completeFailure of a cancelling run, or without a retry.
FailStep(s, retryable) ==
    /\ db.step[s] = "running"
    /\ \/ db.run = "cancelling" /\ SettleCancelled(s)
       \/ /\ db.run # "cancelling" /\ ~Retries(s, retryable) /\ s \in Collect
          /\ \E F \in Verdicts(s) : db' = AttemptRunRollup(FanOut(CollectFailStep(db, s), s, F))
       \/ /\ db.run # "cancelling" /\ ~Retries(s, retryable) /\ s \notin Collect
          /\ db' = DeadLetterDisposition(DeadLetterStep(db, s))

\* A retry's delayed entry is scheduled after the commit; DropDeliveries is the
\* crash or the Redis failure in between.
CompleteFailure(s, retryable) ==
    \/ FailStep(s, retryable)
    \/ /\ db.step[s] = "running" /\ db.run # "cancelling" /\ Retries(s, retryable)
       /\ db' = Outbox(RetryStep(db, s), {s})

CompleteValidationFailure(s) ==
    /\ db.step[s] = "running" /\ s \notin Gates
    /\ \/ db.run = "cancelling" /\ SettleCancelled(s)
       \/ /\ db.run # "cancelling" /\ db.semantic[s] + 1 < MaxSemantic
          /\ db' = Outbox(SemanticRetryStep(db, s), {s})
       \/ /\ db.run # "cancelling" /\ db.semantic[s] + 1 >= MaxSemantic
          /\ db' = DeadLetterDisposition(DeadLetterStep(db, s))

CompleteThrottle(s) ==
    /\ db.step[s] = "running"
    /\ \/ db.run = "cancelling" /\ SettleCancelled(s)
       \/ db.run # "cancelling" /\ db' = Outbox(ThrottleStep(db, s), {s})

CompleteBudgetPark(s) ==
    /\ db.step[s] = "running"
    /\ \/ db.run = "cancelling" /\ SettleCancelled(s)
       \/ db.run # "cancelling" /\ db' = BudgetParkStep(db, s)

CompleteAwaitHuman(s) ==
    /\ db.step[s] = "running" /\ s \in Gates
    /\ \/ db.run = "cancelling" /\ SettleCancelled(s)
       \/ db.run # "cancelling" /\ db' = AwaitHumanStep(db, s)

\* Fault: a poisoned step of a cancelling run does not try to finalize it.
PoisonWithoutRollup(s) ==
    /\ db.step[s] \in {"pending", "ready", "running", "retrying"}
    /\ db' = DeadLetterDisposition(PoisonDeadLetterStep(db, s))

\* The transaction of HandlePoison: it is not fenced on a claim.
PoisonStep(s) ==
    /\ db.step[s] \in {"pending", "ready", "running", "retrying"}
    /\ db' = AttemptCancelRollup(DeadLetterDisposition(PoisonDeadLetterStep(db, s)))

\* HandlePoison: an entry of s was delivered too often.
HandlePoison(s) == s \in db.dispatch /\ PoisonStep(s)

-----------------------------------------------------------------------------
(* Approvals.                                                              *)

\* filterDecisionVerdicts: a reject fires only reject-marked edges.
DecisionVerdicts(s, decision) ==
    {IF decision = "reject" THEN F \cap RejectEdges ELSE F \ RejectEdges : F \in Verdicts(s)}

DecideSucceed(d, s, decision) ==
    \E F \in DecisionVerdicts(s, decision) :
        db' = AttemptRunRollup(FanOut(SucceedAwaitingHumanStep(d, s), s, F))

DecideDeadLetter(d, s) == db' = DeadLetterDisposition(DeadLetterAwaitingHumanStep(d, s))

\* DecideApproval: the compare-and-swap pending -> decided is the arbiter.  It
\* also writes expired_at: set by a timeout, NULL again by a human's decision.
DecideApproval(d, s, decision, source) ==
    [d EXCEPT !.approval[s] = IF source = "timeout" THEN "expired"
                              ELSE IF decision = "reject" THEN "rejected" ELSE "approved",
              !.expired = IF source = "timeout" THEN @ \cup {s} ELSE @ \ {s}]

\* Decide, by a human or by the timeout policy; only an open run accepts it.
\* A step that is not awaiting_human would roll the transaction back.
Decide(s, decision, source) ==
    /\ Open(db) /\ db.approval[s] = "pending" /\ db.step[s] = "awaiting_human"
    /\ source = "timeout" => OnTimeout = decision /\ s \notin db.expired
    /\ LET d == DecideApproval(db, s, decision, source)
           fails == decision = "reject" /\ OnReject = "fail"
       IN  \/ fails /\ DecideDeadLetter(d, s)
           \/ ~fails /\ DecideSucceed(d, s, decision)

\* applyTimeoutPark: stamps expired_at once and parks; the approval stays pending.
\* On a run that is neither running nor parked the handler fails and redelivers.
ExpireApprovalPark(s) ==
    /\ OnTimeout = "park" /\ db.approval[s] = "pending" /\ s \notin db.expired
    /\ Open(db)
    /\ db' = ParkRun([db EXCEPT !.expired = @ \cup {s}])

-----------------------------------------------------------------------------
(* The operator.                                                           *)

\* Fault: a run that has ended can be cancelled.
CancelEndedRun ==
    /\ db.run \notin {"cancelling", "cancelled"}
    /\ LET gates == StepsIn(db, {"awaiting_human"})
           swept == CancelSteps(SetRun(db, "cancelling"),
                                StepsIn(db, {"pending", "ready", "retrying"}))
       IN  db' = AttemptCancelRollup(CancelAwaiting(swept, gates))

\* cancelRunTx: by Cancel, by the reconciler's deadline sweep, by guardDeadline.
Cancel ==
    /\ Open(db)
    /\ LET gates == StepsIn(db, {"awaiting_human"})
           swept == CancelSteps(SetRun(db, "cancelling"),
                                StepsIn(db, {"pending", "ready", "retrying"}))
       IN  db' = AttemptCancelRollup(CancelAwaiting(swept, gates))

Park == db.run = "running" /\ db' = ParkRun(db)

Unpark == db.run = "parked" /\ db' = OutboxReady(SetRun(db, "running"))

\* Fault: the steps the dead letter had blocked are not revived.
RequeueWithoutRevival(s) ==
    /\ db.requeues < MaxRequeues
    /\ db.step[s] = "dead_lettered" /\ db.run \notin {"cancelling", "cancelled"}
    /\ db' = OutboxReady([ResumeRun(RequeueStep(db, s)) EXCEPT !.requeues = @ + 1])

\* Requeue: the step is ready again, a failed run resumes, and the written-off
\* steps the remaining dead letters no longer block are revived.
Requeue(s) ==
    /\ db.requeues < MaxRequeues
    /\ db.step[s] = "dead_lettered" /\ db.run \notin {"cancelling", "cancelled"}
    /\ LET d == [ResumeRun(RequeueStep(db, s)) EXCEPT !.requeues = @ + 1]
       IN  db' = OutboxReady(ReviveSteps(d, StepsIn(d, {"cancelled"}) \ Blocked(d)))

-----------------------------------------------------------------------------
(* Time and the reconciler.                                                *)

BackoffElapses(s) ==
    /\ db.step[s] = "retrying" /\ s \notin db.due
    /\ db' = [db EXCEPT !.due = @ \cup {s}]

\* Fault: overdue retrying steps are left to the delayed queue.
ReconcileReadyOnly(s) ==
    /\ s \notin db.dispatch /\ db.run = "running" /\ db.step[s] = "ready"
    /\ db' = Outbox(db, {s})

\* ListStaleReadySteps and ListOverdueRetryingSteps: no dispatch announces the step.
ReconcileDispatch(s) ==
    /\ s \notin db.dispatch /\ Claimable(s)
    /\ db' = Outbox(db, {s})

\* ListStaleRunningSteps: takeover, then a new dispatch unless the scan saw an
\* outbox row, which may be gone by now.  The run was running when scanned and may
\* have parked or failed since; a cancel in between is taken up in module RunPage.
ReconcileRunning(s) ==
    /\ db.run \notin {"cancelling", "cancelled"} /\ db.step[s] = "running"
    /\ \/ db' = Outbox(TakeoverStep(db, s), {s})
       \/ db' = TakeoverStep(db, s)

HealCancellingStep(s) ==
    /\ db.run = "cancelling" /\ db.step[s] = "running"
    /\ db' = AttemptCancelRollup(CancelSteps(TakeoverStep(db, s), {s}))

-----------------------------------------------------------------------------

\* A holder that reports its result, rather than being throttled or parked.
Complete(s) ==
    \/ CompleteSuccess(s)
    \/ \E retryable \in BOOLEAN : CompleteFailure(s, retryable)
    \/ CompleteValidationFailure(s)
    \/ CompleteAwaitHuman(s)

Next ==
    \/ \E s \in Steps :
         \/ Claim(s)
         \/ Complete(s) \/ CompleteThrottle(s) \/ CompleteBudgetPark(s)
         \/ HandlePoison(s)
         \/ \E decision \in {"approve", "reject"}, source \in {"human", "timeout"} :
              Decide(s, decision, source)
         \/ ExpireApprovalPark(s) \/ Requeue(s)
         \/ BackoffElapses(s) \/ ReconcileDispatch(s)
         \/ ReconcileRunning(s) \/ HealCancellingStep(s)
    \/ \E S \in SUBSET db.dispatch : DropDeliveries(S)
    \/ Cancel \/ Park \/ Unpark

Spec == Init /\ [][Next]_db

\* Some queued entry is delivered, some holder of a live run reports, clocks run
\* and the reconciler sweeps.  Claims and completions need strong fairness: a
\* lost entry or a takeover disables them, but not for ever.  Nothing is assumed
\* of operators, and no holder need survive a cancel: the heal settles its step.
Fairness ==
    /\ SF_db(\E s \in Steps : Claim(s))
    /\ SF_db(db.run # "cancelling" /\ \E s \in Steps : Complete(s))
    /\ WF_db(\E s \in Steps : BackoffElapses(s))
    /\ WF_db(\E s \in Steps : ReconcileDispatch(s))
    /\ WF_db(\E s \in Steps : HealCancellingStep(s))

FairSpec == Spec /\ Fairness

-----------------------------------------------------------------------------
(* Correctness.                                                            *)

\* Every row stays within its column types; dependency counters never go negative.
TypeOK ==
    /\ db \in Rows
    /\ \A s \in Steps : db.remaining[s] >= 0 /\ db.fired[s] >= 0
    /\ \A t \in Settled : db.counters[t] >= 0

\* The run aggregates steps_succeeded, _skipped, _failed, _cancelled and
\* _collected, bumped one by one in many transactions, always equal the number
\* of step rows in that status.  Every rollup guard relies on it.
AggregatesMatch ==
    \A t \in Settled : db.counters[t] = Cardinality(StepsIn(db, {t}))

\* remaining_deps and fired_deps of a step equal the number of its unresolved
\* and fired incoming edges: each edge was counted once, however it resolved.
DependencyCountersMatch ==
    \A s \in Steps :
        /\ db.remaining[s] = Cardinality({e \in In(s) : db.edge[e] = "unresolved"})
        /\ db.fired[s] = Cardinality({e \in In(s) : db.edge[e] = "fired"})

\* An edge resolves only by its source settling with an output or by skipping,
\* a skipped source fires nothing, and unless a cancel stopped the fan-out,
\* every edge of such a source is resolved: no successor waits on decided work.
ResolutionsMatchSources ==
    \A e \in Edges :
        LET src == db.step[Src[e]]
        IN  /\ db.edge[e] # "unresolved" => src \in {"succeeded", "collected", "skipped"}
            /\ db.edge[e] = "fired" => src # "skipped"
            /\ src \in {"succeeded", "collected", "skipped"}
                 => db.edge[e] # "unresolved" \/ db.run \in {"cancelling", "cancelled"}

\* A step past pending had its dependencies: a fired edge and none open, a fired
\* edge under join any, or no incoming edge; and a skipped step had none fired.
\* Requeues, revivals and unfenced poison letters included.
ReadinessJustified ==
    \A s \in Steps :
        /\ db.step[s] \notin {"pending", "cancelled", "skipped"} =>
              \/ In(s) = {}
              \/ db.fired[s] >= 1 /\ (db.remaining[s] = 0 \/ s \in JoinAny)
        /\ db.step[s] = "skipped" => db.remaining[s] = 0 /\ db.fired[s] = 0

\* No lost wake-up: a pending step still waits for an edge.  What the last edge
\* decided was acted on in the same transaction, also for a step that was
\* written off, had edges resolve while cancelled, and was revived.
NoLostWakeup ==
    \A s \in Steps : db.step[s] = "pending" =>
        db.remaining[s] >= 1 /\ (s \in JoinAny => db.fired[s] = 0)

\* Nothing ever announces a pending step, so the "pending (never dispatched ->
\* outbox bug)" branch of classifyClaimFailure is unreachable and no poison
\* letter hits a step whose dependencies are open.
PendingNeverDispatched ==
    \A s \in db.dispatch : db.step[s] # "pending"

\* The approvals row is pending exactly while its step awaits a human: a
\* decision, a timeout and a cancel racing each other leave neither behind.
ApprovalMatchesStep ==
    \A s \in Steps : db.approval[s] = "pending" <=> db.step[s] = "awaiting_human"

\* What a closed run says of its steps: succeeded means none failed and none was
\* written off; cancelled, and failed under continue_independent_branches, mean
\* that nothing is left unsettled; failed means a dead letter exists.
VerdictSound ==
    /\ db.run = "succeeded" =>
          \A s \in Steps : db.step[s] \in {"succeeded", "skipped", "collected"}
    /\ db.run = "cancelled" => \A s \in Steps : db.step[s] \in Settled
    /\ db.run = "failed" =>
          /\ \E s \in Steps : db.step[s] = "dead_lettered"
          /\ OnFailure = "fail_fast" \/ \A s \in Steps : db.step[s] \in Settled

\* No rollup is missed: an open run has an unsettled step and a cancelling run a
\* running one, the states ListStalledRuns calls impossible.
NeverStalled ==
    /\ Open(db) => \E s \in Steps : db.step[s] \notin Settled
    /\ db.run = "cancelling" => \E s \in Steps : db.step[s] = "running"

\* A step stays written off only while a dead letter blocks it: every requeue
\* revives all the steps it unblocks, also those that another dead letter, since
\* requeued, had blocked too, and no step cancelled for good is left without a cause.
WriteOffJustified ==
    db.run \notin {"cancelling", "cancelled"} => StepsIn(db, {"cancelled"}) \subseteq Blocked(db)

\* Under continue_independent_branches an open run never holds a pending step
\* that planWriteOff would write off.
NoLimbo ==
    Open(db) /\ OnFailure = "continue_independent_branches" => WriteOff(db) = {}

\* What is decided stays decided: a settled step is reopened only from
\* dead_lettered (requeue) or from cancelled in a run that is not being
\* cancelled (revive), an edge resolves once, an approval is decided once per
\* gate attempt, and succeeded and cancelled runs never change.
FinalStep ==
    /\ \A s \in Steps : db.step[s] \in Settled /\ db'.step[s] # db.step[s] =>
         \/ db.step[s] = "dead_lettered" /\ db'.step[s] = "ready"
         \/ db.step[s] = "cancelled" /\ db'.step[s] = "pending"
              /\ db.run \notin {"cancelling", "cancelled"}
    /\ \A e \in Edges : db.edge[e] # "unresolved" => db'.edge[e] = db.edge[e]
    /\ \A s \in Steps : db'.approval[s] # db.approval[s] =>
         db.approval[s] = "pending" \/ db'.approval[s] = "pending"
    /\ db.run \in {"succeeded", "cancelled"} => db'.run = db.run

DecisionsAreFinal == [][FinalStep]_db

\* Every counter of the rows equals what it counts, through every transaction that
\* bumps it: the aggregates of the run and the dependency counters of the steps.
CountersMatch == AggregatesMatch /\ DependencyCountersMatch

\* Steps follow the graph: edges resolve with their sources, what started had its
\* dependencies, and what waits for them is announced nowhere.
FollowsTheGraph == ResolutionsMatchSources /\ ReadinessJustified /\ PendingNeverDispatched

\* Nothing is stuck: a pending step waits for an edge that is still open, an open run
\* has a step left to settle and a cancelling run one that is running.
NeverStuck == NoLostWakeup /\ NeverStalled

\* Outcomes have their causes: a verdict its steps, a written-off step a dead letter
\* that blocks it, a pending approval a gate that waits.
OutcomesJustified == VerdictSound /\ WriteOffJustified /\ ApprovalMatchesStep

=============================================================================
