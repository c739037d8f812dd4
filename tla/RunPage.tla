------------------------------ MODULE RunPage ------------------------------
(***************************************************************************)
(* A run under way and a dashboard page that watches it.  Workers, the     *)
(* reconciler and operators commit the transactions of module Transitions; *)
(* a worker may hold a claim long after it lost it.  The page reads the    *)
(* run body in several statements, then folds the event feed, which module *)
(* EventFeed shows to arrive complete and in order, over what it read, and *)
(* now and then refetches the body.                                        *)
(***************************************************************************)
EXTENDS Transitions

CONSTANTS
    CancelDuringSweep, \* may a cancel commit between a sweep's scan and its takeovers?
    MaxHeard           \* bound: the page is closed after so many commits

VARIABLES
    d,      \* the rows
    sweep,  \* the reconciler's scan: stale running steps with their claims
    page

vars == <<d, sweep, page>>

Closed == [pc |-> "closed", run |-> "none", step |-> <<>>, approvals |-> <<>>,
           queue |-> <<>>, seen |-> 0, heard |-> 0, fetch |-> [pc |-> "none"]]

Init == d = FirstRows /\ sweep = {} /\ page = Closed

-----------------------------------------------------------------------------
(* Commits.                                                                *)

\* Events committed after the page read the run row are queued for it.
Hear(p, events) ==
    IF p.pc = "closed" \/ events = <<>> THEN p
    ELSE IF p.heard = MaxHeard THEN Closed
    ELSE [p EXCEPT !.queue = @ \o events, !.heard = @ + 1]

Commit(T) ==
    \E x \in T : d' = [x EXCEPT !.events = <<>>] /\ page' = Hear(page, x.events)

Claims == MapThenSumSet(LAMBDA s : d.step[s].attempt, Steps)

Claim(s) ==
    /\ s \in d.dispatch /\ Claims < MaxClaims
    /\ Commit(ClaimStepWithOrigin(d, s))
    /\ UNCHANGED sweep

\* Whoever held claim c once reports, now or late; one that lost it is refused.
Report(c, s, T) == c <= d.step[s].attempt /\ Commit(T) /\ UNCHANGED sweep

Truths(s) == SUBSET (Out(s) \cap Conditional)

Complete(s, c) ==
    \/ s \notin Gates /\ \E M \in Truths(s) : Report(c, s, CompleteSuccess(d, s, c, M))
    \/ \E class \in {"transient", "permanent"}, M \in Truths(s) :
          Report(c, s, CompleteFailure(d, s, c, class, M))
    \/ s \notin Gates /\ Report(c, s, CompleteValidationFailure(d, s, c))
    \/ Report(c, s, CompleteThrottle(d, s, c))
    \/ Report(c, s, CompleteBudgetPark(d, s, c))
    \/ s \in Gates /\ Report(c, s, CompleteAwaitHuman(d, s, c))

Poison(s) ==
    s \in d.dispatch /\ Commit(HandlePoison(d, s)) /\ UNCHANGED sweep

\* The approval the page or the inbox named: also one that was decided since.
DecideOn(s, n) ==
    /\ \/ \E decision \in {"approve", "reject"}, M \in Truths(s) :
             Commit(Decide(d, s, n, decision, "human", M))
       \/ /\ OnTimeout \in {"approve", "reject"} /\ n \in PendingApprovals(d, s)
          /\ \E M \in Truths(s) : Commit(Decide(d, s, n, OnTimeout, "timeout", M))
       \/ OnTimeout = "park" /\ Live(d) /\ Commit(ExpireApprovalPark(d, s, n))
    /\ UNCHANGED sweep

Cancel ==
    /\ CancelDuringSweep \/ sweep = {}
    /\ Commit(CancelRunTx(d)) /\ UNCHANGED sweep

Park == Commit(ParkRun(d)) /\ UNCHANGED sweep

UnparkTx == Commit(Unpark(d)) /\ UNCHANGED sweep

RequeueTx(s) ==
    d.requeues < MaxRequeues /\ Commit(Requeue(d, s)) /\ UNCHANGED sweep

\* Time passes, entries are dropped or lost: nothing is committed for the page.
BackoffElapses(s) ==
    /\ d.step[s].status = "retrying" /\ d.step[s].next = "future"
    /\ d' = [d EXCEPT !.step[s].next = "past"]
    /\ UNCHANGED <<sweep, page>>

DropDelivery(s) ==
    /\ s \in d.dispatch /\ d.step[s].status # "pending"
    /\ d' = [d EXCEPT !.dispatch = @ \ {s}]
    /\ UNCHANGED <<sweep, page>>

\* ListStaleReadySteps and ListOverdueRetryingSteps.
ReconcileDispatch(s) ==
    /\ d.run = "running" /\ s \notin d.dispatch
    /\ d.step[s].status = "ready" \/ (d.step[s].status = "retrying" /\ d.step[s].next = "past")
    /\ d' = CreateOutboxTask(d, {s})
    /\ UNCHANGED <<sweep, page>>

\* ListStaleRunningSteps: a step, its claim and whether an outbox row announces it,
\* as the scan's snapshot has them.  Any age of a claim may be past the threshold.
ScanStaleRunning ==
    /\ sweep = {} /\ d.run = "running"
    /\ \E s \in StepsIn(d, {"running"}), pending \in BOOLEAN :
          /\ pending => s \in d.dispatch
          /\ sweep' = {[step |-> s, claim |-> d.step[s].claim, pending |-> pending]}
    /\ UNCHANGED <<d, page>>

\* A takeover of the sweep's transaction; a conflict drops this heal, never the
\* sweep.  Nothing looks at the run again.
TakeOver(e) ==
    /\ e \in sweep /\ sweep' = sweep \ {e}
    /\ Commit(OrElse({IF e.pending THEN x ELSE CreateOutboxTask(x, {e.step}) :
                          x \in TakeoverStep(d, e.step, e.claim)}, d))

\* ListStaleRunningStepsInCancellingRuns.
Heal(s) ==
    /\ d.run = "cancelling"
    /\ Commit(HealCancellingStep(d, s, d.step[s].claim)) /\ UNCHANGED sweep

-----------------------------------------------------------------------------
(* The page.                                                               *)

ViewOf(rows) == [s \in Steps |-> [n \in DOMAIN rows.approvals[s] |->
                    [status |-> rows.approvals[s][n].status, last |-> 0, partial |-> FALSE]]]

\* loadRunResponse: the run row with its event cursor first.
OpenPage ==
    /\ page.pc = "closed" /\ MaxHeard > 0
    /\ page' = [Closed EXCEPT !.pc = "row", !.run = d.run]
    /\ UNCHANGED <<d, sweep>>

\* Then the steps and, in a later statement, the approvals.
ReadSteps ==
    /\ page.pc = "row"
    /\ page' = [page EXCEPT !.pc = "steps", !.step = [s \in Steps |-> d.step[s].status]]
    /\ UNCHANGED <<d, sweep>>

ReadApprovals ==
    /\ page.pc = "steps"
    /\ page' = [page EXCEPT !.pc = "backfill", !.approvals = ViewOf(d)]
    /\ UNCHANGED <<d, sweep>>

RunStatusForEvent(type, old) ==
    CASE type = "run_succeeded" -> "succeeded"
      [] type = "run_failed" -> "failed"
      [] type \in {"run_resumed", "run_unparked"} -> "running"
      [] type = "run_parked" -> "parked"
      [] type = "run_cancelling" -> "cancelling"
      [] type = "run_cancelled" -> "cancelled"
      [] OTHER -> old

StepStatusForEvent(type, old) ==
    CASE type \in {"step_ready", "step_requeued"} -> "ready"
      [] type \in {"step_claimed", "step_reclaimed"} -> "running"
      [] type = "step_succeeded" -> "succeeded"
      [] type \in {"step_retry_scheduled", "step_semantic_retry_scheduled"} -> "retrying"
      [] type = "step_throttled" -> "throttled"
      [] type = "step_dead_lettered" -> "dead_lettered"
      [] type = "step_cancelled" -> "cancelled"
      [] type = "step_collected" -> "collected"
      [] type = "step_skipped" -> "skipped"
      [] type = "step_revived" -> "pending"
      [] type = "approval_requested" -> "awaiting_human"
      [] OTHER -> old

\* applyApprovalEvent on the records of one step.  Only action run_parked leaves
\* the record pending; a record the feed alone told of is partial.
ApplyApprovalEvent(view, ev, seq) ==
    LET n == ev.approval
        known == n \in DOMAIN view
        status == CASE ev.type = "approval_requested" -> "pending"
                    [] ev.type = "approval_decided" -> ev.says
                    [] ev.type = "approval_expired" ->
                          IF ev.says = "run_parked" THEN "pending" ELSE "expired"
                    [] OTHER -> "cancelled"
        record == [status |-> status, last |-> seq,
                   partial |-> known => view[n].partial]
    IN  IF n = 0 \/ (known /\ seq <= view[n].last) THEN view
        ELSE IF known THEN [view EXCEPT ![n] = record] ELSE Append(view, record)

\* applyEvent on the event after the last one seen.
ApplyEvent(p, ev) ==
    LET heard == [p EXCEPT !.seen = @ + 1, !.run = RunStatusForEvent(ev.type, @)]
    IN  IF ev.step = "none" THEN heard
        ELSE [heard EXCEPT !.step[ev.step] = StepStatusForEvent(ev.type, @),
                           !.approvals[ev.step] = ApplyApprovalEvent(@, ev, p.seen + 1)]

\* onCaughtUp: the buffered events are folded in one go, no refetch is asked for.
CaughtUp ==
    /\ page.pc = "backfill"
    /\ page' = [FoldLeft(ApplyEvent, page, page.queue) EXCEPT !.pc = "live", !.queue = <<>>]
    /\ UNCHANGED <<d, sweep>>

\* onEvent; refreshViews does nothing while a refetch is under way.
OnEvent ==
    /\ page.pc = "live" /\ page.queue # <<>>
    /\ LET ev == Head(page.queue)
           asks == /\ ev.type \in {"approval_requested", "step_dead_lettered"}
                   /\ page.fetch.pc = "none"
       IN  page' = [ApplyEvent(page, ev) EXCEPT
                        !.queue = Tail(@),
                        !.fetch = IF asks THEN [pc |-> "asked"] ELSE @]
    /\ UNCHANGED <<d, sweep>>

\* The refetch: again the run row with its cursor, then the approvals.
FetchRow ==
    /\ page.fetch.pc = "asked"
    /\ page' = [page EXCEPT !.fetch = [pc |-> "row", run |-> d.run,
                                       seq |-> page.seen + Len(page.queue)]]
    /\ UNCHANGED <<d, sweep>>

FetchRest ==
    /\ page.fetch.pc = "row"
    /\ page' = [page EXCEPT !.fetch = [pc |-> "body", run |-> @.run, seq |-> @.seq,
                                       approvals |-> ViewOf(d)]]
    /\ UNCHANGED <<d, sweep>>

\* mergeApprovalViews: a record the feed is ahead of only gets its shape.
MergeApprovalViews(view, body, seq) ==
    [n \in 1 .. Len(IF Len(view) > Len(body) THEN view ELSE body) |->
        IF n \notin DOMAIN body THEN view[n]
        ELSE IF n \in DOMAIN view /\ view[n].last > seq THEN [view[n] EXCEPT !.partial = FALSE]
        ELSE [body[n] EXCEPT !.last = seq]]

\* Fault: the run row of any body is adopted.
MergeAnyRow ==
    /\ page.fetch.pc = "body"
    /\ LET b == page.fetch
       IN  page' = [page EXCEPT
              !.fetch = [pc |-> "none"],
              !.run = b.run,
              !.approvals = [s \in Steps |-> MergeApprovalViews(@[s], b.approvals[s], b.seq)]]
    /\ UNCHANGED <<d, sweep>>

\* mergeRunResponse: the run row only from a body at least as fresh as the feed.
MergeRunResponse ==
    /\ page.fetch.pc = "body"
    /\ LET b == page.fetch
       IN  page' = [page EXCEPT
              !.fetch = [pc |-> "none"],
              !.run = IF b.seq >= page.seen THEN b.run ELSE @,
              !.approvals = [s \in Steps |-> MergeApprovalViews(@[s], b.approvals[s], b.seq)]]
    /\ UNCHANGED <<d, sweep>>

-----------------------------------------------------------------------------

Next ==
    \/ \E s \in Steps :
         \/ Claim(s) \/ Poison(s) \/ RequeueTx(s) \/ BackoffElapses(s) \/ DropDelivery(s)
         \/ ReconcileDispatch(s) \/ Heal(s)
         \/ \E c \in 1 .. MaxClaims : Complete(s, c)
         \/ \E n \in DOMAIN d.approvals[s] : DecideOn(s, n)
    \/ Cancel \/ Park \/ UnparkTx \/ ScanStaleRunning
    \/ \E e \in sweep : TakeOver(e)
    \/ OpenPage \/ ReadSteps \/ ReadApprovals \/ CaughtUp \/ OnEvent
    \/ FetchRow \/ FetchRest \/ MergeRunResponse

Spec == Init /\ [][Next]_vars

-----------------------------------------------------------------------------
(* Correctness.                                                            *)

Latest(s) == IF d.approvals[s] = <<>> THEN [status |-> "none", expired |-> FALSE]
             ELSE d.approvals[s][Len(d.approvals[s])]

\* The rows as RunGraph holds them.  The attempt that settled a collected step is
\* not one of the failures its retry budget was counted over.
Rows ==
    [run       |-> d.run,
     step      |-> [s \in Steps |-> d.step[s].status],
     edge      |-> d.edge,
     remaining |-> [s \in Steps |-> d.step[s].remaining],
     fired     |-> [s \in Steps |-> d.step[s].fired],
     counters  |-> d.counters,
     transport |-> [s \in Steps |->
         IF d.step[s].status = "collected" /\ d.attempts[s][d.step[s].attempt] = "transient"
         THEN CountCountedFailures(d, s) - 1 ELSE CountCountedFailures(d, s)],
     semantic  |-> [s \in Steps |-> CountValidationFailures(d, s)],
     due       |-> {s \in Steps : d.step[s].next = "past"},
     approval  |-> [s \in Steps |-> Latest(s).status],
     expired   |-> {s \in Steps : Latest(s).expired},
     dispatch  |-> d.dispatch,
     requeues  |-> d.requeues]

RG == INSTANCE RunGraph WITH db <- Rows

\* Statement by statement, with worklists, rounds and fences, the transactions
\* do to the rows what RunGraph's one-step actions say and nothing else; reports
\* without a claim, refused heals and everything the page does change nothing.
ImplementsRunGraph == RG!Init /\ [][RG!Next \/ UNCHANGED Rows]_vars

\* The step_attempts ledger agrees with the step row: attempts are numbered by
\* claims, exactly the last one is open, and only while the step runs under that
\* claim or its gate waits for a human; a pending approval is that attempt's; the
\* failure budgets of a dead-lettered step start afresh.
LedgerMatches ==
    \A s \in Steps :
        LET r == d.step[s]
            open == {n \in DOMAIN d.attempts[s] : d.attempts[s][n] = "open"}
        IN  /\ Len(d.attempts[s]) = r.attempt
            /\ open = IF r.status \in {"running", "awaiting_human"} THEN {r.attempt} ELSE {}
            /\ r.status = "running" => r.claim = r.attempt
            /\ \A n \in PendingApprovals(d, s) :
                  r.status = "awaiting_human" /\ d.approvals[s][n].attempt = r.attempt
            /\ r.status = "dead_lettered" => d.baseline[s] = r.attempt

\* The holder of the current claim is never turned away: no completion of it
\* meets a conflict or one of the integrity errors of ResolveEdge, finishAttempt,
\* ReadyStep or SkipStep, which would redeliver the entry for ever.
HolderNeverRefused ==
    \A s \in StepsIn(d, {"running"}) :
        /\ \A M \in Truths(s) : CompleteSuccess(d, s, d.step[s].claim, M) # {}
        /\ CompleteFailure(d, s, d.step[s].claim, "permanent", {}) # {}

\* A heal is fenced on the claim the scan saw: one taken since is left alone.
FreshClaimSurvives ==
    [][\A e \in sweep \ sweep' : d.step[e.step].claim # e.claim => d' = d]_vars

\* What the page may show for a step: its status; `throttled` for a throttled
\* retry; and still `running` after the claim was given back.
Shows(s) ==
    LET status == d.step[s].status
    IN  \/ page.step[s] = status
        \/ page.step[s] = "throttled" /\ status = "retrying"
        \/ /\ page.step[s] = "running" /\ status = "ready"
           /\ d.attempts[s][d.step[s].attempt] \in {"lost", "budget_exceeded"}

UpToDate == page.pc = "live" /\ page.queue = <<>>

\* "a run mid-flight may show a step newer than its rollup counters; the next
\* poll (or the next event on a WS stream) heals it" (internal/api/runs.go): a page
\* that has heard every event shows the run and every step as the rows have them,
\* whatever committed between the reads of its body and of its refetches.
ViewHeals == UpToDate => page.run = d.run /\ \A s \in Steps : Shows(s)

\* The approvals it shows are those of the rows too, but for a gate whose expiry
\* found the run parked already.
ApprovalsHeal ==
    UpToDate => \A s \in Steps :
        /\ Len(page.approvals[s]) = Len(d.approvals[s])
        /\ \A n \in DOMAIN d.approvals[s] :
              \/ page.approvals[s][n].status = d.approvals[s][n].status
              \/ page.approvals[s][n].status = "expired" /\ d.approvals[s][n].expired

\* The states ListStalledRuns calls impossible do not occur.
NeverStalled == RG!NeverStalled

=============================================================================
