--------------------------- MODULE DispatchProofs ---------------------------
(***************************************************************************)
(* Leases, for every graph, fleet and fault budget: module Dispatch closes *)
(* an attempt exactly when its claim goes and never twice, and implements  *)
(* module RunGraph under the view in which a step is announced while the   *)
(* outbox, the stream, the delayed set or a worker has it.                 *)
(*                                                                         *)
(* The inductive invariant Inv says: the rows are good and the running     *)
(* steps are those with a claim (R!Held); RunGraph's own invariant holds   *)
(* of the view (R!Sound); and the claims, the attempts and the queue are   *)
(* as DispatchTurns says.  Every turn of DispatchTurns is a step of        *)
(* RunGraph on the view (NextInv).                                         *)
(***************************************************************************)
EXTENDS DispatchTurns

-----------------------------------------------------------------------------
\* RunGraph and what is proved about it, of the view.
R == INSTANCE RunGraphFrame WITH db <- View

-----------------------------------------------------------------------------
(* Dispatch's operators on rows, RunGraph's and those of the view agree.   *)

\* RunGraph's assumptions are Dispatch's own.
LEMMA Assumed == R!GraphAssumption /\ R!PolicyAssumption
<1>1. R!IsFiniteSet(Steps) /\ R!IsFiniteSet(Edges)
  BY GraphAssumption DEF IsFiniteSet, R!IsFiniteSet
<1> QED
  BY <1>1, GraphAssumption, PolicyAssumption DEF R!GraphAssumption, R!PolicyAssumption

\* Statuses and rows.
LEMMA SameSets ==
    /\ P!Settled = R!Settled /\ RG!Settled = R!Settled
    /\ P!Rows = R!Rows
BY DEF P!Settled, R!Settled, RG!Settled, P!Rows, R!Rows, P!RunStatus, R!RunStatus, P!StepStatus,
       R!StepStatus, P!Resolution, R!Resolution, P!ApprovalStatus, R!ApprovalStatus

\* Updates of statuses, of the run row and of the outbox.
LEMMA SameStatus ==
    ASSUME NEW d, NEW S, NEW x, NEW y
    PROVE  /\ P!StepsIn(d, S) = R!StepsIn(d, S) /\ RG!StepsIn(d, S) = R!StepsIn(d, S)
           /\ P!Settle(d, S, x) = R!Settle(d, S, x) /\ RG!Settle(d, S, x) = R!Settle(d, S, x)
           /\ P!SetStatus(d, S, x) = R!SetStatus(d, S, x) /\ RG!SetStatus(d, S, x) = R!SetStatus(d, S, x)
           /\ P!Reopen(d, S, x, y) = R!Reopen(d, S, x, y) /\ RG!Reopen(d, S, x, y) = R!Reopen(d, S, x, y)
           /\ P!SetRun(d, x) = R!SetRun(d, x) /\ RG!SetRun(d, x) = R!SetRun(d, x)
           /\ P!Outbox(d, S) = R!Outbox(d, S) /\ RG!Outbox(d, S) = R!Outbox(d, S)
BY DEF P!StepsIn, R!StepsIn, RG!StepsIn, P!Settle, R!Settle, RG!Settle, P!SetStatus, R!SetStatus,
       RG!SetStatus, P!Reopen, R!Reopen, RG!Reopen, P!SetRun, R!SetRun, RG!SetRun,
       P!Outbox, R!Outbox, RG!Outbox, P!Cardinality, R!Cardinality, RG!Cardinality

\* Moves between live statuses.
LEMMA SameLive ==
    ASSUME NEW d, NEW s
    PROVE  /\ P!ClaimStep(d, s) = R!ClaimStep(d, s) /\ RG!ClaimStep(d, s) = R!ClaimStep(d, s)
           /\ P!TakeoverStep(d, s) = R!TakeoverStep(d, s) /\ RG!TakeoverStep(d, s) = R!TakeoverStep(d, s)
           /\ P!RetryStep(d, s) = R!RetryStep(d, s) /\ RG!RetryStep(d, s) = R!RetryStep(d, s)
           /\ P!ThrottleStep(d, s) = R!ThrottleStep(d, s) /\ RG!ThrottleStep(d, s) = R!ThrottleStep(d, s)
           /\ P!SemanticRetryStep(d, s) = R!SemanticRetryStep(d, s)
           /\ RG!SemanticRetryStep(d, s) = R!SemanticRetryStep(d, s)
           /\ P!BudgetParkStep(d, s) = R!BudgetParkStep(d, s)
           /\ RG!BudgetParkStep(d, s) = R!BudgetParkStep(d, s)
           /\ P!ParkRun(d) = R!ParkRun(d) /\ RG!ParkRun(d) = R!ParkRun(d)
           /\ P!ResumeRun(d) = R!ResumeRun(d) /\ RG!ResumeRun(d) = R!ResumeRun(d)
           /\ P!OutboxReady(d) = R!OutboxReady(d) /\ RG!OutboxReady(d) = R!OutboxReady(d)
BY SameStatus, Zenon DEF P!ClaimStep, R!ClaimStep, RG!ClaimStep, P!TakeoverStep, R!TakeoverStep, RG!TakeoverStep,
       P!RetryStep, R!RetryStep, RG!RetryStep, P!ThrottleStep, R!ThrottleStep, RG!ThrottleStep,
       P!SemanticRetryStep, R!SemanticRetryStep, RG!SemanticRetryStep, P!BudgetParkStep,
       R!BudgetParkStep, RG!BudgetParkStep, P!ParkRun, R!ParkRun, RG!ParkRun,
       P!ResumeRun, R!ResumeRun, RG!ResumeRun, P!OutboxReady, R!OutboxReady, RG!OutboxReady

\* Outcomes, sweeps and revivals.
LEMMA SameSettling ==
    ASSUME NEW d, NEW s, NEW S
    PROVE  /\ P!SucceedStep(d, s) = R!SucceedStep(d, s) /\ RG!SucceedStep(d, s) = R!SucceedStep(d, s)
           /\ P!CollectFailStep(d, s) = R!CollectFailStep(d, s)
           /\ RG!CollectFailStep(d, s) = R!CollectFailStep(d, s)
           /\ P!DeadLetterStep(d, s) = R!DeadLetterStep(d, s)
           /\ RG!DeadLetterStep(d, s) = R!DeadLetterStep(d, s)
           /\ P!CancelRunningStep(d, s) = R!CancelRunningStep(d, s)
           /\ RG!CancelRunningStep(d, s) = R!CancelRunningStep(d, s)
           /\ P!CancelSteps(d, S) = R!CancelSteps(d, S) /\ RG!CancelSteps(d, S) = R!CancelSteps(d, S)
           /\ P!CancelAwaiting(d, S) = R!CancelAwaiting(d, S)
           /\ RG!CancelAwaiting(d, S) = R!CancelAwaiting(d, S)
           /\ P!RequeueStep(d, s) = R!RequeueStep(d, s) /\ RG!RequeueStep(d, s) = R!RequeueStep(d, s)
           /\ P!ReviveSteps(d, S) = R!ReviveSteps(d, S) /\ RG!ReviveSteps(d, S) = R!ReviveSteps(d, S)
BY SameStatus, Zenon DEF P!SucceedStep, R!SucceedStep, RG!SucceedStep, P!CollectFailStep, R!CollectFailStep,
       RG!CollectFailStep, P!DeadLetterStep, R!DeadLetterStep, RG!DeadLetterStep,
       P!CancelRunningStep, R!CancelRunningStep, RG!CancelRunningStep, P!CancelSteps, R!CancelSteps,
       RG!CancelSteps, P!CancelAwaiting, R!CancelAwaiting, RG!CancelAwaiting, P!RequeueStep,
       R!RequeueStep, RG!RequeueStep, P!ReviveSteps, R!ReviveSteps, RG!ReviveSteps

\* Verdicts and fan-out.
LEMMA SameFanOut ==
    ASSUME NEW d, NEW s, NEW F
    PROVE  /\ P!Verdicts(s) = R!Verdicts(s) /\ RG!Verdicts(s) = R!Verdicts(s)
           /\ P!FanOut(d, s, F) = R!FanOut(d, s, F) /\ RG!FanOut(d, s, F) = R!FanOut(d, s, F)
BY Zenon DEF P!Verdicts, R!Verdicts, RG!Verdicts, P!Out, R!Out, RG!Out, P!FanOut, R!FanOut, RG!FanOut,
       P!SkipSet, R!SkipSet, RG!SkipSet, P!SkipClosed, R!SkipClosed, RG!SkipClosed, P!Skips,
       R!Skips, RG!Skips, P!Readies, R!Readies, RG!Readies, P!RemainingAfter, R!RemainingAfter,
       RG!RemainingAfter, P!FiredAfter, R!FiredAfter, RG!FiredAfter, P!Resolved, R!Resolved,
       RG!Resolved, P!StepsIn, R!StepsIn, RG!StepsIn, P!In, R!In, RG!In, P!ApplyResolution,
       R!ApplyResolution, RG!ApplyResolution, P!Cardinality, R!Cardinality, RG!Cardinality

\* Write-offs.
LEMMA SamePlans ==
    ASSUME NEW d
    PROVE  /\ P!WriteOff(d) = R!WriteOff(d) /\ RG!WriteOff(d) = R!WriteOff(d)
           /\ P!Blocked(d) = R!Blocked(d) /\ RG!Blocked(d) = R!Blocked(d)
BY Zenon DEF P!WriteOff, R!WriteOff, RG!WriteOff, P!Blocked, R!Blocked, RG!Blocked, P!PlanWriteOff,
       R!PlanWriteOff, RG!PlanWriteOff, P!Impossible, R!Impossible, RG!Impossible, P!In, R!In, RG!In,
       P!StepsIn, R!StepsIn, RG!StepsIn

\* The guards of the rollups.
LEMMA SameGuards ==
    ASSUME NEW d
    PROVE  /\ P!Open(d) = R!Open(d) /\ RG!Open(d) = R!Open(d)
           /\ P!SucceedRunGuard(d) = R!SucceedRunGuard(d) /\ RG!SucceedRunGuard(d) = R!SucceedRunGuard(d)
           /\ P!FailRunRollupGuard(d) = R!FailRunRollupGuard(d)
           /\ RG!FailRunRollupGuard(d) = R!FailRunRollupGuard(d)
           /\ P!CancelRunRollupGuard(d) = R!CancelRunRollupGuard(d)
           /\ RG!CancelRunRollupGuard(d) = R!CancelRunRollupGuard(d)
BY Zenon DEF P!Open, R!Open, RG!Open, P!SucceedRunGuard, R!SucceedRunGuard, RG!SucceedRunGuard,
       P!FailRunRollupGuard, R!FailRunRollupGuard, RG!FailRunRollupGuard, P!CancelRunRollupGuard,
       R!CancelRunRollupGuard, RG!CancelRunRollupGuard, P!Sum, R!Sum, RG!Sum, P!Settled, R!Settled,
       RG!Settled, P!Cardinality, R!Cardinality, RG!Cardinality

\* What ends a transaction.
LEMMA SameTails ==
    ASSUME NEW d
    PROVE  /\ P!AttemptCancelRollup(d) = R!AttemptCancelRollup(d)
           /\ RG!AttemptCancelRollup(d) = R!AttemptCancelRollup(d)
           /\ P!AttemptRunRollup(d) = R!AttemptRunRollup(d)
           /\ RG!AttemptRunRollup(d) = R!AttemptRunRollup(d)
           /\ P!DeadLetterDisposition(d) = R!DeadLetterDisposition(d)
           /\ RG!DeadLetterDisposition(d) = R!DeadLetterDisposition(d)
<1> USE SameGuards, SameStatus
<1> /\ P!AttemptCancelRollup(d) = R!AttemptCancelRollup(d)
    /\ RG!AttemptCancelRollup(d) = R!AttemptCancelRollup(d)
  BY DEF P!AttemptCancelRollup, R!AttemptCancelRollup, RG!AttemptCancelRollup
<1> /\ P!AttemptRunRollup(d) = R!AttemptRunRollup(d)
    /\ RG!AttemptRunRollup(d) = R!AttemptRunRollup(d)
  BY DEF P!AttemptRunRollup, R!AttemptRunRollup, RG!AttemptRunRollup
<1> /\ P!DeadLetterDisposition(d) = R!DeadLetterDisposition(d)
    /\ RG!DeadLetterDisposition(d) = R!DeadLetterDisposition(d)
  BY SamePlans, SameSettling, Zenon
     DEF P!DeadLetterDisposition, R!DeadLetterDisposition, RG!DeadLetterDisposition
<1> QED
  OBVIOUS

\* Approvals, which Dispatch has no steps for.
LEMMA SameApprovals ==
    ASSUME NEW d, NEW s, NEW decision, NEW source
    PROVE  /\ RG!AwaitHumanStep(d, s) = R!AwaitHumanStep(d, s)
           /\ RG!DecisionVerdicts(s, decision) = R!DecisionVerdicts(s, decision)
           /\ RG!DecideApproval(d, s, decision, source) = R!DecideApproval(d, s, decision, source)
           /\ RG!SucceedAwaitingHumanStep(d, s) = R!SucceedAwaitingHumanStep(d, s)
           /\ RG!DeadLetterAwaitingHumanStep(d, s) = R!DeadLetterAwaitingHumanStep(d, s)
           /\ RG!PoisonDeadLetterStep(d, s) = R!PoisonDeadLetterStep(d, s)
BY SameStatus, SameSettling, SameFanOut, Zenon DEF RG!AwaitHumanStep, R!AwaitHumanStep, RG!DecisionVerdicts,
   R!DecisionVerdicts, RG!DecideApproval, R!DecideApproval, RG!SucceedAwaitingHumanStep,
   R!SucceedAwaitingHumanStep, RG!DeadLetterAwaitingHumanStep, R!DeadLetterAwaitingHumanStep,
   RG!PoisonDeadLetterStep, R!PoisonDeadLetterStep

\* A step that settles with a verdict on its out-edges.
LEMMA SameOutcomes ==
    ASSUME NEW d, NEW s, NEW F
    PROVE  /\ P!AttemptRunRollup(P!FanOut(P!SucceedStep(d, s), s, F))
                = R!AttemptRunRollup(R!FanOut(R!SucceedStep(d, s), s, F))
           /\ P!AttemptRunRollup(P!FanOut(P!CollectFailStep(d, s), s, F))
                = R!AttemptRunRollup(R!FanOut(R!CollectFailStep(d, s), s, F))
           /\ RG!AttemptRunRollup(RG!FanOut(RG!SucceedAwaitingHumanStep(d, s), s, F))
                = R!AttemptRunRollup(R!FanOut(R!SucceedAwaitingHumanStep(d, s), s, F))
BY SameSettling, SameFanOut, SameTails, SameApprovals, Zenon

\* The decision on an approval.
LEMMA SameDecide ==
    ASSUME NEW s, NEW decision, NEW source, R!Decide(s, decision, source)
    PROVE  RG!Decide(s, decision, source)
<1> DEFINE d == R!DecideApproval(View, s, decision, source)
<1>1. /\ RG!DecideApproval(View, s, decision, source) = d
      /\ RG!DecisionVerdicts(s, decision) = R!DecisionVerdicts(s, decision)
      /\ RG!DeadLetterDisposition(RG!DeadLetterAwaitingHumanStep(d, s))
            = R!DeadLetterDisposition(R!DeadLetterAwaitingHumanStep(d, s))
  BY SameTails, SameApprovals
<1>2. \A F : RG!AttemptRunRollup(RG!FanOut(RG!SucceedAwaitingHumanStep(d, s), s, F))
            = R!AttemptRunRollup(R!FanOut(R!SucceedAwaitingHumanStep(d, s), s, F))
  BY SameOutcomes, Zenon
<1> HIDE DEF d
<1>3. /\ R!DecideDeadLetter(d, s) => RG!DecideDeadLetter(d, s)
      /\ R!DecideSucceed(d, s, decision) => RG!DecideSucceed(d, s, decision)
  BY <1>1, <1>2 DEF R!DecideDeadLetter, RG!DecideDeadLetter, R!DecideSucceed, RG!DecideSucceed
<1> QED
  BY <1>1, <1>3, SameGuards, Zenon DEF R!Decide, RG!Decide, d

\* The two instances of RunGraph on View have the same steps.
LEMMA SameNext == R!Next => RG!Next
<1> USE SameStatus, SameLive, SameSettling, SameFanOut, SamePlans, SameGuards, SameTails, SameApprovals
<1> \A s : /\ R!ExpireApprovalPark(s) => RG!ExpireApprovalPark(s)
           /\ R!BackoffElapses(s) => RG!BackoffElapses(s)
           /\ R!ReconcileDispatch(s) => RG!ReconcileDispatch(s)
  BY DEF R!ExpireApprovalPark, RG!ExpireApprovalPark, R!BackoffElapses, RG!BackoffElapses,
         R!ReconcileDispatch, RG!ReconcileDispatch, R!Claimable, RG!Claimable
<1> \A s : R!Requeue(s) => RG!Requeue(s)
  BY DEF R!Requeue, RG!Requeue
<1> \A S : R!DropDeliveries(S) => RG!DropDeliveries(S)
  BY DEF R!DropDeliveries, RG!DropDeliveries
<1> USE Zenon
<1> \A s : R!Claim(s) => RG!Claim(s)
  BY DEF R!Claim, RG!Claim, R!Claimable, RG!Claimable
<1> \A s : R!CompleteSuccess(s) => RG!CompleteSuccess(s)
  BY DEF R!CompleteSuccess, RG!CompleteSuccess
<1> \A s, b : R!CompleteFailure(s, b) => RG!CompleteFailure(s, b)
  BY DEF R!CompleteFailure, RG!CompleteFailure, R!FailStep, RG!FailStep, R!Retries, RG!Retries,
         R!SettleCancelled, RG!SettleCancelled
<1> \A s : R!CompleteValidationFailure(s) => RG!CompleteValidationFailure(s)
  BY DEF R!CompleteValidationFailure, RG!CompleteValidationFailure, R!SettleCancelled, RG!SettleCancelled
<1> \A s : /\ R!CompleteThrottle(s) => RG!CompleteThrottle(s)
           /\ R!CompleteBudgetPark(s) => RG!CompleteBudgetPark(s)
           /\ R!CompleteAwaitHuman(s) => RG!CompleteAwaitHuman(s)
  BY DEF R!CompleteThrottle, RG!CompleteThrottle, R!CompleteBudgetPark, RG!CompleteBudgetPark,
         R!CompleteAwaitHuman, RG!CompleteAwaitHuman, R!SettleCancelled, RG!SettleCancelled
<1> \A s : R!HandlePoison(s) => RG!HandlePoison(s)
  BY DEF R!HandlePoison, RG!HandlePoison, R!PoisonStep, RG!PoisonStep
<1> \A s, decision, source : R!Decide(s, decision, source) => RG!Decide(s, decision, source)
  BY SameDecide
<1> \A s : /\ R!ReconcileRunning(s) => RG!ReconcileRunning(s)
           /\ R!HealCancellingStep(s) => RG!HealCancellingStep(s)
  BY DEF R!ReconcileRunning, RG!ReconcileRunning, R!HealCancellingStep, RG!HealCancellingStep
<1> R!Cancel => RG!Cancel
  BY DEF R!Cancel, RG!Cancel
<1> (R!Park => RG!Park) /\ (R!Unpark => RG!Unpark)
  BY DEF R!Park, RG!Park, R!Unpark, RG!Unpark
<1> QED
  BY DEF R!Next, RG!Next, R!Complete, RG!Complete

-----------------------------------------------------------------------------
(* The transactions of Dispatch, as relations between rows.                *)

\* A turn that stops s.
LEMMA FinishTurns ==
    ASSUME NEW s, FinishTurn(s)
    PROVE  R!Finishes(rows, rows', s, Extra)
<1> P!CompleteSuccess(s) => R!Succeeds(rows, rows', s)
  <2> /\ P!AttemptRunRollup(P!SucceedStep(rows, s)) = R!AttemptRunRollup(R!SucceedStep(rows, s))
      /\ P!Verdicts(s) = R!Verdicts(s)
    BY SameSettling, SameFanOut, SameTails
  <2> \A F : P!AttemptRunRollup(P!FanOut(P!SucceedStep(rows, s), s, F))
                  = R!AttemptRunRollup(R!FanOut(R!SucceedStep(rows, s), s, F))
    BY SameOutcomes, Zenon
  <2> QED
    BY DEF P!CompleteSuccess, R!Succeeds
<1> \A retryable : P!FailStep(s, retryable) => R!Fails(rows, rows', s, retryable)
  <2> /\ P!AttemptCancelRollup(P!CancelRunningStep(rows, s))
             = R!AttemptCancelRollup(R!CancelRunningStep(rows, s))
      /\ P!DeadLetterDisposition(P!DeadLetterStep(rows, s))
             = R!DeadLetterDisposition(R!DeadLetterStep(rows, s))
      /\ P!Verdicts(s) = R!Verdicts(s)
    BY SameSettling, SameFanOut, SameTails
  <2> \A F : P!AttemptRunRollup(P!FanOut(P!CollectFailStep(rows, s), s, F))
                  = R!AttemptRunRollup(R!FanOut(R!CollectFailStep(rows, s), s, F))
    BY SameOutcomes, Zenon
  <2> QED
    BY Zenon DEF P!FailStep, P!SettleCancelled, P!Retries, R!Fails, R!SettlesCancelled, R!DeadLetters
<1> USE SameStatus, SameLive, SameSettling, SameFanOut, SameTails, Zenon
<1> P!CompleteValidationFailure(s) => R!Invalidates(rows, rows', s)
  BY DEF P!CompleteValidationFailure, P!SettleCancelled, R!Invalidates, R!SettlesCancelled, R!DeadLetters
<1> P!CompleteBudgetPark(s) => R!BudgetParks(rows, rows', s)
  BY DEF P!CompleteBudgetPark, P!SettleCancelled, R!BudgetParks, R!SettlesCancelled
<1> P!PoisonStep(s) => R!Poisons(rows, rows', s)
  BY DEF P!PoisonStep, P!PoisonDeadLetterStep, R!Poisons
<1> /\ P!ReconcileRunning(s) => R!TakesOver(rows, rows', s)
    /\ P!HealCancellingStep(s) => R!Heals(rows, rows', s)
  BY DEF P!ReconcileRunning, R!TakesOver, P!HealCancellingStep, R!Heals
<1> /\ rows.step[s] = "running" /\ rows.run # "cancelling"
    /\ (P!Retries(s, TRUE) /\ rows' = P!RetryStep(rows, s)) \/ rows' = P!ThrottleStep(rows, s)
    => R!Reschedules(rows, rows', s)
  BY DEF P!Retries, R!Reschedules
<1> QED
  BY DEF FinishTurn, R!Finishes

\* The other three.
LEMMA OtherTurns ==
    /\ TendTurn => R!Tends(rows, rows')
    /\ \A s : ClaimTurn(s) => R!Claims(rows, rows', s)
    /\ RestTurn => R!Rests(rows, rows')
<1> USE SameStatus, SameLive, SameSettling, SamePlans, SameGuards, SameTails
<1>1. P!Cancel => R!Cancels(rows, rows')
  BY ZenonT(40) DEF P!Cancel, R!Cancels
<1>2. P!Unpark => R!Unparks(rows, rows')
  BY ZenonT(40) DEF P!Unpark, R!Unparks
<1>3. \A s : P!Requeue(s) => R!Requeues(rows, rows', s)
  BY SMTT(30) DEF P!Requeue, R!Requeues
<1>4. TendTurn => R!Tends(rows, rows')
  BY <1>1, <1>2, <1>3, ZenonT(40) DEF TendTurn, R!Tends, R!Takable, P!Park, P!BackoffElapses,
     P!ReconcileDispatch, P!Claimable
<1>5. \A s : ClaimTurn(s) => R!Claims(rows, rows', s)
  BY ZenonT(40) DEF ClaimTurn, R!Claims, R!Takable, P!Claimable
<1>6. RestTurn => R!Rests(rows, rows')
  BY SMTT(30) DEF RestTurn, R!Rests
<1> HIDE SameStatus, SameLive, SameSettling, SamePlans, SameGuards, SameTails
<1> QED
  BY <1>4, <1>5, <1>6, Zenon

-----------------------------------------------------------------------------
(* The inductive invariant.                                                *)

\* The inductive invariant.
Inv == R!Held(rows, Holders) /\ R!Sound(View) /\ LedgerOK /\ QueueOK

\* The view is the rows with the further announcements Extra.
LEMMA ViewIs == View = R!Outbox(rows, Extra) /\ View' = R!Outbox(rows', Extra')
<1>1. \A D : /\ D \cup StreamSteps \cup delayed \cup WorkerSteps = D \cup Extra
             /\ D \cup StreamSteps' \cup delayed' \cup WorkerSteps' = D \cup Extra'
  BY DEF Extra
<1> QED
  BY <1>1, Zenon DEF View, StreamSteps, WorkerSteps, R!Outbox

\* Announced are steps.
LEMMA ExtraSteps ==
    ASSUME QueueOK
    PROVE  Extra \subseteq Steps
BY DEF QueueOK, StreamOK, Entry, WorkersOK, Worker, Extra, StreamSteps, WorkerSteps

\* The holders run.
LEMMA InvHolders ==
    ASSUME Inv
    PROVE  HoldersRun
BY DEF Inv, R!Held, R!StepsIn, Holders, HoldersRun

\* A new run has no claims and an empty queue.
LEMMA InitInv ==
    ASSUME Init
    PROVE  Inv /\ RG!Init
<1>1. claim = [s \in Steps |-> None] /\ attempt = [c \in Claims |-> "none"]
      /\ stream = [e \in Entries |-> NoEntry] /\ group = TRUE /\ delayed = {}
      /\ worker = [w \in Workers |-> Idle] /\ losses = 0
  BY DEF Init
<1>2. Extra = {} /\ QueueOK
  BY <1>1, IdleIsOK, NoEntryIsEntry, QueueAssumption DEF Extra, StreamSteps, WorkerSteps, NoEntry,
     QueueOK, StreamOK, WorkersOK, HandOK
<1>3. Holders = {} /\ LedgerOK
  BY <1>1, NoneIsNoClaim DEF Holders, LedgerOK, Attempt
<1>4. View = rows
  BY <1>2, ViewIs DEF R!Outbox, Init, P!Init
<1>5. R!Init /\ RG!Init
  BY <1>4, Zenon DEF Init, P!Init, R!Init, RG!Init, P!Roots, R!Roots, RG!Roots, P!In, R!In, RG!In,
     P!Settled, R!Settled, RG!Settled, P!Cardinality, R!Cardinality, RG!Cardinality
<1>6. R!Held(View, {}) /\ R!Sound(View)
  BY <1>5, Assumed, R!MovesInit DEF R!GraphAssumption, R!PolicyAssumption
<1> QED
  BY <1>2, <1>3, <1>4, <1>5, <1>6 DEF Inv

\* Every step keeps the invariant, closes attempts once, and shows in RunGraph.
LEMMA NextInv ==
    ASSUME Inv, Next
    PROVE  Inv' /\ Once /\ [RG!Next]_View
<1>1. /\ QueueOK' /\ LedgerOK' /\ Once
      /\ RestTurn \/ TendTurn \/ \E s \in Steps : FinishTurn(s) \/ ClaimTurn(s)
  BY InvHolders, StepTurns DEF Inv
<1>2. R!Moves(rows, rows', Extra, Extra', Holders, Holders')
  BY <1>1, FinishTurns, OtherTurns, Zenon DEF R!Moves, FinishTurn, TendTurn, ClaimTurn, RestTurn
<1>3. Extra \in SUBSET Steps /\ View = R!Outbox(rows, Extra) /\ View' = R!Outbox(rows', Extra')
  BY ExtraSteps, ViewIs DEF Inv
<1>4. [R!Next]_View /\ R!Sound(View') /\ R!Held(rows', Holders')
  BY <1>2, <1>3, Assumed, R!MovesStep DEF Inv, R!GraphAssumption, R!PolicyAssumption
<1> QED
  BY <1>1, <1>4, SameNext DEF Inv

-----------------------------------------------------------------------------
(* The theorems.                                                           *)

\* Whatever the graph, the fleet and the faults: the rows are good, RunGraph's
\* invariant holds of the view, and claims, attempts and queue agree.
THEOREM LeaseInvariant == Spec => []Inv
<1>1. Inv /\ [Next]_vars => Inv'
  <2>1. CASE UNCHANGED vars
    BY <2>1 DEF vars, Inv, R!Held, Holders, View, LedgerOK, QueueOK, StreamOK, WorkersOK
  <2> QED
    BY <2>1, NextInv
<1> QED
  BY <1>1, InitInv, PTL DEF Spec

\* Postgres rows, stream entries, delayed members and workers keep their types.
THEOREM QueueTypesTheorem == Spec => []TypeOK
<1>1. Inv => TypeOK
  <2> SUFFICES ASSUME Inv PROVE TypeOK
    OBVIOUS
  <2>1. P!TypeOK
    BY Assumed, R!GoodCounts, SameSets DEF Inv, R!Held, P!TypeOK, R!GraphAssumption, R!PolicyAssumption
  <2> QED
    BY <2>1 DEF TypeOK, Inv, LedgerOK, QueueOK, StreamOK, WorkersOK, HandOK
<1> QED
  BY <1>1, LeaseInvariant, PTL

\* Every takeover, poison letter, heal and completion closes the attempt it
\* displaces: an attempt is open exactly while its step runs under its claim.
THEOREM AttemptsTheorem == Spec => []AttemptsMatchClaims
<1>1. Inv => AttemptsMatchClaims
  BY InvHolders DEF Inv, LedgerOK, HoldersRun, AttemptsMatchClaims
<1> QED
  BY <1>1, LeaseInvariant, PTL

\* A zombie that wakes after a takeover writes nothing: no attempt is closed twice.
THEOREM ClosedOnceTheorem == Spec => ClosedOnce
<1>1. Inv /\ [Next]_vars => [Once]_vars
  BY NextInv
<1>2. Spec => [][Once]_vars
  BY <1>1, LeaseInvariant, PTL DEF Spec
<1> QED
  BY <1>2, PTL DEF ClosedOnce, Once

\* At-least-once delivery with fenced claims implements RunGraph, whatever is
\* redelivered, reclaimed, lost or delayed.
THEOREM RefinementTheorem == Spec => ImplementsRunGraph
<1>1. Init => RG!Init
  BY InitInv
<1>2. Inv /\ [Next]_vars => [RG!Next]_View
  <2>1. UNCHANGED vars => UNCHANGED View
    BY DEF vars, View
  <2> QED
    BY <2>1, NextInv
<1> QED
  BY <1>1, <1>2, LeaseInvariant, PTL DEF Spec, ImplementsRunGraph, RG!Spec

=============================================================================
