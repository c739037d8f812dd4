--------------------------- MODULE RunGraphFrame ----------------------------
(***************************************************************************)
(* The transactions of module RunGraph do not look at announcements: on    *)
(* rows d with the further announcements X, that is on Outbox(d, X), a     *)
(* transaction does what it does on d, and X stays.  Module Dispatch keeps *)
(* announcements outside the rows, in the stream, the delayed set and the  *)
(* workers' hands; MovesStep, at the end, turns each of its steps on the   *)
(* rows into a step of RunGraph.                                           *)
(***************************************************************************)
EXTENDS RunGraphSafety

-----------------------------------------------------------------------------
(* The updates of the rows commute with further announcements X.           *)

\* Only the dispatch column differs.
LEMMA WideColumns ==
    ASSUME NEW d \in Rows, NEW X
    PROVE  LET v == Outbox(d, X)
           IN  /\ v.run = d.run /\ v.step = d.step /\ v.edge = d.edge
               /\ v.remaining = d.remaining /\ v.fired = d.fired
               /\ v.counters = d.counters /\ v.transport = d.transport
               /\ v.semantic = d.semantic /\ v.due = d.due
               /\ v.approval = d.approval /\ v.expired = d.expired
               /\ v.requeues = d.requeues /\ v.dispatch = d.dispatch \cup X
BY DEF Outbox, Rows

\* What a completion reads of the rows to resolve edges.
LEMMA WideReads ==
    ASSUME NEW d \in Rows, NEW X, NEW s, NEW F
    PROVE  /\ \A T : StepsIn(Outbox(d, X), T) = StepsIn(d, T)
           /\ \A K : Resolved(Outbox(d, X), s, K) = Resolved(d, s, K)
           /\ \A t, R : Readies(Outbox(d, X), t, R, F) <=> Readies(d, t, R, F)
           /\ SkipSet(Outbox(d, X), s, F) = SkipSet(d, s, F)
<1> DEFINE v == Outbox(d, X)
<1>1. /\ v.step = d.step /\ v.edge = d.edge /\ v.remaining = d.remaining /\ v.fired = d.fired
  BY WideColumns
<1> HIDE DEF v
<1>2. \A T : StepsIn(v, T) = StepsIn(d, T)
  BY <1>1 DEF StepsIn
<1>3. \A K : Resolved(v, s, K) = Resolved(d, s, K)
  BY <1>1 DEF Resolved
<1>4. \A t, R : Skips(v, t, R, F) <=> Skips(d, t, R, F)
  BY <1>1 DEF Skips, RemainingAfter, FiredAfter
<1>5. \A t, R : Readies(v, t, R, F) <=> Readies(d, t, R, F)
  BY <1>1 DEF Readies, RemainingAfter, FiredAfter
<1>6. \A K : SkipClosed(v, s, F, K) <=> SkipClosed(d, s, F, K)
  BY <1>2, <1>3, <1>4 DEF SkipClosed
<1>7. SkipSet(v, s, F) = SkipSet(d, s, F)
  BY <1>2, <1>6 DEF SkipSet
<1> QED
  BY <1>2, <1>3, <1>5, <1>7 DEF v

\* What a dead letter writes off and a requeue may revive.
LEMMA WidePlans ==
    ASSUME NEW d \in Rows, NEW X
    PROVE  /\ WriteOff(Outbox(d, X)) = WriteOff(d)
           /\ Blocked(Outbox(d, X)) = Blocked(d)
<1> DEFINE v == Outbox(d, X)
<1>1. v.edge = d.edge /\ v.fired = d.fired
  BY WideColumns
<1>2. \A T : StepsIn(v, T) = StepsIn(d, T)
  BY WideReads
<1> HIDE DEF v
<1>3. \A t, B : Impossible(v, t, B) <=> Impossible(d, t, B)
  BY <1>1 DEF Impossible
<1>4. \A P, B : PlanWriteOff(v, P, B) = PlanWriteOff(d, P, B)
  BY <1>3 DEF PlanWriteOff
<1> QED
  BY <1>2, <1>4 DEF WriteOff, Blocked, v

\* The updates of step statuses.
LEMMA WideStatus ==
    ASSUME NEW d \in Rows, NEW X, NEW S \in SUBSET Steps, NEW st
    PROVE  /\ SetStatus(Outbox(d, X), S, st) = Outbox(SetStatus(d, S, st), X)
           /\ Settle(Outbox(d, X), S, st) = Outbox(Settle(d, S, st), X)
           /\ \A to : Reopen(Outbox(d, X), S, st, to) = Outbox(Reopen(d, S, st, to), X)
<1>1. SetStatus(Outbox(d, X), S, st) = Outbox(SetStatus(d, S, st), X)
  BY Zenon DEF SetStatus, Outbox, Rows
<1>2. Settle(Outbox(d, X), S, st) = Outbox(Settle(d, S, st), X)
  BY Zenon DEF Settle, SetStatus, Outbox, Rows
<1>3. ASSUME NEW to PROVE Reopen(Outbox(d, X), S, st, to) = Outbox(Reopen(d, S, st, to), X)
  BY Zenon DEF Reopen, SetStatus, Outbox, Rows
<1> QED
  BY <1>1, <1>2, <1>3

\* Moves of a step between live statuses.
LEMMA WideLive ==
    ASSUME NEW d \in Rows, NEW X, NEW s \in Steps
    PROVE  /\ ClaimStep(Outbox(d, X), s) = Outbox(ClaimStep(d, s), X)
           /\ TakeoverStep(Outbox(d, X), s) = Outbox(TakeoverStep(d, s), X)
           /\ RetryStep(Outbox(d, X), s) = Outbox(RetryStep(d, s), X)
           /\ ThrottleStep(Outbox(d, X), s) = Outbox(ThrottleStep(d, s), X)
           /\ SemanticRetryStep(Outbox(d, X), s) = Outbox(SemanticRetryStep(d, s), X)
           /\ BudgetParkStep(Outbox(d, X), s) = Outbox(BudgetParkStep(d, s), X)
<1>1. ClaimStep(Outbox(d, X), s) = Outbox(ClaimStep(d, s), X)
  BY Zenon DEF ClaimStep, SetStatus, Outbox, Rows
<1>2. RetryStep(Outbox(d, X), s) = Outbox(RetryStep(d, s), X)
  BY Zenon DEF RetryStep, SetStatus, Outbox, Rows
<1>3. SemanticRetryStep(Outbox(d, X), s) = Outbox(SemanticRetryStep(d, s), X)
  BY ZenonT(30) DEF SemanticRetryStep, SetStatus, Outbox, Rows
<1>4. BudgetParkStep(Outbox(d, X), s) = Outbox(BudgetParkStep(d, s), X)
  BY Zenon DEF BudgetParkStep, ParkRun, SetStatus, Outbox, Rows
<1> QED
  BY <1>1, <1>2, <1>3, <1>4, WideStatus DEF TakeoverStep, ThrottleStep

\* Outcomes of a step.
LEMMA WideSettling ==
    ASSUME NEW d, Good(d), NEW X, NEW s \in Steps, d.step[s] \notin Settled
    PROVE  /\ SucceedStep(Outbox(d, X), s) = Outbox(SucceedStep(d, s), X)
           /\ CollectFailStep(Outbox(d, X), s) = Outbox(CollectFailStep(d, s), X)
           /\ CancelRunningStep(Outbox(d, X), s) = Outbox(CancelRunningStep(d, s), X)
           /\ DeadLetterStep(Outbox(d, X), s) = Outbox(DeadLetterStep(d, s), X)
<1>0. d \in Rows
  BY DEF Good
<1>1. DeadLetterStep(Outbox(d, X), s) = Outbox(DeadLetterStep(d, s), X)
  <2> DEFINE b == Settle(d, {s}, "dead_lettered")
             v == Outbox(b, X)
             f == [b.transport EXCEPT ![s] = 0]
             g == [b.semantic EXCEPT ![s] = 0]
             h == b.due \ {s}
  <2>1. b \in Rows
    BY SettleGood DEF Good, Settled
  <2>2. Settle(Outbox(d, X), {s}, "dead_lettered") = v
    BY <1>0, WideStatus
  <2>3. DeadLetterStep(d, s) = [b EXCEPT !.transport = f, !.semantic = g, !.due = h]
    BY DEF DeadLetterStep
  <2>4. v.transport = b.transport /\ v.semantic = b.semantic /\ v.due = b.due
    <3> HIDE DEF b
    <3> QED
      BY <2>1, WideColumns
  <2>5. DeadLetterStep(Outbox(d, X), s) = [v EXCEPT !.transport = f, !.semantic = g, !.due = h]
    <3> HIDE DEF b, v
    <3> QED
      BY <2>2, <2>4, Zenon DEF DeadLetterStep
  <2> HIDE DEF b, f, g, h
  <2> QED
    BY <2>1, <2>3, <2>5, Zenon DEF v, Outbox, Rows
<1> QED
  BY <1>0, <1>1, WideStatus DEF SucceedStep, CollectFailStep, CancelRunningStep

\* Sweeps to cancelled.
LEMMA WideSweep ==
    ASSUME NEW d, Good(d), NEW X, NEW S \in SUBSET Steps, \A s \in S : d.step[s] \notin Settled
    PROVE  /\ CancelSteps(Outbox(d, X), S) = Outbox(CancelSteps(d, S), X)
           /\ CancelAwaiting(Outbox(d, X), S) = Outbox(CancelAwaiting(d, S), X)
<1>0. d \in Rows
  BY DEF Good
<1>1. CancelSteps(Outbox(d, X), S) = Outbox(CancelSteps(d, S), X)
  <2> DEFINE b == Settle(d, S, "cancelled")
             h == b.due \ S
  <2>1. b \in Rows
    BY SettleGood DEF Good, Settled
  <2>2. Settle(Outbox(d, X), S, "cancelled") = Outbox(b, X)
    BY <1>0, WideStatus
  <2>3. CancelSteps(d, S) = [b EXCEPT !.due = h]
    BY DEF CancelSteps
  <2> HIDE DEF b
  <2>4. CancelSteps(Outbox(d, X), S) = [Outbox(b, X) EXCEPT !.due = h]
    BY <2>1, <2>2, WideColumns DEF CancelSteps
  <2> HIDE DEF h
  <2> QED
    BY <2>1, <2>3, <2>4, Zenon DEF Outbox, Rows
<1>2. CancelAwaiting(Outbox(d, X), S) = Outbox(CancelAwaiting(d, S), X)
  BY <1>0, ZenonT(30) DEF CancelAwaiting, Settle, SetStatus, Outbox, Rows
<1> QED
  BY <1>1, <1>2

\* The updates of the run row, with the rollups.
LEMMA WideRun ==
    ASSUME NEW d \in Rows, NEW X
    PROVE  /\ \A r : SetRun(Outbox(d, X), r) = Outbox(SetRun(d, r), X)
           /\ ParkRun(Outbox(d, X)) = Outbox(ParkRun(d), X)
           /\ ResumeRun(Outbox(d, X)) = Outbox(ResumeRun(d), X)
           /\ OutboxReady(Outbox(d, X)) = Outbox(OutboxReady(d), X)
           /\ \A S : Outbox(Outbox(d, X), S) = Outbox(Outbox(d, S), X)
           /\ AttemptCancelRollup(Outbox(d, X)) = Outbox(AttemptCancelRollup(d), X)
           /\ AttemptRunRollup(Outbox(d, X)) = Outbox(AttemptRunRollup(d), X)
<1> DEFINE v == Outbox(d, X)
<1>0. v.run = d.run /\ v.counters = d.counters
  BY WideColumns
<1>1. \A r : SetRun(v, r) = Outbox(SetRun(d, r), X)
  BY Zenon DEF SetRun, Outbox, Rows
<1>2. ParkRun(v) = Outbox(ParkRun(d), X)
  BY Zenon DEF ParkRun, Outbox, Rows
<1>3. ResumeRun(v) = Outbox(ResumeRun(d), X)
  BY Zenon DEF ResumeRun, Outbox, Rows
<1>4. \A S : Outbox(v, S) = Outbox(Outbox(d, S), X)
  BY Zenon DEF Outbox, Rows
<1>5. OutboxReady(v) = Outbox(OutboxReady(d), X)
  BY <1>4, WideReads DEF OutboxReady
<1> HIDE DEF v
<1>6. \A T : Sum(v, T) = Sum(d, T)
  BY <1>0 DEF Sum
<1>7. /\ SucceedRunGuard(v) <=> SucceedRunGuard(d)
      /\ FailRunRollupGuard(v) <=> FailRunRollupGuard(d)
      /\ CancelRunRollupGuard(v) <=> CancelRunRollupGuard(d)
  BY <1>0, <1>6 DEF SucceedRunGuard, FailRunRollupGuard, CancelRunRollupGuard, Open
<1>8. AttemptCancelRollup(v) = Outbox(AttemptCancelRollup(d), X)
  BY <1>1, <1>7 DEF AttemptCancelRollup, v
<1>9. AttemptRunRollup(v) = Outbox(AttemptRunRollup(d), X)
  BY <1>1, <1>7, <1>8 DEF AttemptRunRollup, v
<1> QED
  BY <1>1, <1>2, <1>3, <1>4, <1>5, <1>8, <1>9 DEF v

\* The fan-out of a completed step.
LEMMA WideFanOut ==
    ASSUME NEW d \in Rows, NEW X, NEW s \in Steps, NEW F
    PROVE  FanOut(Outbox(d, X), s, F) = Outbox(FanOut(d, s, F), X)
<1> DEFINE v == Outbox(d, X)
           K == SkipSet(d, s, F)
           R == Resolved(d, s, K)
           A == {t \in Steps : Readies(d, t, R, F)} \ K
<1>1. FanOut(d, s, F) = ApplyResolution(d, R, F, K, A)
  BY DEF FanOut
<1>2. FanOut(v, s, F) = ApplyResolution(v, R, F, K, A)
  <2>1. SkipSet(v, s, F) = K /\ Resolved(v, s, K) = R
    BY WideReads
  <2>2. {t \in Steps : Readies(v, t, R, F)} \ K = A
    BY WideReads, Zenon
  <2> HIDE DEF v, K, R, A
  <2> QED
    BY <2>1, <2>2 DEF FanOut
<1>3. ApplyResolution(v, R, F, K, A) = Outbox(ApplyResolution(d, R, F, K, A), X)
  <2> HIDE DEF K, R, A
  <2>1. /\ v.step = d.step /\ v.edge = d.edge /\ v.remaining = d.remaining /\ v.fired = d.fired
        /\ v.counters = d.counters
    BY WideColumns
  <2> DEFINE f == [e \in Edges |-> IF e \in R THEN IF e \in F THEN "fired" ELSE "skipped"
                                   ELSE d.edge[e]]
             g == [t \in Steps |-> RemainingAfter(d, t, R)]
             h == [t \in Steps |-> FiredAfter(d, t, R, F)]
             i == [t \in Steps |-> IF t \in K THEN "skipped"
                                   ELSE IF t \in A THEN "ready" ELSE d.step[t]]
             j == [d.counters EXCEPT !["skipped"] = @ + Cardinality(K)]
  <2>2. ApplyResolution(d, R, F, K, A)
          = [d EXCEPT !.edge = f, !.remaining = g, !.fired = h, !.step = i,
                      !.counters = j, !.dispatch = @ \cup A]
    BY DEF ApplyResolution
  <2>3. ApplyResolution(v, R, F, K, A)
          = [v EXCEPT !.edge = f, !.remaining = g, !.fired = h, !.step = i,
                      !.counters = j, !.dispatch = @ \cup A]
    <3> HIDE DEF v
    <3> QED
      BY <2>1, Zenon DEF ApplyResolution, RemainingAfter, FiredAfter
  <2> HIDE DEF f, g, h, i, j
  <2> QED
    BY <2>2, <2>3, ZenonT(30) DEF Outbox, Rows
<1> QED
  BY <1>1, <1>2, <1>3

\* What follows a dead letter.
LEMMA WideDisposition ==
    ASSUME NEW d, Good(d), NEW X
    PROVE  DeadLetterDisposition(Outbox(d, X)) = Outbox(DeadLetterDisposition(d), X)
<1> DEFINE v == Outbox(d, X)
           W == WriteOff(d)
           c == CancelSteps(d, W)
<1>0. d \in Rows
  BY DEF Good
<1>1. v.run = d.run /\ v.counters = d.counters /\ WriteOff(v) = W
  BY <1>0, WideColumns, WidePlans
<1>2. \A r : SetRun(v, r) = Outbox(SetRun(d, r), X)
  BY <1>0, WideRun
<1>3. W \in SUBSET Steps /\ \A s \in W : d.step[s] \notin Settled
  BY DEF WriteOff, PlanWriteOff, StepsIn, Settled
<1>4. c \in Rows
  BY <1>3, SweepGood DEF Good
<1>5. CancelSteps(v, W) = Outbox(c, X)
  BY <1>3, WideSweep
<1> HIDE DEF W, c
<1>6. \A r : SetRun(Outbox(c, X), r) = Outbox(SetRun(c, r), X)
  BY <1>4, WideRun
<1>7. FailRunRollupGuard(Outbox(c, X)) <=> FailRunRollupGuard(c)
  <2>1. Outbox(c, X).run = c.run /\ Outbox(c, X).counters = c.counters
    BY <1>4, WideColumns
  <2> QED
    BY <2>1 DEF FailRunRollupGuard, Open, Sum
<1>8. Open(v) <=> Open(d)
  BY <1>1 DEF Open
<1> HIDE DEF v
<1>9. CASE OnFailure = "fail_fast"
  BY <1>1, <1>2, <1>8, <1>9 DEF DeadLetterDisposition, v
<1>10. CASE OnFailure # "fail_fast"
  BY <1>1, <1>5, <1>6, <1>7, <1>10 DEF DeadLetterDisposition, v, W, c
<1> QED
  BY <1>9, <1>10 DEF v

-----------------------------------------------------------------------------
(* Which steps stop running.                                               *)

\* From d to c, good rows again, the steps S stop running and no running step
\* becomes due.
Leaves(d, c, S) ==
    /\ Good(c)
    /\ StepsIn(c, {"running"}) = StepsIn(d, {"running"}) \ S
    /\ c.due \cap StepsIn(c, {"running"}) \subseteq d.due

\* v is c with the further announcements X, and c follows d as Leaves says.
Carries(d, X, c, v, S) == v = Outbox(c, X) /\ Leaves(d, c, S)

\* A status update away from running.
LEMMA TurnedLeaves ==
    ASSUME NEW d, NEW c, Good(c), NEW S, NEW st, st # "running", Turned(d, c, S, st),
           c.due \cap StepsIn(c, {"running"}) \subseteq d.due
    PROVE  Leaves(d, c, S)
BY DEF Leaves, Turned, StepsIn

\* Status updates leave the due steps alone.
LEMMA DueColumns ==
    ASSUME NEW d, Good(d), NEW S \in SUBSET Steps, NEW st \in StepStatus
    PROVE  /\ SetStatus(d, S, st).due = d.due
           /\ Settle(d, S, st).due = d.due
           /\ \A to : Reopen(d, S, st, to).due = d.due
<1>1. d \in Rows
  BY DEF Good
<1>2. SetStatus(d, S, st).due = d.due
  BY <1>1 DEF SetStatus, Rows
<1>3. Settle(d, S, st).due = d.due
  BY <1>1 DEF Settle, SetStatus, Rows
<1>4. ASSUME NEW to PROVE Reopen(d, S, st, to).due = d.due
  BY <1>1 DEF Reopen, SetStatus, Rows
<1> QED
  BY <1>2, <1>3, <1>4

\* Each outcome of s stops s, under any announcements.
LEMMA SettlingCarries ==
    ASSUME NEW d, Good(d), NEW X, NEW s \in Steps, d.step[s] \notin Settled
    PROVE  LET v == Outbox(d, X)
           IN  /\ Carries(d, X, SucceedStep(d, s), SucceedStep(v, s), {s})
               /\ Carries(d, X, CollectFailStep(d, s), CollectFailStep(v, s), {s})
               /\ Carries(d, X, CancelRunningStep(d, s), CancelRunningStep(v, s), {s})
               /\ Carries(d, X, DeadLetterStep(d, s), DeadLetterStep(v, s), {s})
<1>1. d \in Rows /\ {s} \in SUBSET Steps
  BY DEF Good
<1>2. {"succeeded", "collected", "cancelled", "dead_lettered"} \subseteq StepStatus
  BY DEF StepStatus, Settled
<1>3. /\ Good(SucceedStep(d, s)) /\ Good(CollectFailStep(d, s))
      /\ Good(CancelRunningStep(d, s)) /\ Good(DeadLetterStep(d, s))
  BY SettlingGood
<1>4. /\ SucceedStep(d, s).due = d.due /\ CollectFailStep(d, s).due = d.due
      /\ CancelRunningStep(d, s).due = d.due
  BY <1>1, <1>2, DueColumns DEF SucceedStep, CollectFailStep, CancelRunningStep
<1>5. DeadLetterStep(d, s).due \subseteq d.due
  <2> DEFINE b == Settle(d, {s}, "dead_lettered")
             f == [b.transport EXCEPT ![s] = 0]
             g == [b.semantic EXCEPT ![s] = 0]
             h == b.due \ {s}
  <2>1. b \in Rows
    BY <1>1, SettleGood DEF Good, Settled
  <2>2. b.due = d.due
    BY <1>1, <1>2, DueColumns
  <2>3. DeadLetterStep(d, s) = [b EXCEPT !.transport = f, !.semantic = g, !.due = h]
    BY DEF DeadLetterStep
  <2> HIDE DEF b, f, g
  <2> QED
    BY <2>1, <2>2, <2>3 DEF Rows
<1>6. /\ Leaves(d, SucceedStep(d, s), {s}) /\ Leaves(d, CollectFailStep(d, s), {s})
      /\ Leaves(d, CancelRunningStep(d, s), {s}) /\ Leaves(d, DeadLetterStep(d, s), {s})
  BY <1>1, <1>3, <1>4, <1>5, SettlingColumns, TurnedLeaves
<1> QED
  BY <1>6, WideSettling DEF Carries

\* A takeover, a retry, a throttle or a budget park stops s.
LEMMA LiveCarries ==
    ASSUME NEW d, Good(d), NEW X, NEW s \in Steps, d.step[s] \notin Settled
    PROVE  LET v == Outbox(d, X)
           IN  /\ Carries(d, X, TakeoverStep(d, s), TakeoverStep(v, s), {s})
               /\ Carries(d, X, RetryStep(d, s), RetryStep(v, s), {s})
               /\ Carries(d, X, ThrottleStep(d, s), ThrottleStep(v, s), {s})
               /\ Carries(d, X, SemanticRetryStep(d, s), SemanticRetryStep(v, s), {s})
               /\ Carries(d, X, BudgetParkStep(d, s), BudgetParkStep(v, s), {s})
<1>1. d \in Rows /\ {s} \in SUBSET Steps
  BY DEF Good
<1>2. {"ready", "retrying"} \subseteq StepStatus
  BY DEF StepStatus
<1>3. /\ Good(TakeoverStep(d, s)) /\ Good(RetryStep(d, s)) /\ Good(ThrottleStep(d, s))
      /\ Good(SemanticRetryStep(d, s)) /\ Good(BudgetParkStep(d, s))
  BY UnsettledGood
<1>4. TakeoverStep(d, s).due = d.due /\ ThrottleStep(d, s).due = d.due
  BY <1>1, <1>2, DueColumns DEF TakeoverStep, ThrottleStep
<1>5. /\ RetryStep(d, s).due = d.due /\ BudgetParkStep(d, s).due = d.due
      /\ SemanticRetryStep(d, s).due = d.due \cup {s}
  <2>1. RetryStep(d, s).due = d.due
    BY <1>1 DEF RetryStep, SetStatus, Rows
  <2>2. BudgetParkStep(d, s).due = d.due
    BY <1>1 DEF BudgetParkStep, ParkRun, SetStatus, Rows
  <2>3. SemanticRetryStep(d, s).due = d.due \cup {s}
    BY <1>1 DEF SemanticRetryStep, SetStatus, Rows
  <2> QED
    BY <2>1, <2>2, <2>3
<1>6. /\ Leaves(d, TakeoverStep(d, s), {s}) /\ Leaves(d, RetryStep(d, s), {s})
      /\ Leaves(d, ThrottleStep(d, s), {s})
  BY <1>1, <1>3, <1>4, <1>5, LiveColumns, TurnedLeaves
<1>7. Leaves(d, SemanticRetryStep(d, s), {s})
  <2>1. Turned(d, SemanticRetryStep(d, s), {s}, "retrying")
    BY <1>1, LiveColumns
  <2>2. s \notin StepsIn(SemanticRetryStep(d, s), {"running"})
    BY <2>1 DEF Turned, StepsIn
  <2> QED
    BY <1>3, <1>5, <2>1, <2>2, TurnedLeaves
<1>8. Leaves(d, BudgetParkStep(d, s), {s})
  <2>1. Turned(d, SetStatus(d, {s}, "ready"), {s}, "ready") /\ SetStatus(d, {s}, "ready") \in Rows
    BY <1>1, <1>2, SettleColumns, SetStatusRows
  <2>2. Same(SetStatus(d, {s}, "ready"), BudgetParkStep(d, s))
    BY <2>1, SameRows DEF BudgetParkStep
  <2>3. Turned(d, BudgetParkStep(d, s), {s}, "ready")
    BY <2>1, <2>2, Zenon DEF Same, Turned
  <2> QED
    BY <1>3, <1>5, <2>3, TurnedLeaves
<1> QED
  BY <1>1, <1>6, <1>7, <1>8, WideLive DEF Carries

\* An update of other columns stops no step.
LEMMA SameLeaves ==
    ASSUME NEW d, Good(d), NEW c, Same(d, c), c.due = d.due
    PROVE  Leaves(d, c, {})
BY SameGood DEF Same, Leaves, StepsIn

\* Nor does one of the run row or of the outbox.
LEMMA RunCarries ==
    ASSUME NEW d, Good(d), NEW X
    PROVE  LET v == Outbox(d, X)
           IN  /\ \A r \in RunStatus : Carries(d, X, SetRun(d, r), SetRun(v, r), {})
               /\ Carries(d, X, ParkRun(d), ParkRun(v), {})
               /\ Carries(d, X, ResumeRun(d), ResumeRun(v), {})
               /\ \A S \in SUBSET Steps : Carries(d, X, Outbox(d, S), Outbox(v, S), {})
               /\ Carries(d, X, OutboxReady(d), OutboxReady(v), {})
               /\ Carries(d, X, AttemptCancelRollup(d), AttemptCancelRollup(v), {})
               /\ Carries(d, X, AttemptRunRollup(d), AttemptRunRollup(v), {})
<1>1. d \in Rows
  BY DEF Good
<1>2. \A r \in RunStatus : Leaves(d, SetRun(d, r), {})
  <2>1. \A r : SetRun(d, r).due = d.due
    BY <1>1 DEF SetRun, Rows
  <2> QED
    BY <1>1, <2>1, SameRows, SameLeaves
<1>3. Leaves(d, ParkRun(d), {}) /\ Leaves(d, ResumeRun(d), {})
  <2>1. ParkRun(d).due = d.due /\ ResumeRun(d).due = d.due
    BY <1>1 DEF ParkRun, ResumeRun, Rows
  <2> QED
    BY <1>1, <2>1, SameRows, SameLeaves
<1>4. \A S \in SUBSET Steps : Leaves(d, Outbox(d, S), {})
  BY <1>1, WideColumns, SameRows, SameLeaves
<1>5. Leaves(d, OutboxReady(d), {})
  BY <1>4 DEF OutboxReady, StepsIn
<1>6. Leaves(d, d, {})
  BY DEF Leaves
<1>7. Leaves(d, AttemptCancelRollup(d), {}) /\ Leaves(d, AttemptRunRollup(d), {})
  BY <1>2, <1>6 DEF AttemptCancelRollup, AttemptRunRollup, RunStatus
<1> QED
  BY <1>1, <1>2, <1>3, <1>4, <1>5, <1>7, WideRun DEF Carries

\* Nor a fan-out, which moves pending steps only.
LEMMA FanCarries ==
    ASSUME NEW d, Good(d), NEW X, NEW s \in Steps, NEW F
    PROVE  Carries(d, X, FanOut(d, s, F), FanOut(Outbox(d, X), s, F), {})
<1> DEFINE K == SkipSet(d, s, F)
           R == Resolved(d, s, K)
           A == {t \in Steps : Readies(d, t, R, F)} \ K
           c == ApplyResolution(d, R, F, K, A)
<1>1. d \in Rows /\ FanOut(d, s, F) = c
  BY DEF Good, FanOut
<1>2. \A t \in K \cup A : d.step[t] = "pending"
  BY DEF SkipSet, Readies, StepsIn
<1>3. R \in SUBSET Edges /\ K \in SUBSET Steps /\ A \in SUBSET Steps
  BY DEF Resolved, SkipSet, StepsIn
<1>4. Good(c)
  BY <1>1, FanOutGood
<1> HIDE DEF K, R, A
<1>5. Applied(d, R, F, K, A, c)
  BY <1>1, <1>3, ApplyRows
<1>6. c.due = d.due
  BY <1>1 DEF ApplyResolution, Rows
<1> HIDE DEF c
<1>7. StepsIn(c, {"running"}) = StepsIn(d, {"running"})
  BY <1>2, <1>5 DEF StepsIn, Applied
<1> QED
  BY <1>1, <1>4, <1>6, <1>7, WideFanOut DEF Carries, Leaves

\* A sweep stops the steps it cancels.
LEMMA SweepCarries ==
    ASSUME NEW d, Good(d), NEW X, NEW S \in SUBSET Steps, \A s \in S : d.step[s] \notin Settled
    PROVE  LET v == Outbox(d, X)
           IN  /\ Carries(d, X, CancelSteps(d, S), CancelSteps(v, S), S)
               /\ Carries(d, X, CancelAwaiting(d, S), CancelAwaiting(v, S), S)
<1> DEFINE b == Settle(d, S, "cancelled")
<1>1. d \in Rows /\ "cancelled" \in Settled /\ "cancelled" \in StepStatus
  BY DEF Good, Settled, StepStatus
<1>2. Good(b) /\ b \in Rows /\ b.due = d.due /\ Turned(d, b, S, "cancelled")
  BY <1>1, SettleGood, DueColumns, SettleColumns DEF Good
<1>3. Good(CancelSteps(d, S)) /\ Good(CancelAwaiting(d, S))
  BY SweepGood
<1>4. Leaves(d, CancelSteps(d, S), S)
  <2>1. Turned(d, CancelSteps(d, S), S, "cancelled")
    BY <1>1, CancelStepsColumns
  <2>2. CancelSteps(d, S) = [b EXCEPT !.due = @ \ S]
    BY DEF CancelSteps
  <2> HIDE DEF b
  <2>3. CancelSteps(d, S).due \subseteq d.due
    BY <1>2, <2>2 DEF Rows
  <2> QED
    BY <1>3, <2>1, <2>3, TurnedLeaves
<1>5. Leaves(d, CancelAwaiting(d, S), S)
  <2> DEFINE f == [x \in Steps |-> IF x \in S THEN "cancelled" ELSE d.approval[x]]
  <2>1. CancelAwaiting(d, S) = [b EXCEPT !.approval = f]
    BY DEF CancelAwaiting
  <2> HIDE DEF b, f
  <2>2. /\ CancelAwaiting(d, S).step = b.step /\ CancelAwaiting(d, S).edge = b.edge
        /\ CancelAwaiting(d, S).due = b.due
    BY <1>2, <2>1 DEF Rows
  <2>3. Turned(d, CancelAwaiting(d, S), S, "cancelled")
    BY <1>2, <2>2 DEF Turned
  <2> QED
    BY <1>2, <1>3, <2>2, <2>3, TurnedLeaves
<1> QED
  BY <1>4, <1>5, WideSweep DEF Carries

\* What follows a dead letter stops no step: it writes off pending ones.
LEMMA DispositionCarries ==
    ASSUME NEW d, Good(d), NEW X
    PROVE  Carries(d, X, DeadLetterDisposition(d), DeadLetterDisposition(Outbox(d, X)), {})
<1> DEFINE W == WriteOff(d)
           c == CancelSteps(d, W)
<1>1. W \in SUBSET Steps /\ \A s \in W : d.step[s] = "pending"
  BY DEF WriteOff, PlanWriteOff, StepsIn
<1>2. Leaves(d, d, {}) /\ \A r \in RunStatus : Leaves(d, SetRun(d, r), {})
  BY RunCarries DEF Carries, Leaves
<1>3. Leaves(d, c, {})
  <2>1. Leaves(d, c, W)
    BY <1>1, SweepCarries DEF Carries, Settled
  <2>2. StepsIn(d, {"running"}) \ W = StepsIn(d, {"running"}) \ {}
    BY <1>1 DEF StepsIn
  <2> HIDE DEF W, c
  <2> QED
    BY <2>1, <2>2 DEF Leaves
<1> HIDE DEF W, c
<1>4. \A r \in RunStatus : Leaves(d, SetRun(c, r), {})
  <2>1. \A r \in RunStatus : Leaves(c, SetRun(c, r), {})
    BY <1>3, RunCarries, Zenon DEF Carries, Leaves
  <2> QED
    BY <1>3, <2>1 DEF Leaves
<1>5. "failed" \in RunStatus
  BY DEF RunStatus
<1>6. Leaves(d, DeadLetterDisposition(d), {})
  BY <1>2, <1>3, <1>4, <1>5 DEF DeadLetterDisposition, W, c
<1> QED
  BY <1>6, WideDisposition DEF Carries

-----------------------------------------------------------------------------
(* The transactions as relations between rows.                             *)

\* The completion of a step of a cancelling run.
SettlesCancelled(d, c, s) == c = AttemptCancelRollup(CancelRunningStep(d, s))

\* The dead letter of s and what follows it.
DeadLetters(d, c, s) == c = DeadLetterDisposition(DeadLetterStep(d, s))

\* CompleteSuccess(s), from the rows d to the rows c; the others likewise.
Succeeds(d, c, s) ==
    /\ d.step[s] = "running" /\ s \notin Gates
    /\ \/ d.run = "cancelling" /\ c = AttemptRunRollup(SucceedStep(d, s))
       \/ /\ d.run # "cancelling"
          /\ \E F \in Verdicts(s) : c = AttemptRunRollup(FanOut(SucceedStep(d, s), s, F))

\* FailStep(s, retryable).
Fails(d, c, s, retryable) ==
    /\ d.step[s] = "running"
    /\ \/ d.run = "cancelling" /\ SettlesCancelled(d, c, s)
       \/ /\ d.run # "cancelling" /\ ~(retryable /\ d.transport[s] + 1 < MaxAttempts)
          /\ \/ /\ s \in Collect
                /\ \E F \in Verdicts(s) : c = AttemptRunRollup(FanOut(CollectFailStep(d, s), s, F))
             \/ s \notin Collect /\ DeadLetters(d, c, s)

\* CompleteValidationFailure(s).
Invalidates(d, c, s) ==
    /\ d.step[s] = "running" /\ s \notin Gates
    /\ \/ d.run = "cancelling" /\ SettlesCancelled(d, c, s)
       \/ /\ d.run # "cancelling" /\ d.semantic[s] + 1 < MaxSemantic
          /\ c = Outbox(SemanticRetryStep(d, s), {s})
       \/ /\ d.run # "cancelling" /\ d.semantic[s] + 1 >= MaxSemantic
          /\ DeadLetters(d, c, s)

\* CompleteBudgetPark(s).
BudgetParks(d, c, s) ==
    /\ d.step[s] = "running"
    /\ \/ d.run = "cancelling" /\ SettlesCancelled(d, c, s)
       \/ d.run # "cancelling" /\ c = BudgetParkStep(d, s)

\* PoisonStep(s).
Poisons(d, c, s) ==
    /\ d.step[s] \in {"pending", "ready", "running", "retrying"}
    /\ c = AttemptCancelRollup(DeadLetterDisposition(DeadLetterStep(d, s)))

\* ReconcileRunning(s).
TakesOver(d, c, s) ==
    /\ d.run \notin {"cancelling", "cancelled"} /\ d.step[s] = "running"
    /\ c = Outbox(TakeoverStep(d, s), {s}) \/ c = TakeoverStep(d, s)

\* HealCancellingStep(s).
Heals(d, c, s) ==
    /\ d.run = "cancelling" /\ d.step[s] = "running"
    /\ c = AttemptCancelRollup(CancelSteps(TakeoverStep(d, s), {s}))

\* Cancel.
Cancels(d, c) ==
    /\ Open(d)
    /\ LET gates == StepsIn(d, {"awaiting_human"})
           swept == CancelSteps(SetRun(d, "cancelling"),
                                StepsIn(d, {"pending", "ready", "retrying"}))
       IN  c = AttemptCancelRollup(CancelAwaiting(swept, gates))

\* Unpark.
Unparks(d, c) == d.run = "parked" /\ c = OutboxReady(SetRun(d, "running"))

\* Requeue(s).
Requeues(d, c, s) ==
    /\ d.requeues < MaxRequeues
    /\ d.step[s] = "dead_lettered" /\ d.run \notin {"cancelling", "cancelled"}
    /\ LET b == [ResumeRun(RequeueStep(d, s)) EXCEPT !.requeues = @ + 1]
       IN  c = OutboxReady(ReviveSteps(b, StepsIn(b, {"cancelled"}) \ Blocked(b)))

-----------------------------------------------------------------------------
(* None of them looks at the announcements.                                *)

\* What follows an update within its transaction stops no further step.
LEMMA TailCarries ==
    ASSUME NEW d, NEW b, NEW X, NEW u, NEW S, Carries(d, X, b, u, S)
    PROVE  /\ Carries(d, X, AttemptCancelRollup(b), AttemptCancelRollup(u), S)
           /\ Carries(d, X, AttemptRunRollup(b), AttemptRunRollup(u), S)
           /\ Carries(d, X, DeadLetterDisposition(b), DeadLetterDisposition(u), S)
           /\ \A s \in Steps : \A F : Carries(d, X, FanOut(b, s, F), FanOut(u, s, F), S)
           /\ \A T \in SUBSET Steps : Carries(d, X, Outbox(b, T), Outbox(u, T), S)
           /\ Carries(d, X, OutboxReady(b), OutboxReady(u), S)
<1>1. u = Outbox(b, X) /\ Good(b)
  BY DEF Carries, Leaves
<1>2. \A c, v : Carries(b, X, c, v, {}) => Carries(d, X, c, v, S)
  BY DEF Carries, Leaves
<1>3. /\ Carries(b, X, AttemptCancelRollup(b), AttemptCancelRollup(u), {})
      /\ Carries(b, X, AttemptRunRollup(b), AttemptRunRollup(u), {})
      /\ \A T \in SUBSET Steps : Carries(b, X, Outbox(b, T), Outbox(u, T), {})
      /\ Carries(b, X, OutboxReady(b), OutboxReady(u), {})
  BY <1>1, RunCarries
<1>4. Carries(b, X, DeadLetterDisposition(b), DeadLetterDisposition(u), {})
  BY <1>1, DispositionCarries
<1>5. \A s \in Steps : \A F : Carries(b, X, FanOut(b, s, F), FanOut(u, s, F), {})
  BY <1>1, FanCarries
<1> QED
  BY <1>2, <1>3, <1>4, <1>5

\* The two ways a running step ends that most completions share.
LEMMA CancelledFrame ==
    ASSUME NEW d, Good(d), NEW X, NEW s \in Steps, d.step[s] = "running"
    PROVE  LET v == Outbox(d, X)
           IN  /\ Carries(d, X, AttemptCancelRollup(CancelRunningStep(d, s)),
                          AttemptCancelRollup(CancelRunningStep(v, s)), {s})
               /\ Carries(d, X, DeadLetterDisposition(DeadLetterStep(d, s)),
                          DeadLetterDisposition(DeadLetterStep(v, s)), {s})
<1>1. d.step[s] \notin Settled
  BY DEF Settled
<1> QED
  BY <1>1, SettlingCarries, TailCarries

\* A success, judged on d, is the same success under X; s stops.
LEMMA SucceedsFrame ==
    ASSUME NEW d, Good(d), NEW X, NEW s \in Steps, NEW c, Succeeds(d, c, s)
    PROVE  Succeeds(Outbox(d, X), Outbox(c, X), s) /\ Leaves(d, c, {s})
<1> DEFINE v == Outbox(d, X)
<1>1. d.step[s] = "running" /\ d.step[s] \notin Settled /\ d \in Rows
  BY DEF Succeeds, Settled, Good
<1>2. v.step = d.step /\ v.run = d.run
  BY <1>1, WideColumns
<1>3. Carries(d, X, SucceedStep(d, s), SucceedStep(v, s), {s})
  BY <1>1, SettlingCarries
<1> HIDE DEF v
<1>4. Carries(d, X, AttemptRunRollup(SucceedStep(d, s)), AttemptRunRollup(SucceedStep(v, s)), {s})
  BY <1>3, TailCarries
<1>5. \A F : Carries(d, X, AttemptRunRollup(FanOut(SucceedStep(d, s), s, F)),
                     AttemptRunRollup(FanOut(SucceedStep(v, s), s, F)), {s})
  BY <1>3, TailCarries, Zenon
<1>6. Succeeds(v, Outbox(c, X), s) /\ Leaves(d, c, {s})
  BY <1>2, <1>4, <1>5 DEF Succeeds, Carries
<1> QED
  BY <1>6 DEF v

\* A failure without a retry.
LEMMA FailsFrame ==
    ASSUME NEW d, Good(d), NEW X, NEW s \in Steps, NEW c, NEW retryable, Fails(d, c, s, retryable)
    PROVE  Fails(Outbox(d, X), Outbox(c, X), s, retryable) /\ Leaves(d, c, {s})
<1> DEFINE v == Outbox(d, X)
<1>1. d.step[s] = "running" /\ d.step[s] \notin Settled /\ d \in Rows
  BY DEF Fails, Settled, Good
<1>2. v.step = d.step /\ v.run = d.run /\ v.transport = d.transport
  BY <1>1, WideColumns
<1>3. Carries(d, X, CollectFailStep(d, s), CollectFailStep(v, s), {s})
  BY <1>1, SettlingCarries
<1>4. /\ Carries(d, X, AttemptCancelRollup(CancelRunningStep(d, s)),
                 AttemptCancelRollup(CancelRunningStep(v, s)), {s})
      /\ Carries(d, X, DeadLetterDisposition(DeadLetterStep(d, s)),
                 DeadLetterDisposition(DeadLetterStep(v, s)), {s})
  BY <1>1, CancelledFrame
<1> HIDE DEF v
<1>5. \A F : Carries(d, X, AttemptRunRollup(FanOut(CollectFailStep(d, s), s, F)),
                     AttemptRunRollup(FanOut(CollectFailStep(v, s), s, F)), {s})
  BY <1>3, TailCarries
<1>6. Fails(v, Outbox(c, X), s, retryable) /\ Leaves(d, c, {s})
  BY <1>2, <1>4, <1>5 DEF Fails, Carries, SettlesCancelled, DeadLetters
<1> QED
  BY <1>6 DEF v

\* A validation failure.
LEMMA InvalidatesFrame ==
    ASSUME NEW d, Good(d), NEW X, NEW s \in Steps, NEW c, Invalidates(d, c, s)
    PROVE  Invalidates(Outbox(d, X), Outbox(c, X), s) /\ Leaves(d, c, {s})
<1> DEFINE v == Outbox(d, X)
<1>1. d.step[s] = "running" /\ d.step[s] \notin Settled /\ d \in Rows
  BY DEF Invalidates, Settled, Good
<1>2. v.step = d.step /\ v.run = d.run /\ v.semantic = d.semantic
  BY <1>1, WideColumns
<1>3. Carries(d, X, SemanticRetryStep(d, s), SemanticRetryStep(v, s), {s})
  BY <1>1, LiveCarries
<1>4. /\ Carries(d, X, AttemptCancelRollup(CancelRunningStep(d, s)),
                 AttemptCancelRollup(CancelRunningStep(v, s)), {s})
      /\ Carries(d, X, DeadLetterDisposition(DeadLetterStep(d, s)),
                 DeadLetterDisposition(DeadLetterStep(v, s)), {s})
  BY <1>1, CancelledFrame
<1> HIDE DEF v
<1>5. Carries(d, X, Outbox(SemanticRetryStep(d, s), {s}), Outbox(SemanticRetryStep(v, s), {s}), {s})
  BY <1>3, TailCarries, ZenonT(30)
<1>6. Invalidates(v, Outbox(c, X), s) /\ Leaves(d, c, {s})
  BY <1>2, <1>4, <1>5 DEF Invalidates, Carries, SettlesCancelled, DeadLetters
<1> QED
  BY <1>6 DEF v

\* A budget park.
LEMMA BudgetParksFrame ==
    ASSUME NEW d, Good(d), NEW X, NEW s \in Steps, NEW c, BudgetParks(d, c, s)
    PROVE  BudgetParks(Outbox(d, X), Outbox(c, X), s) /\ Leaves(d, c, {s})
<1> DEFINE v == Outbox(d, X)
<1>1. d.step[s] = "running" /\ d.step[s] \notin Settled /\ d \in Rows
  BY DEF BudgetParks, Settled, Good
<1>2. v.step = d.step /\ v.run = d.run
  BY <1>1, WideColumns
<1>3. Carries(d, X, BudgetParkStep(d, s), BudgetParkStep(v, s), {s})
  BY <1>1, LiveCarries
<1>4. Carries(d, X, AttemptCancelRollup(CancelRunningStep(d, s)),
              AttemptCancelRollup(CancelRunningStep(v, s)), {s})
  BY <1>1, CancelledFrame
<1> HIDE DEF v
<1>5. BudgetParks(v, Outbox(c, X), s) /\ Leaves(d, c, {s})
  BY <1>2, <1>3, <1>4 DEF BudgetParks, Carries, SettlesCancelled
<1> QED
  BY <1>5 DEF v

\* A poison letter.
LEMMA PoisonsFrame ==
    ASSUME NEW d, Good(d), NEW X, NEW s \in Steps, NEW c, Poisons(d, c, s)
    PROVE  Poisons(Outbox(d, X), Outbox(c, X), s) /\ Leaves(d, c, {s})
<1> DEFINE v == Outbox(d, X)
<1>1. d.step[s] \notin Settled /\ d \in Rows
  BY DEF Poisons, Settled, Good
<1>2. v.step = d.step
  BY <1>1, WideColumns
<1>3. Carries(d, X, DeadLetterStep(d, s), DeadLetterStep(v, s), {s})
  BY <1>1, SettlingCarries
<1> HIDE DEF v
<1>4. Carries(d, X, AttemptCancelRollup(DeadLetterDisposition(DeadLetterStep(d, s))),
              AttemptCancelRollup(DeadLetterDisposition(DeadLetterStep(v, s))), {s})
  BY <1>3, TailCarries
<1>5. Poisons(v, Outbox(c, X), s) /\ Leaves(d, c, {s})
  BY <1>2, <1>4 DEF Poisons, Carries
<1> QED
  BY <1>5 DEF v

\* The reconciler's takeover.
LEMMA TakesOverFrame ==
    ASSUME NEW d, Good(d), NEW X, NEW s \in Steps, NEW c, TakesOver(d, c, s)
    PROVE  TakesOver(Outbox(d, X), Outbox(c, X), s) /\ Leaves(d, c, {s})
<1> DEFINE v == Outbox(d, X)
<1>1. d.step[s] \notin Settled /\ d \in Rows
  BY DEF TakesOver, Settled, Good
<1>2. v.step = d.step /\ v.run = d.run
  BY <1>1, WideColumns
<1>3. Carries(d, X, TakeoverStep(d, s), TakeoverStep(v, s), {s})
  BY <1>1, LiveCarries
<1> HIDE DEF v
<1>4. Carries(d, X, Outbox(TakeoverStep(d, s), {s}), Outbox(TakeoverStep(v, s), {s}), {s})
  BY <1>3, TailCarries, Zenon
<1>5. TakesOver(v, Outbox(c, X), s) /\ Leaves(d, c, {s})
  BY <1>2, <1>3, <1>4 DEF TakesOver, Carries
<1> QED
  BY <1>5 DEF v

\* The reconciler's heal of a cancelling run.
LEMMA HealsFrame ==
    ASSUME NEW d, Good(d), NEW X, NEW s \in Steps, NEW c, Heals(d, c, s)
    PROVE  Heals(Outbox(d, X), Outbox(c, X), s) /\ Leaves(d, c, {s})
<1> DEFINE v == Outbox(d, X)
           b == TakeoverStep(d, s)
           u == TakeoverStep(v, s)
<1>1. d.step[s] \notin Settled /\ d \in Rows
  BY DEF Heals, Settled, Good
<1>2. v.step = d.step /\ v.run = d.run
  BY <1>1, WideColumns
<1>3. Carries(d, X, b, u, {s})
  BY <1>1, LiveCarries
<1>4. b.step[s] \notin Settled
  BY <1>1 DEF TakeoverStep, SetStatus, Settled, Rows
<1>5. Heals(d, c, s) /\ c = AttemptCancelRollup(CancelSteps(b, {s}))
  BY DEF Heals
<1>6. Heals(v, Outbox(c, X), s) <=> /\ d.run = "cancelling" /\ d.step[s] = "running"
                                   /\ Outbox(c, X) = AttemptCancelRollup(CancelSteps(u, {s}))
  BY <1>2 DEF Heals
<1> HIDE DEF v, b, u
<1>7. u = Outbox(b, X) /\ Good(b)
  BY <1>3 DEF Carries, Leaves
<1>8. Carries(b, X, CancelSteps(b, {s}), CancelSteps(u, {s}), {s})
  BY <1>4, <1>7, SweepCarries
<1>9. Carries(d, X, CancelSteps(b, {s}), CancelSteps(u, {s}), {s})
  BY <1>3, <1>8 DEF Carries, Leaves
<1>10. Carries(d, X, AttemptCancelRollup(CancelSteps(b, {s})), AttemptCancelRollup(CancelSteps(u, {s})), {s})
  BY <1>9, TailCarries
<1>11. Heals(v, Outbox(c, X), s) /\ Leaves(d, c, {s})
  BY <1>5, <1>6, <1>10 DEF Carries, Heals
<1> QED
  BY <1>11 DEF v

\* A cancel stops no running step.
LEMMA CancelsFrame ==
    ASSUME NEW d, Good(d), NEW X, NEW c, Cancels(d, c)
    PROVE  Cancels(Outbox(d, X), Outbox(c, X)) /\ Leaves(d, c, {})
<1> DEFINE v == Outbox(d, X)
           G == StepsIn(d, {"awaiting_human"})
           Q == StepsIn(d, {"pending", "ready", "retrying"})
           a == SetRun(d, "cancelling")
           x == SetRun(v, "cancelling")
           b == CancelSteps(a, Q)
           y == CancelSteps(x, Q)
           e == CancelAwaiting(b, G)
           z == CancelAwaiting(y, G)
<1>1. d \in Rows /\ Open(d) /\ "cancelling" \in RunStatus
  BY DEF Cancels, Good, RunStatus
<1>2. Open(v) /\ StepsIn(v, {"awaiting_human"}) = G /\ StepsIn(v, {"pending", "ready", "retrying"}) = Q
  BY <1>1, WideColumns, WideReads, Zenon DEF Open
<1>3. c = AttemptCancelRollup(e)
  BY DEF Cancels
<1>4. Cancels(v, Outbox(c, X)) <=> Outbox(c, X) = AttemptCancelRollup(z)
  BY <1>2 DEF Cancels
<1>5. Carries(d, X, a, x, {})
  BY <1>1, RunCarries
<1>6. a.step = d.step
  BY <1>1 DEF SetRun, Rows
<1>7. G \in SUBSET Steps /\ Q \in SUBSET Steps /\ G \cap Q = {}
  BY DEF StepsIn
<1>8. /\ \A s \in Q : a.step[s] \notin Settled /\ a.step[s] # "running"
      /\ \A s \in G : a.step[s] \notin Settled /\ a.step[s] # "running"
  BY <1>6 DEF StepsIn, Settled
<1> HIDE DEF v, a, x, G, Q
<1>9. x = Outbox(a, X) /\ Good(a)
  BY <1>5 DEF Carries, Leaves
<1>10. Carries(a, X, b, y, Q)
  BY <1>7, <1>8, <1>9, SweepCarries
<1>11. Turned(a, b, Q, "cancelled")
  BY <1>7, <1>9, CancelStepsColumns DEF Good
<1> HIDE DEF b, y
<1>12. y = Outbox(b, X) /\ Good(b)
  BY <1>10 DEF Carries, Leaves
<1>13. \A s \in G : b.step[s] \notin Settled /\ b.step[s] # "running"
  BY <1>7, <1>8, <1>11 DEF Turned
<1>14. Carries(b, X, e, z, G)
  BY <1>7, <1>12, <1>13, SweepCarries
<1> HIDE DEF e, z
<1>15. Carries(d, X, e, z, {})
  <2>1. StepsIn(a, {"running"}) \ Q = StepsIn(a, {"running"})
    BY <1>8 DEF StepsIn
  <2>2. StepsIn(b, {"running"}) \ G = StepsIn(b, {"running"})
    BY <1>13 DEF StepsIn
  <2> QED
    BY <1>5, <1>10, <1>14, <2>1, <2>2 DEF Carries, Leaves
<1>16. Carries(d, X, AttemptCancelRollup(e), AttemptCancelRollup(z), {})
  BY <1>15, TailCarries
<1>17. Cancels(v, Outbox(c, X)) /\ Leaves(d, c, {})
  BY <1>3, <1>4, <1>16 DEF Carries
<1> QED
  BY <1>17 DEF v

\* An unpark.
LEMMA UnparksFrame ==
    ASSUME NEW d, Good(d), NEW X, NEW c, Unparks(d, c)
    PROVE  Unparks(Outbox(d, X), Outbox(c, X)) /\ Leaves(d, c, {})
<1> DEFINE v == Outbox(d, X)
<1>1. d \in Rows /\ "running" \in RunStatus
  BY DEF Good, RunStatus
<1>2. v.run = d.run
  BY <1>1, WideColumns
<1>3. Carries(d, X, SetRun(d, "running"), SetRun(v, "running"), {})
  BY <1>1, RunCarries
<1> HIDE DEF v
<1>4. Carries(d, X, OutboxReady(SetRun(d, "running")), OutboxReady(SetRun(v, "running")), {})
  BY <1>3, TailCarries
<1>5. Unparks(v, Outbox(c, X)) /\ Leaves(d, c, {})
  BY <1>2, <1>4 DEF Unparks, Carries
<1> QED
  BY <1>5 DEF v

\* A step that leaves a settled status does not run.
LEMMA ReopenCarries ==
    ASSUME NEW d, Good(d), NEW X, NEW S \in SUBSET Steps, NEW from \in Settled,
           \A s \in S : d.step[s] = from, NEW to \in {"pending", "ready"}
    PROVE  Carries(d, X, Reopen(d, S, from, to), Reopen(Outbox(d, X), S, from, to), {})
<1>1. d \in Rows /\ to \in StepStatus \ Settled /\ from \in StepStatus
  BY DEF Good, StepStatus, Settled
<1> DEFINE c == Reopen(d, S, from, to)
<1>2. Good(c) /\ c.due = d.due
  BY <1>1, ReopenGood, DueColumns
<1>3. Turned(d, c, S, to)
  BY <1>1, ReopenColumns
<1>4. Reopen(Outbox(d, X), S, from, to) = Outbox(c, X)
  BY <1>1, WideStatus
<1> HIDE DEF c
<1>5. StepsIn(c, {"running"}) = StepsIn(d, {"running"})
  BY <1>3 DEF Turned, StepsIn, Settled
<1>6. Carries(d, X, c, Outbox(c, X), {})
  BY <1>2, <1>5 DEF Carries, Leaves
<1> QED
  BY <1>4, <1>6 DEF c

\* A requeue revives steps, none of which runs.
LEMMA RequeuesFrame ==
    ASSUME NEW d, Good(d), NEW X, NEW s \in Steps, NEW c, Requeues(d, c, s)
    PROVE  Requeues(Outbox(d, X), Outbox(c, X), s) /\ Leaves(d, c, {})
<1> DEFINE v == Outbox(d, X)
           a == ResumeRun(RequeueStep(d, s))
           x == ResumeRun(RequeueStep(v, s))
           b == [a EXCEPT !.requeues = @ + 1]
           y == [x EXCEPT !.requeues = @ + 1]
           S == StepsIn(b, {"cancelled"}) \ Blocked(b)
           T == StepsIn(y, {"cancelled"}) \ Blocked(y)
<1>1. d \in Rows /\ d.step[s] = "dead_lettered" /\ "dead_lettered" \in Settled
  BY DEF Requeues, Good, Settled
<1>2. v.requeues = d.requeues /\ v.step = d.step /\ v.run = d.run
  BY <1>1, WideColumns
<1>3. c = OutboxReady(ReviveSteps(b, S))
  BY DEF Requeues
<1>4. Requeues(v, Outbox(c, X), s) <=> Outbox(c, X) = OutboxReady(ReviveSteps(y, T))
  <2>1. Requeues(v, Outbox(c, X), s) <=>
          /\ v.requeues < MaxRequeues
          /\ v.step[s] = "dead_lettered" /\ v.run \notin {"cancelling", "cancelled"}
          /\ Outbox(c, X) = OutboxReady(ReviveSteps(y, T))
    BY DEF Requeues
  <2>2. d.requeues < MaxRequeues /\ d.step[s] = "dead_lettered" /\ d.run \notin {"cancelling", "cancelled"}
    BY DEF Requeues
  <2> HIDE DEF v, y, T
  <2> QED
    BY <1>2, <2>1, <2>2
<1>5. Carries(d, X, RequeueStep(d, s), RequeueStep(v, s), {})
  <2>1. Carries(d, X, Reopen(d, {s}, "dead_lettered", "ready"), Reopen(v, {s}, "dead_lettered", "ready"), {})
    BY <1>1, ReopenCarries
  <2> QED
    BY <2>1 DEF RequeueStep
<1>6. Carries(d, X, a, x, {})
  <2> DEFINE h == RequeueStep(d, s)
             k == RequeueStep(v, s)
  <2>1. k = Outbox(h, X) /\ Good(h)
    BY <1>5 DEF Carries, Leaves
  <2> HIDE DEF h, k
  <2>2. Carries(h, X, ResumeRun(h), ResumeRun(k), {})
    BY <2>1, RunCarries
  <2>3. Carries(d, X, h, k, {})
    BY <1>5 DEF h, k
  <2>4. Carries(d, X, ResumeRun(h), ResumeRun(k), {})
    BY <2>2, <2>3 DEF Carries, Leaves
  <2> QED
    BY <2>4 DEF h, k
<1> HIDE DEF v, a, x
<1>7. x = Outbox(a, X) /\ Good(a) /\ a \in Rows
  BY <1>6 DEF Carries, Leaves, Good
<1>8. y = Outbox(b, X)
  BY <1>7, Zenon DEF Outbox, Rows
<1>9. Carries(d, X, b, y, {})
  <2>1. a.requeues + 1 \in Nat /\ b.due = a.due
    BY <1>7 DEF Rows
  <2>2. Same(a, b)
    BY <1>7, <2>1, SameRows
  <2>3. Leaves(a, b, {})
    BY <1>7, <2>1, <2>2, SameLeaves, Zenon
  <2> QED
    BY <1>6, <1>8, <2>3 DEF Carries, Leaves
<1> HIDE DEF b, y
<1>10. Good(b) /\ b \in Rows
  BY <1>9 DEF Carries, Leaves, Good
<1>11. T = S
  BY <1>8, <1>10, WideReads, WidePlans
<1>12. S \in SUBSET Steps /\ \A t \in S : b.step[t] = "cancelled"
  BY DEF StepsIn
<1> HIDE DEF S, T
<1>13. Carries(b, X, ReviveSteps(b, S), ReviveSteps(y, T), {})
  <2>1. Carries(b, X, Reopen(b, S, "cancelled", "pending"), Reopen(y, S, "cancelled", "pending"), {})
    BY <1>8, <1>10, <1>12, ReopenCarries DEF Settled
  <2> QED
    BY <1>11, <2>1 DEF ReviveSteps
<1>14. Carries(d, X, ReviveSteps(b, S), ReviveSteps(y, T), {})
  BY <1>9, <1>13 DEF Carries, Leaves
<1>15. Carries(d, X, OutboxReady(ReviveSteps(b, S)), OutboxReady(ReviveSteps(y, T)), {})
  BY <1>14, TailCarries
<1>16. Requeues(v, Outbox(c, X), s) /\ Leaves(d, c, {})
  BY <1>3, <1>4, <1>15 DEF Carries
<1> QED
  BY <1>16 DEF v

-----------------------------------------------------------------------------
(* Claims, retries with an announcement, and announcements alone.          *)

\* A delivery claims s: s joins the running steps and leaves the due ones.
LEMMA ClaimFrame ==
    ASSUME NEW d, Good(d), NEW X, NEW s \in Steps, d.step[s] \notin Settled
    PROVE  LET c == ClaimStep(d, s)
           IN  /\ Outbox(c, X) = ClaimStep(Outbox(d, X), s) /\ Good(c)
               /\ \A x \in Steps : c.step[x] = IF x = s THEN "running" ELSE d.step[x]
               /\ c.due = d.due \ {s}
<1> DEFINE c == ClaimStep(d, s)
           b == SetStatus(d, {s}, "running")
<1>1. d \in Rows
  BY DEF Good
<1>2. Good(c) /\ Outbox(c, X) = ClaimStep(Outbox(d, X), s)
  BY <1>1, UnsettledGood, WideLive
<1>3. Turned(d, c, {s}, "running")
  BY <1>1, LiveColumns
<1>4. b \in Rows /\ b.due = d.due
  <2>1. "running" \in StepStatus /\ {s} \in SUBSET Steps
    BY DEF StepStatus
  <2>2. b \in Rows
    BY <1>1, <2>1, SetStatusRows
  <2>3. b.due = d.due
    BY <2>1, DueColumns
  <2> QED
    BY <2>2, <2>3
<1>5. c = [b EXCEPT !.due = b.due \ {s}]
  BY DEF ClaimStep
<1> HIDE DEF b, c
<1>6. c.due = d.due \ {s}
  BY <1>4, <1>5 DEF Rows
<1> QED
  BY <1>2, <1>3, <1>6 DEF Turned, c

\* A takeover finds the step ready, or displaces its holder and claims it at once:
\* in both cases the rows are what they were before the claim.
LEMMA TakeoverFrame ==
    ASSUME NEW d, Good(d), NEW s \in Steps
    PROVE  /\ d.step[s] = "ready" => TakeoverStep(d, s) = d
           /\ d.step[s] = "running" /\ s \notin d.due => ClaimStep(TakeoverStep(d, s), s) = d
<1>1. d \in Rows
  BY DEF Good
<1>2. ASSUME NEW st, d.step[s] = st
      PROVE  d = [d EXCEPT !.step = [x \in Steps |-> IF x \in {s} THEN st ELSE d.step[x]]]
  <2>1. d.step = [x \in Steps |-> IF x \in {s} THEN st ELSE d.step[x]]
    BY <1>1, <1>2 DEF Rows
  <2> DEFINE f == [x \in Steps |-> IF x \in {s} THEN st ELSE d.step[x]]
  <2> HIDE DEF f
  <2>2. d.step = f => d = [d EXCEPT !.step = f]
    BY <1>1 DEF Rows
  <2> QED
    BY <2>1, <2>2 DEF f
<1>3. d.step[s] = "ready" => TakeoverStep(d, s) = d
  BY <1>2 DEF TakeoverStep, SetStatus
<1>4. ASSUME d.step[s] = "running", s \notin d.due
      PROVE  ClaimStep(TakeoverStep(d, s), s) = d
  <2> DEFINE b == TakeoverStep(d, s)
             c == ClaimStep(b, s)
             f == [x \in Steps |-> IF x \in {s} THEN "ready" ELSE d.step[x]]
             g == [x \in Steps |-> IF x \in {s} THEN "running" ELSE b.step[x]]
  <2>1. b = [d EXCEPT !.step = f] /\ c = [[b EXCEPT !.step = g] EXCEPT !.due = @ \ {s}]
    BY DEF TakeoverStep, ClaimStep, SetStatus
  <2>2. \A x \in Steps : f[x] = IF x = s THEN "ready" ELSE d.step[x]
    OBVIOUS
  <2>3. \A x \in Steps : g[x] = IF x = s THEN "running" ELSE b.step[x]
    OBVIOUS
  <2>4. DOMAIN g = Steps /\ g = [x \in Steps |-> g[x]]
    OBVIOUS
  <2> HIDE DEF f, g, b
  <2>5. b.step = f /\ b.due = d.due /\ [b EXCEPT !.step = g] = [d EXCEPT !.step = g]
    BY <1>1, <2>1, Zenon DEF Rows
  <2>6. g = d.step
    BY <1>1, <1>4, <2>2, <2>3, <2>4, <2>5 DEF Rows
  <2>7. [d EXCEPT !.step = g] = d
    BY <1>1, <2>6 DEF Rows
  <2>8. d.due \ {s} = d.due
    BY <1>4
  <2>9. c = [d EXCEPT !.due = d.due \ {s}]
    BY <2>1, <2>5, <2>7, Zenon
  <2>10. [d EXCEPT !.due = d.due] = d
    BY <1>1 DEF Rows
  <2> QED
    BY <2>8, <2>9, <2>10, Zenon DEF b
<1> QED
  BY <1>3, <1>4

\* A retry or a throttle: the holder's entry announces the step until the delayed
\* set does.
LEMMA RetryFrame ==
    ASSUME NEW d, Good(d), NEW X, NEW s \in Steps, s \in X, d.step[s] \notin Settled
    PROVE  LET v == Outbox(d, X)
           IN  /\ Outbox(RetryStep(d, s), X) = Outbox(RetryStep(v, s), {s})
               /\ Leaves(d, RetryStep(d, s), {s})
               /\ Outbox(ThrottleStep(d, s), X) = Outbox(ThrottleStep(v, s), {s})
               /\ Leaves(d, ThrottleStep(d, s), {s})
<1> DEFINE v == Outbox(d, X)
<1>1. \A c \in Rows : Outbox(Outbox(c, X), {s}) = Outbox(c, X)
  <2> TAKE c \in Rows
  <2> DEFINE y == c.dispatch \cup X
  <2>1. Outbox(c, X) = [c EXCEPT !.dispatch = y]
    BY DEF Outbox
  <2>2. y \cup {s} = y
    OBVIOUS
  <2> HIDE DEF y
  <2>3. [[c EXCEPT !.dispatch = y] EXCEPT !.dispatch = y] = [c EXCEPT !.dispatch = y]
    BY Zenon DEF Rows
  <2>4. [c EXCEPT !.dispatch = y].dispatch = y
    BY DEF Rows
  <2>5. Outbox(Outbox(c, X), {s}) = [Outbox(c, X) EXCEPT !.dispatch = Outbox(c, X).dispatch \cup {s}]
    BY DEF Outbox
  <2> QED
    BY <2>1, <2>2, <2>3, <2>4, <2>5, Zenon
<1>2. /\ Carries(d, X, RetryStep(d, s), RetryStep(v, s), {s})
      /\ Carries(d, X, ThrottleStep(d, s), ThrottleStep(v, s), {s})
  BY LiveCarries
<1> HIDE DEF v
<1>3. RetryStep(d, s) \in Rows /\ ThrottleStep(d, s) \in Rows
  BY <1>2 DEF Carries, Leaves, Good
<1>4. /\ RetryStep(v, s) = Outbox(RetryStep(d, s), X) /\ Leaves(d, RetryStep(d, s), {s})
      /\ ThrottleStep(v, s) = Outbox(ThrottleStep(d, s), X) /\ Leaves(d, ThrottleStep(d, s), {s})
  BY <1>2, Zenon DEF Carries
<1> QED
  BY <1>1, <1>3, <1>4, Zenon DEF v

\* The reconciler announces a claimable step; an announcement the queue still holds
\* makes the new one invisible.
LEMMA AnnounceFrame ==
    ASSUME NEW d, Good(d), NEW X, NEW s \in Steps
    PROVE  LET c == Outbox(d, {s})
           IN  /\ Leaves(d, c, {})
               /\ Outbox(c, X) = Outbox(Outbox(d, X), {s})
               /\ s \in X => Outbox(c, X) = Outbox(d, X)
<1>1. d \in Rows /\ {s} \in SUBSET Steps
  BY DEF Good
<1>2. Carries(d, X, Outbox(d, {s}), Outbox(Outbox(d, X), {s}), {})
  BY <1>1, RunCarries
<1>3. ASSUME s \in X
      PROVE  Outbox(Outbox(d, {s}), X) = Outbox(d, X)
  <2> DEFINE y == d.dispatch \cup {s}
  <2>1. [[d EXCEPT !.dispatch = y] EXCEPT !.dispatch = d.dispatch \cup X]
          = [d EXCEPT !.dispatch = d.dispatch \cup X] /\ [d EXCEPT !.dispatch = y].dispatch = y
    <3> HIDE DEF y
    <3> QED
      BY <1>1, Zenon DEF Rows
  <2>2. y \cup X = d.dispatch \cup X
    BY <1>3
  <2>3. Outbox(d, {s}) = [d EXCEPT !.dispatch = y]
    BY DEF Outbox
  <2>4. Outbox(Outbox(d, {s}), X) = [[d EXCEPT !.dispatch = y] EXCEPT !.dispatch = y \cup X]
    BY <2>1, <2>3 DEF Outbox
  <2> HIDE DEF y
  <2> QED
    BY <2>1, <2>2, <2>4, Zenon DEF Outbox
<1> QED
  BY <1>2, <1>3, Zenon DEF Carries

\* The announcements of S are gone.
Forget(d, S) == [d EXCEPT !.dispatch = d.dispatch \ S]

\* Announcements go, from the outbox or from the queue.
LEMMA DropFrame ==
    ASSUME NEW d, Good(d), NEW X \in SUBSET Steps, NEW D \in SUBSET d.dispatch,
           NEW Y \in SUBSET (d.dispatch \cup X),
           NEW c, c = [d EXCEPT !.dispatch = D], NEW v, v = Outbox(d, X)
    PROVE  /\ Leaves(d, c, {})
           /\ Outbox(c, Y) = Forget(v, v.dispatch \ (D \cup Y))
<1> DEFINE y == d.dispatch \cup X
           z == v.dispatch \ (v.dispatch \ (D \cup Y))
<1>1. d \in Rows /\ D \in SUBSET Steps /\ y \in SUBSET Steps
  BY DEF Good, Rows
<1>2. Same(d, c)
  BY <1>1, SameRows
<1>3. c.due = d.due /\ c.dispatch = D
  BY <1>1 DEF Rows
<1>4. Leaves(d, c, {})
  BY <1>2, <1>3, SameLeaves, Zenon
<1>5. v = [d EXCEPT !.dispatch = y]
  BY DEF Outbox
<1> HIDE DEF y
<1>6. v.dispatch = y /\ \A w : [v EXCEPT !.dispatch = w] = [d EXCEPT !.dispatch = w]
  BY <1>1, <1>5, Zenon DEF Rows
<1>7. z = D \cup Y
  BY <1>6 DEF y
<1>8. Outbox(c, Y) = [c EXCEPT !.dispatch = D \cup Y]
  BY <1>3 DEF Outbox
<1>9. \A w : [c EXCEPT !.dispatch = w] = [d EXCEPT !.dispatch = w]
  BY <1>1, Zenon DEF Rows
<1>10. Outbox(c, Y) = [v EXCEPT !.dispatch = z]
  BY <1>6, <1>7, <1>8, <1>9, Zenon
<1> QED
  BY <1>4, <1>10 DEF Forget

\* A backoff elapses.
LEMMA BackoffFrame ==
    ASSUME NEW d, Good(d), NEW X, NEW s \in Steps, d.step[s] = "retrying"
    PROVE  LET c == [d EXCEPT !.due = @ \cup {s}]
               v == Outbox(d, X)
           IN  Leaves(d, c, {}) /\ Outbox(c, X) = [v EXCEPT !.due = @ \cup {s}]
<1> DEFINE u == d.due \cup {s}
           y == d.dispatch \cup X
           c == [d EXCEPT !.due = u]
           v == [d EXCEPT !.dispatch = y]
<1>1. d \in Rows /\ u \in SUBSET Steps
  BY DEF Good, Rows
<1>2. Same(d, c)
  BY <1>1, SameRows
<1>3. c.step = d.step /\ c.due = u
  BY <1>1 DEF Rows
<1>4. Good(c)
  <2> HIDE DEF c
  <2> QED
    BY <1>2, SameGood
<1>5. StepsIn(c, {"running"}) = StepsIn(d, {"running"}) /\ s \notin StepsIn(d, {"running"})
  BY <1>3 DEF StepsIn
<1>6. Leaves(d, c, {})
  <2> HIDE DEF c
  <2> QED
    BY <1>3, <1>4, <1>5 DEF Leaves
<1>7. v.due = d.due /\ c.dispatch = d.dispatch /\ v = Outbox(d, X)
  BY <1>1 DEF Rows, Outbox
<1>8. [c EXCEPT !.dispatch = y] = [v EXCEPT !.due = u]
  <2> HIDE DEF u, y
  <2> QED
    BY <1>1, Zenon DEF Rows
<1>9. Outbox(c, X) = [c EXCEPT !.dispatch = y]
  BY <1>7 DEF Outbox
<1>10. [v EXCEPT !.due = @ \cup {s}] = [v EXCEPT !.due = u]
  BY <1>7
<1> HIDE DEF c, u, y, v
<1>11. Outbox(c, X) = [v EXCEPT !.due = @ \cup {s}]
  BY <1>8, <1>9, <1>10, Zenon
<1> QED
  BY <1>6, <1>7, <1>11 DEF c, u

-----------------------------------------------------------------------------
(* The transactions as steps of RunGraph, when X announces steps besides   *)
(* the outbox.                                                             *)

\* The holder's own retry or throttle, its entry announcing the step meanwhile.
Reschedules(d, c, s) ==
    /\ d.step[s] = "running" /\ d.run # "cancelling"
    /\ \/ d.transport[s] + 1 < MaxAttempts /\ c = RetryStep(d, s)
       \/ c = ThrottleStep(d, s)

\* s stops running, if it was.
Finishes(d, c, s, X) ==
    \/ Succeeds(d, c, s) \/ (\E b \in BOOLEAN : Fails(d, c, s, b)) \/ Invalidates(d, c, s)
    \/ BudgetParks(d, c, s) \/ TakesOver(d, c, s) \/ Heals(d, c, s)
    \/ s \in X /\ (Poisons(d, c, s) \/ Reschedules(d, c, s))

\* Claimable(s), of the rows d.
Takable(d, s) ==
    /\ d.run = "running"
    /\ d.step[s] = "ready" \/ (d.step[s] = "retrying" /\ s \in d.due)

\* Operators, clocks and the reconciler's announcements leave the running steps alone.
Tends(d, c) ==
    \/ Cancels(d, c) \/ (d.run = "running" /\ c = ParkRun(d)) \/ Unparks(d, c)
    \/ \E s \in Steps :
         \/ Requeues(d, c, s)
         \/ d.step[s] = "retrying" /\ s \notin d.due /\ c = [d EXCEPT !.due = @ \cup {s}]
         \/ s \notin d.dispatch /\ Takable(d, s) /\ c = Outbox(d, {s})

\* A delivery of s claims it, after a takeover that found it ready or at once.
Claims(d, c, s) ==
    \/ Takable(d, s) /\ c = ClaimStep(d, s)
    \/ d.run = "running" /\ d.step[s] = "ready" /\ c = ClaimStep(TakeoverStep(d, s), s)

\* At most outbox rows go, or a running step changes its holder.
Rests(d, c) ==
    \/ c = d
    \/ \E D \in SUBSET d.dispatch : c = [d EXCEPT !.dispatch = D]
    \/ \E s \in Steps : d.step[s] = "running" /\ c = ClaimStep(TakeoverStep(d, s), s)

\* The rows go from d to c, the other announcements from X to Y, and the running
\* steps from H to K.
Moves(d, c, X, Y, H, K) ==
    \/ Y = X /\ \E s \in Steps : Finishes(d, c, s, X) /\ K = H \ {s}
    \/ Y = X /\ Tends(d, c) /\ K = H
    \/ Y = X /\ \E s \in X : Claims(d, c, s) /\ K = H \cup {s}
    \/ Y \subseteq d.dispatch \cup X /\ Rests(d, c) /\ K = H

\* H are the running steps of the good rows d, and none of them is due.
Held(d, H) == Good(d) /\ StepsIn(d, {"running"}) = H /\ d.due \cap H = {}

\* The account of the running steps.
LEMMA LeavesHeld ==
    ASSUME NEW d, NEW H, Held(d, H), NEW c, NEW S, Leaves(d, c, S)
    PROVE  Held(c, H \ S)
BY DEF Held, Leaves

\* What stops a step is a step of RunGraph.
LEMMA FinishesStep ==
    ASSUME NEW d, Good(d), NEW c, NEW X, NEW s \in Steps, Finishes(d, c, s, X),
           db = Outbox(d, X), db' = Outbox(c, X)
    PROVE  Next /\ Leaves(d, c, {s})
<1>0. /\ Complete(s) \/ CompleteThrottle(s) \/ CompleteBudgetPark(s) \/ HandlePoison(s)
          \/ ReconcileRunning(s) \/ HealCancellingStep(s) => Next
      /\ CompleteSuccess(s) \/ (\E b \in BOOLEAN : CompleteFailure(s, b))
          \/ CompleteValidationFailure(s) => Complete(s)
  BY ZenonT(30) DEF Next, Complete
<1>1. CASE Succeeds(d, c, s)
  <2>1. Succeeds(db, db', s) /\ Leaves(d, c, {s})
    BY <1>1, SucceedsFrame
  <2> QED
    BY <1>0, <2>1, Zenon DEF Succeeds, CompleteSuccess
<1>2. CASE \E b \in BOOLEAN : Fails(d, c, s, b)
  <2>1. PICK b \in BOOLEAN : Fails(d, c, s, b)
    BY <1>2
  <2>2. Fails(db, db', s, b) /\ Leaves(d, c, {s})
    BY <2>1, FailsFrame
  <2>3. FailStep(s, b)
    BY <2>2 DEF Fails, FailStep, Retries, SettleCancelled, SettlesCancelled, DeadLetters
  <2> QED
    BY <1>0, <2>2, <2>3 DEF CompleteFailure
<1>3. CASE Invalidates(d, c, s)
  <2>1. Invalidates(db, db', s) /\ Leaves(d, c, {s})
    BY <1>3, InvalidatesFrame
  <2>2. CompleteValidationFailure(s)
    BY <2>1 DEF Invalidates, CompleteValidationFailure, SettleCancelled, SettlesCancelled, DeadLetters
  <2> QED
    BY <1>0, <2>1, <2>2
<1>4. CASE BudgetParks(d, c, s)
  <2>1. BudgetParks(db, db', s) /\ Leaves(d, c, {s})
    BY <1>4, BudgetParksFrame
  <2>2. CompleteBudgetPark(s)
    BY <2>1 DEF BudgetParks, CompleteBudgetPark, SettleCancelled, SettlesCancelled
  <2> QED
    BY <1>0, <2>1, <2>2
<1>5. CASE TakesOver(d, c, s)
  <2>1. TakesOver(db, db', s) /\ Leaves(d, c, {s})
    BY <1>5, TakesOverFrame
  <2>2. ReconcileRunning(s)
    BY <2>1 DEF TakesOver, ReconcileRunning
  <2> QED
    BY <1>0, <2>1, <2>2
<1>6. CASE Heals(d, c, s)
  <2>1. Heals(db, db', s) /\ Leaves(d, c, {s})
    BY <1>6, HealsFrame
  <2>2. HealCancellingStep(s)
    BY <2>1 DEF Heals, HealCancellingStep
  <2> QED
    BY <1>0, <2>1, <2>2
<1>7. d \in Rows /\ db.step = d.step /\ db.run = d.run /\ db.transport = d.transport
      /\ db.dispatch = d.dispatch \cup X
  BY WideColumns DEF Good
<1>8. CASE s \in X /\ Poisons(d, c, s)
  <2>1. Poisons(db, db', s) /\ Leaves(d, c, {s})
    BY <1>8, PoisonsFrame
  <2>2. HandlePoison(s)
    BY <1>7, <1>8, <2>1 DEF Poisons, HandlePoison, PoisonStep, PoisonDeadLetterStep
  <2> QED
    BY <1>0, <2>1, <2>2
<1>9. CASE s \in X /\ Reschedules(d, c, s)
  <2>1. d.step[s] = "running" /\ d.run # "cancelling" /\ d.step[s] \notin Settled
    BY <1>9 DEF Reschedules, Settled
  <2>2. /\ Outbox(RetryStep(d, s), X) = Outbox(RetryStep(db, s), {s})
        /\ Leaves(d, RetryStep(d, s), {s})
        /\ Outbox(ThrottleStep(d, s), X) = Outbox(ThrottleStep(db, s), {s})
        /\ Leaves(d, ThrottleStep(d, s), {s})
    BY <1>9, <2>1, RetryFrame, SMTT(30)
  <2>3. CASE d.transport[s] + 1 < MaxAttempts /\ c = RetryStep(d, s)
    <3>1. CompleteFailure(s, TRUE)
      BY <1>7, <2>1, <2>2, <2>3, Zenon DEF CompleteFailure, Retries
    <3> QED
      BY <1>0, <2>2, <2>3, <3>1, Zenon
  <2>4. CASE c = ThrottleStep(d, s)
    <3>1. CompleteThrottle(s)
      BY <1>7, <2>1, <2>2, <2>4 DEF CompleteThrottle
    <3> QED
      BY <1>0, <2>2, <2>4, <3>1
  <2> QED
    BY <1>9, <2>3, <2>4 DEF Reschedules
<1> QED
  BY <1>1, <1>2, <1>3, <1>4, <1>5, <1>6, <1>8, <1>9 DEF Finishes

\* What operators, clocks and announcements do is a step of RunGraph, or invisible.
LEMMA TendsStep ==
    ASSUME NEW d, Good(d), NEW c, NEW X, Tends(d, c), db = Outbox(d, X), db' = Outbox(c, X)
    PROVE  [Next]_db /\ Leaves(d, c, {})
<1>0. /\ Cancel \/ Park \/ Unpark => Next
      /\ \A s \in Steps : Requeue(s) \/ BackoffElapses(s) \/ ReconcileDispatch(s) => Next
  BY ZenonT(30) DEF Next
<1>1. d \in Rows /\ db.step = d.step /\ db.run = d.run /\ db.due = d.due
      /\ db.dispatch = d.dispatch \cup X
  BY WideColumns DEF Good
<1>2. CASE Cancels(d, c)
  <2>1. Cancels(db, db') /\ Leaves(d, c, {})
    BY <1>2, CancelsFrame
  <2>2. Cancel
    BY <2>1, Zenon DEF Cancels, Cancel
  <2> QED
    BY <1>0, <2>1, <2>2
<1>3. CASE d.run = "running" /\ c = ParkRun(d)
  <2>1. Carries(d, X, ParkRun(d), ParkRun(db), {})
    BY RunCarries
  <2>2. Park /\ Leaves(d, c, {})
    BY <1>1, <1>3, <2>1 DEF Carries, Park
  <2> QED
    BY <1>0, <2>2
<1>4. CASE Unparks(d, c)
  <2>1. Unparks(db, db') /\ Leaves(d, c, {})
    BY <1>4, UnparksFrame
  <2> QED
    BY <1>0, <2>1 DEF Unparks, Unpark
<1>5. ASSUME NEW s \in Steps, Requeues(d, c, s)
      PROVE  Next /\ Leaves(d, c, {})
  <2>1. Requeues(db, db', s) /\ Leaves(d, c, {})
    BY <1>5, RequeuesFrame
  <2>2. Requeue(s)
    BY <2>1, Zenon DEF Requeues, Requeue
  <2> QED
    BY <1>0, <2>1, <2>2
<1>6. ASSUME NEW s \in Steps, d.step[s] = "retrying", s \notin d.due, c = [d EXCEPT !.due = @ \cup {s}]
      PROVE  Next /\ Leaves(d, c, {})
  <2>1. Leaves(d, c, {}) /\ db' = [db EXCEPT !.due = @ \cup {s}]
    BY <1>6, BackoffFrame
  <2>2. BackoffElapses(s)
    BY <1>1, <1>6, <2>1, Zenon DEF BackoffElapses
  <2> QED
    BY <1>0, <2>1, <2>2
<1>7. ASSUME NEW s \in Steps, s \notin d.dispatch, Takable(d, s), c = Outbox(d, {s})
      PROVE  [Next]_db /\ Leaves(d, c, {})
  <2>1. Leaves(d, c, {}) /\ db' = Outbox(db, {s}) /\ (s \in X => db' = db)
    BY <1>7, AnnounceFrame
  <2>2. CASE s \in X
    BY <2>1, <2>2
  <2>3. CASE s \notin X
    <3>1. ReconcileDispatch(s)
      BY <1>1, <1>7, <2>1, <2>3 DEF ReconcileDispatch, Claimable, Takable
    <3> QED
      BY <1>0, <2>1, <3>1
  <2> QED
    BY <2>2, <2>3
<1> QED
  BY <1>2, <1>3, <1>4, <1>5, <1>6, <1>7, Zenon DEF Tends

\* A delivery that claims s is a step of RunGraph, and s joins the running steps.
LEMMA ClaimsStep ==
    ASSUME NEW d, NEW H, Held(d, H), NEW c, NEW X, NEW s \in X, s \in Steps, Claims(d, c, s),
           db = Outbox(d, X), db' = Outbox(c, X)
    PROVE  Next /\ Held(c, H \cup {s})
<1>0. Good(d) /\ (Claim(s) => Next)
  BY Zenon DEF Next, Held
<1>1. d \in Rows /\ db.step = d.step /\ db.run = d.run /\ db.due = d.due
      /\ db.dispatch = d.dispatch \cup X
  BY <1>0, WideColumns DEF Good
<1>2. Takable(d, s) /\ c = ClaimStep(d, s)
  BY <1>0, TakeoverFrame DEF Claims, Takable
<1>3. d.step[s] \notin Settled
  BY <1>2 DEF Takable, Settled
<1>4. /\ db' = ClaimStep(db, s) /\ Good(c)
      /\ \A x \in Steps : c.step[x] = IF x = s THEN "running" ELSE d.step[x]
      /\ c.due = d.due \ {s}
  BY <1>0, <1>2, <1>3, ClaimFrame
<1>5. Next
  BY <1>0, <1>1, <1>2, <1>4 DEF Claim, Claimable, Takable
<1>6. Held(c, H \cup {s})
  BY <1>4 DEF Held, StepsIn
<1> QED
  BY <1>5, <1>6

\* What only forgets announcements drops deliveries, and never of a pending step.
LEMMA RestsStep ==
    ASSUME NEW d, NEW H, Held(d, H), NEW c, NEW X \in SUBSET Steps, Rests(d, c),
           NEW Y \in SUBSET (d.dispatch \cup X), Sound(db), db = Outbox(d, X), db' = Outbox(c, Y)
    PROVE  Next /\ Held(c, H)
<1>0. Good(d) /\ d \in Rows
  BY DEF Held, Good
<1>1. c = d \/ \E D \in SUBSET d.dispatch : c = [d EXCEPT !.dispatch = D]
  <2>1. ASSUME NEW s \in Steps, d.step[s] = "running" PROVE s \notin d.due
    BY <2>1 DEF Held, StepsIn
  <2> QED
    BY <1>0, <2>1, TakeoverFrame DEF Rests
<1>2. PICK D \in SUBSET d.dispatch : c = [d EXCEPT !.dispatch = D]
  <2>1. d = [d EXCEPT !.dispatch = d.dispatch]
    BY <1>0 DEF Rows
  <2> QED
    BY <1>1, <2>1
<1> DEFINE S == db.dispatch \ (D \cup Y)
<1>3. Leaves(d, c, {}) /\ db' = Forget(db, S)
  BY <1>0, <1>2, DropFrame
<1>4. \A s \in db.dispatch : db.step[s] # "pending"
  BY DEF Sound, Core, Announced
<1>5. S \in SUBSET db.dispatch
  OBVIOUS
<1> HIDE DEF S
<1>6. DropDeliveries(S)
  BY <1>3, <1>4, <1>5 DEF DropDeliveries, Forget
<1>7. Next
  BY <1>5, <1>6, Zenon DEF Next
<1>8. Held(c, H \ {})
  BY <1>3, LeavesHeld
<1> QED
  BY <1>7, <1>8

\* Whatever moves the rows and their announcements moves RunGraph, which stays sound,
\* and keeps account of the running steps.
LEMMA MovesStep ==
    ASSUME NEW d, NEW H, Held(d, H), NEW X \in SUBSET Steps, NEW c, NEW Y, NEW K,
           Moves(d, c, X, Y, H, K), Sound(db), db = Outbox(d, X), db' = Outbox(c, Y)
    PROVE  [Next]_db /\ Sound(db') /\ Held(c, K)
<1>0. Good(d)
  BY DEF Held
<1>1. [Next]_db /\ Held(c, K)
  <2>1. CASE Y = X /\ \E s \in Steps : Finishes(d, c, s, X) /\ K = H \ {s}
    <3>1. PICK s \in Steps : Finishes(d, c, s, X) /\ K = H \ {s}
      BY <2>1
    <3>2. Next /\ Leaves(d, c, {s})
      BY <1>0, <2>1, <3>1, FinishesStep
    <3> QED
      BY <3>1, <3>2, LeavesHeld
  <2>2. CASE Y = X /\ Tends(d, c) /\ K = H
    <3>1. Held(c, H \ {})
      BY <1>0, <2>2, TendsStep, LeavesHeld
    <3> QED
      BY <1>0, <2>2, <3>1, TendsStep
  <2>3. CASE Y = X /\ \E s \in X : Claims(d, c, s) /\ K = H \cup {s}
    BY <2>3, ClaimsStep
  <2>4. CASE Y \subseteq d.dispatch \cup X /\ Rests(d, c) /\ K = H
    BY <2>4, RestsStep
  <2> QED
    BY <2>1, <2>2, <2>3, <2>4 DEF Moves
<1>2. Good(db)
  BY <1>0, SameRows, SameGood DEF Good
<1>3. Sound(db')
  BY <1>1, <1>2, NextSound
<1> QED
  BY <1>1, <1>3

\* The new run, which only the outbox announces.
LEMMA MovesInit ==
    ASSUME Init
    PROVE  Held(db, {}) /\ Sound(db) /\ Outbox(db, {}) = db
<1>1. Good(db) /\ Sound(db)
  BY InitGood, InitSound
<1>2. db.due = {} /\ StepsIn(db, {"running"}) = {}
  BY DEF Init, StepsIn
<1>3. Outbox(db, {}) = db
  BY <1>1 DEF Good, Outbox, Rows
<1> QED
  BY <1>1, <1>2, <1>3 DEF Held

\* Counters that match the rows are not negative.
LEMMA GoodCounts ==
    ASSUME NEW d, Good(d)
    PROVE  /\ d \in Rows
           /\ \A s \in Steps : d.remaining[s] >= 0 /\ d.fired[s] >= 0
           /\ \A t \in Settled : d.counters[t] >= 0
<1>1. \A s \in Steps : d.remaining[s] >= 0 /\ d.fired[s] >= 0
  <2> TAKE s \in Steps
  <2>1. /\ Cardinality(OpenEdges(d, s)) \in Nat
        /\ Cardinality(FiredEdges(d, s)) \in Nat
    BY FiniteParts DEF OpenEdges, FiredEdges, In
  <2>2. /\ d.remaining[s] = Cardinality(OpenEdges(d, s))
        /\ d.fired[s] = Cardinality(FiredEdges(d, s))
    BY DEF Good, DepsOK
  <2> QED
    BY <2>1, <2>2
<1>2. \A t \in Settled : d.counters[t] >= 0
  <2> TAKE t \in Settled
  <2>1. Cardinality(StepsIn(d, {t})) \in Nat
    BY FiniteParts DEF StepsIn
  <2>2. d.counters[t] = Cardinality(StepsIn(d, {t}))
    BY DEF Good, CountsOK
  <2> QED
    BY <2>1, <2>2
<1> QED
  BY <1>1, <1>2 DEF Good

=============================================================================
