------------------------------- MODULE Retries -------------------------------
(***************************************************************************)
(* How an attempt of a step ends and when the next one may start: the      *)
(* authored retry policy merged over the engine defaults, the per-attempt  *)
(* deadline, the classification of the executor's error, the durable retry *)
(* budget and the two delays (backoff after a judged failure, the clamped  *)
(* wait after a rate-limit denial).  Time is in ticks; a jitter draw is    *)
(* any value of the interval it is drawn from.  Attempt and RunGraph model *)
(* what these outcomes do to the run.                                      *)
(***************************************************************************)
EXTENDS Integers, Sequences, FiniteSets, SequencesExt, FiniteSetsExt

CONSTANTS
    Authored,       \* policies as authored
    Timeouts,       \* authored per-attempt timeouts, 0 for none
    RetryAfters,    \* how long the limiter says the tokens will take
    Default,        \* the engine's policy
    MaxRetryAttempts, MaxBackoffInitial, MaxBackoffCap, MaxMultiplier, MaxStepTimeout,
    Floor, Ceiling, JitterPercent,
    Durations,      \* how long an executor can take
    MaxLog          \* bound: attempts of one step

VARIABLE rt

Classes == {"transient", "timeout", "permanent", "cancelled", "validation_failed"}
Retryable == {"transient", "timeout"}

-----------------------------------------------------------------------------
(* The policy.  A field that is not authored holds 0, {} or "".            *)

\* checkBackoffDuration and the pair's order.
ValidBackoff(b) ==
    /\ b.initial \in 1..MaxBackoffInitial
    /\ b.cap \in 1..MaxBackoffCap
    /\ b.cap >= b.initial
    /\ b.multiplier \in 0..MaxMultiplier

\* checkRetry; the block's presence is b.given.
ValidRetry(p) ==
    /\ p.max \in 0..MaxRetryAttempts
    /\ p.jitter \in {"", "none", "full"}
    /\ p.backoff.given => ValidBackoff(p.backoff)
    /\ p.retryOn \subseteq Retryable

\* checkTimeout.
ValidTimeout(t) == t \in 0..MaxStepTimeout

\* ResolveRetryPolicy: the authored fields over the engine's, one by one.
ResolveRetryPolicy(p) ==
    [max     |-> IF p.max = 0 THEN Default.max ELSE p.max,
     jitter  |-> IF p.jitter = "" THEN Default.jitter ELSE p.jitter,
     retryOn |-> IF p.retryOn = {} THEN Default.retryOn ELSE p.retryOn,
     backoff |-> IF p.backoff.given
                 THEN [p.backoff EXCEPT !.multiplier = IF @ = 0 THEN Default.backoff.multiplier ELSE @]
                 ELSE Default.backoff]

-----------------------------------------------------------------------------
(* Classes and delays.                                                     *)

\* An executor's result: ok, an error declaring a class, one of the two
\* config errors, or a plain error.
Results == {"ok", "plain", "unknown_type", "invalid_config"} \cup Classes

\* classifyFailure: a class an executor may not declare counts as none.
ClassifyFailure(r) ==
    IF r \in {"transient", "permanent"} THEN r
    ELSE IF r \in {"unknown_type", "invalid_config"} THEN "permanent" ELSE "transient"

\* min(cap, initial * multiplier^(n-1)).
Computed(policy, n) ==
    Min({policy.backoff.cap, policy.backoff.initial * policy.backoff.multiplier ^ (n - 1)})

\* retryDelay: what the delay before retry n can be.
RetryDelays(policy, n) ==
    IF policy.jitter = "none" THEN {Computed(policy, n)} ELSE 0..Computed(policy, n)

Clamp(d) == Min({Max({d, Floor}), Ceiling})

\* throttleDelay: jitter is added to the clamped wait.
ThrottleDelays(d) == Clamp(d)..(Clamp(d) + (Clamp(d) * JitterPercent) \div 100)

-----------------------------------------------------------------------------
(* The step.  log has one entry per closed attempt.                        *)

Init ==
    \E p \in {a \in Authored : ValidRetry(a)}, t \in {d \in Timeouts : ValidTimeout(d)} :
        rt = [policy |-> ResolveRetryPolicy(p), timeout |-> t, status |-> "running",
              log |-> <<>>, deaths |-> {}, source |-> ""]

Entry(outcome, elapsed, delay, kind) ==
    [outcome |-> outcome, elapsed |-> elapsed, delay |-> delay, kind |-> kind]

Close(entry, status) == [rt EXCEPT !.log = Append(@, entry), !.status = status]

\* Fault: what happened before a requeue still counts.
CountEveryFailure == Cardinality({i \in DOMAIN rt.log : rt.log[i].outcome \in Retryable})

\* CountCountedFailures: judged failures after the last dead letter.
CountCountedFailures ==
    LET baseline == Max({0} \cup rt.deaths)
    IN  Cardinality({i \in (baseline + 1)..Len(rt.log) : rt.log[i].outcome \in Retryable})

\* completeFailure: retry while the class is retried and the budget lasts,
\* else dead-letter with the source that says why.
CompleteFailure(class, elapsed) ==
    LET n == CountCountedFailures + 1
        retries == class \in rt.policy.retryOn
    IN  IF retries /\ n < rt.policy.max
        THEN \E d \in RetryDelays(rt.policy, n) :
                rt' = Close(Entry(class, elapsed, d, "error"), "retrying")
        ELSE rt' = [Close(Entry(class, elapsed, 0, "error"), "dead") EXCEPT
                        !.deaths = @ \cup {Len(rt.log) + 1},
                        !.source = IF retries THEN "retries_exhausted" ELSE "permanent"]

\* timedOut: the deadline has passed when the executor returns.
Expired(elapsed) == rt.timeout > 0 /\ elapsed >= rt.timeout

\* runExecutor and Handle's routing: a late success is honoured, a late error
\* is a timeout whatever the executor called it.
Execute(result, elapsed) ==
    /\ rt.status = "running" /\ Len(rt.log) < MaxLog
    /\ IF result = "ok" THEN rt' = Close(Entry("succeeded", elapsed, 0, "ok"), "succeeded")
       ELSE CompleteFailure(IF Expired(elapsed) THEN "timeout" ELSE ClassifyFailure(result), elapsed)

\* The worker died or shut down: another one takes the step over, the attempt
\* is closed as lost and judged by nobody.
Lost ==
    /\ rt.status = "running" /\ Len(rt.log) < MaxLog
    /\ rt' = Close(Entry("lost", 0, 0, "none"), "running")

\* completeThrottle, before the executor is called.
Throttle(after) ==
    /\ rt.status = "running" /\ Len(rt.log) < MaxLog
    /\ \E d \in ThrottleDelays(after) : rt' = Close(Entry("throttled", after, d, "none"), "retrying")

\* The delay is over and the step is claimed again.
Claim == rt.status = "retrying" /\ rt' = [rt EXCEPT !.status = "running"]

\* An operator requeues the dead letter; the attempts before it stay.
Requeue ==
    /\ rt.status = "dead" /\ Len(rt.log) < MaxLog
    /\ rt' = [rt EXCEPT !.status = "running", !.source = ""]

Next ==
    \/ \E r \in Results, elapsed \in Durations : Execute(r, elapsed)
    \/ \E after \in RetryAfters : Throttle(after)
    \/ Lost \/ Claim \/ Requeue

-----------------------------------------------------------------------------
\* The lives of the step: the attempts up to a dead letter, from the one before.
Lives ==
    LET ends == rt.deaths \cup {Len(rt.log)}
    IN  {(Max({0} \cup {d \in rt.deaths : d < e}) + 1)..e : e \in ends}

Judged(life) == {i \in life : rt.log[i].outcome \in Retryable}

\* The retry budget is the policy's: every life that ended had at most
\* max_attempts judged failures, a living step had fewer, and one that died
\* of its budget exactly as many; lost and throttled attempts are not among
\* them (completeFailure, CountCountedFailures).
BudgetExact ==
    \A life \in Lives :
        /\ Cardinality(Judged(life)) <= rt.policy.max
        /\ Len(rt.log) \in life =>
              /\ rt.status \in {"running", "retrying"} /\ Len(rt.log) \notin rt.deaths =>
                     Cardinality(Judged(life)) < rt.policy.max
              /\ rt.source = "retries_exhausted" => Cardinality(Judged(life)) = rt.policy.max

\* Only the engine's own clock makes a timeout: no error an executor declares
\* becomes one, every error after the deadline does, and only what the policy
\* retries is followed by another attempt of the same life (classifyFailure,
\* timedOut, Retries).
TimeoutsAreTheEngines ==
    \A i \in DOMAIN rt.log :
        LET e == rt.log[i]
        IN  /\ (e.outcome = "timeout") <=> (e.kind = "error" /\ Expired(e.elapsed))
            /\ e.outcome \notin {"cancelled", "validation_failed"}
            /\ e.kind = "error" /\ i \notin rt.deaths => e.outcome \in rt.policy.retryOn

\* Work that was done is kept: an executor that returned a result has closed
\* the step, however late it was (Handle: "discarding it to record a timeout
\* would waste budget and re-run side effects").
DoneIsDone ==
    \A i \in DOMAIN rt.log : rt.log[i].kind = "ok" => rt.status = "succeeded" /\ i = Len(rt.log)

\* Delays stay within the policy's cap, and without jitter a life's retries
\* are never closer together than the ones before (retryDelay).
BackoffBounded ==
    \A life \in Lives :
        LET retried == Judged(life) \ rt.deaths
        IN  /\ \A i \in retried : rt.log[i].delay \in 0..rt.policy.backoff.cap
            /\ rt.policy.jitter = "none" =>
                  \A i, j \in retried : i < j => rt.log[i].delay <= rt.log[j].delay

\* A throttled step never wakes before its tokens exist, as long as the wait
\* is one the ceiling admits, and never later than the ceiling and its jitter
\* (throttleDelay: additive, not full, jitter).
NeverWakesEarly ==
    \A i \in DOMAIN rt.log :
        LET e == rt.log[i]
        IN  e.outcome = "throttled" =>
              /\ e.delay >= Min({e.elapsed, Ceiling}) /\ e.delay >= Floor
              /\ e.delay <= Ceiling + (Ceiling * JitterPercent) \div 100
==============================================================================
