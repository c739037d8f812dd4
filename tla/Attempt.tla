------------------------------- MODULE Attempt -------------------------------
(* One attempt of a cost-bearing step inside a worker (engine/claim.go,      *)
(* execute): claim, response cache, budget and downgrade, rate limiter,      *)
(* provider call, validation chain, cache write and the completion           *)
(* transaction with its ledger rows.  Several attempts of several steps of   *)
(* one run are under way at once, the attempts of workers that were taken    *)
(* over included.  The steps do not depend on each other and the run's       *)
(* failure policy is continue: RunGraph models what a step's end does to the *)
(* rest of the graph.                                                        *)
EXTENDS Naturals, Sequences, FiniteSets, FiniteSetsExt, Functions

CONSTANTS
    Steps,          \* the llm steps of one run, all claimable
    MaxClaims,      \* MaxClaims[s]: bound on the claims of s
    Outputs,        \* what a provider can answer
    Passes,         \* Passes[s]: the outputs the chain of s accepts
    Judged,         \* steps whose chain has an llm_judge (any verdict possible)
    Prompt,         \* Prompt[s]: the rendered request of s
    Reads, Writes,  \* steps whose cache policy reads, writes
    Estimate,       \* Estimate[m]: projected cost of model m; model 1 is primary
    Actual,         \* Actual[m]: the costs a call of model m can turn out to have
    Threshold,      \* Threshold[m]: percent of budget that authorizes m, 0 if none
    JudgeCost,      \* cost of one llm_judge call
    StepCap,        \* StepCap[s]: budget.max_usd of s, 0 if none
    RetryMax, SemanticMax,
    Budgets,        \* run budgets; a run starts with the least
    Classes,        \* classes a failing call can have
    MaxFaults       \* bound on failures and operator calls, together

VARIABLES
    run,            \* runs row: status, policy, budget, spent, saved, ceiling
    row,            \* run_steps rows: status, attempt, feedback, out
    att,            \* step_attempts: outcomes, in order
    dead,           \* dead_letters: the last entry of a step
    ledger,         \* cost_ledger rows
    cache,          \* the response cache: [key -> entry]
    job,            \* job[s][n]: the worker running attempt n of s
    billed,         \* what providers charged for, ledgered or not
    faults          \* how many failures there were, and how many of them failed
                    \* reads of a step's ledger

vars == <<run, row, att, dead, ledger, cache, job, billed, faults>>

Models == DOMAIN Estimate
None == "none"
NoJob == [pc |-> "done"]

\* Calls priced: an attempt's own call, its judge, a judge that errored, and
\* the judge of a cache hit that did not pass.
Entries == {"attempt", "judge:0", "judge:e", "rejudge"}

Init ==
    /\ run \in [status: {"running"}, policy: {"park", "fail"}, budget: {Min(Budgets)},
                spent: {0}, saved: {0}, ceiling: {Min(Budgets)}]
    /\ row = [s \in Steps |-> [status |-> "ready", attempt |-> 0, feedback |-> 0, out |-> None]]
    /\ att = [s \in Steps |-> <<>>]
    /\ dead = [s \in Steps |-> [source |-> None, from |-> 0, to |-> 0]]
    /\ ledger = {}
    /\ cache = <<>>
    /\ job = [s \in Steps |-> <<>>]
    /\ billed = {}
    /\ faults = [any |-> 0, read |-> 0]

-----------------------------------------------------------------------------
(* Rows and counts                                                          *)

\* CountCountedFailures and CountValidationFailures: past the last dead letter.
Outcomes(s, from, set) == Cardinality({n \in DOMAIN att[s] : n > from /\ att[s][n] \in set})
CountedFailures(s) == Outcomes(s, dead[s].to, {"transient", "timeout"})
ValidationFailures(s) == Outcomes(s, dead[s].to, {"validation_failed"})

\* The claim fence of every transition out of running.
Live(s, n) == row[s].status = "running" /\ row[s].attempt = n

SumCost(rows) == MapThenSumSet(LAMBDA r : r.cost, rows)
SumByStep(s) == SumCost({r \in ledger : r.step = s})

At(s, n, pc) == n \in DOMAIN job[s] /\ job[s][n].pc = pc

Goto(s, n, pc) == job' = [job EXCEPT ![s][n].pc = pc]

Finish(s, n) == job' = [job EXCEPT ![s][n] = NoJob]

CountFault == faults.any < MaxFaults /\ faults' = [faults EXCEPT !.any = @ + 1]

-----------------------------------------------------------------------------
(* Claims                                                                   *)

\* What a claim hands to execute: ClaimOrigin's spend and budget, read under
\* the run lock, and the pending critique of a semantic retry.
NewJob(s) ==
    [pc |-> "read", model |-> 1, spent |-> run.spent, budget |-> run.budget,
     feedback |-> row[s].feedback, out |-> None, cost |-> 0, saved |-> 0,
     judge |-> {}, class |-> None]

Claim(s) ==
    /\ row[s].status \in {"ready", "retrying"}
    /\ run.status = "running"
    /\ row[s].attempt < MaxClaims[s]
    /\ row' = [row EXCEPT ![s].status = "running", ![s].attempt = @ + 1]
    /\ att' = [att EXCEPT ![s] = Append(@, "open")]
    /\ job' = [job EXCEPT ![s] = Append(@, NewJob(s))]
    /\ UNCHANGED <<run, dead, ledger, cache, billed, faults>>

\* A lease expired: the old attempt is closed lost and a new claim issued,
\* whether or not the old worker is still running.
Takeover(s) ==
    /\ row[s].status = "running"
    /\ run.status = "running"
    /\ row[s].attempt < MaxClaims[s]
    /\ CountFault
    /\ row' = [row EXCEPT ![s].attempt = @ + 1]
    /\ att' = [att EXCEPT ![s] = Append([@ EXCEPT ![Len(@)] = "lost"], "open")]
    /\ job' = [job EXCEPT ![s] = Append(@, NewJob(s))]
    /\ UNCHANGED <<run, dead, ledger, cache, billed>>

-----------------------------------------------------------------------------
(* The response cache                                                       *)

\* The key covers the resolved request: prompt, folded-in critique and model.
Key(s, j) == <<Prompt[s], j.feedback, j.model>>

\* Possible verdicts of the chain of s: an llm_judge may decide either way.
Verdicts(s, out) ==
    IF s \in Judged THEN {"pass", "fail"}
    ELSE {IF out \in Passes[s] THEN "pass" ELSE "fail"}

JudgeCharge(s, entry) == IF s \in Judged THEN {entry} ELSE {}

ServeUnvalidated(s, out) == {"pass"}

HitVerdicts(s, out) == Verdicts(s, out)

AfterRead(pc) == IF pc = "read" THEN "budget" ELSE "limit"

\* Served from the cache: the stored output and, as saving, its usage; a pass
\* verdict's judge charge goes to the completion.
CacheHit(s, n) ==
    LET j == job[s][n] IN
    /\ j.pc \in {"read", "reread"}
    /\ s \in Reads /\ Key(s, j) \in DOMAIN cache
    /\ LET e == cache[Key(s, j)] IN
       /\ "pass" \in HitVerdicts(s, e.out)
       /\ billed' = billed \cup {<<s, n, x, JudgeCost>> : x \in JudgeCharge(s, "judge:0")}
       /\ job' = [job EXCEPT ![s][n] =
                    [j EXCEPT !.pc = "succeed", !.out = e.out, !.saved = e.cost,
                              !.judge = JudgeCharge(s, "judge:0")]]
    /\ UNCHANGED <<run, row, att, dead, ledger, cache, faults>>

\* A stored output that no longer passes, or whose validation errs, is not
\* served; what its judge cost is recorded nowhere.
CacheHitRejected(s, n) ==
    LET j == job[s][n] IN
    /\ j.pc \in {"read", "reread"}
    /\ s \in Reads /\ Key(s, j) \in DOMAIN cache
    /\ "fail" \in HitVerdicts(s, cache[Key(s, j)].out)
    /\ billed' = billed \cup {<<s, n, x, JudgeCost>> : x \in JudgeCharge(s, "rejudge")}
    /\ Goto(s, n, AfterRead(j.pc))
    /\ UNCHANGED <<run, row, att, dead, ledger, cache, faults>>

CacheMiss(s, n) ==
    LET j == job[s][n] IN
    /\ j.pc \in {"read", "reread"}
    /\ s \in Reads => Key(s, j) \notin DOMAIN cache
    /\ Goto(s, n, AfterRead(j.pc))
    /\ UNCHANGED <<run, row, att, dead, ledger, cache, billed, faults>>

\* A store error or a corrupt entry fails open.
CacheFailsOpen(s, n) ==
    LET j == job[s][n] IN
    /\ j.pc \in {"read", "reread"} /\ s \in Reads
    /\ CountFault
    /\ Goto(s, n, AfterRead(j.pc))
    /\ UNCHANGED <<run, row, att, dead, ledger, cache, billed>>

\* An entry expires, or an operator busts the cache.
CacheExpire ==
    /\ cache # <<>>
    /\ CountFault
    /\ \E k \in DOMAIN cache : cache' = Restrict(cache, DOMAIN cache \ {k})
    /\ UNCHANGED <<run, row, att, dead, ledger, job, billed>>

\* Everything before the cache read that fails for good: an unknown executor,
\* a corrupt timeout, an unrenderable config, an unresolvable chain or context.
Preflight(s, n) ==
    /\ At(s, n, "read")
    /\ CountFault
    /\ job' = [job EXCEPT ![s][n].pc = "fail", ![s][n].class = "permanent"]
    /\ UNCHANGED <<run, row, att, dead, ledger, cache, billed>>

-----------------------------------------------------------------------------
(* The budget                                                               *)

\* The step's cap is on what all its attempts have cost so far.
StepFits(s, m) == StepCap[s] > 0 => SumByStep(s) + Estimate[m] <= StepCap[s]

RunFitsOnSpend(j, m) == j.spent <= j.budget

\* The run's budget, against the spend the claim read.
RunFits(j, m) == j.spent + Estimate[m] <= j.budget

ThresholdMet(j, m) == Threshold[m] > 0 /\ 100 * j.spent >= Threshold[m] * j.budget

\* The cheapest tier the run's spend has authorized, if it fits; otherwise,
\* when the primary does not fit or an authorized tier does not, the first
\* tier that fits.  0 is no downgrade.
ChooseDowngrade(fits, met) ==
    LET tiers == Models \ {1}
        deepest == IF met = {} THEN 0 ELSE Max(met)
        usable == tiers \cap fits
    IN  IF deepest \in usable THEN deepest
        ELSE IF (1 \notin fits \/ deepest # 0) /\ usable # {} THEN Min(usable) ELSE 0

BudgetCheck(s, n) ==
    LET j == job[s][n]
        fits == {m \in Models : RunFits(j, m) /\ StepFits(s, m)}
        tier == ChooseDowngrade(fits, {m \in Models \ {1} : ThresholdMet(j, m)})
    IN
    /\ At(s, n, "budget")
    /\ job' = [job EXCEPT ![s][n] =
                 IF tier # 0 THEN [j EXCEPT !.pc = "downgrade", !.model = tier]
                 ELSE IF ~StepFits(s, 1) THEN [j EXCEPT !.pc = "fail", !.class = "permanent"]
                 ELSE IF 1 \in fits THEN [j EXCEPT !.pc = "limit"]
                 ELSE IF run.policy = "fail" THEN [j EXCEPT !.pc = "fail", !.class = "permanent"]
                 ELSE [j EXCEPT !.pc = "park"]]
    /\ UNCHANGED <<run, row, att, dead, ledger, cache, billed, faults>>

\* The read of the step's ledger fails: budgetCheck returns the error with
\* handled = false, and execute goes on without looking at it.
BudgetReadFails(s, n) ==
    /\ At(s, n, "budget") /\ StepCap[s] > 0
    /\ faults.any < MaxFaults
    /\ faults' = [any |-> faults.any + 1, read |-> faults.read + 1]
    /\ Goto(s, n, "limit")
    /\ UNCHANGED <<run, row, att, dead, ledger, cache, billed>>

\* RecordModelDowngrade appends its event only under the caller's live claim;
\* then the cache is read again under the cheaper model's key.
RecordDowngrade(s, n) ==
    /\ At(s, n, "downgrade")
    /\ IF Live(s, n) THEN Goto(s, n, "reread") ELSE Finish(s, n)
    /\ UNCHANGED <<run, row, att, dead, ledger, cache, billed, faults>>

-----------------------------------------------------------------------------
(* Window guard, rate limiter, provider call and validation chain           *)

\* The request does not fit the model's window, or asks for more than a bucket
\* can ever hold.
Refuse(s, n) ==
    /\ At(s, n, "limit")
    /\ CountFault
    /\ job' = [job EXCEPT ![s][n].pc = "fail", ![s][n].class = "permanent"]
    /\ UNCHANGED <<run, row, att, dead, ledger, cache, billed>>

Throttle(s, n) ==
    /\ At(s, n, "limit")
    /\ CountFault
    /\ Goto(s, n, "throttle")
    /\ UNCHANGED <<run, row, att, dead, ledger, cache, billed>>

\* A grant, or a limiter that is unreachable and fails open.
Acquire(s, n) ==
    /\ At(s, n, "limit")
    /\ Goto(s, n, "call")
    /\ UNCHANGED <<run, row, att, dead, ledger, cache, billed, faults>>

\* Where a verdict leads.
AfterVerdict(s, verdict) ==
    CASE verdict = "fail" -> "invalid"
      [] s \in Writes -> "write"
      [] OTHER -> "succeed"

\* The provider answers and the chain runs over the answer.
Call(s, n) ==
    /\ At(s, n, "call")
    /\ \E out \in Outputs, cost \in Actual[job[s][n].model] :
       \E verdict \in Verdicts(s, out) :
          /\ job' = [job EXCEPT ![s][n] =
                [@ EXCEPT !.pc = AfterVerdict(s, verdict), !.out = out, !.cost = cost,
                          !.judge = JudgeCharge(s, "judge:0")]]
          /\ billed' = billed \cup {<<s, n, "attempt", cost>>}
                              \cup {<<s, n, x, JudgeCost>> : x \in JudgeCharge(s, "judge:0")}
    /\ UNCHANGED <<run, row, att, dead, ledger, cache, faults>>

\* The call fails and bills nothing.
CallFails(s, n) ==
    /\ At(s, n, "call")
    /\ \E class \in Classes :
          job' = [job EXCEPT ![s][n].pc = "fail", ![s][n].class = class]
    /\ UNCHANGED <<run, row, att, dead, ledger, cache, billed, faults>>

\* The provider answers, then the judge fails the stage: with a malformed
\* answer, which it billed for and would give again, or with no answer.
ValidatorErrs(s, n) ==
    /\ At(s, n, "call") /\ s \in Judged
    /\ CountFault
    /\ \E cost \in Actual[job[s][n].model], charged \in SUBSET {"judge:e"} :
          /\ job' = [job EXCEPT ![s][n] =
                [@ EXCEPT !.pc = "fail", !.class = IF charged = {} THEN "transient" ELSE "permanent",
                          !.cost = cost, !.judge = charged]]
          /\ billed' = billed \cup {<<s, n, "attempt", cost>>}
                              \cup {<<s, n, x, JudgeCost>> : x \in charged}
    /\ UNCHANGED <<run, row, att, dead, ledger, cache>>

\* Write-through, before the completion transaction.
CacheWrite(s, n) ==
    LET j == job[s][n] IN
    /\ At(s, n, "write")
    /\ cache' = [k \in DOMAIN cache \cup {Key(s, j)} |->
                   IF k = Key(s, j) THEN [out |-> j.out, cost |-> j.cost, by |-> s] ELSE cache[k]]
    /\ Goto(s, n, "succeed")
    /\ UNCHANGED <<run, row, att, dead, ledger, billed, faults>>

\* An oversized value or a store error: the result is just not cached.
CacheWriteSkipped(s, n) ==
    /\ At(s, n, "write")
    /\ CountFault
    /\ Goto(s, n, "succeed")
    /\ UNCHANGED <<run, row, att, dead, ledger, cache, billed>>

-----------------------------------------------------------------------------
(* Completion transactions                                                  *)

\* priceAttempt and the overhead rows: what a completion ledgers.
CostRows(s, n, j) ==
    {[step |-> s, attempt |-> n, entry |-> "attempt", cost |-> j.cost, saved |-> j.saved] :
        x \in {y \in {1} : j.out # None \/ j.cost > 0}}
    \cup {[step |-> s, attempt |-> n, entry |-> x, cost |-> JudgeCost, saved |-> 0] : x \in j.judge}

Total(base, field, rows) == base + MapThenSumSet(LAMBDA r : r[field], rows)

\* ApplyAttemptCost: insert the rows, add them to the run's totals.
ApplyCost(rows) ==
    /\ ledger' = ledger \cup rows
    /\ run' = [run EXCEPT !.spent = Total(@, "cost", rows), !.saved = Total(@, "saved", rows)]

Close(s, n, outcome) == att' = [att EXCEPT ![s][n] = outcome]

\* A fenced completion changes nothing; on a cancelling run anything but a
\* success settles the step cancelled, and nothing is ledgered.
Fenced(s, n) ==
    /\ ~Live(s, n)
    /\ UNCHANGED <<run, row, att, dead, ledger>>

SettleCancelled(s, n) ==
    /\ Live(s, n) /\ run.status = "cancelling"
    /\ row' = [row EXCEPT ![s].status = "cancelled"]
    /\ Close(s, n, "cancelled")
    /\ UNCHANGED <<run, dead, ledger>>

Judgeable(s, n) == Live(s, n) /\ run.status # "cancelling"

CompleteSuccess(s, n) ==
    /\ At(s, n, "succeed")
    /\ \/ Fenced(s, n)
       \/ /\ Live(s, n)
          /\ row' = [row EXCEPT ![s].status = "succeeded", ![s].feedback = 0,
                                ![s].out = job[s][n].out]
          /\ Close(s, n, "succeeded")
          /\ ApplyCost(CostRows(s, n, job[s][n]))
          /\ UNCHANGED dead
    /\ Finish(s, n)
    /\ UNCHANGED <<cache, billed, faults>>

\* DeadLetterStep: the dead letter remembers how many attempts there were.
DeadLetter(s, n, source) ==
    /\ row' = [row EXCEPT ![s].status = "dead_lettered", ![s].feedback = 0]
    /\ dead' = [dead EXCEPT ![s] = [source |-> source, from |-> @.to, to |-> n]]

\* completeFailure: counted classes retry within their budget.
RouteFailure(s, n, class) ==
    LET counted == class \in {"transient", "timeout"}
        exhausted == counted /\ CountedFailures(s) + 1 >= RetryMax[s]
    IN  IF counted /\ ~exhausted
        THEN row' = [row EXCEPT ![s].status = "retrying"] /\ UNCHANGED dead
        ELSE DeadLetter(s, n, IF exhausted THEN "retries" ELSE "permanent")

CompleteFailure(s, n) ==
    /\ At(s, n, "fail")
    /\ \/ Fenced(s, n)
       \/ SettleCancelled(s, n)
       \/ /\ Judgeable(s, n)
          /\ RouteFailure(s, n, job[s][n].class)
          /\ Close(s, n, job[s][n].class)
          /\ ApplyCost(CostRows(s, n, job[s][n]))
    /\ Finish(s, n)
    /\ UNCHANGED <<cache, billed, faults>>

\* completeValidationFailure: a semantic retry carries the critique, numbered
\* for the attempt it is for, until the semantic budget is gone.
RouteInvalid(s, n) ==
    LET k == ValidationFailures(s) + 1
    IN  IF k < SemanticMax[s]
        THEN row' = [row EXCEPT ![s].status = "retrying", ![s].feedback = k + 1] /\ UNCHANGED dead
        ELSE DeadLetter(s, n, "semantic")

CompleteValidationFailure(s, n) ==
    /\ At(s, n, "invalid")
    /\ \/ Fenced(s, n)
       \/ SettleCancelled(s, n)
       \/ /\ Judgeable(s, n)
          /\ RouteInvalid(s, n)
          /\ Close(s, n, "validation_failed")
          /\ ApplyCost(CostRows(s, n, job[s][n]))
    /\ Finish(s, n)
    /\ UNCHANGED <<cache, billed, faults>>

CompleteThrottle(s, n) ==
    /\ At(s, n, "throttle")
    /\ \/ Fenced(s, n)
       \/ SettleCancelled(s, n)
       \/ /\ Judgeable(s, n)
          /\ row' = [row EXCEPT ![s].status = "retrying"]
          /\ Close(s, n, "throttled")
          /\ UNCHANGED <<run, dead, ledger>>
    /\ Finish(s, n)
    /\ UNCHANGED <<cache, billed, faults>>

\* The step is released and the run parked, unless a sibling already did.
CompleteBudgetPark(s, n) ==
    /\ At(s, n, "park")
    /\ \/ Fenced(s, n)
       \/ SettleCancelled(s, n)
       \/ /\ Judgeable(s, n)
          /\ row' = [row EXCEPT ![s].status = "ready"]
          /\ Close(s, n, "budget_exceeded")
          /\ run' = [run EXCEPT !.status = IF @ = "running" THEN "parked" ELSE @]
          /\ UNCHANGED <<dead, ledger>>
    /\ Finish(s, n)
    /\ UNCHANGED <<cache, billed, faults>>

\* A worker dies, or abandons its step at shutdown, wherever it is.
Crash(s, n) ==
    /\ n \in DOMAIN job[s] /\ job[s][n].pc # "done"
    /\ CountFault
    /\ Finish(s, n)
    /\ UNCHANGED <<run, row, att, dead, ledger, cache, billed>>

-----------------------------------------------------------------------------
(* Operators                                                                *)

SetRunBudget ==
    /\ \E b \in Budgets :
          /\ b # run.budget
          /\ run' = [run EXCEPT !.budget = b, !.ceiling = IF b > @ THEN b ELSE @]
    /\ CountFault
    /\ UNCHANGED <<row, att, dead, ledger, cache, job, billed>>

Unpark ==
    /\ run.status = "parked"
    /\ run' = [run EXCEPT !.status = "running"]
    /\ UNCHANGED <<row, att, dead, ledger, cache, job, billed, faults>>

Cancel ==
    /\ run.status \in {"running", "parked"}
    /\ CountFault
    /\ run' = [run EXCEPT !.status = "cancelling"]
    /\ UNCHANGED <<row, att, dead, ledger, cache, job, billed>>

Requeue(s) ==
    /\ row[s].status = "dead_lettered" /\ run.status # "cancelling"
    /\ row' = [row EXCEPT ![s].status = "ready"]
    /\ UNCHANGED <<run, att, dead, ledger, cache, job, billed, faults>>

Advance(s, n) ==
    \/ CacheHit(s, n) \/ CacheHitRejected(s, n) \/ CacheMiss(s, n) \/ CacheFailsOpen(s, n)
    \/ Preflight(s, n)
    \/ BudgetCheck(s, n) \/ BudgetReadFails(s, n) \/ RecordDowngrade(s, n)
    \/ Refuse(s, n) \/ Throttle(s, n) \/ Acquire(s, n)
    \/ Call(s, n) \/ CallFails(s, n) \/ ValidatorErrs(s, n)
    \/ CacheWrite(s, n) \/ CacheWriteSkipped(s, n)
    \/ CompleteSuccess(s, n) \/ CompleteFailure(s, n) \/ CompleteValidationFailure(s, n)
    \/ CompleteThrottle(s, n) \/ CompleteBudgetPark(s, n)
    \/ Crash(s, n)

Next ==
    \/ \E s \in Steps : Claim(s) \/ Takeover(s) \/ Requeue(s)
    \/ \E s \in Steps : \E n \in DOMAIN job[s] : Advance(s, n)
    \/ CacheExpire \/ SetRunBudget \/ Unpark \/ Cancel

Spec == Init /\ [][Next]_vars

-----------------------------------------------------------------------------
(* Properties                                                               *)

Statuses == {"ready", "running", "retrying", "succeeded", "dead_lettered", "cancelled"}
Judged4Cost == {"succeeded", "validation_failed", "transient", "timeout", "permanent"}

\* Types of the rows and bounds of the counters.
TypeOK ==
    /\ run.status \in {"running", "parked", "cancelling"}
    /\ run.spent \in Nat /\ run.saved \in Nat /\ run.budget \in Budgets
    /\ \A s \in Steps :
         /\ row[s].status \in Statuses
         /\ row[s].attempt = Len(att[s]) /\ Len(job[s]) = Len(att[s])
         /\ row[s].attempt <= MaxClaims[s]
         /\ row[s].feedback \in 0..SemanticMax[s]
    /\ \A r \in ledger : r.entry \in Entries \ {"rejudge"}

\* ApplyAttemptCost, run by concurrent completions of several steps, keeps the
\* run's totals equal to the sums of its ledger rows.
LedgerExact ==
    /\ run.spent = SumCost(ledger)
    /\ run.saved = MapThenSumSet(LAMBDA r : r.saved, ledger)

\* What providers billed for an attempt is in the ledger exactly when the
\* attempt was judged: never for an attempt that was lost or cancelled, and
\* also when the validation stage, not the call, is what failed.  (A judge
\* that rejects a cache hit is billed and never ledgered.)
BillsLedgered ==
    /\ \A r \in ledger :
         /\ att[r.step][r.attempt] \in Judged4Cost
         /\ r.cost > 0 => <<r.step, r.attempt, r.entry, r.cost>> \in billed
    /\ \A b \in billed :
         att[b[1]][b[2]] \in Judged4Cost /\ b[3] # "rejudge" =>
            \E r \in ledger : <<r.step, r.attempt, r.entry, r.cost>> = b

\* Claims check a spend they read when they were claimed.  However claims,
\* retries, takeovers and budget changes interleave, productive spend passes
\* the highest budget the run had by at most one estimate for every other step
\* and for every claim whose budget check was lost to a failed read.
BoundedOvershoot ==
    SumCost({r \in ledger : r.entry = "attempt"})
        <= run.ceiling + (Cardinality(Steps) - 1 + faults.read) * Estimate[1]

StepSpend(s) == SumCost({r \in ledger : r.step = s /\ r.entry = "attempt"})

\* What is left of the cap: every failed read lets one claim past it.
StepCapHoldsPerRead ==
    \A s \in Steps : StepCap[s] > 0 => StepSpend(s) <= StepCap[s] + faults.read * Estimate[1]

\* A step succeeds only with an output its own chain accepts, also when the
\* output was cached by a step with the same request and another chain.
ServedOutputsValid ==
    \A s \in Steps : row[s].status = "succeeded" => row[s].out \in Passes[s]

\* An output its chain rejected is never cached.
CachedOutputsValid ==
    \A k \in DOMAIN cache : cache[k].out \in Passes[cache[k].by]

\* The two retry budgets are disjoint, and neither lost attempts, throttles
\* nor budget parks draw on them: a step that is still alive has failures of
\* each kind left, and one that died exhausted had used up that very budget
\* since its last requeue.
RetryBudgetsDisjoint ==
    \A s \in Steps :
        /\ row[s].status \in {"ready", "running", "retrying"} =>
              CountedFailures(s) < RetryMax[s] /\ ValidationFailures(s) < SemanticMax[s]
        /\ dead[s].source = "retries" =>
              Outcomes(s, dead[s].from, {"transient", "timeout"})
                 - CountedFailures(s) = RetryMax[s]
        /\ dead[s].source = "semantic" =>
              Outcomes(s, dead[s].from, {"validation_failed"})
                 - ValidationFailures(s) = SemanticMax[s]

\* The critique a claim will carry belongs to the last validation failure of
\* this life of the step: a throttle, a transport retry, a takeover or a park
\* in between keeps it, a success or a dead letter clears it.
FeedbackMatchesHistory ==
    \A s \in Steps :
        row[s].status \in {"ready", "running", "retrying"} =>
            row[s].feedback = IF ValidationFailures(s) = 0 THEN 0 ELSE ValidationFailures(s) + 1
=============================================================================
