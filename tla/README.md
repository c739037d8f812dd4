# A TLA+ model of agentloom

agentloom executes workflow graphs (DAGs of LLM calls, tools, approvals, maps and
loops) on a fleet of workers. Postgres is the only truth; Redis is a redeliverable
queue. This directory models the parts of that design that are hard to test, checks
them with TLC on small instances, and proves the central ones with TLAPS for every
graph. Paths below are relative to `src/internal/`.

## 1. The system and its parts

A transaction of `engine` that makes a step ready writes a `task_outbox` row with it.
The drainer moves the row to the stream `steps:ready`. A consumer reads the entry, and
its handler claims the step by a compare-and-set that stamps a fresh `claim_id`. Every
completion is fenced on that id and committed before the entry is acknowledged. A silent
consumer's entry is reclaimed, and a reclaimed delivery of a running step takes it over.
A delivery that comes back too often dead-letters its step. What the queue loses, the
reconciler re-announces from Postgres. Between claim and completion an attempt passes a
budget, a rate limiter, a cache, the executor with its context, tools and side effects,
a validation chain and the cost ledger. Every transaction appends events, which are
published and tailed by WebSocket clients that also read composed pages.

The hard behaviours are interleavings of completions, decisions, cancels and the
reconciler; crashes between a commit and the call that follows it; duplicated, late and
lost deliveries; zombies; the loss of Redis; graphs that grow while they run; counters
that every transition must keep in step with the rows they summarise.

| part | code | module |
|---|---|---|
| rows of a run: completions, fan-out, write-off, requeue, control, gates | `engine/complete.go`, `deadletter.go`, `runctl.go`, `decide.go`, `store/transitions.go` | `RunGraph` over `GraphConstants` |
| the same at the grain of a statement, with events, the sweep, and the page that shows them | `store/transitions.go`, `store/gen`, `engine/reconcile.go`, `api/runs.go`, `web` reducer | `Transitions`, `RunPage` |
| claims, fencing, outbox, delayed set, workers | `engine/claim.go`, `dispatch.go`, `queue/delayed.go` | `Dispatch` |
| the queue itself | `queue/*.go` | `ConsumerGroup` |
| graph algorithms, loop and map expansion, validation of a plan | `dag/*.go` | `Definition` |
| expansion of a live run | `store/expand.go`, `engine/map.go`, `engine/loop.go` | `Expansion` |
| a gate's expiry and a run's deadline | `engine/approval.go`, `reconcile.go` | `ApprovalTimeouts` |
| event log, publisher, run WebSocket and its client | `event/pubsub`, `api/ws.go`, `web` client | `EventFeed`, abstractly `OrderedFeed` |
| the stream of all runs | `api/firehose.go`, hub | `Firehose` |
| an attempt: budget, cache, validation routing, ledger | `engine/budget.go`, `cache.go`, `validate.go`, `cost.go` | `Attempt` |
| retry rules, backoff, timeouts | `engine/backoff.go`, `dag/retry*.go`, `exec/errors.go` | `Retries` |
| rate limiter, effect journal, blackboard | `ratelimit`, `exec/effects`, `blackboard` | `RateLimiter`, `EffectJournal`, `Blackboard` |
| context of a request | `contextmgr` | `ContextAssembly` |
| the model call, tools, validators, judges | `exec/llmexec.go`, `agentexec.go`, `validate` | `ModelCall` |
| JSON repair, prices | `jsonrepair`, `cost` | `JsonRepair`, `Pricing` |
| submission, registry, listings, keys and tickets, step logs | `api`, `store/instantiate.go`, `exec/steplog` | `Submission`, `Registry`, `Listing`, `Credentials`, `StepLogs` |
| webhooks for gates | `notify`, `engine/notify.go` | `Notifier` |

`PROJECT.json` maps each definition to its lines, and lists the components that are not
modelled.

## 2. How the modules are built

Each module keeps its component's state as variables and has one action per transaction,
handler, script or command. What holds a row lock from its first statement to its commit
is one step; what another process can come between is several. What an executor, a
provider, a judge or a webhook answers is a nondeterministic choice.

**`RunGraph`** is one run. Its variable `db` holds the rows: `run`, `step` (statuses),
`edge` (resolutions), `remaining` and `fired` (dependency counters), the aggregates,
`dispatch` (what is announced), approvals and dead letters. Each store transition
(`SucceedStep`, `RetryStep`, ...) is an operator from rows to rows, each engine
transaction one action. `FanOut` computes at once what the worklist of `complete.go:178`
computes in rounds; `PlanWriteOff` is the closure of `deadletter.go:53`. Queue and leases
are the set `dispatch`, from which a claim may or may not take.

**`Dispatch` implements `RunGraph`.** It opens that abstraction for the workers of a run:
outbox, stream entries with delivery counts, the group, the delayed set, the claim of
each step, the attempt of each claim and a program counter per worker. Its transactions
are `RunGraph`'s own (`P == INSTANCE RunGraph WITH db <- rows`), each with what happens to
claim, attempt and queue. Points where a process may die are separate actions. A lease may
lapse at any moment. `View` adds to `dispatch` whatever announces a step: an entry, a
delayed member, a worker's hand.

**`RunPage` implements `RunGraph`** from below. There a transaction is what the statements
of `store/transitions.go` do, with fan-out by its worklist, and it appends events; the
sweep's scan is apart from what acts on it; a page reads in several queries and then folds
the events, as the web reducer does.

**`ConsumerGroup`** is the consumer of `queue/consumer.go` with heartbeater, reclaimer,
trimmer and janitor, against one stream. Every command to Redis is a step of its own, so
that others act between XINFO and DELCONSUMER, between the two snapshots of a trim and
XTRIM, between XAUTOCLAIM and the lookup of delivery counts, between a handler's return
and its XACK. Time is counted in ticks: idle times rise to `LeaseTTL` and `JanitorIdle`
and stay there. A tick is a heartbeat interval: in each the heartbeater calls once, with
or without success. Crash, stall, shutdown, failed call (heartbeats included) and failed
callback draw from one budget, `MaxFaults`. `Dispatch` lets any lease lapse at any moment
and any reader take any entry, which allows what batches and timers produce here; that is
argued, not checked.

**`EventFeed` implements `OrderedFeed`.** Publisher, subscription, catch-up pages, live
splice, resynchronisation and the client's own rule are steps; the promise is a log that
grows and a client that shows a prefix of it that never shrinks.

**`Definition`** holds the algorithms of `dag` as operators, next to reference definitions
(a cycle, a dominator, an order by quantifiers), and `Expansion` the run that uses them.

The `MC` modules give constants. Where several parts share a run, `part` is chosen at the
start of a behaviour, the variables of the other parts stay put, and a property speaks of
its own part. `MCServices` (side effects, limits, the board and the HTTP API's own state)
and `MCRequests` (what an attempt sends and pays) are such groups; `MCSystem` joins them.

## 3. Runs

| run | what it asks |
|---|---|
| `graph` | a diamond with a gate that fails fast, and a fork with a branch and a map instance whose independent branches go on: counters (`CountersMatch`), resolutions, readiness and announcements (`FollowsTheGraph`), wake-ups and roll-ups (`NeverStuck`), verdicts, write-off and approvals (`OutcomesJustified`), finality (`DecisionsAreFinal`); `BranchesGoOn` is all of it for the second |
| `settles` | a run does not stay running and a cancel is finalized (`RunEnds`): over the rows of a join with a gate, and over one step with its queue, crashes anywhere and a loss of Redis |
| `lease` | two workers, crashes anywhere, duplicates, takeovers, poison, budget parks, a cancel and a loss of Redis: the attempt ledger is exact, each attempt is closed once; `Dispatch` implements `RunGraph` |
| `group` | two consumers and any two faults: no entry is forgotten; a handler loses its lease only after a lease of failed heartbeats |
| `group_settles` | a backlog larger than the batch, an undecodable entry and any one fault: every entry is acknowledged in the end |
| `feed` | lost publishes, outages, overflow, slow clients and reconnects: a client with `RunStream`'s resume rule misses nothing (`MissesNothing`, `NoHoleBehindTail`), clients become current (`BecomesCurrent`); `EventFeed` implements `OrderedFeed` |
| `rows` | statements and worklists against `RunGraph`'s transactions, the sweep, the page; loops, maps and planners grown inside a run; the graph algorithms against their definitions on every small graph |
| `approvals` | expiries that are lost, replayed or early, decisions, edits, parks, requeues and a deadline: one verdict, allowed, never early, in the end |
| `system` | sixteen parts one by one: limits, effects, the board, spend, outputs, client writes, pages, access, contexts and retries, each with what must be true of its history |
| `sweep_race`, `hidden_cycle`, `default_reject` | violations, section 6 |

A property is often a conjunction: its conjuncts are stated, with the code they are about,
in the module of the component, and gathered where the run is defined.

Deadlock is not checked: a settled run, an empty queue and a disconnected client stop.

Bounds. Attempts, semantic attempts and requeues of one or two reach both sides of every
budget test; `lease` has no requeue, which `graph` and the proofs cover. Graphs have at most
four steps, which gives a join whose parents settle in either order, a branch, a gate and
something to write off. Two workers and two entries give a zombie, a duplicate and a
takeover of either; claim and entry ids are reused once nothing refers to them, so that
behaviours are unbounded and only concurrency is bounded. Two claim ids give the holder and
the one it displaced. `PoisonThreshold = 2` lets one reclaim go to the handler and the next
to poison. Two consumers and two entries give a batch with an entry that waits, a reclaim
from one by the other and a janitor for each; `LeaseTTL = 3 < JanitorIdle = 4` in `group` is
the ratio of lease to heartbeat that `config/queue.go:65` derives: a lease survives one
failed heartbeat, and two in a row, which the fault budget allows, end it when the third is
late. The feed has three events, pages of two and a buffer of one, so that a page ends
within the log and a publish overflows; the firehose tracks fewer runs than there are. In
`system` each part has the two actors that can collide, one fault more than none, and a
clock that passes its one deadline. The limiter's clock runs for three ticks, in which a
bucket in debt is refilled and its key expires; workers, and clients, differ in nothing that
the parts look at, so they are symmetric. Step logs have one attempt with two goroutines and
one with one, the listing three rows and three instants. The page of `rows` is closed after
`MaxHeard` commits and may be opened again: what bounds it is what one visit hears, not what
the run does. `CancelDuringSweep = FALSE` (`rows`) and the atomic sweep of `RunGraph` assume
that no cancel commits between the sweep's scan and its takeover; `sweep_race` drops that.

Fairness. The loops of the fleet (drainer, promoter, readers, reclaimers, reconciler,
resync timers) keep firing, hence weak fairness, or strong where a step is disabled and
enabled again by crashes. A worker may crash anywhere and for ever, but not always at the
same point. Operators and humans are never assumed to act. That an executor in the end
reports rather than being throttled for ever is an assumption (`Reports`). In
`group_settles` a process finishes what its loop has begun; faults and restarts are never
forced, so `EntriesSettle` excepts behaviours in which every consumer is down.

## 4. Proofs

All proofs are for every value of the constants: any finite graph (loops were unrolled
before, so its edges are acyclic where that is needed), any policies and budgets, any
number of consumers, entries, callers and faults, any page, batch and buffer sizes.

**Counters (`RunGraphProofs`, from `GraphAssumption`).** `Good(d)` says that rows `d` are
well typed, that each aggregate is the number of steps of its status, and that `remaining`
and `fired` count in-edges. The two counter properties are not inductive alone: the next
value of a counter is known to be a natural number only through the types, and the
resolution of an edge to be its first only through the edges' column. One lemma per group
of store operators, one per group of transactions, and `InvInvariant` puts them together:
`TypeCorrect`, `AggregatesTheorem` and `DependencyCountersTheorem` (together
`CountersTheorem`). The roll-up guards of `transitions.go` read only the aggregates, so
this is what lets them judge the steps.

**Rows and graph (`RunGraphProofs`, `RunGraphSafety`).** On top of `Good`, `Sound(d)` is
the conjunction of

- `Core`: edges are resolved exactly as their sources settled; a step that started had its
  join satisfied; a pending step still waits; only what is announced was made ready; a
  skip has its cause;
- `Gated`: awaiting gates and pending approvals belong together;
- `Concluded`: what a run's status says of its steps, and that an open run has one left to
  settle;
- `Freed`: a written-off step is blocked by a dead letter that is left.

`SafetyInv == Good(db) /\ Sound(db)` is inductive. The order matters: counters determine
edges first, then edges determine steps. A settling transaction is described by what it
turns and what it keeps (`Turned`, `Kept`, `Settling`, `Fanned`), so that the argument for
an action mentions neither the rows' layout nor the other conjuncts. The skips of a
fan-out and the closure of a write-off are least fixed points; the proofs use two facts of
them, that they are closed and that every member has a cause outside or inside.
`NoLostWakeup` and `NeverStalled` need `Concluded` and `Core` together: a roll-up that did
not happen is excluded because some step is still to settle. From `SafetyInvariant` follow
`ResolutionsTheorem`, `ReadinessTheorem`, `WakeupTheorem`, `DispatchTheorem`,
`ApprovalTheorem`, `VerdictTheorem`, `StallTheorem`, `WriteOffTheorem`, the action
property `DecisionsTheorem`, their summaries as the run states them (`OrderTheorem`,
`ProgressTheorem`, `OutcomesTheorem`), and `LimboTheorem`, which has the hypothesis
`JoinAny = {}`: with a join any the property is false of the code (section 7), and the run
checks it on graphs where no join any survives a write-off.

**The queue (`ConsumerGroupProofs`, from `ConsumerAssumption`).** `NothingForgottenTheorem`,
under the further assumption `~LongSilence`: an entry that was not acknowledged is in the
stream, and undelivered or pending. Not inductive for two reasons. A trim acts on a
threshold computed two commands earlier: `TrimKnows` says that what lies below a computed
threshold is acknowledged and that the threshold is at most one past the last delivered
entry. A janitor acts on a list of idle consumers: `OrphansOwnNothing` says that a consumer
on such a list is down and owns nothing. Here the assumption is needed, since a live
consumer on the list could read just before it is deleted, and Redis would drop its new
lease without a trace.

`HandlerKeepsLeaseTheorem` needs no such assumption: an entry is never taken from a handler
that has beaten for it, was not stopped since and had fewer than `LeaseTTL - 1` heartbeats
fail in a row. (After as many the lease may lapse under a running handler, which `Dispatch`
allows and fencing answers.) Its invariant `LeaseInv` says of a held entry (`HeldOK`) that
its owner is the handler, or nobody once it was dropped, and that its idle time is at most
the ticks since the last successful heartbeat and so below the TTL, which closes the one way
an entry changes hands, a reclaim. That a drop is final needs `PendingDelivered`: what has
an owner was delivered, so that no read hands it out again.

**Leases (`RunGraphFrame`, `DispatchTurns`, `DispatchProofs`, from `GraphAssumption`,
`PolicyAssumption` and `QueueAssumption`).** `RefinementTheorem` is `Dispatch`'s own
property that it implements `RunGraph`, for any number of workers, entries, claims and
losses of Redis. The argument has three layers.

- `RunGraphFrame`: no transaction looks at announcements. On rows `d` with further
  announcements `X` a transaction does what it does on `d`, and `X` stays; each lemma also
  says which steps stop running. `MovesStep` sums up: if rows and announcements move in one
  of four ways, then the view takes a step of `RunGraph` (or none), `Sound` is kept, and
  the set of running steps changes as the way says.
- `DispatchTurns` knows nothing of the graph. `LedgerOK` (no two steps share a claim, the
  open attempts are the claims) and `QueueOK` (entries, delayed set, registers) are kept by
  each action, and each action is one of four turns (`StepTurns`): a step stops, an operator
  or a clock acts, a delivery claims, or only announcements and holders change.
- `Inv` of `DispatchProofs` joins them: `R!Held` (good rows, the running steps are those
  with a claim, none of them is due), `R!Sound(View)`, `LedgerOK`, `QueueOK`. `LedgerOK`
  alone is not inductive: a fresh claim would overwrite an open attempt if a ready step
  could still have one, and only `Held` excludes that. `Sound(View)` is needed where an
  acknowledgement drops the last announcement of a step, which `RunGraph` allows only for a
  step that is not pending. That a running step is not due is needed where a takeover and
  the claim after it are one step, which must then change nothing that `RunGraph` sees.

From `LeaseInvariant` follow `QueueTypesTheorem`, `AttemptsTheorem`, the action property
`ClosedOnceTheorem` and `RefinementTheorem`. With the refinement, what `RunGraphSafety`
proves of rows and announcements holds of the fleet. `Dispatch` has no steps for gates; these
are covered by `RunGraph`'s theorems only.

**The feed (`FeedProofs`, from `FeedConstants` and `ClientRule = "contiguous"`).**
`OrderedFeedTheorem` is `EventFeed`'s property that it implements `OrderedFeed`, and
`MissesNothingTheorem` that the client was given exactly the events up to its cursor. The
second is not inductive: what the client will be given is still in the send buffer, part of
it may have been lost to an enqueue timeout, and `caught_up` moves the cursor too. `Feeding`
says of an open connection that the queued events rise and lie above the client's cursor
(`Sent`, `Rising`), that a `caught_up` stands behind every event it covers, and that without
a timeout nothing up to the tailer's cursor is missing (`Covered`). After a timeout a frame
may be missing, but then the client meets a gap, which its rule answers by reconnecting.
That rule is the assumption: it is `RunStream`'s. A client that resumes from the highest
number it has seen, as `docs/api.md` defines `last_seq`, is not covered (section 7).

**Once only (`ServiceProofs`).** Three components that many callers share, for any number of
them.

- `EffectsTheorem` (`EffectJournal`): every attempt that gets a result gets the recorded one,
  the effect is applied at most once, an attempt that began after the result was recorded
  does not fire, `Begin` loses its insert race at most once. The invariant is what an attempt
  may rely on given the row (`Informed`); since a row only moves on, from none to intent to
  result, a step of one attempt leaves the others informed.
- `RegistryTheorem` (`Registry`): appends never collide, a guarded save supersedes exactly
  the version that was opened, versions have no gap and stay. `RegInv` says that a
  transaction that read the next version still has the next one (`Current`), which rests on
  the advisory lock; names may share a lock key.
- `SubmissionTheorem` (`Submission`, from `SubmissionConstants`: the runs from before
  fingerprints are numbered and have distinct tokens): a token names one run, an answer names
  the run asked for, nothing is announced as created twice. Single tokens are inductive only
  with `Reserved`: an uncommitted insert of a token is the only one and no run has the token.
  `FingerprintExact` is the lemma that fingerprints agree exactly where payloads differ in
  formatting only.

`EffectsOnce`, `WritesOnce` and `NothingTakenBack` of run `system` are these properties on
small instances, with those of further components.

**Only model-checked.** Liveness (`RunEnds`, `EntriesSettle`, `BecomesCurrent`,
`ClocksEnforced`): beyond this prover. The graph algorithms, JSON repair,
truncation and retry delays: what a recursive definition computes for every input needs
induction over data. `RunPage`'s refinement of `RunGraph`: it runs the worklist of a
fan-out, whose agreement with the closure that `FanOut` takes is such an induction. The type
of `ConsumerGroup` (its `hand` is filled by a sort, and that a sorting permutation exists is
one more). `BranchesGoOn` beyond `LimboTheorem`. Growth of a live run, approval timeouts, the
firehose, the page and the remaining parts of `system`.

## 5. What is not modelled

Parsing, schemas and the expression language; providers and tools behind their calls;
request decoding and error texts; metrics, traces and configuration; process wiring, load
generation and migrations; presentation. They have no shared state, or their outcome is a
nondeterministic choice here. In the parts that are modelled: who may decide an approval,
the queue's mode without a drain budget, encodings of envelopes and cache entries, the cost
report.

## 6. Findings

- **Sweep race** (`sweep_race`). The stale-running scan reads running runs; the takeover
  that acts on it does not look at the run. A cancel between the two leaves a ready step in
  a cancelling run that no claim accepts and no healer looks for. `NeverStuck` and `RunEnds`
  hold as long as no cancel falls between scan and takeover.
- **Hidden cycle** (`hidden_cycle`). An expansion's cycle is attributed to the plan only if
  the edge that the search reports is new. A plan that closes a cycle through an old edge is
  accepted, and its steps wait for each other.
- **Default reject** (`default_reject`). A gate that allows only approve and leaves
  `on_timeout` unset passes validation; its expiry defaults to reject, which is refused on
  every delivery.

## 7. Observations

Behaviour the models show that a comment, an ADR or a test describes otherwise, or that a
reader may not expect. They are not runs of their own.

- A join any that survived one parent's dead letter is not re-examined when its last live
  parent succeeds without firing (`engine/complete.go:205`, ADR-006's "permanent limbo").
  `LimboTheorem` shows that graphs without a join any are safe.
- Validation failures of a map instance do not go through the collect path
  (`engine/validate.go:400`, `dag/stepconfig.go:202`).
- Only a starting consumer creates the group, so a loss of Redis needs a restart
  (`queue/consumer.go:334`, ADR-005).
- A reclaimed duplicate may drop the entry that is the holder's lease
  (`engine/claim.go:749`); fencing keeps durable state right.
- Entries that wait behind the handled one of a batch are not heartbeaten; they may reach
  the poison threshold having met fewer handlers (`queue/consumer.go:420`,
  `queue/reclaim.go:13`).
- A budget whose read fails is not enforced for that claim (`engine/budget.go:153`), and
  concurrent claims see the same spend (`engine/budget.go:259`): the overshoot is bounded
  by what is in flight, which is what `SpendAccounted` states.
- Under fail_fast a step that expands the graph and completes after the run failed is
  refused by the run-status guard of `store/expand.go:126` and its delivery dropped, so its
  result is not recorded; ADR-006 says that such siblings "complete and record normally".
- `docs/api.md:759` and ADR-018:281 define a client's `last_seq` as the highest number seen
  and say that reconnecting with it misses nothing. A send that times out is skipped by the
  tailer (`event/pubsub/tail.go:66`, `api/ws.go:376`), and the next event may still be sent
  before the connection closes; such a client then resumes behind the hole. With
  `ClientRule = "highest"` TLC finds this in a dozen steps. `RunStream`, the repository's own
  client, ignores what does not follow its last event, and is safe (`MissesNothingTheorem`).
- A judge that errs aborts the chain with an empty verdict (`validate/chain.go:146`): what
  the judges before it cost is not ledgered. A stored output that its judges reject is not
  served, and they are paid without a ledger row (`engine/cache.go:168`). ADR-013:676 has all
  judge spend metered; `SpendAccounted` states that these are the only two gaps.
- The Redis client repeats a script whose reply was lost, and neither acquire nor adjust is
  idempotent: a debit or a refund may be applied twice. A doubled debit only delays callers;
  a doubled refund lets its amount through once more, the one exception to `LimitsHold`.
- Step-log lines get their number before the mutex of the queue
  (`exec/steplog/handler.go`), so that goroutines of one attempt overtake each other: late
  lines may stand outside the ring's window (`steplog.go:71`), and when the line queued last
  is lost to another attempt's flood, a failed flush or a crash, lines at the end are missing
  from the marker too, which `steplog.go:12` says reports all of them.
- A ticket is not checked against its key. It opens its stream for up to the TTL plus the
  duration of the request that minted it after the key's revocation, where ADR-018:270 names
  the TTL; a connection that is open is not closed by a revocation at all.
- An override file replaces the rows of a name as a whole; a file that restates only a
  later day leaves earlier days to the family (`cost/catalog.go:259`).
- A cached output is served without looking at the agent's present toolset
  (`exec/agentexec.go:59`).
- `ListOverdueApprovals` does not look at the run's status; expiries in parked and
  cancelling runs are scheduled and dropped.
- A submission may be answered with an error although it committed; the token makes the
  repetition safe. Runs created before fingerprints exist are reused unchecked.
