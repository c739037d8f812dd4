-------------------------- MODULE ApprovalTimeouts --------------------------
(***************************************************************************)
(* The clock of a human_approval gate: the expiry of its approval, a human *)
(* who decides at the same moment, and the wall-clock deadline of the run. *)
(* The worker that parks the gate schedules one member in the delayed set  *)
(* after the commit (it may crash before it); the member is the same for   *)
(* every approval of the step, so a later approval moves it and an earlier *)
(* decision may remove it.  The promoter and the dispatcher turn members   *)
(* and outbox rows into stream entries, which a worker handles and may     *)
(* handle again; the reconciler rewrites what was lost.                    *)
(***************************************************************************)
EXTENDS Integers, Sequences, FiniteSets

CONSTANTS
    Instances,     \* gates and runs: [cfg: the step's config, deadline: deadline_at]
    Never,         \* NULL
    RetryStale,    \* how long past due the reconciler distrusts the delayed set
    MaxDeliveries, \* deliveries of an entry before it is poison
    MaxTime,       \* bound: values of the clock
    MaxEntries,    \* bound: expiries announced at once
    MaxRequeues, MaxFaults   \* bounds: operator requeues; crashes and failed calls

VARIABLE gate

Decisions == {"approve", "reject"}

\* checkHumanApproval: an empty allowed_decisions stands for both.
DecisionAllowed(c, d) == c.allowed = {} \/ d \in c.allowed

Validated(c) ==
    /\ c.timeout = 0 => c.onTimeout = ""
    /\ c.onTimeout \in Decisions => DecisionAllowed(c, c.onTimeout)
    /\ c.onReject = "route" => DecisionAllowed(c, "reject")
    /\ c.allowEdit => DecisionAllowed(c, "approve")

\* approvalTimeoutPolicy.
Policy(c) == IF c.onTimeout = "" THEN "reject" ELSE c.onTimeout

NoHandler == [pc |-> "idle", row |-> 0, policy |-> "reject"]

Init ==
    \E n \in {m \in Instances : Validated(m.cfg)} :
        gate = [cfg |-> n.cfg, deadline |-> n.deadline, now |-> 0, run |-> "running",
                step |-> "ready", rows |-> <<>>, worker |-> "idle",
                delayed |-> Never, entries |-> 0, tries |-> 0, outbox |-> 0,
                handler |-> NoHandler, cancels |-> FALSE,
                requeues |-> 0, faults |-> 0]

Row(c, now) == [status |-> "pending", decision |-> "none", source |-> "none",
                edited |-> FALSE, expired |-> Never, parks |-> 0,
                timeout |-> IF c.timeout = 0 THEN Never ELSE now + c.timeout]

\* GetPendingByStep: at most one row is pending.
Pending == {i \in DOMAIN gate.rows : gate.rows[i].status = "pending"}

Live == gate.run \in {"running", "parked"}
Faulty == gate.faults < MaxFaults
Fault(g) == [g EXCEPT !.faults = @ + 1]

\* The clock, with room left under MaxTime for the timeout of a gate that runs.
Tick ==
    /\ gate.now < MaxTime
    /\ gate.worker = "executing" => gate.now + 1 + gate.cfg.timeout + RetryStale <= MaxTime
    /\ gate' = [gate EXCEPT !.now = @ + 1]

\* cancelRunTx: every step without a claim is written off, an approval that is
\* pending with it; a running step settles later.
CancelRunTx(g) ==
    IF g.step = "running" THEN [g EXCEPT !.run = "cancelling"]
    ELSE [g EXCEPT
        !.run = "cancelled",
        !.step = IF @ \in {"ready", "awaiting_human"} THEN "cancelled" ELSE @,
        !.rows = [i \in DOMAIN @ |-> IF @[i].status = "pending"
                                     THEN [@[i] EXCEPT !.status = "cancelled"] ELSE @[i]]]

\* A worker claims the gate.  guardDeadline: at or past the deadline the run is
\* cancelled and the step settles with it, and nothing executes.
Claim ==
    /\ gate.step = "ready" /\ gate.run = "running"
    /\ gate.now + gate.cfg.timeout + RetryStale <= MaxTime
    /\ gate' = IF gate.deadline # Never /\ gate.now >= gate.deadline
               THEN [gate EXCEPT !.run = "cancelled", !.step = "cancelled"]
               ELSE [gate EXCEPT !.step = "running", !.worker = "executing"]

\* completeAwaitHuman: the approval and awaiting_human in one transaction, or
\* the step settles cancelled when the run is cancelling.
AwaitHuman ==
    /\ gate.worker = "executing"
    /\ gate' = IF gate.run = "cancelling"
               THEN [gate EXCEPT !.run = "cancelled", !.step = "cancelled", !.worker = "idle"]
               ELSE [gate EXCEPT !.step = "awaiting_human",
                                 !.rows = Append(@, Row(gate.cfg, gate.now)),
                                 !.worker = IF gate.cfg.timeout = 0 THEN "idle" ELSE "parked"]

\* scheduleApprovalExpiry after the commit: ZADD adds the member or moves it.
Schedule ==
    /\ gate.worker = "parked"
    /\ gate' = [gate EXCEPT !.worker = "idle", !.delayed = gate.rows[Len(gate.rows)].timeout]

\* The worker dies between the commit and the ZADD, or the ZADD fails.
ScheduleLost ==
    /\ gate.worker = "parked" /\ Faulty
    /\ gate' = Fault([gate EXCEPT !.worker = "idle"])

\* Redis loses the delayed set.
LoseDelayed ==
    /\ gate.delayed # Never /\ Faulty
    /\ gate' = Fault([gate EXCEPT !.delayed = Never])

\* PromoteDue: a due member leaves the set for the stream, atomically.
PromoteDue ==
    /\ gate.delayed # Never
    /\ IF gate.delayed = Never THEN FALSE ELSE gate.delayed <= gate.now
    /\ gate.entries < MaxEntries
    /\ gate' = [gate EXCEPT !.delayed = Never, !.entries = @ + 1]

\* A delivery ahead of its score: a replayed stream entry.
Replay ==
    /\ Len(gate.rows) > 0 /\ gate.entries < MaxEntries /\ Faulty
    /\ gate' = Fault([gate EXCEPT !.entries = @ + 1])

\* The dispatcher drains an approval_timeout outbox row.
Drain ==
    /\ gate.outbox > 0 /\ gate.entries < MaxEntries
    /\ gate' = [gate EXCEPT !.outbox = @ - 1, !.entries = @ + 1]

Ack(g) == [g EXCEPT !.entries = @ - 1, !.tries = 0, !.handler = NoHandler]

\* The handler answers with an error: the entry stays pending.
Redeliver(g) == [g EXCEPT !.tries = @ + 1, !.handler = NoHandler]

\* HandlePoison, once the entry was delivered too often.  A gate that waits is
\* in no status a poison entry may dead-letter, so the entry is consumed; a gate
\* that was requeued meanwhile is dead-lettered under it.
HandlePoison ==
    /\ gate.entries > 0 /\ gate.tries = MaxDeliveries /\ gate.handler.pc = "idle"
    /\ gate' = IF gate.step \in {"ready", "running"}
               THEN [Ack(gate) EXCEPT !.step = "dead_lettered", !.worker = "idle",
                                      !.run = IF Live THEN "failed"
                                              ELSE IF @ = "cancelling" THEN "cancelled" ELSE @]
               ELSE Ack(gate)

\* handleApprovalTimeout: the entry names the step, so the approval is the one
\* now pending.  Nothing pending, or park applied already: dropped.  Not due: a
\* new member at the real deadline, and dropped.  Else the policy is read; a
\* failed read counts as reject.
HandleApprovalTimeout ==
    /\ gate.entries > 0 /\ gate.tries < MaxDeliveries /\ gate.handler.pc = "idle"
    /\ IF Pending = {} THEN gate' = Ack(gate)
       ELSE \E i \in Pending :
            LET a    == gate.rows[i]
                read == [gate EXCEPT !.handler = [pc |-> "apply", row |-> i, policy |-> Policy(gate.cfg)]]
            IN  IF a.timeout = Never THEN gate' = Ack(gate)
                ELSE IF a.expired # Never THEN gate' = Ack(gate)
                ELSE IF gate.now < a.timeout
                THEN \/ gate' = [Ack(gate) EXCEPT !.delayed = a.timeout]
                     \/ Faulty /\ gate' = Fault(Ack(gate))
                ELSE \/ gate' = read
                     \/ Faulty /\ gate' = Fault([read EXCEPT !.handler.policy = "reject"])

\* validateDecision.
DecisionInvalid(c, req) ==
    \/ ~DecisionAllowed(c, req.decision)
    \/ req.edit /\ (req.decision # "approve" \/ ~c.allowEdit)

\* The row after a decision.  A human's writes expired_at back to NULL.
Decided(g, i, req, source) ==
    [g EXCEPT !.rows[i].status = IF source = "timeout" THEN "expired"
                                 ELSE IF req.decision = "approve" THEN "approved" ELSE "rejected",
              !.rows[i].decision = req.decision, !.rows[i].source = source,
              !.rows[i].edited = req.edit,
              !.rows[i].expired = IF source = "timeout" THEN g.now ELSE Never]

\* Fault: the CAS on the approvals row does not ask for pending.
DecideUnguarded(g, i, req, source) == {Decided(g, i, req, source)}

\* The arbiter: DecideApproval's compare-and-swap on the pending row; {} is the
\* loser's ApprovalNotPendingError.
DecideApproval(g, i, req, source) ==
    {x \in {Decided(g, i, req, source)} : g.rows[i].status = "pending"}

\* decideSucceed and decideDeadLetter, in the same transaction: a rejection
\* dead-letters the gate unless it routes.
Settled(g, req) ==
    IF req.decision = "reject" /\ g.cfg.onReject = "fail"
    THEN [g EXCEPT !.step = "dead_lettered", !.run = "failed"]
    ELSE [g EXCEPT !.step = "succeeded", !.run = "succeeded"]

\* Control.Decide by a human.  The member is removed after the commit, by a
\* later call of its own.
Decide(decision, edit) ==
    \E i \in Pending :
        LET req == [decision |-> decision, edit |-> edit]
        IN  /\ ~DecisionInvalid(gate.cfg, req)
            /\ Live /\ ~gate.cancels
            /\ \E d \in DecideApproval(gate, i, req, "human") :
                   gate' = [Settled(d, req) EXCEPT !.cancels = gate.rows[i].timeout # Never]

\* Delayed.Cancel: ZREM of the step's member, whichever approval it is for.
CancelExpiry ==
    /\ gate.cancels
    /\ gate' = [gate EXCEPT !.cancels = FALSE, !.delayed = Never]

\* applyTimeoutDecision calls the same Decide, which reads the row and checks
\* the decision before its transaction: a row that is decided is dropped, a
\* decision the gate does not allow is an error like any other.
ApplyTimeoutDecision ==
    LET h == gate.handler
    IN  /\ h.pc = "apply" /\ h.policy \in Decisions
        /\ gate' = IF gate.rows[h.row].status # "pending" THEN Ack(gate)
                   ELSE IF DecisionInvalid(gate.cfg, [decision |-> h.policy, edit |-> FALSE])
                   THEN Redeliver(gate)
                   ELSE [gate EXCEPT !.handler.pc = "commit"]

\* Its transaction: a run that is over and a lost race are dropped.
CommitTimeoutDecision ==
    LET h   == gate.handler
        req == [decision |-> h.policy, edit |-> FALSE]
        won == DecideApproval(gate, h.row, req, "timeout")
    IN  /\ h.pc = "commit"
        /\ IF ~Live \/ won = {} THEN gate' = Ack(gate)
           ELSE \E d \in won : gate' = Ack(Settled(d, req))

\* Fault: park forgets the marker.
ParkWithoutMarker(g, i) ==
    [g EXCEPT !.rows[i].parks = @ + 1, !.run = "parked"]

\* ExpireApprovalPark where the run is running or parked.
ExpireApprovalPark(g, i) ==
    [g EXCEPT !.rows[i].expired = g.now, !.rows[i].parks = @ + 1, !.run = "parked"]

\* applyTimeoutPark: on a run that neither runs nor is parked, ParkRun conflicts
\* and the entry is redelivered.
ApplyTimeoutPark ==
    LET h == gate.handler
        a == gate.rows[h.row]
    IN  /\ h.pc = "apply" /\ h.policy = "park"
        /\ gate' = IF a.status # "pending" \/ a.expired # Never THEN Ack(gate)
                   ELSE IF ~Live THEN Redeliver(gate)
                   ELSE Ack(ExpireApprovalPark(gate, h.row))

\* The worker dies, or the database does not answer.
HandlerFails ==
    /\ gate.handler.pc # "idle" /\ Faulty
    /\ gate' = Fault(Redeliver(gate))

\* Fault: an approval is overdue only while a member for it is left.
OverdueScheduled == {i \in Pending : gate.delayed # Never}

\* ListOverdueApprovals.
Overdue == {i \in Pending : LET a == gate.rows[i]
                            IN  /\ a.timeout # Never /\ a.expired = Never
                                /\ IF a.timeout = Never THEN FALSE
                                   ELSE a.timeout + RetryStale <= gate.now}

\* ListDeadlineExceededRuns.
PastDeadline ==
    /\ Live /\ gate.deadline # Never
    /\ IF gate.deadline = Never THEN FALSE ELSE gate.now > gate.deadline

\* One sweep of ReconcileOnce, a single transaction: an outbox row for every
\* overdue approval, whatever the run's status; then the deadline.
Sweep ==
    LET healed == [gate EXCEPT !.outbox = @ + Cardinality(Overdue)]
    IN  /\ Overdue # {} \/ PastDeadline
        /\ Overdue # {} => gate.outbox + gate.entries < MaxEntries
        /\ gate' = IF PastDeadline THEN CancelRunTx(healed) ELSE healed

\* The operator: park, unpark, cancel, and the requeue of the gate or of a
\* sibling whose dead letter had failed the run.
Park == gate.run = "running" /\ gate' = [gate EXCEPT !.run = "parked"]
Unpark == gate.run = "parked" /\ gate' = [gate EXCEPT !.run = "running"]
Cancel == Live /\ gate' = CancelRunTx(gate)

SiblingFails ==
    /\ Live /\ gate.step \in {"running", "awaiting_human"}
    /\ gate' = [gate EXCEPT !.run = "failed"]

Requeue ==
    /\ gate.run = "failed" /\ gate.requeues < MaxRequeues
    /\ gate' = [gate EXCEPT !.run = "running", !.requeues = @ + 1,
                            !.step = IF @ = "dead_lettered" THEN "ready" ELSE @]

Handler == HandleApprovalTimeout \/ ApplyTimeoutDecision \/ CommitTimeoutDecision
           \/ ApplyTimeoutPark \/ HandlePoison
Worker == Claim \/ AwaitHuman \/ Schedule
Faults == ScheduleLost \/ LoseDelayed \/ Replay \/ HandlerFails
Operator == Park \/ Unpark \/ Cancel \/ SiblingFails \/ Requeue

Next ==
    \/ Tick \/ Worker \/ PromoteDue \/ Drain \/ Handler \/ CancelExpiry \/ Sweep
    \/ \E d \in Decisions, e \in BOOLEAN : Decide(d, e)
    \/ Faults \/ Operator

Spec == Init /\ [][Next]_gate

-----------------------------------------------------------------------------
(* Properties.                                                             *)

\* The policy of a timeout is never applied before the deadline of the approval
\* it is applied to, though the entry that carries it names the step alone and
\* may be left over from an earlier approval, replayed or healed
\* (handleApprovalTimeout's check against timeout_at).
NeverEarly ==
    \A i \in DOMAIN gate.rows :
        LET a == gate.rows[i]
        IN  IF a.expired = Never THEN TRUE
            ELSE IF a.timeout = Never THEN FALSE ELSE a.expired >= a.timeout

\* What is recorded on an approval is a decision its gate allows: an edit only
\* with an approval where edits are allowed, and a verdict of the clock only the
\* configured policy, or reject when the policy could not be read.
VerdictAllowed ==
    \A i \in DOMAIN gate.rows :
        LET a == gate.rows[i]
        IN  a.status \in {"approved", "rejected", "expired"} =>
                /\ DecisionAllowed(gate.cfg, a.decision)
                /\ a.edited => a.decision = "approve" /\ gate.cfg.allowEdit
                /\ a.source = "timeout" => a.decision \in {Policy(gate.cfg), "reject"}

\* The gate waits exactly while one approval of it is pending, whoever settles
\* it: a human, the clock, the cancel sweep or the deadline.
WaitsForItsApproval ==
    Cardinality(Pending) = IF gate.step = "awaiting_human" THEN 1 ELSE 0

\* Once decided, expired or cancelled an approval never changes again: of a
\* human and an expiry that race, exactly one wins (DecideApproval).
OneVerdict ==
    \A i \in DOMAIN gate.rows :
        gate.rows[i].status # "pending" => gate'.rows[i] = gate.rows[i]

\* The park policy parks the run once for an approval: an unpark is not undone
\* by a redelivered or healed expiry (the approvals.expired_at marker).
ParksOnce == \A i \in DOMAIN gate.rows : gate.rows[i].parks <= 1

\* Every approval with a timeout is decided, or its run parked, in a run that
\* goes on: whatever is lost of the schedule, the reconciler's scan fires it.
TimeoutFires ==
    \A n \in 1..(MaxRequeues + 1) :
        (n \in Pending /\ gate.cfg.timeout > 0)
            ~> (n \notin Pending \/ ~Live \/ gate.rows[n].expired # Never)

\* A run past its deadline does not go on: the next claim or the next sweep
\* cancels it, a parked run too.
DeadlineEnforced ==
    (IF gate.deadline = Never THEN FALSE ELSE gate.now > gate.deadline)
        ~> gate.run \notin {"running", "parked", "cancelling"}

\* Every process keeps running: the clock, the promoter, the dispatcher, the
\* reconciler's sweeps, and the workers, which take what there is to take.
Fairness ==
    /\ WF_gate(Tick) /\ WF_gate(PromoteDue) /\ WF_gate(Drain) /\ WF_gate(Sweep)
    /\ WF_gate(Handler) /\ WF_gate(Worker)

FairSpec == Spec /\ Fairness
=============================================================================
