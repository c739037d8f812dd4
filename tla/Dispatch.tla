------------------------------ MODULE Dispatch ------------------------------
(***************************************************************************)
(* The lease protocol between Postgres and Redis.  internal/engine drains  *)
(* task_outbox into a Redis stream; the consumers of internal/queue read   *)
(* it as a group, keep their leases alive, reclaim the leases of silent    *)
(* consumers and divert entries delivered too often; a worker claims the   *)
(* step under a fresh claim_id, executes, commits under that fence and     *)
(* acknowledges.  Retries wait in a delayed set, and the reconciler heals  *)
(* what the queue lost.                                                    *)
(*                                                                         *)
(* The run itself is module RunGraph: every transaction here is one of its *)
(* transactions plus what happens to the claim, the attempt and the queue. *)
(* View maps a state back to RunGraph's single dispatch set.               *)
(***************************************************************************)
EXTENDS GraphConstants

CONSTANTS
    Workers,          \* consumer names
    Entries,          \* stream entry ids; one is reused once nothing refers to it
    Claims,           \* claim ids, likewise
    PoisonThreshold,  \* deliveries after which an entry is poison
    MaxLosses,        \* bound: how often Redis loses its data
    RunOps,           \* bound: the run operations in use, of "cancel", "park", "unpark"
    None

ASSUME QueueAssumption ==
    /\ Entries \subseteq Nat /\ Claims \subseteq Nat
    /\ PoisonThreshold \in Nat \ {0} /\ MaxLosses \in Nat
    /\ None \notin Steps \cup Workers \cup Entries \cup Claims

VARIABLES
    rows,     \* RunGraph's rows, rows.dispatch being the steps with a task_outbox row
    claim,    \* run_steps.claim_id
    attempt,  \* step_attempts by claim id
    stream,   \* steps:ready and the group's pending-entries list
    group,    \* whether the consumer group exists
    delayed,  \* the steps with a member in the delayed set
    worker,   \* what each consumer has in hand
    losses

queue == <<stream, group, delayed, losses>>
vars == <<rows, claim, attempt, stream, group, delayed, worker, losses>>

P == INSTANCE RunGraph WITH db <- rows

\* "judged": closed by the completion of its own holder; "lost": closed by a
\* takeover or a poison letter.
Attempt == {"none", "open", "judged", "lost"}

\* queued: added and not yet delivered; pending: delivered count times, leased to
\* some consumer.  Any lease may lapse: its owner died, stalled, or holds the
\* entry in a batch behind another one.
Entry == [at : {"none", "queued", "pending"}, step : Steps \cup {None}, count : Nat]

NoEntry == [at |-> "none", step |-> None, count |-> 0]

\* claim is the worker's own once executing, the holder's it observed before a
\* takeover; again says that the delivery is a reclaim.
Worker == [pc : {"idle", "handle", "takeover", "execute", "schedule", "ack", "poison"},
           step : Steps \cup {None}, entry : Entries \cup {None},
           claim : Claims \cup {None}, again : BOOLEAN]

Idle == [pc |-> "idle", step |-> None, entry |-> None,
         claim |-> None, again |-> FALSE]

Init ==
    /\ P!Init
    /\ claim = [s \in Steps |-> None]
    /\ attempt = [c \in Claims |-> "none"]
    /\ stream = [e \in Entries |-> NoEntry]
    /\ group = TRUE
    /\ delayed = {}
    /\ worker = [w \in Workers |-> Idle]
    /\ losses = 0

Least(S) == CHOOSE n \in S : \A m \in S : n <= m

-----------------------------------------------------------------------------
(* The producers: outbox drainer and delayed-set promoter.                 *)

FreeEntries == {e \in Entries : stream[e].at = "none" /\ \A w \in Workers : worker[w].entry # e}

\* XADD of an envelope for s.
Enqueue(s) ==
    /\ FreeEntries # {}
    /\ stream' = [stream EXCEPT ![Least(FreeEntries)] =
                    [NoEntry EXCEPT !.at = "queued", !.step = s]]

\* The row is deleted in the transaction that enqueued it; a crash or a failed
\* commit after the XADD keeps it.
DrainOnce(s, committed) ==
    /\ s \in rows.dispatch /\ Enqueue(s)
    /\ rows' = IF committed THEN [rows EXCEPT !.dispatch = @ \ {s}] ELSE rows
    /\ UNCHANGED <<claim, attempt, group, delayed, worker, losses>>

\* The script moves a due member atomically.  Its score is a scheduler's clock
\* and is compared with a promoter's, so it may fire before or after next_attempt_at.
PromoteDue(s) ==
    /\ s \in delayed /\ Enqueue(s)
    /\ delayed' = delayed \ {s}
    /\ UNCHANGED <<rows, claim, attempt, group, worker, losses>>

-----------------------------------------------------------------------------
(* The consumer loop: reads, leases, reclaims.                             *)

Deliver(w, e, again) ==
    worker' = [worker EXCEPT ![w] =
        [Idle EXCEPT !.pc = "handle", !.step = stream[e].step, !.entry = e, !.again = again]]

\* XREADGROUP: first delivery.  Without the group it fails and backs off.
Read(w, e) ==
    /\ group /\ worker[w].pc = "idle" /\ stream[e].at = "queued"
    /\ stream' = [stream EXCEPT ![e].at = "pending", ![e].count = 1]
    /\ Deliver(w, e, FALSE)
    /\ UNCHANGED <<rows, claim, attempt, group, delayed, losses>>

\* Bound: the delivery count stops at the first value that is poison.
Redelivered(e) == IF stream[e].count > PoisonThreshold THEN stream[e].count ELSE stream[e].count + 1

\* reclaimTick: XAUTOCLAIM of a lease that lapsed counts as a delivery, and one too
\* many goes to divertPoison instead of the handler.
Reclaim(w, e) ==
    /\ group /\ worker[w].pc = "idle" /\ stream[e].at = "pending"
    /\ stream' = [stream EXCEPT ![e].count = Redelivered(e)]
    /\ IF Redelivered(e) > PoisonThreshold
       THEN worker' = [worker EXCEPT ![w] =
                [Idle EXCEPT !.pc = "poison", !.step = stream[e].step, !.entry = e]]
       ELSE Deliver(w, e, TRUE)
    /\ UNCHANGED <<rows, claim, attempt, group, delayed, losses>>

\* XACK removes the entry whoever owns it; on an entry that is gone it does nothing.
Ack(w) ==
    /\ worker[w].pc = "ack"
    /\ stream' = [stream EXCEPT ![worker[w].entry] = IF @.at = "pending" THEN NoEntry ELSE @]
    /\ worker' = [worker EXCEPT ![w] = Idle]
    /\ UNCHANGED <<rows, claim, attempt, group, delayed, losses>>

\* The process dies, or the handler, its transaction or the XACK fails: the
\* entry stays as it is and nothing else is undone.
Abort(w) ==
    /\ worker[w].pc # "idle"
    /\ worker' = [worker EXCEPT ![w] = Idle]
    /\ UNCHANGED <<rows, claim, attempt, queue>>

-----------------------------------------------------------------------------
(* Handle: claim, takeover, execution.                                     *)

\* classify...Failure answered ackDrop, or the handler returned nil.
GoAck(w) == worker' = [worker EXCEPT ![w] = [Idle EXCEPT !.pc = "ack", !.entry = worker[w].entry,
                                                         !.step = worker[w].step]]

FreeClaims == {c \in Claims : (\A s \in Steps : claim[s] # c) /\ \A w \in Workers : worker[w].claim # c}

\* ClaimStep stamps a fresh claim_id and opens its attempt; lost is the claim a
\* takeover in the same transaction cleared, or None.
TakeClaim(w, lost) ==
    /\ FreeClaims # {}
    /\ LET c == Least(FreeClaims)
           s == worker[w].step
       IN  /\ claim' = [claim EXCEPT ![s] = c]
           /\ attempt' = [x \in Claims |-> IF x = c THEN "open"
                                           ELSE IF x = lost THEN "lost"
                                           ELSE IF x \in FreeClaims THEN "none" ELSE attempt[x]]
           /\ worker' = [worker EXCEPT ![w] = [Idle EXCEPT !.pc = "execute", !.step = s,
                                                           !.entry = worker[w].entry, !.claim = c]]

\* Handle won the claim.
HandleClaim(w) ==
    /\ worker[w].pc = "handle" /\ P!Claimable(worker[w].step)
    /\ rows' = P!ClaimStep(rows, worker[w].step)
    /\ TakeClaim(w, None)
    /\ UNCHANGED queue

\* The claim failed on a running step of a running run, and this is a reclaim.
Displaces(w) == rows.run = "running" /\ rows.step[worker[w].step] = "running" /\ worker[w].again

\* Every other failed claim is dropped: the run is not running, or the step is
\* settled, backing off, awaiting a human, or running on a first delivery.
HandleDrop(w) ==
    /\ worker[w].pc = "handle" /\ ~P!Claimable(worker[w].step) /\ ~Displaces(w)
    /\ rows.step[worker[w].step] # "pending"
    /\ GoAck(w)
    /\ UNCHANGED <<rows, claim, attempt, queue>>

\* Fault: the takeover path is taken without the observed claim.
TakeoverWithoutClaim(w) ==
    /\ worker[w].pc = "handle" /\ Displaces(w)
    /\ worker' = [worker EXCEPT ![w].pc = "takeover", ![w].again = FALSE]
    /\ UNCHANGED <<rows, claim, attempt, queue>>

\* claimTakeover, with the claim the failed transaction observed.
HandleTakeover(w) ==
    /\ worker[w].pc = "handle" /\ Displaces(w)
    /\ worker' = [worker EXCEPT ![w].pc = "takeover", ![w].claim = claim[worker[w].step], ![w].again = FALSE]
    /\ UNCHANGED <<rows, claim, attempt, queue>>

\* TakeoverStep's fence: the observed holder still holds the step.
HolderStillThere(w) ==
    rows.step[worker[w].step] = "running" /\ claim[worker[w].step] = worker[w].claim

\* Fault: the claim behind the takeover does not look at the run.
TakeoverOfAnyRun(w) ==
    /\ worker[w].pc = "takeover"
    /\ \/ HolderStillThere(w) /\ TakeClaim(w, claim[worker[w].step])
       \/ rows.step[worker[w].step] = "ready" /\ TakeClaim(w, None)
    /\ rows' = P!ClaimStep(P!TakeoverStep(rows, worker[w].step), worker[w].step)
    /\ UNCHANGED queue

\* Takeover and claim in one transaction; if the reconciler took over first, the
\* ready step is claimed directly.
TakeoverAndClaim(w) ==
    /\ worker[w].pc = "takeover" /\ rows.run = "running"
    /\ \/ HolderStillThere(w) /\ TakeClaim(w, claim[worker[w].step])
       \/ rows.step[worker[w].step] = "ready" /\ TakeClaim(w, None)
    /\ rows' = P!ClaimStep(P!TakeoverStep(rows, worker[w].step), worker[w].step)
    /\ UNCHANGED queue

\* The holder was replaced or completed, or the run is not running any more,
\* which rolls the takeover back: the delivery is dropped.
TakeoverDrop(w) ==
    /\ worker[w].pc = "takeover"
    /\ \/ rows.run # "running"
       \/ ~HolderStillThere(w) /\ rows.step[worker[w].step] \notin {"ready", "pending"}
    /\ GoAck(w)
    /\ UNCHANGED <<rows, claim, attempt, queue>>

-----------------------------------------------------------------------------
(* Completions, fenced on the worker's own claim.                          *)

Fence(w) == rows.step[worker[w].step] = "running" /\ claim[worker[w].step] = worker[w].claim

\* finishAttempt under the worker's claim, which the step gives up.
Close(w) ==
    /\ claim' = [claim EXCEPT ![worker[w].step] = None]
    /\ attempt' = [attempt EXCEPT ![worker[w].claim] = "judged"]

\* The transaction that settles, parks or re-dispatches the step.
CompleteAndAck(w) ==
    LET s == worker[w].step
    IN  /\ worker[w].pc = "execute" /\ Fence(w)
        /\ \/ P!CompleteSuccess(s)
           \/ \E retryable \in BOOLEAN : P!FailStep(s, retryable)
           \/ P!CompleteValidationFailure(s)
           \/ P!CompleteBudgetPark(s)
        /\ Close(w) /\ GoAck(w)
        /\ UNCHANGED queue

\* completeFailure with a retry, and completeThrottle: the delayed entry is
\* scheduled after the commit.
CompleteAndSchedule(w) ==
    LET s == worker[w].step
    IN  /\ worker[w].pc = "execute" /\ Fence(w) /\ rows.run # "cancelling"
        /\ \/ P!Retries(s, TRUE) /\ rows' = P!RetryStep(rows, s)
           \/ rows' = P!ThrottleStep(rows, s)
        /\ Close(w)
        /\ worker' = [worker EXCEPT ![w].pc = "schedule", ![w].claim = None]
        /\ UNCHANGED queue

\* scheduleRetry and scheduleThrottle: ZADD, whose failure is logged and left to
\* the reconciler.
Schedule(w, added) ==
    /\ worker[w].pc = "schedule"
    /\ delayed' = IF added THEN delayed \cup {worker[w].step} ELSE delayed
    /\ GoAck(w)
    /\ UNCHANGED <<rows, claim, attempt, stream, group, losses>>

\* Fault: the outcome of a fenced worker still goes to its attempt row.
AbandonRecords(w) ==
    /\ worker[w].pc = "execute" /\ ~Fence(w)
    /\ attempt' = [attempt EXCEPT ![worker[w].claim] = "judged"]
    /\ worker' = [worker EXCEPT ![w] = Idle]
    /\ UNCHANGED <<rows, claim, queue>>

\* errFencedCompletion: the step was taken over; nothing is written or acknowledged.
AbandonFenced(w) ==
    /\ worker[w].pc = "execute" /\ ~Fence(w)
    /\ worker' = [worker EXCEPT ![w] = Idle]
    /\ UNCHANGED <<rows, claim, attempt, queue>>

\* The attempt left open on s, if any, is closed as lost and its claim cleared.
LoseClaim(s) ==
    /\ claim' = [claim EXCEPT ![s] = None]
    /\ attempt' = [c \in Claims |-> IF c = claim[s] THEN "lost" ELSE attempt[c]]

\* Fault: the poison letter leaves the holder's attempt open.
PoisonKeepsAttempt(s) == claim' = [claim EXCEPT ![s] = None] /\ UNCHANGED attempt

\* PoisonDeadLetterStep closes the attempt a running step still has.
PoisonLoses(s) == LoseClaim(s)

\* HandlePoison, unfenced; a settled or parked step only consumes the entry.
Poison(w) ==
    LET s == worker[w].step
    IN  /\ worker[w].pc = "poison"
        /\ \/ P!PoisonStep(s) /\ PoisonLoses(s)
           \/ rows.step[s] \in P!Settled \cup {"awaiting_human"} /\ UNCHANGED <<rows, claim, attempt>>
        /\ GoAck(w)
        /\ UNCHANGED queue

-----------------------------------------------------------------------------
(* The reconciler, operators, and Redis losing its data.                   *)

ReconcileDispatch(s) == P!ReconcileDispatch(s) /\ UNCHANGED <<claim, attempt, queue, worker>>

\* The takeover of a step that has been running for too long, alive or not.
ReconcileRunning(s) == P!ReconcileRunning(s) /\ LoseClaim(s) /\ UNCHANGED <<queue, worker>>

HealCancellingStep(s) == P!HealCancellingStep(s) /\ LoseClaim(s) /\ UNCHANGED <<queue, worker>>

Operate ==
    /\ \/ "cancel" \in RunOps /\ P!Cancel
       \/ "park" \in RunOps /\ P!Park
       \/ "unpark" \in RunOps /\ P!Unpark
       \/ \E s \in Steps : P!Requeue(s)
    /\ UNCHANGED <<claim, attempt, queue, worker>>

BackoffElapses(s) == P!BackoffElapses(s) /\ UNCHANGED <<claim, attempt, queue, worker>>

\* Redis comes back empty: stream, pending list, group and delayed set are gone.
LoseRedis ==
    /\ losses < MaxLosses /\ losses' = losses + 1
    /\ stream' = [e \in Entries |-> NoEntry]
    /\ group' = FALSE
    /\ delayed' = {}
    /\ UNCHANGED <<rows, claim, attempt, worker>>

\* A consumer starts: Run calls EnsureGroup once, before its loop.
Restart(w) ==
    /\ ~group /\ worker[w].pc = "idle"
    /\ group' = TRUE
    /\ UNCHANGED <<rows, claim, attempt, stream, delayed, worker, losses>>

Next ==
    \/ \E s \in Steps :
         \/ \E committed \in BOOLEAN : DrainOnce(s, committed)
         \/ PromoteDue(s) \/ BackoffElapses(s)
         \/ ReconcileDispatch(s) \/ ReconcileRunning(s) \/ HealCancellingStep(s)
    \/ \E w \in Workers :
         \/ \E e \in Entries : Read(w, e) \/ Reclaim(w, e)
         \/ Ack(w) \/ Abort(w)
         \/ HandleClaim(w) \/ HandleDrop(w) \/ HandleTakeover(w)
         \/ TakeoverAndClaim(w) \/ TakeoverDrop(w)
         \/ CompleteAndAck(w)
         \/ CompleteAndSchedule(w)
         \/ \E added \in BOOLEAN : Schedule(w, added)
         \/ AbandonFenced(w) \/ Poison(w) \/ Restart(w)
    \/ Operate \/ LoseRedis

Spec == Init /\ [][Next]_vars

\* A holder of a live run reports a result, rather than being throttled or parked.
Reports(w) == rows.run # "cancelling" /\ CompleteAndAck(w) /\ rows'.run # "parked"

\* Every loop of the fleet keeps turning: drainer, promoter, readers, reclaimers,
\* reconciler and clocks.  A worker may crash anywhere and any number of times,
\* but not at the same point for ever, hence strong fairness for its steps.
\* Nothing is assumed of operators, nor that a consumer is ever restarted.
Fairness ==
    /\ \A s \in Steps :
         /\ SF_vars(DrainOnce(s, TRUE)) /\ WF_vars(PromoteDue(s)) /\ WF_vars(BackoffElapses(s))
         /\ WF_vars(ReconcileDispatch(s)) /\ WF_vars(ReconcileRunning(s))
         /\ WF_vars(HealCancellingStep(s))
    /\ \A e \in Entries : SF_vars(\E w \in Workers : Read(w, e) \/ Reclaim(w, e))
    /\ \A w \in Workers :
         /\ SF_vars(HandleClaim(w) \/ HandleDrop(w) \/ HandleTakeover(w))
         /\ SF_vars(TakeoverAndClaim(w) \/ TakeoverDrop(w))
         /\ SF_vars(Reports(w)) /\ WF_vars(AbandonFenced(w))
         /\ SF_vars(Poison(w)) /\ SF_vars(Ack(w)) /\ WF_vars(Schedule(w, TRUE))

FairSpec == Spec /\ Fairness

-----------------------------------------------------------------------------
(* Correctness.                                                            *)

\* Postgres rows, stream entries, delayed members and workers keep their types;
\* a worker carries a claim exactly when it executes or is about to take over.
TypeOK ==
    /\ P!TypeOK
    /\ claim \in [Steps -> Claims \cup {None}]
    /\ attempt \in [Claims -> Attempt]
    /\ stream \in [Entries -> Entry] /\ group \in BOOLEAN
    /\ delayed \subseteq Steps
    /\ worker \in [Workers -> Worker] /\ losses \in 0..MaxLosses
    /\ \A w \in Workers : worker[w].pc \in {"takeover", "execute"} <=> worker[w].claim # None

\* An attempt is open exactly while its step runs under its claim: every
\* takeover, poison letter, heal and completion closes the attempt it displaces,
\* so no attempt is left open and no two are open for one step.
AttemptsMatchClaims ==
    /\ \A s \in Steps : rows.step[s] = "running" <=> claim[s] # None
    /\ \A c \in Claims : attempt[c] = "open" <=> \E s \in Steps : claim[s] = c

\* A closed attempt is never closed again, and it is judged only by the worker
\* it was issued to: a zombie that wakes after a takeover writes nothing.
ClosedOnce ==
    [][\A c \in Claims : attempt[c] \in {"judged", "lost"} =>
          attempt'[c] = attempt[c] \/ c \in FreeClaims]_vars

\* The state as RunGraph sees it: a step is dispatched while an outbox row, a
\* stream entry, a delayed member or a worker announces it.
View ==
    [rows EXCEPT !.dispatch = @ \cup ({stream[e].step : e \in Entries} \ {None})
                                \cup delayed \cup ({worker[w].step : w \in Workers} \ {None})]

RG == INSTANCE RunGraph WITH db <- View

\* At-least-once delivery with fencing behaves as RunGraph assumes: each step is
\* executed to one outcome by the claim's holder, whatever is redelivered.
ImplementsRunGraph == RG!Spec

=============================================================================
