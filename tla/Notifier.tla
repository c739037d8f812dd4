------------------------------ MODULE Notifier -------------------------------
(***************************************************************************)
(* The approval notification: after a gate's park has committed, the       *)
(* worker POSTs a signed payload to the webhook, under the side-effect     *)
(* journal, with capped retries; then it records what came of it.          *)
(* Nothing here may fail the park, so every error ends in a log line.  A   *)
(* requeue of a dead gate parks it again under a fresh approval.           *)
(***************************************************************************)
EXTENDS Integers, Sequences, FiniteSets, SequencesExt, FiniteSetsExt

CONSTANTS
    Approvals,      \* approval ids, 1..n, minted in order
    Configs,        \* webhook configurations: [maxAttempts, backoff, maxBackoff]
    DefaultConfig,
    Statuses,       \* what the webhook can answer
    MaxClock        \* bound

VARIABLE nt

\* classify's groups of HTTP answers; 0 is a transport error or the
\* attempt's own timeout, after which the payload may or may not be there.
Success(s) == s \in 200..299

Permanent(s) == s \in 400..499 /\ s \notin {408, 429}

-----------------------------------------------------------------------------
\* NewWebhook: what is not positive is the default.
Resolve(c) == [k \in DOMAIN c |-> IF c[k] <= 0 THEN DefaultConfig[k] ELSE c[k]]

\* attemptBackoff: doubled until the cap is reached.
AttemptBackoff(c, k) ==
    LET D[i \in 1..k] == IF i = 1 THEN c.backoff
                         ELSE IF 2 * D[i - 1] >= c.maxBackoff THEN c.maxBackoff ELSE 2 * D[i - 1]
    IN  Min({D[k], c.maxBackoff})

-----------------------------------------------------------------------------
Idle == [at |-> "idle", approval |-> 0, attempt |-> 0, ts |-> 0, wait |-> 0, reason |-> "none"]

Init ==
    \E c \in Configs :
        nt = [config |-> Resolve(c), clock |-> 0,
              gate |-> "running",   \* the gate step: running, awaiting or dead
              minted |-> 0,         \* approvals so far
              journal |-> [a \in Approvals |-> "none"],
              sent |-> <<>>,        \* POSTs as the receiver's side knows them
              events |-> {},        \* audit events
              worker |-> Idle]

\* completeAwaitHuman's commit, then notifyApproval on the same goroutine.
Park ==
    /\ nt.gate = "running" /\ nt.worker.at = "idle" /\ nt.minted + 1 \in Approvals
    /\ nt' = [nt EXCEPT !.gate = "awaiting", !.minted = @ + 1,
                        !.worker = [Idle EXCEPT !.at = "begin", !.approval = nt.minted + 1]]

\* j.Begin: without an intent nothing is delivered, and nothing twice.  The
\* timestamp is taken when Notify starts.
Begin ==
    LET a == nt.worker.approval
    IN  /\ nt.worker.at = "begin"
        /\ IF nt.journal[a] = "done" THEN nt' = [nt EXCEPT !.worker = Idle]
           ELSE nt' = [nt EXCEPT !.journal[a] = "intent",
                                 !.worker.at = "post", !.worker.attempt = 1, !.worker.ts = nt.clock]

BeginFails == nt.worker.at = "begin" /\ nt' = [nt EXCEPT !.worker = Idle]

\* post: the body and its signed timestamp, and the answer.
Posted(status) ==
    [approval |-> nt.worker.approval, ts |-> nt.worker.ts, status |-> status,
     attempt |-> nt.worker.attempt, wait |-> nt.worker.wait]

\* One turn of Notify's loop.
Post(status) ==
    LET w == nt.worker
        next == IF Success(status) THEN [w EXCEPT !.at = "complete"]
                ELSE IF Permanent(status) THEN [w EXCEPT !.at = "failed", !.reason = "permanent"]
                ELSE IF w.attempt = nt.config.maxAttempts
                     THEN [w EXCEPT !.at = "failed", !.reason = "retries_exhausted"]
                     ELSE [w EXCEPT !.at = "sleep", !.wait = AttemptBackoff(nt.config, w.attempt)]
    IN  /\ w.at = "post"
        /\ nt' = [nt EXCEPT !.sent = Append(@, Posted(status)), !.worker = next]

Wake ==
    /\ nt.worker.at = "sleep"
    /\ nt' = [nt EXCEPT !.worker.at = "post", !.worker.attempt = @ + 1]

\* The caller's context ends: before an attempt, in it, or while waiting.
CallerCancelled ==
    /\ nt.worker.at \in {"post", "sleep"}
    /\ nt' = [nt EXCEPT !.worker.at = "failed", !.worker.reason = "cancelled"]

\* j.Complete, whose own failure is only logged.
Complete ==
    /\ nt.worker.at = "complete"
    /\ \E j \in {"intent", "done"} :
          nt' = [nt EXCEPT !.journal[nt.worker.approval] = j, !.worker.at = "record"]

Event(type) ==
    LET w == nt.worker
    IN  [type |-> type, approval |-> w.approval, reason |-> w.reason,
         attempts |-> IF w.reason = "cancelled" THEN 0 ELSE w.attempt]

\* recordApprovalNotification: best effort.
Record ==
    /\ nt.worker.at \in {"record", "failed"}
    /\ LET type == IF nt.worker.at = "record" THEN "notified" ELSE "failed"
       IN  \/ nt' = [nt EXCEPT !.events = @ \cup {Event(type)}, !.worker = Idle]
           \/ nt' = [nt EXCEPT !.worker = Idle]

\* The worker dies: the park stands, the notification is lost.
Crash == nt.worker.at # "idle" /\ nt' = [nt EXCEPT !.worker = Idle]

\* The gate is settled by a timeout or an operator, and requeued: a fresh
\* approval will be minted.
Requeue ==
    /\ nt.gate = "awaiting" /\ nt.minted + 1 \in Approvals /\ nt.worker.at = "idle"
    /\ nt' = [nt EXCEPT !.gate = "running"]

Tick == nt.clock < MaxClock /\ nt' = [nt EXCEPT !.clock = @ + 1]

Next ==
    \/ Park \/ Begin \/ BeginFails \/ Wake \/ CallerCancelled \/ Complete \/ Record
    \/ \E s \in Statuses : Post(s)
    \/ Crash \/ Requeue \/ Tick

-----------------------------------------------------------------------------
PostsOf(a) == SelectSeq(nt.sent, LAMBDA p : p.approval = a)

\* The audit trail is true: "approval_notified" is recorded only for an
\* approval the webhook answered 2xx for, at the attempt it did, and
\* "approval_notification_failed" only when it never did; its reason and
\* attempt count are those of the last answer (notifyApproval,
\* notifyFailureReason).
EventsAreTrue ==
    \A e \in nt.events :
        LET posts == PostsOf(e.approval)
            last == posts[Len(posts)]
        IN  /\ (e.type = "notified") <=> (\E i \in DOMAIN posts : Success(posts[i].status))
            /\ e.reason # "cancelled" => posts # <<>> /\ e.attempts = Len(posts)
            /\ e.reason = "permanent" => last.status \in 400..499
            /\ e.reason = "retries_exhausted" => Len(posts) = nt.config.maxAttempts

\* A receiver that dedupes on the delivery id sees one delivery: every POST
\* for an approval carries the timestamp, and with it the signature, of the
\* first (Notify fixes both before its loop).
OneDistinctDelivery ==
    \A i, j \in DOMAIN nt.sent :
        nt.sent[i].approval = nt.sent[j].approval => nt.sent[i].ts = nt.sent[j].ts

\* An approval is POSTed at most maxAttempts times, never again after an
\* answer that settles it, and again after one that does not (Notify,
\* classify: 408 and 429 are the transient 4xx).
StopsWhenSettled ==
    \A a \in Approvals :
        LET posts == PostsOf(a)
        IN  /\ Len(posts) <= nt.config.maxAttempts
            /\ \A i \in 1..(Len(posts) - 1) : posts[i].status \notin (200..299) \cup {400, 401, 404}
            /\ \A e \in nt.events :
                   e.approval = a /\ e.reason = "permanent" => posts[Len(posts)].status \notin {408, 429}

\* The waits between attempts double and stop at the cap (attemptBackoff).
WaitsDoubleToTheCap ==
    \A i \in DOMAIN nt.sent :
        LET k == nt.sent[i].attempt
        IN  k > 1 => nt.sent[i].wait = Min({nt.config.maxBackoff, nt.config.backoff * 2 ^ (k - 2)})
==============================================================================
