----------------------------- MODULE RateLimiter -----------------------------
(* The token buckets of internal/ratelimit (three Lua scripts on one Redis), *)
(* the resource limiter of the workers (internal/ratelimit/resource), which  *)
(* acquires a request and a token bucket before a provider call and corrects *)
(* the estimate after it, and the API's per-key and global buckets. Redis    *)
(* runs a script atomically against its own clock; calls of different        *)
(* processes interleave in any order, can fail on either side of the script, *)
(* and are retried by the client library.                                    *)
EXTENDS Integers, FiniteSets

CONSTANTS
    Workers,      \* engine slots, each making one provider call at a time
    Clients,      \* API requests under way
    Claims,       \* pairs <<resource name, token estimate>> executors ask for; 0 is a tool call
    Exact,        \* limits.json: configured name -> its pair of buckets
    Wildcard,     \* name -> its "<provider>:*" form
    Capacity,     \* bucket -> burst size
    Rate,         \* bucket -> tokens per clock unit
    Actuals,      \* usage a provider reports
    ClassBucket,  \* API client -> the bucket of its key and route class
    GlobalBucket,
    MaxClock, MaxFaults

Buckets == DOMAIN Capacity
None == "none"

\* Validated configurations (limits.go, api/ratelimit.go).
BucketAssumption ==
    /\ Capacity \in [Buckets -> Nat \ {0}]
    /\ Rate \in [Buckets -> Nat]

VARIABLES
    now,      \* the clock of the Redis server
    key,      \* bucket -> its hash {tokens, ts} and expiry, or Absent
    excess,   \* bucket -> tokens granted, corrected by the usage reported, less what a
              \* full-rate refill has produced and what repeated refunds gave twice
    call,     \* worker or client -> its call
    faults

vars == <<now, key, excess, call, faults>>

Absent == [tokens |-> 0, ts |-> -1, dead |-> -1]
Forever == -1
Margin == 1

Least(a, b) == IF a < b THEN a ELSE b
Greatest(a, b) == IF a > b THEN a ELSE b

\* How many clock units a refill of n tokens takes, rounded up.
RefillTime(b, n) == (n + Rate[b] - 1) \div Rate[b]

-----------------------------------------------------------------------------
(* The scripts. *)

\* The balance: an absent key is a full bucket, a clock that went backwards
\* adds nothing, and a refill stops at the capacity.
Refill(b) ==
    IF key[b] = Absent
    THEN Capacity[b]
    ELSE Least(Capacity[b], key[b].tokens + Greatest(0, now - key[b].ts) * Rate[b])

ShortTTL(b, tokens) ==
    [tokens |-> tokens, ts |-> now,
     dead |-> IF Rate[b] > 0 THEN now + RefillTime(b, Capacity[b] - Greatest(0, tokens)) ELSE Forever]

\* HSET, then PEXPIRE at time-to-full plus a margin; a bucket that never
\* refills has no expiry.
Persist(b, tokens) ==
    [tokens |-> tokens, ts |-> now,
     dead |-> IF Rate[b] > 0
              THEN now + RefillTime(b, Capacity[b] - tokens) + Margin
              ELSE Forever]

Grants(cost) == \A b \in DOMAIN cost : cost[b] <= Refill(b)

\* How long until the denied buckets can pay: the longest of them, or never.
RetryAfter(cost) ==
    LET short == {b \in DOMAIN cost : cost[b] > Refill(b)}
        wait(b) == RefillTime(b, cost[b] - Refill(b))
    IN  IF \E b \in short : Rate[b] = 0
        THEN Forever
        ELSE CHOOSE t \in {wait(b) : b \in short} : \A b \in short : wait(b) <= t

\* One run of the acquire scripts: all the buckets pay or none does, and the
\* refill is written back either way.
Acquire(cost) ==
    LET paid(b) == IF Grants(cost) THEN cost[b] ELSE 0
    IN  /\ key' = [b \in Buckets |->
                    IF b \in DOMAIN cost THEN Persist(b, Refill(b) - paid(b)) ELSE key[b]]
        /\ excess' = [b \in Buckets |-> IF b \in DOMAIN cost THEN excess[b] + paid(b) ELSE excess[b]]

\* Adjust: debt has no floor, a refund stops at the capacity.
Adjust(b, delta) == key' = [key EXCEPT ![b] = Persist(b, Least(Capacity[b], Refill(b) - delta))]

-----------------------------------------------------------------------------
(* The buckets a claim names. *)

Unlimited == [requests |-> None, tokens |-> None]

\* limits.Set.Lookup: the exact name, then the provider's wildcard, then none.
Lookup(name) ==
    IF name \in DOMAIN Exact THEN Exact[name]
    ELSE IF Wildcard[name] \in DOMAIN Exact THEN Exact[Wildcard[name]]
    ELSE Unlimited

\* resource.Acquire: one request and, when there is an estimate, its tokens.
Cost(name, est) ==
    LET req == {Lookup(name).requests} \ {None}
        tok == IF est > 0 THEN {Lookup(name).tokens} \ {None} ELSE {}
    IN  [b \in req \cup tok |-> IF b \in req THEN 1 ELSE est]

TokensMetered(name, est) == est > 0 /\ Lookup(name).tokens # None

TooLarge(cost) == \E b \in DOMAIN cost : cost[b] > Capacity[b]

-----------------------------------------------------------------------------
NoCost == [b \in {} |-> 0]

\* pc: idle, calling (the provider or the handler runs), throttled or denied
\* with the denied cost and the time it was told to come back, global (between
\* the API's two acquires). metered is the token bucket to correct, sent the
\* usages of corrections that already ran.
Idle == [pc |-> "idle", metered |-> None, est |-> 0, sent |-> {}, cost |-> NoCost, due |-> 0]

\* A debit voids the promises made to callers waiting on the same bucket.
Voided(c, debited) ==
    IF call[c].pc = "throttled" /\ DOMAIN call[c].cost \cap debited # {}
    THEN [Idle EXCEPT !.pc = "throttled"] ELSE call[c]

After(c, new, debited) ==
    call' = [d \in Workers \cup Clients |-> IF d = c THEN new ELSE Voided(d, debited)]

Debited(cost) == IF Grants(cost) THEN DOMAIN cost ELSE {}

Denied(cost) ==
    IF RetryAfter(cost) = Forever
    THEN Idle
    ELSE [Idle EXCEPT !.pc = "throttled", !.cost = cost, !.due = now + RetryAfter(cost)]

\* engine.rateLimit: an estimate no refill admits fails the step for good and
\* frees the slot, a grant lets the call go, a denial defers the step.
WorkerAcquire(w, name, est) ==
    LET cost == Cost(name, est)
        granted == IF TokensMetered(name, est)
                   THEN [Idle EXCEPT !.pc = "calling", !.est = est, !.metered = Lookup(name).tokens]
                   ELSE [Idle EXCEPT !.pc = "calling"]
    IN  /\ call[w].pc \in {"idle", "throttled"}
        /\ UNCHANGED <<now, faults>>
        /\ IF TooLarge(cost)
           THEN After(w, Idle, {}) /\ UNCHANGED <<key, excess>>
           ELSE Acquire(cost) /\ After(w, IF Grants(cost) THEN granted ELSE Denied(cost), Debited(cost))

\* The script ran or did not, and the call returned an error: fail open. The
\* step runs, and nothing is corrected later.
WorkerAcquireFails(w, name, est) ==
    LET cost == Cost(name, est)
    IN  /\ call[w].pc \in {"idle", "throttled"} /\ cost # NoCost /\ ~TooLarge(cost)
        /\ faults < MaxFaults /\ faults' = faults + 1
        /\ \/ UNCHANGED <<key, excess>> /\ After(w, [Idle EXCEPT !.pc = "calling"], {})
           \/ Acquire(cost) /\ After(w, [Idle EXCEPT !.pc = "calling"], Debited(cost))
        /\ UNCHANGED now

\* The reply was lost and the client library sent the script again: the first
\* run's debit stands.
AcquireRetried(w, name, est) ==
    LET cost == Cost(name, est)
    IN  /\ call[w].pc \in {"idle", "throttled"} /\ cost # NoCost /\ ~TooLarge(cost)
        /\ faults < MaxFaults /\ faults' = faults + 1
        /\ Acquire(cost) /\ After(w, Voided(w, Debited(cost)), Debited(cost))
        /\ UNCHANGED now

Corrects(w, actual) ==
    /\ call[w].pc = "calling" /\ call[w].metered # None /\ actual # call[w].est
    /\ call[w].sent \subseteq {actual}
    /\ Adjust(call[w].metered, actual - call[w].est)

\* A debit below the estimate is a refund, one above it a debt.
Surcharged(w, actual) == IF actual > call[w].est THEN {call[w].metered} ELSE {}

\* The call returned its usage: reconcileTokens adjusts the token bucket by the
\* estimate's error. Of a correction sent again, only the first run is due.
WorkerReturns(w, actual) ==
    /\ Corrects(w, actual)
    /\ excess' = [excess EXCEPT ![call[w].metered] =
                    IF call[w].sent = {} THEN @ + (actual - call[w].est)
                    ELSE @ - Greatest(0, call[w].est - actual)]
    /\ After(w, Idle, Surcharged(w, actual))
    /\ UNCHANGED <<now, faults>>

\* The script ran, and the client library sends it again.
AdjustRetried(w, actual) ==
    /\ Corrects(w, actual) /\ call[w].sent = {}
    /\ faults < MaxFaults /\ faults' = faults + 1
    /\ excess' = [excess EXCEPT ![call[w].metered] = @ + (actual - call[w].est)]
    /\ After(w, [call[w] EXCEPT !.sent = {actual}], Surcharged(w, actual))
    /\ UNCHANGED now

\* The estimate was right, the call failed, the worker died, or the correction
\* itself failed: the bucket is left as it is.
WorkerReturnsUncorrected(w) ==
    /\ call[w].pc = "calling"
    /\ After(w, Idle, {})
    /\ UNCHANGED <<now, key, excess, faults>>

\* api.rateLimit: the class bucket first, and only then the global one. A
\* global denial does not give the class token back.
ApiAcquire(c) ==
    LET global == call[c].pc = "global"
        b == IF global THEN GlobalBucket ELSE ClassBucket[c]
        cost == [x \in {b} |-> 1]
        passed == [Idle EXCEPT !.pc = IF global THEN "calling" ELSE "global"]
    IN  /\ call[c].pc \in {"idle", "throttled", "global"}
        /\ Acquire(cost)
        /\ After(c, IF Grants(cost) THEN passed ELSE Denied(cost), Debited(cost))
        /\ UNCHANGED <<now, faults>>

\* An error at either bucket lets the request through.
ApiAcquireFails(c) ==
    /\ call[c].pc \in {"idle", "throttled", "global"}
    /\ faults < MaxFaults /\ faults' = faults + 1
    /\ After(c, [Idle EXCEPT !.pc = "calling"], {})
    /\ UNCHANGED <<now, key, excess>>

ApiServes(c) ==
    /\ call[c].pc = "calling"
    /\ After(c, Idle, {})
    /\ UNCHANGED <<now, key, excess, faults>>

Tick ==
    /\ now < MaxClock
    /\ now' = now + 1
    /\ excess' = [b \in Buckets |-> excess[b] - Rate[b]]
    /\ UNCHANGED <<key, call, faults>>

\* TIME goes backwards across a failover; what was promised on the old clock
\* is void.
ClockStepsBack ==
    /\ faults < MaxFaults /\ faults' = faults + 1
    /\ now > 0 /\ now' = now - 1
    /\ call' = [d \in Workers \cup Clients |-> Voided(d, Buckets)]
    /\ UNCHANGED <<key, excess>>

Expire(b) ==
    /\ key[b] # Absent /\ key[b].dead # Forever /\ now >= key[b].dead
    /\ key' = [key EXCEPT ![b] = Absent]
    /\ UNCHANGED <<now, excess, call, faults>>

Init ==
    /\ now = 0
    /\ key = [b \in Buckets |-> Absent]
    /\ excess = [b \in Buckets |-> 0]
    /\ call = [c \in Workers \cup Clients |-> Idle]
    /\ faults = 0

WorkerNext ==
    \E w \in Workers :
        \/ \E c \in Claims :
            WorkerAcquire(w, c[1], c[2]) \/ WorkerAcquireFails(w, c[1], c[2]) \/ AcquireRetried(w, c[1], c[2])
        \/ \E actual \in Actuals : WorkerReturns(w, actual) \/ AdjustRetried(w, actual)
        \/ WorkerReturnsUncorrected(w)

ApiNext == \E c \in Clients : ApiAcquire(c) \/ ApiAcquireFails(c) \/ ApiServes(c)

RedisNext == Tick \/ ClockStepsBack \/ \E b \in Buckets : Expire(b)

Next == WorkerNext \/ ApiNext \/ RedisNext

Spec == Init /\ [][Next]_vars

-----------------------------------------------------------------------------
\* Clocks, balances and calls have their types, and no balance is above the
\* bucket's capacity.
TypeOK ==
    /\ now \in Nat
    /\ \A b \in Buckets :
        /\ key[b] = Absent \/ (key[b].tokens \in Int /\ key[b].tokens <= Capacity[b] /\ key[b].ts \in Nat)
        /\ excess[b] \in Int
    /\ \A c \in Workers \cup Clients :
        /\ call[c].pc \in {"idle", "calling", "throttled", "global"}
        /\ call[c].metered \in Buckets \cup {None}
    /\ faults \in Nat

\* Whatever the scripts, expiries, clock steps, lost replies and corrections
\* do, a bucket never grants more than its burst plus its refill for the time
\* that really passed: an expiry and a clock step mint nothing
\* (ratelimit.go:131-145), not even for a bucket in debt. The one exception is
\* a refund that the client library sends twice, and it adds that refund only.
NeverOverGrants == \A b \in Buckets : excess[b] + Refill(b) <= Capacity[b]

\* A denied caller that waits the Retry-After it was given finds its cost
\* covered in every bucket it needs, unless another caller took tokens from
\* one of them meanwhile (ratelimit.go RetryAfter, api/ratelimit.go:257-260).
RetryAfterSuffices ==
    \A c \in Workers \cup Clients :
        call[c].pc = "throttled" /\ now >= call[c].due => Grants(call[c].cost)
=============================================================================
