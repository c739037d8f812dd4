----------------------------- MODULE MCServices ------------------------------
(* The services a step's attempt goes through, the attempt itself, and the   *)
(* HTTP API's own state.                                                     *)
EXTENDS Naturals, Sequences, FiniteSets

CONSTANTS
    Parts,  \* the parts that are checked side by side
    Workers, Clients, MaxClock, LimiterFaults,
    JournalAttempts, JournalFaults,
    BoardSteps, Limit, BoardFaults,
    Steps, MaxFaults, s1, s2

VARIABLES
    part,   \* the one a behaviour exercises
    now, key, excess, call, lfaults,
    jrow, lock, pend, jatt, service, jfaults,
    claim, status, board, batt, walk, bfaults,
    run, row, att, dead, ledger, cache, job, billed, faults

\* Two limits: a model with a request and a token bucket, and a provider
\* wildcard with tokens only; the API's class and global buckets.
BucketSize == [rq |-> 1, tk |-> 2, class |-> 2, global |-> 1]
BucketRate == [rq |-> 1, tk |-> 2, class |-> 1, global |-> 1]
Limits == [n \in {"llm", "p:*"} |->
            IF n = "llm" THEN [requests |-> "rq", tokens |-> "tk"]
            ELSE [requests |-> "none", tokens |-> "tk"]]
WildcardOf == [n \in {"llm", "p:x", "free"} |-> IF n = "p:x" THEN "p:*" ELSE "l:*"]
ResourceClaims == {<<"llm", 2>>, <<"llm", 0>>, <<"p:x", 3>>, <<"free", 1>>}

Lim == INSTANCE RateLimiter WITH
        Claims <- ResourceClaims, Exact <- Limits, Wildcard <- WildcardOf,
        Capacity <- BucketSize, Rate <- BucketRate, Actuals <- {1, 3},
        ClassBucket <- [c \in Clients |-> "class"], GlobalBucket <- "global",
        MaxFaults <- LimiterFaults, faults <- lfaults

J == INSTANCE EffectJournal WITH
        N <- JournalAttempts, MaxFaults <- JournalFaults, row <- jrow, att <- jatt, faults <- jfaults

B == INSTANCE Blackboard WITH
        Steps <- BoardSteps, N <- 2, MaxFaults <- BoardFaults, att <- batt, faults <- bfaults

\* Two steps with the same request and different chains; s1 may be claimed
\* three times and has a spending cap, s2 is judged by a model.
A == INSTANCE Attempt WITH
        MaxClaims <- [s \in Steps |-> IF s = s1 THEN 3 ELSE 1],
        Outputs <- {"a", "b"},
        Passes <- [s \in Steps |-> IF s = s1 THEN {"a"} ELSE {"a", "b"}],
        Judged <- {s2},
        Prompt <- [s \in Steps |-> "p"],
        Reads <- Steps, Writes <- Steps,
        Estimate <- <<2, 1>>, Actual <- <<{2}, {1}>>, Threshold <- <<0, 80>>,
        JudgeCost <- 1,
        StepCap <- [s \in Steps |-> IF s = s1 THEN 3 ELSE 0],
        RetryMax <- [s \in Steps |-> 2], SemanticMax <- [s \in Steps |-> 2],
        Budgets <- {2, 4}, Classes <- {"timeout", "permanent"}

limiterVars == <<now, key, excess, call, lfaults>>
journalVars == <<jrow, lock, pend, jatt, service, jfaults>>
boardVars == <<claim, status, board, batt, walk, bfaults>>
attemptVars == <<run, row, att, dead, ledger, cache, job, billed, faults>>
serviceVars == <<limiterVars, journalVars, boardVars, attemptVars>>

ServicesInit ==
    /\ IF part \in {"limiter", "api"} THEN Lim!Init
       ELSE now = <<>> /\ key = <<>> /\ excess = <<>> /\ call = <<>> /\ lfaults = <<>>
    /\ IF part = "journal" THEN J!Init
       ELSE jrow = <<>> /\ lock = <<>> /\ pend = <<>> /\ jatt = <<>> /\ service = <<>> /\ jfaults = <<>>
    /\ IF part = "board" THEN B!Init
       ELSE claim = <<>> /\ status = <<>> /\ board = <<>> /\ batt = <<>> /\ walk = <<>> /\ bfaults = <<>>
    /\ IF part = "attempt" THEN A!Init
       ELSE /\ run = <<>> /\ row = <<>> /\ att = <<>> /\ dead = <<>> /\ ledger = <<>>
            /\ cache = <<>> /\ job = <<>> /\ billed = <<>> /\ faults = <<>>

\* Worker slots and API requests use disjoint buckets, so they are separate.
LimiterNext ==
    /\ \/ part = "limiter" /\ Lim!WorkerNext
       \/ part = "api" /\ Lim!ApiNext
       \/ part \in {"limiter", "api"} /\ Lim!RedisNext
    /\ UNCHANGED <<journalVars, boardVars, attemptVars>>

JournalNext ==
    part = "journal" /\ J!Next /\ UNCHANGED <<limiterVars, boardVars, attemptVars>>

BoardNext ==
    part = "board" /\ B!Next /\ UNCHANGED <<limiterVars, journalVars, attemptVars>>

AttemptNext ==
    part = "attempt" /\ A!Next /\ UNCHANGED <<limiterVars, journalVars, boardVars>>

ServicesNext == LimiterNext \/ JournalNext \/ BoardNext \/ AttemptNext

-----------------------------------------------------------------------------
(* The HTTP API's own state.                                                 *)

CONSTANTS MaxLines, MaxSends, RegistryVersions, ListTime, MaxTime, MaxTickets,
          NoToken, NoRun, Never

VARIABLES logs, sub, reg, list, cred

\* Attempt a1 logs from two goroutines, a2 from one.
Logs == INSTANCE StepLogs WITH
        Attempts <- {"a1", "a2"}, Writers <- {"w1", "w2", "w3"},
        AttemptOf <- [w \in {"w1", "w2", "w3"} |-> IF w = "w3" THEN "a2" ELSE "a1"],
        Lines <- [a1 |-> MaxLines, a2 |-> MaxLines - 1],
        Buffer <- 2, FlushBatch <- 2, Cap <- 1, PageLimit <- 1

Sent(def, params, ref) == [def |-> def, params |-> params, ref |-> ref]

\* Two requests that differ in formatting, one with another payload, one with
\* another definition whose token an old run has, and one without a token.
Requested == [same |-> Sent("d", "given", "inline"), spaced |-> Sent("d", "respaced", "inline"),
              other |-> Sent("d", "given", "stored"), old |-> Sent("e", "absent", "inline"),
              plain |-> Sent("d", "given", "inline")]
Tokens == [same |-> "k", spaced |-> "k", other |-> "k", old |-> "o", plain |-> NoToken]

Sub == INSTANCE Submission WITH
        Requests <- DOMAIN Requested,
        Batches <- {{"same", "spaced", "other"}, {"same", "old", "plain"}},
        Token <- Tokens, Payload <- Requested,
        LegacyRuns <- {[id |-> 1, token |-> "o", payload |-> Sent("d", "empty", "inline"),
                        fingerprint |-> NoRun]}

\* Two names whose lock keys collide.
Reg == INSTANCE Registry WITH
        Names <- {"n", "m"}, LockKey <- [n \in {"n", "m"} |-> 7], Builders <- {"b1", "b2", "b3"},
        MaxVersions <- [n \in {"n", "m"} |-> IF n = "n" THEN RegistryVersions ELSE 1]

List == INSTANCE Listing WITH Ids <- 1..3, Limit <- 1, MaxTime <- ListTime

Cred == INSTANCE Credentials WITH
        KeyIds <- {"k1", "k2"}, Scopes <- [k1 |-> {"admin"}, k2 |-> {"submit"}],
        Prefixes <- {"p", "q"}, Streams <- {"r1", "firehose"},
        TTL <- 2, KeyLife <- 2, CreateAttempts <- 3

gatewayVars == <<logs, sub, reg, list, cred>>

GatewayInit ==
    /\ IF part = "logs" THEN Logs!Init ELSE logs = <<>>
    /\ IF part = "sub" THEN Sub!Init ELSE sub = <<>>
    /\ IF part = "reg" THEN Reg!Init ELSE reg = <<>>
    /\ IF part = "list" THEN List!Init ELSE list = <<>>
    /\ IF part = "cred" THEN Cred!Init ELSE cred = <<>>

LogsNext == part = "logs" /\ Logs!Next /\ UNCHANGED <<sub, reg, list, cred>>

SubNext == part = "sub" /\ Sub!Next /\ UNCHANGED <<logs, reg, list, cred>>

RegNext == part = "reg" /\ Reg!Next /\ UNCHANGED <<logs, sub, list, cred>>

ListNext == part = "list" /\ List!Next /\ UNCHANGED <<logs, sub, reg, cred>>

CredNext == part = "cred" /\ Cred!Next /\ UNCHANGED <<logs, sub, reg, list>>

GatewayNext == LogsNext \/ SubNext \/ RegNext \/ ListNext \/ CredNext

-----------------------------------------------------------------------------
(* Properties of the parts.                                                  *)

\* A bucket never grants more than its burst and its refill, whatever the clock,
\* debts, expiries, lost replies and retried scripts do, a refund sent twice apart;
\* waiting out a Retry-After is enough.
LimitsHold ==
    part \in {"limiter", "api"} => Lim!TypeOK /\ Lim!NeverOverGrants /\ Lim!RetryAfterSuffices

\* All attempts of a journaled effect see one result; the effect is applied once
\* at a service that honours the key; an attempt that starts after the result is
\* recorded does not fire; the insert race of Begin is lost at most once.
EffectsOnce ==
    part = "journal" =>
        J!TypeOK /\ J!ResultsAgree /\ J!EffectAppliedOnce /\ J!LateAttemptsDoNotFire /\ J!RaceLostOnce

\* A key's history has no gaps and no duplicates, compare-and-swap writers lose no
\* update, declared writes are there exactly when the step succeeded, and paging
\* skips and repeats nothing while the board grows.
BoardLinear ==
    part = "board" =>
        B!TypeOK /\ B!VersionsDense /\ B!NoLostUpdate /\ B!WrittenWithSuccess /\ B!WalkIsComplete

\* The run's totals are the sums of its ledger, bills are ledgered exactly for
\* attempts that were judged, concurrent claims pass the budget by a bounded
\* amount, and a step passes its cap only through failed ledger reads.
AttemptsMetered ==
    part = "attempt" =>
        A!TypeOK /\ A!LedgerExact /\ A!BillsLedgered /\ A!BoundedOvershoot /\ A!StepCapHoldsPerRead

\* A step succeeds with an output its own chain accepts, rejected outputs are not
\* cached, transport and semantic retries have disjoint budgets, and the pending
\* critique belongs to this life's last validation failure.
AttemptsJudged ==
    part = "attempt" =>
        /\ A!ServedOutputsValid /\ A!CachedOutputsValid
        /\ A!RetryBudgetsDisjoint /\ A!FeedbackMatchesHistory

\* A token names one run, which is announced as new once and which every answer
\* for the token names, across retries, rollbacks and lost connections.
SubmitsOnce ==
    part = "sub" => Sub!OneRunPerToken /\ Sub!AnswersNameTheRun /\ Sub!CreatedOnce

\* Appends never collide on a version, a guarded save supersedes the version that
\* was opened, and versions have no gaps.
RegistryLinear ==
    part = "reg" => Reg!AppendsNeverCollide /\ Reg!NoSilentFork /\ Reg!VersionsContiguous

\* A walk of a list misses and repeats nothing while rows come and go.
ListsExact == part = "list" => List!WalkExact

\* A key opens nothing after its end and its tickets nothing a ticket's life later;
\* lookup prefixes are distinct.
AccessEnds == part = "cred" => Cred!AccessEnds /\ Cred!PrefixesDistinct

\* Captured log lines are stored, counted as dropped or under way; the ring cap is
\* a window, up to one late line per further goroutine; the truncation marker misses
\* no line but the last ones of an attempt whose last one was lost; a walk of the
\* log is complete.
LogsAccounted ==
    part = "logs" => Logs!Accounted /\ Logs!RingBounded /\ Logs!MarkerExact /\ Logs!WalkComplete
=============================================================================
