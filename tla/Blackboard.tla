----------------------------- MODULE Blackboard ------------------------------
(* The blackboard of one run: versioned, append-only keys. An executor reads *)
(* a head and later puts a new version, with or without a compare-and-swap   *)
(* guard, fenced on its claim; a success appends the step's declared writes  *)
(* and an agent's thread message in the completion transaction; the API      *)
(* pages through heads or history while all of this goes on. Every write     *)
(* transaction holds the run's row lock from its first statement, so a write *)
(* is one step; a read is not protected by it.                               *)
EXTENDS Naturals, Sequences, FiniteSets, FiniteSetsExt

CONSTANTS
    Steps,       \* steps of the run, all agents with one declared write
    N,           \* attempts of a step
    Limit,       \* the API's page size
    MaxFaults

Keys == 1..2          \* ordered: page cursors are keys
Counter == 1          \* a key that executors update by compare-and-swap
Thread == 2           \* the declared key and thread of every step
Tags == {"note", "thread"}

VARIABLES
    claim,    \* step -> the attempt holding it, 0 when none
    status,   \* step -> running, succeeded or open
    board,    \* blackboard_entries
    att,      \* <<step, attempt>> -> its executor
    walk,     \* the API client paging through the board
    faults

vars == <<claim, status, board, att, walk, faults>>

Attempts == Steps \X (1..N)
Versions(key) == {e.version : e \in {x \in board : x.key = key}}

\* COALESCE(MAX(version), 0)
HeadVersion(key) == IF Versions(key) = {} THEN 0 ELSE Max(Versions(key))

Latest(key) == CHOOSE e \in board : e.key = key /\ e.version = HeadVersion(key)
HeadValue(key) == IF Versions(key) = {} THEN 0 ELSE Latest(key).value

Unread == [pc |-> "waiting", seen |-> 0, value |-> 0]
NoWalk == [pc |-> "idle", history |-> FALSE, tag |-> "", cursor |-> <<0, 0>>, got |-> <<>>, start |-> {}]

Init ==
    /\ claim = [s \in Steps |-> 0]
    /\ status = [s \in Steps |-> "open"]
    /\ board = {}
    /\ att = [a \in Attempts |-> Unread]
    /\ walk = NoWalk
    /\ faults = 0

-----------------------------------------------------------------------------
\* A claim, a retry's claim or a takeover: the attempt before it may still run.
Claim(s) ==
    /\ status[s] \in {"open", "running"} /\ claim[s] < N
    /\ status[s] = "running" => faults < MaxFaults
    /\ faults' = IF status[s] = "running" THEN faults + 1 ELSE faults
    /\ claim' = [claim EXCEPT ![s] = @ + 1]
    /\ status' = [status EXCEPT ![s] = "running"]
    /\ att' = [att EXCEPT ![<<s, claim[s] + 1>>].pc = "running"]
    /\ UNCHANGED <<board, walk>>

\* Board.Get: the head as of now.
Get(a) ==
    /\ att[a].pc = "running"
    /\ att' = [att EXCEPT ![a] = [pc |-> "read", seen |-> HeadVersion(Counter), value |-> HeadValue(Counter)]]
    /\ UNCHANGED <<claim, status, board, walk, faults>>

Entry(key, a, version, value, tag) ==
    [key |-> key, version |-> version, value |-> value, step |-> a[1], attempt |-> a[2], tag |-> tag]

UnfencedAllowed(a) == TRUE

\* The claim fence: run_steps.claim_id is still this attempt's.
Fenced(a) == claim[a[1]] = a[2]

NoCAS(a) == TRUE

\* The compare-and-swap guard.
Expected(a) == HeadVersion(Counter) = att[a].seen

\* The version a put inserts: one past the head it reads under the run lock.
NextVersion(a) == HeadVersion(Counter) + 1

\* Board.Put with ExpectedVersion: fenced or conflicting writes store nothing;
\* either error fails the attempt.
Put(a) ==
    /\ att[a].pc = "read"
    /\ IF Fenced(a) /\ Expected(a)
       THEN /\ board' = board \cup {Entry(Counter, a, NextVersion(a), att[a].value + 1, "note")}
            /\ att' = [att EXCEPT ![a].pc = "wrote"]
       ELSE /\ att' = [att EXCEPT ![a].pc = "failing"]
            /\ UNCHANGED board
    /\ UNCHANGED <<claim, status, walk, faults>>

\* The put committed and its answer was lost: the attempt fails.
PutUnacknowledged(a) ==
    /\ att[a].pc = "read" /\ Fenced(a) /\ Expected(a)
    /\ faults < MaxFaults /\ faults' = faults + 1
    /\ board' = board \cup {Entry(Counter, a, NextVersion(a), att[a].value + 1, "note")}
    /\ att' = [att EXCEPT ![a].pc = "failing"]
    /\ UNCHANGED <<claim, status, walk>>

\* completeFailure: a fenced failure changes nothing, a retry opens the step.
Fail(a) ==
    /\ att[a].pc = "failing"
    /\ att' = [att EXCEPT ![a].pc = "done"]
    /\ status' = IF claim[a[1]] = a[2] /\ status[a[1]] = "running" /\ claim[a[1]] < N
                 THEN [status EXCEPT ![a[1]] = "open"] ELSE status
    /\ UNCHANGED <<claim, board, walk, faults>>

\* Writes of one transaction take consecutive versions of the key.
Appended(a, values) ==
    LET head == HeadVersion(Thread)
    IN  {Entry(Thread, a, head + i, 0, values[i]) : i \in DOMAIN values}

\* completeSuccess: the success CAS, then the declared write, then the thread
\* message, one transaction; a fenced success writes none of them.
Succeed(a) ==
    /\ att[a].pc = "wrote"
    /\ att' = [att EXCEPT ![a].pc = "done"]
    /\ IF claim[a[1]] = a[2] /\ status[a[1]] = "running"
       THEN /\ status' = [status EXCEPT ![a[1]] = "succeeded"]
            /\ board' = board \cup Appended(a, <<"note", "thread">>)
       ELSE UNCHANGED <<status, board>>
    /\ UNCHANGED <<claim, walk, faults>>

-----------------------------------------------------------------------------
(* GET /v1/runs/{id}/blackboard, page after page. *)

At(e) == <<e.key, e.version>>
Before(p, q) == p[1] < q[1] \/ (p[1] = q[1] /\ p[2] < q[2])

\* The rows a walk ranges over: every version, or only the heads, and a tag
\* filter on the row itself.
Rows(history, tag) ==
    {e \in board : /\ history \/ e.version = HeadVersion(e.key)
                   /\ tag = "" \/ e.tag = tag}

StartWalk(history, tag) ==
    /\ walk.pc = "idle"
    /\ walk' = [NoWalk EXCEPT !.pc = "paging", !.history = history, !.tag = tag, !.start = Rows(history, tag)]
    /\ UNCHANGED <<claim, status, board, att, faults>>

\* History pages resume after (key, version), head pages after the key alone.
AfterCursor(e, cursor) ==
    IF walk.history THEN Before(cursor, At(e)) ELSE e.key > cursor[1]

\* LIMIT limit + 1: one row too many means there is a next page.
Page ==
    LET left == {e \in Rows(walk.history, walk.tag) : AfterCursor(e, walk.cursor)}
        rank(e) == Cardinality({x \in left : Before(At(x), At(e))})
        rows == [i \in 1..Cardinality(left) |-> CHOOSE e \in left : rank(e) = i - 1]
        more == Len(rows) > Limit
        page == IF more THEN SubSeq(rows, 1, Limit) ELSE rows
    IN  /\ walk.pc = "paging"
        /\ walk' = [walk EXCEPT !.got = @ \o page,
                                !.cursor = IF more THEN At(page[Limit]) ELSE @,
                                !.pc = IF more THEN "paging" ELSE "end"]
        /\ UNCHANGED <<claim, status, board, att, faults>>

Next ==
    \/ \E s \in Steps : Claim(s)
    \/ \E a \in Attempts : Get(a) \/ Put(a) \/ PutUnacknowledged(a) \/ Fail(a) \/ Succeed(a)
    \/ \E h \in BOOLEAN, t \in Tags \cup {""} : StartWalk(h, t)
    \/ Page

Spec == Init /\ [][Next]_vars

-----------------------------------------------------------------------------
\* Rows and control states have their types.
TypeOK ==
    /\ \A e \in board : e.key \in Keys /\ e.version \in Nat \ {0} /\ e.attempt \in 1..N
    /\ \A s \in Steps : claim[s] \in 0..N /\ status[s] \in {"open", "running", "succeeded"}
    /\ \A a \in Attempts : att[a].pc \in {"waiting", "running", "read", "wrote", "failing", "done"}

\* The history of a key is 1, 2, 3, ... with one entry each, whoever writes
\* (store/blackboard.go:17-23: "two concurrent writers of one key can never
\* collide").
VersionsDense ==
    \A key \in Keys :
        /\ Versions(key) = 1..HeadVersion(key)
        /\ Cardinality({e \in board : e.key = key}) = HeadVersion(key)

\* Executors that read a counter and put back one more never lose an update:
\* version v holds the value v (blackboard.go:134-139).
NoLostUpdate == \A e \in board : e.key = Counter => e.value = e.version

\* Once a step is claimed again nothing of the attempts before it is written
\* (blackboard.go:179-184: a taken-over attempt must not mutate shared memory).
WritesAreFenced == \A e \in board' \ board : claim[e.step] = e.attempt

\* A step's declared writes and thread message are on the board exactly when
\* the step succeeded, and once (engine/blackboard.go:5-10).
WrittenWithSuccess ==
    \A s \in Steps :
        Cardinality({e \in board : e.key = Thread /\ e.step = s})
            = IF status[s] = "succeeded" THEN 2 ELSE 0

\* A finished walk over the history returned its rows in order, none twice,
\* and every row that was there when it began, however the board grew between
\* the pages; a walk over heads returned each key at most once
\* (api/blackboard.go:59-116).
WalkIsComplete ==
    /\ \A i, j \in DOMAIN walk.got : i < j => Before(At(walk.got[i]), At(walk.got[j]))
    /\ walk.pc = "end" /\ walk.history =>
        \A e \in walk.start : \E i \in DOMAIN walk.got : walk.got[i] = e
    /\ walk.pc = "end" /\ ~walk.history =>
        /\ \A i, j \in DOMAIN walk.got : walk.got[i].key = walk.got[j].key => i = j
        /\ walk.tag = "" => \A e \in walk.start : \E i \in DOMAIN walk.got : walk.got[i].key = e.key
=============================================================================
