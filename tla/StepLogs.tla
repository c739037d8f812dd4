------------------------------ MODULE StepLogs ------------------------------
(***************************************************************************)
(* Per-step log capture (internal/exec/steplog) and the step-log API       *)
(* (internal/api/steplogs.go).  The goroutines of an attempt take sequence *)
(* numbers and queue lines in one bounded ring shared by every attempt on  *)
(* the worker; one flusher moves batches to the step_logs table and trims  *)
(* each attempt to its newest Cap lines; a client walks the table page by  *)
(* page.  A line is its attempt and its number: levels, fields and text    *)
(* are not modelled.                                                       *)
(***************************************************************************)
EXTENDS Integers, FiniteSets, FiniteSetsExt, Sequences, SequencesExt

CONSTANTS Attempts,     \* attempts running on this worker
          Writers,      \* goroutines that log
          AttemptOf,    \* the attempt whose step logger a goroutine holds
          Buffer,       \* capacity of the ring (Config.Buffer)
          FlushBatch,   \* lines popped at a time (Config.FlushBatch)
          Cap,          \* lines kept per attempt (Config.Cap)
          PageLimit,    \* ?limit= of the client
          Lines         \* attempt -> bound: how many lines it logs

VARIABLE logs

NoLine == 0

Line(a, n) == [attempt |-> a, seq |-> n]

\* No walk is open.
NoWalk == [pc |-> "none", attempt |-> CHOOSE a \in Attempts : TRUE, cursor |-> 0,
           seen |-> <<>>, more |-> FALSE, first |-> {}, dropped |-> 0]

Init == logs = [seq      |-> [a \in Attempts |-> 0],
                held     |-> [w \in Writers |-> NoLine],
                buf      |-> <<>>,
                batch    |-> <<>>,
                up       |-> TRUE,
                captured |-> 0,
                dropped  |-> 0,
                written  |-> 0,
                stored   |-> [a \in Attempts |-> {}],
                spoiled  |-> {},
                last     |-> [a \in Attempts |-> 0],
                walk     |-> NoWalk]

\* captureHandler.Handle: the number is taken first (c.seq.Add(1)), outside
\* the ring's mutex.
Handle(w) ==
    /\ logs.up
    /\ logs.held[w] = NoLine
    /\ logs.seq[AttemptOf[w]] < Lines[AttemptOf[w]]
    /\ logs' = [logs EXCEPT !.seq[AttemptOf[w]] = @ + 1,
                            !.held[w] = logs.seq[AttemptOf[w]] + 1]

\* Sink.enqueue: a full ring gives up its oldest line.  The ghost `last` is the
\* line an attempt queued last, and `spoiled` has the lines lost to another
\* attempt's line, a failed flush or a crash.
Enqueue(w) ==
    LET full == Len(logs.buf) = Buffer
        a    == AttemptOf[w]
    IN  /\ logs.up
        /\ logs.held[w] # NoLine
        /\ logs' = [logs EXCEPT
             !.held[w] = NoLine,
             !.captured = @ + 1,
             !.last[a] = logs.held[w],
             !.dropped = @ + (IF full THEN 1 ELSE 0),
             !.spoiled = @ \cup (IF full /\ Head(logs.buf).attempt # a THEN {Head(logs.buf)} ELSE {}),
             !.buf = Append(IF full THEN Tail(@) ELSE @, Line(a, logs.held[w]))]

\* groupByAttempt: one group per attempt, in the order each first appears.
GroupByAttempt(lines) ==
    LET attempts == {lines[i].attempt : i \in DOMAIN lines}
        first(a) == Min({i \in DOMAIN lines : lines[i].attempt = a})
        group(a) == [attempt |-> a,
                     seqs |-> {lines[i].seq : i \in {j \in DOMAIN lines : lines[j].attempt = a}}]
    IN  SetToSortSeq({group(a) : a \in attempts},
                     LAMBDA g, h : first(g.attempt) < first(h.attempt))

\* Flush takes its next batch: up to FlushBatch lines, oldest first.
PopBatch ==
    LET k == IF Len(logs.buf) < FlushBatch THEN Len(logs.buf) ELSE FlushBatch
    IN  /\ logs.up
        /\ logs.batch = <<>>
        /\ logs.buf # <<>>
        /\ logs' = [logs EXCEPT !.buf = SubSeq(@, k + 1, Len(@)),
                                !.batch = GroupByAttempt(SubSeq(logs.buf, 1, k))]

\* flushGroup: one transaction inserts the group's lines and deletes the
\* attempt's lines at or below the group's highest number minus Cap.
FlushGroup ==
    LET g == Head(logs.batch)
    IN  /\ logs.up
        /\ logs.batch # <<>>
        /\ logs' = [logs EXCEPT
             !.batch = Tail(@),
             !.written = @ + Cardinality(g.seqs),
             !.stored[g.attempt] = {n \in @ \cup g.seqs : n > Max(g.seqs) - Cap}]

GroupLines(g) == {Line(g.attempt, n) : n \in g.seqs}

\* The lines between their number and the table.
InMemory ==
    {Line(AttemptOf[w], logs.held[w]) : w \in {v \in Writers : logs.held[v] # NoLine}}
    \cup ToSet(logs.buf)
    \cup UNION {GroupLines(logs.batch[i]) : i \in DOMAIN logs.batch}

\* flushGroup when the transaction fails: counted, and never tried again.
FlushGroupFails ==
    LET g == Head(logs.batch)
    IN  /\ logs.up
        /\ logs.batch # <<>>
        /\ logs' = [logs EXCEPT !.batch = Tail(@),
                                !.dropped = @ + Cardinality(g.seqs),
                                !.spoiled = @ \cup GroupLines(g)]

\* The worker process dies with what it held in memory.
Crash ==
    /\ logs.up
    /\ logs' = [logs EXCEPT !.up = FALSE,
                            !.held = [w \in Writers |-> NoLine],
                            !.buf = <<>>,
                            !.batch = <<>>,
                            !.spoiled = @ \cup InMemory]

\* GET .../logs without a cursor: a walk of one attempt begins.
StartWalk(a) ==
    /\ logs.walk.pc = "none"
    /\ logs' = [logs EXCEPT !.walk = [NoWalk EXCEPT !.pc = "list", !.attempt = a,
                                                    !.first = logs.stored[a]]]

\* The rows after the cursor, in order of their numbers (ListStepLogsPage).
After(a, n) ==
    SetToSortSeq({m \in logs.stored[a] : m > n}, LAMBDA x, y : x < y)

\* handleStepLogs, first read: PageLimit rows and one extra that decides
\* whether there is a next page.
ListPage ==
    LET w    == logs.walk
        rows == After(w.attempt, w.cursor)
        page == SubSeq(rows, 1, IF Len(rows) < PageLimit THEN Len(rows) ELSE PageLimit)
    IN  /\ w.pc = "list"
        /\ logs' = [logs EXCEPT
             !.walk.pc = "stats",
             !.walk.seen = @ \o page,
             !.walk.more = Len(rows) > PageLimit,
             !.walk.cursor = IF page = <<>> THEN @ ELSE page[Len(page)]]

\* StepLogStats: max(seq) minus the rows counted, over the whole attempt.
DroppedLines(a) ==
    IF logs.stored[a] = {} THEN 0
    ELSE Max(logs.stored[a]) - Cardinality(logs.stored[a])

\* handleStepLogs, second read: the marker, then the answer.  The client
\* follows next_cursor until there is none.
Stats ==
    /\ logs.walk.pc = "stats"
    /\ logs' = [logs EXCEPT !.walk.dropped = DroppedLines(logs.walk.attempt),
                            !.walk.pc = IF logs.walk.more THEN "list" ELSE "done"]

Next ==
    \/ \E w \in Writers : Handle(w) \/ Enqueue(w)
    \/ PopBatch
    \/ FlushGroup
    \/ FlushGroupFails
    \/ Crash
    \/ \E a \in Attempts : StartWalk(a)
    \/ ListPage
    \/ Stats

Spec == Init /\ [][Next]_logs

-----------------------------------------------------------------------------
WritersOf(a) == {w \in Writers : AttemptOf[w] = a}

InBatch == MapThenSumSet(LAMBDA i : Cardinality(logs.batch[i].seqs), DOMAIN logs.batch)

\* The goroutines of an attempt whose line another one's can overtake.
Overtaken(a) == Cardinality(WritersOf(a)) - 1

(* While the worker lives, the two counters of the sink's metrics tell the *)
(* whole story: every line accepted (StepLogCaptured) is queued, in the    *)
(* batch being written, was inserted in the table, or is counted as        *)
(* dropped (enqueue, popBatch, flushGroup).                                *)
Accounted == logs.up => logs.captured = logs.dropped + logs.written + Len(logs.buf) + InBatch

(* The ring cap is a window: the table keeps of an attempt its newest line *)
(* and the Cap - 1 numbers before it (steplog.go:71-72), and nothing older *)
(* but one late line for every further goroutine, since Handle takes the   *)
(* number before the mutex and flushGroup trims by its own group.          *)
RingBounded ==
    \A a \in Attempts : logs.stored[a] # {} =>
        Cardinality({n \in logs.stored[a] : n <= Max(logs.stored[a]) - Cap}) <= Overtaken(a)

Newest(a) == IF logs.stored[a] = {} THEN 0 ELSE Max(logs.stored[a])

(* Once an attempt's lines have settled, max(seq) - stored rows reports    *)
(* every missing number up to the line it queued last, which is its newest *)
(* if it logs from one goroutine: neither its own flood nor the ring cap   *)
(* hides a line.  Lines at the end go unreported only if another attempt's *)
(* flood, a failed flush or a crash took that last one (steplog.go:12-14   *)
(* says that the marker reports every line).                               *)
MarkerExact ==
    \A a \in Attempts :
        (\A l \in InMemory : l.attempt # a) /\ Line(a, logs.last[a]) \notin logs.spoiled
            => Newest(a) >= logs.last[a]

(* A finished walk returned, in order and once, every line that was stored *)
(* when it began and is stored still, whatever was flushed or trimmed      *)
(* between its pages (handleStepLogs, ListStepLogsPage).                   *)
WalkComplete ==
    LET w == logs.walk
    IN  /\ \A i, j \in DOMAIN w.seen : i < j => w.seen[i] < w.seen[j]
        /\ w.pc = "done" => w.first \cap logs.stored[w.attempt] \subseteq ToSet(w.seen)
=============================================================================
