--------------------------- MODULE ContextAssembly ---------------------------
(***************************************************************************)
(* The context of an llm step: its sources are read into a preamble, the   *)
(* preamble is compacted until the framed request fits the budget, the     *)
(* decision is recorded under the claim, and the window guard has the last *)
(* word before the provider is called.  A text is its length in            *)
(* characters; a token stands for R of them, so counts do not add up over  *)
(* blocks, as the strategies must allow for.                               *)
(***************************************************************************)
EXTENDS Integers, Sequences, FiniteSets, SequencesExt

CONSTANTS
    Specs,          \* context blocks: [sources, budget (0: none), pipeline]
    Models,         \* [window, max]: the catalog's window (0: none) and max_tokens
    Frame,          \* tokens of the request around the preamble
    Wrap,           \* characters of the envelope a block is rendered in
    R, Marker,      \* characters of a token, and of an elision marker
    HeadroomFloor,  \* HeadroomFloorTokens
    SummaryLens,    \* lengths a model's summary may have
    MaxAttempts, MaxFaults   \* bounds

VARIABLE asm

Missing == -1

-----------------------------------------------------------------------------
(* Counting and truncation.                                                *)

\* A counter: monotonic in the length, and not additive.
Count(n) == (n + R - 1) \div R

\* The binary search both truncations share, over what is kept of a text.
RECURSIVE Search(_, _, _, _, _)
Search(lo, hi, best, extra, cap) ==
    IF lo > hi THEN best
    ELSE LET mid == (lo + hi) \div 2
         IN  IF Count(mid + extra) <= cap THEN Search(mid + 1, hi, mid, extra, cap)
             ELSE Search(lo, mid - 1, best, extra, cap)

\* truncateToTokens: a prefix, and the marker where the marker alone fits.
TruncateToTokens(n, cap) ==
    LET extra == IF Count(Marker) <= cap THEN Marker ELSE 0
    IN  IF Count(n) <= cap THEN n ELSE Search(0, n, 0, extra, cap) + extra

\* truncateMiddle: head, marker, tail; nothing where not even the marker fits.
TruncateMiddle(n, target) ==
    IF Count(n) <= target THEN n
    ELSE IF Count(Marker) > target THEN 0
    ELSE Search(0, n, 0, Marker, target) + Marker

-----------------------------------------------------------------------------
(* Validation, and the budget.                                             *)

Strategies == {"sliding_window", "drop_lowest_priority", "truncate_oldest", "summarize"}

\* checkContextSource.
ValidSource(s) == s.cap # 0 => (s.cap >= 1 /\ ~s.pinned)

\* checkCompaction: n is the window, the floor or the summary's max_tokens.
ValidPipeline(p) ==
    /\ \A i \in DOMAIN p : /\ p[i].kind \in Strategies
                           /\ p[i].kind \in {"sliding_window", "summarize"} => p[i].n >= 1
    /\ \A i, j \in DOMAIN p : p[i].kind = p[j].kind => i = j

\* checkContext.
ValidSpec(c) ==
    /\ Len(c.sources) > 0 /\ c.budget >= 0
    /\ \A i \in DOMAIN c.sources : ValidSource(c.sources[i])
    /\ ValidPipeline(c.pipeline)

\* Headroom: five percent of the window, rounded up, within bounds.
Headroom(w) ==
    LET h == (5 * w + 99) \div 100
        f == IF h < HeadroomFloor THEN HeadroomFloor ELSE h
    IN  IF f > w THEN w ELSE f

\* DefaultBudget: 0 where the window leaves no room.
DefaultBudget(m) ==
    LET b == m.window - m.max - Headroom(m.window)
    IN  IF m.window = 0 \/ b <= 0 THEN 0 ELSE b

\* EffectiveBudget: an explicit budget may only tighten the window's.
EffectiveBudget(explicit, m) ==
    LET d == DefaultBudget(m)
    IN  IF explicit = 0 THEN d
        ELSE IF d = 0 \/ explicit <= d THEN explicit ELSE d

-----------------------------------------------------------------------------
(* Compaction.                                                             *)

\* The entries still in the request, in message order.
LiveEntries(a) == SelectSeq(a.entries, LAMBDA e : e.src \notin a.dropped)

\* MeasureFunc: the whole request with these entries rendered into it.
Measure(entries) ==
    Frame + Count(FoldSeq(LAMBDA e, n : e.len + Wrap + n, 0, entries))

Fits(a) == Measure(LiveEntries(a)) <= a.budget

\* Positions a strategy may touch: not pinned, not dropped.
Free(a) == {i \in DOMAIN a.entries : ~a.entries[i].pinned /\ a.entries[i].src \notin a.dropped}

DropEntries(a, S) == [a EXCEPT !.dropped = @ \cup {a.entries[i].src : i \in S}]

\* slidingWindow: the last n free entries stay.
SlidingWindow(a, n) ==
    DropEntries(a, {i \in Free(a) : Cardinality({j \in Free(a) : j >= i}) > n})

\* Fault: the last free entry is never dropped.
RECURSIVE DropOnePerTurn(_)
DropOnePerTurn(a) ==
    IF Fits(a) \/ Cardinality(Free(a)) <= 1 THEN a
    ELSE DropOnePerTurn(DropEntries(a, {CHOOSE i \in Free(a) : \A j \in Free(a) : i >= j}))

\* dropLowestPriority: lowest priority first, the later of equals, one by one.
RECURSIVE DropLowestPriority(_)
DropLowestPriority(a) ==
    IF Fits(a) \/ Free(a) = {} THEN a
    ELSE LET prio(i) == a.entries[i].prio
             victim == CHOOSE i \in Free(a) : \A j \in Free(a) :
                           prio(i) < prio(j) \/ (prio(i) = prio(j) /\ i >= j)
         IN  DropLowestPriority(DropEntries(a, {victim}))

\* truncateOldest: the oldest free entry above the floor gives up what the
\* request is over by, then the next one.
RECURSIVE TruncateOldest(_, _)
TruncateOldest(a, floor) ==
    LET above == {i \in Free(a) : Count(a.entries[i].len) > floor}
    IN  IF Fits(a) \/ above = {} THEN a
        ELSE LET v      == CHOOSE i \in above : \A j \in above : i <= j
                 tokens == Count(a.entries[v].len)
                 over   == Measure(LiveEntries(a)) - a.budget
                 wanted == IF tokens - over < floor THEN floor ELSE tokens - over
                 target == IF wanted >= tokens THEN tokens - 1 ELSE wanted
                 kept   == TruncateMiddle(a.entries[v].len, target)
             IN  IF Count(kept) >= tokens THEN a
                 ELSE TruncateOldest([a EXCEPT !.entries[v].len = kept,
                                               !.entries[v].whole = FALSE,
                                               !.cut = @ \cup {a.entries[v].src}], floor)

SpanTokens(a, S) ==
    FoldSeq(LAMBDA e, n : Count(e.len) + n, 0,
            SelectSeq(a.entries, LAMBDA e : \E i \in S : a.entries[i] = e))

\* The span summarize gathers: the oldest free entries, until a summary of at
\* most max tokens in their place should clear the overage.
Span(a, max) ==
    LET over == Measure(LiveEntries(a)) - a.budget
    IN  {i \in Free(a) : SpanTokens(a, {j \in Free(a) : j < i}) < over + max}

\* What the summarizer is asked, as its cache keys it.
SpanText(a, S) == {<<a.entries[i].src, a.entries[i].len>> : i \in S}

Oldest(S) == CHOOSE i \in S : \A j \in S : i <= j

\* The span leaves, and the summary stands where its oldest entry stood.
Splice(a, S, n) ==
    LET e == [src |-> 0, pinned |-> FALSE, prio |-> 0, len |-> n, whole |-> TRUE,
              covers |-> {a.entries[i].src : i \in S}]
    IN  [DropEntries(a, S) EXCEPT !.entries = InsertAt(@, Oldest(S), e), !.folded = e.covers]

-----------------------------------------------------------------------------
(* The attempt.                                                            *)

Claimed(spec, model, attempt) ==
    [spec |-> spec, model |-> model, attempt |-> attempt, pc |-> "claimed", live |-> TRUE,
     read |-> <<>>, entries |-> <<>>, dropped |-> {}, cut |-> {}, folded |-> {},
     budget |-> 0, at |-> 0, runs |-> 0, summary |-> [len |-> 0, hit |-> FALSE],
     event |-> <<>>, pinnedOnly |-> FALSE]

\* What outlives the attempt: the ledger's overhead rows, the calls that were
\* billed, the summarizer's cache and the versions of the summary key.
Init ==
    \E c \in {s \in Specs : ValidSpec(s)}, m \in Models :
        asm = [a |-> Claimed(c, m, 1), ledger |-> {}, calls |-> <<>>, cache |-> {},
               board |-> 0, faults |-> 0, misses |-> 0]

Att == asm.a
Faulty == asm.faults < MaxFaults
Fault(x) == [x EXCEPT !.faults = @ + 1]

\* The delivery is not acked, and the next claim starts over.
Redeliver(x) ==
    [x EXCEPT !.a = IF Att.attempt < MaxAttempts
                    THEN Claimed(Att.spec, Att.model, Att.attempt + 1)
                    ELSE [Att EXCEPT !.pc = "stuck"]]

\* resolveSource for every source, then the caps: an entry for each source that
\* resolved.  A missing source fails the step unless its policy is skip.
Assemble ==
    /\ Att.pc = "claimed"
    /\ \E read \in {f \in [DOMAIN Att.spec.sources -> UNION {s.lens : s \in Range(Att.spec.sources)}] :
                       \A i \in DOMAIN f : f[i] \in Att.spec.sources[i].lens} :
        LET src == Att.spec.sources
            found == SelectSeq([i \in DOMAIN src |-> i], LAMBDA i : read[i] # Missing)
            kept(i) == IF src[i].cap # 0 /\ ~src[i].pinned
                       THEN TruncateToTokens(read[i], src[i].cap) ELSE read[i]
            entry(i) == [src |-> i, pinned |-> src[i].pinned, prio |-> src[i].prio,
                         len |-> kept(i), covers |-> {i},
                         whole |-> ~(src[i].cap # 0 /\ ~src[i].pinned /\ Count(read[i]) > src[i].cap)]
            budget == EffectiveBudget(Att.spec.budget, Att.model)
        IN  asm' = [asm EXCEPT !.a =
                IF \E i \in DOMAIN src : read[i] = Missing /\ ~src[i].skip
                THEN [Att EXCEPT !.pc = "failed", !.read = read]
                ELSE [Att EXCEPT !.read = read, !.budget = budget,
                                 !.entries = [k \in DOMAIN found |-> entry(found[k])],
                                 !.pc = IF budget = 0 THEN "ready" ELSE "compact"]]

\* A source cannot be read, or the caller's context is cancelled.
TransportFails ==
    /\ Att.pc \in {"claimed", "summarize", "put", "ready", "overbudget"} /\ Faulty
    /\ asm' = Fault(Redeliver(asm))

Strategy == Att.spec.pipeline[Att.at + 1]
Ran(a) == [a EXCEPT !.at = @ + 1, !.runs = @ + 1, !.pc = "compact"]

\* One turn of Compact's loop.
Compact ==
    /\ Att.pc = "compact"
    /\ asm' = [asm EXCEPT !.a =
          IF Fits(Att) THEN [Att EXCEPT !.pc = "ready"]
          ELSE IF Att.at = Len(Att.spec.pipeline)
          THEN [Att EXCEPT !.pc = "overbudget",
                           !.pinnedOnly = Measure(SelectSeq(Att.entries, LAMBDA e : e.pinned)) > Att.budget]
          ELSE IF Strategy.kind = "sliding_window" THEN Ran(SlidingWindow(Att, Strategy.n))
          ELSE IF Strategy.kind = "drop_lowest_priority" THEN Ran(DropLowestPriority(Att))
          ELSE IF Strategy.kind = "truncate_oldest" THEN Ran(TruncateOldest(Att, Strategy.n))
          ELSE IF Free(Att) = {} THEN Ran(Att) ELSE [Att EXCEPT !.pc = "summarize"]]

\* The cached summary of the span, where there is one; a failed cache read is a
\* miss.  A summary no smaller than its span is not used.
Summarized(n, hit) ==
    LET S == Span(Att, Strategy.n)
    IN  IF Count(n) >= SpanTokens(Att, S) THEN Ran(Att)
        ELSE [Att EXCEPT !.pc = "put", !.summary = [len |-> n, hit |-> hit]]

CacheHit ==
    /\ Att.pc = "summarize"
    /\ \E c \in asm.cache :
        /\ c[1] = SpanText(Att, Span(Att, Strategy.n))
        /\ asm' = [asm EXCEPT !.a = Summarized(c[2], TRUE)]

CacheMiss ==
    \E n \in SummaryLens :
        LET text == SpanText(Att, Span(Att, Strategy.n))
            known == \E c \in asm.cache : c[1] = text
            done == [asm EXCEPT !.a = Summarized(n, FALSE), !.calls = Append(@, text),
                                !.cache = {c \in @ : c[1] # text} \cup {<<text, n>>}]
        IN  /\ Att.pc = "summarize"
            /\ known => Faulty
            /\ asm' = IF known THEN [Fault(done) EXCEPT !.misses = @ + 1] ELSE done

\* The summarizer is not wired, fails, times out or answers with nothing.
SummarizerFails ==
    /\ Att.pc = "summarize" /\ Faulty
    /\ asm' = Fault([asm EXCEPT !.a = Ran(Att)])

\* The fenced write to the summary key; a failed one is a fallback too.
Put ==
    /\ Att.pc = "put"
    /\ \/ /\ Att.live
          /\ asm' = [asm EXCEPT !.board = @ + 1,
                        !.a = Ran(Splice(Att, Span(Att, Strategy.n), Att.summary.len))]
       \/ /\ ~Att.live
          /\ asm' = [asm EXCEPT !.a = Ran(Att)]
       \/ /\ Faulty
          /\ asm' = Fault([asm EXCEPT !.a = Ran(Att)])

\* compactedReports: what became of a source.
Report(a, i) ==
    IF a.read[i] = Missing THEN "skipped"
    ELSE IF i \in a.folded THEN "summarized"
    ELSE IF i \in a.dropped THEN "dropped"
    ELSE IF i \in a.cut \/ \E k \in DOMAIN a.entries : a.entries[k].src = i /\ ~a.entries[k].whole
    THEN "truncated" ELSE "included"

\* priceSummaryOverheads: a row for the summary that was used.
Rows(a) == IF a.folded = {} THEN {} ELSE {[attempt |-> a.attempt, free |-> a.summary.hit]}

\* recordContextAssembled: revisions, event and overhead in one transaction
\* fenced by the claim; a claim that was taken over gives up.
RecordContextAssembled ==
    /\ Att.pc = "ready"
    /\ asm' = IF ~Att.live THEN Redeliver(asm)
              ELSE [asm EXCEPT !.a.pc = "recorded", !.ledger = @ \cup Rows(Att),
                               !.a.event = [i \in DOMAIN Att.read |-> Report(Att, i)]]

\* recordFailedCompaction, and the permanent failure of the step.
RecordContextRevisions ==
    /\ Att.pc = "overbudget"
    /\ asm' = IF ~Att.live THEN Redeliver(asm)
              ELSE [asm EXCEPT !.a.pc = "failed", !.ledger = @ \cup Rows(Att)]

\* guardWindow on the model the claim is routed to in the end.
ExceedsWindow(m) == m.window # 0 /\ Measure(LiveEntries(Att)) + m.max > m.window

\* The budget check may have moved the claim to another model of its chain.
Send(m) ==
    /\ Att.pc = "recorded"
    /\ asm' = [asm EXCEPT !.a.model = m, !.a.pc = IF ExceedsWindow(m) THEN "failed" ELSE "sent"]

\* The lease is lost, and the step taken over.
Takeover ==
    /\ Att.live /\ Att.pc \in {"compact", "summarize", "put", "ready", "overbudget"} /\ Faulty
    /\ asm' = Fault([asm EXCEPT !.a.live = FALSE])

Next ==
    \/ Assemble \/ TransportFails \/ Compact \/ CacheHit \/ CacheMiss \/ SummarizerFails \/ Put
    \/ RecordContextAssembled \/ RecordContextRevisions \/ Takeover
    \/ \E m \in Models : Send(m)

Spec == Init /\ [][Next]_asm

-----------------------------------------------------------------------------
(* Properties.                                                             *)

\* A truncated text fits its cap and keeps as much as the cap allows, and a
\* source that is cut to a floor the marker fits into does not end below it
\* (truncateToTokens and truncateMiddle, against every text they could keep).
TruncationIsTight ==
    Att.pc = "claimed" /\ Att.attempt = 1 =>
        \A n \in 0..12, cap \in 0..6 :
            LET t == TruncateMiddle(n, cap)
                p == TruncateToTokens(n, cap)
            IN  /\ Count(t) <= cap /\ Count(p) <= cap
                /\ Count(n) > cap /\ Count(Marker) <= cap =>
                       /\ t = p /\ Count(t + 1) > cap
                       /\ \A k \in 0..n : Count(k + Marker) <= cap => k + Marker <= t

\* No request leaves that is over the budget its context was compacted to, or
\* over the window of the model that will serve it, whatever model the claim
\* was moved to in between (Compact, then guardWindow).
SentFits ==
    Att.pc = "sent" =>
        LET size == Measure(LiveEntries(Att))
        IN  /\ Att.budget # 0 => size <= Att.budget
            /\ Att.model.window # 0 => size + Att.model.max <= Att.model.window

\* The budget leaves the room the window needs for the completion and the
\* headroom, whatever the author asked for (EffectiveBudget).
BudgetWithinWindow ==
    Att.pc \in {"compact", "summarize", "put"} /\ DefaultBudget(Att.model) # 0 =>
        Att.budget + Att.model.max + Headroom(Att.model.window) <= Att.model.window

\* Every pinned source that resolved is in the request, whole, whichever
\* strategies ran.
PinnedWhole ==
    Att.pc \in {"ready", "recorded", "sent"} =>
        \A i \in DOMAIN Att.read :
            Att.spec.sources[i].pinned /\ Att.read[i] # Missing =>
                \E k \in DOMAIN LiveEntries(Att) :
                    LiveEntries(Att)[k].src = i /\ LiveEntries(Att)[k].len = Att.read[i]

\* The request keeps the order of the sources: what stands for older ones, a
\* summary too, comes before what stands for newer ones; and nothing is in it
\* twice, once as itself and once in a summary.
MessageOrderKept ==
    Att.pc \in {"ready", "recorded", "sent"} =>
        LET live == LiveEntries(Att)
        IN  \A j, k \in DOMAIN live : j < k =>
                /\ Oldest(live[j].covers) < Oldest(live[k].covers)
                /\ live[j].covers \cap live[k].covers = {}

\* The context_assembled event says of each source what became of it in the
\* request: whole, truncated, dropped, folded into a summary, or not there.
EventMatchesRequest ==
    Att.pc \in {"recorded", "sent"} =>
        LET live == LiveEntries(Att)
            in(i) == {k \in DOMAIN live : live[k].src = i}
        IN  \A i \in DOMAIN Att.event :
            CASE Att.event[i] = "included" -> \E k \in in(i) : live[k].len = Att.read[i]
              [] Att.event[i] = "truncated" -> \E k \in in(i) : ~live[k].whole
              [] Att.event[i] = "skipped" -> Att.read[i] = Missing
              [] OTHER -> in(i) = {} /\ Att.read[i] # Missing

\* A step fails for its budget only when the pipeline had nothing left to give:
\* where it may drop sources, the pinned ones alone are too much, and the error
\* says so (OverBudgetError.PinnedOnly).
OverBudgetIsJustified ==
    Att.pc = "overbudget" =>
        /\ ~Fits(Att)
        /\ (\E i \in DOMAIN Att.spec.pipeline :
               Att.spec.pipeline[i].kind = "drop_lowest_priority") => Att.pinnedOnly

\* A summary in a request is on its step's bill before the request is sent, as
\* a charge when a model was called for it and as saved when it was cached; and
\* a span is summarized again only if its cache entry could not be read.
SummariesMetered ==
    /\ Att.pc \in {"recorded", "sent"} /\ Att.folded # {} =>
           [attempt |-> Att.attempt, free |-> Att.summary.hit] \in asm.ledger
    /\ \A text \in Range(asm.calls) :
           Cardinality({k \in DOMAIN asm.calls : asm.calls[k] = text}) <= 1 + asm.misses
=============================================================================
