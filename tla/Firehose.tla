------------------------------- MODULE Firehose ------------------------------
(***************************************************************************)
(* The multi-run WebSocket (api/firehose.go): the hub that shares one      *)
(* pub/sub subscription between the connections of a process, and one      *)
(* connection with its subscriptions, filters, per-run tails and the       *)
(* bounded cache of run metadata.                                          *)
(*                                                                         *)
(* The state owned by the connection's goroutine is the record fh; every   *)
(* handler is one action on it, since only that goroutine touches it.      *)
(* Commits, publishes, the hub's fan-out and outages of Postgres run       *)
(* beside it.  An event is <<run, seq>>; its type is Script[run][seq].  The     *)
(* outbound link (buffer, slow client) is the one EventFeed models; here a *)
(* frame handed to it reaches the client.                                  *)
(***************************************************************************)
EXTENDS Naturals, Sequences, FiniteSets, SequencesExt

CONSTANTS
    Runs, SubIds,
    Script,       \* Script[r][s]: the type of run r's event s
    DefOf,        \* DefOf[r]: the definition a run was created from
    Requests,     \* the subscribe messages clients send: a filter [runs, types, def]
                  \* and cursors, a function from a set of runs
    HubBuffer, MaxSubscriptions, MaxTrackedRuns, MetaLimit, PollLimit,
    MaxFaults,    \* bound on lost publishes and outages of Postgres
    MaxControls   \* bound on the clients' messages and connections

AnyDef == "any"
Terminal == {"run_succeeded", "run_failed", "run_cancelled"}

VARIABLES
    heads,    \* heads[r]: committed events of r (0: the run does not exist)
    stamp,    \* stamp[r]: created_at of r (0: not created)
    dbUp,     \* Postgres answers
    bus,      \* published envelopes the hub's subscription has not delivered
    hub,      \* stream: the shared subscription exists; others: other clients
    inbox,    \* the connection's inbox
    fh,       \* the connection
    budget

fhVars == <<heads, stamp, dbUp, bus, hub, inbox, fh, budget>>

NoConn == [open |-> FALSE, live |-> FALSE, subs |-> <<>>, tails |-> <<>>,
           order |-> <<>>, meta |-> <<>>, hw |-> 0, busy |-> "",
           got |-> [i \in SubIds |-> {}]]

Init ==
    /\ heads = [r \in Runs |-> 0]
    /\ stamp = [r \in Runs |-> 0]
    /\ dbUp = TRUE
    /\ bus = {}
    /\ hub = [stream |-> FALSE, others |-> FALSE]
    /\ inbox = <<>>
    /\ fh = NoConn
    /\ budget = [faults |-> MaxFaults, controls |-> MaxControls]

Spend(b) == budget[b] > 0 /\ budget' = [budget EXCEPT ![b] = @ - 1]

MaxOf(S) == CHOOSE x \in S : \A y \in S : y <= x

-----------------------------------------------------------------------------
(* Filters and metadata *)

\* runMetaCache.put: FIFO eviction at the limit.
MetaPut(m, r) ==
    IF Contains(m, r) THEN m
    ELSE Append(IF Len(m) >= MetaLimit THEN Tail(m) ELSE m, r)

\* lookup: the cache, else Runs().Get; on a store error the zero runMeta.
Meta(c, r) == IF Contains(c.meta, r) \/ dbUp THEN DefOf[r] ELSE "none"

NeedsMeta(f) == f.def # AnyDef

WantsRun(f, r, m) == r \in f.runs /\ (NeedsMeta(f) => m = f.def)

Matches(f, r, s, m) == Script[r][s] \in f.types /\ WantsRun(f, r, m)

AnySubWantsRun(c, r) ==
    \E i \in DOMAIN c.subs : WantsRun(c.subs[i].filter, r, Meta(c, r))

\* A lookup that reached the store leaves the run in the cache.
MetaAfterLookup(c, r) ==
    IF dbUp /\ \E i \in DOMAIN c.subs : NeedsMeta(c.subs[i].filter) /\ r \in c.subs[i].filter.runs
    THEN MetaPut(c.meta, r) ELSE c.meta

-----------------------------------------------------------------------------
(* Tails *)

\* deliverEvent for the events after `from` up to `upto`: each is sent once,
\* tagged with the subscriptions it matches.
Sent(c, r, from, upto) ==
    [i \in SubIds |-> c.got[i] \union
        {<<r, s>> : s \in {q \in from+1..upto :
            i \in DOMAIN c.subs /\ Matches(c.subs[i].filter, r, q, Meta(c, r))}}]

\* The Tailer's cursor advances whether or not an event matched.
DeliverUpTo(c, r, upto) ==
    IF upto <= c.tails[r].last THEN c
    ELSE [c EXCEPT !.tails[r].last = upto,
                   !.got = Sent(c, r, c.tails[r].last, upto),
                   !.meta = MetaAfterLookup(c, r)]

\* Fault: the live envelope that found a gap is delivered without the backfill.
OfferSkipsGap(c, r, s) == IF s <= c.tails[r].last THEN c
    ELSE LET c2 == [c EXCEPT !.tails[r].last = s - 1] IN DeliverUpTo(c2, r, s)

\* Tailer.Catchup: to the head, or nothing when the read fails.
Catchup(c, r) == IF dbUp THEN DeliverUpTo(c, r, heads[r]) ELSE c

\* Tailer.Offer.
Offer(c, r, s) ==
    LET last == c.tails[r].last IN
    CASE s <= last -> c
      [] s = last + 1 -> DeliverUpTo(c, r, s)
      [] OTHER -> LET c2 == Catchup(c, r) IN
                  IF c2.tails[r].last = s - 1 THEN DeliverUpTo(c2, r, s) ELSE c2

\* markTerminal looks at the envelope that was offered.
MarkTerminal(c, r, s) ==
    IF Script[r][s] \in Terminal THEN [c EXCEPT !.tails[r].terminal = TRUE] ELSE c

Untrack(c, r) == [c EXCEPT !.tails = [x \in DOMAIN @ \ {r} |-> @[x]]]

\* evictOne: the first terminal run in tracking order, else the first run.
EvictOne(c) ==
    LET tracked == {i \in DOMAIN c.order : c.order[i] \in DOMAIN c.tails}
        done == {i \in tracked : c.tails[c.order[i]].terminal}
        pool == IF done # {} THEN done ELSE tracked
        i == CHOOSE i \in pool : \A j \in pool : i <= j IN
    IF pool = {} THEN c
    ELSE [Untrack(c, c.order[i]) EXCEPT !.order = RemoveAt(@, i)]

\* startTailAt, always with the backfill.
StartTailAt(c, r, start) ==
    IF r \in DOMAIN c.tails THEN c
    ELSE LET c1 == IF Cardinality(DOMAIN c.tails) >= MaxTrackedRuns THEN EvictOne(c) ELSE c
             upto == IF dbUp THEN MaxOf({start, heads[r]}) ELSE start
             t == [last |-> upto, terminal |-> FALSE, start |-> start] IN
         [c1 EXCEPT !.tails = [x \in DOMAIN @ \union {r} |-> IF x = r THEN t ELSE @[x]],
                    !.order = Append(@, r),
                    !.got = Sent(c, r, start, upto),
                    !.meta = IF upto > start THEN MetaAfterLookup(c, r) ELSE @]

\* minCursor, and where a discovered run is tailed from.
StartOf(c, r) ==
    LET cs == {c.subs[i].cursors[r] : i \in {j \in DOMAIN c.subs : r \in DOMAIN c.subs[j].cursors}} IN
    IF cs = {} THEN 0 ELSE CHOOSE x \in cs : \A y \in cs : x <= y

\* gcTails: drop the runs no subscription wants.
GcTails(c) ==
    [c EXCEPT !.tails = [r \in {x \in DOMAIN @ : AnySubWantsRun(c, x)} |-> @[r]]]

-----------------------------------------------------------------------------
(* The system around the connection *)

\* The creating transaction of a run commits.  created_at is the time it began,
\* so it may be older than that of a run committed before it.
CreateRun(r) ==
    /\ dbUp /\ heads[r] = 0
    /\ \E t \in 1..Cardinality(Runs) :
          /\ \A x \in Runs : stamp[x] # t
          /\ stamp' = [stamp EXCEPT ![r] = t]
    /\ heads' = [heads EXCEPT ![r] = 1]
    /\ bus' = IF hub.stream THEN bus \union {<<r, 1>>} ELSE bus
    /\ UNCHANGED <<dbUp, hub, inbox, fh, budget>>

\* A later transaction of the run commits its next event and publishes it.
Commit(r) ==
    /\ dbUp /\ heads[r] > 0 /\ heads[r] < Len(Script[r])
    /\ heads' = [heads EXCEPT ![r] = @ + 1]
    /\ bus' = IF hub.stream THEN bus \union {<<r, heads[r] + 1>>} ELSE bus
    /\ UNCHANGED <<stamp, dbUp, hub, inbox, fh, budget>>

\* An envelope under way is lost: a failed publish or a Redis restart.
Lose(e) ==
    /\ e \in bus
    /\ bus' = bus \ {e}
    /\ Spend("faults")
    /\ UNCHANGED <<heads, stamp, dbUp, hub, inbox, fh>>

\* hub.fanout: one envelope into the inbox, or dropped when it is full.  The api
\* and the workers publish independently, so envelopes arrive in any order.
FanOut(e) ==
    /\ e \in bus
    /\ bus' = bus \ {e}
    /\ inbox' = IF fh.open /\ Len(inbox) < HubBuffer THEN Append(inbox, e) ELSE inbox
    /\ UNCHANGED <<heads, stamp, dbUp, hub, fh, budget>>

DbGoesDown ==
    /\ dbUp
    /\ dbUp' = FALSE
    /\ Spend("faults")
    /\ UNCHANGED <<heads, stamp, bus, hub, inbox, fh>>

DbComesBack ==
    /\ ~dbUp
    /\ dbUp' = TRUE
    /\ UNCHANGED <<heads, stamp, bus, hub, inbox, fh, budget>>

\* hub.attach: the first client opens the shared subscription; a failure is not
\* retried until the next client attaches.
Attached(ok) == [hub EXCEPT !.stream = hub.stream \/ ok]

AttachOther(ok) ==
    /\ ~hub.others
    /\ hub' = [Attached(ok) EXCEPT !.others = TRUE]
    /\ Spend("controls")
    /\ UNCHANGED <<heads, stamp, dbUp, bus, inbox, fh>>

\* hub.detach: the last client to leave closes the subscription.
DetachOther ==
    /\ hub.others
    /\ hub' = [stream |-> hub.stream /\ fh.open, others |-> FALSE]
    /\ bus' = IF fh.open THEN bus ELSE {}
    /\ UNCHANGED <<heads, stamp, dbUp, inbox, fh, budget>>

-----------------------------------------------------------------------------
(* The connection's goroutine *)

\* handleEventsWS and the head of run: attach, then decide once whether new
\* runs are found live or by polling.
Open(ok) ==
    /\ ~fh.open
    /\ Spend("controls")
    /\ hub' = Attached(ok)
    /\ fh' = [NoConn EXCEPT !.open = TRUE, !.live = Attached(ok).stream, !.hw = MaxOf({stamp[r] : r \in Runs})]
    /\ inbox' = <<>>
    /\ UNCHANGED <<heads, stamp, dbUp, bus>>

\* run returns: detach.
CloseConn ==
    /\ fh.open
    /\ fh' = NoConn
    /\ inbox' = <<>>
    /\ hub' = [hub EXCEPT !.stream = hub.stream /\ hub.others]
    /\ bus' = IF hub.others THEN bus ELSE {}
    /\ UNCHANGED <<heads, stamp, dbUp, budget>>

\* onSubscribe: install or replace, then backfill the resumed runs that are not
\* tailed yet.  base is what the acknowledgement promises: a run already tailed
\* is continued from where its tail stands.
OnSubscribe(i, q) ==
    /\ fh.open /\ fh.busy = ""
    /\ i \in DOMAIN fh.subs \/ Cardinality(DOMAIN fh.subs) < MaxSubscriptions
    /\ \A r \in DOMAIN q.cursors : q.cursors[r] <= heads[r]   \* a cursor is a seq the client saw
    /\ Spend("controls")
    /\ LET base == [r \in Runs |-> IF r \in DOMAIN fh.tails THEN fh.tails[r].last ELSE 0]
           sub == [filter |-> q.filter, cursors |-> q.cursors, base |-> base]
           c == [fh EXCEPT !.subs = [x \in DOMAIN @ \union {i} |-> IF x = i THEN sub ELSE @[x]],
                           !.got[i] = {}] IN
       \E runs \in SetToAllKPermutations(DOMAIN q.cursors) :
          /\ Len(runs) = Cardinality(DOMAIN q.cursors)
          /\ fh' = FoldLeft(LAMBDA a, r : StartTailAt(a, r, q.cursors[r]), c, runs)
    /\ UNCHANGED <<heads, stamp, dbUp, bus, hub, inbox>>

\* onUnsubscribe.
OnUnsubscribe(i) ==
    /\ fh.open /\ fh.busy = "" /\ i \in DOMAIN fh.subs
    /\ fh' = GcTails([fh EXCEPT !.subs = [x \in DOMAIN @ \ {i} |-> @[x]]])
    /\ UNCHANGED <<heads, stamp, dbUp, bus, hub, inbox, budget>>

\* onLiveEnvelope: discover the run if some subscription wants it, then Offer.
OnLiveEnvelope ==
    /\ fh.open /\ fh.busy = "" /\ inbox # <<>>
    /\ inbox' = Tail(inbox)
    /\ LET r == Head(inbox)[1]
           s == Head(inbox)[2]
           known == IF Script[r][s] = "run_created" THEN MetaPut(fh.meta, r) ELSE fh.meta
           seen == [fh EXCEPT !.meta = known]
           looked == [seen EXCEPT !.meta = MetaAfterLookup(seen, r)]
           c == IF r \in DOMAIN fh.tails THEN fh
                ELSE IF AnySubWantsRun(seen, r) THEN StartTailAt(looked, r, StartOf(fh, r))
                ELSE looked IN
       fh' = IF r \in DOMAIN c.tails THEN MarkTerminal(Offer(c, r, s), r, s) ELSE c
    /\ UNCHANGED <<heads, stamp, dbUp, bus, hub, budget>>

\* The tails resync re-reads, each Catchup'ed to its head.
Healed ==
    LET open == IF dbUp THEN {r \in DOMAIN fh.tails : ~fh.tails[r].terminal} ELSE {}
        upto(r) == IF r \in open THEN MaxOf({fh.tails[r].last, heads[r]}) ELSE fh.tails[r].last IN
    [fh EXCEPT !.tails = [r \in DOMAIN @ |-> [@[r] EXCEPT !.last = upto(r)]],
               !.got = [i \in SubIds |->
                          UNION ({@[i]} \union {Sent(fh, r, fh.tails[r].last, upto(r))[i] : r \in open})],
               !.meta = FoldLeft(LAMBDA m, r : MetaAfterLookup([fh EXCEPT !.meta = m], r), @,
                                 SetToSeq({r \in open : upto(r) > fh.tails[r].last})),
               !.busy = IF fh.live THEN "" ELSE "discover"]

\* The resync timer fires.
ResyncTick ==
    /\ fh.open /\ fh.busy = ""
    /\ fh' = [fh EXCEPT !.busy = "resync"]
    /\ UNCHANGED <<heads, stamp, dbUp, bus, hub, inbox, budget>>

\* resync heals the tails; a connection without a live stream goes on to look
\* for new runs.
Resync ==
    /\ fh.busy = "resync"
    /\ fh' = Healed
    /\ UNCHANGED <<heads, stamp, dbUp, bus, hub, inbox, budget>>

\* discoverNewRuns, the rest of a polling connection's resync: the newest
\* PollLimit runs created since the high-water mark.
DiscoverNewRuns ==
    /\ fh.busy = "discover"
    /\ LET rows == {r \in Runs : heads[r] > 0 /\ stamp[r] >= fh.hw}
           page == {r \in rows : Cardinality({x \in rows : stamp[x] > stamp[r]}) < PollLimit}
           newestFirst == SetToSortSeq(page, LAMBDA x, y : stamp[x] > stamp[y])
           visit(a, r) ==
               LET b == [a EXCEPT !.hw = MaxOf({@, stamp[r]}),
                                  !.meta = IF r \in DOMAIN a.tails THEN @ ELSE MetaPut(@, r)] IN
               IF \E i \in DOMAIN a.subs : WantsRun(a.subs[i].filter, r, DefOf[r])
               THEN StartTailAt(b, r, StartOf(fh, r)) ELSE b
           found == IF dbUp THEN FoldLeft(visit, fh, newestFirst) ELSE fh IN
       fh' = [found EXCEPT !.busy = ""]
    /\ UNCHANGED <<heads, stamp, dbUp, bus, hub, inbox, budget>>

Next ==
    \/ \E r \in Runs : CreateRun(r) \/ Commit(r)
    \/ \E e \in bus : FanOut(e) \/ Lose(e)
    \/ DbGoesDown \/ DbComesBack
    \/ \E ok \in BOOLEAN : AttachOther(ok) \/ Open(ok)
    \/ DetachOther \/ CloseConn
    \/ \E i \in SubIds, q \in Requests : OnSubscribe(i, q)
    \/ \E i \in SubIds : OnUnsubscribe(i)
    \/ OnLiveEnvelope
    \/ ResyncTick \/ Resync \/ DiscoverNewRuns

\* Outages end, the connection's resync timer fires, and the handler it starts
\* returns.  Nothing is assumed of the publishers, Redis or the hub's fan-out.
Fairness == WF_fhVars(DbComesBack) /\ WF_fhVars(ResyncTick) /\ []<>(fh.busy = "")

Spec == Init /\ [][Next]_fhVars
FairSpec == Spec /\ Fairness

-----------------------------------------------------------------------------
(* Properties *)

Events == UNION {{r} \X DOMAIN Script[r] : r \in Runs}

\* Types, and the bounds of the inbox, the subscriptions and the metadata cache.
TypeOK ==
    /\ \A r \in Runs : heads[r] \in 0..Len(Script[r])
    /\ Len(inbox) <= HubBuffer /\ \A k \in DOMAIN inbox : inbox[k] \in Events
    /\ DOMAIN fh.subs \subseteq SubIds /\ Cardinality(DOMAIN fh.subs) <= MaxSubscriptions
    /\ DOMAIN fh.tails \subseteq Runs
    /\ \A r \in DOMAIN fh.tails : fh.tails[r].last \in Nat /\ fh.tails[r].terminal \in BOOLEAN
    /\ Len(fh.meta) <= MetaLimit
    /\ \A i \in SubIds : fh.got[i] \subseteq Events

\* A connection tails at most MaxTrackedRuns runs, and every one of them is in
\* the tracking order, where evictOne can find it.
TrackingBounded ==
    /\ Cardinality(DOMAIN fh.tails) <= MaxTrackedRuns
    /\ \A r \in DOMAIN fh.tails : Contains(fh.order, r)

\* A subscription without a definition filter has been sent every event of a
\* tailed run that matches it, from where the tail started or stood when the
\* subscription was acknowledged up to the tail's cursor: lost publishes,
\* inbox overflow, outages and evictions leave no hole behind a tail.
NoHoleBehindTail ==
    \A i \in DOMAIN fh.subs, r \in DOMAIN fh.tails :
        LET sub == fh.subs[i]
            from == MaxOf({sub.base[r], fh.tails[r].start}) IN
        ~NeedsMeta(sub.filter) =>
            \A s \in from+1..fh.tails[r].last :
                Matches(sub.filter, r, s, DefOf[r]) => <<r, s>> \in fh.got[i]

\* The subscription is open exactly while some client of the process needs it;
\* a connection that decided to rely on it never loses it to another's detach.
StreamOutlivesItsClients ==
    /\ hub.stream => (fh.open \/ hub.others)
    /\ (fh.open /\ fh.live) => hub.stream

\* Whatever is lost, a tail that is not marked terminal reaches the run's head.
TailsHeal ==
    \A r \in Runs :
        <>[](r \in DOMAIN fh.tails => fh.tails[r].terminal \/ fh.tails[r].last = heads[r])
=============================================================================
