--------------------------- MODULE ConsumerGroup ---------------------------
(***************************************************************************)
(* internal/queue: the consumers of one Redis stream and group.  Each runs *)
(* a single loop that reads batches, reclaims lapsed leases, collects      *)
(* orphan consumer records and trims the stream; entries in hand are       *)
(* handled one after the other, only the one being handled is heartbeaten. *)
(* Every call to Redis is a step of its own, and a process may crash, be   *)
(* stopped gracefully or stall between any two.                            *)
(*                                                                         *)
(* Redis itself is modelled from the commands the package uses: ids are    *)
(* 1, 2, ...; a pending entry has an owner, an idle time and a delivery    *)
(* count.  Idle times are in ticks and stop growing at the thresholds      *)
(* they are compared with.                                                 *)
(***************************************************************************)
EXTENDS Integers, Sequences, FiniteSets, SequencesExt

CONSTANTS
    Consumers,        \* consumer names
    MaxId,            \* bound: entries added to the stream
    Malformed,        \* ids whose envelope does not decode
    Batch,
    LeaseTTL,         \* in ticks of one HeartbeatInterval, jitter included, rounded down
    JanitorIdle,      \* JanitorIdleThreshold, in ticks
    PoisonThreshold,
    LongSilence,      \* a live process may send nothing to Redis for JanitorIdle
    MaxFaults,        \* bound: crashes, shutdowns, stalls, failed calls and callbacks
    None

ASSUME ConsumerAssumption ==
    /\ MaxId \in Nat /\ Malformed \subseteq 1..MaxId
    /\ Batch \in Nat \ {0} /\ PoisonThreshold \in Nat \ {0}
    /\ LeaseTTL \in Nat \ {0, 1} /\ JanitorIdle \in Nat /\ JanitorIdle > LeaseTTL
    /\ LongSilence \in BOOLEAN /\ MaxFaults \in Nat
    /\ None \notin Consumers /\ None \notin 0..JanitorIdle

Ids == 1..MaxId

VARIABLES
    added,      \* ids 1..added have been added
    trimmed,    \* ids below it are trimmed
    delivered,  \* the group's last-delivered-id
    pel,        \* the pending-entries list
    seen,       \* idle time of each registered consumer, None if not registered
    proc,       \* the consumer processes
    acked,      \* ids that some XACK removed from the pending list
    faults

redis == <<added, trimmed, delivered, pel, seen, acked>>
vars == <<added, trimmed, delivered, pel, seen, proc, acked, faults>>

NotPending == [owner |-> None, idle |-> 0, count |-> 0]

\* pc: where the loop is.  hand: the entries it still owes a disposition, with
\* their delivery counts.  cursor: reclaimCursor.  orphans, minId: what XINFO and
\* XPENDING answered.  trimDue: nextTrim is past.  stop: whether ctx, and then the
\* work context, is cancelled.
\* beating: "off", or whether the heartbeater's next call is due in this tick.
\* stopped: the process does not get to run.
\* held: how many ticks the lease is sure to outlast with no further success: since a
\* heartbeat found the entry owned, less the calls that failed; 0 after a stop.
Fresh == [pc |-> "loop", hand |-> <<>>, cursor |-> 1, orphans |-> {}, minId |-> 1, trimDue |-> FALSE,
          stop |-> "no", beating |-> "off", stopped |-> FALSE, held |-> 0]

Down == [Fresh EXCEPT !.pc = "down"]

Init ==
    /\ added = 0 /\ trimmed = 1 /\ delivered = 0
    /\ pel = [i \in Ids |-> NotPending]
    /\ seen = [c \in Consumers |-> None]
    /\ proc = [c \in Consumers |-> Fresh]
    /\ acked = {}
    /\ faults = 0

Pending == {i \in Ids : pel[i].owner # None}
OwnedBy(c) == {i \in Ids : pel[i].owner = c}
Lesser(a, b) == IF a < b THEN a ELSE b
Least(S) == CHOOSE n \in S : \A m \in S : n <= m

\* c may take a step of its loop at pc.
At(c, pc) == proc[c].pc = pc /\ ~proc[c].stopped

Fault == faults < MaxFaults /\ faults' = faults + 1

Becomes(c, r) == proc' = [proc EXCEPT ![c] = r]
Go(c, pc) == Becomes(c, [proc[c] EXCEPT !.pc = pc])

Enqueue ==
    /\ added < MaxId /\ added' = added + 1
    /\ UNCHANGED <<trimmed, delivered, pel, seen, proc, acked, faults>>

-----------------------------------------------------------------------------
(* Reads and reclaims.                                                     *)

Leased(c, S, count) ==
    [i \in Ids |-> IF i \in S THEN [owner |-> c, idle |-> 0, count |-> count[i]] ELSE pel[i]]

\* XREADGROUP > COUNT Batch: the group hands c the next entries.
Read(c) ==
    LET last == Lesser(delivered + Batch, added)
    IN  /\ At(c, "loop") /\ proc[c].stop = "no" /\ delivered < added
        /\ delivered' = last
        /\ pel' = Leased(c, (delivered + 1)..last, [i \in Ids |-> 1])
        /\ seen' = [seen EXCEPT ![c] = 0]
        /\ UNCHANGED <<added, trimmed, acked>>

ReadGroup(c) ==
    /\ Read(c)
    /\ Becomes(c, [proc[c] EXCEPT !.pc = "work",
                                  !.hand = [k \in 1..(delivered' - delivered) |-> <<delivered + k, 1>>]])
    /\ UNCHANGED faults

\* The reply is lost and the loop backs off: c owns entries it does not know of.
ReadFails(c) == Fault /\ Read(c) /\ UNCHANGED proc

\* Bound: counts stop at the first that is poison.
Counted == [i \in Ids |-> Lesser(pel[i].count + 1, PoisonThreshold + 1)]

\* XAUTOCLAIM from the cursor: the first Batch entries whose lease lapsed.
Lapsed(c) == {i \in Pending : i >= proc[c].cursor /\ pel[i].idle >= LeaseTTL}

Claimed(c) == {i \in Lapsed(c) : Cardinality({j \in Lapsed(c) : j < i}) < Batch}

\* Fault: the pass does not start over.
CursorNeverWraps(c) ==
    LET after == {i \in Pending : Cardinality(Claimed(c)) = Batch /\ \A j \in Claimed(c) : i > j}
    IN  IF after = {} THEN MaxId + 1 ELSE Least(after)

\* The id after the last one claimed if more are pending, else the start.
NextCursor(c) ==
    LET after == {i \in Pending : Cardinality(Claimed(c)) = Batch /\ \A j \in Claimed(c) : i > j}
    IN  IF after = {} THEN 1 ELSE Least(after)

\* The first call of reclaimTick.
AutoClaim(c) ==
    /\ At(c, "loop") /\ proc[c].stop = "no"
    /\ Claimed(c) # {} \/ proc[c].cursor # 1
    /\ pel' = Leased(c, Claimed(c), Counted)
    /\ seen' = [seen EXCEPT ![c] = 0]
    /\ Becomes(c, [proc[c] EXCEPT !.pc = IF Claimed(c) = {} THEN "loop" ELSE "counts",
                                  !.cursor = NextCursor(c),
                                  !.hand = [k \in 1..Cardinality(Claimed(c)) |->
                                               <<SetToSortSeq(Claimed(c), <)[k], 0>>]])
    /\ UNCHANGED <<added, trimmed, delivered, acked, faults>>

\* deliveryCounts: an entry acknowledged in between has no count and is left out.
DeliveryCounts(c) ==
    LET isPending(m) == m[1] \in Pending
        withCount(m) == <<m[1], pel[m[1]].count>>
        still == SelectSeq(proc[c].hand, isPending)
    IN  /\ At(c, "counts")
        /\ Becomes(c, [proc[c] EXCEPT !.pc = "work",
                                      !.hand = [k \in 1..Len(still) |-> withCount(still[k])]])
        /\ UNCHANGED <<redis, faults>>

\* The lookup fails, as it does once ctx is cancelled: the entries wait for their
\* leases to lapse again.
CountsFail(c) ==
    /\ Fault
    /\ At(c, "counts")
    /\ Becomes(c, [proc[c] EXCEPT !.pc = "loop", !.hand = <<>>])
    /\ UNCHANGED redis

-----------------------------------------------------------------------------
(* deliver and process.                                                    *)

InHand(c) == Head(proc[c].hand)[1]

\* The loop is done with the entry at the head.
NextInHand(c) == [proc[c] EXCEPT !.pc = "work", !.hand = Tail(@), !.beating = "off", !.held = 0]

HandEmpty(c) ==
    /\ At(c, "work") /\ proc[c].hand = <<>>
    /\ Go(c, "loop")
    /\ UNCHANGED <<redis, faults>>

\* Past the drain deadline an entry is left untouched.
Abandon(c) ==
    /\ At(c, "work") /\ proc[c].hand # <<>> /\ proc[c].stop = "expired"
    /\ Becomes(c, NextInHand(c))
    /\ UNCHANGED <<redis, faults>>

IsPoison(c) == Head(proc[c].hand)[2] > PoisonThreshold

\* The handler starts, and with it the heartbeater; an envelope that does not
\* decode goes back unhandled.
Process(c) ==
    /\ At(c, "work") /\ proc[c].hand # <<>> /\ proc[c].stop # "expired" /\ ~IsPoison(c)
    /\ Becomes(c, IF InHand(c) \in Malformed THEN NextInHand(c)
                  ELSE [proc[c] EXCEPT !.pc = "handle", !.beating = "wait"])
    /\ UNCHANGED <<redis, faults>>

\* Fault: without a look at the owner, a process that comes back takes the lease again.
HeartbeatUnguarded(c) ==
    /\ At(c, "handle") /\ proc[c].beating # "off"
    /\ IF InHand(c) \in Pending
       THEN /\ pel' = [pel EXCEPT ![InHand(c)].idle = 0, ![InHand(c)].owner = c]
            /\ seen' = [seen EXCEPT ![c] = 0]
            /\ Becomes(c, [proc[c] EXCEPT !.beating = "wait", !.held = LeaseTTL - 1])
       ELSE Becomes(c, [proc[c] EXCEPT !.beating = "off", !.held = 0]) /\ UNCHANGED <<pel, seen>>
    /\ UNCHANGED <<added, trimmed, delivered, acked, faults>>

\* heartbeatScript: XCLAIM JUSTID of an entry c still owns, which leaves the count
\* alone; otherwise the heartbeater stops and the handler goes on.
Heartbeat(c) ==
    /\ At(c, "handle") /\ proc[c].beating # "off"
    /\ IF InHand(c) \in OwnedBy(c)
       THEN /\ pel' = [pel EXCEPT ![InHand(c)].idle = 0]
            /\ seen' = [seen EXCEPT ![c] = 0]
            /\ Becomes(c, [proc[c] EXCEPT !.beating = "wait", !.held = LeaseTTL - 1])
       ELSE Becomes(c, [proc[c] EXCEPT !.beating = "off", !.held = 0]) /\ UNCHANGED <<pel, seen>>
    /\ UNCHANGED <<added, trimmed, delivered, acked, faults>>

\* The call fails before it reaches Redis, and the heartbeater goes on.  (One that
\* fails after Redis ran it differs from a success only in what the process knows.)
HeartbeatFails(c) ==
    /\ Fault
    /\ At(c, "handle") /\ proc[c].beating = "due"
    /\ Becomes(c, [proc[c] EXCEPT !.beating = "wait", !.held = IF @ > 0 THEN @ - 1 ELSE 0])
    /\ UNCHANGED redis

\* Fault: the loop moves on before it acknowledges.
HandlerReturnsEarly(c) ==
    /\ At(c, "handle")
    /\ Becomes(c, [proc[c] EXCEPT !.pc = "ack", !.hand = Tail(@), !.beating = "off", !.held = 0])
    /\ UNCHANGED <<redis, faults>>

\* nil: on to the acknowledgement.  divertPoison's callback likewise.
HandlerReturns(c) ==
    /\ At(c, "handle")
    /\ Becomes(c, [proc[c] EXCEPT !.pc = "ack", !.beating = "off", !.held = 0])
    /\ UNCHANGED <<redis, faults>>

\* An error, a panic, or the cancelled work context.
HandlerFails(c) ==
    /\ At(c, "handle")
    /\ Becomes(c, NextInHand(c))
    /\ UNCHANGED <<redis, faults>>

\* divertPoison: the callback dead-letters the step and the entry is acknowledged.
DivertPoison(c) ==
    /\ At(c, "work") /\ proc[c].hand # <<>> /\ proc[c].stop # "expired" /\ IsPoison(c)
    /\ Go(c, "ack")
    /\ UNCHANGED <<redis, faults>>

\* The callback fails, or there is none: the entry stays pending.
DivertFails(c) ==
    /\ Fault
    /\ At(c, "work") /\ proc[c].hand # <<>> /\ proc[c].stop # "expired" /\ IsPoison(c)
    /\ Becomes(c, NextInHand(c))
    /\ UNCHANGED redis

\* XACK, whoever owns the entry; it is detached from ctx.
Ack(c) ==
    /\ At(c, "ack")
    /\ pel' = [pel EXCEPT ![InHand(c)] = NotPending]
    /\ acked' = acked \cup {InHand(c)}
    /\ Becomes(c, NextInHand(c))
    /\ UNCHANGED <<added, trimmed, delivered, seen, faults>>

AckFails(c) ==
    /\ Fault
    /\ At(c, "ack")
    /\ Becomes(c, NextInHand(c))
    /\ UNCHANGED redis

-----------------------------------------------------------------------------
(* Janitor and trimmer.                                                    *)

\* XINFO CONSUMERS.
JanitorInfo(c) ==
    LET found == {d \in Consumers \ {c} : seen[d] = JanitorIdle /\ OwnedBy(d) = {}}
    IN  /\ At(c, "loop") /\ proc[c].stop = "no" /\ found # {}
        /\ Becomes(c, [proc[c] EXCEPT !.pc = "janitor", !.orphans = found])
        /\ UNCHANGED <<redis, faults>>

\* XGROUP DELCONSUMER, which drops what d has pending.
Deregister(d) ==
    /\ seen' = [seen EXCEPT ![d] = None]
    /\ pel' = [i \in Ids |-> IF pel[i].owner = d THEN NotPending ELSE pel[i]]

JanitorDelete(c, d) ==
    /\ At(c, "janitor") /\ d \in proc[c].orphans
    /\ Deregister(d)
    /\ Becomes(c, [proc[c] EXCEPT !.orphans = @ \ {d},
                                  !.pc = IF proc[c].orphans = {d} THEN "loop" ELSE "janitor"])
    /\ UNCHANGED <<added, trimmed, delivered, acked, faults>>

\* XINFO GROUPS.
TrimInfo(c) ==
    /\ At(c, "loop") /\ proc[c].stop = "no" /\ proc[c].trimDue
    /\ Becomes(c, [proc[c] EXCEPT !.pc = "trim", !.minId = delivered + 1, !.trimDue = FALSE])
    /\ UNCHANGED <<redis, faults>>

\* Fault: the threshold is the last delivered id, pending or not.
TrimIgnoresPending(c) ==
    /\ At(c, "trim")
    /\ Go(c, "xtrim")
    /\ UNCHANGED <<redis, faults>>

\* XPENDING: the smallest pending id wins.
TrimPending(c) ==
    /\ At(c, "trim")
    /\ Becomes(c, [proc[c] EXCEPT !.pc = "xtrim", !.minId = IF Pending = {} THEN @ ELSE Least(Pending)])
    /\ UNCHANGED <<redis, faults>>

\* XTRIM MINID.
Trim(c) ==
    /\ At(c, "xtrim")
    /\ trimmed' = IF proc[c].minId > trimmed THEN proc[c].minId ELSE trimmed
    /\ Becomes(c, [proc[c] EXCEPT !.pc = "loop", !.minId = 1])
    /\ UNCHANGED <<added, delivered, pel, seen, acked, faults>>

\* A later call of a duty fails, as it does once ctx is cancelled: the duty is over.
DutyFails(c) ==
    /\ Fault
    /\ At(c, "janitor") \/ At(c, "trim") \/ At(c, "xtrim")
    /\ Becomes(c, [proc[c] EXCEPT !.pc = "loop", !.orphans = {}, !.minId = 1])
    /\ UNCHANGED redis

-----------------------------------------------------------------------------
(* Shutdown, crashes and stalls.                                           *)

\* ctx is cancelled: no more reads or duties, entries in hand drain.
Shutdown(c) ==
    /\ Fault
    /\ proc[c].pc # "down" /\ proc[c].stop = "no"
    /\ Becomes(c, [proc[c] EXCEPT !.stop = "drain"])
    /\ UNCHANGED redis

\* The drain watchdog cancels the work context.
DrainExpires(c) ==
    /\ proc[c].pc # "down" /\ proc[c].stop = "drain"
    /\ Becomes(c, [proc[c] EXCEPT !.stop = "expired"])
    /\ UNCHANGED <<redis, faults>>

\* finishShutdown: only a consumer with nothing pending deregisters.  (A failure of
\* either call is a crash at that point.)
FinishShutdown(c) ==
    /\ At(c, "loop") /\ proc[c].stop # "no"
    /\ Becomes(c, IF OwnedBy(c) = {} THEN [proc[c] EXCEPT !.pc = "deregister"] ELSE Down)
    /\ UNCHANGED <<redis, faults>>

DelConsumer(c) ==
    /\ At(c, "deregister")
    /\ Deregister(c)
    /\ Becomes(c, Down)
    /\ UNCHANGED <<added, trimmed, delivered, acked, faults>>

Crash(c) ==
    /\ Fault
    /\ proc[c].pc # "down"
    /\ Becomes(c, Down)
    /\ UNCHANGED redis

\* A new incarnation has a new name: one that neither the group nor a janitor knows.
Start(c) ==
    /\ proc[c].pc = "down" /\ seen[c] = None /\ OwnedBy(c) = {}
    /\ \A d \in Consumers : c \notin proc[d].orphans
    /\ Becomes(c, Fresh)
    /\ UNCHANGED <<redis, faults>>

\* The process is stopped, its heartbeater with it, and continues later.
Stall(c) ==
    /\ Fault
    /\ proc[c].pc # "down" /\ ~proc[c].stopped
    /\ Becomes(c, [proc[c] EXCEPT !.stopped = TRUE, !.held = 0])
    /\ UNCHANGED redis

Resume(c) ==
    /\ proc[c].pc # "down" /\ proc[c].stopped
    /\ Becomes(c, [proc[c] EXCEPT !.stopped = FALSE])
    /\ UNCHANGED <<redis, faults>>

\* Time.  A process waits only in its read and in handlers; its other steps take
\* less than a tick unless it is stopped.  A heartbeater calls in every tick, with
\* or without success.
Punctual(c) ==
    \/ proc[c].stopped \/ proc[c].pc \in {"loop", "down"}
    \/ proc[c].pc = "handle" /\ proc[c].beating # "due"

\* What falls due in a process: its next trim and its next heartbeat.
Ticked(r) ==
    [r EXCEPT !.trimDue = r.pc # "down", !.beating = IF r.beating = "off" THEN "off" ELSE "due"]

\* A consumer that polls is seen by Redis in every tick.
Tick ==
    /\ \A c \in Consumers :
          /\ Punctual(c)
          /\ LongSilence \/ proc[c].pc = "down" \/ At(c, "loop") \/ seen[c] # JanitorIdle - 1
    /\ pel' = [i \in Ids |-> IF i \in Pending THEN [pel[i] EXCEPT !.idle = Lesser(@ + 1, LeaseTTL)] ELSE pel[i]]
    /\ seen' = [c \in Consumers |-> IF seen[c] = None THEN None
                                    ELSE IF At(c, "loop") THEN 0
                                    ELSE Lesser(seen[c] + 1, JanitorIdle)]
    /\ proc' = [c \in Consumers |-> Ticked(proc[c])]
    /\ UNCHANGED <<added, trimmed, delivered, acked, faults>>

\* What the loop starts when it comes round: the duties that are due, and a read.
Poll(c) == ReadGroup(c) \/ AutoClaim(c) \/ JanitorInfo(c) \/ TrimInfo(c)

\* What it then goes through, and the way out.
Finish(c) ==
    \/ DeliveryCounts(c)
    \/ HandEmpty(c) \/ Abandon(c) \/ Process(c)
    \/ HandlerReturns(c) \/ HandlerFails(c) \/ DivertPoison(c) \/ Ack(c)
    \/ \E d \in Consumers : JanitorDelete(c, d)
    \/ TrimPending(c) \/ Trim(c)
    \/ DrainExpires(c) \/ FinishShutdown(c) \/ DelConsumer(c)
    \/ Resume(c)

Next ==
    \/ Enqueue \/ Tick
    \/ \E c \in Consumers :
         \/ Poll(c) \/ Finish(c) \/ Heartbeat(c) \/ Start(c)
         \/ HeartbeatFails(c) \/ ReadFails(c) \/ CountsFail(c) \/ DivertFails(c) \/ AckFails(c) \/ DutyFails(c)
         \/ Shutdown(c) \/ Crash(c) \/ Stall(c)

Spec == Init /\ [][Next]_vars

\* What a loop has begun it finishes, handlers return, time passes, and no duty starves
\* another: the loop runs every one that is due, then reads.
Fairness ==
    /\ SF_vars(Tick)
    /\ SF_vars(\E c \in Consumers : ReadGroup(c))
    /\ SF_vars(\E c \in Consumers : AutoClaim(c))
    /\ \A c \in Consumers : WF_vars(Finish(c))

FairSpec == Spec /\ Fairness

-----------------------------------------------------------------------------
(* Correctness.                                                            *)

\* Types; a process has an entry in hand whenever it handles or acknowledges one.
TypeOK ==
    /\ added \in 0..MaxId /\ trimmed \in 1..(MaxId + 1) /\ delivered \in 0..added
    /\ pel \in [Ids -> [owner : Consumers \cup {None}, idle : 0..LeaseTTL,
                        count : 0..(PoisonThreshold + 1)]]
    /\ seen \in [Consumers -> 0..JanitorIdle \cup {None}]
    /\ acked \subseteq Ids
    /\ \A c \in Consumers :
          /\ proc[c].hand \in Seq(Ids \X (0..(PoisonThreshold + 1)))
          /\ proc[c].pc \in {"handle", "ack"} => proc[c].hand # <<>>

\* No entry is lost: until some handler or poison callback consumed it and it was
\* acknowledged, it is either still to be delivered or pending, and its contents
\* are in the stream.  Reads, reclaims, trims, the janitor, graceful exits and
\* crashes of several consumers, call by call, included.
NothingForgotten ==
    \A i \in 1..added : i \in acked \/ (i >= trimmed /\ (i > delivered \/ i \in Pending))

\* An entry is taken from a live handler only after its heartbeats failed throughout a
\* lease: while one succeeded, the process was not stopped since, and fewer than
\* LeaseTTL - 1 have failed in a row, nobody takes it, not even a former owner that
\* comes back.
HandlerKeepsLease ==
    [][\A c \in Consumers :
          At(c, "handle") /\ proc[c].held > 0 => pel'[InHand(c)].owner \in {c, None}]_vars

\* Every entry is consumed in the end if a consumer is up: handlers may fail on it forever, processes die
\* or exit holding it, but its lease lapses, some consumer's cursor comes round to it,
\* and its rising count takes it to the poison callback.
EntriesSettle ==
    \A i \in Ids : i <= added ~> i \in acked \/ \A c \in Consumers : proc[c].pc = "down"

=============================================================================
