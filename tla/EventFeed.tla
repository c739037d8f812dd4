------------------------------ MODULE EventFeed ------------------------------
(***************************************************************************)
(* The event feed of ONE run, from the committed transaction to the client *)
(* of GET /v1/runs/{id}/ws.                                                *)
(*                                                                         *)
(* A transaction appends events with the next sequence numbers of the run  *)
(* (store/tx.go); after the commit it hands them to the process's          *)
(* Publisher, which PUBLISHes them on Redis pub/sub as a latency hint that *)
(* may be lost at every stage.  A connection (api/ws.go) sends a snapshot, *)
(* subscribes, reads the events table from the client's cursor to the head *)
(* and then tails: live messages go through the Tailer, and a periodic     *)
(* resync re-reads the table.  Frames travel through a bounded buffer that *)
(* one writer drains; a client that keeps it full is closed with 4001.     *)
(* The client is the repository's RunStream (web/lib/engine-client) or, by *)
(* ClientRule, the one docs/api.md describes.                              *)
(*                                                                         *)
(* Payloads are abstracted: an event is its sequence number.               *)
(***************************************************************************)
EXTENDS Naturals, Sequences, FiniteSets

CONSTANTS
    Procs,        \* processes that append events (api, workers)
    MaxSeq,       \* bound on the events of the run
    Buffer,       \* Publisher queue length, in batches
    PageSize,     \* rows of one backfill page
    SendBuffer,   \* frames of one connection's outbound buffer
    MaxFaults,    \* bound on lost publishes, crashes, failed reads, dropped sockets
    ClientRule    \* "contiguous" (RunStream) or "highest" (docs/api.md)

FeedConstants ==
    /\ MaxSeq \in Nat /\ Buffer \in Nat /\ MaxFaults \in Nat
    /\ PageSize \in Nat \ {0} /\ SendBuffer \in Nat \ {0}
    /\ ClientRule \in {"contiguous", "highest"}

VARIABLES
    head,       \* runs.next_seq: the events 1..head are committed
    committed,  \* batches committed, EventsCommitted not called yet
    queue,      \* queue[p]: p's Publisher channel, a sequence of batches
    wire,       \* messages delivered to the connection's subscription
    conn,       \* the connection driver (wsConn.run and its Tailer)
    send,       \* wsLink.send: frames the writer has not written
    client,     \* last: the cursor it resumes from; got: events it was given
    faults

feedVars == <<head, committed, queue, wire, conn, send, client, faults>>

Seqs == 1..MaxSeq
Batches == [proc: Procs, next: Seqs, hi: Seqs]
Frames == [kind: {"snapshot", "event", "caught_up"}, seq: 0..MaxSeq]
Phases == {"closed", "subscribe", "read", "deliver", "caughtup", "tail", "draining"}

\* tail: Tailer.lastSeq; page: last seq of the rows being delivered; full: the
\* page held PageSize rows, so Catchup reads again; offer: the live seq that
\* found a gap; started: caught_up was sent, the loop runs.
Closed == [pc |-> "closed", live |-> FALSE, tail |-> 0, slow |-> FALSE,
           page |-> 0, full |-> FALSE, offer |-> 0, started |-> FALSE]

Init ==
    /\ head = 0
    /\ committed = {}
    /\ queue = [p \in Procs |-> <<>>]
    /\ wire = <<>>
    /\ conn = Closed
    /\ send = <<>>
    /\ client = [last |-> 0, got |-> {}]
    /\ faults = 0

Fault == faults < MaxFaults /\ faults' = faults + 1

-----------------------------------------------------------------------------
(* store/tx.go and event/pubsub/publisher.go *)

\* WithTx commits a transaction that appended n events: AllocateEventSeq, under
\* the run row's lock, numbered them.
Commit(p, n) ==
    /\ head + n <= MaxSeq
    /\ head' = head + n
    /\ committed' = committed \union {[proc |-> p, next |-> head + 1, hi |-> head + n]}
    /\ UNCHANGED <<queue, wire, conn, send, client, faults>>

\* EventsCommitted: the non-blocking enqueue after the commit, in whatever
\* order the goroutines reach it; a full channel drops the batch.
EventsCommitted(b) ==
    /\ b \in committed
    /\ committed' = committed \ {b}
    /\ queue' = [queue EXCEPT ![b.proc] = IF Len(@) < Buffer THEN Append(@, b) ELSE @]
    /\ UNCHANGED <<head, wire, conn, send, client, faults>>

\* publishBatch PUBLISHes its envelopes one after another; Redis hands each to
\* the subscriptions that exist at that moment.
PublishOne(p, lost) ==
    /\ queue[p] # <<>>
    /\ LET b == Head(queue[p]) IN
       /\ queue' = [queue EXCEPT ![p] =
                      IF b.next < b.hi THEN <<[b EXCEPT !.next = @ + 1]>> \o Tail(@)
                                       ELSE Tail(@)]
       /\ wire' = IF conn.live /\ ~lost THEN Append(wire, b.next) ELSE wire
    /\ IF lost THEN Fault ELSE faults' = faults
    /\ UNCHANGED <<head, committed, conn, send, client>>

\* A process dies between the commit and the publish (or Close runs out of
\* time): what it had not published is never published.
CrashPublisher(p) ==
    /\ \/ queue[p] # <<>>
       \/ \E b \in committed : b.proc = p
    /\ committed' = {b \in committed : b.proc # p}
    /\ queue' = [queue EXCEPT ![p] = <<>>]
    /\ Fault
    /\ UNCHANGED <<head, wire, conn, send, client>>

-----------------------------------------------------------------------------
(* The connection driver: api/ws.go over event/pubsub/tail.go *)

\* handleRunWS: snapshot loaded, socket upgraded, the snapshot frame queued.
Connect ==
    /\ conn.pc = "closed"
    /\ conn' = [Closed EXCEPT !.pc = "subscribe", !.tail = client.last]
    /\ send' = <<[kind |-> "snapshot", seq |-> 0]>>
    /\ UNCHANGED <<head, committed, queue, wire, client, faults>>

\* SubscribeRun is confirmed before the backfill starts; a failure leaves the
\* connection on polling.
Subscribe(ok) ==
    /\ conn.pc = "subscribe"
    /\ conn' = [conn EXCEPT !.pc = "read", !.live = ok]
    /\ wire' = <<>>
    /\ IF ok THEN faults' = faults ELSE Fault
    /\ UNCHANGED <<head, committed, queue, send, client>>

\* Catchup's EventsAfter: one page of rows after the Tailer's cursor.
ReadPage ==
    /\ conn.pc = "read"
    /\ LET upto == IF conn.tail + PageSize <= head THEN conn.tail + PageSize ELSE
                   IF conn.tail <= head THEN head ELSE conn.tail IN
       conn' = [conn EXCEPT !.pc = "deliver", !.page = upto,
                            !.full = upto = conn.tail + PageSize]
    /\ UNCHANGED <<head, committed, queue, wire, send, client, faults>>

\* The read fails: fatal before caught_up ("backfill failed"), logged after it.
ReadFails ==
    /\ conn.pc = "read"
    /\ conn' = [conn EXCEPT !.pc = IF conn.started THEN "tail" ELSE "draining",
                            !.offer = 0]
    /\ Fault
    /\ UNCHANGED <<head, committed, queue, wire, send, client>>

\* deliver enqueues one event frame: it waits for room, or gives up after
\* SlowClientTimeout and marks the client slow.  The Tailer advances either way.
Enqueue(f) ==
    IF Len(send) < SendBuffer
    THEN send' = Append(send, f) /\ conn' = [conn EXCEPT !.tail = f.seq]
    ELSE send' = send /\ conn' = [conn EXCEPT !.tail = f.seq, !.slow = TRUE]

Deliver ==
    /\ conn.pc = "deliver" /\ conn.tail < conn.page
    /\ Enqueue([kind |-> "event", seq |-> conn.tail + 1])
    /\ UNCHANGED <<head, committed, queue, wire, client, faults>>

\* Fault: the check of the slow flag between the backfill and caught_up is lost.
PageDoneDespiteSlow ==
    /\ conn.pc = "deliver" /\ conn.tail = conn.page
    /\ conn' = [conn EXCEPT !.offer = 0,
                  !.pc = IF conn.full THEN "read" ELSE IF conn.started THEN "tail" ELSE "caughtup"]
    /\ UNCHANGED <<head, committed, queue, wire, send, client, faults>>

\* The page is delivered: read on after a full page; otherwise Catchup (or the
\* one-row delivery of Offer) returns.  Offer then re-evaluates its envelope;
\* the first Catchup is followed by caught_up unless the client went slow.
PageDone ==
    /\ conn.pc = "deliver" /\ conn.tail = conn.page
    /\ conn' =
        IF conn.full THEN [conn EXCEPT !.pc = "read"]
        ELSE IF conn.started
        THEN IF conn.offer = conn.tail + 1
             THEN [conn EXCEPT !.page = conn.tail + 1, !.offer = 0]
             ELSE [conn EXCEPT !.pc = "tail", !.offer = 0]
        ELSE [conn EXCEPT !.pc = IF conn.slow THEN "draining" ELSE "caughtup"]
    /\ UNCHANGED <<head, committed, queue, wire, send, client, faults>>

\* The caught_up frame; a client that is slow now is closed.
CaughtUp ==
    /\ conn.pc = "caughtup"
    /\ IF Len(send) < SendBuffer
       THEN /\ send' = Append(send, [kind |-> "caught_up", seq |-> conn.tail])
            /\ conn' = [conn EXCEPT !.pc = "tail", !.started = TRUE]
       ELSE /\ send' = send
            /\ conn' = [conn EXCEPT !.pc = "draining", !.slow = TRUE]
    /\ UNCHANGED <<head, committed, queue, wire, client, faults>>

\* One live envelope through Tailer.Offer: a duplicate is dropped, the next one
\* delivered, a gap starts a Catchup.
Offer ==
    /\ conn.pc = "tail" /\ ~conn.slow /\ conn.live /\ wire # <<>>
    /\ LET s == Head(wire) IN
       conn' = IF s <= conn.tail THEN conn
               ELSE IF s = conn.tail + 1
               THEN [conn EXCEPT !.pc = "deliver", !.page = s, !.full = FALSE]
               ELSE [conn EXCEPT !.pc = "read", !.offer = s]
    /\ wire' = Tail(wire)
    /\ UNCHANGED <<head, committed, queue, send, client, faults>>

\* Fault: only a connection without a live subscription re-reads the table.
ResyncPollOnly ==
    /\ conn.pc = "tail" /\ ~conn.slow /\ ~conn.live
    /\ conn' = [conn EXCEPT !.pc = "read"]
    /\ UNCHANGED <<head, committed, queue, wire, send, client, faults>>

\* resyncT fires: Catchup from the cursor.
Resync ==
    /\ conn.pc = "tail" /\ ~conn.slow
    /\ conn' = [conn EXCEPT !.pc = "read"]
    /\ UNCHANGED <<head, committed, queue, wire, send, client, faults>>

\* The subscription's channel closes: live = nil, the resync timer goes on.
LiveCloses ==
    /\ conn.pc = "tail" /\ ~conn.slow /\ conn.live
    /\ conn' = [conn EXCEPT !.live = FALSE]
    /\ wire' = <<>>
    /\ Fault
    /\ UNCHANGED <<head, committed, queue, send, client>>

\* The loop sees the slow flag: finish stops feeding and lets the writer drain.
SlowClose ==
    /\ conn.pc = "tail" /\ conn.slow
    /\ conn' = [conn EXCEPT !.pc = "draining"]
    /\ UNCHANGED <<head, committed, queue, wire, send, client, faults>>

-----------------------------------------------------------------------------
(* The writer, the socket and the client *)

Close == conn' = Closed /\ send' = <<>> /\ wire' = <<>>

\* What the client does with a frame: RunStream drops a duplicate, takes the
\* next event, and on a gap reconnects with its cursor; the documented client
\* takes whatever is above the highest seq it saw.
Gap(f) == ClientRule = "contiguous" /\ f.kind = "event" /\ f.seq > client.last + 1

Received(f) ==
    IF f.seq <= client.last THEN client
    ELSE CASE f.kind = "event" -> [last |-> f.seq, got |-> client.got \union {f.seq}]
           [] f.kind = "caught_up" -> [client EXCEPT !.last = f.seq]
           [] OTHER -> client

\* Fault: a client that meets a gap starts over from the beginning.
WriteFrameStartsOver ==
    /\ conn.pc # "closed" /\ send # <<>>
    /\ LET f == Head(send) IN
       IF Gap(f) THEN Close /\ client' = [last |-> 0, got |-> {}]
       ELSE /\ client' = Received(f)
            /\ send' = Tail(send)
            /\ UNCHANGED <<conn, wire>>
    /\ UNCHANGED <<head, committed, queue, faults>>

\* writeLoop writes one frame and the client handles it.
WriteFrame ==
    /\ conn.pc # "closed" /\ send # <<>>
    /\ LET f == Head(send) IN
       IF Gap(f) THEN Close /\ client' = client
       ELSE /\ client' = Received(f)
            /\ send' = Tail(send)
            /\ UNCHANGED <<conn, wire>>
    /\ UNCHANGED <<head, committed, queue, faults>>

\* The drained connection is closed (4001, or an internal error).
Finish ==
    /\ conn.pc = "draining" /\ send = <<>>
    /\ Close
    /\ UNCHANGED <<head, committed, queue, client, faults>>

\* The peer, the network or the server goes away; buffered frames are lost.
Disconnect ==
    /\ conn.pc # "closed"
    /\ Close
    /\ Fault
    /\ UNCHANGED <<head, committed, queue, client>>

Driver ==
    \/ Subscribe(TRUE) \/ ReadPage \/ Deliver \/ PageDone \/ CaughtUp
    \/ Offer \/ Resync \/ SlowClose \/ Finish

Next ==
    \/ \E p \in Procs, n \in 1..2 : Commit(p, n)
    \/ \E b \in committed : EventsCommitted(b)
    \/ \E p \in Procs, lost \in BOOLEAN : PublishOne(p, lost)
    \/ \E p \in Procs : CrashPublisher(p)
    \/ Connect
    \/ Subscribe(FALSE)
    \/ ReadFails
    \/ LiveCloses
    \/ Disconnect
    \/ WriteFrame
    \/ Driver

\* The driver goroutine, the writer goroutine and the client's reconnect loop
\* keep running.  Nothing is assumed of the publishers or of Redis.
Fairness == WF_feedVars(Driver) /\ WF_feedVars(WriteFrame) /\ WF_feedVars(Connect)

Spec == Init /\ [][Next]_feedVars
FairSpec == Spec /\ Fairness

-----------------------------------------------------------------------------
(* Properties *)

\* Every variable stays in its type, every buffer within its capacity.
TypeOK ==
    /\ head \in 0..MaxSeq
    /\ committed \in SUBSET Batches
    /\ queue \in [Procs -> Seq(Batches)]
    /\ \A p \in Procs : Len(queue[p]) <= Buffer
    /\ wire \in Seq(Seqs)
    /\ conn \in [pc: Phases, live: BOOLEAN, tail: 0..MaxSeq, slow: BOOLEAN,
                 page: 0..MaxSeq, full: BOOLEAN, offer: 0..MaxSeq, started: BOOLEAN]
    /\ send \in Seq(Frames) /\ Len(send) <= SendBuffer
    /\ client \in [last: 0..MaxSeq, got: SUBSET Seqs]
    /\ faults \in 0..MaxFaults

\* Whatever was lost on the way, the client has been given every event up to the
\* cursor it would resume from.  A caught_up frame that overtakes an event, or a
\* cursor moved past an undelivered one, breaks it.
GivenUpToCursor == client.got = 1..client.last

EventSeqs == {send[i].seq : i \in {j \in DOMAIN send : send[j].kind = "event"}}

\* While no enqueue has timed out, the event frames on their way to the client
\* and the ones it has are together exactly the prefix the Tailer has
\* delivered: in order, without a hole and without a repeat.
InFlightIsPrefix ==
    (conn.pc # "closed" /\ ~conn.slow) =>
        /\ client.last <= conn.tail
        /\ EventSeqs = (client.last + 1)..conn.tail
        /\ \A i, j \in DOMAIN send :
              (i < j /\ send[i].kind = "event" /\ send[j].kind = "event")
                 => send[i].seq < send[j].seq

\* A client that resumes as RunStream does, from the last event that followed the
\* one before it, was given every event up to its cursor, and unless a send timed
\* out, the frames under way are the Tailer's prefix.  (Not so for one that resumes
\* from the highest seq it saw, docs/api.md:759-761: a send that times out is
\* skipped by the Tailer, and the next one passes it.)
MissesNothing == TypeOK /\ GivenUpToCursor /\ InFlightIsPrefix

\* However many publishes are lost, once the run appends no more the client
\* reaches the head of the log and stays there: resync, not pub/sub, is what
\* delivers.
ClientBecomesCurrent == <>[](client.last = head)

\* The abstract feed: the log grows, and the client is given the next event.
Feed == INSTANCE OrderedFeed WITH log <- head, seen <- client.last
ImplementsOrderedFeed == Feed!Spec
=============================================================================
