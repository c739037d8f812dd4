----------------------------- MODULE FeedProofs -----------------------------
(***************************************************************************)
(* The feed of a run, for every log, every page and buffer size and every  *)
(* fault budget: whatever pub/sub loses, whenever sockets drop and enqueue *)
(* timeouts strike, RunStream is given every event up to its cursor, in    *)
(* order and once, so the feed implements module OrderedFeed.              *)
(*                                                                         *)
(* The argument is about the send buffer alone.  Its event frames rise and *)
(* lie above the client's cursor (Sent); a caught_up frame stands behind   *)
(* every event that it covers; and unless an enqueue timed out, nothing up *)
(* to the Tailer's cursor is missing (Feeding).  After a timeout a frame   *)
(* may be missing, but then the client meets a gap and reconnects.         *)
(***************************************************************************)
EXTENDS EventFeed, SequenceTheorems, TLAPS

-----------------------------------------------------------------------------
(* The inductive invariant.                                                *)

\* Batches of events that are in the log.
Logged(h) == {b \in Batches : b.next <= b.hi /\ b.hi <= h}

\* The connection's record, when the log has h events.
ConnType(h) == [pc: Phases, live: BOOLEAN, tail: 0..h, slow: BOOLEAN,
                page: 0..h, full: BOOLEAN, offer: 0..h, started: BOOLEAN]

\* The types, with the head of the log as the bound of every sequence number.
FeedTypes ==
    /\ head \in 0..MaxSeq
    /\ committed \in SUBSET Logged(head)
    /\ queue \in [Procs -> Seq(Logged(head))] /\ \A p \in Procs : Len(queue[p]) <= Buffer
    /\ wire \in Seq(1..head)
    /\ conn \in ConnType(head)
    /\ send \in Seq(Frames) /\ Len(send) <= SendBuffer
    /\ client \in [last: 0..head, got: SUBSET Seqs]
    /\ faults \in 0..MaxFaults

\* Event q is among the first n frames.
Among(frames, n, q) == \E j \in 1..n : frames[j].kind = "event" /\ frames[j].seq = q

\* Every event after last and up to s is among the first n frames.
Covered(frames, last, n, s) == \A q \in (last + 1)..s : Among(frames, n, q)

\* What the frames are that a client at last still gets from a Tailer at tail.
Sent(frames, last, tail) ==
    \A i \in 1..Len(frames) :
        /\ frames[i].kind = "event" => last < frames[i].seq /\ frames[i].seq <= tail
        /\ frames[i].kind = "snapshot" => frames[i].seq = 0
        /\ frames[i].kind = "caught_up" => Covered(frames, last, i - 1, frames[i].seq)

\* Event frames rise.
Rising(frames) ==
    \A i, j \in 1..Len(frames) :
        i < j /\ frames[i].kind = "event" /\ frames[j].kind = "event" => frames[i].seq < frames[j].seq

\* What the frames of an open connection are.
Feeding ==
    conn.pc # "closed" =>
        /\ Sent(send, client.last, conn.tail) /\ Rising(send) /\ client.last <= conn.tail
        /\ ~conn.slow => Covered(send, client.last, Len(send), conn.tail)
        /\ conn.pc = "caughtup" => ~conn.slow

FeedInv == FeedTypes /\ Feeding /\ GivenUpToCursor

-----------------------------------------------------------------------------
(* Frames.                                                                 *)

\* A frame at the end leaves the others where they are.
LEMMA AppendFrame ==
    ASSUME NEW fs \in Seq(Frames), NEW f \in Frames, NEW n \in 0..Len(fs)
    PROVE  /\ Append(fs, f) \in Seq(Frames) /\ Len(Append(fs, f)) = Len(fs) + 1
           /\ Append(fs, f)[Len(fs) + 1] = f
           /\ \A i \in 1..Len(fs) : Append(fs, f)[i] = fs[i]
           /\ \A q : Among(Append(fs, f), n, q) <=> Among(fs, n, q)
<1>1. /\ Append(fs, f) \in Seq(Frames) /\ Len(Append(fs, f)) = Len(fs) + 1
      /\ Append(fs, f)[Len(fs) + 1] = f
      /\ \A i \in 1..Len(fs) : Append(fs, f)[i] = fs[i]
  BY AppendProperties
<1>2. 1..n \subseteq 1..Len(fs)
  BY LenProperties
<1> QED
  BY <1>1, <1>2 DEF Among

\* The Tailer delivers the next event.
LEMMA AppendEvent ==
    ASSUME FeedConstants,
           NEW fs \in Seq(Frames), NEW last \in Nat, NEW tail \in Nat, NEW f \in Frames,
           f.kind = "event", f.seq = tail + 1,
           Sent(fs, last, tail), Rising(fs), last <= tail
    PROVE  /\ Sent(Append(fs, f), last, tail + 1) /\ Rising(Append(fs, f))
           /\ Sent(fs, last, tail + 1)
           /\ Covered(fs, last, Len(fs), tail) => Covered(Append(fs, f), last, Len(fs) + 1, tail + 1)
<1> DEFINE gs == Append(fs, f)
<1>1. /\ gs \in Seq(Frames) /\ Len(gs) = Len(fs) + 1 /\ gs[Len(fs) + 1] = f
      /\ \A i \in 1..Len(fs) : gs[i] = fs[i]
      /\ \A n \in 0..Len(fs) : \A q : Among(gs, n, q) <=> Among(fs, n, q)
  BY AppendFrame
<1>2. Len(fs) \in Nat /\ \A i \in 1..Len(fs) : fs[i] \in Frames /\ fs[i].seq \in Nat
  <2>1. \A x \in Frames : x.seq \in Nat
    BY DEF Frames, FeedConstants
  <2> QED
    BY <2>1, ElementOfSeq, LenProperties
<1> HIDE DEF gs
<1>3. \A i \in 1..Len(gs) : i \in 1..Len(fs) \/ i = Len(fs) + 1
  BY <1>1, <1>2
<1>4. \A i \in 1..Len(fs) : Covered(gs, last, i - 1, fs[i].seq) <=> Covered(fs, last, i - 1, fs[i].seq)
  <2> SUFFICES ASSUME NEW i \in 1..Len(fs), NEW q
               PROVE  Among(gs, i - 1, q) <=> Among(fs, i - 1, q)
    BY Zenon DEF Covered
  <2>1. i - 1 \in 0..Len(fs)
    BY <1>2
  <2> QED
    BY <1>1, <2>1
<1>5. Sent(fs, last, tail + 1)
  BY <1>2 DEF Sent
<1>6. Sent(gs, last, tail + 1)
  BY <1>1, <1>2, <1>3, <1>4, <1>5 DEF Sent
<1>7. Rising(gs)
  <2> SUFFICES ASSUME NEW i \in 1..Len(gs), NEW j \in 1..Len(gs), i < j,
                      gs[i].kind = "event", gs[j].kind = "event"
               PROVE  gs[i].seq < gs[j].seq
    BY DEF Rising
  <2>1. i \in 1..Len(fs) /\ gs[i] = fs[i]
    BY <1>1, <1>2
  <2>2. CASE j \in 1..Len(fs)
    BY <1>1, <2>1, <2>2 DEF Rising
  <2>3. CASE j = Len(fs) + 1
    <3>1. fs[i].seq <= tail /\ fs[i].seq \in Nat
      BY <1>2, <2>1 DEF Sent
    <3> QED
      BY <1>1, <2>1, <2>3, <3>1
  <2> QED
    BY <1>3, <2>2, <2>3
<1>8. ASSUME Covered(fs, last, Len(fs), tail)
      PROVE  Covered(gs, last, Len(fs) + 1, tail + 1)
  <2> SUFFICES ASSUME NEW q \in (last + 1)..(tail + 1)
               PROVE  Among(gs, Len(fs) + 1, q)
    BY DEF Covered
  <2>1. CASE q = tail + 1
    BY <1>1, <1>2, <2>1 DEF Among
  <2>2. CASE q # tail + 1
    <3>1. Among(fs, Len(fs), q)
      BY <1>8, <2>2 DEF Covered
    <3> QED
      BY <1>1, <1>2, <3>1 DEF Among
  <2> QED
    BY <2>1, <2>2
<1> QED
  BY <1>5, <1>6, <1>7, <1>8 DEF gs

\* The driver reports that it has caught up.
LEMMA AppendCaughtUp ==
    ASSUME FeedConstants,
           NEW fs \in Seq(Frames), NEW last \in Nat, NEW tail \in Nat, NEW f \in Frames,
           f.kind = "caught_up", f.seq = tail, Covered(fs, last, Len(fs), tail),
           Sent(fs, last, tail), Rising(fs)
    PROVE  /\ Sent(Append(fs, f), last, tail) /\ Rising(Append(fs, f))
           /\ Covered(Append(fs, f), last, Len(fs) + 1, tail)
<1> DEFINE gs == Append(fs, f)
<1>1. /\ gs \in Seq(Frames) /\ Len(gs) = Len(fs) + 1 /\ gs[Len(fs) + 1] = f
      /\ \A i \in 1..Len(fs) : gs[i] = fs[i]
      /\ \A n \in 0..Len(fs) : \A q : Among(gs, n, q) <=> Among(fs, n, q)
  BY AppendFrame
<1>2. Len(fs) \in Nat
  BY LenProperties
<1> HIDE DEF gs
<1>3. \A i \in 1..Len(gs) : i \in 1..Len(fs) \/ i = Len(fs) + 1
  BY <1>1, <1>2
<1>4. \A n \in 0..Len(fs) : \A s : Covered(gs, last, n, s) <=> Covered(fs, last, n, s)
  BY <1>1, Zenon DEF Covered
<1>5. \A i \in 1..Len(fs) : i - 1 \in 0..Len(fs)
  BY <1>2
<1>6. Len(fs) \in 0..Len(fs) /\ (Len(fs) + 1) - 1 = Len(fs)
  BY <1>2
<1>7. Sent(gs, last, tail)
  BY <1>1, <1>2, <1>3, <1>4, <1>5, <1>6 DEF Sent
<1>8. Rising(gs)
  BY <1>1, <1>2, <1>3 DEF Rising
<1>9. Covered(gs, last, Len(fs) + 1, tail)
  <2>1. Covered(gs, last, Len(fs), tail)
    BY <1>4, <1>6
  <2>2. 1..Len(fs) \subseteq 1..(Len(fs) + 1)
    BY <1>2
  <2> QED
    BY <2>1, <2>2, Zenon DEF Covered, Among
<1> QED
  BY <1>7, <1>8, <1>9 DEF gs

\* The client handles the first frame: its cursor moves to the next event, or
\* stays for a frame that is no event.
LEMMA TailFrame ==
    ASSUME FeedConstants,
           NEW fs \in Seq(Frames), fs # <<>>, NEW last \in Nat, NEW tail \in Nat, NEW new \in Nat,
           Sent(fs, last, tail), Rising(fs), last <= tail,
           fs[1].kind = "event" => fs[1].seq = last + 1 /\ new = last + 1,
           fs[1].kind # "event" => new = last
    PROVE  /\ Sent(Tail(fs), new, tail) /\ Rising(Tail(fs)) /\ new <= tail
           /\ Covered(fs, last, Len(fs), tail) => Covered(Tail(fs), new, Len(Tail(fs)), tail)
<1> DEFINE gs == Tail(fs)
<1>1. /\ gs \in Seq(Frames) /\ Len(gs) \in Nat /\ Len(fs) = Len(gs) + 1
      /\ \A i \in 1..Len(gs) : gs[i] = fs[i + 1]
  BY HeadTailProperties, LenProperties
<1>2. \A i \in 1..Len(fs) : fs[i] \in Frames /\ fs[i].seq \in Nat
  <2>1. \A x \in Frames : x.seq \in Nat
    BY DEF Frames, FeedConstants
  <2> QED
    BY <2>1, ElementOfSeq
<1> HIDE DEF gs
<1>3. ASSUME NEW n \in 0..Len(gs), NEW s \in Nat, Covered(fs, last, n + 1, s)
      PROVE  Covered(gs, new, n, s)
  <2> SUFFICES ASSUME NEW q \in (new + 1)..s
               PROVE  Among(gs, n, q)
    BY DEF Covered
  <2>1. q \in (last + 1)..s
    OBVIOUS
  <2>2. PICK j \in 1..(n + 1) : fs[j].kind = "event" /\ fs[j].seq = q
    BY <1>3, <2>1 DEF Covered, Among
  <2>3. j # 1
    BY <2>2
  <2>4. j - 1 \in 1..n /\ j - 1 \in 1..Len(gs) /\ (j - 1) + 1 = j
    BY <1>1, <2>3
  <2>5. gs[j - 1] = fs[j]
    BY <1>1, <2>4
  <2> QED
    BY <2>2, <2>4, <2>5 DEF Among
<1>4. Rising(gs)
  <2> SUFFICES ASSUME NEW i \in 1..Len(gs), NEW j \in 1..Len(gs), i < j,
                      gs[i].kind = "event", gs[j].kind = "event"
               PROVE  gs[i].seq < gs[j].seq
    BY DEF Rising
  <2>1. /\ i + 1 \in 1..Len(fs) /\ j + 1 \in 1..Len(fs) /\ i + 1 < j + 1
        /\ gs[i] = fs[i + 1] /\ gs[j] = fs[j + 1]
    BY <1>1
  <2> QED
    BY <2>1 DEF Rising
<1>5. new <= tail
  BY <1>1 DEF Sent
<1>6. Sent(gs, new, tail)
  <2> SUFFICES ASSUME NEW i \in 1..Len(gs)
               PROVE  /\ gs[i].kind = "event" => new < gs[i].seq /\ gs[i].seq <= tail
                      /\ gs[i].kind = "snapshot" => gs[i].seq = 0
                      /\ gs[i].kind = "caught_up" => Covered(gs, new, i - 1, gs[i].seq)
    BY DEF Sent
  <2>1. /\ i + 1 \in 1..Len(fs) /\ gs[i] = fs[i + 1] /\ 1 \in 1..Len(fs) /\ 1 < i + 1
        /\ i - 1 \in 0..Len(gs) /\ (i + 1) - 1 = (i - 1) + 1
    BY <1>1
  <2>2. fs[i + 1].kind = "event" => new < fs[i + 1].seq
    <3>1. fs[1].seq \in Nat /\ fs[i + 1].seq \in Nat
      BY <1>2, <2>1
    <3> QED
      BY <2>1, <3>1 DEF Rising, Sent
  <2>3. fs[i + 1].kind = "caught_up" => Covered(fs, last, (i - 1) + 1, fs[i + 1].seq)
    BY <2>1 DEF Sent
  <2>4. fs[i + 1].kind = "caught_up" => Covered(gs, new, i - 1, fs[i + 1].seq)
    <3>1. i - 1 \in 0..Len(gs) /\ fs[i + 1].seq \in Nat
      BY <1>2, <2>1
    <3> QED
      BY <1>3, <2>3, <3>1, Zenon
  <2>5. /\ fs[i + 1].kind = "event" => fs[i + 1].seq <= tail
        /\ fs[i + 1].kind = "snapshot" => fs[i + 1].seq = 0
    BY <2>1 DEF Sent
  <2> QED
    BY <2>1, <2>2, <2>4, <2>5
<1>7. Covered(fs, last, Len(fs), tail) => Covered(gs, new, Len(gs), tail)
  BY <1>1, <1>3
<1> QED
  BY <1>4, <1>5, <1>6, <1>7 DEF gs

-----------------------------------------------------------------------------
(* Types.                                                                  *)

\* A longer log only widens the types.
LEMMA LogGrows ==
    ASSUME NEW h \in Nat, NEW k \in Nat, h <= k, k <= MaxSeq, MaxSeq \in Nat
    PROVE  /\ Logged(h) \subseteq Logged(k) /\ 0..h \subseteq 0..k /\ 1..h \subseteq 1..k
           /\ Seq(Logged(h)) \subseteq Seq(Logged(k)) /\ Seq(1..h) \subseteq Seq(1..k)
<1>1. Logged(h) \subseteq Logged(k)
  BY DEF Logged, Batches, Seqs
<1>2. 0..h \subseteq 0..k /\ 1..h \subseteq 1..k
  OBVIOUS
<1> QED
  BY <1>1, <1>2

\* A commit keeps the types.
LEMMA CommitTypes ==
    ASSUME FeedConstants, FeedTypes, NEW p \in Procs, NEW n \in 1..2, Commit(p, n)
    PROVE  FeedTypes'
<1>1. head \in Nat /\ head' \in Nat /\ head' = head + n /\ head <= head' /\ head' <= MaxSeq /\ MaxSeq \in Nat
  BY DEF FeedTypes, FeedConstants, Commit
<1>2. /\ Logged(head) \subseteq Logged(head') /\ 0..head \subseteq 0..head' /\ 1..head \subseteq 1..head'
      /\ Seq(Logged(head)) \subseteq Seq(Logged(head')) /\ Seq(1..head) \subseteq Seq(1..head')
  BY <1>1, LogGrows
<1>3. [proc |-> p, next |-> head + 1, hi |-> head + n] \in Logged(head')
  BY <1>1 DEF Logged, Batches, Seqs
<1>4. committed' \in SUBSET Logged(head')
  BY <1>2, <1>3 DEF Commit, FeedTypes
<1>5. queue' \in [Procs -> Seq(Logged(head'))] /\ \A q \in Procs : Len(queue'[q]) <= Buffer
  BY <1>2 DEF Commit, FeedTypes
<1>6. wire' \in Seq(1..head')
  BY <1>2 DEF Commit, FeedTypes
<1>7. conn' \in ConnType(head')
  BY <1>2 DEF Commit, FeedTypes, ConnType
<1>8. client' \in [last: 0..head', got: SUBSET Seqs]
  BY <1>2 DEF Commit, FeedTypes
<1> QED
  BY <1>1, <1>4, <1>5, <1>6, <1>7, <1>8 DEF Commit, FeedTypes

\* The publishers' steps keep the types.
LEMMA PublisherTypes ==
    ASSUME FeedConstants, FeedTypes,
           \/ \E b \in committed : EventsCommitted(b)
           \/ \E p \in Procs, lost \in BOOLEAN : PublishOne(p, lost)
           \/ \E p \in Procs : CrashPublisher(p)
    PROVE  FeedTypes'
<1>0. MaxSeq \in Nat /\ Buffer \in Nat /\ MaxFaults \in Nat /\ head \in Nat
  BY DEF FeedConstants, FeedTypes
<1>1. ASSUME NEW b \in committed, EventsCommitted(b)
      PROVE  FeedTypes'
  <2>1. b \in Logged(head) /\ b.proc \in Procs
    BY DEF FeedTypes, Logged, Batches
  <2>2. queue[b.proc] \in Seq(Logged(head)) /\ Len(queue[b.proc]) \in Nat
    BY <2>1, LenProperties DEF FeedTypes
  <2>3. /\ Append(queue[b.proc], b) \in Seq(Logged(head))
        /\ Len(Append(queue[b.proc], b)) = Len(queue[b.proc]) + 1
    BY <2>1, <2>2, AppendProperties
  <2>4. queue' \in [Procs -> Seq(Logged(head))] /\ \A q \in Procs : Len(queue'[q]) <= Buffer
    BY <1>0, <1>1, <2>1, <2>2, <2>3 DEF EventsCommitted, FeedTypes
  <2> QED
    BY <1>1, <2>4 DEF EventsCommitted, FeedTypes
<1>2. ASSUME NEW p \in Procs, NEW lost \in BOOLEAN, PublishOne(p, lost)
      PROVE  FeedTypes'
  <2> DEFINE b == Head(queue[p])
             rest == Tail(queue[p])
             b1 == [b EXCEPT !.next = @ + 1]
  <2>1. /\ queue[p] \in Seq(Logged(head)) /\ queue[p] # <<>>
        /\ b \in Logged(head) /\ rest \in Seq(Logged(head)) /\ Len(queue[p]) \in Nat
        /\ Len(rest) = Len(queue[p]) - 1
    BY <1>2, HeadTailProperties, LenProperties DEF FeedTypes, PublishOne
  <2>2. b.next \in 1..head
    BY <1>0, <2>1 DEF Logged, Batches, Seqs
  <2>3. ASSUME b.next < b.hi
        PROVE  /\ <<b1>> \o rest \in Seq(Logged(head))
               /\ Len(<<b1>> \o rest) = Len(queue[p])
    <3>1. b1 \in Logged(head)
      <4> HIDE DEF b
      <4>1. b \in Batches /\ b.next \in Nat /\ b.hi \in Nat /\ b.hi <= head /\ b.hi <= MaxSeq
        BY <1>0, <2>1 DEF Logged, Batches, Seqs
      <4>2. b.next + 1 \in Seqs
        BY <1>0, <2>3, <4>1 DEF Seqs
      <4>3. b1 \in Batches /\ b1.next = b.next + 1 /\ b1.hi = b.hi
        BY <4>1, <4>2, Zenon DEF Batches
      <4> HIDE DEF b1
      <4> QED
        BY <2>3, <4>1, <4>3 DEF Logged
    <3>2. <<b1>> \in Seq(Logged(head)) /\ Len(<<b1>>) = 1
      BY <3>1
    <3> HIDE DEF b1, rest
    <3> QED
      BY <2>1, <3>2, ConcatProperties
  <2>4. queue' = [queue EXCEPT ![p] = IF b.next < b.hi THEN <<b1>> \o rest ELSE rest]
    BY <1>2 DEF PublishOne
  <2>5. wire' \in Seq(1..head)
    <3>1. wire' = Append(wire, b.next) \/ wire' = wire
      BY <1>2 DEF PublishOne
    <3> HIDE DEF b
    <3> QED
      <4>1. wire \in Seq(1..head)
        BY DEF FeedTypes
      <4>2. Append(wire, b.next) \in Seq(1..head)
        BY <2>2, <4>1, AppendProperties, Zenon
      <4> QED
        BY <3>1, <4>1, <4>2, Zenon
  <2>6. faults' \in 0..MaxFaults
    BY <1>0, <1>2 DEF PublishOne, Fault, FeedTypes
  <2> HIDE DEF b, rest, b1
  <2>7. queue' \in [Procs -> Seq(Logged(head))] /\ \A q \in Procs : Len(queue'[q]) <= Buffer
    <3>1. /\ queue \in [Procs -> Seq(Logged(head))] /\ \A q \in Procs : Len(queue[q]) <= Buffer
      BY DEF FeedTypes
    <3>2. Len(rest) <= Buffer
      BY <1>0, <2>1, <3>1
    <3> QED
      BY <2>1, <2>3, <2>4, <3>1, <3>2
  <2> QED
    BY <1>2, <2>5, <2>6, <2>7 DEF PublishOne, FeedTypes
<1>3. ASSUME NEW p \in Procs, CrashPublisher(p)
      PROVE  FeedTypes'
  <2>1. <<>> \in Seq(Logged(head)) /\ Len(<<>>) = 0
    OBVIOUS
  <2>2. queue' \in [Procs -> Seq(Logged(head))] /\ \A q \in Procs : Len(queue'[q]) <= Buffer
    BY <1>0, <1>3, <2>1 DEF CrashPublisher, FeedTypes
  <2> QED
    BY <1>0, <1>3, <2>2 DEF CrashPublisher, FeedTypes, Fault
<1> QED
  BY <1>1, <1>2, <1>3

-----------------------------------------------------------------------------
(* The connection's driver.                                                *)

\* A step that neither sends nor moves the Tailer.
Keeps ==
    /\ UNCHANGED <<send, client>> /\ head <= head'
    /\ conn.pc # "closed" \/ conn' = conn
    /\ conn'.tail = conn.tail /\ conn'.slow = conn.slow
    /\ conn'.pc = "caughtup" => conn.pc = "caughtup" \/ ~conn.slow

\* The steps of the driver that touch neither tail, send buffer nor client keep
\* what the other steps rely on.
LEMMA DriverKeeps ==
    ASSUME FeedConstants, FeedTypes,
           \/ \E ok \in BOOLEAN : Subscribe(ok)
           \/ ReadPage \/ ReadFails \/ PageDone \/ Offer \/ Resync \/ LiveCloses \/ SlowClose
    PROVE  FeedTypes' /\ Keeps
<1>0. /\ head \in Nat /\ conn \in ConnType(head) /\ PageSize \in Nat /\ MaxFaults \in Nat
      /\ faults \in 0..MaxFaults /\ wire \in Seq(1..head) /\ <<>> \in Seq(1..head)
  BY DEF FeedConstants, FeedTypes
<1> DEFINE Moved == /\ conn' \in ConnType(head) /\ conn.pc # "closed"
                    /\ conn'.tail = conn.tail /\ conn'.slow = conn.slow
                    /\ conn'.pc = "caughtup" => ~conn.slow
<1> SUFFICES /\ Moved /\ wire' \in Seq(1..head) /\ faults' \in 0..MaxFaults
             /\ UNCHANGED <<head, committed, queue, send, client>>
  BY <1>0 DEF FeedTypes, Keeps
<1>1. ASSUME NEW ok \in BOOLEAN, Subscribe(ok)
      PROVE  Moved /\ wire' \in Seq(1..head)
  BY <1>0, <1>1, Zenon DEF Subscribe, ConnType, Phases
<1>2. ASSUME ReadPage
      PROVE  Moved /\ wire' \in Seq(1..head)
  <2>1. PICK upto \in 0..head, full \in BOOLEAN :
           conn' = [conn EXCEPT !.pc = "deliver", !.page = upto, !.full = full]
    <3> DEFINE upto == IF conn.tail + PageSize <= head THEN conn.tail + PageSize ELSE
                       IF conn.tail <= head THEN head ELSE conn.tail
               full == upto = conn.tail + PageSize
    <3>1. conn.tail \in 0..head
      BY <1>0, Zenon DEF ConnType
    <3>2. upto \in 0..head
      BY <1>0, <3>1
    <3>3. conn' = [conn EXCEPT !.pc = "deliver", !.page = upto, !.full = full] /\ full \in BOOLEAN
      BY <1>2, Zenon DEF ReadPage
    <3> HIDE DEF upto, full
    <3> QED
      BY <3>2, <3>3, Zenon
  <2> QED
    BY <1>0, <1>2, <2>1, Zenon DEF ReadPage, ConnType, Phases
<1>3. ASSUME ReadFails
      PROVE  Moved /\ wire' \in Seq(1..head)
  <2>1. 0 \in 0..head
    BY <1>0
  <2>2. PICK p \in {"tail", "draining"} : conn' = [conn EXCEPT !.pc = p, !.offer = 0]
    BY <1>3, Zenon DEF ReadFails
  <2> QED
    BY <1>0, <1>3, <2>1, <2>2, Zenon DEF ReadFails, ConnType, Phases
<1>4. ASSUME PageDone
      PROVE  Moved /\ wire' \in Seq(1..head)
  <2>1. 0 \in 0..head
    BY <1>0
  <2>2. \/ conn' = [conn EXCEPT !.pc = "read"]
        \/ conn.offer = conn.tail + 1 /\ conn' = [conn EXCEPT !.page = conn.tail + 1, !.offer = 0]
        \/ conn' = [conn EXCEPT !.pc = "tail", !.offer = 0]
        \/ conn.slow /\ conn' = [conn EXCEPT !.pc = "draining"]
        \/ ~conn.slow /\ conn' = [conn EXCEPT !.pc = "caughtup"]
    BY <1>4, Zenon DEF PageDone
  <2> QED
    BY <1>0, <1>4, <2>1, <2>2, Zenon DEF PageDone, ConnType, Phases
<1>5. ASSUME Offer
      PROVE  Moved /\ wire' \in Seq(1..head)
  <2>1. Head(wire) \in 1..head /\ Tail(wire) \in Seq(1..head)
    BY <1>0, <1>5, HeadTailProperties DEF Offer
  <2>2. Head(wire) \in 0..head
    BY <1>0, <2>1
  <2>3. \/ conn' = conn
        \/ conn' = [conn EXCEPT !.pc = "deliver", !.page = Head(wire), !.full = FALSE]
        \/ conn' = [conn EXCEPT !.pc = "read", !.offer = Head(wire)]
    BY <1>5, Zenon DEF Offer
  <2> QED
    BY <1>0, <1>5, <2>1, <2>2, <2>3, Zenon DEF Offer, ConnType, Phases
<1>6. ASSUME Resync \/ LiveCloses \/ SlowClose
      PROVE  Moved /\ wire' \in Seq(1..head)
  BY <1>0, <1>6, Zenon DEF Resync, LiveCloses, SlowClose, ConnType, Phases
<1>7. faults' \in 0..MaxFaults /\ UNCHANGED <<head, committed, queue, send, client>>
  <2>1. (faults' = faults \/ Fault) /\ UNCHANGED <<head, committed, queue, send, client>>
    BY Zenon DEF Subscribe, ReadPage, ReadFails, PageDone, Offer, Resync, LiveCloses, SlowClose
  <2> QED
    BY <1>0, <2>1 DEF Fault
<1> QED
  BY <1>1, <1>2, <1>3, <1>4, <1>5, <1>6, <1>7, Zenon

\* Such a step keeps what the frames are, and what the client has.
LEMMA KeepsFeeding ==
    ASSUME FeedInv, Keeps
    PROVE  Feeding' /\ GivenUpToCursor'
<1>1. send' = send /\ client' = client /\ conn'.tail = conn.tail /\ conn'.slow = conn.slow
  BY DEF Keeps
<1>2. GivenUpToCursor'
  BY <1>1 DEF FeedInv, GivenUpToCursor
<1>3. ASSUME conn'.pc # "closed"
      PROVE  /\ Sent(send, client.last, conn.tail) /\ Rising(send) /\ client.last <= conn.tail
             /\ ~conn.slow => Covered(send, client.last, Len(send), conn.tail)
             /\ conn'.pc = "caughtup" => ~conn.slow
  BY <1>3, Zenon DEF FeedInv, Feeding, Keeps
<1> QED
  BY <1>1, <1>2, <1>3, Zenon DEF Feeding

-----------------------------------------------------------------------------
(* The steps that open, feed, drain and close a connection.                *)

\* The record of a closed connection has the type.
LEMMA ClosedType ==
    ASSUME NEW h \in Nat
    PROVE  Closed \in ConnType(h) /\ Closed.pc = "closed"
<1>1. 0 \in 0..h
  OBVIOUS
<1> QED
  BY <1>1, Zenon DEF Closed, ConnType, Phases

\* A connection starts its tail where the client stands.
LEMMA ConnectStep ==
    ASSUME FeedConstants, FeedInv, Connect
    PROVE  FeedInv'
<1> DEFINE f == [kind |-> "snapshot", seq |-> 0]
<1>0. /\ head \in Nat /\ MaxSeq \in Nat /\ client.last \in 0..head
      /\ SendBuffer \in Nat /\ 1 <= SendBuffer /\ f \in Frames
  BY DEF FeedInv, FeedTypes, FeedConstants, Frames
<1>1. /\ conn' \in ConnType(head) /\ conn'.tail = client.last /\ conn'.slow = FALSE
      /\ conn'.pc = "subscribe"
  <2>1. Closed \in ConnType(head) /\ Closed.slow = FALSE
    BY <1>0, ClosedType DEF Closed
  <2>2. conn' = [Closed EXCEPT !.pc = "subscribe", !.tail = client.last]
    BY DEF Connect
  <2> QED
    BY <1>0, <2>1, <2>2, Zenon DEF ConnType, Phases
<1>2. send' = <<f>> /\ send' \in Seq(Frames) /\ Len(send') = 1 /\ send'[1] = f
  BY <1>0 DEF Connect
<1>3. FeedTypes'
  <2>1. Len(send') <= SendBuffer
    BY <1>0, <1>2
  <2> QED
    BY <1>1, <1>2, <2>1, Zenon DEF Connect, FeedInv, FeedTypes
<1>4. client' = client /\ GivenUpToCursor'
  BY DEF Connect, FeedInv, GivenUpToCursor
<1>5. Sent(send', client.last, client.last) /\ Rising(send')
  BY <1>2 DEF Sent, Rising
<1>6. Covered(send', client.last, Len(send'), client.last) /\ client.last <= client.last
  BY <1>0 DEF Covered
<1>7. Feeding'
  BY <1>1, <1>4, <1>5, <1>6, Zenon DEF Feeding
<1> QED
  BY <1>3, <1>4, <1>7 DEF FeedInv

\* Delivering an event queues the next one after tail.
LEMMA DeliverStep ==
    ASSUME FeedConstants, FeedInv, Deliver
    PROVE  FeedInv'
<1> DEFINE f == [kind |-> "event", seq |-> conn.tail + 1]
<1>0. /\ head \in Nat /\ MaxSeq \in Nat /\ head <= MaxSeq /\ SendBuffer \in Nat
      /\ send \in Seq(Frames) /\ Len(send) \in Nat /\ conn \in ConnType(head)
      /\ client.last \in Nat
  BY LenProperties DEF FeedInv, FeedTypes, FeedConstants
<1>1. conn.tail \in Nat /\ conn.tail + 1 \in 0..head /\ conn.pc = "deliver"
  <2>1. conn.tail \in 0..head /\ conn.page \in 0..head /\ conn.tail < conn.page /\ conn.pc = "deliver"
    BY <1>0, Zenon DEF Deliver, ConnType
  <2> QED
    BY <1>0, <2>1
<1>2. f \in Frames /\ f.kind = "event" /\ f.seq = conn.tail + 1
  BY <1>0, <1>1 DEF Frames
<1>3. \/ /\ Len(send) < SendBuffer /\ send' = Append(send, f)
         /\ conn' = [conn EXCEPT !.tail = conn.tail + 1]
      \/ send' = send /\ conn' = [conn EXCEPT !.tail = conn.tail + 1, !.slow = TRUE]
  BY DEF Deliver, Enqueue
<1>4. /\ conn' \in ConnType(head) /\ conn'.tail = conn.tail + 1 /\ conn'.pc = "deliver"
      /\ ~conn'.slow => ~conn.slow /\ send' = Append(send, f)
  BY <1>0, <1>1, <1>3, Zenon DEF ConnType
<1> HIDE DEF f
<1>5. send' \in Seq(Frames) /\ Len(send') <= SendBuffer
      /\ (send' = Append(send, f) => Len(send') = Len(send) + 1)
  <2>1. Append(send, f) \in Seq(Frames) /\ Len(Append(send, f)) = Len(send) + 1
    BY <1>0, <1>2, AppendProperties
  <2>2. Len(send) <= SendBuffer
    BY DEF FeedInv, FeedTypes
  <2> QED
    BY <1>0, <1>3, <2>1, <2>2
<1>6. FeedTypes'
  BY <1>4, <1>5, Zenon DEF Deliver, FeedInv, FeedTypes
<1>7. client' = client /\ GivenUpToCursor'
  BY DEF Deliver, FeedInv, GivenUpToCursor
<1>8. /\ Sent(send, client.last, conn.tail) /\ Rising(send) /\ client.last <= conn.tail
      /\ ~conn.slow => Covered(send, client.last, Len(send), conn.tail)
  BY <1>1 DEF FeedInv, Feeding
<1>9. /\ Sent(Append(send, f), client.last, conn.tail + 1) /\ Rising(Append(send, f))
      /\ Sent(send, client.last, conn.tail + 1)
      /\ Covered(send, client.last, Len(send), conn.tail) =>
            Covered(Append(send, f), client.last, Len(send) + 1, conn.tail + 1)
  BY <1>0, <1>1, <1>2, <1>8, AppendEvent
<1>10. client.last <= conn.tail + 1
  BY <1>0, <1>1, <1>8
<1>11. Sent(send', client.last, conn.tail + 1) /\ Rising(send')
  BY <1>3, <1>8, <1>9, Zenon
<1>12. ~conn'.slow => Covered(send', client.last, Len(send'), conn.tail + 1)
  BY <1>4, <1>5, <1>8, <1>9, Zenon
<1>13. Feeding'
  BY <1>4, <1>7, <1>10, <1>11, <1>12, Zenon DEF Feeding
<1> QED
  BY <1>6, <1>7, <1>13 DEF FeedInv

\* caught_up queues a frame no later than tail.
LEMMA CaughtUpStep ==
    ASSUME FeedConstants, FeedInv, CaughtUp
    PROVE  FeedInv'
<1> DEFINE f == [kind |-> "caught_up", seq |-> conn.tail]
<1>0. /\ head \in Nat /\ MaxSeq \in Nat /\ head <= MaxSeq /\ SendBuffer \in Nat
      /\ send \in Seq(Frames) /\ Len(send) \in Nat /\ conn \in ConnType(head)
      /\ client.last \in Nat
  BY LenProperties DEF FeedInv, FeedTypes, FeedConstants
<1>1. conn.tail \in 0..head /\ conn.pc = "caughtup" /\ ~conn.slow
  BY <1>0, Zenon DEF CaughtUp, ConnType, FeedInv, Feeding
<1>2. f \in Frames /\ f.kind = "caught_up" /\ f.seq = conn.tail /\ conn.tail \in Nat
  BY <1>0, <1>1 DEF Frames
<1>3. \/ /\ Len(send) < SendBuffer /\ send' = Append(send, f)
         /\ conn' = [conn EXCEPT !.pc = "tail", !.started = TRUE]
      \/ send' = send /\ conn' = [conn EXCEPT !.pc = "draining", !.slow = TRUE]
  BY DEF CaughtUp
<1>4. /\ conn' \in ConnType(head) /\ conn'.tail = conn.tail /\ conn'.pc \in {"tail", "draining"}
      /\ ~conn'.slow => send' = Append(send, f)
  BY <1>0, <1>1, <1>3, Zenon DEF ConnType, Phases
<1> HIDE DEF f
<1>5. send' \in Seq(Frames) /\ Len(send') <= SendBuffer
      /\ (send' = Append(send, f) => Len(send') = Len(send) + 1)
  <2>1. Append(send, f) \in Seq(Frames) /\ Len(Append(send, f)) = Len(send) + 1
    BY <1>0, <1>2, AppendProperties
  <2>2. Len(send) <= SendBuffer
    BY DEF FeedInv, FeedTypes
  <2> QED
    BY <1>0, <1>3, <2>1, <2>2
<1>6. FeedTypes'
  BY <1>4, <1>5, Zenon DEF CaughtUp, FeedInv, FeedTypes
<1>7. client' = client /\ GivenUpToCursor'
  BY DEF CaughtUp, FeedInv, GivenUpToCursor
<1>8. /\ Sent(send, client.last, conn.tail) /\ Rising(send) /\ client.last <= conn.tail
      /\ Covered(send, client.last, Len(send), conn.tail)
  BY <1>1 DEF FeedInv, Feeding
<1>9. /\ Sent(Append(send, f), client.last, conn.tail) /\ Rising(Append(send, f))
      /\ Covered(Append(send, f), client.last, Len(send) + 1, conn.tail)
  BY <1>0, <1>2, <1>8, AppendCaughtUp
<1>10. Sent(send', client.last, conn.tail) /\ Rising(send')
  BY <1>3, <1>8, <1>9, Zenon
<1>11. ~conn'.slow => Covered(send', client.last, Len(send'), conn.tail)
  BY <1>4, <1>5, <1>9, Zenon
<1>12. Feeding'
  BY <1>4, <1>7, <1>8, <1>10, <1>11, Zenon DEF Feeding
<1> QED
  BY <1>6, <1>7, <1>12 DEF FeedInv

\* Closing a connection drops what it had queued.
LEMMA CloseStep ==
    ASSUME FeedConstants, FeedInv, Close, UNCHANGED <<head, committed, queue, client>>,
           faults' = faults \/ Fault
    PROVE  FeedInv'
<1>0. /\ head \in Nat /\ SendBuffer \in Nat /\ MaxFaults \in Nat /\ faults \in 0..MaxFaults
      /\ <<>> \in Seq(Frames) /\ Len(<<>>) <= SendBuffer /\ <<>> \in Seq(1..head)
  BY DEF FeedInv, FeedTypes, FeedConstants
<1>1. conn' \in ConnType(head) /\ conn'.pc = "closed"
  BY <1>0, ClosedType, Zenon DEF Close
<1>2. faults' \in 0..MaxFaults
  BY <1>0 DEF Fault
<1>3. FeedTypes'
  BY <1>0, <1>1, <1>2, Zenon DEF Close, FeedInv, FeedTypes
<1>4. GivenUpToCursor' /\ Feeding'
  BY <1>1, Zenon DEF FeedInv, GivenUpToCursor, Feeding
<1> QED
  BY <1>3, <1>4 DEF FeedInv

\* What RunStream makes of the first frame of its connection: it takes the next
\* event, drops nothing else of value, and closes on a gap.
FirstFrame(f) ==
    /\ f.kind = "event" => f.seq > client.last /\ f.seq <= conn.tail
    /\ f.kind # "event" => f.seq <= client.last

\* What the first queued frame can be.
LEMMA HeadIsFirst ==
    ASSUME FeedConstants, FeedInv, conn.pc # "closed", send # <<>>
    PROVE  FirstFrame(Head(send)) /\ Head(send) \in Frames /\ Head(send) = send[1]
<1>0. /\ head \in Nat /\ MaxSeq \in Nat /\ client.last \in Nat /\ send \in Seq(Frames)
  BY DEF FeedInv, FeedTypes, FeedConstants
<1>1. Head(send) = send[1] /\ Head(send) \in Frames /\ 1 \in 1..Len(send)
  BY <1>0, HeadTailProperties, LenProperties
<1>2. Sent(send, client.last, conn.tail)
  BY DEF FeedInv, Feeding
<1>3. /\ send[1].kind = "event" => client.last < send[1].seq /\ send[1].seq <= conn.tail
      /\ send[1].kind = "snapshot" => send[1].seq = 0
      /\ send[1].kind = "caught_up" => Covered(send, client.last, 0, send[1].seq)
  <2>1. 1 - 1 = 0
    OBVIOUS
  <2> QED
    BY <1>1, <1>2, <2>1, Zenon DEF Sent
<1>4. send[1].kind \in {"snapshot", "event", "caught_up"} /\ send[1].seq \in Nat
  BY <1>0, <1>1 DEF Frames
<1>5. ASSUME Covered(send, client.last, 0, send[1].seq)
      PROVE  send[1].seq <= client.last
  <2>1. \A q \in (client.last + 1)..send[1].seq : \E j \in 1..0 : TRUE
    BY <1>5, Zenon DEF Covered, Among
  <2> QED
    BY <1>0, <1>4, <2>1
<1>6. FirstFrame(send[1])
  BY <1>0, <1>3, <1>4, <1>5 DEF FirstFrame
<1> QED
  BY <1>1, <1>6

\* Writing a frame gives the client its next event or nothing new.
LEMMA WriteStep ==
    ASSUME FeedConstants, ClientRule = "contiguous", FeedInv, WriteFrame
    PROVE  /\ FeedInv' /\ head' = head
           /\ client' = client \/ (client'.last = client.last + 1 /\ client.last < head)
<1> DEFINE f == Head(send)
<1>0. /\ head \in Nat /\ MaxSeq \in Nat /\ head <= MaxSeq /\ client.last \in Nat
      /\ send \in Seq(Frames) /\ conn \in ConnType(head) /\ client \in [last: 0..head, got: SUBSET Seqs]
      /\ SendBuffer \in Nat
  BY DEF FeedInv, FeedTypes, FeedConstants
<1>1. conn.pc # "closed" /\ send # <<>> /\ UNCHANGED <<head, committed, queue, faults>>
  BY DEF WriteFrame
<1>2. FirstFrame(f) /\ f \in Frames /\ f = send[1]
  BY <1>1, HeadIsFirst
<1>3. CASE Gap(f)
  <2>1. Close /\ client' = client
    BY <1>3 DEF WriteFrame
  <2> QED
    BY <1>1, <2>1, CloseStep
<1>4. CASE ~Gap(f)
  <2>1. client' = Received(f) /\ send' = Tail(send) /\ conn' = conn /\ wire' = wire
    BY <1>4 DEF WriteFrame
  <2>2. f.seq \in Nat /\ f.kind \in {"snapshot", "event", "caught_up"}
    BY <1>0, <1>2 DEF Frames
  <2>3. conn.tail \in 0..head
    BY <1>0, Zenon DEF ConnType
  <2> HIDE DEF f
  <2>4. ASSUME f.kind = "event"
        PROVE  /\ f.seq = client.last + 1 /\ client.last + 1 \in 0..head /\ client.last + 1 \in Seqs
               /\ client' = [last |-> client.last + 1, got |-> client.got \union {client.last + 1}]
    <3>1. f.seq = client.last + 1
      BY <1>0, <1>2, <1>4, <2>2, <2>4 DEF Gap, FirstFrame
    <3>2. client.last + 1 \in 0..head /\ client.last + 1 \in Seqs
      BY <1>0, <1>2, <2>3, <2>4, <3>1 DEF FirstFrame, Seqs
    <3>3. ~(f.seq <= client.last)
      BY <1>0, <3>1
    <3> QED
      BY <2>1, <2>4, <3>1, <3>2, <3>3, Zenon DEF Received
  <2>5. ASSUME f.kind # "event"
        PROVE  client' = client
    BY <1>2, <2>1, <2>5, Zenon DEF Received, FirstFrame
  <2>6. /\ f.kind = "event" => client'.last = client.last + 1
        /\ f.kind # "event" => client'.last = client.last
    BY <2>4, <2>5
  <2>7. client' \in [last: 0..head, got: SUBSET Seqs] /\ client'.last \in Nat
    <3>1. client.got \union {client.last + 1} \in SUBSET Seqs \/ client.last + 1 \notin Seqs
      BY <1>0
    <3> QED
      BY <1>0, <2>4, <2>5, <3>1
  <2>8. GivenUpToCursor'
    <3>1. client.got = 1..client.last
      BY DEF FeedInv, GivenUpToCursor
    <3>2. 1..client.last \union {client.last + 1} = 1..(client.last + 1)
      BY <1>0
    <3>3. CASE f.kind = "event"
      <4>1. client'.got = client.got \union {client.last + 1} /\ client'.last = client.last + 1
        BY <2>4, <3>3
      <4> QED
        BY <3>1, <3>2, <4>1, Zenon DEF GivenUpToCursor
    <3>4. CASE f.kind # "event"
      BY <2>5, <3>1, <3>4, Zenon DEF GivenUpToCursor
    <3> QED
      BY <3>3, <3>4
  <2>9. Tail(send) \in Seq(Frames) /\ Len(Tail(send)) <= SendBuffer
    <3>1. Len(send) <= SendBuffer
      BY DEF FeedInv, FeedTypes
    <3> QED
      BY <1>0, <1>1, <3>1, HeadTailProperties, LenProperties
  <2>10. FeedTypes'
    BY <1>1, <2>1, <2>7, <2>9, Zenon DEF FeedInv, FeedTypes
  <2>11. /\ Sent(send, client.last, conn.tail) /\ Rising(send) /\ client.last <= conn.tail
         /\ ~conn.slow => Covered(send, client.last, Len(send), conn.tail)
         /\ conn.pc = "caughtup" => ~conn.slow
    BY <1>1 DEF FeedInv, Feeding
  <2>12. /\ Sent(Tail(send), client'.last, conn.tail) /\ Rising(Tail(send)) /\ client'.last <= conn.tail
         /\ Covered(send, client.last, Len(send), conn.tail) =>
               Covered(Tail(send), client'.last, Len(Tail(send)), conn.tail)
    <3>1. conn.tail \in Nat
      BY <1>0, <2>3
    <3>2. /\ send[1].kind = "event" => send[1].seq = client.last + 1 /\ client'.last = client.last + 1
          /\ send[1].kind # "event" => client'.last = client.last
      BY <1>2, <2>4, <2>6
    <3> QED
      BY <1>0, <1>1, <2>7, <2>11, <3>1, <3>2, TailFrame
  <2>13. Feeding'
    BY <2>1, <2>11, <2>12, Zenon DEF Feeding
  <2>14. client' = client \/ (client'.last = client.last + 1 /\ client.last < head)
    BY <1>0, <2>4, <2>5, <2>6
  <2> QED
    BY <1>1, <2>8, <2>10, <2>13, <2>14 DEF FeedInv
<1> QED
  BY <1>3, <1>4

-----------------------------------------------------------------------------
(* The theorems.                                                           *)

\* The abstract step that a step of the feed is: a commit appends, a frame gives
\* the client the next event, and every other step is invisible.
Visible ==
    \/ head' > head /\ client' = client
    \/ head' = head /\ client' = client
    \/ head' = head /\ client'.last = client.last + 1 /\ client.last < head

\* Every step of the feed keeps the invariant.
LEMMA NextFeed ==
    ASSUME FeedConstants, ClientRule = "contiguous", FeedInv, Next
    PROVE  FeedInv' /\ Visible
<1>0. FeedTypes /\ head \in Nat
  BY DEF FeedInv, FeedTypes, FeedConstants
<1>1. ASSUME NEW p \in Procs, NEW n \in 1..2, Commit(p, n)
      PROVE  FeedInv' /\ Visible
  <2>1. FeedTypes'
    BY <1>0, <1>1, CommitTypes
  <2>2. head' > head /\ head <= head' /\ UNCHANGED <<send, client, conn>>
    BY <1>0, <1>1 DEF Commit
  <2>3. Keeps
    BY <2>2, Zenon DEF Keeps
  <2> QED
    BY <2>1, <2>2, <2>3, KeepsFeeding DEF FeedInv, Visible
<1>2. ASSUME \/ \E b \in committed : EventsCommitted(b)
             \/ \E p \in Procs, lost \in BOOLEAN : PublishOne(p, lost)
             \/ \E p \in Procs : CrashPublisher(p)
      PROVE  FeedInv' /\ Visible
  <2>1. FeedTypes'
    BY <1>0, <1>2, PublisherTypes
  <2>2. UNCHANGED <<head, send, client, conn>>
    BY <1>2, Zenon DEF EventsCommitted, PublishOne, CrashPublisher
  <2>3. head <= head'
    BY <1>0, <2>2
  <2>4. Keeps
    BY <2>2, <2>3, Zenon DEF Keeps
  <2> QED
    BY <2>1, <2>2, <2>4, KeepsFeeding DEF FeedInv, Visible
<1>3. ASSUME \/ \E ok \in BOOLEAN : Subscribe(ok)
             \/ ReadPage \/ ReadFails \/ PageDone \/ Offer \/ Resync \/ LiveCloses \/ SlowClose
      PROVE  FeedInv' /\ Visible
  <2>1. FeedTypes' /\ Keeps
    BY <1>0, <1>3, DriverKeeps
  <2>2. head' = head /\ client' = client
    BY <1>3, Zenon DEF Subscribe, ReadPage, ReadFails, PageDone, Offer, Resync, LiveCloses, SlowClose
  <2> QED
    BY <2>1, <2>2, KeepsFeeding DEF FeedInv, Visible
<1>4. ASSUME Connect \/ Deliver \/ CaughtUp
      PROVE  FeedInv' /\ Visible
  <2>1. head' = head /\ client' = client
    BY <1>4, Zenon DEF Connect, Deliver, CaughtUp
  <2> QED
    BY <1>4, <2>1, ConnectStep, DeliverStep, CaughtUpStep, Zenon DEF Visible
<1>5. ASSUME Finish \/ Disconnect
      PROVE  FeedInv' /\ Visible
  <2>1. Close /\ UNCHANGED <<head, committed, queue, client>> /\ (faults' = faults \/ Fault)
    BY <1>5, Zenon DEF Finish, Disconnect
  <2> QED
    BY <2>1, CloseStep, Zenon DEF Visible
<1>6. ASSUME WriteFrame
      PROVE  FeedInv' /\ Visible
  BY <1>6, WriteStep, Zenon DEF Visible
<1> QED
  BY <1>1, <1>2, <1>3, <1>4, <1>5, <1>6, Zenon DEF Next, Driver

\* The feed starts with an empty log and a closed connection.
LEMMA InitFeed ==
    ASSUME FeedConstants, Init
    PROVE  FeedInv
<1>1. /\ 0 \in Nat /\ MaxSeq \in Nat /\ Buffer \in Nat /\ MaxFaults \in Nat /\ SendBuffer \in Nat
      /\ 0 \in 0..MaxSeq /\ 0 \in 0..MaxFaults /\ 0 \in 0..0 /\ 1..0 = {}
      /\ Len(<<>>) = 0 /\ 0 <= Buffer /\ 0 <= SendBuffer
  BY DEF FeedConstants
<1>2. <<>> \in Seq(Logged(0)) /\ <<>> \in Seq(Frames) /\ <<>> \in Seq(1..0)
  OBVIOUS
<1>3. Closed \in ConnType(0) /\ Closed.pc = "closed"
  BY <1>1, ClosedType
<1>4. client \in [last: 0..0, got: SUBSET Seqs] /\ client.got = {} /\ client.last = 0
  BY <1>1, Zenon DEF Init
<1>5. queue \in [Procs -> Seq(Logged(0))] /\ \A p \in Procs : Len(queue[p]) <= Buffer
  BY <1>1, <1>2 DEF Init
<1>6. FeedTypes
  BY <1>1, <1>2, <1>3, <1>4, <1>5, Zenon DEF Init, FeedTypes
<1>7. Feeding /\ GivenUpToCursor
  BY <1>1, <1>3, <1>4, Zenon DEF Init, Feeding, GivenUpToCursor
<1> QED
  BY <1>6, <1>7 DEF FeedInv

\* A step that changes no variable keeps the invariant.
LEMMA StutterFeed ==
    ASSUME FeedInv, UNCHANGED feedVars
    PROVE  FeedInv' /\ head' = head /\ client' = client
BY Zenon DEF FeedInv, FeedTypes, Feeding, GivenUpToCursor, feedVars

\* What the invariant says of the frames under way.
LEMMA FeedPrefix ==
    ASSUME FeedConstants, FeedInv
    PROVE  MissesNothing
<1>0. head \in Nat /\ MaxSeq \in Nat /\ head <= MaxSeq /\ send \in Seq(Frames)
  BY DEF FeedInv, FeedTypes, FeedConstants
<1>1. TypeOK
  <2>1. /\ Logged(head) \subseteq Batches /\ 0..head \subseteq 0..MaxSeq /\ 1..head \subseteq Seqs
    BY <1>0 DEF Logged, Seqs
  <2>2. Seq(Logged(head)) \subseteq Seq(Batches) /\ Seq(1..head) \subseteq Seq(Seqs)
    <3>1. ASSUME NEW S, NEW T, S \subseteq T
          PROVE  Seq(S) \subseteq Seq(T)
      BY <3>1
    <3> QED
      BY <2>1, <3>1, Zenon
  <2>3. committed \in SUBSET Batches /\ wire \in Seq(Seqs)
    BY <2>1, <2>2 DEF FeedInv, FeedTypes
  <2>4. queue \in [Procs -> Seq(Batches)]
    BY <2>2 DEF FeedInv, FeedTypes
  <2>5. conn \in [pc: Phases, live: BOOLEAN, tail: 0..MaxSeq, slow: BOOLEAN,
                  page: 0..MaxSeq, full: BOOLEAN, offer: 0..MaxSeq, started: BOOLEAN]
    BY <2>1 DEF FeedInv, FeedTypes, ConnType
  <2>6. client \in [last: 0..MaxSeq, got: SUBSET Seqs]
    BY <2>1 DEF FeedInv, FeedTypes
  <2> QED
    BY <2>3, <2>4, <2>5, <2>6, Zenon DEF FeedInv, FeedTypes, TypeOK
<1>2. ASSUME conn.pc # "closed", ~conn.slow
      PROVE  /\ client.last <= conn.tail
             /\ EventSeqs = (client.last + 1)..conn.tail
             /\ \A i, j \in DOMAIN send :
                   (i < j /\ send[i].kind = "event" /\ send[j].kind = "event")
                      => send[i].seq < send[j].seq
  <2>1. /\ Sent(send, client.last, conn.tail) /\ Rising(send) /\ client.last <= conn.tail
        /\ Covered(send, client.last, Len(send), conn.tail)
    BY <1>2 DEF FeedInv, Feeding
  <2>2. DOMAIN send = 1..Len(send)
    BY <1>0, LenProperties
  <2>3. client.last \in Nat /\ conn.tail \in Nat
    BY <1>0 DEF FeedInv, FeedTypes, ConnType
  <2>4. \A i \in 1..Len(send) : send[i].seq \in Nat
    <3>1. \A x \in Frames : x.seq \in Nat
      BY <1>0 DEF Frames
    <3> QED
      BY <1>0, <3>1, ElementOfSeq
  <2>5. ASSUME NEW q \in EventSeqs
        PROVE  q \in (client.last + 1)..conn.tail
    <3>1. PICK i \in 1..Len(send) : send[i].kind = "event" /\ send[i].seq = q
      BY <2>2, <2>5 DEF EventSeqs
    <3>2. client.last < q /\ q <= conn.tail /\ q \in Nat
      BY <2>1, <2>4, <3>1 DEF Sent
    <3> QED
      BY <2>3, <3>2
  <2>6. ASSUME NEW q \in (client.last + 1)..conn.tail
        PROVE  q \in EventSeqs
    <3>1. PICK i \in 1..Len(send) : send[i].kind = "event" /\ send[i].seq = q
      BY <2>1, Zenon DEF Covered, Among
    <3> QED
      BY <2>2, <3>1, Zenon DEF EventSeqs
  <2>7. EventSeqs = (client.last + 1)..conn.tail
    BY <2>5, <2>6, Zenon
  <2> QED
    BY <2>1, <2>2, <2>7, Zenon DEF Rising
<1> QED
  BY <1>1, <1>2, Zenon DEF MissesNothing, InFlightIsPrefix, FeedInv

\* Whatever pub/sub loses and whenever connections break or fall behind, RunStream
\* has been given every event up to the cursor it resumes from; and while no
\* enqueue has timed out, the frames under way are the rest of the Tailer's
\* prefix, in order, without a hole and without a repeat.
THEOREM MissesNothingTheorem ==
    ASSUME FeedConstants, ClientRule = "contiguous"
    PROVE  Spec => []MissesNothing
<1>1. Init => FeedInv
  BY InitFeed
<1>2. FeedInv /\ [Next]_feedVars => FeedInv'
  BY NextFeed, StutterFeed, Zenon
<1>3. FeedInv => MissesNothing
  BY FeedPrefix
<1> QED
  BY <1>1, <1>2, <1>3, PTL DEF Spec

\* The run's WebSocket, with RunStream at its end, implements the in-order,
\* exactly-once feed of module OrderedFeed: every step of the socket, the Tailer
\* and the publishers is a commit, the delivery of the next event, or invisible.
THEOREM OrderedFeedTheorem ==
    ASSUME FeedConstants, ClientRule = "contiguous"
    PROVE  Spec => ImplementsOrderedFeed
<1>1. Init => FeedInv /\ Feed!Init
  BY InitFeed DEF Init, Feed!Init
<1>2. FeedInv /\ [Next]_feedVars => FeedInv' /\ [Feed!Next]_<<head, client.last>>
  <2> SUFFICES ASSUME FeedInv, [Next]_feedVars
               PROVE  FeedInv' /\ [Feed!Next]_<<head, client.last>>
    OBVIOUS
  <2>1. FeedInv' /\ Visible
    BY NextFeed, StutterFeed, Zenon DEF Visible
  <2>2. [Feed!Next]_<<head, client.last>>
    BY <2>1 DEF Visible, Feed!Next, Feed!Append, Feed!Receive
  <2> QED
    BY <2>1, <2>2
<1> QED
  BY <1>1, <1>2, PTL DEF Spec, ImplementsOrderedFeed, Feed!Spec

=============================================================================
