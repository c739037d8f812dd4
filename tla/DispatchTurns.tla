--------------------------- MODULE DispatchTurns ----------------------------
(***************************************************************************)
(* Leases without the rows: what every step of module Dispatch does to     *)
(* claims, attempts, stream, delayed set and workers, for every fleet and  *)
(* fault budget.                                                           *)
(*                                                                         *)
(* No two steps share a claim and the open attempts are the claims         *)
(* (LedgerOK); stream, delayed set and workers are well formed (QueueOK).  *)
(* Every step keeps both, closes no attempt twice, and is one of four      *)
(* turns (StepTurns): it stops a running step, claims one, tends the run,  *)
(* or moves the queue and at most the holder of a step.  A turn says which *)
(* rows the step writes and how the claims and announcements move with     *)
(* them, which is all that DispatchProofs needs of the queue.              *)
(***************************************************************************)
EXTENDS Dispatch, WellFoundedInduction, TLAPS

-----------------------------------------------------------------------------
(* The inductive invariant, but for the rows.                              *)

\* The steps of the stream's entries.
StreamSteps == {stream[e].step : e \in Entries} \ {None}

\* The steps that workers have in hand.
WorkerSteps == {worker[w].step : w \in Workers} \ {None}

\* The steps announced outside the outbox.
Extra == StreamSteps \cup delayed \cup WorkerSteps

\* A worker's registers: a step and an entry while it is busy, and a claim while
\* it displaces a holder or executes.
HandOK(h) ==
    /\ h \in Worker
    /\ h.pc \in {"takeover", "execute"} <=> h.claim # None
    /\ h.pc # "idle" => h.step \in Steps /\ h.entry \in Entries

\* An entry in the stream carries a step.
StreamOK ==
    /\ stream \in [Entries -> Entry]
    /\ \A e \in Entries : stream[e].at # "none" => stream[e].step \in Steps

\* All registers are such.
WorkersOK == worker \in [Workers -> Worker] /\ \A w \in Workers : HandOK(worker[w])

\* What Redis and the workers hold.
QueueOK ==
    /\ StreamOK /\ WorkersOK
    /\ group \in BOOLEAN /\ delayed \subseteq Steps /\ losses \in 0..MaxLosses

\* The steps' current claims and the attempts they opened.
LedgerOK ==
    /\ claim \in [Steps -> Claims \cup {None}] /\ attempt \in [Claims -> Attempt]
    /\ \A s, t \in Steps : claim[s] = claim[t] /\ claim[s] # None => s = t
    /\ \A c \in Claims : attempt[c] = "open" <=> \E s \in Steps : claim[s] = c

\* The running steps are those that a claim holds.
HoldersRun == \A s \in Steps : rows.step[s] = "running" <=> claim[s] # None

-----------------------------------------------------------------------------
(* Claims and attempts.                                                    *)

\* The smallest free id exists: ids are natural numbers.
LEMMA LeastIn ==
    ASSUME NEW S \in SUBSET Nat, S # {}
    PROVE  Least(S) \in S
<1> DEFINE Below == {ss \in Nat \X Nat : ss[1] < ss[2]}
<1>1. IsWellFoundedOn(Below, Nat)
  BY NatLessThanWellFounded, Zenon DEF OpToRel
<1>2. PICK n \in S : \A m \in S : <<m, n>> \notin Below
  <2> HIDE DEF Below
  <2> QED
    BY <1>1, WFMin, Zenon
<1>3. \A m \in S : ~(m < n)
  <2> SUFFICES ASSUME NEW m \in S, m < n PROVE FALSE
    OBVIOUS
  <2>1. <<m, n>> \in Nat \X Nat /\ <<m, n>>[1] = m /\ <<m, n>>[2] = n
    OBVIOUS
  <2>2. <<m, n>> \in Below
    BY <2>1
  <2> QED
    BY <1>2, <2>2, Zenon
<1>4. \A m \in S : n <= m
  BY <1>3
<1> QED
  BY <1>4, Zenon DEF Least

\* ClosedOnce's step.
Once == \A c \in Claims : attempt[c] \in {"judged", "lost"} =>
            attempt'[c] = attempt[c] \/ c \in FreeClaims

\* No claim is None.
LEMMA NoneIsNoClaim == None \notin Claims /\ Claims \subseteq Nat
BY QueueAssumption

\* A step that touches neither claims nor attempts.
LEMMA KeepLedger ==
    ASSUME LedgerOK, UNCHANGED <<claim, attempt>>
    PROVE  LedgerOK' /\ Once
BY DEF LedgerOK, Once

\* A completion clears the claim it is fenced on and judges that attempt.
LEMMA CloseLedger ==
    ASSUME LedgerOK, HoldersRun, NEW w \in Workers, worker[w].step \in Steps,
           worker[w].claim \in Claims, Fence(w), Close(w)
    PROVE  /\ LedgerOK' /\ Once
           /\ \A s \in Steps : claim'[s] = IF s = worker[w].step THEN None ELSE claim[s]
<1> DEFINE s == worker[w].step
           c == worker[w].claim
<1>1. claim[s] = c /\ c \in Claims /\ s \in Steps
  BY DEF Fence
<1>2. claim' = [claim EXCEPT ![s] = None] /\ attempt' = [attempt EXCEPT ![c] = "judged"]
  BY DEF Close
<1> HIDE DEF s, c
<1>3. /\ \A t \in Steps : claim'[t] = IF t = s THEN None ELSE claim[t]
      /\ \A x \in Claims : attempt'[x] = IF x = c THEN "judged" ELSE attempt[x]
      /\ claim' \in [Steps -> Claims \cup {None}] /\ attempt' \in [Claims -> Attempt]
  BY <1>1, <1>2 DEF LedgerOK, Attempt
<1>4. attempt[c] = "open"
  BY <1>1 DEF LedgerOK
<1>5. \A x \in Claims : attempt'[x] = "open" <=> \E t \in Steps : claim'[t] = x
  BY <1>1, <1>3, NoneIsNoClaim DEF LedgerOK
<1>6. \A t, u \in Steps : claim'[t] = claim'[u] /\ claim'[t] # None => t = u
  BY <1>3 DEF LedgerOK
<1>7. Once
  BY <1>3, <1>4 DEF Once
<1> QED
  BY <1>3, <1>5, <1>6, <1>7 DEF LedgerOK, s

\* A takeover by the reconciler, a heal or a poison letter: the attempt that is open
\* on the step, if any, is lost.
LEMMA LoseLedger ==
    ASSUME LedgerOK, NEW s \in Steps, LoseClaim(s)
    PROVE  /\ LedgerOK' /\ Once
           /\ \A t \in Steps : claim'[t] = IF t = s THEN None ELSE claim[t]
<1>1. /\ \A t \in Steps : claim'[t] = IF t = s THEN None ELSE claim[t]
      /\ \A x \in Claims : attempt'[x] = IF x = claim[s] THEN "lost" ELSE attempt[x]
      /\ claim' \in [Steps -> Claims \cup {None}] /\ attempt' \in [Claims -> Attempt]
  BY DEF LedgerOK, LoseClaim, Attempt
<1>2. \A x \in Claims : attempt'[x] = "open" <=> \E t \in Steps : claim'[t] = x
  BY <1>1, NoneIsNoClaim DEF LedgerOK
<1>3. \A t, u \in Steps : claim'[t] = claim'[u] /\ claim'[t] # None => t = u
  BY <1>1 DEF LedgerOK
<1>4. \A x \in Claims : x = claim[s] => attempt[x] = "open"
  BY DEF LedgerOK
<1>5. Once
  BY <1>1, <1>4 DEF Once
<1> QED
  BY <1>1, <1>2, <1>3, <1>5 DEF LedgerOK

\* A claim is fresh, opens its attempt, and loses the attempt it displaces.
LEMMA TakeLedger ==
    ASSUME LedgerOK, NEW w \in Workers, worker[w].step \in Steps, NEW lost,
           lost = claim[worker[w].step], TakeClaim(w, lost)
    PROVE  /\ LedgerOK' /\ Once
           /\ claim'[worker[w].step] # None
           /\ \A t \in Steps : t # worker[w].step => claim'[t] = claim[t]
           /\ \E c \in Claims :
                worker' = [worker EXCEPT ![w] = [Idle EXCEPT !.pc = "execute", !.step = worker[w].step,
                                                 !.entry = worker[w].entry, !.claim = c]]
<1> DEFINE s == worker[w].step
           c == Least(FreeClaims)
<1>1. FreeClaims # {} /\ FreeClaims \in SUBSET Nat /\ FreeClaims \subseteq Claims
  BY NoneIsNoClaim DEF TakeClaim, FreeClaims
<1>2. c \in FreeClaims /\ c \in Claims
  BY <1>1, LeastIn, Zenon
<1>3. /\ claim' = [claim EXCEPT ![s] = c]
      /\ attempt' = [x \in Claims |-> IF x = c THEN "open"
                                      ELSE IF x = lost THEN "lost"
                                      ELSE IF x \in FreeClaims THEN "none" ELSE attempt[x]]
      /\ worker' = [worker EXCEPT ![w] = [Idle EXCEPT !.pc = "execute", !.step = s,
                                                      !.entry = worker[w].entry, !.claim = c]]
  BY DEF TakeClaim
<1> HIDE DEF c
<1>4. \A x \in FreeClaims : \A t \in Steps : claim[t] # x
  BY DEF FreeClaims
<1>5. /\ \A t \in Steps : claim'[t] = IF t = s THEN c ELSE claim[t]
      /\ \A x \in Claims : attempt'[x] = IF x = c THEN "open" ELSE IF x = lost THEN "lost"
                                         ELSE IF x \in FreeClaims THEN "none" ELSE attempt[x]
      /\ claim' \in [Steps -> Claims \cup {None}] /\ attempt' \in [Claims -> Attempt]
  BY <1>2, <1>3 DEF LedgerOK, Attempt
<1>6. \A t, u \in Steps : claim'[t] = claim'[u] /\ claim'[t] # None => t = u
  BY <1>2, <1>4, <1>5 DEF LedgerOK
<1>7. ASSUME NEW x \in Claims
      PROVE  attempt'[x] = "open" <=> \E t \in Steps : claim'[t] = x
  <2>1. CASE x = c
    BY <1>5, <2>1
  <2>2. CASE x # c /\ x = lost
    BY <1>5, <2>2, NoneIsNoClaim DEF LedgerOK
  <2>3. CASE x # c /\ x # lost /\ x \in FreeClaims
    BY <1>4, <1>5, <2>3
  <2>4. CASE x # c /\ x # lost /\ x \notin FreeClaims
    BY <1>5, <2>4 DEF LedgerOK
  <2> QED
    BY <2>1, <2>2, <2>3, <2>4
<1>8. Once
  <2>1. \A x \in Claims : x = lost => attempt[x] = "open"
    BY DEF LedgerOK
  <2> QED
    BY <1>2, <1>5, <2>1 DEF Once
<1>9. c # None
  BY <1>2, NoneIsNoClaim
<1> QED
  BY <1>2, <1>3, <1>5, <1>6, <1>7, <1>8, <1>9, Zenon DEF LedgerOK

-----------------------------------------------------------------------------
(* Entries and workers.                                                    *)

\* An idle worker has nothing in hand.
LEMMA IdleIsOK == HandOK(Idle) /\ Idle.step = None
<1>1. Idle \in Worker
  BY DEF Idle, Worker
<1> QED
  BY <1>1 DEF HandOK, Idle

\* One worker moves on.
LEMMA WorkerMoves ==
    ASSUME WorkersOK, NEW w \in Workers, NEW h, HandOK(h), worker' = [worker EXCEPT ![w] = h]
    PROVE  /\ WorkersOK'
           /\ WorkerSteps' \subseteq WorkerSteps \cup ({h.step} \ {None})
           /\ h.step = worker[w].step => WorkerSteps' = WorkerSteps
<1>1. h \in Worker
  BY DEF HandOK
<1>2. /\ worker' \in [Workers -> Worker]
      /\ \A x \in Workers : worker'[x] = IF x = w THEN h ELSE worker[x]
  BY <1>1 DEF WorkersOK
<1>3. \A x \in Workers : HandOK(worker'[x])
  BY <1>2 DEF WorkersOK
<1>4. WorkersOK'
  BY <1>2, <1>3 DEF WorkersOK, HandOK
<1> QED
  BY <1>2, <1>4 DEF WorkerSteps

\* Only the workers' part of the queue changes.
LEMMA HandMoves ==
    ASSUME QueueOK, UNCHANGED queue, NEW w \in Workers, NEW h, HandOK(h),
           worker' = [worker EXCEPT ![w] = h]
    PROVE  /\ QueueOK'
           /\ h.step \in Extra \cup {None} => Extra' \subseteq Extra
           /\ h.step = worker[w].step => Extra' = Extra
<1>1. /\ WorkersOK'
      /\ WorkerSteps' \subseteq WorkerSteps \cup ({h.step} \ {None})
      /\ h.step = worker[w].step => WorkerSteps' = WorkerSteps
  BY WorkerMoves, Zenon DEF QueueOK
<1>2. StreamSteps' = StreamSteps /\ delayed' = delayed
  BY DEF StreamSteps, queue
<1>3. QueueOK'
  BY <1>1 DEF QueueOK, StreamOK, queue
<1> QED
  BY <1>1, <1>2, <1>3 DEF Extra

\* A busy worker's step is announced by the worker itself.
LEMMA BusyStep ==
    ASSUME QueueOK, NEW w \in Workers, worker[w].pc # "idle"
    PROVE  /\ worker[w] \in Worker /\ worker[w].step \in Steps /\ worker[w].entry \in Entries
           /\ worker[w].step \in Extra /\ worker[w].step # None
           /\ worker[w].pc \in {"takeover", "execute"} => worker[w].claim \in Claims
<1>1. HandOK(worker[w])
  BY DEF QueueOK, WorkersOK
<1>2. worker[w] \in Worker /\ worker[w].step \in Steps /\ worker[w].entry \in Entries
  BY <1>1 DEF HandOK
<1>3. worker[w].step # None
  BY <1>2, QueueAssumption
<1>4. worker[w].pc \in {"takeover", "execute"} => worker[w].claim \in Claims
  BY <1>1 DEF HandOK, Worker
<1> QED
  BY <1>2, <1>3, <1>4 DEF Extra, WorkerSteps

\* A worker that only has its acknowledgement left keeps its step in hand.
LEMMA GoAckQueue ==
    ASSUME QueueOK, UNCHANGED queue, NEW w \in Workers, worker[w].pc # "idle", GoAck(w)
    PROVE  QueueOK' /\ Extra' = Extra
<1> DEFINE h == [Idle EXCEPT !.pc = "ack", !.entry = worker[w].entry, !.step = worker[w].step]
<1>1. worker' = [worker EXCEPT ![w] = h]
  BY DEF GoAck
<1>2. worker[w].step \in Steps /\ worker[w].entry \in Entries
  BY BusyStep, Zenon
<1>3. h \in Worker /\ h.pc = "ack" /\ h.step = worker[w].step /\ h.entry = worker[w].entry /\ h.claim = None
  BY <1>2, Zenon DEF Idle, Worker
<1> HIDE DEF h
<1>4. HandOK(h)
  BY <1>2, <1>3 DEF HandOK
<1> QED
  BY <1>1, <1>3, <1>4, HandMoves, Zenon

\* So does one that took a claim.
LEMMA TakeQueue ==
    ASSUME QueueOK, UNCHANGED queue, NEW w \in Workers, worker[w].pc # "idle", NEW c \in Claims,
           worker' = [worker EXCEPT ![w] = [Idle EXCEPT !.pc = "execute", !.step = worker[w].step,
                                            !.entry = worker[w].entry, !.claim = c]]
    PROVE  QueueOK' /\ Extra' = Extra
<1> DEFINE h == [Idle EXCEPT !.pc = "execute", !.step = worker[w].step, !.entry = worker[w].entry,
                             !.claim = c]
<1>1. worker[w].step \in Steps /\ worker[w].entry \in Entries
  BY BusyStep, Zenon
<1>2. h \in Worker /\ h.pc = "execute" /\ h.step = worker[w].step /\ h.entry = worker[w].entry /\ h.claim = c
  BY <1>1, Zenon DEF Idle, Worker
<1>3. worker' = [worker EXCEPT ![w] = h]
  OBVIOUS
<1> HIDE DEF h
<1>4. HandOK(h)
  BY <1>1, <1>2, NoneIsNoClaim DEF HandOK
<1> QED
  BY <1>2, <1>3, <1>4, HandMoves, Zenon

\* So does one that has a delayed entry to add.
LEMMA ScheduleQueue ==
    ASSUME QueueOK, UNCHANGED queue, NEW w \in Workers, worker[w].pc # "idle",
           worker' = [worker EXCEPT ![w].pc = "schedule", ![w].claim = None]
    PROVE  QueueOK' /\ Extra' = Extra
<1> DEFINE h == [worker[w] EXCEPT !.pc = "schedule", !.claim = None]
<1>1. worker[w] \in Worker /\ worker[w].step \in Steps /\ worker[w].entry \in Entries
  BY BusyStep, Zenon
<1>2. h \in Worker /\ h.pc = "schedule" /\ h.step = worker[w].step /\ h.entry = worker[w].entry /\ h.claim = None
  BY <1>1, Zenon DEF Worker
<1>3. worker' = [worker EXCEPT ![w] = h]
  BY Zenon DEF QueueOK, WorkersOK
<1> HIDE DEF h
<1>4. HandOK(h)
  BY <1>1, <1>2 DEF HandOK
<1> QED
  BY <1>2, <1>3, <1>4, HandMoves, Zenon

\* A worker gives up what it has in hand.
LEMMA IdleQueue ==
    ASSUME QueueOK, UNCHANGED queue, NEW w \in Workers, worker' = [worker EXCEPT ![w] = Idle]
    PROVE  QueueOK' /\ Extra' \subseteq Extra
BY HandMoves, IdleIsOK, Zenon

\* claimTakeover keeps the claim it has observed.
LEMMA HandleTakeoverQueue ==
    ASSUME QueueOK, LedgerOK, HoldersRun, NEW w \in Workers, HandleTakeover(w)
    PROVE  QueueOK' /\ Extra' = Extra
<1> DEFINE c == claim[worker[w].step]
           h == [worker[w] EXCEPT !.pc = "takeover", !.claim = c, !.again = FALSE]
<1>1. /\ worker[w].pc # "idle" /\ UNCHANGED queue
      /\ worker' = [worker EXCEPT ![w].pc = "takeover", ![w].claim = c, ![w].again = FALSE]
      /\ rows.step[worker[w].step] = "running"
  BY DEF HandleTakeover, Displaces
<1>2. worker[w] \in Worker /\ worker[w].step \in Steps /\ worker[w].entry \in Entries
  BY <1>1, BusyStep, Zenon
<1>3. c \in Claims /\ c # None
  BY <1>1, <1>2 DEF HoldersRun, LedgerOK
<1> HIDE DEF c
<1>4. h \in Worker /\ h.pc = "takeover" /\ h.step = worker[w].step /\ h.entry = worker[w].entry /\ h.claim = c
  BY <1>2, <1>3, Zenon DEF Worker
<1>5. worker' = [worker EXCEPT ![w] = h]
  BY <1>1, Zenon DEF QueueOK, WorkersOK
<1> HIDE DEF h
<1>6. HandOK(h)
  BY <1>2, <1>3, <1>4 DEF HandOK
<1> QED
  BY <1>1, <1>4, <1>5, <1>6, HandMoves, Zenon

\* A delivery or a redelivery: the worker takes an entry in hand, and the entry
\* keeps announcing its step.
LEMMA DeliveryQueue ==
    ASSUME QueueOK, NEW w \in Workers, NEW e \in Entries, stream[e].at # "none",
           NEW h, HandOK(h), h.step = stream[e].step, worker' = [worker EXCEPT ![w] = h],
           NEW v \in Entry, v.step = stream[e].step, stream' = [stream EXCEPT ![e] = v],
           UNCHANGED <<group, delayed, losses>>
    PROVE  QueueOK' /\ Extra' \subseteq Extra
<1>1. stream[e].step \in Steps
  BY DEF QueueOK, StreamOK
<1>2. WorkersOK' /\ WorkerSteps' \subseteq WorkerSteps \cup ({h.step} \ {None})
  BY WorkerMoves, Zenon DEF QueueOK
<1>3. /\ stream' \in [Entries -> Entry]
      /\ \A x \in Entries : stream'[x] = IF x = e THEN v ELSE stream[x]
  BY DEF QueueOK, StreamOK
<1>4. StreamOK'
  BY <1>1, <1>3 DEF QueueOK, StreamOK
<1>5. StreamSteps' = StreamSteps
  BY <1>3 DEF StreamSteps
<1>6. h.step \in StreamSteps \cup {None}
  BY DEF StreamSteps
<1> QED
  BY <1>2, <1>4, <1>5, <1>6 DEF QueueOK, Extra

\* A delivery moves a step from an entry to a hand, where it still counts.
LEMMA ReadQueue ==
    ASSUME QueueOK, NEW w \in Workers, NEW e \in Entries, Read(w, e) \/ Reclaim(w, e)
    PROVE  QueueOK' /\ Extra' \subseteq Extra
<1> DEFINE s == stream[e].step
           Handed == [Idle EXCEPT !.pc = "handle", !.step = s, !.entry = e, !.again = FALSE]
           Again  == [Idle EXCEPT !.pc = "handle", !.step = s, !.entry = e, !.again = TRUE]
           Poison_ == [Idle EXCEPT !.pc = "poison", !.step = s, !.entry = e]
<1>1. stream[e] \in Entry /\ stream[e].count \in Nat
  BY DEF QueueOK, StreamOK, Entry
<1>2. stream[e].at # "none" /\ UNCHANGED <<group, delayed, losses>>
  BY Zenon DEF Read, Reclaim
<1>3. s \in Steps
  BY <1>2 DEF QueueOK, StreamOK
<1>4. \E v \in Entry : v.step = s /\ stream' = [stream EXCEPT ![e] = v]
  <2>1. CASE Read(w, e)
    <3> DEFINE v == [stream[e] EXCEPT !.at = "pending", !.count = 1]
    <3>1. v \in Entry /\ v.step = s
      BY <1>1, Zenon DEF Entry
    <3>2. stream' = [stream EXCEPT ![e] = v]
      BY <2>1, Zenon DEF Read, QueueOK, StreamOK
    <3> QED
      BY <3>1, <3>2, Zenon
  <2>2. CASE Reclaim(w, e)
    <3> DEFINE n == Redelivered(e)
               v == [stream[e] EXCEPT !.count = n]
    <3>1. n \in Nat
      BY <1>1 DEF Redelivered
    <3>2. stream' = [stream EXCEPT ![e].count = n]
      BY <2>2 DEF Reclaim
    <3> HIDE DEF n
    <3>3. v \in Entry /\ v.step = s
      BY <1>1, <3>1, Zenon DEF Entry
    <3>4. stream' = [stream EXCEPT ![e] = v]
      BY <3>2, Zenon DEF QueueOK, StreamOK
    <3> QED
      BY <3>3, <3>4, Zenon
  <2> QED
    BY <2>1, <2>2
<1>5. \E h : HandOK(h) /\ h.step = s /\ worker' = [worker EXCEPT ![w] = h]
  <2>1. \E h \in {Handed, Again, Poison_} : worker' = [worker EXCEPT ![w] = h]
    BY Zenon DEF Read, Reclaim, Deliver
  <2>2. \A h \in {Handed, Again, Poison_} :
          h \in Worker /\ h.pc \in {"handle", "poison"} /\ h.step = s /\ h.entry = e /\ h.claim = None
    <3>1. Handed \in Worker /\ Handed.pc = "handle" /\ Handed.step = s /\ Handed.entry = e /\ Handed.claim = None
      BY <1>3, Zenon DEF Idle, Worker
    <3>2. Again \in Worker /\ Again.pc = "handle" /\ Again.step = s /\ Again.entry = e /\ Again.claim = None
      BY <1>3, Zenon DEF Idle, Worker
    <3>3. Poison_ \in Worker /\ Poison_.pc = "poison" /\ Poison_.step = s /\ Poison_.entry = e /\ Poison_.claim = None
      BY <1>3, Zenon DEF Idle, Worker
    <3> HIDE DEF Handed, Again, Poison_, s
    <3> QED
      BY <3>1, <3>2, <3>3
  <2> HIDE DEF Handed, Again, Poison_, s
  <2>3. \A h \in {Handed, Again, Poison_} : HandOK(h)
    BY <1>3, <2>2 DEF HandOK
  <2> QED
    BY <2>1, <2>2, <2>3, Zenon
<1> HIDE DEF Handed, Again, Poison_
<1> QED
  BY <1>2, <1>4, <1>5, DeliveryQueue, Zenon

\* Entries that vanish or are left as they were.
LEMMA EntriesGo ==
    ASSUME QueueOK, stream' \in [Entries -> Entry],
           \A e \in Entries : stream'[e] = stream[e] \/ stream'[e] = NoEntry
    PROVE  StreamOK' /\ StreamSteps' \subseteq StreamSteps
<1>1. NoEntry.at = "none" /\ NoEntry.step = None
  BY DEF NoEntry
<1> QED
  BY <1>1 DEF QueueOK, StreamOK, StreamSteps

\* A free slot of the stream is well formed.
LEMMA NoEntryIsEntry == NoEntry \in Entry
BY DEF NoEntry, Entry

\* An acknowledgement forgets at most its step.
LEMMA AckQueue ==
    ASSUME QueueOK, NEW w \in Workers, Ack(w)
    PROVE  QueueOK' /\ Extra' \subseteq Extra
<1> DEFINE v(x) == IF x.at = "pending" THEN NoEntry ELSE x
<1>1. worker' = [worker EXCEPT ![w] = Idle] /\ UNCHANGED <<group, delayed, losses>>
  BY DEF Ack
<1>2. WorkersOK' /\ WorkerSteps' \subseteq WorkerSteps
  BY <1>1, WorkerMoves, IdleIsOK, Zenon DEF QueueOK
<1>3. /\ stream' \in [Entries -> Entry]
      /\ \A e \in Entries : stream'[e] = stream[e] \/ stream'[e] = NoEntry
  <2>1. stream \in [Entries -> Entry]
    BY DEF QueueOK, StreamOK
  <2> QED
    BY <2>1, NoEntryIsEntry, Zenon DEF Ack
<1>4. StreamOK' /\ StreamSteps' \subseteq StreamSteps
  BY <1>3, EntriesGo
<1> QED
  BY <1>1, <1>2, <1>4 DEF QueueOK, Extra

\* The loss of Redis forgets entries and delayed members.
LEMMA LoseRedisQueue ==
    ASSUME QueueOK, LoseRedis
    PROVE  QueueOK' /\ Extra' \subseteq Extra
<1>1. stream' = [e \in Entries |-> NoEntry] /\ group' = FALSE /\ delayed' = {} /\ worker' = worker
  BY DEF LoseRedis
<1>2. StreamOK' /\ StreamSteps' \subseteq StreamSteps
  BY <1>1, EntriesGo, NoEntryIsEntry
<1>3. losses' \in 0..MaxLosses
  BY QueueAssumption DEF LoseRedis, QueueOK
<1>4. WorkersOK' /\ WorkerSteps' = WorkerSteps
  BY <1>1 DEF QueueOK, WorkersOK, WorkerSteps
<1> QED
  BY <1>1, <1>2, <1>3, <1>4, Zenon DEF QueueOK, Extra

\* XADD: one entry more.
LEMMA EnqueueQueue ==
    ASSUME QueueOK, NEW s \in Steps, Enqueue(s)
    PROVE  StreamOK' /\ StreamSteps' \subseteq StreamSteps \cup {s}
<1> DEFINE k == Least(FreeEntries)
           v == [NoEntry EXCEPT !.at = "queued", !.step = s]
<1>1. stream' = [stream EXCEPT ![k] = v]
  BY DEF Enqueue
<1>2. v \in Entry /\ v.step = s
  BY Zenon DEF NoEntry, Entry
<1> HIDE DEF k, v
<1>3. /\ stream' \in [Entries -> Entry]
      /\ \A e \in Entries : stream'[e] = v \/ stream'[e] = stream[e]
  BY <1>1, <1>2, Zenon DEF QueueOK, StreamOK
<1> QED
  BY <1>2, <1>3 DEF QueueOK, StreamOK, StreamSteps

\* What producers add was announced in the outbox or in the delayed set.
LEMMA ProducerQueue ==
    ASSUME QueueOK, NEW s \in Steps
    PROVE  /\ \A committed : DrainOnce(s, committed) => QueueOK' /\ Extra' \subseteq Extra \cup {s}
           /\ PromoteDue(s) => QueueOK' /\ Extra' \subseteq Extra
<1>1. ASSUME NEW committed, DrainOnce(s, committed)
      PROVE  QueueOK' /\ Extra' \subseteq Extra \cup {s}
  <2>1. Enqueue(s) /\ UNCHANGED <<group, delayed, worker, losses>>
    BY <1>1 DEF DrainOnce
  <2>2. StreamOK' /\ StreamSteps' \subseteq StreamSteps \cup {s}
    BY <2>1, EnqueueQueue
  <2>3. WorkersOK' /\ WorkerSteps' = WorkerSteps
    BY <2>1 DEF QueueOK, WorkersOK, WorkerSteps
  <2> QED
    BY <2>1, <2>2, <2>3 DEF QueueOK, Extra
<1>2. ASSUME PromoteDue(s)
      PROVE  QueueOK' /\ Extra' \subseteq Extra
  <2>1. s \in delayed /\ Enqueue(s) /\ delayed' = delayed \ {s} /\ UNCHANGED <<group, worker, losses>>
    BY <1>2 DEF PromoteDue
  <2>2. StreamOK' /\ StreamSteps' \subseteq StreamSteps \cup {s}
    BY <2>1, EnqueueQueue
  <2>3. WorkersOK' /\ WorkerSteps' = WorkerSteps
    BY <2>1 DEF QueueOK, WorkersOK, WorkerSteps
  <2> QED
    BY <2>1, <2>2, <2>3 DEF QueueOK, Extra
<1> QED
  BY <1>1, <1>2

\* The delayed entry of a retry: its step was in hand.
LEMMA ScheduledQueue ==
    ASSUME QueueOK, NEW w \in Workers, NEW added, Schedule(w, added)
    PROVE  QueueOK' /\ Extra' \subseteq Extra
<1> DEFINE h == [Idle EXCEPT !.pc = "ack", !.entry = worker[w].entry, !.step = worker[w].step]
<1>1. /\ worker[w].pc # "idle" /\ UNCHANGED <<stream, group, losses>>
      /\ delayed \subseteq delayed' /\ delayed' \subseteq delayed \cup {worker[w].step}
      /\ worker' = [worker EXCEPT ![w] = h]
  BY DEF Schedule, GoAck
<1>2. worker[w].step \in Steps /\ worker[w].entry \in Entries /\ worker[w].step \in Extra
  BY <1>1, BusyStep, Zenon
<1>3. h \in Worker /\ h.pc = "ack" /\ h.step = worker[w].step /\ h.entry = worker[w].entry /\ h.claim = None
  BY <1>2, Zenon DEF Idle, Worker
<1> HIDE DEF h
<1>4. HandOK(h)
  BY <1>2, <1>3 DEF HandOK
<1>5. WorkersOK' /\ WorkerSteps' = WorkerSteps
  BY <1>1, <1>3, <1>4, WorkerMoves, Zenon DEF QueueOK
<1>6. StreamOK' /\ StreamSteps' = StreamSteps
  BY <1>1 DEF QueueOK, StreamOK, StreamSteps
<1> QED
  BY <1>1, <1>2, <1>5, <1>6 DEF QueueOK, Extra

-----------------------------------------------------------------------------
(* What a step does to the rows, the announcements and the holders.        *)

\* The steps that some claim holds.
Holders == {s \in Steps : claim[s] # None}

\* s stops running, if it was: a completion under its claim, or an unfenced takeover,
\* heal or poison letter.
FinishTurn(s) ==
    /\ Extra' = Extra /\ Holders' = Holders \ {s}
    /\ \/ P!CompleteSuccess(s) \/ (\E retryable \in BOOLEAN : P!FailStep(s, retryable))
       \/ P!CompleteValidationFailure(s) \/ P!CompleteBudgetPark(s)
       \/ P!ReconcileRunning(s) \/ P!HealCancellingStep(s)
       \/ s \in Extra /\ P!PoisonStep(s)
       \/ /\ s \in Extra /\ rows.step[s] = "running" /\ rows.run # "cancelling"
          /\ \/ P!Retries(s, TRUE) /\ rows' = P!RetryStep(rows, s)
             \/ rows' = P!ThrottleStep(rows, s)

\* Operators, clocks and the reconciler's announcements.
TendTurn ==
    /\ Extra' = Extra /\ Holders' = Holders
    /\ \/ P!Cancel \/ P!Park \/ P!Unpark
       \/ \E s \in Steps : P!Requeue(s) \/ P!BackoffElapses(s) \/ P!ReconcileDispatch(s)

\* A delivery claims s, which has no holder.
ClaimTurn(s) ==
    /\ s \in Extra /\ Extra' = Extra /\ Holders' = Holders \cup {s}
    /\ \/ P!Claimable(s) /\ rows' = P!ClaimStep(rows, s)
       \/ /\ rows.run = "running" /\ rows.step[s] = "ready"
          /\ rows' = P!ClaimStep(P!TakeoverStep(rows, s), s)

\* The queue moves, an outbox row at most goes, or a held step changes its holder.
RestTurn ==
    /\ Extra' \subseteq rows.dispatch \cup Extra /\ Holders' = Holders
    /\ \/ rows' = rows \/ \E s : rows' = [rows EXCEPT !.dispatch = @ \ {s}]
       \/ \E s \in Steps : /\ rows.step[s] = "running"
                           /\ rows' = P!ClaimStep(P!TakeoverStep(rows, s), s)

\* How each of the ledger's changes shows in the holders.
LEMMA HoldersAfter ==
    /\ claim' = claim => Holders' = Holders
    /\ \A s \in Steps : (\A t \in Steps : claim'[t] = IF t = s THEN None ELSE claim[t])
                           => Holders' = Holders \ {s}
    /\ \A s \in Steps : claim'[s] # None /\ (\A t \in Steps : t # s => claim'[t] = claim[t])
                           => Holders' = Holders \cup {s}
BY DEF Holders

\* A step that is not the queue's.
LEMMA StillQueue ==
    ASSUME QueueOK, UNCHANGED <<queue, worker>>
    PROVE  QueueOK' /\ Extra' = Extra
BY DEF QueueOK, StreamOK, WorkersOK, HandOK, Extra, StreamSteps, WorkerSteps, queue

\* Producers, deliveries, acknowledgements, crashes, drops and the loss of Redis.
LEMMA RestingTurns ==
    ASSUME QueueOK, LedgerOK, HoldersRun,
           \/ \E s \in Steps : (\E committed \in BOOLEAN : DrainOnce(s, committed)) \/ PromoteDue(s)
           \/ \E w \in Workers :
                \/ \E e \in Entries : Read(w, e) \/ Reclaim(w, e)
                \/ Ack(w) \/ Abort(w) \/ HandleDrop(w) \/ HandleTakeover(w) \/ TakeoverDrop(w)
                \/ (\E added \in BOOLEAN : Schedule(w, added)) \/ AbandonFenced(w) \/ Restart(w)
           \/ LoseRedis
    PROVE  QueueOK' /\ LedgerOK' /\ Once /\ RestTurn
<1>1. UNCHANGED <<claim, attempt>>
  BY Zenon DEF DrainOnce, PromoteDue, Read, Reclaim, Ack, Abort, HandleDrop, HandleTakeover, TakeoverDrop,
         Schedule, AbandonFenced, Restart, LoseRedis
<1>2. rows' = rows \/ \E s : rows' = [rows EXCEPT !.dispatch = @ \ {s}]
  BY Zenon DEF DrainOnce, PromoteDue, Read, Reclaim, Ack, Abort, HandleDrop, HandleTakeover, TakeoverDrop,
         Schedule, AbandonFenced, Restart, LoseRedis
<1>3. QueueOK' /\ Extra' \subseteq rows.dispatch \cup Extra
  <2>1. ASSUME NEW s \in Steps, (\E committed \in BOOLEAN : DrainOnce(s, committed)) \/ PromoteDue(s)
        PROVE  QueueOK' /\ Extra' \subseteq rows.dispatch \cup Extra
    BY <2>1, ProducerQueue DEF DrainOnce
  <2>2. ASSUME NEW w \in Workers, NEW e \in Entries, Read(w, e) \/ Reclaim(w, e)
        PROVE  QueueOK' /\ Extra' \subseteq Extra
    BY <2>2, ReadQueue
  <2>3. ASSUME NEW w \in Workers, Abort(w) \/ AbandonFenced(w)
        PROVE  QueueOK' /\ Extra' \subseteq Extra
    BY <2>3, IdleQueue DEF Abort, AbandonFenced
  <2>4. ASSUME NEW w \in Workers, HandleDrop(w) \/ TakeoverDrop(w)
        PROVE  QueueOK' /\ Extra' = Extra
    BY <2>4, GoAckQueue DEF HandleDrop, TakeoverDrop
  <2>5. ASSUME NEW w \in Workers,
               Ack(w) \/ HandleTakeover(w) \/ \E added \in BOOLEAN : Schedule(w, added)
        PROVE  QueueOK' /\ Extra' \subseteq Extra
    BY <2>5, AckQueue, HandleTakeoverQueue, ScheduledQueue
  <2>6. ASSUME NEW w \in Workers, Restart(w)
        PROVE  QueueOK' /\ Extra' = Extra
    BY <2>6 DEF Restart, QueueOK, StreamOK, WorkersOK, HandOK, Extra, StreamSteps, WorkerSteps
  <2>7. ASSUME LoseRedis
        PROVE  QueueOK' /\ Extra' \subseteq Extra
    BY <2>7, LoseRedisQueue
  <2> QED
    BY <2>1, <2>2, <2>3, <2>4, <2>5, <2>6, <2>7, Zenon
<1>4. LedgerOK' /\ Once /\ Holders' = Holders
  BY <1>1, KeepLedger, HoldersAfter
<1> QED
  BY <1>2, <1>3, <1>4, Zenon DEF RestTurn

\* Completions under the worker's own claim.
LEMMA CompletingTurns ==
    ASSUME QueueOK, LedgerOK, HoldersRun, NEW w \in Workers,
           CompleteAndAck(w) \/ CompleteAndSchedule(w)
    PROVE  QueueOK' /\ LedgerOK' /\ Once /\ \E s \in Steps : FinishTurn(s)
<1> DEFINE s == worker[w].step
<1>1. worker[w].pc = "execute" /\ Fence(w) /\ Close(w) /\ UNCHANGED queue
  BY Zenon DEF CompleteAndAck, CompleteAndSchedule
<1>2. s \in Steps /\ s \in Extra /\ worker[w].claim \in Claims
  BY <1>1, BusyStep
<1>3. LedgerOK' /\ Once /\ Holders' = Holders \ {s}
  BY <1>1, <1>2, CloseLedger, HoldersAfter
<1>4. QueueOK' /\ Extra' = Extra
  BY <1>1, GoAckQueue, ScheduleQueue, Zenon DEF CompleteAndAck, CompleteAndSchedule
<1>5. rows.step[s] = "running"
  BY <1>1 DEF Fence
<1>6. FinishTurn(s)
  BY <1>2, <1>3, <1>4, <1>5, Zenon DEF FinishTurn, CompleteAndAck, CompleteAndSchedule
<1> QED
  BY <1>2, <1>3, <1>4, <1>6

\* Poison letters, and the reconciler's takeovers and heals.
LEMMA DisplacingTurns ==
    ASSUME QueueOK, LedgerOK, HoldersRun,
           \/ \E w \in Workers : Poison(w)
           \/ \E s \in Steps : ReconcileRunning(s) \/ HealCancellingStep(s)
    PROVE  QueueOK' /\ LedgerOK' /\ Once /\ (RestTurn \/ \E s \in Steps : FinishTurn(s))
<1>1. ASSUME NEW s \in Steps, ReconcileRunning(s) \/ HealCancellingStep(s)
      PROVE  QueueOK' /\ LedgerOK' /\ Once /\ FinishTurn(s)
  <2>1. QueueOK' /\ Extra' = Extra
    BY <1>1, StillQueue DEF ReconcileRunning, HealCancellingStep
  <2>2. LedgerOK' /\ Once /\ Holders' = Holders \ {s}
    BY <1>1, LoseLedger, HoldersAfter DEF ReconcileRunning, HealCancellingStep
  <2> QED
    BY <1>1, <2>1, <2>2, Zenon DEF FinishTurn, ReconcileRunning, HealCancellingStep
<1>2. ASSUME NEW w \in Workers, Poison(w)
      PROVE  QueueOK' /\ LedgerOK' /\ Once /\ (RestTurn \/ FinishTurn(worker[w].step))
             /\ worker[w].step \in Steps
  <2> DEFINE s == worker[w].step
  <2>1. s \in Steps /\ s \in Extra
    BY <1>2, BusyStep DEF Poison
  <2>2. QueueOK' /\ Extra' = Extra
    BY <1>2, GoAckQueue DEF Poison
  <2>3. CASE P!PoisonStep(s) /\ PoisonLoses(s)
    <3>1. LedgerOK' /\ Once /\ Holders' = Holders \ {s}
      BY <2>1, <2>3, LoseLedger, HoldersAfter DEF PoisonLoses
    <3> QED
      BY <2>1, <2>2, <2>3, <3>1, Zenon DEF FinishTurn
  <2>4. CASE UNCHANGED <<rows, claim, attempt>>
    <3>1. LedgerOK' /\ Once /\ Holders' = Holders
      BY <2>4, KeepLedger, HoldersAfter
    <3> QED
      BY <2>1, <2>2, <2>4, <3>1 DEF RestTurn
  <2> QED
    BY <1>2, <2>3, <2>4 DEF Poison
<1> QED
  BY <1>1, <1>2

\* The steps of others.
LEMMA TendingTurns ==
    ASSUME QueueOK, LedgerOK, HoldersRun,
           Operate \/ \E s \in Steps : BackoffElapses(s) \/ ReconcileDispatch(s)
    PROVE  QueueOK' /\ LedgerOK' /\ Once /\ TendTurn
<1>1. UNCHANGED <<claim, attempt, queue, worker>>
  BY DEF Operate, BackoffElapses, ReconcileDispatch
<1>2. QueueOK' /\ Extra' = Extra /\ LedgerOK' /\ Once /\ Holders' = Holders
  BY <1>1, StillQueue, KeepLedger, HoldersAfter
<1> QED
  BY <1>2 DEF TendTurn, Operate, BackoffElapses, ReconcileDispatch

\* Claims: of a step without a holder, or of one whose holder the takeover displaces.
LEMMA ClaimingTurns ==
    ASSUME QueueOK, LedgerOK, HoldersRun, NEW w \in Workers, HandleClaim(w) \/ TakeoverAndClaim(w)
    PROVE  QueueOK' /\ LedgerOK' /\ Once /\ (RestTurn \/ \E s \in Steps : ClaimTurn(s))
<1> DEFINE s == worker[w].step
<1>1. worker[w].pc # "idle" /\ UNCHANGED queue
  BY DEF HandleClaim, TakeoverAndClaim
<1>2. s \in Steps /\ s \in Extra
  BY <1>1, BusyStep
<1>3. PICK lost : lost = claim[s] /\ TakeClaim(w, lost)
  <2>1. rows.step[s] # "running" => claim[s] = None
    BY <1>2 DEF HoldersRun
  <2>2. HandleClaim(w) => rows.step[s] # "running" /\ TakeClaim(w, None)
    BY DEF HandleClaim, P!Claimable
  <2> QED
    BY <2>1, <2>2 DEF TakeoverAndClaim
<1>4. LedgerOK' /\ Once /\ Holders' = Holders \cup {s}
  BY <1>2, <1>3, TakeLedger, HoldersAfter, Zenon
<1>5. PICK c \in Claims :
        worker' = [worker EXCEPT ![w] = [Idle EXCEPT !.pc = "execute", !.step = worker[w].step,
                                         !.entry = worker[w].entry, !.claim = c]]
  BY <1>2, <1>3, TakeLedger, Zenon
<1>6. QueueOK' /\ Extra' = Extra
  BY <1>1, <1>5, TakeQueue, Zenon
<1>7. CASE rows.step[s] = "running"
  <2>1. Holders' = Holders
    BY <1>2, <1>4, <1>7 DEF Holders, HoldersRun
  <2>2. rows' = P!ClaimStep(P!TakeoverStep(rows, s), s)
    BY <1>7 DEF HandleClaim, P!Claimable, TakeoverAndClaim
  <2>3. RestTurn
    BY <1>2, <1>6, <1>7, <2>1, <2>2 DEF RestTurn
  <2> QED
    BY <1>4, <1>6, <2>3
<1>8. CASE rows.step[s] # "running"
  <2>1. ClaimTurn(s)
    BY <1>2, <1>4, <1>6, <1>8 DEF ClaimTurn, HandleClaim, TakeoverAndClaim, HolderStillThere
  <2> QED
    BY <1>2, <1>4, <1>6, <2>1
<1> QED
  BY <1>7, <1>8

\* Every step of the fleet is one of the four.
LEMMA StepTurns ==
    ASSUME QueueOK, LedgerOK, HoldersRun, Next
    PROVE  /\ QueueOK' /\ LedgerOK' /\ Once
           /\ RestTurn \/ TendTurn \/ \E s \in Steps : FinishTurn(s) \/ ClaimTurn(s)
<1>1. CASE \/ \E s \in Steps : (\E committed \in BOOLEAN : DrainOnce(s, committed)) \/ PromoteDue(s)
           \/ \E w \in Workers :
                \/ \E e \in Entries : Read(w, e) \/ Reclaim(w, e)
                \/ Ack(w) \/ Abort(w) \/ HandleDrop(w) \/ HandleTakeover(w) \/ TakeoverDrop(w)
                \/ (\E added \in BOOLEAN : Schedule(w, added)) \/ AbandonFenced(w) \/ Restart(w)
           \/ LoseRedis
  BY <1>1, RestingTurns, Zenon
<1>2. CASE \E w \in Workers : CompleteAndAck(w) \/ CompleteAndSchedule(w)
  BY <1>2, CompletingTurns, Zenon
<1>3. CASE \/ \E w \in Workers : Poison(w)
           \/ \E s \in Steps : ReconcileRunning(s) \/ HealCancellingStep(s)
  BY <1>3, DisplacingTurns, Zenon
<1>4. CASE Operate \/ \E s \in Steps : BackoffElapses(s) \/ ReconcileDispatch(s)
  BY <1>4, TendingTurns, Zenon
<1>5. CASE \E w \in Workers : HandleClaim(w) \/ TakeoverAndClaim(w)
  BY <1>5, ClaimingTurns, Zenon
<1> QED
  BY <1>1, <1>2, <1>3, <1>4, <1>5, Zenon DEF Next

=============================================================================
