------------------------ MODULE ConsumerGroupProofs ------------------------
(***************************************************************************)
(* For any number of consumers and entries, any batch size and any         *)
(* thresholds: no entry is lost, as long as no live process is silent for  *)
(* the janitor's threshold, and no lease is taken from a live handler.     *)
(***************************************************************************)
EXTENDS ConsumerGroup, WellFoundedInduction, TLAPS

Fields == {"pc", "hand", "cursor", "orphans", "minId", "trimDue", "stop", "beating", "stopped", "held"}

\* The processes are records with these fields; what hand and cursor hold does not matter.
Shape ==
    /\ proc = [c \in Consumers |-> proc[c]]
    /\ \A c \in Consumers : proc[c] = [f \in Fields |-> proc[c][f]]
    /\ \A c \in Consumers : proc[c].minId \in Int

RedisTypes ==
    /\ added \in Nat /\ delivered \in Nat /\ trimmed \in Nat
    /\ delivered <= added /\ added <= MaxId /\ 1 <= trimmed /\ trimmed <= delivered + 1
    /\ pel \in [Ids -> [owner : Consumers \cup {None}, idle : Nat, count : Nat]]
    /\ seen \in [Consumers -> 0..JanitorIdle \cup {None}]

\* Only delivered entries are pending.
PendingDelivered == \A i \in Ids : pel[i].owner # None => i <= delivered

\* What a trim pass knows: after XINFO that its threshold is not above the first
\* undelivered id, after XPENDING that everything below it is acknowledged, now and
\* therefore for ever.
TrimKnows ==
    \A c \in Consumers :
        /\ proc[c].pc \in {"trim", "xtrim"} => proc[c].minId <= delivered + 1
        /\ proc[c].pc = "xtrim" => \A i \in 1..added : i < proc[c].minId => i \in acked

\* Only the dead reach the janitor's threshold, they own nothing once a janitor has
\* found them, and neither does a consumer about to deregister.
OrphansOwnNothing ==
    /\ \A c \in Consumers : proc[c].pc # "down" => seen[c] # JanitorIdle
    /\ \A c, d \in Consumers : d \in proc[c].orphans => proc[d].pc = "down" /\ \A i \in Ids : pel[i].owner # d
    /\ \A c \in Consumers : proc[c].pc = "deregister" => \A i \in Ids : pel[i].owner # c

IInv == Shape /\ RedisTypes /\ PendingDelivered /\ TrimKnows /\ OrphansOwnNothing /\ NothingForgotten

-----------------------------------------------------------------------------
(* One step of one process.                                                *)

\* A process record.
IsProc(r) == r = [f \in Fields |-> r[f]] /\ r.minId \in Int

Owner(i) == pel[i].owner

\* What a step of process c that leaves it as r may do to Redis: types and the safety
\* property are kept, acknowledgements stay, nothing is given to another consumer, and
\* nothing to c unless it runs.
RedisStep(c) ==
    /\ RedisTypes' /\ PendingDelivered' /\ NothingForgotten'
    /\ added' = added /\ delivered <= delivered' /\ acked \subseteq acked'
    /\ \A d \in Consumers \ {c} : seen'[d] \in {seen[d], None}
    /\ \A i \in Ids : Owner(i)' \in {Owner(i), None, c}
    /\ \A i \in Ids : Owner(i)' = c => Owner(i) = c \/ proc[c].pc # "down"

\* What it may do to its own record.
ProcStep(c, r) ==
    /\ IsProc(r) /\ proc' = [proc EXCEPT ![c] = r]
    /\ r.pc \in {"trim", "xtrim"} => r.minId <= delivered + 1
    /\ r.pc = "xtrim" => \A i \in 1..added : i < r.minId => i \in acked
    /\ r.pc # "down" => proc[c].pc # "down" /\ seen'[c] # JanitorIdle
    /\ \A d \in Consumers : d \in r.orphans =>
          \/ d \in proc[c].orphans
          \/ d # c /\ proc[d].pc = "down" /\ \A i \in Ids : Owner(i) # d
    /\ r.pc = "deregister" => \A i \in Ids : Owner(i)' # c

\* Such a step keeps the invariant.
LEMMA StepKeeps ==
    ASSUME IInv, NEW c \in Consumers, NEW r, RedisStep(c), ProcStep(c, r)
    PROVE  IInv'
<1>1. /\ proc'[c] = r
      /\ \A d \in Consumers : d # c => proc'[d] = proc[d]
      /\ proc' = [d \in Consumers |-> proc'[d]]
  BY DEF IInv, Shape, ProcStep
<1>2. Shape'
  BY <1>1 DEF IInv, Shape, ProcStep, IsProc
<1>3. TrimKnows'
  <2> SUFFICES ASSUME NEW d \in Consumers
               PROVE  /\ proc'[d].pc \in {"trim", "xtrim"} => proc'[d].minId <= delivered' + 1
                      /\ proc'[d].pc = "xtrim" => \A i \in 1..added' : i < proc'[d].minId => i \in acked'
    BY DEF TrimKnows
  <2>1. proc'[d].minId \in Int /\ delivered \in Nat /\ delivered' \in Nat
    BY <1>2 DEF Shape, IInv, RedisTypes, RedisStep
  <2>2. CASE d = c
    BY <1>1, <2>1, <2>2 DEF ProcStep, RedisStep
  <2>3. CASE d # c
    BY <1>1, <2>1, <2>3 DEF IInv, TrimKnows, RedisStep
  <2> QED
    BY <2>2, <2>3
<1>4. \A d \in Consumers : proc'[d].pc # "down" => seen'[d] # JanitorIdle
  BY <1>1, ConsumerAssumption DEF IInv, OrphansOwnNothing, ProcStep, RedisStep
<1>5. \A d, e \in Consumers : e \in proc'[d].orphans =>
          proc'[e].pc = "down" /\ \A i \in Ids : Owner(i)' # e
  <2> SUFFICES ASSUME NEW d \in Consumers, NEW e \in Consumers, e \in proc'[d].orphans
               PROVE  proc'[e].pc = "down" /\ \A i \in Ids : Owner(i)' # e
    OBVIOUS
  <2>1. proc[e].pc = "down" /\ \A i \in Ids : Owner(i) # e
    BY <1>1 DEF IInv, OrphansOwnNothing, ProcStep, Owner
  <2>2. proc'[e].pc = "down"
    BY <1>1, <2>1 DEF ProcStep
  <2>3. e # None
    BY ConsumerAssumption
  <2> QED
    BY <2>1, <2>2, <2>3 DEF RedisStep
<1>6. \A d \in Consumers : proc'[d].pc = "deregister" => \A i \in Ids : Owner(i)' # d
  BY <1>1, ConsumerAssumption DEF IInv, OrphansOwnNothing, ProcStep, RedisStep, Owner
<1> QED
  BY <1>2, <1>3, <1>4, <1>5, <1>6 DEF IInv, RedisStep, OrphansOwnNothing, Owner

\* A step that sends nothing, or whose command changes nothing, is such a step.
LEMMA Quiet ==
    ASSUME IInv, NEW c \in Consumers, UNCHANGED redis
    PROVE  RedisStep(c)
BY DEF IInv, redis, RedisStep, RedisTypes, PendingDelivered, NothingForgotten, Owner, Pending

\* A process that goes on: it keeps its trim threshold and its orphans and does not
\* enter a state that the invariant speaks of.
LEMMA GoesOn ==
    ASSUME IInv, NEW c \in Consumers, NEW r, IsProc(r), proc' = [proc EXCEPT ![c] = r],
           r.orphans = proc[c].orphans, r.minId = proc[c].minId,
           r.pc = proc[c].pc \/ r.pc \notin {"trim", "xtrim", "deregister", "down"},
           proc[c].pc # "down", RedisStep(c),
           seen'[c] # JanitorIdle, \A i \in Ids : Owner(i)' = c => Owner(i) = c \/ proc[c].pc # "deregister"
    PROVE  IInv'
<1>1. ProcStep(c, r)
  BY DEF ProcStep, IInv, TrimKnows, OrphansOwnNothing, Owner, RedisStep
<1> QED
  BY <1>1, StepKeeps

\* A process that dies.
LEMMA Dies ==
    ASSUME IInv, NEW c \in Consumers, Becomes(c, Down), RedisStep(c)
    PROVE  IInv'
<1>1. IsProc(Down) /\ Down.pc = "down" /\ Down.orphans = {}
  BY DEF Down, Fresh, IsProc, Fields
<1>2. ProcStep(c, Down)
  BY <1>1 DEF ProcStep, Becomes
<1> QED
  BY <1>2, StepKeeps

\* The processes are process records.
LEMMA ProcIsProc ==
    ASSUME IInv, NEW c \in Consumers
    PROVE  IsProc(proc[c])
BY DEF IInv, Shape, IsProc

\* The loop is done with the entry at the head.
LEMMA NextInHandIsProc ==
    ASSUME IInv, NEW c \in Consumers, NEW r, r = NextInHand(c)
    PROVE  IsProc(r) /\ r.pc = "work" /\ r.orphans = proc[c].orphans /\ r.minId = proc[c].minId
BY ProcIsProc, Zenon DEF NextInHand, IsProc, Fields

-----------------------------------------------------------------------------
(* The actions.                                                            *)

\* Steps of the loop that send nothing, or whose call fails.
LocalStep(c) ==
    \/ DeliveryCounts(c) \/ CountsFail(c) \/ HandEmpty(c) \/ Abandon(c) \/ Process(c)
    \/ HandlerReturns(c) \/ HandlerFails(c) \/ DivertPoison(c) \/ DivertFails(c) \/ AckFails(c)
    \/ Shutdown(c) \/ DrainExpires(c) \/ Stall(c) \/ Resume(c) \/ HeartbeatFails(c)

\* Steps that change nothing in Redis and only move the process along.
LEMMA LocalKeeps ==
    ASSUME IInv, NEW c \in Consumers, LocalStep(c)
    PROVE  IInv'
<1> DEFINE Goes(r) == /\ IsProc(r) /\ Becomes(c, r)
                      /\ r.orphans = proc[c].orphans /\ r.minId = proc[c].minId
                      /\ r.pc = proc[c].pc \/ r.pc \notin {"trim", "xtrim", "deregister", "down"}
<1>0. IsProc(proc[c])
  BY ProcIsProc
<1>1. UNCHANGED redis /\ proc[c].pc # "down"
  BY Zenon DEF LocalStep, DeliveryCounts, CountsFail, HandEmpty, Abandon, Process, HandlerReturns,
         HandlerFails, DivertPoison, DivertFails, AckFails, Shutdown, DrainExpires, Stall, Resume,
         HeartbeatFails, At
<1>2. \E r : Goes(r)
  <2>1. CASE DeliveryCounts(c) \/ CountsFail(c)
    <3>1. PICK h : Becomes(c, [proc[c] EXCEPT !.pc = "work", !.hand = h])
                   \/ Becomes(c, [proc[c] EXCEPT !.pc = "loop", !.hand = h])
      BY <2>1, Zenon DEF DeliveryCounts, CountsFail
    <3>2. \A v : v \in {"work", "loop"} => 
             LET r == [proc[c] EXCEPT !.pc = v, !.hand = h]
             IN  IsProc(r) /\ r.pc = v /\ r.orphans = proc[c].orphans /\ r.minId = proc[c].minId
      BY <1>0, Zenon DEF IsProc, Fields
    <3> QED
      BY <3>1, <3>2, Zenon
  <2>2. CASE HandEmpty(c) \/ DivertPoison(c)
    <3>1. \A v : LET r == [proc[c] EXCEPT !.pc = v]
                 IN  IsProc(r) /\ r.pc = v /\ r.orphans = proc[c].orphans /\ r.minId = proc[c].minId
      BY <1>0 DEF IsProc, Fields
    <3>2. PICK v \in {"loop", "ack"} : Becomes(c, [proc[c] EXCEPT !.pc = v])
      BY <2>2 DEF HandEmpty, DivertPoison, Go
    <3>3. Goes([proc[c] EXCEPT !.pc = v])
      BY <3>1, <3>2
    <3> QED
      BY <3>3, Zenon
  <2>3. CASE Becomes(c, NextInHand(c))
    BY <2>3, NextInHandIsProc
  <2>4. CASE Process(c) /\ ~Becomes(c, NextInHand(c))
    <3> DEFINE r == [proc[c] EXCEPT !.pc = "handle", !.beating = "wait"]
    <3>1. IsProc(r) /\ r.pc = "handle" /\ r.orphans = proc[c].orphans /\ r.minId = proc[c].minId
      BY <1>0, Zenon DEF IsProc, Fields
    <3>2. Becomes(c, r)
      BY <2>4 DEF Process
    <3> QED
      BY <3>1, <3>2, Zenon
  <2>5. CASE HandlerReturns(c)
    <3> DEFINE r == [proc[c] EXCEPT !.pc = "ack", !.beating = "off", !.held = 0]
    <3>1. IsProc(r) /\ r.pc = "ack" /\ r.orphans = proc[c].orphans /\ r.minId = proc[c].minId
      BY <1>0, Zenon DEF IsProc, Fields
    <3> QED
      BY <2>5, <3>1, Zenon DEF HandlerReturns
  <2>6. CASE Shutdown(c) \/ DrainExpires(c)
    <3>1. \A v : LET r == [proc[c] EXCEPT !.stop = v]
                 IN  IsProc(r) /\ r.pc = proc[c].pc /\ r.orphans = proc[c].orphans /\ r.minId = proc[c].minId
      BY <1>0 DEF IsProc, Fields
    <3> QED
      BY <2>6, <3>1, Zenon DEF Shutdown, DrainExpires
  <2>7. CASE Stall(c)
    <3> DEFINE r == [proc[c] EXCEPT !.stopped = TRUE, !.held = 0]
    <3>1. IsProc(r) /\ r.pc = proc[c].pc /\ r.orphans = proc[c].orphans /\ r.minId = proc[c].minId
      BY <1>0, Zenon DEF IsProc, Fields
    <3> QED
      BY <2>7, <3>1, Zenon DEF Stall
  <2>8. CASE Resume(c)
    <3> DEFINE r == [proc[c] EXCEPT !.stopped = FALSE]
    <3>1. IsProc(r) /\ r.pc = proc[c].pc /\ r.orphans = proc[c].orphans /\ r.minId = proc[c].minId
      BY <1>0, Zenon DEF IsProc, Fields
    <3> QED
      BY <2>8, <3>1, Zenon DEF Resume
  <2>9. CASE HeartbeatFails(c)
    <3>1. PICK n : Becomes(c, [proc[c] EXCEPT !.beating = "wait", !.held = n])
      BY <2>9, Zenon DEF HeartbeatFails
    <3>2. LET r == [proc[c] EXCEPT !.beating = "wait", !.held = n]
          IN  IsProc(r) /\ r.pc = proc[c].pc /\ r.orphans = proc[c].orphans /\ r.minId = proc[c].minId
      BY <1>0, Zenon DEF IsProc, Fields
    <3> QED
      BY <3>1, <3>2, Zenon
  <2> QED
    BY <2>1, <2>2, <2>3, <2>4, <2>5, <2>6, <2>7, <2>8, <2>9
       DEF LocalStep, Abandon, HandlerFails, DivertFails, AckFails
<1>3. RedisStep(c) /\ seen'[c] # JanitorIdle
  BY <1>1, Quiet DEF redis, IInv, OrphansOwnNothing
<1>4. \A i \in Ids : Owner(i)' = Owner(i)
  BY <1>1 DEF redis, Owner
<1>5. PICK r : Goes(r)
  BY <1>2
<1> QED
  BY <1>1, <1>3, <1>4, <1>5, GoesOn, Zenon DEF Becomes

\* Where an entry is that has not been acknowledged.
LEMMA WhereItIs ==
    ASSUME IInv, NEW i \in 1..added, i \notin acked
    PROVE  i \in Ids /\ i \in Nat /\ i >= trimmed /\ (i > delivered \/ Owner(i) # None)
<1>1. i \in Nat /\ i \in Ids
  BY ConsumerAssumption DEF IInv, RedisTypes, Ids
<1> QED
  BY <1>1 DEF IInv, NothingForgotten, Pending, Owner

\* A read gives c the next entries, which are in the stream.
LEMMA ReadStep ==
    ASSUME IInv, NEW c \in Consumers, Read(c)
    PROVE  RedisStep(c) /\ proc[c].pc = "loop" /\ seen'[c] # JanitorIdle
<1> DEFINE last == Lesser(delivered + Batch, added)
<1>1. /\ delivered < added /\ delivered' = last /\ proc[c].pc = "loop"
      /\ pel' = Leased(c, (delivered + 1)..last, [i \in Ids |-> 1])
      /\ seen' = [seen EXCEPT ![c] = 0]
      /\ added' = added /\ trimmed' = trimmed /\ acked' = acked
  BY DEF Read, At
<1>2. last \in Nat /\ delivered < last /\ last <= added
  BY <1>1, ConsumerAssumption DEF Lesser, IInv, RedisTypes
<1>3. \A i \in Ids : pel'[i] = IF i \in (delivered + 1)..last
                               THEN [owner |-> c, idle |-> 0, count |-> 1] ELSE pel[i]
  BY <1>1 DEF Leased
<1>4. seen'[c] = 0 /\ \A d \in Consumers : d # c => seen'[d] = seen[d]
  BY <1>1 DEF IInv, RedisTypes
<1>5. RedisTypes'
  <2>1. pel' \in [Ids -> [owner : Consumers \cup {None}, idle : Nat, count : Nat]]
    BY <1>1 DEF Leased, IInv, RedisTypes
  <2>2. seen' \in [Consumers -> 0..JanitorIdle \cup {None}]
    BY <1>1, ConsumerAssumption DEF IInv, RedisTypes
  <2> QED
    BY <1>1, <1>2, <2>1, <2>2 DEF IInv, RedisTypes
<1>6. PendingDelivered'
  <2> SUFFICES ASSUME NEW i \in Ids, pel'[i].owner # None
               PROVE  i <= last
    BY <1>1 DEF PendingDelivered
  <2>1. i \in Nat
    BY ConsumerAssumption DEF Ids
  <2>2. CASE i \in (delivered + 1)..last
    BY <2>2
  <2>3. CASE i \notin (delivered + 1)..last
    <3>1. i <= delivered
      BY <1>3, <2>3 DEF IInv, PendingDelivered
    <3> QED
      BY <1>2, <2>1, <3>1 DEF IInv, RedisTypes
  <2> QED
    BY <2>2, <2>3
<1>7. NothingForgotten'
  <2> SUFFICES ASSUME NEW i \in 1..added, i \notin acked
               PROVE  i >= trimmed /\ (i > delivered' \/ i \in Pending')
    BY <1>1 DEF NothingForgotten
  <2>1. i \in Ids /\ i \in Nat /\ i >= trimmed /\ (i > delivered \/ Owner(i) # None)
    BY WhereItIs
  <2>2. c # None
    BY ConsumerAssumption
  <2>3. CASE i \in (delivered + 1)..last
    BY <1>3, <2>1, <2>2, <2>3 DEF Pending
  <2>4. CASE i \notin (delivered + 1)..last
    <3>1. i > last \/ i <= delivered
      BY <1>2, <2>1, <2>4 DEF IInv, RedisTypes
    <3>2. pel'[i] = pel[i]
      BY <1>3, <2>1, <2>4
    <3> QED
      BY <1>1, <2>1, <3>1, <3>2 DEF Pending, Owner, IInv, RedisTypes
  <2> QED
    BY <2>3, <2>4
<1>8. \A i \in Ids : Owner(i)' \in {Owner(i), None, c}
  BY <1>3 DEF Owner
<1> QED
  <2>1. delivered <= delivered' /\ seen'[c] # JanitorIdle
    BY <1>1, <1>2, <1>4, ConsumerAssumption DEF IInv, RedisTypes
  <2>2. proc[c].pc # "down"
    BY <1>1
  <2> QED
    BY <1>1, <1>4, <1>5, <1>6, <1>7, <1>8, <2>1, <2>2, Zenon DEF RedisStep

\* Changes to pending entries that keep what is pending, or acknowledge what they drop,
\* and that give entries only to a process that runs.
LEMMA PelStep ==
    ASSUME IInv, NEW c \in Consumers,
           UNCHANGED <<added, delivered, trimmed>>, acked \subseteq acked',
           pel' \in [Ids -> [owner : Consumers \cup {None}, idle : Nat, count : Nat]],
           seen' \in [Consumers -> 0..JanitorIdle \cup {None}],
           \A d \in Consumers \ {c} : seen'[d] \in {seen[d], None},
           \A i \in Ids : Owner(i)' \in {Owner(i), None, c},
           \A i \in Ids : Owner(i)' = c => Owner(i) = c \/ (Owner(i) # None /\ proc[c].pc # "down"),
           \A i \in Ids : Owner(i)' = None => Owner(i) = None \/ i \in acked'
    PROVE  RedisStep(c)
<1>1. c # None
  BY ConsumerAssumption
<1>2. RedisTypes'
  BY DEF IInv, RedisTypes
<1>3. PendingDelivered'
  BY <1>1 DEF IInv, PendingDelivered, Owner
<1>4. NothingForgotten'
  <2> SUFFICES ASSUME NEW i \in 1..added, i \notin acked'
               PROVE  i >= trimmed /\ (i > delivered \/ i \in Pending')
    BY DEF NothingForgotten
  <2>1. i \in Ids /\ i >= trimmed /\ (i > delivered \/ Owner(i) # None)
    BY WhereItIs
  <2> QED
    BY <2>1 DEF Pending, Owner
<1> QED
  BY <1>2, <1>3, <1>4 DEF RedisStep, IInv, RedisTypes

\* Reads, with the reply received or lost.
LEMMA ReadKeeps ==
    ASSUME IInv, NEW c \in Consumers, ReadGroup(c) \/ ReadFails(c)
    PROVE  IInv'
<1>0. IsProc(proc[c])
  BY ProcIsProc
<1>1. RedisStep(c) /\ proc[c].pc = "loop" /\ seen'[c] # JanitorIdle
  BY ReadStep DEF ReadGroup, ReadFails
<1>2. CASE ReadGroup(c)
  <2>1. PICK h : Becomes(c, [proc[c] EXCEPT !.pc = "work", !.hand = h])
    BY <1>2, Zenon DEF ReadGroup
  <2> DEFINE r == [proc[c] EXCEPT !.pc = "work", !.hand = h]
  <2>2. IsProc(r) /\ r.pc = "work" /\ r.orphans = proc[c].orphans /\ r.minId = proc[c].minId
    BY <1>0, Zenon DEF IsProc, Fields
  <2> QED
    BY <1>1, <2>1, <2>2, GoesOn, Zenon DEF Becomes
<1>3. CASE ReadFails(c)
  <2>1. proc' = [proc EXCEPT ![c] = proc[c]]
    BY <1>3 DEF ReadFails, IInv, Shape
  <2> QED
    BY <1>0, <1>1, <2>1, GoesOn, Zenon
<1> QED
  BY <1>2, <1>3

\* A reclaim moves lapsed entries to c, which runs.
LEMMA AutoClaimKeeps ==
    ASSUME IInv, NEW c \in Consumers, AutoClaim(c)
    PROVE  IInv'
<1>0. IsProc(proc[c])
  BY ProcIsProc
<1>1. proc[c].pc = "loop" /\ UNCHANGED <<added, delivered, trimmed, acked>>
  BY DEF AutoClaim, At
<1>2. \A i \in Claimed(c) : i \in Ids /\ Owner(i) # None
  BY DEF Claimed, Lapsed, Pending, Owner
<1>3. Counted \in [Ids -> Nat]
  BY ConsumerAssumption DEF Counted, Lesser, IInv, RedisTypes
<1>4. pel' = Leased(c, Claimed(c), Counted) /\ seen' = [seen EXCEPT ![c] = 0]
  BY DEF AutoClaim
<1>5. pel' \in [Ids -> [owner : Consumers \cup {None}, idle : Nat, count : Nat]]
  BY <1>3, <1>4 DEF Leased, IInv, RedisTypes
<1>6. \A i \in Ids : Owner(i)' = IF i \in Claimed(c) THEN c ELSE Owner(i)
  BY <1>4 DEF Leased, Owner
<1>7. /\ seen' \in [Consumers -> 0..JanitorIdle \cup {None}]
      /\ seen'[c] # JanitorIdle /\ \A d \in Consumers \ {c} : seen'[d] = seen[d]
  BY <1>4, ConsumerAssumption DEF IInv, RedisTypes
<1>8. RedisStep(c)
  BY <1>1, <1>2, <1>5, <1>6, <1>7, ConsumerAssumption, PelStep
<1>9. PICK v \in {"loop", "counts"} :
         \E n, h : Becomes(c, [proc[c] EXCEPT !.pc = v, !.cursor = n, !.hand = h])
  BY Zenon DEF AutoClaim
<1>10. PICK n, h : Becomes(c, [proc[c] EXCEPT !.pc = v, !.cursor = n, !.hand = h])
  BY <1>9, Zenon
<1> DEFINE r == [proc[c] EXCEPT !.pc = v, !.cursor = n, !.hand = h]
<1>11. IsProc(r) /\ r.pc = v /\ r.orphans = proc[c].orphans /\ r.minId = proc[c].minId
  BY <1>0, Zenon DEF IsProc, Fields
<1> QED
  BY <1>1, <1>7, <1>8, <1>9, <1>10, <1>11, GoesOn, Zenon DEF Becomes

\* A heartbeat leaves every entry with its owner.
LEMMA HeartbeatKeeps ==
    ASSUME IInv, NEW c \in Consumers, Heartbeat(c)
    PROVE  IInv'
<1>0. IsProc(proc[c])
  BY ProcIsProc
<1>1. proc[c].pc = "handle" /\ UNCHANGED <<added, delivered, trimmed, acked>>
  BY DEF Heartbeat, At
<1>2. CASE InHand(c) \in OwnedBy(c)
  <2> DEFINE i0 == InHand(c)
  <2> DEFINE r == [proc[c] EXCEPT !.beating = "wait", !.held = LeaseTTL - 1]
  <2>1. /\ i0 \in Ids /\ pel' = [pel EXCEPT ![i0].idle = 0]
        /\ seen' = [seen EXCEPT ![c] = 0] /\ Becomes(c, r)
    BY <1>2 DEF Heartbeat, OwnedBy
  <2>2. /\ pel' \in [Ids -> [owner : Consumers \cup {None}, idle : Nat, count : Nat]]
        /\ \A i \in Ids : Owner(i)' = Owner(i)
    <3> HIDE DEF i0
    <3> QED
      BY <2>1 DEF IInv, RedisTypes, Owner
  <2>3. /\ seen' \in [Consumers -> 0..JanitorIdle \cup {None}]
        /\ seen'[c] # JanitorIdle /\ \A d \in Consumers \ {c} : seen'[d] = seen[d]
    BY <2>1, ConsumerAssumption DEF IInv, RedisTypes
  <2>4. RedisStep(c)
    BY <1>1, <2>2, <2>3, PelStep
  <2>5. IsProc(r) /\ r.pc = proc[c].pc /\ r.orphans = proc[c].orphans /\ r.minId = proc[c].minId
    BY <1>0, Zenon DEF IsProc, Fields
  <2> QED
    BY <1>1, <2>1, <2>2, <2>3, <2>4, <2>5, GoesOn, Zenon DEF Becomes
<1>3. CASE InHand(c) \notin OwnedBy(c)
  <2> DEFINE r == [proc[c] EXCEPT !.beating = "off", !.held = 0]
  <2>1. Becomes(c, r) /\ UNCHANGED redis
    BY <1>1, <1>3 DEF Heartbeat, redis
  <2>2. IsProc(r) /\ r.pc = proc[c].pc /\ r.orphans = proc[c].orphans /\ r.minId = proc[c].minId
    BY <1>0, Zenon DEF IsProc, Fields
  <2>3. RedisStep(c) /\ seen'[c] # JanitorIdle
    BY <1>1, <2>1, Quiet DEF redis, IInv, OrphansOwnNothing
  <2> QED
    BY <1>1, <2>1, <2>2, <2>3, GoesOn, Zenon DEF Becomes
<1> QED
  BY <1>2, <1>3

\* An acknowledgement drops the entry it acknowledges.
LEMMA AckKeeps ==
    ASSUME IInv, NEW c \in Consumers, Ack(c)
    PROVE  IInv'
<1> DEFINE i0 == InHand(c)
<1>1. /\ proc[c].pc = "ack" /\ UNCHANGED <<added, delivered, trimmed, seen>>
      /\ pel' = [pel EXCEPT ![i0] = NotPending] /\ acked' = acked \cup {i0}
      /\ Becomes(c, NextInHand(c))
  BY DEF Ack, At
<1> HIDE DEF i0
<1>2. /\ pel' \in [Ids -> [owner : Consumers \cup {None}, idle : Nat, count : Nat]]
      /\ \A i \in Ids : Owner(i)' = IF i = i0 THEN None ELSE Owner(i)
  BY <1>1, Zenon DEF IInv, RedisTypes, Owner, NotPending
<1>3. RedisStep(c)
  BY <1>1, <1>2, ConsumerAssumption, PelStep DEF IInv, RedisTypes
<1>4. PICK r : r = NextInHand(c)
  OBVIOUS
<1> QED
  BY <1>1, <1>2, <1>3, <1>4, NextInHandIsProc, GoesOn, Zenon DEF Becomes, IInv, OrphansOwnNothing

\* Deregistering a consumer that owns nothing changes no pending entry.
LEMMA DeregisterStep ==
    ASSUME IInv, NEW c \in Consumers, NEW d \in Consumers, Deregister(d),
           UNCHANGED <<added, delivered, trimmed, acked>>, \A i \in Ids : Owner(i) # d
    PROVE  RedisStep(c) /\ pel' = pel /\ seen' = [seen EXCEPT ![d] = None]
<1>1. pel' = pel
  <2>1. pel' = [i \in Ids |-> pel[i]]
    BY DEF Deregister, Owner
  <2> QED
    BY <2>1 DEF IInv, RedisTypes
<1>2. /\ seen' = [seen EXCEPT ![d] = None]
      /\ seen' \in [Consumers -> 0..JanitorIdle \cup {None}]
      /\ \A e \in Consumers \ {c} : seen'[e] \in {seen[e], None}
  BY DEF Deregister, IInv, RedisTypes
<1> QED
  BY <1>1, <1>2, PelStep, ConsumerAssumption DEF IInv, RedisTypes, Owner

\* The janitor deletes a consumer that was found dead and empty.
LEMMA JanitorDeleteKeeps ==
    ASSUME IInv, NEW c \in Consumers, NEW d \in Consumers, JanitorDelete(c, d)
    PROVE  IInv'
<1>0. IsProc(proc[c])
  BY ProcIsProc
<1>1. /\ proc[c].pc = "janitor" /\ d \in proc[c].orphans /\ Deregister(d)
      /\ UNCHANGED <<added, delivered, trimmed, acked>>
  BY DEF JanitorDelete, At
<1>2. proc[d].pc = "down" /\ \A i \in Ids : Owner(i) # d
  BY <1>1 DEF IInv, OrphansOwnNothing, Owner
<1>3. RedisStep(c) /\ pel' = pel /\ seen' = [seen EXCEPT ![d] = None]
  BY <1>1, <1>2, DeregisterStep
<1>4. PICK v \in {"loop", "janitor"} : Becomes(c, [proc[c] EXCEPT !.orphans = @ \ {d}, !.pc = v])
  BY Zenon DEF JanitorDelete
<1> DEFINE r == [proc[c] EXCEPT !.orphans = @ \ {d}, !.pc = v]
<1>5. IsProc(r) /\ r.pc = v /\ r.orphans = proc[c].orphans \ {d}
  BY <1>0, Zenon DEF IsProc, Fields
<1>6. seen'[c] # JanitorIdle
  BY <1>1, <1>2, <1>3 DEF IInv, OrphansOwnNothing, RedisTypes
<1>7. ProcStep(c, r)
  BY <1>1, <1>4, <1>5, <1>6 DEF ProcStep, Becomes
<1> QED
  BY <1>3, <1>7, StepKeeps

\* XINFO finds only consumers that are dead and own nothing.
LEMMA JanitorInfoKeeps ==
    ASSUME IInv, NEW c \in Consumers, JanitorInfo(c)
    PROVE  IInv'
<1>0. IsProc(proc[c])
  BY ProcIsProc
<1> DEFINE found == {d \in Consumers \ {c} : seen[d] = JanitorIdle /\ OwnedBy(d) = {}}
<1> DEFINE r == [proc[c] EXCEPT !.pc = "janitor", !.orphans = found]
<1>1. proc[c].pc = "loop" /\ Becomes(c, r) /\ UNCHANGED redis
  BY DEF JanitorInfo, At
<1>2. \A d \in found : d # c /\ proc[d].pc = "down" /\ \A i \in Ids : Owner(i) # d
  BY DEF IInv, OrphansOwnNothing, OwnedBy, Owner
<1> HIDE DEF found
<1>3. IsProc(r) /\ r.pc = "janitor" /\ r.orphans = found
  BY <1>0, Zenon DEF IsProc, Fields
<1>4. RedisStep(c) /\ seen'[c] # JanitorIdle
  BY <1>1, Quiet DEF redis, IInv, OrphansOwnNothing
<1>5. ProcStep(c, r)
  BY <1>1, <1>2, <1>3, <1>4 DEF ProcStep, Becomes
<1> QED
  BY <1>4, <1>5, StepKeeps

\* A failed duty forgets what it had learned.
LEMMA DutyFailsKeeps ==
    ASSUME IInv, NEW c \in Consumers, DutyFails(c)
    PROVE  IInv'
<1>0. IsProc(proc[c])
  BY ProcIsProc
<1> DEFINE r == [proc[c] EXCEPT !.pc = "loop", !.orphans = {}, !.minId = 1]
<1>1. proc[c].pc # "down" /\ Becomes(c, r) /\ UNCHANGED redis
  BY DEF DutyFails, At
<1>2. IsProc(r) /\ r.pc = "loop" /\ r.orphans = {}
  <2>1. \A n \in Int : LET q == [proc[c] EXCEPT !.pc = "loop", !.orphans = {}, !.minId = n]
                       IN  IsProc(q) /\ q.pc = "loop" /\ q.orphans = {}
    BY <1>0, Zenon DEF IsProc, Fields
  <2>2. 1 \in Int
    OBVIOUS
  <2> QED
    BY <2>1, <2>2, Zenon
<1>3. RedisStep(c) /\ seen'[c] # JanitorIdle
  BY <1>1, Quiet DEF redis, IInv, OrphansOwnNothing
<1>4. ProcStep(c, r)
  BY <1>1, <1>2, <1>3 DEF ProcStep, Becomes
<1> QED
  BY <1>3, <1>4, StepKeeps

\* A graceful exit deregisters only if nothing is pending.
LEMMA ExitKeeps ==
    ASSUME IInv, NEW c \in Consumers, FinishShutdown(c) \/ DelConsumer(c) \/ Crash(c)
    PROVE  IInv'
<1>0. IsProc(proc[c])
  BY ProcIsProc
<1>1. CASE FinishShutdown(c) /\ OwnedBy(c) = {}
  <2> DEFINE r == [proc[c] EXCEPT !.pc = "deregister"]
  <2>1. proc[c].pc = "loop" /\ Becomes(c, r) /\ UNCHANGED redis
    BY <1>1 DEF FinishShutdown, At
  <2>2. IsProc(r) /\ r.pc = "deregister" /\ r.orphans = proc[c].orphans
    BY <1>0 DEF IsProc, Fields
  <2>3. RedisStep(c) /\ seen'[c] # JanitorIdle
    BY <2>1, Quiet DEF redis, IInv, OrphansOwnNothing
  <2>4. \A i \in Ids : Owner(i)' # c
    BY <1>1, <2>1 DEF OwnedBy, Owner, redis
  <2>5. ProcStep(c, r)
    BY <2>1, <2>2, <2>3, <2>4 DEF ProcStep, Becomes
  <2> QED
    BY <2>3, <2>5, StepKeeps
<1>2. CASE FinishShutdown(c) /\ OwnedBy(c) # {}
  <2>1. Becomes(c, Down) /\ UNCHANGED redis
    BY <1>2 DEF FinishShutdown
  <2>2. RedisStep(c)
    BY <2>1, Quiet
  <2> QED
    BY <2>1, <2>2, Dies
<1>3. CASE DelConsumer(c)
  <2>1. \A i \in Ids : Owner(i) # c
    BY <1>3 DEF DelConsumer, At, IInv, OrphansOwnNothing, Owner
  <2>2. RedisStep(c)
    BY <1>3, <2>1, DeregisterStep DEF DelConsumer
  <2> QED
    BY <1>3, <2>2, Dies DEF DelConsumer
<1>4. CASE Crash(c)
  BY <1>4, Quiet, Dies DEF Crash
<1> QED
  BY <1>1, <1>2, <1>3, <1>4

\* XPENDING's smallest pending id exists: ids are natural numbers.
LEMMA LeastIsLeast ==
    ASSUME NEW S \in SUBSET Nat, S # {}
    PROVE  Least(S) \in S /\ \A m \in S : Least(S) <= m
<1> DEFINE R == {ss \in Nat \X Nat : ss[1] < ss[2]}
<1>0. IsWellFoundedOn(R, Nat)
  BY NatLessThanWellFounded, Zenon DEF OpToRel
<1>1. PICK n \in S : \A m \in S : <<m, n>> \notin R
  <2> HIDE DEF R
  <2> QED
    BY <1>0, WFMin, Zenon
<1>2. ASSUME NEW m \in S
      PROVE  n <= m
  <2>1. m \in Nat /\ n \in Nat
    OBVIOUS
  <2>2. ~(m < n)
    <3> SUFFICES ASSUME m < n PROVE FALSE
      OBVIOUS
    <3>1. <<m, n>> \in Nat \X Nat /\ <<m, n>>[1] = m /\ <<m, n>>[2] = n
      BY <2>1
    <3>2. <<m, n>> \in R
      BY <3>1
    <3> QED
      BY <1>1, <3>2, Zenon
  <2> QED
    BY <2>1, <2>2
<1> QED
  BY <1>2, Zenon DEF Least

\* The three calls of a trim pass: the threshold it ends with has only acknowledged
\* entries below it.
LEMMA TrimKeeps ==
    ASSUME IInv, NEW c \in Consumers, TrimInfo(c) \/ TrimPending(c) \/ Trim(c)
    PROVE  IInv'
<1>0. IsProc(proc[c]) /\ delivered \in Nat /\ added \in Nat /\ delivered <= added
  BY ProcIsProc DEF IInv, RedisTypes
<1>1. CASE TrimInfo(c)
  <2> DEFINE r == [proc[c] EXCEPT !.pc = "trim", !.minId = delivered + 1, !.trimDue = FALSE]
  <2>1. proc[c].pc = "loop" /\ Becomes(c, r) /\ UNCHANGED redis
    BY <1>1 DEF TrimInfo, At
  <2>2. IsProc(r) /\ r.pc = "trim" /\ r.orphans = proc[c].orphans /\ r.minId = delivered + 1
    <3>1. \A n \in Int : LET q == [proc[c] EXCEPT !.pc = "trim", !.minId = n, !.trimDue = FALSE]
                         IN  IsProc(q) /\ q.pc = "trim" /\ q.orphans = proc[c].orphans /\ q.minId = n
      BY <1>0, Zenon DEF IsProc, Fields
    <3>2. delivered + 1 \in Int
      BY <1>0
    <3> QED
      BY <3>1, <3>2, Zenon
  <2>3. RedisStep(c) /\ seen'[c] # JanitorIdle
    BY <2>1, Quiet DEF redis, IInv, OrphansOwnNothing
  <2> HIDE DEF r
  <2>4. ProcStep(c, r)
    BY <1>0, <2>1, <2>2, <2>3 DEF ProcStep, Becomes
  <2> QED
    BY <2>3, <2>4, StepKeeps
<1>2. CASE TrimPending(c)
  <2> DEFINE n == IF Pending = {} THEN proc[c].minId ELSE Least(Pending)
  <2> DEFINE r == [proc[c] EXCEPT !.pc = "xtrim", !.minId = n]
  <2>1. proc[c].pc = "trim" /\ Becomes(c, r) /\ UNCHANGED redis
    BY <1>2 DEF TrimPending, At
  <2>2. proc[c].minId \in Int /\ proc[c].minId <= delivered + 1
    BY <1>0, <2>1 DEF IsProc, IInv, TrimKnows
  <2>3. /\ n \in Int /\ n <= delivered + 1
        /\ \A i \in Pending : n <= i \/ Pending = {}
    <3>1. CASE Pending = {}
      BY <2>2, <3>1
    <3>2. CASE Pending # {}
      <4>1. Least(Pending) \in Pending /\ \A i \in Pending : Least(Pending) <= i
        <5>1. Pending \in SUBSET Nat
          BY ConsumerAssumption DEF Pending, Ids
        <5> QED
          BY <3>2, <5>1, LeastIsLeast
      <4>2. Least(Pending) \in Int /\ Least(Pending) <= delivered
        BY <4>1, ConsumerAssumption DEF Pending, Ids, IInv, PendingDelivered
      <4> QED
        BY <1>0, <3>2, <4>1, <4>2
    <3> QED
      BY <3>1, <3>2
  <2> HIDE DEF n
  <2>4. \A i \in 1..added : i < n => i \in acked
    <3> SUFFICES ASSUME NEW i \in 1..added, i < n, i \notin acked
                 PROVE  FALSE
      OBVIOUS
    <3>1. i \in Ids /\ i \in Nat /\ (i > delivered \/ i \in Pending)
      BY WhereItIs DEF Pending, Owner
    <3> QED
      BY <1>0, <2>3, <3>1
  <2>5. IsProc(r) /\ r.pc = "xtrim" /\ r.orphans = proc[c].orphans /\ r.minId = n
    BY <1>0, <2>3, Zenon DEF IsProc, Fields
  <2>6. RedisStep(c) /\ seen'[c] # JanitorIdle
    BY <2>1, Quiet DEF redis, IInv, OrphansOwnNothing
  <2> HIDE DEF r
  <2>7. ProcStep(c, r)
    BY <2>1, <2>3, <2>4, <2>5, <2>6 DEF ProcStep, Becomes
  <2> QED
    BY <2>6, <2>7, StepKeeps
<1>3. CASE Trim(c)
  <2> DEFINE n == proc[c].minId
  <2> DEFINE r == [proc[c] EXCEPT !.pc = "loop", !.minId = 1]
  <2>1. /\ proc[c].pc = "xtrim" /\ Becomes(c, r) /\ UNCHANGED <<added, delivered, pel, seen, acked>>
        /\ trimmed' = IF n > trimmed THEN n ELSE trimmed
    BY <1>3 DEF Trim, At
  <2>2. n \in Int /\ n <= delivered + 1 /\ \A i \in 1..added : i < n => i \in acked
    BY <1>0, <2>1 DEF IsProc, IInv, TrimKnows
  <2> HIDE DEF n
  <2>3. RedisTypes'
    BY <2>1, <2>2 DEF IInv, RedisTypes
  <2>4. NothingForgotten'
    <3> SUFFICES ASSUME NEW i \in 1..added, i \notin acked
                 PROVE  i >= trimmed' /\ (i > delivered \/ Owner(i) # None)
      BY <2>1, ConsumerAssumption DEF NothingForgotten, Pending, Owner, Ids, IInv, RedisTypes
    <3>1. i \in Nat /\ i >= trimmed /\ (i > delivered \/ Owner(i) # None)
      BY WhereItIs
    <3> QED
      BY <2>1, <2>2, <3>1
  <2>5. RedisStep(c) /\ seen'[c] # JanitorIdle
    BY <1>0, <2>1, <2>3, <2>4 DEF RedisStep, IInv, PendingDelivered, Owner, OrphansOwnNothing
  <2>6. IsProc(r) /\ r.pc = "loop" /\ r.orphans = proc[c].orphans
    <3>1. \A k \in Int : LET q == [proc[c] EXCEPT !.pc = "loop", !.minId = k]
                         IN  IsProc(q) /\ q.pc = "loop" /\ q.orphans = proc[c].orphans
      BY <1>0, Zenon DEF IsProc, Fields
    <3>2. 1 \in Int
      OBVIOUS
    <3> QED
      BY <3>1, <3>2, Zenon
  <2> HIDE DEF r
  <2>7. ProcStep(c, r)
    BY <2>1, <2>5, <2>6 DEF ProcStep, Becomes
  <2> QED
    BY <2>5, <2>7, StepKeeps
<1> QED
  BY <1>1, <1>2, <1>3

\* A new process starts under a name that no janitor holds.
LEMMA StartKeeps ==
    ASSUME IInv, NEW c \in Consumers, Start(c)
    PROVE  IInv'
<1>1. /\ seen[c] = None /\ \A d \in Consumers : c \notin proc[d].orphans
      /\ proc' = [proc EXCEPT ![c] = Fresh] /\ UNCHANGED redis
  BY DEF Start, Becomes
<1>2. IsProc(Fresh) /\ Fresh.pc = "loop" /\ Fresh.orphans = {}
  BY DEF Fresh, IsProc, Fields
<1>3. /\ proc'[c] = Fresh /\ proc' = [d \in Consumers |-> proc'[d]]
      /\ \A d \in Consumers : d # c => proc'[d] = proc[d]
  BY <1>1 DEF IInv, Shape
<1>4. Shape'
  BY <1>2, <1>3 DEF IInv, Shape, IsProc
<1>5. RedisTypes' /\ PendingDelivered' /\ NothingForgotten'
  BY <1>1, Quiet DEF RedisStep
<1>6. TrimKnows'
  BY <1>1, <1>2, <1>3 DEF IInv, TrimKnows, redis
<1>7. seen'[c] # JanitorIdle
  BY <1>1, ConsumerAssumption DEF redis
<1>8. OrphansOwnNothing'
  BY <1>1, <1>2, <1>3, <1>7 DEF IInv, OrphansOwnNothing, redis
<1> QED
  BY <1>4, <1>5, <1>6, <1>8 DEF IInv

\* A new entry is in the stream and undelivered.
LEMMA EnqueueKeeps ==
    ASSUME IInv, Enqueue
    PROVE  IInv'
<1>1. /\ added < MaxId /\ added' = added + 1
      /\ UNCHANGED <<trimmed, delivered, pel, seen, proc, acked>>
  BY DEF Enqueue
<1>2. RedisTypes'
  BY <1>1, ConsumerAssumption DEF IInv, RedisTypes
<1>3. NothingForgotten'
  <2> SUFFICES ASSUME NEW i \in 1..(added + 1), i \notin acked
               PROVE  i >= trimmed /\ (i > delivered \/ i \in Pending)
    BY <1>1 DEF NothingForgotten, Pending
  <2>1. CASE i \in 1..added
    BY <2>1 DEF IInv, NothingForgotten
  <2>2. CASE i = added + 1
    BY <2>2 DEF IInv, RedisTypes
  <2> QED
    BY <2>1, <2>2 DEF IInv, RedisTypes
<1>4. TrimKnows'
  <2> SUFFICES ASSUME NEW c \in Consumers, proc[c].pc = "xtrim",
                      NEW i \in 1..(added + 1), i < proc[c].minId
               PROVE  i \in acked
    BY <1>1 DEF IInv, TrimKnows
  <2>1. proc[c].minId \in Int /\ proc[c].minId <= delivered + 1
    BY DEF IInv, Shape, TrimKnows
  <2>2. i \in 1..added
    BY <2>1 DEF IInv, RedisTypes
  <2> QED
    BY <2>2 DEF IInv, TrimKnows
<1>5. Shape' /\ PendingDelivered' /\ OrphansOwnNothing'
  BY <1>1 DEF IInv, Shape, PendingDelivered, OrphansOwnNothing
<1> QED
  BY <1>2, <1>3, <1>4, <1>5 DEF IInv

\* Time changes idle times only, and no live process reaches the janitor's threshold.
LEMMA TickKeeps ==
    ASSUME IInv, Tick, ~LongSilence
    PROVE  IInv'
<1>1. /\ UNCHANGED <<added, trimmed, delivered, acked>>
      /\ pel' = [i \in Ids |-> IF i \in Pending THEN [pel[i] EXCEPT !.idle = Lesser(@ + 1, LeaseTTL)] ELSE pel[i]]
      /\ seen' = [c \in Consumers |-> IF seen[c] = None THEN None
                                      ELSE IF At(c, "loop") THEN 0
                                      ELSE Lesser(seen[c] + 1, JanitorIdle)]
      /\ proc' = [c \in Consumers |-> Ticked(proc[c])]
      /\ \A c \in Consumers : proc[c].pc = "down" \/ At(c, "loop") \/ seen[c] # JanitorIdle - 1
  BY DEF Tick
<1>2. \A c \in Consumers : /\ IsProc(proc'[c]) /\ proc'[c].pc = proc[c].pc
                           /\ proc'[c].minId = proc[c].minId /\ proc'[c].orphans = proc[c].orphans
  <2> SUFFICES ASSUME NEW c \in Consumers
               PROVE  /\ IsProc(proc'[c]) /\ proc'[c].pc = proc[c].pc
                      /\ proc'[c].minId = proc[c].minId /\ proc'[c].orphans = proc[c].orphans
    OBVIOUS
  <2>1. PICK b, v : proc'[c] = [proc[c] EXCEPT !.trimDue = b, !.beating = v]
    BY <1>1, Zenon DEF Ticked
  <2>2. IsProc(proc[c])
    BY ProcIsProc
  <2> QED
    BY <2>1, <2>2 DEF IsProc, Fields
<1>3. /\ pel' \in [Ids -> [owner : Consumers \cup {None}, idle : Nat, count : Nat]]
      /\ \A i \in Ids : Owner(i)' = Owner(i)
  <2>1. \A n \in Nat : Lesser(n + 1, LeaseTTL) \in Nat
    BY ConsumerAssumption DEF Lesser
  <2> QED
    BY <1>1, <2>1 DEF IInv, RedisTypes, Owner
<1>4. /\ seen' \in [Consumers -> 0..JanitorIdle \cup {None}]
      /\ \A c \in Consumers : proc[c].pc # "down" => seen'[c] # JanitorIdle
  <2> SUFFICES ASSUME NEW c \in Consumers
               PROVE  /\ seen'[c] \in 0..JanitorIdle \cup {None}
                      /\ proc[c].pc # "down" => seen'[c] # JanitorIdle
    BY <1>1
  <2>1. CASE seen[c] = None
    BY <1>1, <2>1, ConsumerAssumption
  <2>2. CASE seen[c] # None
    <3>1. seen[c] \in 0..JanitorIdle
      BY <2>2 DEF IInv, RedisTypes
    <3>2. seen'[c] = IF At(c, "loop") THEN 0 ELSE Lesser(seen[c] + 1, JanitorIdle)
      BY <1>1, <2>2
    <3>3. proc[c].pc = "down" \/ At(c, "loop") \/ (seen[c] # JanitorIdle - 1 /\ seen[c] # JanitorIdle)
      BY <1>1 DEF IInv, OrphansOwnNothing
    <3> QED
      BY <3>1, <3>2, <3>3, ConsumerAssumption DEF Lesser
  <2> QED
    BY <2>1, <2>2
<1>5. RedisTypes'
  BY <1>1, <1>3, <1>4 DEF IInv, RedisTypes
<1>6. PendingDelivered'
  BY <1>1, <1>3 DEF IInv, PendingDelivered, Owner
<1>7. NothingForgotten'
  BY <1>1, <1>3 DEF IInv, NothingForgotten, Pending, Owner
<1>8. Shape'
  BY <1>1, <1>2, Zenon DEF Shape, IsProc
<1>9. TrimKnows'
  BY <1>1, <1>2 DEF IInv, TrimKnows
<1>10. OrphansOwnNothing'
  BY <1>2, <1>3, <1>4 DEF IInv, OrphansOwnNothing, Owner
<1> QED
  BY <1>5, <1>6, <1>7, <1>8, <1>9, <1>10 DEF IInv

\* The initial state has nothing to forget.
LEMMA InitKeeps == Init => IInv
<1> SUFFICES ASSUME Init PROVE IInv
  OBVIOUS
<1>1. IsProc(Fresh) /\ Fresh.pc = "loop" /\ Fresh.orphans = {}
  BY DEF Fresh, IsProc, Fields
<1>2. \A c \in Consumers : proc[c] = Fresh /\ seen[c] = None
  BY DEF Init
<1>3. Shape
  BY <1>1, <1>2 DEF Init, Shape, IsProc
<1>4. RedisTypes
  BY ConsumerAssumption DEF Init, RedisTypes, NotPending
<1>5. PendingDelivered /\ NothingForgotten
  BY DEF Init, PendingDelivered, NothingForgotten, NotPending
<1>6. TrimKnows /\ OrphansOwnNothing
  BY <1>1, <1>2, ConsumerAssumption DEF Init, TrimKnows, OrphansOwnNothing
<1> QED
  BY <1>3, <1>4, <1>5, <1>6 DEF IInv

\* Every step keeps the invariant.
LEMMA NextKeeps == ~LongSilence /\ IInv /\ [Next]_vars => IInv'
<1> SUFFICES ASSUME ~LongSilence, IInv, [Next]_vars
             PROVE  IInv'
  OBVIOUS
<1>1. CASE UNCHANGED vars
  BY <1>1 DEF vars, IInv, Shape, RedisTypes, PendingDelivered, TrimKnows, OrphansOwnNothing,
              NothingForgotten, Pending
<1>2. CASE Enqueue \/ Tick
  BY <1>2, EnqueueKeeps, TickKeeps
<1>3. ASSUME NEW c \in Consumers,
             \/ Poll(c) \/ Finish(c) \/ Heartbeat(c) \/ Start(c)
             \/ HeartbeatFails(c) \/ ReadFails(c) \/ CountsFail(c) \/ DivertFails(c) \/ AckFails(c) \/ DutyFails(c)
             \/ Shutdown(c) \/ Crash(c) \/ Stall(c)
      PROVE  IInv'
  <2>1. CASE LocalStep(c)
    BY <2>1, LocalKeeps
  <2>2. CASE ReadGroup(c) \/ ReadFails(c)
    BY <2>2, ReadKeeps
  <2>3. CASE AutoClaim(c) \/ Heartbeat(c) \/ Ack(c)
    BY <2>3, AutoClaimKeeps, HeartbeatKeeps, AckKeeps
  <2>4. CASE JanitorInfo(c) \/ \E d \in Consumers : JanitorDelete(c, d)
    BY <2>4, JanitorInfoKeeps, JanitorDeleteKeeps
  <2>5. CASE TrimInfo(c) \/ TrimPending(c) \/ Trim(c)
    BY <2>5, TrimKeeps
  <2>6. CASE FinishShutdown(c) \/ DelConsumer(c) \/ Crash(c)
    BY <2>6, ExitKeeps
  <2>7. CASE DutyFails(c) \/ Start(c)
    BY <2>7, DutyFailsKeeps, StartKeeps
  <2> QED
    BY <1>3, <2>1, <2>2, <2>3, <2>4, <2>5, <2>6, <2>7 DEF Poll, Finish, LocalStep
<1> QED
  BY <1>1, <1>2, <1>3 DEF Next

\* No entry is lost by reads, reclaims, trims, the janitor, exits and crashes of any
\* number of consumers, provided that every live process talks to Redis more often
\* than the janitor's threshold.
THEOREM NothingForgottenTheorem ==
    ASSUME ~LongSilence
    PROVE  Spec => []NothingForgotten
<1>1. Init => IInv
  BY InitKeeps
<1>2. IInv /\ [Next]_vars => IInv'
  BY NextKeeps
<1>3. IInv => NothingForgotten
  BY DEF IInv
<1> QED
  BY <1>1, <1>2, <1>3, PTL DEF Spec

-----------------------------------------------------------------------------
(***************************************************************************)
(* A live handler keeps its lease, however long other processes are        *)
(* silent: the janitor drops leases but gives them to nobody.              *)
(*                                                                         *)
(* What a heartbeat has shown lasts until the process is stopped or done   *)
(* with the entry, or its heartbeats have failed LeaseTTL - 1 times since: *)
(* the entry is delivered, nobody else owns it, and while the handler owns *)
(* it its idle time is at most the ticks since that heartbeat, each of     *)
(* which saw a call that failed (HeldOK).  So reads, which take            *)
(* undelivered entries, and reclaims, which take lapsed ones, miss it.     *)
(***************************************************************************)

\* A process record, whatever its fields hold.
IsRecord(r) == r = [f \in Fields |-> r[f]]

\* Types, as far as leases need them.
LeaseTypes ==
    /\ proc = [c \in Consumers |-> proc[c]] /\ \A c \in Consumers : IsRecord(proc[c])
    /\ \A c \in Consumers : proc[c].held \in Nat
    /\ added \in Nat /\ delivered \in Nat
    /\ pel \in [Ids -> [owner : Consumers \cup {None}, idle : Nat, count : Nat]]

\* The process runs a handler and beats for it.
Handling(r) == r.pc = "handle" /\ r.beating # "off" /\ ~r.stopped

\* It beat for its entry, and the lease has not had the time to lapse.
Holds(r) == r.held > 0

\* How long the entry can have been idle: less than the TTL as long as r holds it.
Age(r) == LeaseTTL - r.held - (IF r.beating = "due" THEN 0 ELSE 1)

\* Neither a read nor a reclaim of another consumer gets entry i, as long as c's
\* process r holds it.
Beaten(c, i, r) ==
    /\ i \in Ids /\ i <= delivered /\ Owner(i) \in {c, None}
    /\ Owner(i) = c => pel[i].idle <= Age(r)

\* What a held entry is.
HeldOK == \A c \in Consumers : Holds(proc[c]) => Handling(proc[c]) /\ Beaten(c, InHand(c), proc[c])

\* The inductive invariant.
LeaseInv == LeaseTypes /\ PendingDelivered /\ HeldOK

\* What HandlerKeepsLease says of a step.
Untaken ==
    \A c \in Consumers :
        At(c, "handle") /\ Holds(proc[c]) => pel'[InHand(c)].owner \in {c, None}

\* What c may do to the pending list: drop an entry, read a new one, reclaim a lapsed
\* one, or beat for its own.
LeaseMove(c) ==
    /\ added' = added /\ delivered' \in Nat /\ delivered <= delivered'
    /\ pel' \in [Ids -> [owner : Consumers \cup {None}, idle : Nat, count : Nat]]
    /\ \A i \in Ids : \/ pel'[i] = pel[i]
                      \/ Owner(i)' = None
                      \/ Owner(i)' = c /\ delivered < i /\ i <= delivered'
                      \/ Owner(i)' = c /\ Owner(i) # None /\ pel[i].idle >= LeaseTTL
                      \/ Owner(i)' = c /\ Owner(i) = c /\ pel'[i].idle = 0

\* What it may do to its record: hold on to the entry in hand, or beat for it.
HoldMove(c, r) ==
    /\ IsRecord(r) /\ r.held \in Nat /\ proc' = [proc EXCEPT ![c] = r]
    /\ Holds(r) => /\ Handling(r) /\ r.hand = proc[c].hand
                   /\ \/ Holds(proc[c]) /\ Age(r) = Age(proc[c]) /\ UNCHANGED <<pel, delivered>>
                      \/ /\ InHand(c) \in Ids /\ Owner(InHand(c)) = c /\ Age(r) = 0
                         /\ pel'[InHand(c)].owner = c /\ pel'[InHand(c)].idle = 0

\* Such a step keeps the invariant, and takes no lease from a handler.
LEMMA LeaseStep ==
    ASSUME LeaseInv, NEW c \in Consumers, NEW r, LeaseMove(c), HoldMove(c, r)
    PROVE  LeaseInv' /\ Untaken
<1>1. /\ proc'[c] = r /\ IsRecord(r) /\ r.held \in Nat /\ proc' = [d \in Consumers |-> proc'[d]]
      /\ \A d \in Consumers : d # c => proc'[d] = proc[d]
  BY DEF LeaseInv, LeaseTypes, HoldMove
<1>2. LeaseTypes'
  <2>1. \A d \in Consumers : IsRecord(proc'[d]) /\ proc'[d].held \in Nat
    BY <1>1 DEF LeaseInv, LeaseTypes
  <2> QED
    BY <1>1, <2>1 DEF LeaseInv, LeaseTypes, LeaseMove
<1>3. \A i \in Ids : i \in Nat
  BY ConsumerAssumption DEF Ids
<1>4. PendingDelivered'
  <2> SUFFICES ASSUME NEW i \in Ids, Owner(i)' # None
               PROVE  i <= delivered'
    BY DEF PendingDelivered, Owner
  <2>1. Owner(i) # None => i <= delivered
    BY DEF LeaseInv, PendingDelivered, Owner
  <2>2. Owner(i) # None \/ (delivered < i /\ i <= delivered')
    BY ConsumerAssumption DEF LeaseMove, Owner
  <2> QED
    BY <1>3, <2>1, <2>2 DEF LeaseInv, LeaseTypes, LeaseMove
<1>5. ASSUME NEW d \in Consumers, Holds(proc[d])
      PROVE  pel'[InHand(d)].owner \in {d, None} /\ (d # c /\ pel'[InHand(d)].owner = d
                                                       => pel'[InHand(d)] = pel[InHand(d)])
  <2>1. PICK i : i = InHand(d)
    OBVIOUS
  <2>0. Beaten(d, i, proc[d])
    BY <1>5, <2>1, Zenon DEF LeaseInv, HeldOK
  <2>2. /\ i \in Ids /\ i <= delivered /\ Owner(i) \in {d, None}
        /\ Owner(i) = d => pel[i].idle < LeaseTTL
    <3>1. Age(proc[d]) \in Int /\ Age(proc[d]) < LeaseTTL
      BY <1>5, ConsumerAssumption DEF LeaseInv, LeaseTypes, Age, Holds
    <3>2. i \in Ids /\ pel[i].idle \in Nat
      BY <2>0 DEF Beaten, LeaseInv, LeaseTypes
    <3> QED
      BY <2>0, <3>1, <3>2, ConsumerAssumption DEF Beaten
  <2>3. i \in Ids /\ pel[i].idle \in Nat /\ d # None /\ c # None
    BY <2>2, ConsumerAssumption DEF LeaseInv, LeaseTypes
  <2>4. pel'[i].owner \in {d, None} /\ (d # c /\ pel'[i].owner = d => pel'[i] = pel[i])
    BY <1>3, <2>2, <2>3, ConsumerAssumption DEF LeaseMove, Owner, LeaseInv, LeaseTypes
  <2> QED
    BY <2>1, <2>4
<1>6. ASSUME NEW d \in Consumers, d # c, Holds(proc[d])
      PROVE  Handling(proc'[d]) /\ Beaten(d, InHand(d), proc[d])'
  <2>1. Handling(proc[d]) /\ Beaten(d, InHand(d), proc[d])
    BY <1>6, Zenon DEF LeaseInv, HeldOK
  <2>2. proc'[d] = proc[d] /\ InHand(d)' = InHand(d)
    BY <1>1, <1>6 DEF InHand
  <2>3. PICK i : i = InHand(d)
    OBVIOUS
  <2>4. /\ Beaten(d, i, proc[d]) /\ pel'[i].owner \in {d, None}
        /\ pel'[i].owner = d => pel'[i] = pel[i]
    BY <1>5, <1>6, <2>1, <2>3
  <2>5. i <= delivered'
    BY <1>3, <2>4 DEF Beaten, LeaseMove, LeaseInv, LeaseTypes
  <2> QED
    BY <2>1, <2>2, <2>3, <2>4, <2>5 DEF Beaten, Owner
<1>7. ASSUME Holds(r)
      PROVE  Handling(r) /\ Beaten(c, InHand(c), proc[c])'
  <2>1. Handling(r) /\ InHand(c)' = InHand(c)
    BY <1>1, <1>7 DEF HoldMove, InHand
  <2>2. CASE Holds(proc[c]) /\ Age(r) = Age(proc[c]) /\ UNCHANGED <<pel, delivered>>
    <3>1. Beaten(c, InHand(c), proc[c])
      BY <2>2, Zenon DEF LeaseInv, HeldOK
    <3> QED
      BY <1>1, <2>1, <2>2, <3>1, Zenon DEF Beaten, Owner
  <2>3. CASE /\ InHand(c) \in Ids /\ Owner(InHand(c)) = c /\ Age(r) = 0
             /\ pel'[InHand(c)].owner = c /\ pel'[InHand(c)].idle = 0
    <3>1. PICK i : i = InHand(c)
      OBVIOUS
    <3>2. i <= delivered
      BY <2>3, <3>1, ConsumerAssumption DEF LeaseInv, PendingDelivered, Owner
    <3>3. i <= delivered'
      BY <1>3, <2>3, <3>1, <3>2 DEF LeaseInv, LeaseTypes, LeaseMove
    <3>4. pel'[i].idle <= Age(r)
      BY <2>3, <3>1
    <3> QED
      BY <1>1, <2>1, <2>3, <3>1, <3>3, <3>4, Zenon DEF Beaten, Owner
  <2> QED
    BY <1>7, <2>2, <2>3 DEF HoldMove
<1>8. HeldOK'
  BY <1>1, <1>6, <1>7, Zenon DEF HeldOK
<1>9. Untaken
  BY <1>5, Zenon DEF Untaken
<1> QED
  BY <1>2, <1>4, <1>8, <1>9 DEF LeaseInv

\* Records that hold the same.
Alike(p, r) == IsRecord(r) /\ r.held = p.held
\* Records that hold nothing.
Empty(r) == IsRecord(r) /\ r.held = 0

\* A step that lets go of the entry in hand, or had none.
LEMMA LetsGo ==
    ASSUME LeaseInv, NEW c \in Consumers, LeaseMove(c), NEW r, Empty(r), Becomes(c, r)
    PROVE  LeaseInv' /\ Untaken
<1>1. r.held \in Nat /\ ~Holds(r)
  BY DEF Empty, Holds
<1>2. HoldMove(c, r)
  BY <1>1, Zenon DEF HoldMove, Becomes, Empty
<1> QED
  BY <1>2, LeaseStep

\* The pending list may stay as it is.
LEMMA LeaseQuiet ==
    ASSUME LeaseInv, NEW c \in Consumers, UNCHANGED <<added, pel, delivered>>
    PROVE  LeaseMove(c)
BY DEF LeaseMove, LeaseInv, LeaseTypes

\* Only a handler that runs holds an entry.
LEMMA NotHeld ==
    ASSUME LeaseInv, NEW c \in Consumers, proc[c].pc # "handle" \/ proc[c].stopped
    PROVE  proc[c].held = 0
<1>1. ~Holds(proc[c])
  BY Zenon DEF LeaseInv, HeldOK, Handling
<1> QED
  BY <1>1 DEF Holds, LeaseInv, LeaseTypes

\* The updates that leave held alone.
LEMMA Updates ==
    ASSUME NEW p, IsRecord(p), NEW u, NEW v, NEW w
    PROVE  /\ Alike(p, [p EXCEPT !.pc = u])
           /\ Alike(p, [p EXCEPT !.pc = u, !.hand = v])
           /\ Alike(p, [p EXCEPT !.pc = u, !.cursor = v, !.hand = w])
           /\ Alike(p, [p EXCEPT !.pc = u, !.orphans = v])
           /\ Alike(p, [p EXCEPT !.orphans = v, !.pc = u])
           /\ Alike(p, [p EXCEPT !.pc = u, !.orphans = v, !.minId = w])
           /\ Alike(p, [p EXCEPT !.pc = u, !.minId = v])
           /\ Alike(p, [p EXCEPT !.pc = u, !.minId = v, !.trimDue = w])
           /\ Alike(p, [p EXCEPT !.pc = u, !.beating = v])
           /\ Alike(p, [p EXCEPT !.stopped = u])
<1>1. Alike(p, [p EXCEPT !.pc = u])
  BY Zenon DEF Alike, IsRecord, Fields
<1>2. Alike(p, [p EXCEPT !.pc = u, !.hand = v])
  BY Zenon DEF Alike, IsRecord, Fields
<1>3. Alike(p, [p EXCEPT !.pc = u, !.cursor = v, !.hand = w])
  BY Zenon DEF Alike, IsRecord, Fields
<1>4. Alike(p, [p EXCEPT !.pc = u, !.orphans = v])
  BY Zenon DEF Alike, IsRecord, Fields
<1>5. Alike(p, [p EXCEPT !.orphans = v, !.pc = u])
  BY Zenon DEF Alike, IsRecord, Fields
<1>6. Alike(p, [p EXCEPT !.pc = u, !.orphans = v, !.minId = w])
  BY Zenon DEF Alike, IsRecord, Fields
<1>7. Alike(p, [p EXCEPT !.pc = u, !.minId = v])
  BY Zenon DEF Alike, IsRecord, Fields
<1>8. Alike(p, [p EXCEPT !.pc = u, !.minId = v, !.trimDue = w])
  BY Zenon DEF Alike, IsRecord, Fields
<1>9. Alike(p, [p EXCEPT !.pc = u, !.beating = v])
  BY Zenon DEF Alike, IsRecord, Fields
<1>10. Alike(p, [p EXCEPT !.stopped = u])
  BY Zenon DEF Alike, IsRecord, Fields
<1> QED
  BY <1>1, <1>2, <1>3, <1>4, <1>5, <1>6, <1>7, <1>8, <1>9, <1>10

\* The updates that let go.
LEMMA Drops ==
    ASSUME NEW p, IsRecord(p)
    PROVE  /\ \A u, v : Empty([p EXCEPT !.pc = u, !.hand = v, !.beating = "off", !.held = 0])
           /\ \A u : Empty([p EXCEPT !.pc = u, !.beating = "off", !.held = 0])
           /\ Empty([p EXCEPT !.beating = "off", !.held = 0])
           /\ Empty([p EXCEPT !.stopped = TRUE, !.held = 0])
           /\ Empty(Fresh) /\ Empty(Down)
<1>1. \A u, v : Empty([p EXCEPT !.pc = u, !.hand = v, !.beating = "off", !.held = 0])
  BY Zenon DEF Empty, IsRecord, Fields
<1>2. \A u : Empty([p EXCEPT !.pc = u, !.beating = "off", !.held = 0])
  BY Zenon DEF Empty, IsRecord, Fields
<1>3. Empty([p EXCEPT !.beating = "off", !.held = 0])
  BY Zenon DEF Empty, IsRecord, Fields
<1>4. Empty([p EXCEPT !.stopped = TRUE, !.held = 0])
  BY Zenon DEF Empty, IsRecord, Fields
<1>5. Empty(Fresh) /\ Empty(Down)
  BY Zenon DEF Empty, IsRecord, Fields, Fresh, Down
<1> QED
  BY <1>1, <1>2, <1>3, <1>4, <1>5, Zenon

\* Steps of the loop and its duties outside handlers.
LoopStep(c) ==
    \/ DeliveryCounts(c) \/ CountsFail(c) \/ HandEmpty(c) \/ DivertPoison(c)
    \/ JanitorInfo(c) \/ TrimInfo(c) \/ TrimPending(c) \/ Trim(c) \/ DutyFails(c)

\* Steps after which nothing is held, whatever was.
EndStep(c) ==
    \/ Abandon(c) \/ DivertFails(c) \/ AckFails(c) \/ HandlerFails(c) \/ HandlerReturns(c)
    \/ Crash(c) \/ Stall(c) \/ Start(c)

\* The pending list stays, and the process holds nothing.
LEMMA LoopLease ==
    ASSUME LeaseInv, NEW c \in Consumers, LoopStep(c)
    PROVE  LeaseInv' /\ Untaken
<1>1. proc[c].pc # "handle" /\ UNCHANGED <<added, pel, delivered>>
  BY Zenon DEF LoopStep, DeliveryCounts, CountsFail, HandEmpty, DivertPoison, JanitorInfo, TrimInfo,
     TrimPending, Trim, DutyFails, At, redis
<1>2. IsRecord(proc[c]) /\ proc[c].held = 0
  BY <1>1, NotHeld DEF LeaseInv, LeaseTypes
<1>3. \E r : Alike(proc[c], r) /\ Becomes(c, r)
  <2>1. CASE DeliveryCounts(c) \/ CountsFail(c)
    <3>1. \E u, v : Becomes(c, [proc[c] EXCEPT !.pc = u, !.hand = v])
      BY <2>1, Zenon DEF DeliveryCounts, CountsFail
    <3> QED
      BY <1>2, <3>1, Updates, Zenon
  <2>2. CASE HandEmpty(c) \/ DivertPoison(c)
    BY <1>2, <2>2, Updates, Zenon DEF HandEmpty, DivertPoison, Go
  <2>3. CASE JanitorInfo(c) \/ DutyFails(c)
    <3>1. \E u, v, w : \/ Becomes(c, [proc[c] EXCEPT !.pc = u, !.orphans = v])
                       \/ Becomes(c, [proc[c] EXCEPT !.pc = u, !.orphans = v, !.minId = w])
      BY <2>3, Zenon DEF JanitorInfo, DutyFails
    <3> QED
      BY <1>2, <3>1, Updates, Zenon
  <2>4. CASE TrimInfo(c) \/ TrimPending(c) \/ Trim(c)
    <3>1. \E u, v, w : \/ Becomes(c, [proc[c] EXCEPT !.pc = u, !.minId = v])
                       \/ Becomes(c, [proc[c] EXCEPT !.pc = u, !.minId = v, !.trimDue = w])
      BY <2>4, Zenon DEF TrimInfo, TrimPending, Trim
    <3> QED
      BY <1>2, <3>1, Updates, Zenon
  <2> QED
    BY <2>1, <2>2, <2>3, <2>4 DEF LoopStep
<1>4. PICK r : Alike(proc[c], r) /\ Becomes(c, r)
  BY <1>3
<1>5. Empty(r)
  BY <1>2, <1>4, Zenon DEF Alike, Empty
<1> QED
  BY <1>1, <1>4, <1>5, LeaseQuiet, LetsGo

\* The pending list stays, and the process lets go.
LEMMA EndLease ==
    ASSUME LeaseInv, NEW c \in Consumers, EndStep(c)
    PROVE  LeaseInv' /\ Untaken
<1>1. UNCHANGED <<added, pel, delivered>>
  BY Zenon DEF EndStep, Abandon, DivertFails, AckFails, HandlerFails, HandlerReturns, Crash, Stall, Start, redis
<1>2. IsRecord(proc[c])
  BY DEF LeaseInv, LeaseTypes
<1>3. Empty(NextInHand(c))
  BY <1>2, Drops, Zenon DEF NextInHand
<1>4. \E r : Empty(r) /\ Becomes(c, r)
  BY <1>2, <1>3, Drops, Zenon DEF EndStep, Abandon, DivertFails, AckFails, HandlerFails, HandlerReturns,
     Crash, Stall, Start
<1> QED
  BY <1>1, <1>4, LeaseQuiet, LetsGo

\* The start of a handler, the end of a stall and of a process; a shutdown leaves the
\* handler alone.
LEMMA TurnLease ==
    ASSUME LeaseInv, NEW c \in Consumers,
           Process(c) \/ Resume(c) \/ FinishShutdown(c) \/ Shutdown(c) \/ DrainExpires(c)
    PROVE  LeaseInv' /\ Untaken
<1>1. IsRecord(proc[c]) /\ UNCHANGED <<added, pel, delivered>>
  BY Zenon DEF LeaseInv, LeaseTypes, Process, Resume, FinishShutdown, Shutdown, DrainExpires, redis
<1>2. CASE Process(c) \/ Resume(c) \/ FinishShutdown(c)
  <2>1. proc[c].held = 0
    BY <1>2, NotHeld DEF Process, Resume, FinishShutdown, At
  <2>2. \E r : Becomes(c, r) /\ (Empty(r) \/ Alike(proc[c], r))
    <3>1. Empty(NextInHand(c)) /\ Empty(Down)
      BY <1>1, Drops, Zenon DEF NextInHand
    <3>2. /\ Alike(proc[c], [proc[c] EXCEPT !.pc = "handle", !.beating = "wait"])
          /\ Alike(proc[c], [proc[c] EXCEPT !.stopped = FALSE])
          /\ Alike(proc[c], [proc[c] EXCEPT !.pc = "deregister"])
      BY <1>1, Updates, Zenon
    <3> QED
      BY <1>2, <3>1, <3>2, Zenon DEF Process, Resume, FinishShutdown
  <2>3. \E r : Becomes(c, r) /\ Empty(r)
    BY <2>1, <2>2, Zenon DEF Alike, Empty
  <2> QED
    BY <1>1, <2>3, LeaseQuiet, LetsGo
<1>3. CASE Shutdown(c) \/ DrainExpires(c)
  <2>1. PICK v : Becomes(c, [proc[c] EXCEPT !.stop = v])
    BY <1>3, Zenon DEF Shutdown, DrainExpires
  <2>2. PICK r : r = [proc[c] EXCEPT !.stop = v]
    BY Zenon
  <2>3. /\ IsRecord(r) /\ r.held = proc[c].held /\ r.hand = proc[c].hand /\ r.pc = proc[c].pc
        /\ r.beating = proc[c].beating /\ r.stopped = proc[c].stopped
    BY <1>1, <2>2, Zenon DEF IsRecord, Fields
  <2>4. r.held \in Nat /\ Age(r) = Age(proc[c]) /\ (Holds(r) => Holds(proc[c]) /\ Handling(r))
    BY <2>3, Zenon DEF LeaseInv, LeaseTypes, HeldOK, Age, Holds, Handling
  <2>5. HoldMove(c, r)
    BY <1>1, <2>1, <2>2, <2>3, <2>4, Zenon DEF HoldMove, Becomes
  <2> QED
    BY <1>1, <2>5, LeaseQuiet, LeaseStep
<1> QED
  BY <1>2, <1>3

\* Reads take entries that were not delivered.
LEMMA ReadLease ==
    ASSUME LeaseInv, NEW c \in Consumers, ReadGroup(c) \/ ReadFails(c)
    PROVE  LeaseInv' /\ Untaken
<1> DEFINE last == Lesser(delivered + Batch, added)
<1>1. /\ delivered < added /\ delivered' = last /\ added' = added /\ proc[c].pc = "loop"
      /\ pel' = Leased(c, (delivered + 1)..last, [i \in Ids |-> 1])
  BY DEF ReadGroup, ReadFails, Read, At
<1>2. last \in Nat /\ delivered \in Nat /\ delivered < last
  BY <1>1, ConsumerAssumption DEF Lesser, LeaseInv, LeaseTypes
<1> HIDE DEF last
<1>3. pel' \in [Ids -> [owner : Consumers \cup {None}, idle : Nat, count : Nat]]
  BY <1>1 DEF Leased, LeaseInv, LeaseTypes
<1>4. \A i \in Ids : pel'[i] = pel[i] \/ (Owner(i)' = c /\ delivered < i /\ i <= delivered')
  BY <1>1, <1>2, ConsumerAssumption DEF Leased, Owner, Ids
<1>5. LeaseMove(c)
  BY <1>1, <1>2, <1>3, <1>4 DEF LeaseMove
<1>6. IsRecord(proc[c]) /\ proc[c].held = 0
  BY <1>1, NotHeld DEF LeaseInv, LeaseTypes
<1>7. \E r : Alike(proc[c], r) /\ Becomes(c, r)
  <2>1. CASE ReadGroup(c)
    <3>1. \E u, v : Becomes(c, [proc[c] EXCEPT !.pc = u, !.hand = v])
      BY <2>1, Zenon DEF ReadGroup
    <3> QED
      BY <1>6, <3>1, Updates, Zenon
  <2>2. CASE ReadFails(c)
    <3>1. proc' = [proc EXCEPT ![c] = proc[c]]
      BY <2>2 DEF ReadFails, LeaseInv, LeaseTypes
    <3> QED
      BY <1>6, <3>1, Zenon DEF Alike, Becomes
  <2> QED
    BY <2>1, <2>2
<1>8. \E r : Empty(r) /\ Becomes(c, r)
  BY <1>6, <1>7, Zenon DEF Alike, Empty
<1> QED
  BY <1>5, <1>8, LetsGo

\* Reclaims take entries whose lease lapsed.
LEMMA ReclaimLease ==
    ASSUME LeaseInv, NEW c \in Consumers, AutoClaim(c)
    PROVE  LeaseInv' /\ Untaken
<1>1. /\ proc[c].pc = "loop" /\ pel' = Leased(c, Claimed(c), Counted) /\ UNCHANGED <<added, delivered>>
      /\ \A i \in Claimed(c) : Owner(i) # None /\ pel[i].idle >= LeaseTTL
  BY DEF AutoClaim, At, Claimed, Lapsed, Pending, Owner
<1>2. Counted \in [Ids -> Nat]
  BY ConsumerAssumption DEF Counted, Lesser, LeaseInv, LeaseTypes
<1>3. /\ pel' \in [Ids -> [owner : Consumers \cup {None}, idle : Nat, count : Nat]]
      /\ \A i \in Ids : IF i \in Claimed(c) THEN Owner(i)' = c ELSE pel'[i] = pel[i]
  BY <1>1, <1>2 DEF Leased, LeaseInv, LeaseTypes, Owner
<1>4. LeaseMove(c)
  BY <1>1, <1>3 DEF LeaseMove, LeaseInv, LeaseTypes
<1>5. IsRecord(proc[c]) /\ proc[c].held = 0
  BY <1>1, NotHeld DEF LeaseInv, LeaseTypes
<1>6. PICK u, v, w : Becomes(c, [proc[c] EXCEPT !.pc = u, !.cursor = v, !.hand = w])
  BY Zenon DEF AutoClaim
<1>7. \E r : Alike(proc[c], r) /\ Becomes(c, r)
  BY <1>5, <1>6, Updates, Zenon
<1>8. \E r : Empty(r) /\ Becomes(c, r)
  BY <1>5, <1>7, Zenon DEF Alike, Empty
<1> QED
  BY <1>4, <1>8, LetsGo

\* Acknowledgements and deregistrations drop entries.
LEMMA DropLease ==
    ASSUME LeaseInv, NEW c \in Consumers,
           Ack(c) \/ DelConsumer(c) \/ \E d \in Consumers : JanitorDelete(c, d)
    PROVE  LeaseInv' /\ Untaken
<1>1. IsRecord(proc[c]) /\ UNCHANGED <<added, delivered>> /\ proc[c].pc # "handle"
  BY Zenon DEF LeaseInv, LeaseTypes, Ack, DelConsumer, JanitorDelete, At
<1>2. proc[c].held = 0
  BY <1>1, NotHeld
<1>3. LeaseMove(c)
  <2>1. \/ \E j : pel' = [pel EXCEPT ![j] = NotPending]
        \/ \E d : pel' = [i \in Ids |-> IF pel[i].owner = d THEN NotPending ELSE pel[i]]
    BY Zenon DEF Ack, DelConsumer, JanitorDelete, Deregister
  <2>2. /\ pel' \in [Ids -> [owner : Consumers \cup {None}, idle : Nat, count : Nat]]
        /\ \A i \in Ids : pel'[i] = pel[i] \/ Owner(i)' = None
    BY <2>1 DEF LeaseInv, LeaseTypes, NotPending, Owner
  <2> QED
    BY <1>1, <2>2 DEF LeaseMove, LeaseInv, LeaseTypes
<1>4. \E r : Becomes(c, r) /\ (Empty(r) \/ Alike(proc[c], r))
  <2>1. Empty(NextInHand(c)) /\ Empty(Down)
    BY <1>1, Drops, Zenon DEF NextInHand
  <2>2. CASE Ack(c) \/ DelConsumer(c)
    BY <2>1, <2>2, Zenon DEF Ack, DelConsumer
  <2>3. CASE \E d \in Consumers : JanitorDelete(c, d)
    <3>1. \E u, v : Becomes(c, [proc[c] EXCEPT !.orphans = v, !.pc = u])
      BY <2>3, Zenon DEF JanitorDelete
    <3> QED
      BY <1>1, <3>1, Updates, Zenon
  <2> QED
    BY <2>2, <2>3
<1>5. \E r : Empty(r) /\ Becomes(c, r)
  BY <1>2, <1>4, Zenon DEF Alike, Empty
<1> QED
  BY <1>3, <1>5, LetsGo

\* A heartbeat renews the lease of an entry that the process owns.
LEMMA BeatLease ==
    ASSUME LeaseInv, NEW c \in Consumers, Heartbeat(c)
    PROVE  LeaseInv' /\ Untaken
<1>1. IsRecord(proc[c]) /\ Handling(proc[c]) /\ UNCHANGED <<added, delivered>>
  BY Zenon DEF LeaseInv, LeaseTypes, Heartbeat, Handling, At
<1>2. CASE InHand(c) \in OwnedBy(c)
  <2>1. PICK i, r : i = InHand(c) /\ r = [proc[c] EXCEPT !.beating = "wait", !.held = LeaseTTL - 1]
    BY Zenon
  <2>2. i \in Ids /\ Owner(i) = c /\ pel' = [pel EXCEPT ![i].idle = 0] /\ Becomes(c, r)
    BY <1>2, <2>1, Zenon DEF Heartbeat, OwnedBy, Owner
  <2>3. /\ IsRecord(r) /\ r.hand = proc[c].hand /\ r.pc = proc[c].pc
        /\ r.beating = "wait" /\ r.held = LeaseTTL - 1 /\ r.stopped = proc[c].stopped
    BY <1>1, <2>1, Zenon DEF IsRecord, Fields
  <2>7. r.held \in Nat /\ Age(r) = 0
    BY <2>3, ConsumerAssumption DEF Age
  <2>8. Handling(r)
    BY <1>1, <2>3, Zenon DEF Handling
  <2>4. /\ pel' \in [Ids -> [owner : Consumers \cup {None}, idle : Nat, count : Nat]]
        /\ Owner(i)' = c /\ pel'[i].idle = 0
        /\ \A j \in Ids : j # i => pel'[j] = pel[j]
    BY <2>2 DEF LeaseInv, LeaseTypes, Owner
  <2>5. LeaseMove(c)
    BY <1>1, <2>2, <2>4 DEF LeaseMove, LeaseInv, LeaseTypes
  <2>6. HoldMove(c, r)
    BY <2>1, <2>2, <2>3, <2>4, <2>7, <2>8, Zenon DEF HoldMove, Becomes, Owner
  <2> QED
    BY <2>5, <2>6, LeaseStep
<1>3. CASE InHand(c) \notin OwnedBy(c)
  <2>1. Becomes(c, [proc[c] EXCEPT !.beating = "off", !.held = 0]) /\ pel' = pel
    BY <1>3, Zenon DEF Heartbeat
  <2>2. \E r : Empty(r) /\ Becomes(c, r)
    BY <1>1, <2>1, Drops, Zenon
  <2> QED
    BY <1>1, <2>1, <2>2, LeaseQuiet, LetsGo
<1> QED
  BY <1>2, <1>3

\* A heartbeat that fails stands for the tick that it lets pass.
LEMMA BeatFailsLease ==
    ASSUME LeaseInv, NEW c \in Consumers, HeartbeatFails(c)
    PROVE  LeaseInv' /\ Untaken
<1>1. /\ IsRecord(proc[c]) /\ UNCHANGED <<added, pel, delivered>> /\ proc[c].held \in Nat
      /\ proc[c].pc = "handle" /\ ~proc[c].stopped /\ proc[c].beating = "due"
  BY Zenon DEF LeaseInv, LeaseTypes, HeartbeatFails, At, redis
<1>2. PICK n, r : /\ n = (IF proc[c].held > 0 THEN proc[c].held - 1 ELSE 0)
                  /\ r = [proc[c] EXCEPT !.beating = "wait", !.held = n]
  BY Zenon
<1>3. Becomes(c, r)
  BY <1>2, Zenon DEF HeartbeatFails
<1>4. /\ IsRecord(r) /\ r.hand = proc[c].hand /\ r.pc = proc[c].pc
      /\ r.beating = "wait" /\ r.held = n /\ r.stopped = proc[c].stopped
  BY <1>1, <1>2, Zenon DEF IsRecord, Fields
<1>5. n \in Nat /\ (n > 0 => Holds(proc[c]) /\ n = proc[c].held - 1)
  BY <1>1, <1>2 DEF Holds
<1>6. Holds(r) => Holds(proc[c]) /\ Age(r) = Age(proc[c])
  BY <1>1, <1>4, <1>5, ConsumerAssumption DEF Holds, Age
<1>7. Handling(r)
  BY <1>1, <1>4, Zenon DEF Handling
<1>8. HoldMove(c, r)
  BY <1>1, <1>3, <1>4, <1>5, <1>6, <1>7, Zenon DEF HoldMove, Becomes
<1> QED
  BY <1>1, <1>8, LeaseQuiet, LeaseStep

\* Time: a heartbeater that is punctual made its call in the tick that ends.
LEMMA TickLease ==
    ASSUME LeaseInv, Tick
    PROVE  LeaseInv' /\ Untaken
<1>1. /\ UNCHANGED <<added, delivered>> /\ \A c \in Consumers : Punctual(c)
      /\ pel' = [i \in Ids |-> IF i \in Pending THEN [pel[i] EXCEPT !.idle = Lesser(@ + 1, LeaseTTL)] ELSE pel[i]]
      /\ proc' = [c \in Consumers |-> Ticked(proc[c])]
  BY DEF Tick
<1>2. \A c \in Consumers :
          /\ IsRecord(proc'[c]) /\ proc'[c].held = proc[c].held /\ proc'[c].hand = proc[c].hand
          /\ Handling(proc[c]) => Handling(proc'[c]) /\ proc[c].beating # "due" /\ proc'[c].beating = "due"
  <2> SUFFICES ASSUME NEW c \in Consumers
               PROVE  /\ IsRecord(proc'[c]) /\ proc'[c].held = proc[c].held /\ proc'[c].hand = proc[c].hand
                      /\ Handling(proc[c]) => /\ Handling(proc'[c])
                                              /\ proc[c].beating # "due" /\ proc'[c].beating = "due"
    OBVIOUS
  <2>1. PICK b, v : /\ proc'[c] = [proc[c] EXCEPT !.trimDue = b, !.beating = v]
                    /\ v = IF proc[c].beating = "off" THEN "off" ELSE "due"
    BY <1>1, Zenon DEF Ticked
  <2>2. IsRecord(proc[c]) /\ Punctual(c)
    BY <1>1 DEF LeaseInv, LeaseTypes
  <2>3. /\ IsRecord(proc'[c]) /\ proc'[c].held = proc[c].held /\ proc'[c].hand = proc[c].hand
        /\ proc'[c].pc = proc[c].pc /\ proc'[c].beating = v
        /\ proc'[c].stopped = proc[c].stopped
    BY <2>1, <2>2, Zenon DEF IsRecord, Fields
  <2>4. ASSUME Handling(proc[c])
        PROVE  Handling(proc'[c]) /\ proc[c].beating # "due" /\ proc'[c].beating = "due"
    <3>1. v = "due" /\ proc[c].beating # "due"
      BY <2>1, <2>2, <2>4 DEF Handling, Punctual
    <3> QED
      BY <2>3, <2>4, <3>1 DEF Handling
  <2> QED
    BY <2>3, <2>4
<1>3. /\ pel' \in [Ids -> [owner : Consumers \cup {None}, idle : Nat, count : Nat]]
      /\ \A i \in Ids : Owner(i)' = Owner(i)
      /\ \A i \in Ids : pel'[i].idle = IF i \in Pending THEN Lesser(pel[i].idle + 1, LeaseTTL) ELSE pel[i].idle
  <2>1. \A n \in Nat : Lesser(n + 1, LeaseTTL) \in Nat
    BY ConsumerAssumption DEF Lesser
  <2> QED
    BY <1>1, <2>1 DEF LeaseInv, LeaseTypes, Owner
<1>4. LeaseTypes' /\ PendingDelivered'
  <2>1. LeaseTypes'
    BY <1>1, <1>2, <1>3 DEF LeaseInv, LeaseTypes
  <2>2. PendingDelivered'
    BY <1>1, <1>3 DEF LeaseInv, PendingDelivered, Owner
  <2> QED
    BY <2>1, <2>2
<1>5. ASSUME NEW c \in Consumers, Holds(proc[c])
      PROVE  /\ Handling(proc'[c]) /\ Beaten(c, InHand(c), proc[c])'
             /\ pel'[InHand(c)].owner \in {c, None}
  <2>1. PICK i : i = InHand(c)
    OBVIOUS
  <2>2. Handling(proc[c]) /\ Beaten(c, i, proc[c])
    BY <1>5, <2>1, Zenon DEF LeaseInv, HeldOK
  <2>3. Age(proc'[c]) = Age(proc[c]) + 1 /\ Age(proc[c]) \in Int /\ Age(proc'[c]) < LeaseTTL + 1
    BY <1>2, <1>5, <2>2, ConsumerAssumption DEF Age, LeaseInv, LeaseTypes, Holds
  <2>4. i \in Ids /\ pel[i].idle \in Nat /\ Owner(i)' = Owner(i) /\ Owner(i) \in {c, None}
    BY <1>3, <2>2 DEF Beaten, LeaseInv, LeaseTypes
  <2>5. Owner(i) = c => pel'[i].idle <= Age(proc'[c])
    <3> SUFFICES ASSUME Owner(i) = c
                 PROVE  pel'[i].idle <= Age(proc'[c])
      OBVIOUS
    <3>1. i \in Pending /\ pel[i].idle <= Age(proc[c])
      BY <2>2, <2>4, ConsumerAssumption DEF Pending, Owner, Beaten
    <3>2. pel'[i].idle = Lesser(pel[i].idle + 1, LeaseTTL)
      BY <1>3, <2>4, <3>1
    <3> QED
      BY <2>3, <2>4, <3>1, <3>2, ConsumerAssumption DEF Lesser
  <2>6. InHand(c)' = i /\ i <= delivered'
    BY <1>1, <1>2, <2>1, <2>2 DEF InHand, Beaten
  <2> QED
    BY <1>2, <2>1, <2>2, <2>4, <2>5, <2>6, Zenon DEF Beaten, Owner
<1>6. HeldOK' /\ Untaken
  BY <1>2, <1>5, Zenon DEF HeldOK, Untaken, Holds
<1> QED
  BY <1>4, <1>6 DEF LeaseInv

\* Every step keeps the leases.
LEMMA NextLease ==
    ASSUME LeaseInv, [Next]_vars
    PROVE  LeaseInv' /\ [Untaken]_vars
<1>1. CASE UNCHANGED vars
  BY <1>1 DEF vars, LeaseInv, LeaseTypes, PendingDelivered, HeldOK, Beaten, InHand, Owner
<1>2. CASE Enqueue
  <2>1. added' \in Nat /\ UNCHANGED <<delivered, pel, proc>>
    BY <1>2 DEF Enqueue, LeaseInv, LeaseTypes
  <2>2. LeaseInv'
    BY <2>1 DEF LeaseInv, LeaseTypes, PendingDelivered, HeldOK, Beaten, InHand, Owner
  <2>3. Untaken
    BY <2>1, Zenon DEF LeaseInv, HeldOK, Beaten, Untaken, Owner
  <2> QED
    BY <2>2, <2>3
<1>3. ASSUME NEW c \in Consumers,
             \/ Poll(c) \/ Finish(c) \/ Heartbeat(c) \/ Start(c)
             \/ HeartbeatFails(c) \/ ReadFails(c) \/ CountsFail(c) \/ DivertFails(c) \/ AckFails(c) \/ DutyFails(c)
             \/ Shutdown(c) \/ Crash(c) \/ Stall(c)
      PROVE  LeaseInv' /\ Untaken
  <2>1. CASE LoopStep(c) \/ EndStep(c)
    BY <2>1, LoopLease, EndLease
  <2>2. CASE Process(c) \/ Resume(c) \/ FinishShutdown(c) \/ Shutdown(c) \/ DrainExpires(c)
    BY <2>2, TurnLease
  <2>3. CASE ReadGroup(c) \/ ReadFails(c) \/ AutoClaim(c) \/ Heartbeat(c) \/ HeartbeatFails(c)
    BY <2>3, ReadLease, ReclaimLease, BeatLease, BeatFailsLease
  <2>4. CASE Ack(c) \/ DelConsumer(c) \/ \E d \in Consumers : JanitorDelete(c, d)
    BY <2>4, DropLease
  <2> QED
    BY <1>3, <2>1, <2>2, <2>3, <2>4, Zenon DEF Poll, Finish, LoopStep, EndStep
<1> QED
  BY <1>1, <1>2, <1>3, TickLease DEF Next

\* An entry is never taken from a handler that has beaten for it, was not stopped since
\* and has had fewer than LeaseTTL - 1 heartbeats fail in a row, whatever the other
\* consumers, the janitor and the trimmer do, for any TTL above one heartbeat and also
\* if processes are silent for the janitor's threshold.
THEOREM HandlerKeepsLeaseTheorem == Spec => HandlerKeepsLease
<1>1. Init => LeaseInv
  <2> SUFFICES ASSUME Init PROVE LeaseInv
    OBVIOUS
  <2>1. \A c \in Consumers : proc[c] = Fresh
    BY DEF Init
  <2>2. IsRecord(Fresh) /\ Fresh.held = 0
    BY DEF IsRecord, Fields, Fresh
  <2>3. HeldOK
    BY <2>1, <2>2 DEF HeldOK, Holds
  <2>4. LeaseTypes /\ PendingDelivered
    BY <2>1, <2>2 DEF Init, LeaseTypes, PendingDelivered, NotPending
  <2> QED
    BY <2>3, <2>4 DEF LeaseInv
<1>2. LeaseInv /\ [Next]_vars => LeaseInv' /\ [Untaken]_vars
  BY NextLease
<1>3. Spec => [][Untaken]_vars
  BY <1>1, <1>2, PTL DEF Spec
<1> QED
  BY <1>3, PTL DEF HandlerKeepsLease, Untaken, Holds

=============================================================================
