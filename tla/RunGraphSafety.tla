--------------------------- MODULE RunGraphSafety ---------------------------
(***************************************************************************)
(* Every transaction of module RunGraph keeps the invariant of             *)
(* RunGraphProofs and reverses no decision; the safety theorems follow.    *)
(* The transactions fall into six kinds: moves between live statuses,      *)
(* completions that fan out, dead letters, completions of a cancelling     *)
(* run, the cancel itself, and the requeue.                                *)
(***************************************************************************)
EXTENDS RunGraphProofs

-----------------------------------------------------------------------------
(* The six kinds of transactions, on any rows.                             *)

\* The approvals that a transaction decides were pending, the new ones are.
Approvals(d, c) ==
    \A x \in Steps : \/ c.approval[x] = d.approval[x]
                     \/ d.approval[x] = "pending" \/ c.approval[x] = "pending"

\* Claims, retries, parks, takeovers and announcements: statuses move between
\* live ones, no edge resolves, and an open run stays open.
LEMMA MoveSound ==
    ASSUME NEW d, Good(d), Sound(d), NEW c, Good(c), Gated(c),
           c.edge = d.edge, c.fired = d.fired,
           \A x \in Steps : \/ c.step[x] = d.step[x]
                            \/ d.step[x] \in Live /\ c.step[x] \in Live /\ d.run # "cancelling",
           c.run = d.run \/ (Open(d) /\ Open(c)),
           \A x \in c.dispatch : x \in d.dispatch \/ c.step[x] \in Live,
           Approvals(d, c)
    PROVE  Sound(c) /\ Final(d, c)
<1>1. Live \cap (Settled \cup {"pending"}) = {} /\ Done \subseteq Settled
  BY DEF Live, Settled, Done
<1>2. \A x \in Steps : c.step[x] = d.step[x] \/ (d.step[x] \in Live /\ c.step[x] \in Live)
  OBVIOUS
<1>3. Stopped(c) <=> Stopped(d)
  BY DEF Stopped, Open
<1>4. \A s : OpenEdges(c, s) = OpenEdges(d, s) /\ FiredEdges(c, s) = FiredEdges(d, s)
  BY DEF OpenEdges, FiredEdges
<1>5. Resolutions(c)
  <2>1. \A e \in Edges : Src[e] \in Steps
    BY GraphAssumption
  <2>2. \A x \in Steps : c.step[x] \in Done <=> d.step[x] \in Done
    BY <1>1, <1>2
  <2>3. \A x \in Steps : c.step[x] = "skipped" <=> d.step[x] = "skipped"
    BY <1>2 DEF Live
  <2> QED
    BY <1>3, <2>1, <2>2, <2>3 DEF Sound, Core, Resolutions
<1>6. Justified(c) /\ Waiting(c)
  BY <1>2, <1>4 DEF Sound, Core, Justified, Waiting, Live
<1>7. Announced(c)
  <2>1. d.dispatch \subseteq Steps
    BY DEF Good, Rows
  <2> QED
    BY <1>2, <1>3, <2>1 DEF Sound, Core, Announced, Live
<1>8. Caused(c)
  <2>1. /\ StepsIn(c, {"pending", "cancelled"}) = StepsIn(d, {"pending", "cancelled"})
        /\ StepsIn(c, {"dead_lettered"}) = StepsIn(d, {"dead_lettered"})
        /\ StepsIn(c, {"cancelled"}) = StepsIn(d, {"cancelled"})
    BY <1>2 DEF StepsIn, Live
  <2>2. \A t, B : Impossible(c, t, B) <=> Impossible(d, t, B)
    BY DEF Impossible
  <2>3. Blocked(c) = Blocked(d)
    BY <2>1, <2>2 DEF Blocked, PlanWriteOff
  <2> QED
    BY <1>3, <2>1, <2>3 DEF Sound, Core, Caused
<1>9. Concluded(c)
  <2>1. VerdictOK(c)
    BY <1>1, <1>2 DEF Sound, Concluded, VerdictOK, Open, Live
  <2>2. Open(c) => \E s \in Steps : c.step[s] \notin Settled
    BY <1>1, <1>2 DEF Sound, Concluded, Open
  <2>3. c.run = "cancelling" => /\ \E s \in Steps : c.step[s] = "running"
                                /\ \A s \in Steps : c.step[s] \in Settled \cup {"running"}
    BY DEF Sound, Concluded, Open
  <2> QED
    BY <2>1, <2>2, <2>3 DEF Concluded
<1>10. Final(d, c)
  BY <1>1, <1>2 DEF Final, Open, Approvals
<1>11. Freed(c)
  <2> SUFFICES ASSUME OnFailure # "fail_fast", ~Stopped(d), NEW t \in Steps \ JoinAny,
                      c.step[t] = "pending", NEW e \in OpenEdges(d, t)
               PROVE  c.step[Src[e]] \notin {"dead_lettered", "cancelled"}
    BY <1>3, <1>4 DEF Freed
  <2>1. d.step[t] = "pending" /\ Src[e] \in Steps
    BY <1>2, GraphAssumption DEF OpenEdges, In, Live
  <2>2. d.step[Src[e]] \notin {"dead_lettered", "cancelled"}
    BY <2>1 DEF Sound, Freed
  <2> QED
    BY <1>2, <2>1, <2>2 DEF Live
<1> QED
  BY <1>5, <1>6, <1>7, <1>8, <1>9, <1>10, <1>11 DEF Sound, Core

\* A run with a live step has neither succeeded nor been cancelled, and if it
\* failed it did so at its first failure.
LEMMA LiveRun ==
    ASSUME NEW d, Concluded(d), NEW s \in Steps, d.step[s] \in Live
    PROVE  /\ d.run \notin {"succeeded", "cancelled"}
           /\ d.run = "failed" => OnFailure = "fail_fast"
BY DEF Concluded, VerdictOK, Live, Done, Settled

\* A completion that fans out and rolls the run up.
LEMMA FanSound ==
    ASSUME NEW d, NEW b, NEW s \in Steps, NEW st \in {"succeeded", "collected"},
           NEW F \in SUBSET Out(s), Settling(d, b, s, st), Gated(b), Concluded(d),
           Approvals(d, b), Freed(d)
    PROVE  LET c == AttemptRunRollup(FanOut(b, s, F)) IN Sound(c) /\ Final(d, c)
<1> DEFINE f == FanOut(b, s, F)
           c == AttemptRunRollup(f)
<1>1. /\ Good(f) /\ Core(f) /\ Gated(f) /\ Freed(f)
      /\ f.run = d.run /\ f.approval = b.approval
      /\ \A x \in Steps : d.step[x] \in Settled => f.step[x] = d.step[x]
      /\ \A e \in Edges : d.edge[e] # "unresolved" => f.edge[e] = d.edge[e]
  BY FanCore
<1>2. /\ d.run \notin {"succeeded", "cancelled"} /\ ~Stopped(d)
      /\ d.run = "failed" => OnFailure = "fail_fast"
  BY LiveRun DEF Settling
<1> HIDE DEF f
<1>3. VerdictOK(f)
  <2>1. f.run = "failed" => \E x \in Steps : f.step[x] = "dead_lettered"
    BY <1>1 DEF Concluded, VerdictOK, Settled
  <2> QED
    BY <1>1, <1>2, <2>1 DEF VerdictOK
<1>4. ~Stopped(f)
  BY <1>1, <1>2 DEF Stopped
<1>5. Sound(c) /\ c.step = f.step /\ c.edge = f.edge /\ c.approval = f.approval
  BY <1>1, <1>3, <1>4, RunRollupSound
<1> HIDE DEF c
<1>6. Final(d, c)
  BY <1>1, <1>2, <1>5 DEF Final, Approvals
<1> QED
  BY <1>5, <1>6 DEF c, f

\* A live step that becomes a dead letter keeps the core of the invariant.
LEMMA DeadCore ==
    ASSUME NEW d, NEW b, NEW s \in Steps, Settling(d, b, s, "dead_lettered")
    PROVE  Core(b)
<1>1. /\ \A x \in Steps : b.step[x] = (IF x = s THEN "dead_lettered" ELSE d.step[x])
      /\ b.edge = d.edge /\ b.run = d.run /\ b.dispatch = d.dispatch
      /\ d.step[s] \notin {"pending", "cancelled", "skipped", "dead_lettered"} \cup Done
      /\ d.dispatch \subseteq Steps
  BY DEF Settling, Turned, Live, Done, Good, Rows
<1>2. \A t : OpenEdges(b, t) = OpenEdges(d, t) /\ FiredEdges(b, t) = FiredEdges(d, t)
  BY <1>1 DEF OpenEdges, FiredEdges
<1>3. Resolutions(b)
  <2>1. \A e \in Edges : Src[e] \in Steps
    BY GraphAssumption
  <2>2. \A x \in Steps : b.step[x] \in Done <=> d.step[x] \in Done
    BY <1>1 DEF Done
  <2>3. \A x \in Steps : b.step[x] = "skipped" <=> d.step[x] = "skipped"
    BY <1>1
  <2>4. Resolutions(d) /\ ~Stopped(d) /\ ~Stopped(b)
    BY <1>1 DEF Settling, Core, Stopped
  <2> QED
    BY <1>1, <2>1, <2>2, <2>3, <2>4 DEF Resolutions
<1>4. Justified(b) /\ Waiting(b)
  BY <1>1, <1>2 DEF Settling, Core, Justified, Waiting
<1>5. Announced(b)
  BY <1>1 DEF Settling, Core, Announced, Stopped
<1>6. Caused(b)
  <2> DEFINE B == StepsIn(d, {"dead_lettered"})
  <2>2. /\ Blocked(d) \subseteq StepsIn(d, {"pending", "cancelled"})
        /\ \A u \in Blocked(d) : Lost(d, u, B \cup Blocked(d))
    BY BlockedRule DEF Settling
  <2>3. Blocked(d) \subseteq StepsIn(b, {"pending", "cancelled"})
    BY <1>1, <2>2 DEF StepsIn
  <2>4. StepsIn(d, {"dead_lettered"}) \subseteq StepsIn(b, {"dead_lettered"})
    BY <1>1 DEF StepsIn
  <2>5. \A u \in Blocked(d) \cap JoinAny : FiredEdges(b, u) = {}
    BY <1>2, <2>2 DEF Lost
  <2>6. Blocked(d) \subseteq Blocked(b)
    BY <1>1, <2>3, <2>4, <2>5, BlockedPersists DEF Settling
  <2>7. StepsIn(b, {"cancelled"}) = StepsIn(d, {"cancelled"})
    BY <1>1 DEF StepsIn
  <2> QED
    BY <1>1, <2>6, <2>7 DEF Settling, Core, Caused, Stopped
<1> QED
  BY <1>3, <1>4, <1>5, <1>6 DEF Core

\* A dead letter with its disposition: the run fails at once, or its blocked
\* descendants are written off and it fails with its last step.
LEMMA DeadLetterSound ==
    ASSUME NEW d, NEW b, NEW s \in Steps, Settling(d, b, s, "dead_lettered"), Gated(b),
           Concluded(d), Approvals(d, b)
    PROVE  LET c == DeadLetterDisposition(b) IN Sound(c) /\ Final(d, c) /\ ~Stopped(c)
<1> DEFINE c == DeadLetterDisposition(b)
<1>0. Core(b) /\ Good(b) /\ b \in Rows
  BY DeadCore DEF Settling, Good
<1>1. /\ \A x \in Steps : b.step[x] = (IF x = s THEN "dead_lettered" ELSE d.step[x])
      /\ b.edge = d.edge /\ b.run = d.run /\ ~Stopped(d)
      /\ d.step[s] \notin Settled \cup {"pending"}
  BY DEF Settling, Turned, Live, Settled
<1>2. /\ d.run \notin {"succeeded", "cancelled", "cancelling"}
      /\ d.run = "failed" => OnFailure = "fail_fast"
  BY LiveRun DEF Settling, Stopped
<1>3. \E x \in Steps : b.step[x] = "dead_lettered"
  BY <1>1
<1>4. b.counters["dead_lettered"] >= 1
  BY <1>0, <1>3, DeadCount
<1>5. CASE OnFailure = "fail_fast"
  <2>1. CASE Open(b)
    <3>1. c = SetRun(b, "failed")
      BY <1>4, <1>5, <2>1 DEF DeadLetterDisposition
    <3> HIDE DEF c
    <3>2. /\ c.step = b.step /\ c.edge = b.edge /\ c.fired = b.fired
          /\ c.approval = b.approval /\ c.dispatch = b.dispatch /\ c.run = "failed"
      BY <1>0, <3>1, SetRunColumns
    <3>3. Core(c) /\ Gated(c)
      BY <1>0, <1>1, <1>2, <3>2, CoreFrame DEF Stopped
    <3>4. Concluded(c)
      BY <1>3, <1>5, <3>2 DEF Concluded, VerdictOK, Open
    <3>5. Final(d, c)
      BY <1>1, <1>2, <3>2 DEF Final, Approvals
    <3> QED
      BY <1>5, <3>2, <3>3, <3>4, <3>5 DEF Sound, Freed, Stopped, c
  <2>2. CASE ~Open(b)
    <3>1. c = b
      BY <1>5, <2>2 DEF DeadLetterDisposition
    <3>2. Concluded(b)
      BY <1>1, <1>2, <1>3, <1>5, <2>2 DEF Concluded, VerdictOK, Open
    <3>3. Final(d, b)
      BY <1>1, <1>2 DEF Final, Approvals
    <3> QED
      BY <1>0, <1>1, <1>5, <3>1, <3>2, <3>3 DEF Sound, Freed, Stopped
  <2> QED
    BY <2>1, <2>2
<1>6. CASE OnFailure # "fail_fast"
  <2> DEFINE w == CancelSteps(b, WriteOff(b))
  <2>1. /\ Good(w) /\ Core(w) /\ Gated(w) /\ w.run = b.run /\ w.approval = b.approval
        /\ Turned(b, w, WriteOff(b), "cancelled")
        /\ WriteOff(b) \subseteq StepsIn(b, {"pending"})
    BY <1>0, <1>1, WriteOffCore DEF Stopped
  <2>2. c = IF FailRunRollupGuard(w) THEN SetRun(w, "failed") ELSE w
    BY <1>6 DEF DeadLetterDisposition
  <2> HIDE DEF w, c
  <2>3. Open(w)
    <3>1. b.run \in RunStatus
      BY <1>0 DEF Rows
    <3> QED
      BY <1>1, <1>2, <1>6, <2>1, <3>1 DEF Open, RunStatus
  <2>4. /\ \A x \in Steps : w.step[x] = (IF x \in WriteOff(b) THEN "cancelled" ELSE b.step[x])
        /\ \A x \in WriteOff(b) : b.step[x] = "pending"
        /\ w.edge = b.edge
    BY <2>1 DEF Turned, StepsIn
  <2>5. Final(d, w)
    <3>1. \A x \in Steps : d.step[x] \in Settled => w.step[x] = d.step[x]
      <4>1. "pending" \notin Settled
        BY DEF Settled
      <4> QED
        BY <1>1, <2>4, <4>1
    <3> QED
      BY <1>1, <1>2, <2>1, <2>4, <3>1 DEF Final, Approvals
  <2>6. \E x \in Steps : w.step[x] = "dead_lettered"
    BY <1>3, <2>4
  <2>7. w.counters["dead_lettered"] >= 1
    BY <2>1, <2>6, DeadCount
  <2>8. Sum(w, Settled) = Cardinality(Steps) <=> \A x \in Steps : w.step[x] \in Settled
    BY <2>1, SumFull
  <2>9. Freed(w)
    <3> DEFINE P == StepsIn(b, {"pending"})
               C == StepsIn(b, {"dead_lettered", "cancelled"})
               W == WriteOff(b)
    <3>1. \A u \in P : Lost(b, u, C \cup W) => u \in W
      <4>1. W = PlanWriteOff(b, P, C) /\ P \in SUBSET Steps
        BY DEF WriteOff, StepsIn
      <4> HIDE DEF W, P, C
      <4> QED
        BY <1>0, <4>1, WriteOffRule, Zenon
    <3> SUFFICES ASSUME NEW t \in Steps \ JoinAny, w.step[t] = "pending",
                        NEW e \in OpenEdges(w, t), w.step[Src[e]] \in {"dead_lettered", "cancelled"}
                 PROVE  FALSE
      BY DEF Freed
    <3>2. Src[e] \in Steps /\ e \in OpenEdges(b, t)
      BY <2>4, GraphAssumption DEF OpenEdges, In
    <3>3. t \in P /\ t \notin W /\ Src[e] \in C \cup W
      BY <2>4, <3>2 DEF StepsIn
    <3>4. Lost(b, t, C \cup W)
      BY <3>2, <3>3 DEF Lost
    <3> QED
      BY <3>1, <3>3, <3>4
  <2>10. CASE FailRunRollupGuard(w)
    <3>1. c = SetRun(w, "failed") /\ w \in Rows
      BY <2>1, <2>2, <2>10 DEF Good
    <3>2. /\ c.step = w.step /\ c.edge = w.edge /\ c.fired = w.fired
          /\ c.approval = w.approval /\ c.dispatch = w.dispatch /\ c.run = "failed"
      BY <3>1, SetRunColumns
    <3>3. Core(c) /\ Gated(c)
      BY <2>1, <2>3, <3>2, CoreFrame DEF Stopped, Open
    <3>4. Concluded(c)
      BY <2>6, <2>8, <2>10, <3>2 DEF Concluded, VerdictOK, Open, FailRunRollupGuard
    <3>5. Final(d, c)
      BY <1>2, <2>5, <3>2 DEF Final
    <3>6. Freed(c)
      BY <2>3, <2>9, <3>2, FreedFrame DEF Stopped, Open
    <3> QED
      BY <3>2, <3>3, <3>4, <3>5, <3>6 DEF Sound, Stopped, c
  <2>11. CASE ~FailRunRollupGuard(w)
    <3>1. c = w
      BY <2>2, <2>11
    <3>2. ~\A x \in Steps : w.step[x] \in Settled
      BY <2>3, <2>7, <2>8, <2>11 DEF FailRunRollupGuard
    <3>3. Concluded(w)
      BY <2>3, <3>2 DEF Concluded, VerdictOK, Open
    <3> QED
      BY <2>1, <2>3, <2>5, <2>9, <3>1, <3>3 DEF Sound, Stopped, Open, c
  <2> QED
    BY <2>10, <2>11
<1> QED
  BY <1>5, <1>6

\* A running step of a cancelling run settles, however, and its rollup follows.
LEMMA FinishSound ==
    ASSUME NEW d, Good(d), Sound(d), d.run = "cancelling", NEW s \in Steps,
           d.step[s] = "running", NEW b, Good(b),
           NEW st \in {"succeeded", "cancelled", "dead_lettered"}, Turned(d, b, {s}, st),
           b.run = d.run, b.approval = d.approval, b.dispatch = d.dispatch
    PROVE  /\ Sound(AttemptCancelRollup(b)) /\ Final(d, AttemptCancelRollup(b))
           /\ AttemptRunRollup(b) = AttemptCancelRollup(b)
<1> DEFINE c == AttemptCancelRollup(b)
<1>1. /\ \A x \in Steps : b.step[x] = (IF x = s THEN st ELSE d.step[x])
      /\ b.edge = d.edge /\ d.dispatch \subseteq Steps
  BY DEF Turned, Good, Rows
<1>2. \A t : OpenEdges(b, t) = OpenEdges(d, t) /\ FiredEdges(b, t) = FiredEdges(d, t)
  BY <1>1 DEF OpenEdges, FiredEdges
<1>3. Resolutions(b)
  <2>1. \A e \in Edges : Src[e] \in Steps
    BY GraphAssumption
  <2>2. \A e \in Edges : d.edge[e] # "unresolved" => Src[e] # s
    BY DEF Sound, Core, Resolutions, Done
  <2> QED
    BY <1>1, <2>1, <2>2 DEF Sound, Core, Resolutions, Stopped
<1>4. Justified(b) /\ Waiting(b)
  BY <1>1, <1>2 DEF Sound, Core, Justified, Waiting
<1>5. Announced(b) /\ Caused(b)
  BY <1>1 DEF Sound, Core, Announced, Caused, Stopped
<1>6. Gated(b)
  BY <1>1 DEF Sound, Gated
<1>7. \A x \in Steps : b.step[x] \in Settled \cup {"running"}
  BY <1>1 DEF Sound, Concluded, Settled
<1>8. Sound(c) /\ c.step = b.step /\ c.edge = b.edge /\ c.approval = b.approval
  BY <1>3, <1>4, <1>5, <1>6, <1>7, CancelRollupSound DEF Core
<1>9. AttemptRunRollup(b) = c
  BY DEF AttemptRunRollup, SucceedRunGuard, FailRunRollupGuard, Open
<1> HIDE DEF c
<1>10. Final(d, c)
  BY <1>1, <1>8 DEF Final, Settled
<1> QED
  BY <1>8, <1>9, <1>10 DEF c

\* The cancel sweeps every step that is not executing, approvals included.
LEMMA CancelSound ==
    ASSUME Good(db), Sound(db), Cancel
    PROVE  Sound(db') /\ Final(db, db')
<1> DEFINE a == SetRun(db, "cancelling")
           S == StepsIn(db, {"pending", "ready", "retrying"})
           G == StepsIn(db, {"awaiting_human"})
           b == CancelSteps(a, S)
           g == Settle(b, G, "cancelled")
           f == [x \in Steps |-> IF x \in G THEN "cancelled" ELSE b.approval[x]]
           c == CancelAwaiting(b, G)
<1>0. db \in Rows /\ Open(db) /\ db' = AttemptCancelRollup(c)
  BY DEF Good, Cancel
<1>1. /\ Good(a) /\ a \in Rows /\ a.run = "cancelling" /\ a.step = db.step /\ a.edge = db.edge
      /\ a.approval = db.approval /\ a.dispatch = db.dispatch
  <2>1. Good(a)
    BY RollupGood DEF RunStatus
  <2> QED
    BY <1>0, <2>1, SetRunColumns DEF Good
<1>2. /\ S \in SUBSET Steps /\ G \in SUBSET Steps /\ S \cap G = {}
      /\ \A x \in S \cup G : db.step[x] \notin Settled
  BY DEF StepsIn, Settled
<1> HIDE DEF a
<1>3. /\ Good(b) /\ b \in Rows
      /\ Turned(a, b, S, "cancelled") /\ b.run = a.run
      /\ b.approval = a.approval /\ b.dispatch = a.dispatch
  <2> HIDE DEF S
  <2>1. Good(b)
    BY <1>1, <1>2, SweepGood
  <2> QED
    BY <1>1, <1>2, <2>1, CancelStepsColumns DEF Good
<1> HIDE DEF b
<1>4. /\ \A x \in Steps : b.step[x] = (IF x \in S THEN "cancelled" ELSE db.step[x])
      /\ b.edge = db.edge
  BY <1>1, <1>3 DEF Turned
<1>5. Good(c)
  <2>1. \A x \in G : b.step[x] \notin Settled
    BY <1>2, <1>4
  <2> HIDE DEF G
  <2> QED
    BY <1>2, <1>3, <2>1, SweepGood
<1>6. /\ Turned(b, c, G, "cancelled") /\ c.run = b.run /\ c.dispatch = b.dispatch
      /\ \A x \in Steps : c.approval[x] = IF x \in G THEN "cancelled" ELSE b.approval[x]
  <2> HIDE DEF G
  <2>1. /\ Turned(b, g, G, "cancelled") /\ g.run = b.run /\ g.dispatch = b.dispatch
    BY <1>2, <1>3, SettleColumns DEF StepStatus, Settled
  <2>2. c = [g EXCEPT !.approval = f]
    BY DEF CancelAwaiting
  <2>3. \A x \in Steps : f[x] = IF x \in G THEN "cancelled" ELSE b.approval[x]
    OBVIOUS
  <2>4. g \in Rows
    <3>1. \A x \in G : b.step[x] \notin Settled
      BY <1>2, <1>4
    <3>2. Good(g)
      BY <1>2, <1>3, <3>1, SettleGood DEF Settled
    <3> QED
      BY <3>2 DEF Good
  <2> HIDE DEF f, g, c
  <2>5. /\ c.step = g.step /\ c.edge = g.edge /\ c.run = g.run /\ c.dispatch = g.dispatch
        /\ c.approval = f
    BY <2>2, <2>4 DEF Rows
  <2> QED
    BY <2>1, <2>3, <2>5 DEF Turned
<1> HIDE DEF c
<1>7. /\ \A x \in Steps : c.step[x] = IF x \in S \cup G THEN "cancelled" ELSE db.step[x]
      /\ \A x \in Steps : c.approval[x] = IF x \in G THEN "cancelled" ELSE db.approval[x]
      /\ c.edge = db.edge /\ c.run = "cancelling" /\ c.dispatch = db.dispatch
  BY <1>1, <1>3, <1>4, <1>6 DEF Turned
<1>8. \A x \in Steps : x \in S \cup G \/ db.step[x] \in Settled \cup {"running"}
  BY <1>0 DEF S, G, StepsIn, Rows, StepStatus
<1>9. \A x \in Steps : c.step[x] \in Settled \cup {"running"}
  BY <1>7, <1>8 DEF Settled
<1>10. Resolutions(c)
  <2>1. \A e \in Edges : Src[e] \in Steps
    BY GraphAssumption
  <2>2. \A x \in S \cup G : db.step[x] \notin Done
    BY <1>2 DEF Done, Settled
  <2> QED
    BY <1>7, <2>1, <2>2 DEF Sound, Core, Resolutions, Stopped
<1>11. Justified(c) /\ Waiting(c)
  <2>1. \A t : OpenEdges(c, t) = OpenEdges(db, t) /\ FiredEdges(c, t) = FiredEdges(db, t)
    BY <1>7 DEF OpenEdges, FiredEdges
  <2>2. \A x \in Steps : c.step[x] # "pending"
    BY <1>9 DEF Settled
  <2> QED
    BY <1>7, <2>1, <2>2 DEF Sound, Core, Justified, Waiting
<1>12. Announced(c) /\ Caused(c)
  <2>1. \A x \in Steps : c.step[x] # "pending"
    BY <1>9 DEF Settled
  <2> QED
    BY <1>0, <1>7, <2>1 DEF Announced, Caused, Stopped, Rows
<1>13. Gated(c)
  <2>1. \A x \in Steps : db.step[x] = "awaiting_human" <=> x \in G
    BY DEF StepsIn
  <2>2. \A x \in Steps : c.step[x] # "awaiting_human"
    BY <1>9 DEF Settled
  <2> QED
    BY <1>7, <2>1, <2>2 DEF Sound, Gated
<1>14. /\ Sound(db') /\ db'.step = c.step /\ db'.edge = c.edge /\ db'.approval = c.approval
  BY <1>0, <1>5, <1>7, <1>9, <1>10, <1>11, <1>12, <1>13, CancelRollupSound DEF Core
<1>15. Final(db, db')
  <2>1. \A x \in G : db.approval[x] = "pending"
    BY <1>2 DEF Sound, Gated, StepsIn
  <2> QED
    BY <1>0, <1>2, <1>7, <1>14, <2>1 DEF Final, Open
<1> QED
  BY <1>14, <1>15

\* What Reopen leaves in the columns the invariant reads.
LEMMA ReopenColumns ==
    ASSUME NEW d \in Rows, NEW S \in SUBSET Steps, NEW from, NEW to \in StepStatus
    PROVE  LET c == Reopen(d, S, from, to)
           IN  /\ Turned(d, c, S, to) /\ c.fired = d.fired /\ c.run = d.run
               /\ c.approval = d.approval /\ c.dispatch = d.dispatch
<1> DEFINE b == SetStatus(d, S, to)
           n == [b.counters EXCEPT ![from] = @ - Cardinality(S)]
           c == Reopen(d, S, from, to)
<1>1. /\ Turned(d, b, S, to) /\ b.fired = d.fired /\ b.run = d.run
      /\ b.approval = d.approval /\ b.dispatch = d.dispatch
  BY SettleColumns
<1>2. b \in Rows
  BY SetStatusRows
<1>3. c = [b EXCEPT !.counters = n]
  BY DEF Reopen
<1> HIDE DEF b, n, c
<1>4. /\ c.step = b.step /\ c.edge = b.edge /\ c.fired = b.fired /\ c.run = b.run
      /\ c.approval = b.approval /\ c.dispatch = b.dispatch
  BY <1>2, <1>3 DEF Rows
<1> QED
  BY <1>1, <1>4 DEF c, Turned

\* A requeue readies the dead letter, resumes the run and revives what the
\* remaining dead letters do not block.
LEMMA RequeueSound ==
    ASSUME Good(db), Sound(db), NEW s \in Steps, Requeue(s), Good(db')
    PROVE  Sound(db') /\ Final(db, db')
<1> DEFINE a == RequeueStep(db, s)
           b == ResumeRun(a)
           n == b.requeues + 1
           d == [b EXCEPT !.requeues = n]
           V == StepsIn(d, {"cancelled"}) \ Blocked(d)
           r == ReviveSteps(d, V)
<1>0. /\ db \in Rows /\ db.step[s] = "dead_lettered" /\ ~Stopped(db)
      /\ db' = OutboxReady(r)
  BY DEF Good, Requeue, Stopped
<1>1. /\ Good(a) /\ a \in Rows
      /\ Turned(db, a, {s}, "ready") /\ a.fired = db.fired /\ a.run = db.run
      /\ a.approval = db.approval /\ a.dispatch = db.dispatch
  <2>1. "dead_lettered" \in Settled /\ "ready" \in StepStatus \ Settled
    BY DEF Settled, StepStatus
  <2>2. Good(a)
    BY <1>0, <2>1, ReopenGood DEF RequeueStep
  <2>3. /\ Turned(db, a, {s}, "ready") /\ a.fired = db.fired /\ a.run = db.run
        /\ a.approval = db.approval /\ a.dispatch = db.dispatch
    BY <1>0, <2>1, ReopenColumns DEF RequeueStep
  <2> HIDE DEF a
  <2> QED
    BY <2>2, <2>3 DEF Good
<1> HIDE DEF a
<1>2. /\ Good(b) /\ b \in Rows
      /\ b.step = a.step /\ b.edge = a.edge /\ b.fired = a.fired
      /\ b.approval = a.approval /\ b.dispatch = a.dispatch
      /\ b.run = IF a.run = "failed" THEN "running" ELSE a.run
  <2>1. Good(b)
    BY <1>1, SameRows, SameGood
  <2> QED
    BY <1>1, <2>1, Zenon DEF ResumeRun, Rows, Good
<1> HIDE DEF b
<1>3. n \in Nat
  BY <1>2 DEF Rows
<1> HIDE DEF n
<1>4. /\ Good(d) /\ d \in Rows
      /\ d.step = a.step /\ d.edge = a.edge /\ d.fired = a.fired
      /\ d.approval = a.approval /\ d.dispatch = a.dispatch /\ d.run = b.run
  <2>1. Good(d)
    BY <1>2, <1>3, SameRows, SameGood
  <2> QED
    BY <1>2, <2>1, Zenon DEF Rows, Good
<1>5. /\ \A x \in Steps : d.step[x] = (IF x = s THEN "ready" ELSE db.step[x])
      /\ d.edge = db.edge /\ d.fired = db.fired
  BY <1>1, <1>4 DEF Turned
<1> HIDE DEF d
<1>6. V \in SUBSET Steps /\ \A x \in V : d.step[x] = "cancelled" /\ db.step[x] = "cancelled"
  <2>1. V \in SUBSET Steps /\ \A x \in V : d.step[x] = "cancelled"
    BY DEF StepsIn
  <2> HIDE DEF V
  <2> QED
    BY <1>5, <2>1
<1>7. /\ Turned(d, r, V, "pending") /\ r.fired = d.fired /\ r.run = d.run
      /\ r.approval = d.approval /\ r.dispatch = d.dispatch /\ r \in Rows
  <2> HIDE DEF V
  <2>1. "pending" \in StepStatus \ Settled /\ "cancelled" \in Settled
    BY DEF StepStatus, Settled
  <2>2. Good(r)
    BY <1>4, <1>6, <2>1, ReopenGood DEF ReviveSteps
  <2>3. /\ Turned(d, r, V, "pending") /\ r.fired = d.fired /\ r.run = d.run
        /\ r.approval = d.approval /\ r.dispatch = d.dispatch
    BY <1>4, <1>6, <2>1, ReopenColumns DEF ReviveSteps
  <2> QED
    BY <2>2, <2>3 DEF Good
<1> HIDE DEF r
<1> DEFINE c == db'
<1>8. /\ c.step = r.step /\ c.edge = r.edge /\ c.fired = r.fired /\ c.run = r.run
      /\ c.approval = r.approval
      /\ c.dispatch = r.dispatch \cup StepsIn(r, {"ready"})
  BY <1>0, <1>7 DEF OutboxReady, Outbox, Rows
<1> HIDE DEF V, c
<1>9. /\ \A x \in Steps : c.step[x] = IF x \in V THEN "pending"
                                      ELSE IF x = s THEN "ready" ELSE db.step[x]
      /\ \A x \in Steps : c.step[x] = IF x \in V THEN "pending" ELSE d.step[x]
      /\ s \notin V
      /\ c.edge = db.edge /\ c.fired = db.fired /\ c.approval = db.approval
      /\ c.run = IF db.run = "failed" THEN "running" ELSE db.run
      /\ c.dispatch = db.dispatch \cup StepsIn(c, {"ready"})
  <2>1. StepsIn(c, {"ready"}) = StepsIn(r, {"ready"})
    BY <1>8 DEF StepsIn
  <2> QED
    BY <1>0, <1>1, <1>2, <1>4, <1>5, <1>6, <1>7, <1>8, <2>1 DEF Turned
<1>10. ~Stopped(c)
  BY <1>0, <1>9 DEF Stopped
<1>11. \A t : OpenEdges(c, t) = OpenEdges(db, t) /\ FiredEdges(c, t) = FiredEdges(db, t)
  BY <1>9 DEF OpenEdges, FiredEdges
<1>12. Resolutions(c)
  <2>1. \A e \in Edges : Src[e] \in Steps
    BY GraphAssumption
  <2>2. \A x \in Steps : c.step[x] \in Done <=> db.step[x] \in Done
    BY <1>0, <1>6, <1>9 DEF Done
  <2>3. \A x \in Steps : c.step[x] = "skipped" <=> db.step[x] = "skipped"
    BY <1>0, <1>6, <1>9
  <2>4. Resolutions(db)
    BY DEF Sound, Core
  <2> QED
    BY <1>0, <1>9, <1>10, <2>1, <2>2, <2>3, <2>4 DEF Resolutions
<1>13. Justified(c)
  BY <1>0, <1>6, <1>9, <1>11, Zenon DEF Sound, Core, Justified
<1>14. Waiting(c)
  <2> SUFFICES ASSUME NEW x \in Steps, c.step[x] = "pending"
               PROVE  OpenEdges(db, x) # {} /\ (x \in JoinAny => FiredEdges(db, x) = {})
    BY <1>11 DEF Waiting
  <2>1. CASE db.step[x] = "pending"
    BY <2>1 DEF Sound, Core, Waiting
  <2>2. CASE x \in V
    <3>1. x \in Blocked(db)
      BY <1>0, <1>6, <2>2 DEF Sound, Core, Caused, StepsIn
    <3>2. Lost(db, x, StepsIn(db, {"dead_lettered"}) \cup Blocked(db))
      BY <3>1, BlockedRule
    <3> QED
      BY <3>2 DEF Lost
  <2> QED
    BY <1>9, <2>1, <2>2
<1>15. Announced(c)
  <2>1. \A x \in db.dispatch : x \in Steps /\ db.step[x] # "pending" /\ db.step[x] # "cancelled"
    BY <1>0 DEF Sound, Core, Announced, Rows
  <2>2. \A x \in StepsIn(c, {"ready"}) : c.step[x] = "ready"
    BY DEF StepsIn
  <2> QED
    BY <1>6, <1>9, <2>1, <2>2 DEF Announced
<1>16. Gated(c)
  BY <1>0, <1>6, <1>9 DEF Sound, Gated
<1>17. Caused(c)
  <2>1. /\ StepsIn(c, {"pending", "cancelled"}) = StepsIn(d, {"pending", "cancelled"})
        /\ StepsIn(c, {"dead_lettered"}) = StepsIn(d, {"dead_lettered"})
        /\ StepsIn(c, {"cancelled"}) = StepsIn(d, {"cancelled"}) \ V
    BY <1>6, <1>9 DEF StepsIn
  <2>2. \A t, B : Impossible(c, t, B) <=> Impossible(d, t, B)
    BY <1>5, <1>9 DEF Impossible
  <2>3. Blocked(c) = Blocked(d)
    BY <2>1, <2>2 DEF Blocked, PlanWriteOff
  <2> QED
    BY <2>1, <2>3 DEF Caused, V
<1>18. db.run # "succeeded"
  BY <1>0 DEF Sound, Concluded, VerdictOK, Done
<1>19. Concluded(c)
  <2>1. c.run \in {"running", "parked"}
    BY <1>0, <1>9, <1>18 DEF Rows, RunStatus, Stopped
  <2>2. c.step[s] \notin Settled
    BY <1>9 DEF Settled
  <2> QED
    BY <2>1, <2>2 DEF Concluded, VerdictOK, Open
<1>20. Final(db, c)
  BY <1>0, <1>6, <1>9, <1>18 DEF Final, Stopped
<1>21. Freed(c)
  <2> DEFINE L == Blocked(d)
             B == StepsIn(d, {"dead_lettered"})
  <2> SUFFICES ASSUME OnFailure # "fail_fast", NEW t \in Steps \ JoinAny, c.step[t] = "pending",
                      NEW e \in OpenEdges(db, t), c.step[Src[e]] \in {"dead_lettered", "cancelled"}
               PROVE  FALSE
    BY <1>11 DEF Freed
  <2>1. Src[e] \in Steps /\ e \in OpenEdges(d, t)
    BY <1>5, GraphAssumption DEF OpenEdges, In
  <2>2. db.step[Src[e]] \in {"dead_lettered", "cancelled"} /\ Src[e] \notin V
    BY <1>6, <1>9, <2>1
  <2>3. db.step[t] # "pending"
    BY <1>0, <2>2 DEF Sound, Freed
  <2>4. t \in V
    BY <1>9, <2>3
  <2>5. Src[e] \in B \cup L
    <3>1. d.step[Src[e]] \in {"dead_lettered", "cancelled"}
      BY <1>9, <2>1, <2>2
    <3> QED
      BY <2>1, <2>2, <3>1 DEF V, StepsIn
  <2>6. Lost(d, t, B \cup L)
    BY <2>1, <2>5 DEF Lost
  <2>7. t \in StepsIn(d, {"pending", "cancelled"})
    BY <1>6, <2>4 DEF StepsIn
  <2>8. t \in L
    BY <1>4, <2>6, <2>7, BlockedRule
  <2> QED
    BY <2>4, <2>8 DEF V
<1> QED
  BY <1>12, <1>13, <1>14, <1>15, <1>16, <1>17, <1>19, <1>20, <1>21 DEF Sound, Core, c

-----------------------------------------------------------------------------
(* The store transitions, column by column.                                *)

\* c keeps the columns of d that a change of statuses alone does not touch.
Kept(d, c) ==
    c.fired = d.fired /\ c.run = d.run /\ c.approval = d.approval /\ c.dispatch = d.dispatch

\* The transitions between live statuses.
LEMMA LiveColumns ==
    ASSUME NEW d \in Rows, NEW s \in Steps
    PROVE  /\ Turned(d, ClaimStep(d, s), {s}, "running") /\ Kept(d, ClaimStep(d, s))
           /\ Turned(d, TakeoverStep(d, s), {s}, "ready") /\ Kept(d, TakeoverStep(d, s))
           /\ Turned(d, RetryStep(d, s), {s}, "retrying") /\ Kept(d, RetryStep(d, s))
           /\ Turned(d, ThrottleStep(d, s), {s}, "retrying") /\ Kept(d, ThrottleStep(d, s))
           /\ Turned(d, SemanticRetryStep(d, s), {s}, "retrying") /\ Kept(d, SemanticRetryStep(d, s))
<1>1. \A st \in {"running", "ready", "retrying"} :
        /\ Turned(d, SetStatus(d, {s}, st), {s}, st) /\ Kept(d, SetStatus(d, {s}, st))
        /\ SetStatus(d, {s}, st) \in Rows
  <2>1. {"running", "ready", "retrying"} \subseteq StepStatus /\ {s} \in SUBSET Steps
    BY DEF StepStatus
  <2> QED
    BY <2>1, SettleColumns, SetStatusRows DEF Kept
<1>2. ASSUME NEW b \in Rows, NEW t, NEW u, Turned(d, b, {s}, t), Kept(d, b),
             NEW c, \/ c = [b EXCEPT !.due = u]
                    \/ c = [b EXCEPT !.transport = u]
                    \/ \E v : c = [b EXCEPT !.semantic = u, !.due = v]
      PROVE  Turned(d, c, {s}, t) /\ Kept(d, c)
  <2>1. /\ c.step = b.step /\ c.edge = b.edge /\ c.fired = b.fired /\ c.run = b.run
        /\ c.approval = b.approval /\ c.dispatch = b.dispatch
    BY <1>2, Zenon DEF Rows
  <2> QED
    BY <1>2, <2>1, Zenon DEF Turned, Kept
<1>3. Turned(d, ClaimStep(d, s), {s}, "running") /\ Kept(d, ClaimStep(d, s))
  <2> DEFINE b == SetStatus(d, {s}, "running")
             u == b.due \ {s}
  <2>1. ClaimStep(d, s) = [b EXCEPT !.due = u]
    BY DEF ClaimStep
  <2>2. b \in Rows /\ Turned(d, b, {s}, "running") /\ Kept(d, b)
    BY <1>1
  <2> HIDE DEF b, u
  <2> QED
    BY <1>2, <2>1, <2>2, Zenon
<1> DEFINE r == SetStatus(d, {s}, "retrying")
<1>4. r \in Rows /\ Turned(d, r, {s}, "retrying") /\ Kept(d, r)
  BY <1>1
<1>5. Turned(d, RetryStep(d, s), {s}, "retrying") /\ Kept(d, RetryStep(d, s))
  <2> DEFINE u == [r.transport EXCEPT ![s] = @ + 1]
  <2>1. RetryStep(d, s) = [r EXCEPT !.transport = u]
    BY DEF RetryStep
  <2> HIDE DEF r, u
  <2> QED
    BY <1>2, <1>4, <2>1, Zenon
<1>6. Turned(d, SemanticRetryStep(d, s), {s}, "retrying") /\ Kept(d, SemanticRetryStep(d, s))
  <2> DEFINE u == [r.semantic EXCEPT ![s] = @ + 1]
             v == r.due \cup {s}
  <2>1. SemanticRetryStep(d, s) = [r EXCEPT !.semantic = u, !.due = v]
    BY DEF SemanticRetryStep
  <2> HIDE DEF r, u, v
  <2> QED
    BY <1>2, <1>4, <2>1, Zenon
<1> QED
  BY <1>1, <1>3, <1>5, <1>6 DEF TakeoverStep, ThrottleStep

\* The transitions that settle one step.
LEMMA SettlingColumns ==
    ASSUME NEW d \in Rows, NEW s \in Steps
    PROVE  /\ Turned(d, SucceedStep(d, s), {s}, "succeeded") /\ Kept(d, SucceedStep(d, s))
           /\ Turned(d, CollectFailStep(d, s), {s}, "collected") /\ Kept(d, CollectFailStep(d, s))
           /\ Turned(d, CancelRunningStep(d, s), {s}, "cancelled") /\ Kept(d, CancelRunningStep(d, s))
           /\ Turned(d, DeadLetterStep(d, s), {s}, "dead_lettered") /\ Kept(d, DeadLetterStep(d, s))
<1>1. \A st \in Settled : Turned(d, Settle(d, {s}, st), {s}, st) /\ Kept(d, Settle(d, {s}, st))
  <2>1. Settled \subseteq StepStatus /\ {s} \in SUBSET Steps
    BY DEF StepStatus
  <2> QED
    BY <2>1, SettleColumns DEF Kept
<1>2. {"succeeded", "collected", "cancelled", "dead_lettered"} \subseteq Settled
  BY DEF Settled
<1>3. Turned(d, DeadLetterStep(d, s), {s}, "dead_lettered") /\ Kept(d, DeadLetterStep(d, s))
  <2> DEFINE a == SetStatus(d, {s}, "dead_lettered")
             n == [a.counters EXCEPT !["dead_lettered"] = @ + Cardinality({s})]
             b == Settle(d, {s}, "dead_lettered")
             f == [b.transport EXCEPT ![s] = 0]
             g == [b.semantic EXCEPT ![s] = 0]
             u == b.due \ {s}
             c == DeadLetterStep(d, s)
  <2>1. Turned(d, b, {s}, "dead_lettered") /\ Kept(d, b)
    BY <1>1, <1>2
  <2>2. a \in Rows
    BY SetStatusRows DEF StepStatus, Settled
  <2>3. b = [a EXCEPT !.counters = n]
    BY DEF Settle
  <2>4. c = [b EXCEPT !.transport = f, !.semantic = g, !.due = u]
    BY DEF DeadLetterStep
  <2> HIDE DEF a, b, c, f, g, u, n
  <2>5. /\ c.step = b.step /\ c.edge = b.edge /\ c.fired = b.fired /\ c.run = b.run
        /\ c.approval = b.approval /\ c.dispatch = b.dispatch
    BY <2>2, <2>3, <2>4 DEF Rows
  <2>6. Turned(d, c, {s}, "dead_lettered") /\ Kept(d, c)
    BY <2>1, <2>5 DEF Turned, Kept
  <2> QED
    BY <2>6 DEF c
<1> QED
  BY <1>1, <1>2, <1>3 DEF SucceedStep, CollectFailStep, CancelRunningStep

\* Announcing steps, whatever else the rows hold.
LEMMA OutboxColumns ==
    ASSUME NEW d \in Rows, NEW S
    PROVE  /\ Outbox(d, S).step = d.step /\ Outbox(d, S).edge = d.edge
           /\ Outbox(d, S).fired = d.fired /\ Outbox(d, S).run = d.run
           /\ Outbox(d, S).approval = d.approval
           /\ Outbox(d, S).dispatch = d.dispatch \cup S
BY DEF Outbox, Rows

-----------------------------------------------------------------------------
(* The actions.                                                            *)

\* A step moves between live statuses other than awaiting_human, and is
\* perhaps announced.
LEMMA LiveMove ==
    ASSUME NEW d, Good(d), Sound(d), NEW s \in Steps, NEW c, Good(c), NEW st,
           d.step[s] \in {"ready", "running", "retrying"}, st \in {"ready", "running", "retrying"},
           d.run # "cancelling", Turned(d, c, {s}, st), c.fired = d.fired,
           c.run = d.run \/ (Open(d) /\ Open(c)), c.approval = d.approval,
           c.dispatch = d.dispatch \/ c.dispatch = d.dispatch \cup {s}
    PROVE  Sound(c) /\ Final(d, c)
<1>1. \A x \in Steps : c.step[x] = IF x = s THEN st ELSE d.step[x]
  BY DEF Turned
<1>2. d.step[s] \in Live /\ st \in Live
  BY DEF Live
<1>3. Gated(c)
  BY <1>1 DEF Sound, Gated
<1>4. \A x \in Steps : \/ c.step[x] = d.step[x]
                       \/ d.step[x] \in Live /\ c.step[x] \in Live /\ d.run # "cancelling"
  BY <1>1, <1>2
<1>5. \A x \in c.dispatch : x \in d.dispatch \/ c.step[x] \in Live
  BY <1>1, <1>2
<1>6. Approvals(d, c) /\ c.edge = d.edge
  BY DEF Approvals, Turned
<1> QED
  BY <1>3, <1>4, <1>5, <1>6, MoveSound

\* Deliveries, clocks and the reconciler's redispatch.
LEMMA DeliverySound ==
    ASSUME Good(db), Sound(db), Good(db'), NEW s \in Steps,
           Claim(s) \/ BackoffElapses(s) \/ ReconcileDispatch(s) \/ ReconcileRunning(s)
    PROVE  Sound(db') /\ Final(db, db')
<1>0. db \in Rows
  BY DEF Good
<1>g. Gated(db)
  BY DEF Sound
<1>1. CASE Claim(s)
  <2>1. /\ db' = ClaimStep(db, s) /\ db.run = "running"
        /\ db.step[s] \in {"ready", "retrying"}
    BY <1>1 DEF Claim, Claimable
  <2>2. Turned(db, db', {s}, "running") /\ Kept(db, db')
    BY <1>0, <2>1, LiveColumns
  <2> QED
    BY <2>1, <2>2, LiveMove DEF Kept
<1>2. CASE BackoffElapses(s)
  <2>1. /\ db'.step = db.step /\ db'.edge = db.edge /\ db'.fired = db.fired
        /\ db'.run = db.run /\ db'.approval = db.approval /\ db'.dispatch \subseteq db.dispatch
    BY <1>0, <1>2 DEF BackoffElapses, Rows
  <2>2. Gated(db') /\ Approvals(db, db')
    BY <1>g, <2>1 DEF Gated, Approvals
  <2> QED
    BY <2>1, <2>2, MoveSound
<1>3. CASE ReconcileDispatch(s)
  <2>1. db' = Outbox(db, {s}) /\ db.step[s] \in Live
    BY <1>3 DEF ReconcileDispatch, Claimable, Live
  <2>2. /\ db'.step = db.step /\ db'.edge = db.edge /\ db'.fired = db.fired
        /\ db'.run = db.run /\ db'.approval = db.approval
        /\ db'.dispatch = db.dispatch \cup {s}
    BY <1>0, <2>1, OutboxColumns
  <2>3. Gated(db') /\ Approvals(db, db')
    BY <1>g, <2>2 DEF Gated, Approvals
  <2> QED
    BY <2>1, <2>2, <2>3, MoveSound
<1>4. CASE ReconcileRunning(s)
  <2> DEFINE b == TakeoverStep(db, s)
  <2>1. /\ db.step[s] = "running" /\ db.run # "cancelling"
        /\ db' = Outbox(b, {s}) \/ db' = b
    BY <1>4 DEF ReconcileRunning
  <2>2. Turned(db, b, {s}, "ready") /\ Kept(db, b)
    BY <1>0, LiveColumns
  <2>3. Good(b)
    BY <2>1, UnsettledGood DEF Settled
  <2> HIDE DEF b
  <2>4. b \in Rows
    BY <2>3 DEF Good
  <2>5. /\ Turned(db, db', {s}, "ready") /\ db'.fired = db.fired /\ db'.run = db.run
        /\ db'.approval = db.approval
        /\ db'.dispatch = db.dispatch \/ db'.dispatch = db.dispatch \cup {s}
    BY <2>1, <2>2, <2>4, OutboxColumns DEF Turned, Kept
  <2> QED
    BY <2>1, <2>5, LiveMove
<1> QED
  BY <1>1, <1>2, <1>3, <1>4

\* Announcements that go, whatever becomes of them.
LEMMA DropSound ==
    ASSUME Good(db), Sound(db), Good(db'), NEW S, DropDeliveries(S)
    PROVE  Sound(db') /\ Final(db, db')
<1>1. db \in Rows /\ Gated(db)
  BY DEF Good, Sound
<1>2. /\ db'.step = db.step /\ db'.edge = db.edge /\ db'.fired = db.fired
      /\ db'.run = db.run /\ db'.approval = db.approval /\ db'.dispatch \subseteq db.dispatch
  BY <1>1 DEF DropDeliveries, Rows
<1>3. Gated(db') /\ Approvals(db, db')
  BY <1>1, <1>2 DEF Gated, Approvals
<1> QED
  BY <1>2, <1>3, MoveSound

\* ParkRun changes the run status at most, and keeps an open run open.
LEMMA ParkColumns ==
    ASSUME NEW d \in Rows
    PROVE  LET c == ParkRun(d)
           IN  /\ c.step = d.step /\ c.edge = d.edge /\ c.fired = d.fired
               /\ c.approval = d.approval /\ c.dispatch = d.dispatch
               /\ c.run = d.run \/ (Open(d) /\ Open(c))
<1> DEFINE c == ParkRun(d)
           r == IF d.run = "running" THEN "parked" ELSE d.run
<1>1. c = [d EXCEPT !.run = r]
  BY DEF ParkRun
<1>2. r = d.run \/ (d.run = "running" /\ r = "parked")
  OBVIOUS
<1> HIDE DEF c, r
<1>3. /\ c.step = d.step /\ c.edge = d.edge /\ c.fired = d.fired
      /\ c.approval = d.approval /\ c.dispatch = d.dispatch /\ c.run = r
  BY <1>1 DEF Rows
<1> QED
  BY <1>2, <1>3 DEF c, Open

\* The rows after a live step of a run that is not being cancelled has settled.
LEMMA SettlingHolds ==
    ASSUME NEW d, Good(d), Sound(d), NEW s \in Steps, d.step[s] \in Live, d.run # "cancelling",
           NEW b, NEW st, Good(b), Turned(d, b, {s}, st), b.run = d.run, b.dispatch = d.dispatch
    PROVE  Settling(d, b, s, st)
BY LiveRun DEF Settling, Sound, Stopped

\* A running step of a cancelling run is settled as cancelled, whatever it reports.
LEMMA SettleCancelledSound ==
    ASSUME Good(db), Sound(db), NEW s \in Steps, db.step[s] = "running",
           db.run = "cancelling", SettleCancelled(s)
    PROVE  Sound(db') /\ Final(db, db')
<1> DEFINE b == CancelRunningStep(db, s)
<1>1. db' = AttemptCancelRollup(b)
  BY DEF SettleCancelled
<1>2. Turned(db, b, {s}, "cancelled") /\ Kept(db, b)
  BY SettlingColumns DEF Good
<1>3. Good(b)
  BY SettlingGood DEF Settled
<1> HIDE DEF b
<1> QED
  BY <1>1, <1>2, <1>3, FinishSound DEF Kept

\* A running step of a live run becomes a dead letter.
LEMMA DeadSound ==
    ASSUME Good(db), Sound(db), NEW s \in Steps,
           db.step[s] \in {"ready", "running", "retrying"}, db.run # "cancelling"
    PROVE  LET c == DeadLetterDisposition(DeadLetterStep(db, s))
           IN  Sound(c) /\ Final(db, c) /\ ~Stopped(c)
<1> DEFINE b == DeadLetterStep(db, s)
<1>1. Turned(db, b, {s}, "dead_lettered") /\ Kept(db, b)
  BY SettlingColumns DEF Good
<1>2. Good(b) /\ db.step[s] \in Live
  BY SettlingGood DEF Settled, Live
<1> HIDE DEF b
<1>3. Settling(db, b, s, "dead_lettered")
  BY <1>1, <1>2, SettlingHolds DEF Kept
<1>4. Gated(b) /\ Approvals(db, b) /\ Concluded(db)
  BY <1>1 DEF Kept, Turned, Sound, Gated, Approvals
<1>5. Sound(DeadLetterDisposition(b)) /\ Final(db, DeadLetterDisposition(b))
         /\ ~Stopped(DeadLetterDisposition(b))
  BY <1>3, <1>4, DeadLetterSound
<1> QED
  BY <1>5 DEF b

\* A running step of a live run settles with an output and fans out.
LEMMA OutputSound ==
    ASSUME Good(db), Sound(db), NEW s \in Steps, db.step[s] = "running",
           db.run # "cancelling", NEW F \in SUBSET Out(s)
    PROVE  /\ LET c == AttemptRunRollup(FanOut(SucceedStep(db, s), s, F))
              IN  Sound(c) /\ Final(db, c)
           /\ LET c == AttemptRunRollup(FanOut(CollectFailStep(db, s), s, F))
              IN  Sound(c) /\ Final(db, c)
<1>1. ASSUME NEW b, NEW st \in {"succeeded", "collected"}, Good(b), Turned(db, b, {s}, st),
             Kept(db, b)
      PROVE  LET c == AttemptRunRollup(FanOut(b, s, F)) IN Sound(c) /\ Final(db, c)
  <2>1. db.step[s] \in Live
    BY DEF Live
  <2>2. Settling(db, b, s, st)
    BY <1>1, <2>1, SettlingHolds DEF Kept
  <2>3. Gated(b) /\ Approvals(db, b) /\ Concluded(db) /\ Freed(db)
    BY <1>1 DEF Kept, Turned, Sound, Gated, Approvals
  <2> QED
    BY <2>2, <2>3, FanSound
<1>2. /\ Turned(db, SucceedStep(db, s), {s}, "succeeded") /\ Kept(db, SucceedStep(db, s))
      /\ Turned(db, CollectFailStep(db, s), {s}, "collected") /\ Kept(db, CollectFailStep(db, s))
  BY SettlingColumns DEF Good
<1>3. Good(SucceedStep(db, s)) /\ Good(CollectFailStep(db, s))
  BY SettlingGood DEF Settled
<1> QED
  BY <1>1, <1>2, <1>3

\* The verdicts of planEdges, filtered or not, are sets of the step's own edges.
LEMMA VerdictsOut ==
    ASSUME NEW s, NEW decision
    PROVE  Verdicts(s) \subseteq SUBSET Out(s) /\ DecisionVerdicts(s, decision) \subseteq SUBSET Out(s)
<1>1. Verdicts(s) \subseteq SUBSET Out(s)
  BY DEF Verdicts
<1> QED
  BY <1>1 DEF DecisionVerdicts

\* The holder's completions.
LEMMA CompletionSound ==
    ASSUME Good(db), Sound(db), Good(db'), NEW s \in Steps,
           Complete(s) \/ CompleteThrottle(s) \/ CompleteBudgetPark(s)
    PROVE  Sound(db') /\ Final(db, db')
<1>0. db \in Rows /\ db.step[s] = "running"
  BY Zenon DEF Good, Complete, CompleteSuccess, CompleteFailure, FailStep, CompleteValidationFailure,
         CompleteAwaitHuman, CompleteThrottle, CompleteBudgetPark
<1>1. ASSUME db.run = "cancelling", SettleCancelled(s) PROVE Sound(db') /\ Final(db, db')
  BY <1>0, <1>1, SettleCancelledSound
<1>2. ASSUME db.run # "cancelling", db' = DeadLetterDisposition(DeadLetterStep(db, s))
      PROVE  Sound(db') /\ Final(db, db')
  BY <1>0, <1>2, DeadSound
<1>3. ASSUME db.run # "cancelling", NEW b, Good(b), Turned(db, b, {s}, "retrying"), Kept(db, b),
             db' = Outbox(b, {s})
      PROVE  Sound(db') /\ Final(db, db')
  <2>1. b \in Rows
    BY <1>3 DEF Good
  <2>2. /\ Turned(db, db', {s}, "retrying") /\ db'.fired = db.fired /\ db'.run = db.run
        /\ db'.approval = db.approval /\ db'.dispatch = db.dispatch \cup {s}
    BY <1>3, <2>1, OutboxColumns, SMTT(30) DEF Turned, Kept
  <2> QED
    BY <1>0, <1>3, <2>2, LiveMove
<1>4. /\ Good(RetryStep(db, s)) /\ Good(ThrottleStep(db, s)) /\ Good(SemanticRetryStep(db, s))
      /\ Turned(db, RetryStep(db, s), {s}, "retrying") /\ Kept(db, RetryStep(db, s))
      /\ Turned(db, ThrottleStep(db, s), {s}, "retrying") /\ Kept(db, ThrottleStep(db, s))
      /\ Turned(db, SemanticRetryStep(db, s), {s}, "retrying") /\ Kept(db, SemanticRetryStep(db, s))
  BY <1>0, UnsettledGood, LiveColumns, Zenon DEF Settled
<1>5. CASE CompleteSuccess(s)
  <2>1. CASE db.run = "cancelling"
    <3>1. db' = AttemptRunRollup(SucceedStep(db, s))
      BY <1>5, <2>1 DEF CompleteSuccess
    <3>2. /\ Good(SucceedStep(db, s)) /\ Turned(db, SucceedStep(db, s), {s}, "succeeded")
          /\ Kept(db, SucceedStep(db, s))
      BY <1>0, SettlingGood, SettlingColumns, Zenon DEF Settled
    <3> QED
      BY <1>0, <2>1, <3>1, <3>2, FinishSound DEF Kept
  <2>2. CASE db.run # "cancelling"
    <3>1. PICK F \in Verdicts(s) : db' = AttemptRunRollup(FanOut(SucceedStep(db, s), s, F))
      BY <1>5, <2>2 DEF CompleteSuccess
    <3>2. F \in SUBSET Out(s)
      BY VerdictsOut
    <3> QED
      BY <1>0, <2>2, <3>1, <3>2, OutputSound
  <2> QED
    BY <2>1, <2>2
<1>6. ASSUME NEW retryable \in BOOLEAN, CompleteFailure(s, retryable)
      PROVE  Sound(db') /\ Final(db, db')
  <2>1. CASE db.run # "cancelling" /\ db' = Outbox(RetryStep(db, s), {s})
    BY <1>3, <1>4, <2>1
  <2>2. CASE db.run # "cancelling" /\ \E F \in Verdicts(s) :
               db' = AttemptRunRollup(FanOut(CollectFailStep(db, s), s, F))
    <3>1. PICK F \in Verdicts(s) : db' = AttemptRunRollup(FanOut(CollectFailStep(db, s), s, F))
      BY <2>2
    <3>2. F \in SUBSET Out(s)
      BY VerdictsOut
    <3> QED
      BY <1>0, <2>2, <3>1, <3>2, OutputSound
  <2>3. CASE db.run # "cancelling" /\ db' = DeadLetterDisposition(DeadLetterStep(db, s))
    BY <1>2, <2>3
  <2>4. CASE db.run = "cancelling" /\ SettleCancelled(s)
    BY <1>1, <2>4
  <2> QED
    BY <1>6, <2>1, <2>2, <2>3, <2>4, Zenon DEF CompleteFailure, FailStep
<1>7. CASE CompleteValidationFailure(s)
  <2>1. CASE db.run # "cancelling" /\ db' = Outbox(SemanticRetryStep(db, s), {s})
    BY <1>3, <1>4, <2>1
  <2>2. CASE db.run # "cancelling" /\ db' = DeadLetterDisposition(DeadLetterStep(db, s))
    BY <1>2, <2>2
  <2> QED
    BY <1>1, <1>7, <2>1, <2>2 DEF CompleteValidationFailure
<1>8. CASE CompleteThrottle(s)
  BY <1>1, <1>3, <1>4, <1>8, Zenon DEF CompleteThrottle
<1>9. CASE CompleteBudgetPark(s)
  <2>1. CASE db.run # "cancelling" /\ db' = BudgetParkStep(db, s)
    <3> DEFINE b == SetStatus(db, {s}, "ready")
    <3>1. b \in Rows /\ Turned(db, b, {s}, "ready") /\ Kept(db, b)
      <4>1. TakeoverStep(db, s) = b
        BY DEF TakeoverStep
      <4>2. Good(TakeoverStep(db, s))
        BY <1>0, UnsettledGood DEF Settled
      <4> QED
        BY <1>0, <4>1, <4>2, LiveColumns, Zenon DEF Good
    <3>2. db' = ParkRun(b)
      BY <2>1 DEF BudgetParkStep
    <3> HIDE DEF b
    <3>3. /\ db'.step = b.step /\ db'.edge = b.edge /\ db'.fired = b.fired
          /\ db'.approval = b.approval /\ db'.dispatch = b.dispatch
          /\ db'.run = b.run \/ (Open(b) /\ Open(db'))
      BY <3>1, <3>2, ParkColumns
    <3>4. Turned(db, db', {s}, "ready") /\ (db'.run = db.run \/ (Open(db) /\ Open(db')))
      BY <3>1, <3>3 DEF Turned, Kept, Open
    <3> QED
      BY <1>0, <2>1, <3>1, <3>3, <3>4, LiveMove, Zenon DEF Kept
  <2> QED
    BY <1>1, <1>9, <2>1 DEF CompleteBudgetPark
<1>10. CASE CompleteAwaitHuman(s)
  <2>1. CASE db.run # "cancelling" /\ db' = AwaitHumanStep(db, s)
    <3> DEFINE b == SetStatus(db, {s}, "awaiting_human")
               f == [b.approval EXCEPT ![s] = "pending"]
               u == b.expired \ {s}
    <3>1. db' = [b EXCEPT !.approval = f, !.expired = u]
      BY <2>1 DEF AwaitHumanStep
    <3>2. b \in Rows /\ Turned(db, b, {s}, "awaiting_human") /\ Kept(db, b)
      <4>1. "awaiting_human" \in StepStatus /\ {s} \in SUBSET Steps
        BY DEF StepStatus
      <4>2. b \in Rows
        BY <1>0, <4>1, SetStatusRows
      <4>3. /\ Turned(db, b, {s}, "awaiting_human") /\ b.fired = db.fired /\ b.run = db.run
            /\ b.approval = db.approval /\ b.dispatch = db.dispatch
        BY <1>0, <4>1, SettleColumns, Zenon
      <4> QED
        BY <4>2, <4>3, Zenon DEF Kept
    <3> HIDE DEF b
    <3>3. \A x \in Steps : f[x] = IF x = s THEN "pending" ELSE db.approval[x]
      BY <3>2 DEF Kept, Rows
    <3> HIDE DEF f, u
    <3>4. /\ db'.step = b.step /\ db'.edge = b.edge /\ db'.fired = b.fired /\ db'.run = b.run
          /\ db'.approval = f /\ db'.dispatch = b.dispatch
      BY <3>1, <3>2 DEF Rows
    <3>5. \A x \in Steps : db'.step[x] = IF x = s THEN "awaiting_human" ELSE db.step[x]
      BY <3>2, <3>4 DEF Turned
    <3>6. Gated(db') /\ Approvals(db, db')
      BY <3>3, <3>4, <3>5 DEF Sound, Gated, Approvals
    <3>7. \A x \in Steps : \/ db'.step[x] = db.step[x]
                           \/ db.step[x] \in Live /\ db'.step[x] \in Live /\ db.run # "cancelling"
      BY <1>0, <2>1, <3>5 DEF Live
    <3>8. /\ db'.edge = db.edge /\ db'.fired = db.fired /\ db'.run = db.run
          /\ db'.dispatch = db.dispatch
      BY <3>2, <3>4 DEF Turned, Kept
    <3> QED
      BY <3>6, <3>7, <3>8, MoveSound
  <2> QED
    BY <1>1, <1>10, <2>1 DEF CompleteAwaitHuman
<1> QED
  BY <1>5, <1>6, <1>7, <1>8, <1>9, <1>10 DEF Complete

\* A dead letter in a cancelling run writes nothing off: no step is pending.
LEMMA QuietDisposition ==
    ASSUME NEW b, Good(b), b.run = "cancelling", \A x \in Steps : b.step[x] # "pending"
    PROVE  LET c == DeadLetterDisposition(b)
           IN  Good(c) /\ c.run = b.run /\ c.edge = b.edge /\ c.approval = b.approval
                 /\ c.dispatch = b.dispatch /\ \A x \in Steps : c.step[x] = b.step[x]
<1> DEFINE c == DeadLetterDisposition(b)
           w == CancelSteps(b, WriteOff(b))
<1>1. Good(c) /\ b \in Rows
  BY DispositionGood DEF Good
<1>2. WriteOff(b) = {}
  BY DEF WriteOff, PlanWriteOff, StepsIn
<1>3. /\ Turned(b, w, {}, "cancelled") /\ w.run = b.run /\ w.approval = b.approval
      /\ w.dispatch = b.dispatch
  BY <1>1, <1>2, CancelStepsColumns
<1>4. CASE OnFailure = "fail_fast"
  <2>1. c = b
    BY <1>4 DEF DeadLetterDisposition, Open
  <2> HIDE DEF c
  <2> QED
    BY <1>1, <2>1 DEF c
<1>5. CASE OnFailure # "fail_fast"
  <2> HIDE DEF w
  <2>1. c = w
    BY <1>3, <1>5 DEF DeadLetterDisposition, FailRunRollupGuard, Open, w
  <2> HIDE DEF c
  <2> QED
    BY <1>1, <1>3, <2>1 DEF c, Turned
<1> QED
  BY <1>4, <1>5

\* Poison letters and the heal of a cancelling run need no claim.
LEMMA UnfencedSound ==
    ASSUME Good(db), Sound(db), NEW s \in Steps, HandlePoison(s) \/ HealCancellingStep(s)
    PROVE  Sound(db') /\ Final(db, db')
<1>0. db \in Rows
  BY DEF Good
<1>1. CASE HandlePoison(s)
  <2> DEFINE b == DeadLetterStep(db, s)
             c == DeadLetterDisposition(b)
  <2>1. db' = AttemptCancelRollup(c)
    BY <1>1 DEF HandlePoison, PoisonStep, PoisonDeadLetterStep
  <2>2. db.step[s] \in {"ready", "running", "retrying"}
    BY <1>1 DEF HandlePoison, PoisonStep, Sound, Core, Announced
  <2>3. CASE db.run # "cancelling"
    <3>1. Sound(c) /\ Final(db, c) /\ ~Stopped(c)
      BY <2>2, <2>3, DeadSound
    <3> HIDE DEF c
    <3>2. AttemptCancelRollup(c) = c
      BY <3>1 DEF AttemptCancelRollup, CancelRunRollupGuard, Stopped
    <3> QED
      BY <2>1, <3>1, <3>2
  <2>4. CASE db.run = "cancelling"
    <3>1. \A x \in Steps : db.step[x] \in Settled \cup {"running"}
      BY <2>4 DEF Sound, Concluded
    <3>2. db.step[s] = "running" /\ \A x \in Steps : db.step[x] # "pending"
      BY <2>2, <3>1 DEF Settled
    <3>3. Turned(db, b, {s}, "dead_lettered") /\ Kept(db, b) /\ Good(b)
      BY <1>0, <3>2, SettlingColumns, SettlingGood, Zenon DEF Settled
    <3> HIDE DEF b
    <3>4. b.run = "cancelling" /\ \A x \in Steps : b.step[x] # "pending"
      BY <2>4, <3>2, <3>3 DEF Turned, Kept
    <3>5. /\ Good(c) /\ c.run = b.run /\ c.edge = b.edge /\ c.approval = b.approval
          /\ c.dispatch = b.dispatch /\ \A x \in Steps : c.step[x] = b.step[x]
      BY <3>3, <3>4, QuietDisposition
    <3> HIDE DEF c
    <3>6. Turned(db, c, {s}, "dead_lettered") /\ c.run = db.run /\ c.approval = db.approval
             /\ c.dispatch = db.dispatch
      BY <3>3, <3>5 DEF Turned, Kept
    <3> QED
      BY <2>1, <2>4, <3>2, <3>5, <3>6, FinishSound
  <2> QED
    BY <2>3, <2>4
<1>2. CASE HealCancellingStep(s)
  <2> DEFINE a == TakeoverStep(db, s)
             b == CancelSteps(a, {s})
  <2>1. db' = AttemptCancelRollup(b) /\ db.run = "cancelling" /\ db.step[s] = "running"
    BY <1>2 DEF HealCancellingStep
  <2>2. Turned(db, a, {s}, "ready") /\ Kept(db, a) /\ Good(a)
    BY <1>0, <2>1, LiveColumns, UnsettledGood, Zenon DEF Settled
  <2> HIDE DEF a
  <2>3. a \in Rows /\ a.step[s] = "ready"
    BY <2>2 DEF Good, Turned
  <2>4. Good(b)
    BY <2>2, <2>3, SweepGood DEF Settled
  <2>5. /\ Turned(a, b, {s}, "cancelled") /\ b.run = a.run /\ b.approval = a.approval
        /\ b.dispatch = a.dispatch
    BY <2>3, CancelStepsColumns
  <2> HIDE DEF b
  <2>6. /\ Turned(db, b, {s}, "cancelled") /\ b.run = db.run /\ b.approval = db.approval
        /\ b.dispatch = db.dispatch
    BY <2>2, <2>5 DEF Turned, Kept
  <2> QED
    BY <2>1, <2>4, <2>6, FinishSound
<1> QED
  BY <1>1, <1>2

\* The compare-and-swap on the approvals row touches nothing else.
LEMMA DecideColumns ==
    ASSUME Good(db), NEW s \in Steps, NEW decision, NEW source,
           NEW d, d = DecideApproval(db, s, decision, source)
    PROVE  /\ Good(d) /\ d.step = db.step /\ d.edge = db.edge /\ d.run = db.run
           /\ d.dispatch = db.dispatch /\ d.approval[s] # "pending"
           /\ \A x \in Steps \ {s} : d.approval[x] = db.approval[x]
<1> DEFINE v == IF source = "timeout" THEN "expired"
                ELSE IF decision = "reject" THEN "rejected" ELSE "approved"
           f == [db.approval EXCEPT ![s] = v]
           u == IF source = "timeout" THEN db.expired \cup {s} ELSE db.expired \ {s}
<1>0. db \in Rows
  BY DEF Good
<1>1. f \in [Steps -> ApprovalStatus] /\ u \in SUBSET Steps
  BY <1>0 DEF Rows, ApprovalStatus
<1>2. f[s] # "pending" /\ \A x \in Steps \ {s} : f[x] = db.approval[x]
  BY <1>0 DEF Rows
<1>3. d = [db EXCEPT !.approval = f, !.expired = u]
  BY DEF DecideApproval
<1> HIDE DEF f, u
<1>4. Same(db, d)
  BY <1>0, <1>1, <1>3, Zenon DEF Same, Rows
<1>5. d.approval = f /\ d.dispatch = db.dispatch
  BY <1>0, <1>3 DEF Rows
<1>6. Good(d) /\ d.step = db.step /\ d.edge = db.edge
  BY <1>4, SameGood DEF Same
<1>7. d.run = db.run
  BY <1>0, <1>3 DEF Rows
<1> QED
  BY <1>2, <1>5, <1>6, <1>7

\* Decisions on a gate, by a human or by its timeout.
LEMMA ApprovalSound ==
    ASSUME Good(db), Sound(db), Good(db'), NEW s \in Steps, NEW decision, NEW source,
           Decide(s, decision, source) \/ ExpireApprovalPark(s)
    PROVE  Sound(db') /\ Final(db, db')
<1>0. db \in Rows
  BY DEF Good
<1>1. CASE Decide(s, decision, source)
  <2>0. PICK d : d = DecideApproval(db, s, decision, source)
    OBVIOUS
  <2>1. /\ Good(d) /\ d.step = db.step /\ d.edge = db.edge /\ d.run = db.run
        /\ d.dispatch = db.dispatch /\ d.approval[s] # "pending"
        /\ \A x \in Steps \ {s} : d.approval[x] = db.approval[x]
    BY <2>0, DecideColumns, SMTT(30)
  <2>2. /\ Open(db) /\ db.approval[s] = "pending" /\ db.step[s] = "awaiting_human"
        /\ DecideDeadLetter(d, s) \/ DecideSucceed(d, s, decision)
    BY <1>1, <2>0 DEF Decide
  <2>3. d \in Rows /\ d.step[s] \notin Settled /\ db.step[s] \in Live /\ db.run # "cancelling"
    BY <2>1, <2>2 DEF Good, Settled, Live, Open
  <2>4. ASSUME NEW b, NEW st, st # "awaiting_human", Good(b), Turned(d, b, {s}, st), Kept(d, b)
        PROVE  Settling(db, b, s, st) /\ Gated(b) /\ Approvals(db, b) /\ Concluded(db) /\ Freed(db)
    <3>1. Turned(db, b, {s}, st) /\ b.run = db.run /\ b.dispatch = db.dispatch
      BY <2>1, <2>4 DEF Turned, Kept
    <3>2. Settling(db, b, s, st)
      BY <2>3, <2>4, <3>1, SettlingHolds
    <3>3. Gated(b) /\ Approvals(db, b)
      <4>1. /\ b.approval = d.approval
            /\ \A x \in Steps : b.step[x] = IF x = s THEN st ELSE db.step[x]
        BY <2>4, <3>1 DEF Turned, Kept
      <4>2. \A x \in Steps : db.approval[x] = "pending" <=> db.step[x] = "awaiting_human"
        BY DEF Sound, Gated
      <4>3. \A x \in Steps : b.approval[x] = "pending" <=> b.step[x] = "awaiting_human"
        <5> TAKE x \in Steps
        <5>1. CASE x = s
          BY <2>1, <2>4, <4>1, <5>1
        <5>2. CASE x # s
          BY <2>1, <4>1, <4>2, <5>2
        <5> QED
          BY <5>1, <5>2
      <4>4. \A x \in Steps : b.approval[x] = db.approval[x] \/ db.approval[x] = "pending"
        BY <2>1, <2>2, <4>1
      <4> QED
        BY <4>3, <4>4 DEF Gated, Approvals
    <3> QED
      BY <3>2, <3>3 DEF Sound
  <2>5. /\ Good(SucceedStep(d, s)) /\ Good(DeadLetterStep(d, s))
        /\ Turned(d, SucceedStep(d, s), {s}, "succeeded") /\ Kept(d, SucceedStep(d, s))
        /\ Turned(d, DeadLetterStep(d, s), {s}, "dead_lettered") /\ Kept(d, DeadLetterStep(d, s))
    BY <2>1, <2>3, SettlingGood, SettlingColumns, Zenon
  <2>6. CASE DecideDeadLetter(d, s)
    <3>1. db' = DeadLetterDisposition(DeadLetterStep(d, s))
      BY <2>6 DEF DecideDeadLetter, DeadLetterAwaitingHumanStep
    <3> QED
      BY <2>4, <2>5, <3>1, DeadLetterSound
  <2>7. CASE DecideSucceed(d, s, decision)
    <3>1. PICK F \in DecisionVerdicts(s, decision) :
             db' = AttemptRunRollup(FanOut(SucceedStep(d, s), s, F))
      BY <2>7 DEF DecideSucceed, SucceedAwaitingHumanStep
    <3>2. F \in SUBSET Out(s)
      BY VerdictsOut
    <3> QED
      BY <2>4, <2>5, <3>1, <3>2, FanSound
  <2> QED
    BY <2>2, <2>6, <2>7
<1>2. CASE ExpireApprovalPark(s)
  <2> DEFINE u == db.expired \cup {s}
             d == [db EXCEPT !.expired = u]
  <2>1. u \in SUBSET Steps /\ db' = ParkRun(d)
    BY <1>0, <1>2 DEF ExpireApprovalPark, Rows
  <2> HIDE DEF u
  <2>2. /\ d \in Rows /\ d.step = db.step /\ d.edge = db.edge /\ d.fired = db.fired
        /\ d.approval = db.approval /\ d.dispatch = db.dispatch /\ d.run = db.run
    BY <1>0, <2>1 DEF Rows
  <2> HIDE DEF d
  <2>3. /\ db'.step = db.step /\ db'.edge = db.edge /\ db'.fired = db.fired
        /\ db'.approval = db.approval /\ db'.dispatch = db.dispatch
        /\ db'.run = db.run \/ (Open(db) /\ Open(db'))
    BY <2>1, <2>2, ParkColumns DEF Open
  <2>4. Gated(db') /\ Approvals(db, db')
    BY <2>3 DEF Sound, Gated, Approvals
  <2> QED
    BY <2>3, <2>4, MoveSound
<1> QED
  BY <1>1, <1>2

\* The operator's transactions.
LEMMA OperatorSound ==
    ASSUME Good(db), Sound(db), Good(db'), Cancel \/ Park \/ Unpark \/ \E s \in Steps : Requeue(s)
    PROVE  Sound(db') /\ Final(db, db')
<1>0. db \in Rows /\ Gated(db)
  BY DEF Good, Sound
<1>1. CASE Park
  <2>1. /\ db'.step = db.step /\ db'.edge = db.edge /\ db'.fired = db.fired
        /\ db'.approval = db.approval /\ db'.dispatch = db.dispatch
        /\ db'.run = db.run \/ (Open(db) /\ Open(db'))
    BY <1>0, <1>1, ParkColumns DEF Park
  <2>2. Gated(db') /\ Approvals(db, db')
    BY <1>0, <2>1 DEF Gated, Approvals
  <2> QED
    BY <2>1, <2>2, MoveSound
<1>2. CASE Unpark
  <2> DEFINE d == SetRun(db, "running")
             R == StepsIn(d, {"ready"})
  <2>1. db.run = "parked" /\ db' = Outbox(d, R)
    BY <1>2 DEF Unpark, OutboxReady
  <2>2. /\ d.run = "running" /\ d.step = db.step /\ d.edge = db.edge /\ d.fired = db.fired
        /\ d.approval = db.approval /\ d.dispatch = db.dispatch
    BY <1>0, SetRunColumns
  <2>3. d \in Rows
    BY RollupGood DEF Good, RunStatus
  <2> HIDE DEF d
  <2>4. /\ db'.step = db.step /\ db'.edge = db.edge /\ db'.fired = db.fired
        /\ db'.approval = db.approval /\ db'.dispatch = db.dispatch \cup R /\ db'.run = "running"
    BY <2>1, <2>2, <2>3, OutboxColumns, SMTT(30)
  <2>5. \A x \in R : db'.step[x] \in Live
    BY <2>2, <2>4 DEF StepsIn, Live
  <2> HIDE DEF R
  <2>6. Gated(db') /\ Approvals(db, db') /\ Open(db) /\ Open(db')
    BY <1>0, <2>1, <2>4 DEF Gated, Approvals, Open
  <2> QED
    BY <2>4, <2>5, <2>6, MoveSound
<1> QED
  BY <1>1, <1>2, CancelSound, RequeueSound

-----------------------------------------------------------------------------
(* The theorems.                                                           *)

\* A new run is sound: its roots are ready and announced, the rest waits.
LEMMA InitSound == Init => Sound(db)
<1> SUFFICES ASSUME Init PROVE Sound(db)
  OBVIOUS
<1>1. /\ db.run = "running" /\ db.dispatch = Roots
      /\ \A s \in Steps : db.step[s] = IF s \in Roots THEN "ready" ELSE "pending"
      /\ \A e \in Edges : db.edge[e] = "unresolved"
      /\ \A s \in Steps : db.approval[s] = "none"
  BY DEF Init
<1>2. \A s \in Steps : OpenEdges(db, s) = In(s) /\ FiredEdges(db, s) = {}
  BY <1>1 DEF OpenEdges, FiredEdges, In
<1>3. Roots \subseteq Steps /\ \A s \in Steps : s \in Roots <=> In(s) = {}
  BY DEF Roots
<1>4. \A e \in Edges : Src[e] \in Steps
  BY GraphAssumption
<1>5. Resolutions(db)
  BY <1>1, <1>4 DEF Resolutions, Done
<1>6. Justified(db) /\ Waiting(db)
  BY <1>1, <1>2, <1>3 DEF Justified, Waiting
<1>7. Announced(db) /\ Gated(db)
  BY <1>1, <1>3 DEF Announced, Gated
<1>8. Caused(db)
  <2>1. StepsIn(db, {"cancelled"}) = {}
    BY <1>1 DEF StepsIn
  <2> QED
    BY <2>1 DEF Caused
<1>9. Concluded(db)
  <2>1. PICK s \in Steps : TRUE
    BY GraphAssumption
  <2>2. db.step[s] \notin Settled
    BY <1>1 DEF Settled
  <2> QED
    BY <1>1, <2>2 DEF Concluded, VerdictOK, Open
<1>10. Freed(db)
  BY <1>1, <1>4 DEF Freed, OpenEdges, In
<1> QED
  BY <1>5, <1>6, <1>7, <1>8, <1>9, <1>10 DEF Sound, Core

\* Every transaction keeps the invariant and reopens nothing it may not.
LEMMA NextSound ==
    ASSUME Good(db), Sound(db), [Next]_db
    PROVE  Good(db') /\ Sound(db') /\ Final(db, db')
<1>0. Good(db')
  BY NextGood
<1>1. CASE UNCHANGED db
  BY <1>0, <1>1 DEF Final
<1>2. ASSUME NEW s \in Steps,
             Claim(s) \/ BackoffElapses(s) \/ ReconcileDispatch(s) \/ ReconcileRunning(s)
      PROVE  Sound(db') /\ Final(db, db')
  BY <1>0, <1>2, DeliverySound
<1>3. ASSUME NEW s \in Steps, Complete(s) \/ CompleteThrottle(s) \/ CompleteBudgetPark(s)
      PROVE  Sound(db') /\ Final(db, db')
  BY <1>0, <1>3, CompletionSound
<1>4. ASSUME NEW s \in Steps, HandlePoison(s) \/ HealCancellingStep(s)
      PROVE  Sound(db') /\ Final(db, db')
  BY <1>4, UnfencedSound
<1>5. ASSUME NEW s \in Steps, NEW decision, NEW source,
             Decide(s, decision, source) \/ ExpireApprovalPark(s)
      PROVE  Sound(db') /\ Final(db, db')
  BY <1>0, <1>5, ApprovalSound
<1>6. ASSUME Cancel \/ Park \/ Unpark \/ \E s \in Steps : Requeue(s)
      PROVE  Sound(db') /\ Final(db, db')
  BY <1>0, <1>6, OperatorSound
<1>7. ASSUME NEW S, DropDeliveries(S) PROVE Sound(db') /\ Final(db, db')
  BY <1>0, <1>7, DropSound
<1> QED
  BY <1>0, <1>1, <1>2, <1>3, <1>4, <1>5, <1>6, <1>7 DEF Next

\* The inductive invariant: the counters agree with the rows, and the rows with
\* the graph.
SafetyInv == Good(db) /\ Sound(db)

\* In every state the transactions of internal/engine can reach, for every graph
\* and policy, edges, steps, announcements, approvals and the run's verdict agree,
\* and no transaction undoes what an earlier one decided.
THEOREM SafetyInvariant == Spec => []SafetyInv /\ [][Final(db, db')]_db
<1>1. Init => SafetyInv
  BY InitGood, InitSound DEF SafetyInv
<1>2. SafetyInv /\ [Next]_db => SafetyInv' /\ [Final(db, db')]_db
  BY NextSound DEF SafetyInv
<1> QED
  BY <1>1, <1>2, PTL DEF Spec

\* Whatever the graph: an edge is resolved only by its source's output or skip,
\* and until a cancel every edge of such a source is resolved (fanOut).
THEOREM ResolutionsTheorem == Spec => []ResolutionsMatchSources
<1>1. SafetyInv => ResolutionsMatchSources
  BY DEF SafetyInv, Sound, Core, Resolutions, ResolutionsMatchSources, Done, Stopped
<1> QED
  BY <1>1, SafetyInvariant, PTL

\* Whatever the graph: no step runs, waits or fails before its dependencies let it
\* (ReadyStep), also after requeues, revivals and poison letters.
THEOREM ReadinessTheorem == Spec => []ReadinessJustified
<1>1. SafetyInv => ReadinessJustified
  <2> SUFFICES ASSUME SafetyInv PROVE ReadinessJustified
    OBVIOUS
  <2>1. \A s \in Steps : /\ db.remaining[s] = 0 <=> OpenEdges(db, s) = {}
                         /\ db.fired[s] = 0 <=> FiredEdges(db, s) = {}
                         /\ db.fired[s] >= 1 <=> FiredEdges(db, s) # {}
    BY CountZero DEF SafetyInv
  <2>2. Justified(db)
    BY DEF SafetyInv, Sound, Core
  <2> QED
    BY <2>1, <2>2 DEF Justified, ReadinessJustified
<1> QED
  BY <1>1, SafetyInvariant, PTL

\* Whatever the graph: a pending step waits for an open edge, so the transaction
\* that resolved its last one did not forget it (fanOut, reviveUnblocked).
THEOREM WakeupTheorem == Spec => []NoLostWakeup
<1>1. SafetyInv => NoLostWakeup
  <2> SUFFICES ASSUME SafetyInv PROVE NoLostWakeup
    OBVIOUS
  <2>1. \A s \in Steps : /\ db.remaining[s] >= 1 <=> OpenEdges(db, s) # {}
                         /\ db.fired[s] = 0 <=> FiredEdges(db, s) = {}
    BY CountZero DEF SafetyInv
  <2>2. Waiting(db)
    BY DEF SafetyInv, Sound, Core
  <2> QED
    BY <2>1, <2>2 DEF Waiting, NoLostWakeup
<1> QED
  BY <1>1, SafetyInvariant, PTL

\* Whatever the graph: the queue never announces a pending step, which is what
\* classifyClaimFailure takes for an outbox bug.
THEOREM DispatchTheorem == Spec => []PendingNeverDispatched
<1>1. SafetyInv => PendingNeverDispatched
  BY DEF SafetyInv, Sound, Core, Announced, PendingNeverDispatched
<1> QED
  BY <1>1, SafetyInvariant, PTL

\* Whatever the graph: an approvals row is pending exactly while its step awaits
\* a human, however Decide, expiry and Cancel race.
THEOREM ApprovalTheorem == Spec => []ApprovalMatchesStep
<1>1. SafetyInv => ApprovalMatchesStep
  BY DEF SafetyInv, Sound, Gated, ApprovalMatchesStep
<1> QED
  BY <1>1, SafetyInvariant, PTL

\* Whatever the graph and the failure policy: the verdict of a closed run is true
\* of its steps (the rollup guards of transitions.go).
THEOREM VerdictTheorem == Spec => []VerdictSound
<1>1. SafetyInv => VerdictSound
  BY DEF SafetyInv, Sound, Concluded, VerdictOK, VerdictSound, Done
<1> QED
  BY <1>1, SafetyInvariant, PTL

\* Whatever the graph: the two states ListStalledRuns reports as engine bugs are
\* unreachable, since the last step to settle rolls the run up.
THEOREM StallTheorem == Spec => []NeverStalled
<1>1. SafetyInv => NeverStalled
  BY DEF SafetyInv, Sound, Concluded, NeverStalled
<1> QED
  BY <1>1, SafetyInvariant, PTL

\* Whatever the graph: outside a cancel every cancelled step is one that the dead
\* letters there are block, so a requeue revived all that it unblocked (Requeue).
THEOREM WriteOffTheorem == Spec => []WriteOffJustified
<1>1. SafetyInv => WriteOffJustified
  BY DEF SafetyInv, Sound, Core, Caused, Stopped, WriteOffJustified
<1> QED
  BY <1>1, SafetyInvariant, PTL

\* Together: whatever the graph, steps follow it (fanOut, ReadyStep, the outbox).
THEOREM OrderTheorem == Spec => []FollowsTheGraph
<1>1. ResolutionsMatchSources /\ ReadinessJustified /\ PendingNeverDispatched => FollowsTheGraph
  BY DEF FollowsTheGraph
<1> QED
  BY <1>1, ResolutionsTheorem, ReadinessTheorem, DispatchTheorem, PTL

\* Together: whatever the graph, no wake-up and no roll-up is lost, so that a run
\* that is not concluded has a step left to move it.
THEOREM ProgressTheorem == Spec => []NeverStuck
<1>1. NoLostWakeup /\ NeverStalled => NeverStuck
  BY DEF NeverStuck
<1> QED
  BY <1>1, WakeupTheorem, StallTheorem, PTL

\* Together: whatever the graph and the failure policy, verdicts, write-offs and
\* pending approvals have their causes in the step rows.
THEOREM OutcomesTheorem == Spec => []OutcomesJustified
<1>1. VerdictSound /\ WriteOffJustified /\ ApprovalMatchesStep => OutcomesJustified
  BY DEF OutcomesJustified
<1> QED
  BY <1>1, VerdictTheorem, WriteOffTheorem, ApprovalTheorem, PTL

\* Whatever the graph: settled steps, resolved edges, decided approvals and
\* concluded runs change only as Requeue may change them.
THEOREM DecisionsTheorem == Spec => DecisionsAreFinal
<1>1. Final(db, db') => FinalStep
  BY DEF Final, FinalStep
<1> QED
  BY <1>1, SafetyInvariant, PTL DEF DecisionsAreFinal

\* Limbo needs a join any: in a graph without one, planWriteOff leaves no step of
\* an open run waiting for a step that is dead or written off.
THEOREM LimboTheorem == Spec => [](JoinAny = {} => NoLimbo)
<1>1. SafetyInv => (JoinAny = {} => NoLimbo)
  <2> SUFFICES ASSUME SafetyInv, JoinAny = {}, Open(db), OnFailure = "continue_independent_branches"
               PROVE  WriteOff(db) = {}
    BY DEF NoLimbo
  <2> DEFINE P == StepsIn(db, {"pending"})
             C == StepsIn(db, {"dead_lettered", "cancelled"})
             W == WriteOff(db)
  <2>1. \A V \in SUBSET P : (\A u \in P : Lost(db, u, C \cup V) => u \in V) => W \subseteq V
    <3>1. W = PlanWriteOff(db, P, C) /\ P \in SUBSET Steps
      BY DEF WriteOff, StepsIn
    <3> HIDE DEF W, P, C
    <3> QED
      BY <3>1, WriteOffRule, Zenon DEF SafetyInv
  <2>2. ASSUME NEW u \in P, Lost(db, u, C) PROVE FALSE
    <3>1. u \in Steps /\ db.step[u] = "pending"
      BY <2>2 DEF StepsIn
    <3>2. PICK e \in OpenEdges(db, u) : Src[e] \in C
      BY <2>2 DEF Lost
    <3>3. ~Stopped(db) /\ Freed(db)
      BY DEF SafetyInv, Sound, Stopped, Open
    <3> QED
      BY <3>1, <3>2, <3>3 DEF Freed, StepsIn
  <2>3. C \cup {} = C
    OBVIOUS
  <2>4. W \subseteq {}
    BY <2>1, <2>2, <2>3
  <2> QED
    BY <2>4
<1> QED
  BY <1>1, SafetyInvariant, PTL
=============================================================================
