--------------------------- MODULE RunGraphProofs ---------------------------
(***************************************************************************)
(* Proofs about module RunGraph, for every run graph and every policy.     *)
(***************************************************************************)
EXTENDS RunGraph, FiniteSetTheorems, TLAPS

-----------------------------------------------------------------------------
(* The invariant, on any rows d.                                           *)

CountsOK(d) == \A t \in Settled : d.counters[t] = Cardinality(StepsIn(d, {t}))

OpenEdges(d, s) == {e \in In(s) : d.edge[e] = "unresolved"}
FiredEdges(d, s) == {e \in In(s) : d.edge[e] = "fired"}

DepsOK(d) ==
    \A s \in Steps :
        /\ d.remaining[s] = Cardinality(OpenEdges(d, s))
        /\ d.fired[s] = Cardinality(FiredEdges(d, s))

Good(d) == d \in Rows /\ CountsOK(d) /\ DepsOK(d)

-----------------------------------------------------------------------------

\* Every set of steps, and every set of edges, is finite.
LEMMA FiniteParts ==
    /\ \A S \in SUBSET Steps : IsFiniteSet(S) /\ Cardinality(S) \in Nat
    /\ \A E \in SUBSET Edges : IsFiniteSet(E) /\ Cardinality(E) \in Nat
BY GraphAssumption, FS_Subset, FS_CardinalityType

\* The cardinality of a disjoint union of finite sets is the sum.
LEMMA CardDisjoint ==
    ASSUME NEW A, NEW B, IsFiniteSet(A), IsFiniteSet(B), A \cap B = {}
    PROVE  Cardinality(A \cup B) = Cardinality(A) + Cardinality(B)
<1>1. Cardinality(A \cup B) = Cardinality(A) + Cardinality(B) - Cardinality(A \cap B)
  BY FS_Union
<1>2. Cardinality(A \cap B) = 0
  BY FS_EmptySet
<1>3. Cardinality(A) \in Nat /\ Cardinality(B) \in Nat
  BY FS_CardinalityType
<1> QED
  BY <1>1, <1>2, <1>3

\* SetStatus changes nothing but the statuses of S.
LEMMA SetStatusRows ==
    ASSUME NEW d \in Rows, NEW S \in SUBSET Steps, NEW st \in StepStatus
    PROVE  /\ SetStatus(d, S, st) \in Rows
           /\ \A x \in Steps :
                SetStatus(d, S, st).step[x] = IF x \in S THEN st ELSE d.step[x]
           /\ SetStatus(d, S, st).edge = d.edge
           /\ SetStatus(d, S, st).remaining = d.remaining
           /\ SetStatus(d, S, st).fired = d.fired
           /\ SetStatus(d, S, st).counters = d.counters
BY DEF SetStatus, Rows

\* Good depends only on the statuses, the edges and the counters.
LEMMA Frame ==
    ASSUME NEW d, Good(d), NEW c \in Rows,
           c.step = d.step, c.edge = d.edge, c.counters = d.counters,
           c.remaining = d.remaining, c.fired = d.fired
    PROVE  Good(c)
BY DEF Good, CountsOK, DepsOK, StepsIn, OpenEdges, FiredEdges

\* A move between two unsettled statuses leaves every count as it is.
LEMMA SetStatusGood ==
    ASSUME NEW d, Good(d), NEW S \in SUBSET Steps, NEW st \in StepStatus \ Settled,
           \A s \in S : d.step[s] \notin Settled
    PROVE  Good(SetStatus(d, S, st))
<1> DEFINE c == SetStatus(d, S, st)
<1>1. d \in Rows
  BY DEF Good
<1>2. /\ c \in Rows
      /\ \A x \in Steps : c.step[x] = IF x \in S THEN st ELSE d.step[x]
      /\ c.edge = d.edge /\ c.remaining = d.remaining
      /\ c.fired = d.fired /\ c.counters = d.counters
  BY <1>1, SetStatusRows
<1>3. \A t \in Settled : StepsIn(c, {t}) = StepsIn(d, {t})
  BY <1>2 DEF StepsIn
<1>4. CountsOK(c)
  BY <1>2, <1>3, Zenon DEF CountsOK, Good
<1>5. DepsOK(c)
  BY <1>2 DEF DepsOK, Good, OpenEdges, FiredEdges
<1> QED
  BY <1>2, <1>4, <1>5 DEF Good

\* Settling unsettled steps and bumping their aggregate keeps the counts right.
LEMMA SettleGood ==
    ASSUME NEW d, Good(d), NEW S \in SUBSET Steps, NEW st \in Settled,
           \A s \in S : d.step[s] \notin Settled
    PROVE  Good(Settle(d, S, st))
<1> DEFINE b == SetStatus(d, S, st)
           c == Settle(d, S, st)
<1>1. d \in Rows /\ st \in StepStatus /\ Cardinality(S) \in Nat
  BY FiniteParts DEF Good, StepStatus
<1>2. /\ b \in Rows
      /\ \A x \in Steps : b.step[x] = IF x \in S THEN st ELSE d.step[x]
      /\ b.edge = d.edge /\ b.remaining = d.remaining
      /\ b.fired = d.fired /\ b.counters = d.counters
  BY <1>1, SetStatusRows
<1>3. /\ c \in Rows
      /\ c.step = b.step /\ c.edge = d.edge /\ c.remaining = d.remaining /\ c.fired = d.fired
      /\ \A t \in Settled :
            c.counters[t] = IF t = st THEN d.counters[t] + Cardinality(S) ELSE d.counters[t]
  <2> DEFINE n == [b.counters EXCEPT ![st] = @ + Cardinality(S)]
  <2>1. c = [b EXCEPT !.counters = n]
    BY DEF Settle
  <2>2. n \in [Settled -> Int]
    BY <1>1, <1>2 DEF Rows
  <2>3. \A t \in Settled : n[t] = IF t = st THEN d.counters[t] + Cardinality(S) ELSE d.counters[t]
    BY <1>1, <1>2 DEF Rows
  <2> HIDE DEF b, c, n
  <2> QED
    BY <1>2, <2>1, <2>2, <2>3 DEF Rows
<1>4. ASSUME NEW t \in Settled
      PROVE  c.counters[t] = Cardinality(StepsIn(c, {t}))
  <2>1. d.counters[t] = Cardinality(StepsIn(d, {t}))
    BY DEF Good, CountsOK
  <2>2. CASE t = st
    <3>1. StepsIn(c, {t}) = StepsIn(d, {t}) \cup S /\ StepsIn(d, {t}) \cap S = {}
      BY <1>2, <1>3, <2>2 DEF StepsIn
    <3>2. IsFiniteSet(StepsIn(d, {t})) /\ IsFiniteSet(S)
      BY FiniteParts DEF StepsIn
    <3>3. Cardinality(StepsIn(c, {t})) = Cardinality(StepsIn(d, {t})) + Cardinality(S)
      BY <3>1, <3>2, CardDisjoint
    <3> QED
      BY <1>3, <2>1, <2>2, <3>3
  <2>3. CASE t # st
    <3>1. StepsIn(c, {t}) = StepsIn(d, {t})
      BY <1>2, <1>3, <2>3 DEF StepsIn
    <3> QED
      BY <1>3, <2>1, <2>3, <3>1
  <2> QED
    BY <2>2, <2>3
<1>5. DepsOK(c)
  BY <1>3 DEF DepsOK, Good, OpenEdges, FiredEdges
<1> QED
  BY <1>3, <1>4, <1>5 DEF Good, CountsOK

\* Reopening steps of one settled status and un-bumping it, likewise.
LEMMA ReopenGood ==
    ASSUME NEW d, Good(d), NEW S \in SUBSET Steps, NEW from \in Settled,
           NEW to \in StepStatus \ Settled, \A s \in S : d.step[s] = from
    PROVE  Good(Reopen(d, S, from, to))
<1> DEFINE b == SetStatus(d, S, to)
           c == Reopen(d, S, from, to)
<1>1. d \in Rows /\ Cardinality(S) \in Nat
  BY FiniteParts DEF Good
<1>2. /\ b \in Rows
      /\ \A x \in Steps : b.step[x] = IF x \in S THEN to ELSE d.step[x]
      /\ b.edge = d.edge /\ b.remaining = d.remaining
      /\ b.fired = d.fired /\ b.counters = d.counters
  BY <1>1, SetStatusRows
<1>3. /\ c \in Rows
      /\ c.step = b.step /\ c.edge = d.edge /\ c.remaining = d.remaining /\ c.fired = d.fired
      /\ \A t \in Settled :
            c.counters[t] = IF t = from THEN d.counters[t] - Cardinality(S) ELSE d.counters[t]
  <2> DEFINE n == [b.counters EXCEPT ![from] = @ - Cardinality(S)]
  <2>1. c = [b EXCEPT !.counters = n]
    BY DEF Reopen
  <2>2. n \in [Settled -> Int]
    BY <1>1, <1>2 DEF Rows
  <2>3. \A t \in Settled : n[t] = IF t = from THEN d.counters[t] - Cardinality(S) ELSE d.counters[t]
    BY <1>1, <1>2 DEF Rows
  <2> HIDE DEF b, c, n
  <2> QED
    BY <1>2, <2>1, <2>2, <2>3 DEF Rows
<1>4. ASSUME NEW t \in Settled
      PROVE  c.counters[t] = Cardinality(StepsIn(c, {t}))
  <2>1. d.counters[t] = Cardinality(StepsIn(d, {t}))
    BY DEF Good, CountsOK
  <2>2. CASE t = from
    <3>1. StepsIn(c, {t}) = StepsIn(d, {t}) \ S /\ StepsIn(d, {t}) \cap S = S
      BY <1>2, <1>3, <2>2 DEF StepsIn
    <3>2. IsFiniteSet(StepsIn(d, {t}))
      BY FiniteParts DEF StepsIn
    <3>3. Cardinality(StepsIn(c, {t})) = Cardinality(StepsIn(d, {t})) - Cardinality(S)
      BY <3>1, <3>2, FS_Difference, Zenon
    <3> QED
      BY <1>3, <2>1, <2>2, <3>3
  <2>3. CASE t # from
    <3>1. StepsIn(c, {t}) = StepsIn(d, {t})
      BY <1>2, <1>3, <2>3 DEF StepsIn
    <3> QED
      BY <1>3, <2>1, <2>3, <3>1
  <2> QED
    BY <2>2, <2>3
<1>5. DepsOK(c)
  BY <1>3 DEF DepsOK, Good, OpenEdges, FiredEdges
<1> QED
  BY <1>3, <1>4, <1>5 DEF Good, CountsOK

-----------------------------------------------------------------------------
(* Fan-out.                                                                *)

\* What ApplyResolution does to each column.
Applied(d, R, F, K, A, c) ==
    /\ c \in Rows
    /\ \A e \in Edges : c.edge[e] = IF e \in R
                                    THEN IF e \in F THEN "fired" ELSE "skipped"
                                    ELSE d.edge[e]
    /\ \A t \in Steps : c.remaining[t] = RemainingAfter(d, t, R)
    /\ \A t \in Steps : c.fired[t] = FiredAfter(d, t, R, F)
    /\ \A t \in Steps : c.step[t] = IF t \in K THEN "skipped"
                                    ELSE IF t \in A THEN "ready" ELSE d.step[t]
    /\ \A t \in Settled : c.counters[t] = IF t = "skipped"
                                          THEN d.counters[t] + Cardinality(K)
                                          ELSE d.counters[t]
    /\ c.dispatch = d.dispatch \cup A
    /\ c.run = d.run /\ c.approval = d.approval

\* Replacing six columns by values of their types gives rows again.  The column
\* types are opaque here: only the shape of the record matters.
LEMMA SixColumns ==
    ASSUME NEW ST, NEW ET, NEW NT, NEW FT, NEW CT, NEW DT,
           NEW RT, NEW UT, NEW VT, NEW WT, NEW XT, NEW YT, NEW ZT,
           NEW d \in [run : RT, step : ST, edge : ET, remaining : NT, fired : FT,
                      counters : CT, transport : UT, semantic : VT, due : WT,
                      approval : XT, expired : YT, dispatch : DT, requeues : ZT],
           NEW sp \in ST, NEW ed \in ET, NEW rm \in NT, NEW fd \in FT, NEW ct \in CT,
           NEW dp \in DT
    PROVE  [d EXCEPT !.edge = ed, !.remaining = rm, !.fired = fd, !.step = sp,
                     !.counters = ct, !.dispatch = dp]
             \in [run : RT, step : ST, edge : ET, remaining : NT, fired : FT,
                  counters : CT, transport : UT, semantic : VT, due : WT,
                  approval : XT, expired : YT, dispatch : DT, requeues : ZT]
  BY Zenon

\* What one round of edge resolution leaves in each column.
LEMMA ApplyRows ==
    ASSUME NEW d \in Rows, NEW R \in SUBSET Edges, NEW F,
           NEW K \in SUBSET Steps, NEW A \in SUBSET Steps
    PROVE  Applied(d, R, F, K, A, ApplyResolution(d, R, F, K, A))
<1> SUFFICES ASSUME NEW c, c = ApplyResolution(d, R, F, K, A)
             PROVE  Applied(d, R, F, K, A, c)
  OBVIOUS
<1> DEFINE ed == [e \in Edges |-> IF e \in R
                                  THEN IF e \in F THEN "fired" ELSE "skipped"
                                  ELSE d.edge[e]]
           rm == [t \in Steps |-> RemainingAfter(d, t, R)]
           fd == [t \in Steps |-> FiredAfter(d, t, R, F)]
           sp == [t \in Steps |-> IF t \in K THEN "skipped"
                                  ELSE IF t \in A THEN "ready" ELSE d.step[t]]
           ct == [d.counters EXCEPT !["skipped"] = @ + Cardinality(K)]
           dp == d.dispatch \cup A
<1>1. c = [d EXCEPT !.edge = ed, !.remaining = rm, !.fired = fd, !.step = sp,
                    !.counters = ct, !.dispatch = dp]
  BY DEF ApplyResolution
<1>2. ed \in [Edges -> Resolution]
  BY DEF Rows, Resolution
<1>3. \A t \in Steps : Cardinality(R \cap In(t)) \in Int /\ Cardinality(R \cap F \cap In(t)) \in Int
  BY FiniteParts DEF In
<1>4. rm \in [Steps -> Int] /\ fd \in [Steps -> Int]
  <2>1. \A t \in Steps : d.remaining[t] \in Int /\ d.fired[t] \in Int
    BY DEF Rows
  <2>2. \A t \in Steps : RemainingAfter(d, t, R) \in Int /\ FiredAfter(d, t, R, F) \in Int
    BY <1>3, <2>1 DEF RemainingAfter, FiredAfter
  <2> QED
    BY <2>2
<1>5. sp \in [Steps -> StepStatus]
  BY DEF Rows, StepStatus, Settled
<1>6. \A t \in Settled : ct[t] = IF t = "skipped" THEN d.counters[t] + Cardinality(K)
                                 ELSE d.counters[t]
  BY FiniteParts DEF Rows, Settled
<1>9. ct \in [Settled -> Int]
  BY FiniteParts DEF Rows, Settled
<1>7. dp \in SUBSET Steps
  BY DEF Rows
<1>8. /\ c \in Rows
      /\ c.edge = ed /\ c.remaining = rm /\ c.fired = fd /\ c.step = sp
      /\ c.counters = ct /\ c.dispatch = dp /\ c.run = d.run /\ c.approval = d.approval
  <2> HIDE DEF ed, rm, fd, sp, ct, dp
  <2>1. c \in Rows
    <3>1. [d EXCEPT !.edge = ed, !.remaining = rm, !.fired = fd, !.step = sp,
                    !.counters = ct, !.dispatch = dp] \in Rows
      BY <1>2, <1>4, <1>5, <1>7, <1>9, SixColumns, Zenon DEF Rows
    <3> QED
      BY <1>1, <3>1
  <2>2. /\ c.edge = ed /\ c.remaining = rm /\ c.fired = fd /\ c.step = sp
        /\ c.counters = ct /\ c.dispatch = dp /\ c.run = d.run /\ c.approval = d.approval
    BY <1>1 DEF Rows
  <2> QED
    BY <2>1, <2>2
<1> QED
  BY <1>6, <1>8 DEF Applied

\* Resolving open edges, skipping and readying pending steps keeps all counts.
LEMMA ApplyGood ==
    ASSUME NEW d, Good(d), NEW F, NEW R \in SUBSET Edges,
           NEW K \in SUBSET Steps, NEW A \in SUBSET Steps,
           \A e \in R : d.edge[e] = "unresolved",
           \A t \in K \cup A : d.step[t] = "pending", K \cap A = {}
    PROVE  Good(ApplyResolution(d, R, F, K, A))
<1> SUFFICES ASSUME NEW c, c = ApplyResolution(d, R, F, K, A)
             PROVE  Good(c)
  OBVIOUS
<1>0. d \in Rows
  BY DEF Good
<1>1. Applied(d, R, F, K, A, c)
  BY <1>0, ApplyRows
<1>2. ASSUME NEW t \in Settled
      PROVE  c.counters[t] = Cardinality(StepsIn(c, {t}))
  <2>1. d.counters[t] = Cardinality(StepsIn(d, {t}))
    BY DEF Good, CountsOK
  <2>2. CASE t = "skipped"
    <3>1. StepsIn(c, {t}) = StepsIn(d, {t}) \cup K /\ StepsIn(d, {t}) \cap K = {}
      BY <1>1, <2>2 DEF Applied, StepsIn
    <3>2. IsFiniteSet(StepsIn(d, {t})) /\ IsFiniteSet(K)
      BY FiniteParts DEF StepsIn
    <3>3. Cardinality(StepsIn(c, {t})) = Cardinality(StepsIn(d, {t})) + Cardinality(K)
      BY <3>1, <3>2, CardDisjoint
    <3> QED
      BY <1>1, <2>1, <2>2, <3>3 DEF Applied
  <2>3. CASE t # "skipped"
    <3>1. StepsIn(c, {t}) = StepsIn(d, {t})
      BY <1>1, <2>3 DEF Applied, StepsIn, Settled
    <3> QED
      BY <1>1, <2>1, <2>3, <3>1 DEF Applied
  <2> QED
    BY <2>2, <2>3
<1>3. ASSUME NEW s \in Steps
      PROVE  /\ c.remaining[s] = Cardinality(OpenEdges(c, s))
             /\ c.fired[s] = Cardinality(FiredEdges(c, s))
  <2>1. /\ d.remaining[s] = Cardinality(OpenEdges(d, s))
        /\ d.fired[s] = Cardinality(FiredEdges(d, s))
    BY DEF Good, DepsOK
  <2>2. IsFiniteSet(OpenEdges(d, s)) /\ IsFiniteSet(FiredEdges(d, s)) /\ IsFiniteSet(R \cap F \cap In(s))
    BY FiniteParts DEF OpenEdges, FiredEdges, In
  <2>3. OpenEdges(c, s) = OpenEdges(d, s) \ R /\ OpenEdges(d, s) \cap R = R \cap In(s)
    BY <1>1 DEF Applied, OpenEdges, In
  <2>4. Cardinality(OpenEdges(c, s)) = Cardinality(OpenEdges(d, s)) - Cardinality(R \cap In(s))
    <3>1. Cardinality(OpenEdges(d, s) \ R)
            = Cardinality(OpenEdges(d, s)) - Cardinality(OpenEdges(d, s) \cap R)
      BY <2>2, FS_Difference, Zenon
    <3> QED
      BY <2>3, <3>1
  <2>5. /\ FiredEdges(c, s) = FiredEdges(d, s) \cup (R \cap F \cap In(s))
        /\ FiredEdges(d, s) \cap (R \cap F \cap In(s)) = {}
    BY <1>1 DEF Applied, FiredEdges, In
  <2>6. Cardinality(FiredEdges(c, s)) = Cardinality(FiredEdges(d, s)) + Cardinality(R \cap F \cap In(s))
    BY <2>2, <2>5, CardDisjoint
  <2> QED
    BY <1>1, <2>1, <2>4, <2>6 DEF Applied, RemainingAfter, FiredAfter
<1> QED
  BY <1>1, <1>2, <1>3 DEF Applied, Good, CountsOK, DepsOK

\* fanOut keeps all counts, whatever the verdict.
LEMMA FanOutGood ==
    ASSUME NEW d, Good(d), NEW s \in Steps, NEW F
    PROVE  Good(FanOut(d, s, F))
<1> DEFINE K == SkipSet(d, s, F)
           R == Resolved(d, s, K)
           A == {t \in Steps : Readies(d, t, R, F)} \ K
<1>1. K \in SUBSET Steps /\ \A t \in K : d.step[t] = "pending"
  BY DEF SkipSet, StepsIn
<1>2. R \in SUBSET Edges /\ \A e \in R : d.edge[e] = "unresolved"
  BY DEF Resolved
<1>3. A \in SUBSET Steps /\ K \cap A = {} /\ \A t \in A : d.step[t] = "pending"
  BY DEF Readies
<1>4. FanOut(d, s, F) = ApplyResolution(d, R, F, K, A)
  BY DEF FanOut
<1> HIDE DEF K, R, A
<1> QED
  BY <1>1, <1>2, <1>3, <1>4, ApplyGood

-----------------------------------------------------------------------------
(* The store transitions.                                                  *)

\* c differs from b at most in columns Good does not read.
Same(b, c) ==
    /\ c \in Rows
    /\ c.step = b.step /\ c.edge = b.edge /\ c.counters = b.counters
    /\ c.remaining = b.remaining /\ c.fired = b.fired

\* Rows that agree on the columns Good reads are equally good.
LEMMA SameGood ==
    ASSUME NEW b, NEW c, Good(b), Same(b, c)
    PROVE  Good(c)
BY Frame DEF Same

\* The row operators that touch only columns Good does not read.
LEMMA SameRows ==
    ASSUME NEW d \in Rows
    PROVE  /\ \A r \in RunStatus : Same(d, SetRun(d, r))
           /\ Same(d, ParkRun(d)) /\ Same(d, ResumeRun(d))
           /\ \A S \in SUBSET Steps : Same(d, Outbox(d, S))
           /\ Same(d, OutboxReady(d))
           /\ \A S \in SUBSET Steps : Same(d, [d EXCEPT !.dispatch = S])
           /\ \A S \in SUBSET Steps : Same(d, [d EXCEPT !.due = S])
           /\ \A S \in SUBSET Steps : Same(d, [d EXCEPT !.expired = S])
           /\ \A n \in Nat : Same(d, [d EXCEPT !.requeues = n])
           /\ \A f \in [Steps -> ApprovalStatus] : Same(d, [d EXCEPT !.approval = f])
           /\ \A f \in [Steps -> Nat] : /\ Same(d, [d EXCEPT !.transport = f])
                                        /\ Same(d, [d EXCEPT !.semantic = f])
<1>1. \A r \in RunStatus : Same(d, SetRun(d, r))
  BY DEF Rows, Same, SetRun
<1>2. Same(d, ParkRun(d)) /\ Same(d, ResumeRun(d))
  BY Zenon DEF Rows, Same, ParkRun, ResumeRun, RunStatus
<1>3. \A S \in SUBSET Steps : Same(d, [d EXCEPT !.dispatch = S])
  BY DEF Rows, Same
<1>4. \A S \in SUBSET Steps : Same(d, Outbox(d, S))
  <2> TAKE S \in SUBSET Steps
  <2>1. d.dispatch \cup S \in SUBSET Steps /\ Outbox(d, S) = [d EXCEPT !.dispatch = d.dispatch \cup S]
    BY DEF Rows, Outbox
  <2> QED
    BY <1>3, <2>1
<1>5. Same(d, OutboxReady(d))
  BY <1>4 DEF OutboxReady, StepsIn
<1>6. /\ \A S \in SUBSET Steps : Same(d, [d EXCEPT !.due = S])
      /\ \A S \in SUBSET Steps : Same(d, [d EXCEPT !.expired = S])
      /\ \A n \in Nat : Same(d, [d EXCEPT !.requeues = n])
  BY Zenon DEF Rows, Same
<1>7. \A f \in [Steps -> ApprovalStatus] : Same(d, [d EXCEPT !.approval = f])
  BY DEF Rows, Same
<1>8. \A f \in [Steps -> Nat] : /\ Same(d, [d EXCEPT !.transport = f])
                                /\ Same(d, [d EXCEPT !.semantic = f])
  BY Zenon DEF Rows, Same
<1> QED
  BY <1>1, <1>2, <1>3, <1>4, <1>5, <1>6, <1>7, <1>8

\* The transitions between unsettled statuses.
LEMMA UnsettledGood ==
    ASSUME NEW d, Good(d), NEW s \in Steps, d.step[s] \notin Settled
    PROVE  /\ Good(ClaimStep(d, s)) /\ Good(TakeoverStep(d, s))
           /\ Good(RetryStep(d, s)) /\ Good(ThrottleStep(d, s))
           /\ Good(SemanticRetryStep(d, s)) /\ Good(AwaitHumanStep(d, s))
           /\ Good(BudgetParkStep(d, s))
<1>1. \A st \in StepStatus \ Settled :
        Good(SetStatus(d, {s}, st)) /\ SetStatus(d, {s}, st) \in Rows
  BY SetStatusGood DEF Good
<1>2. {"running", "ready", "retrying", "awaiting_human"} \subseteq StepStatus \ Settled
  BY DEF StepStatus, Settled
<1>3. Good(ClaimStep(d, s))
  <2> DEFINE b == SetStatus(d, {s}, "running")
             u == b.due \ {s}
  <2>1. Good(b) /\ b \in Rows
    BY <1>1, <1>2
  <2>2. ClaimStep(d, s) = [b EXCEPT !.due = u]
    BY DEF ClaimStep
  <2> HIDE DEF b
  <2>3. u \in SUBSET Steps
    BY <2>1 DEF Rows
  <2> HIDE DEF u
  <2> QED
    BY <2>1, <2>2, <2>3, SameRows, SameGood, Zenon
<1>4. Good(TakeoverStep(d, s)) /\ Good(ThrottleStep(d, s))
  BY <1>1, <1>2 DEF TakeoverStep, ThrottleStep
<1>5. Good(BudgetParkStep(d, s))
  BY <1>1, <1>2, SameRows, SameGood, Zenon DEF BudgetParkStep
<1> DEFINE r == SetStatus(d, {s}, "retrying")
<1>6. Good(r) /\ r \in Rows
  BY <1>1, <1>2
<1>7. Good(RetryStep(d, s))
  <2> DEFINE f == [r.transport EXCEPT ![s] = @ + 1]
  <2>1. RetryStep(d, s) = [r EXCEPT !.transport = f]
    BY DEF RetryStep
  <2> HIDE DEF r
  <2>2. f \in [Steps -> Nat]
    BY <1>6 DEF Rows
  <2> HIDE DEF f
  <2> QED
    BY <1>6, <2>1, <2>2, SameRows, SameGood, Zenon
<1>8. Good(SemanticRetryStep(d, s))
  <2> DEFINE f == [r.semantic EXCEPT ![s] = @ + 1]
             u == r.due \cup {s}
             c == [r EXCEPT !.semantic = f, !.due = u]
  <2>1. SemanticRetryStep(d, s) = c
    BY DEF SemanticRetryStep
  <2> HIDE DEF r
  <2>2. f \in [Steps -> Nat] /\ u \in SUBSET Steps
    BY <1>6 DEF Rows
  <2> HIDE DEF f, u
  <2>3. Same(r, c)
    BY <1>6, <2>2, Zenon DEF Same, Rows
  <2> QED
    BY <1>6, <2>1, <2>3, SameGood
<1>9. Good(AwaitHumanStep(d, s))
  <2> DEFINE b == SetStatus(d, {s}, "awaiting_human")
             f == [b.approval EXCEPT ![s] = "pending"]
             u == b.expired \ {s}
             c == [b EXCEPT !.approval = f, !.expired = u]
  <2>0. Good(b) /\ b \in Rows
    BY <1>1, <1>2
  <2>1. AwaitHumanStep(d, s) = c
    BY DEF AwaitHumanStep
  <2> HIDE DEF b
  <2>2. f \in [Steps -> ApprovalStatus] /\ u \in SUBSET Steps
    BY <2>0 DEF Rows, ApprovalStatus
  <2> HIDE DEF f, u
  <2>3. Same(b, c)
    BY <2>0, <2>2, Zenon DEF Same, Rows
  <2> QED
    BY <2>0, <2>1, <2>3, SameGood
<1> QED
  BY <1>3, <1>4, <1>5, <1>7, <1>8, <1>9

\* The transitions that settle one step.
LEMMA SettlingGood ==
    ASSUME NEW d, Good(d), NEW s \in Steps, d.step[s] \notin Settled
    PROVE  /\ Good(SucceedStep(d, s)) /\ Good(SucceedAwaitingHumanStep(d, s))
           /\ Good(CollectFailStep(d, s)) /\ Good(CancelRunningStep(d, s))
           /\ Good(DeadLetterStep(d, s)) /\ Good(PoisonDeadLetterStep(d, s))
           /\ Good(DeadLetterAwaitingHumanStep(d, s))
<1>1. \A st \in Settled : Good(Settle(d, {s}, st)) /\ Settle(d, {s}, st) \in Rows
  BY SettleGood DEF Good
<1>2. /\ Good(SucceedStep(d, s)) /\ Good(CollectFailStep(d, s)) /\ Good(CancelRunningStep(d, s))
  BY <1>1 DEF SucceedStep, CollectFailStep, CancelRunningStep, Settled
<1>3. Good(DeadLetterStep(d, s))
  <2> DEFINE b == Settle(d, {s}, "dead_lettered")
             f == [b.transport EXCEPT ![s] = 0]
             g == [b.semantic EXCEPT ![s] = 0]
             u == b.due \ {s}
             c == [b EXCEPT !.transport = f, !.semantic = g, !.due = u]
  <2>1. Good(b) /\ b \in Rows
    BY <1>1 DEF Settled
  <2>2. DeadLetterStep(d, s) = c
    BY DEF DeadLetterStep
  <2> HIDE DEF b
  <2>3. f \in [Steps -> Nat] /\ g \in [Steps -> Nat] /\ u \in SUBSET Steps
    BY <2>1 DEF Rows
  <2> HIDE DEF f, g, u
  <2>4. Same(b, c)
    BY <2>1, <2>3, Zenon DEF Same, Rows
  <2> QED
    BY <2>1, <2>2, <2>4, SameGood
<1> QED
  BY <1>2, <1>3 DEF PoisonDeadLetterStep, DeadLetterAwaitingHumanStep, SucceedAwaitingHumanStep

\* The sweeps that cancel a set of steps.
LEMMA SweepGood ==
    ASSUME NEW d, Good(d), NEW S \in SUBSET Steps, \A s \in S : d.step[s] \notin Settled
    PROVE  Good(CancelSteps(d, S)) /\ Good(CancelAwaiting(d, S))
<1> DEFINE b == Settle(d, S, "cancelled")
           u == b.due \ S
           f == [x \in Steps |-> IF x \in S THEN "cancelled" ELSE d.approval[x]]
<1>1. Good(b) /\ b \in Rows
  BY SettleGood DEF Good, Settled
<1>2. CancelSteps(d, S) = [b EXCEPT !.due = u] /\ CancelAwaiting(d, S) = [b EXCEPT !.approval = f]
  BY DEF CancelSteps, CancelAwaiting
<1> HIDE DEF b
<1>3. u \in SUBSET Steps /\ f \in [Steps -> ApprovalStatus]
  BY <1>1 DEF Rows, Good, ApprovalStatus
<1> HIDE DEF u, f
<1> QED
  BY <1>1, <1>2, <1>3, SameRows, SameGood, Zenon

\* What CancelSteps does to the statuses.
LEMMA CancelColumns ==
    ASSUME NEW d \in Rows, NEW S \in SUBSET Steps, NEW x \in Steps
    PROVE  CancelSteps(d, S).step[x] = IF x \in S THEN "cancelled" ELSE d.step[x]
<1> DEFINE b == SetStatus(d, S, "cancelled")
           c == Settle(d, S, "cancelled")
           n == [b.counters EXCEPT !["cancelled"] = @ + Cardinality(S)]
<1>1. b \in Rows /\ b.step[x] = IF x \in S THEN "cancelled" ELSE d.step[x]
  BY SetStatusRows DEF StepStatus, Settled
<1>2. c = [b EXCEPT !.counters = n]
  BY DEF Settle
<1> HIDE DEF b, n
<1>3. c.step = b.step
  BY <1>1, <1>2 DEF Rows
<1>4. CancelSteps(d, S).step = c.step
  BY <1>1, <1>2 DEF CancelSteps, Rows
<1> QED
  BY <1>1, <1>3, <1>4

-----------------------------------------------------------------------------
(* Rollups and the failure disposition.                                    *)

\* The run rollups, of a live and of a cancelled run, touch no step.
LEMMA RollupGood ==
    ASSUME NEW d, Good(d)
    PROVE  /\ \A r \in RunStatus : Good(SetRun(d, r))
           /\ Good(AttemptCancelRollup(d)) /\ Good(AttemptRunRollup(d))
<1>1. \A r \in RunStatus : Good(SetRun(d, r))
  BY SameRows, SameGood DEF Good
<1>2. {"succeeded", "failed", "cancelled"} \subseteq RunStatus
  BY DEF RunStatus
<1> QED
  BY <1>1, <1>2 DEF AttemptCancelRollup, AttemptRunRollup

\* The disposition of a dead letter, with its write-off, keeps all counts.
LEMMA DispositionGood ==
    ASSUME NEW d, Good(d)
    PROVE  Good(DeadLetterDisposition(d))
<1> DEFINE c == CancelSteps(d, WriteOff(d))
<1>1. WriteOff(d) \in SUBSET Steps /\ \A s \in WriteOff(d) : d.step[s] = "pending"
  BY DEF WriteOff, PlanWriteOff, StepsIn
<1>2. "pending" \notin Settled
  BY DEF Settled
<1>3. Good(c)
  BY <1>1, <1>2, SweepGood
<1>4. Good(SetRun(c, "failed")) /\ Good(SetRun(d, "failed"))
  BY <1>3, RollupGood DEF RunStatus
<1> HIDE DEF c
<1> QED
  BY <1>3, <1>4 DEF DeadLetterDisposition, c

-----------------------------------------------------------------------------
(* One lemma per group of actions.                                         *)

\* A freshly instantiated run has its counters right.
LEMMA InitGood == Init => Good(db)
<1> SUFFICES ASSUME Init PROVE Good(db)
  OBVIOUS
<1>1. \A s \in Steps : Cardinality(In(s)) \in Nat
  BY FiniteParts DEF In
<1>2. Roots \in SUBSET Steps
  BY DEF Roots
<1>3. db \in Rows
  BY <1>1, <1>2 DEF Init, Rows, RunStatus, StepStatus, Resolution, ApprovalStatus
<1>4. ASSUME NEW t \in Settled PROVE db.counters[t] = Cardinality(StepsIn(db, {t}))
  <2>1. StepsIn(db, {t}) = {}
    BY DEF Init, StepsIn, Settled
  <2> QED
    BY <2>1, FS_EmptySet, Zenon DEF Init
<1>5. ASSUME NEW s \in Steps
      PROVE  /\ db.remaining[s] = Cardinality(OpenEdges(db, s))
             /\ db.fired[s] = Cardinality(FiredEdges(db, s))
  <2>1. OpenEdges(db, s) = In(s) /\ FiredEdges(db, s) = {}
    BY DEF Init, OpenEdges, FiredEdges, In
  <2> QED
    BY <2>1, FS_EmptySet, Zenon DEF Init
<1> QED
  BY <1>3, <1>4, <1>5 DEF Good, CountsOK, DepsOK

\* Deliveries, clocks and the reconciler's redispatch.
LEMMA DeliveryGood ==
    ASSUME Good(db), NEW s \in Steps,
           Claim(s) \/ BackoffElapses(s) \/ ReconcileDispatch(s) \/ ReconcileRunning(s)
    PROVE  Good(db')
<1>0. db \in Rows /\ db.dispatch \in SUBSET Steps /\ db.due \in SUBSET Steps
  BY DEF Good, Rows
<1>u. {"ready", "retrying", "running"} \cap Settled = {}
  BY DEF Settled
<1>1. CASE Claim(s)
  <2>1. db.step[s] \notin Settled
    BY <1>1, <1>u DEF Claim, Claimable
  <2> QED
    BY <1>1, <2>1, UnsettledGood DEF Claim
<1>2. CASE BackoffElapses(s)
  <2> DEFINE u == db.due \cup {s}
  <2>1. db' = [db EXCEPT !.due = u] /\ u \in SUBSET Steps
    BY <1>0, <1>2 DEF BackoffElapses
  <2> HIDE DEF u
  <2> QED
    BY <1>0, <2>1, SameRows, SameGood, Zenon
<1>3. CASE ReconcileDispatch(s)
  BY <1>0, <1>3, SameRows, SameGood DEF ReconcileDispatch
<1>4. CASE ReconcileRunning(s)
  <2>1. Good(TakeoverStep(db, s))
    BY <1>4, <1>u, UnsettledGood DEF ReconcileRunning
  <2>2. TakeoverStep(db, s) \in Rows
    BY <2>1 DEF Good
  <2>3. db' = Outbox(TakeoverStep(db, s), {s}) \/ db' = TakeoverStep(db, s)
    BY <1>4 DEF ReconcileRunning
  <2>4. Good(Outbox(TakeoverStep(db, s), {s}))
    BY <2>1, <2>2, SameRows, SameGood
  <2> QED
    BY <2>1, <2>3, <2>4
<1> QED
  BY <1>1, <1>2, <1>3, <1>4

\* Announcements that go, whatever becomes of them.
LEMMA DropGood ==
    ASSUME Good(db), NEW S, DropDeliveries(S)
    PROVE  Good(db')
<1> DEFINE u == db.dispatch \ S
<1>1. db \in Rows /\ db' = [db EXCEPT !.dispatch = u] /\ u \in SUBSET Steps
  BY DEF DropDeliveries, Good, Rows
<1> HIDE DEF u
<1> QED
  BY <1>1, SameRows, SameGood, Zenon

\* A new outbox row, a fan-out with its rollup, and a dead letter with its
\* disposition: the tails of the completion transactions.
LEMMA TailGood ==
    ASSUME NEW d, Good(d), NEW s \in Steps
    PROVE  /\ Good(Outbox(d, {s})) /\ Good(OutboxReady(d))
           /\ \A F : Good(AttemptRunRollup(FanOut(d, s, F)))
           /\ Good(AttemptCancelRollup(DeadLetterDisposition(d)))
<1>1. d \in Rows
  BY DEF Good
<1>2. Good(Outbox(d, {s})) /\ Good(OutboxReady(d))
  BY <1>1, SameRows, SameGood
<1>3. \A F : Good(AttemptRunRollup(FanOut(d, s, F)))
  <2> TAKE F
  <2>1. Good(FanOut(d, s, F))
    BY FanOutGood
  <2> QED
    BY <2>1, RollupGood
<1>4. Good(AttemptCancelRollup(DeadLetterDisposition(d)))
  BY DispositionGood, RollupGood
<1> QED
  BY <1>2, <1>3, <1>4

\* The holder's completions.
LEMMA CompletionGood ==
    ASSUME Good(db), NEW s \in Steps,
           Complete(s) \/ CompleteThrottle(s) \/ CompleteBudgetPark(s)
    PROVE  Good(db')
<1>0. db.step[s] \notin Settled
  BY DEF Complete, CompleteSuccess, CompleteFailure, FailStep, CompleteValidationFailure,
         CompleteAwaitHuman, CompleteThrottle, CompleteBudgetPark, Settled
<1>1. /\ Good(SucceedStep(db, s)) /\ Good(CollectFailStep(db, s))
      /\ Good(CancelRunningStep(db, s)) /\ Good(DeadLetterStep(db, s))
  BY <1>0, SettlingGood
<1>2. /\ Good(RetryStep(db, s)) /\ Good(ThrottleStep(db, s))
      /\ Good(SemanticRetryStep(db, s)) /\ Good(AwaitHumanStep(db, s))
      /\ Good(BudgetParkStep(db, s))
  BY <1>0, UnsettledGood
<1>3. ASSUME SettleCancelled(s) PROVE Good(db')
  BY <1>1, <1>3, RollupGood DEF SettleCancelled
<1>4. CASE CompleteSuccess(s)
  <2>1. CASE db' = AttemptRunRollup(SucceedStep(db, s))
    BY <1>1, <2>1, RollupGood
  <2>2. CASE \E F \in Verdicts(s) : db' = AttemptRunRollup(FanOut(SucceedStep(db, s), s, F))
    BY <1>1, <2>2, TailGood, Zenon
  <2> QED
    BY <1>4, <2>1, <2>2 DEF CompleteSuccess
<1>5. ASSUME NEW retryable \in BOOLEAN, CompleteFailure(s, retryable) PROVE Good(db')
  <2>1. CASE db' = Outbox(RetryStep(db, s), {s})
    BY <1>2, <2>1, TailGood, Zenon
  <2>2. CASE \E F \in Verdicts(s) :
               db' = AttemptRunRollup(FanOut(CollectFailStep(db, s), s, F))
    BY <1>1, <2>2, TailGood, Zenon
  <2>3. CASE db' = DeadLetterDisposition(DeadLetterStep(db, s))
    BY <1>1, <2>3, DispositionGood
  <2> QED
    BY <1>3, <1>5, <2>1, <2>2, <2>3 DEF CompleteFailure, FailStep
<1>6. CASE CompleteValidationFailure(s)
  <2>1. CASE db' = Outbox(SemanticRetryStep(db, s), {s})
    BY <1>2, <2>1, TailGood
  <2>2. CASE db' = DeadLetterDisposition(DeadLetterStep(db, s))
    BY <1>1, <2>2, DispositionGood
  <2> QED
    BY <1>3, <1>6, <2>1, <2>2 DEF CompleteValidationFailure
<1>7. CASE CompleteAwaitHuman(s)
  BY <1>2, <1>3, <1>7 DEF CompleteAwaitHuman
<1>8. CASE CompleteThrottle(s)
  BY <1>2, <1>3, <1>8, TailGood, Zenon DEF CompleteThrottle
<1>9. CASE CompleteBudgetPark(s)
  BY <1>2, <1>3, <1>9 DEF CompleteBudgetPark
<1> QED
  BY <1>4, <1>5, <1>6, <1>7, <1>8, <1>9 DEF Complete

\* Poison letters and the reconciler's heal, which need no holder.
LEMMA UnfencedGood ==
    ASSUME Good(db), NEW s \in Steps, HandlePoison(s) \/ HealCancellingStep(s)
    PROVE  Good(db')
<1>0. db \in Rows /\ db.step[s] \notin Settled
  BY DEF Good, HandlePoison, PoisonStep, HealCancellingStep, Settled
<1>1. CASE HandlePoison(s)
  <2>1. Good(PoisonDeadLetterStep(db, s))
    BY <1>0, SettlingGood
  <2> QED
    BY <1>1, <2>1, TailGood, Zenon DEF HandlePoison, PoisonStep
<1>2. CASE HealCancellingStep(s)
  <2> DEFINE d == TakeoverStep(db, s)
  <2>1. Good(d)
    BY <1>0, UnsettledGood
  <2>2. d.step[s] \notin Settled
    <3>1. d.step[s] = "ready"
      BY <1>0, SetStatusRows DEF TakeoverStep, StepStatus
    <3> QED
      BY <3>1 DEF Settled
  <2>3. db' = AttemptCancelRollup(CancelSteps(d, {s}))
    BY <1>2 DEF HealCancellingStep
  <2> HIDE DEF d
  <2>4. Good(CancelSteps(d, {s}))
    BY <2>1, <2>2, SweepGood
  <2> QED
    BY <2>3, <2>4, RollupGood
<1> QED
  BY <1>1, <1>2

\* Decisions on a gate, by a human or by its timeout.
LEMMA ApprovalGood ==
    ASSUME Good(db), NEW s \in Steps, NEW decision, NEW source,
           Decide(s, decision, source) \/ ExpireApprovalPark(s)
    PROVE  Good(db')
<1>0. db \in Rows
  BY DEF Good
<1>1. CASE Decide(s, decision, source)
  <2> DEFINE v == IF source = "timeout" THEN "expired"
                  ELSE IF decision = "reject" THEN "rejected" ELSE "approved"
             f == [db.approval EXCEPT ![s] = v]
             u == IF source = "timeout" THEN db.expired \cup {s} ELSE db.expired \ {s}
             d == [db EXCEPT !.approval = f, !.expired = u]
  <2>1. f \in [Steps -> ApprovalStatus] /\ u \in SUBSET Steps
    BY <1>0 DEF Rows, ApprovalStatus
  <2>2. d = DecideApproval(db, s, decision, source)
    BY DEF DecideApproval
  <2> HIDE DEF f, u
  <2>3. Same(db, d)
    BY <1>0, <2>1, Zenon DEF Same, Rows
  <2> HIDE DEF d
  <2>4. db.step[s] \notin Settled
    BY <1>1 DEF Decide, Settled
  <2>5. Good(d) /\ d.step[s] \notin Settled
    BY <2>3, <2>4, SameGood DEF Same
  <2>6. Good(SucceedAwaitingHumanStep(d, s)) /\ Good(DeadLetterAwaitingHumanStep(d, s))
    BY <2>5, SettlingGood
  <2>7. CASE DecideDeadLetter(d, s)
    BY <2>6, <2>7, DispositionGood DEF DecideDeadLetter
  <2>8. CASE DecideSucceed(d, s, decision)
    BY <2>6, <2>8, TailGood, Zenon DEF DecideSucceed
  <2> QED
    BY <1>1, <2>2, <2>7, <2>8 DEF Decide
<1>2. CASE ExpireApprovalPark(s)
  <2> DEFINE u == db.expired \cup {s}
             d == [db EXCEPT !.expired = u]
  <2>1. u \in SUBSET Steps
    BY <1>0 DEF Rows
  <2>2. db' = ParkRun(d)
    BY <1>2 DEF ExpireApprovalPark
  <2> HIDE DEF u
  <2>3. Same(db, d)
    BY <1>0, <2>1, SameRows
  <2> HIDE DEF d
  <2>4. Good(d) /\ d \in Rows
    BY <2>3, SameGood DEF Same
  <2> QED
    BY <2>2, <2>4, SameRows, SameGood
<1> QED
  BY <1>1, <1>2

\* The operator's transactions.
LEMMA OperatorGood ==
    ASSUME Good(db), Cancel \/ Park \/ Unpark \/ \E s \in Steps : Requeue(s)
    PROVE  Good(db')
<1>0. db \in Rows
  BY DEF Good
<1>1. CASE Cancel
  <2> DEFINE a == SetRun(db, "cancelling")
             S == StepsIn(db, {"pending", "ready", "retrying"})
             G == StepsIn(db, {"awaiting_human"})
             b == CancelSteps(a, S)
  <2>1. Good(a) /\ a.step = db.step
    BY <1>0, RollupGood, SameRows DEF RunStatus, Same
  <2>2. S \in SUBSET Steps /\ \A s \in S : a.step[s] \notin Settled
    BY <2>1 DEF StepsIn, Settled
  <2>3. db' = AttemptCancelRollup(CancelAwaiting(b, G))
    BY <1>1 DEF Cancel
  <2> HIDE DEF a, S
  <2>4. Good(b)
    BY <2>1, <2>2, SweepGood
  <2>5. G \in SUBSET Steps /\ \A s \in G : b.step[s] \notin Settled
    <3>1. \A s \in Steps : b.step[s] = IF s \in S THEN "cancelled" ELSE db.step[s]
      BY <1>0, <2>1, CancelColumns DEF Good, S, StepsIn
    <3> QED
      BY <3>1 DEF S, StepsIn, Settled
  <2> HIDE DEF b, G
  <2>6. Good(CancelAwaiting(b, G))
    BY <2>4, <2>5, SweepGood
  <2> QED
    BY <2>3, <2>6, RollupGood
<1>2. CASE Park
  BY <1>0, <1>2, SameRows, SameGood DEF Park
<1>3. CASE Unpark
  <2>1. Good(SetRun(db, "running"))
    BY RollupGood DEF RunStatus
  <2>2. SetRun(db, "running") \in Rows
    BY <2>1 DEF Good
  <2>3. db' = OutboxReady(SetRun(db, "running"))
    BY <1>3 DEF Unpark
  <2> QED
    BY <2>1, <2>2, <2>3, SameRows, SameGood
<1>4. ASSUME NEW s \in Steps, Requeue(s) PROVE Good(db')
  <2> DEFINE a == RequeueStep(db, s)
             b == ResumeRun(a)
             n == b.requeues + 1
             d == [b EXCEPT !.requeues = n]
             V == StepsIn(d, {"cancelled"}) \ Blocked(d)
  <2>1. Good(a) /\ a \in Rows
    <3>1. db.step[s] = "dead_lettered"
      BY <1>4 DEF Requeue
    <3>2. "dead_lettered" \in Settled /\ "ready" \in StepStatus \ Settled
      BY DEF Settled, StepStatus
    <3>3. Good(a)
      BY <3>1, <3>2, ReopenGood DEF RequeueStep
    <3> QED
      BY <3>3 DEF Good
  <2>2. db' = OutboxReady(ReviveSteps(d, V))
    BY <1>4 DEF Requeue
  <2> HIDE DEF a
  <2>3. Good(b) /\ b \in Rows
    BY <2>1, SameRows, SameGood DEF Same
  <2> HIDE DEF b
  <2>4. n \in Nat
    BY <2>3 DEF Rows
  <2> HIDE DEF n
  <2>5. Good(d)
    BY <2>3, <2>4, SameRows, SameGood
  <2> HIDE DEF d
  <2>6. V \in SUBSET Steps /\ \A x \in V : d.step[x] = "cancelled"
    BY DEF StepsIn
  <2> HIDE DEF V
  <2>7. "cancelled" \in Settled /\ "pending" \in StepStatus \ Settled
    BY DEF Settled, StepStatus
  <2>8. Good(ReviveSteps(d, V))
    BY <2>5, <2>6, <2>7, ReopenGood DEF ReviveSteps
  <2>9. ReviveSteps(d, V) \in Rows
    BY <2>8 DEF Good
  <2> QED
    BY <2>2, <2>8, <2>9, SameRows, SameGood
<1> QED
  BY <1>1, <1>2, <1>3, <1>4

-----------------------------------------------------------------------------
(* The theorems.                                                           *)

\* Every transaction keeps all counts right.
LEMMA NextGood == Good(db) /\ [Next]_db => Good(db')
<1> SUFFICES ASSUME Good(db), [Next]_db PROVE Good(db')
  OBVIOUS
<1>1. CASE UNCHANGED db
  BY <1>1
<1>2. ASSUME NEW s \in Steps,
             Claim(s) \/ BackoffElapses(s) \/ ReconcileDispatch(s) \/ ReconcileRunning(s)
      PROVE  Good(db')
  BY <1>2, DeliveryGood
<1>3. ASSUME NEW s \in Steps, Complete(s) \/ CompleteThrottle(s) \/ CompleteBudgetPark(s)
      PROVE  Good(db')
  BY <1>3, CompletionGood
<1>4. ASSUME NEW s \in Steps, HandlePoison(s) \/ HealCancellingStep(s)
      PROVE  Good(db')
  BY <1>4, UnfencedGood
<1>5. ASSUME NEW s \in Steps, NEW decision, NEW source,
             Decide(s, decision, source) \/ ExpireApprovalPark(s)
      PROVE  Good(db')
  BY <1>5, ApprovalGood
<1>6. ASSUME Cancel \/ Park \/ Unpark \/ \E s \in Steps : Requeue(s)
      PROVE  Good(db')
  BY <1>6, OperatorGood
<1>7. ASSUME NEW S, DropDeliveries(S) PROVE Good(db')
  BY <1>7, DropGood
<1> QED
  BY <1>1, <1>2, <1>3, <1>4, <1>5, <1>6, <1>7 DEF Next

\* The inductive invariant: the column types, the aggregates and the dependency
\* counters together, since each transaction's bookkeeping is right only on
\* rows whose counts were right before it.
Inv == Good(db)

\* In every state that the transactions of internal/engine can reach, for every
\* graph and policy, the rows are well typed and both kinds of counters agree with
\* the step and edge rows they summarise.
THEOREM InvInvariant == Spec => []Inv
<1>1. Init => Inv
  BY InitGood DEF Inv
<1>2. Inv /\ [Next]_db => Inv'
  BY NextGood DEF Inv
<1> QED
  BY <1>1, <1>2, PTL DEF Spec

\* Whatever the graph and the policies, the run's five step aggregates count the
\* step rows of each settled status, so the rollup guards of transitions.go,
\* which read only the aggregates, judge the steps themselves.
THEOREM AggregatesTheorem == Spec => []AggregatesMatch
<1>1. Inv => AggregatesMatch
  BY DEF Inv, Good, CountsOK, AggregatesMatch
<1> QED
  BY <1>1, InvInvariant, PTL

\* Whatever the graph, remaining_deps and fired_deps of every step count its
\* unresolved and its fired in-edges: fanOut resolves each edge exactly once.
THEOREM DependencyCountersTheorem == Spec => []DependencyCountersMatch
<1>1. Inv => DependencyCountersMatch
  BY DEF Inv, Good, DepsOK, OpenEdges, FiredEdges, DependencyCountersMatch
<1> QED
  BY <1>1, InvInvariant, PTL

\* Together: every counter that a transaction of internal/engine bumps equals what
\* it counts, whatever the graph and the policies.
THEOREM CountersTheorem == Spec => []CountersMatch
<1>1. AggregatesMatch /\ DependencyCountersMatch => CountersMatch
  BY DEF CountersMatch
<1> QED
  BY <1>1, AggregatesTheorem, DependencyCountersTheorem, PTL

\* The rows keep their column types and no counter goes below zero.
THEOREM TypeCorrect == Spec => []TypeOK
<1>1. Inv => TypeOK
  <2> SUFFICES ASSUME Good(db) PROVE TypeOK
    BY DEF Inv
  <2>1. \A s \in Steps : db.remaining[s] >= 0 /\ db.fired[s] >= 0
    <3> TAKE s \in Steps
    <3>1. /\ Cardinality(OpenEdges(db, s)) \in Nat
          /\ Cardinality(FiredEdges(db, s)) \in Nat
      BY FiniteParts DEF OpenEdges, FiredEdges, In
    <3>2. /\ db.remaining[s] = Cardinality(OpenEdges(db, s))
          /\ db.fired[s] = Cardinality(FiredEdges(db, s))
      BY DEF Good, DepsOK
    <3> QED
      BY <3>1, <3>2
  <2>2. \A t \in Settled : db.counters[t] >= 0
    <3> TAKE t \in Settled
    <3>1. Cardinality(StepsIn(db, {t})) \in Nat
      BY FiniteParts DEF StepsIn
    <3>2. db.counters[t] = Cardinality(StepsIn(db, {t}))
      BY DEF Good, CountsOK
    <3> QED
      BY <3>1, <3>2
  <2> QED
    BY <2>1, <2>2 DEF Good, TypeOK
<1> QED
  BY <1>1, InvInvariant, PTL

-----------------------------------------------------------------------------
(***************************************************************************)
(* What the safety theorems of module RunGraphSafety rest on: the          *)
(* inductive invariant, and what fan-out, rollups and write-off do to it.  *)
(*                                                                         *)
(* The counters agree with the rows by now, so from here the rows          *)
(* themselves are argued about: which edges are open or have fired, never  *)
(* how many.  The two fixpoints of the model, the skips of fanOut and the  *)
(* write-off of planWriteOff, are first given the only four facts the rest *)
(* uses: what they contain, that they are closed, that each member has a   *)
(* cause, and that they are least.                                         *)
(***************************************************************************)

Done == {"succeeded", "collected", "skipped"}
Live == {"ready", "running", "retrying", "awaiting_human"}
Stopped(d) == d.run \in {"cancelling", "cancelled"}

-----------------------------------------------------------------------------
(* The inductive invariant, on any rows d.                                 *)

Resolutions(d) ==
    \A e \in Edges :
        /\ d.edge[e] # "unresolved" => d.step[Src[e]] \in Done
        /\ d.edge[e] = "fired" => d.step[Src[e]] # "skipped"
        /\ d.step[Src[e]] \in Done => d.edge[e] # "unresolved" \/ Stopped(d)

Justified(d) ==
    \A s \in Steps :
        /\ d.step[s] \notin {"pending", "cancelled", "skipped"} =>
              \/ In(s) = {}
              \/ FiredEdges(d, s) # {} /\ (OpenEdges(d, s) = {} \/ s \in JoinAny)
        /\ d.step[s] = "skipped" => OpenEdges(d, s) = {} /\ FiredEdges(d, s) = {}

Waiting(d) ==
    \A s \in Steps : d.step[s] = "pending" =>
        OpenEdges(d, s) # {} /\ (s \in JoinAny => FiredEdges(d, s) = {})

\* Only a cancel leaves announcements of cancelled steps behind; a revived step
\* was never announced.
Announced(d) ==
    \A s \in d.dispatch : d.step[s] # "pending" /\ (d.step[s] = "cancelled" => Stopped(d))

Gated(d) == \A s \in Steps : d.approval[s] = "pending" <=> d.step[s] = "awaiting_human"

Caused(d) == ~Stopped(d) => StepsIn(d, {"cancelled"}) \subseteq Blocked(d)

\* The write-off was complete: under continue_independent_branches no step that
\* needs all its edges waits on one that will not settle.
Freed(d) ==
    OnFailure # "fail_fast" /\ ~Stopped(d) =>
        \A t \in Steps \ JoinAny : d.step[t] = "pending" =>
            \A e \in OpenEdges(d, t) : d.step[Src[e]] \notin {"dead_lettered", "cancelled"}

Core(d) == Resolutions(d) /\ Justified(d) /\ Waiting(d) /\ Announced(d) /\ Caused(d)

VerdictOK(d) ==
    /\ d.run = "succeeded" => \A s \in Steps : d.step[s] \in Done
    /\ d.run = "cancelled" => \A s \in Steps : d.step[s] \in Settled
    /\ d.run = "failed" => /\ \E s \in Steps : d.step[s] = "dead_lettered"
                           /\ OnFailure = "fail_fast" \/ \A s \in Steps : d.step[s] \in Settled

\* A cancelling run has stopped everything but the steps that are executing.
Concluded(d) ==
    /\ VerdictOK(d)
    /\ Open(d) => \E s \in Steps : d.step[s] \notin Settled
    /\ d.run = "cancelling" => /\ \E s \in Steps : d.step[s] = "running"
                               /\ \A s \in Steps : d.step[s] \in Settled \cup {"running"}

Sound(d) == Core(d) /\ Gated(d) /\ Concluded(d) /\ Freed(d)

\* FinalStep, between any rows d and c.
Final(d, c) ==
    /\ \A s \in Steps : d.step[s] \in Settled /\ c.step[s] # d.step[s] =>
         \/ d.step[s] = "dead_lettered" /\ c.step[s] = "ready"
         \/ d.step[s] = "cancelled" /\ c.step[s] = "pending"
              /\ d.run \notin {"cancelling", "cancelled"}
    /\ \A e \in Edges : d.edge[e] # "unresolved" => c.edge[e] = d.edge[e]
    /\ \A s \in Steps : c.approval[s] # d.approval[s] =>
         d.approval[s] = "pending" \/ c.approval[s] = "pending"
    /\ d.run \in {"succeeded", "cancelled"} => c.run = d.run

-----------------------------------------------------------------------------
(* Counters and edges.                                                     *)

\* A dependency counter is zero exactly when the set it counts is empty.
LEMMA CountZero ==
    ASSUME NEW d, Good(d), NEW s \in Steps
    PROVE  /\ d.remaining[s] = 0 <=> OpenEdges(d, s) = {}
           /\ d.fired[s] = 0 <=> FiredEdges(d, s) = {}
           /\ d.remaining[s] >= 1 <=> OpenEdges(d, s) # {}
           /\ d.fired[s] >= 1 <=> FiredEdges(d, s) # {}
<1>1. /\ d.remaining[s] = Cardinality(OpenEdges(d, s))
      /\ d.fired[s] = Cardinality(FiredEdges(d, s))
  BY DEF Good, DepsOK
<1>2. /\ IsFiniteSet(OpenEdges(d, s)) /\ Cardinality(OpenEdges(d, s)) \in Nat
      /\ IsFiniteSet(FiredEdges(d, s)) /\ Cardinality(FiredEdges(d, s)) \in Nat
  BY FiniteParts DEF OpenEdges, FiredEdges, In
<1>3. /\ Cardinality(OpenEdges(d, s)) = 0 <=> OpenEdges(d, s) = {}
      /\ Cardinality(FiredEdges(d, s)) = 0 <=> FiredEdges(d, s) = {}
  BY <1>2, FS_EmptySet
<1> QED
  BY <1>1, <1>2, <1>3

\* What Impossible says, on edges alone.
Lost(d, t, B) ==
    IF t \in JoinAny
    THEN /\ FiredEdges(d, t) = {} /\ OpenEdges(d, t) # {}
         /\ \A e \in OpenEdges(d, t) : Src[e] \in B
    ELSE \E e \in OpenEdges(d, t) : Src[e] \in B

\* On good rows the two agree.
LEMMA ImpossibleLost ==
    ASSUME NEW d, Good(d), NEW t \in Steps, NEW B
    PROVE  Impossible(d, t, B) <=> Lost(d, t, B)
<1>1. d.fired[t] = 0 <=> FiredEdges(d, t) = {}
  BY CountZero
<1> QED
  BY <1>1 DEF Impossible, Lost, OpenEdges

\* More blocked sources make more steps impossible.
LEMMA LostMonotone ==
    ASSUME NEW d, NEW t, NEW B, NEW C, B \subseteq C, Lost(d, t, B)
    PROVE  Lost(d, t, C)
BY DEF Lost

-----------------------------------------------------------------------------
(* The two fixpoints.                                                      *)

\* planWriteOff: the write-off is closed, each of its members is impossible
\* because of it, and every closed set contains it.
LEMMA WriteOffRule ==
    ASSUME NEW d, Good(d), NEW P \in SUBSET Steps, NEW B
    PROVE  LET W == PlanWriteOff(d, P, B)
           IN  /\ W \subseteq P
               /\ \A u \in P : Lost(d, u, B \cup W) => u \in W
               /\ \A u \in W : Lost(d, u, B \cup W)
               /\ \A V \in SUBSET P :
                    (\A u \in P : Lost(d, u, B \cup V) => u \in V) => W \subseteq V
<1> DEFINE W == PlanWriteOff(d, P, B)
           closed(V) == \A u \in P : Lost(d, u, B \cup V) => u \in V
<1>1. W = {t \in P : \A V \in SUBSET P : closed(V) => t \in V}
  <2>1. ASSUME NEW V \in SUBSET P
        PROVE  (\A u \in P : Impossible(d, u, B \cup V) => u \in V) <=> closed(V)
    BY ImpossibleLost
  <2> QED
    BY <2>1 DEF PlanWriteOff
<1>m. ASSUME NEW u, NEW V, NEW Y, V \subseteq Y, Lost(d, u, B \cup V)
      PROVE  Lost(d, u, B \cup Y)
  <2>1. B \cup V \subseteq B \cup Y
    BY <1>m
  <2> QED
    BY <1>m, <2>1, LostMonotone
<1> HIDE DEF W
<1>2. W \subseteq P
  BY <1>1
<1>3. \A V \in SUBSET P : closed(V) => W \subseteq V
  BY <1>1
<1>4. closed(W)
  <2> SUFFICES ASSUME NEW u \in P, Lost(d, u, B \cup W), NEW V \in SUBSET P, closed(V)
               PROVE  u \in V
    BY <1>1, Zenon
  <2>1. Lost(d, u, B \cup V)
    BY <1>3, <1>m
  <2> QED
    BY <2>1
<1>5. ASSUME NEW u \in W PROVE Lost(d, u, B \cup W)
  <2> DEFINE V == {x \in W : Lost(d, x, B \cup W)}
  <2>1. V \in SUBSET P /\ V \subseteq W
    BY <1>2
  <2>2. closed(V)
    <3> SUFFICES ASSUME NEW x \in P, Lost(d, x, B \cup V) PROVE x \in V
      OBVIOUS
    <3> HIDE DEF V
    <3>1. Lost(d, x, B \cup W)
      BY <2>1, <1>m
    <3>2. x \in W
      BY <3>1, <1>4
    <3> QED
      BY <3>1, <3>2 DEF V
  <2>3. W \subseteq V
    BY <1>3, <2>1, <2>2, Zenon
  <2> QED
    BY <2>3
<1>6. /\ W \subseteq P
      /\ closed(W)
      /\ \A u \in W : Lost(d, u, B \cup W)
      /\ \A V \in SUBSET P : closed(V) => W \subseteq V
  BY <1>2, <1>3, <1>4, <1>5
<1> QED
  BY <1>6 DEF W

\* The same for the plan of a requeue.
LEMMA BlockedRule ==
    ASSUME NEW d, Good(d)
    PROVE  /\ Blocked(d) \subseteq StepsIn(d, {"pending", "cancelled"})
           /\ \A u \in StepsIn(d, {"pending", "cancelled"}) :
                Lost(d, u, StepsIn(d, {"dead_lettered"}) \cup Blocked(d)) => u \in Blocked(d)
           /\ \A u \in Blocked(d) : Lost(d, u, StepsIn(d, {"dead_lettered"}) \cup Blocked(d))
<1> DEFINE L == Blocked(d)
           Q == StepsIn(d, {"pending", "cancelled"})
           B == StepsIn(d, {"dead_lettered"})
<1>1. L = PlanWriteOff(d, Q, B) /\ Q \in SUBSET Steps
  BY DEF Blocked, StepsIn
<1> HIDE DEF L, Q, B
<1>2. /\ L \subseteq Q
      /\ \A u \in Q : Lost(d, u, B \cup L) => u \in L
      /\ \A u \in L : Lost(d, u, B \cup L)
  BY <1>1, WriteOffRule, Zenon
<1> QED
  BY <1>2 DEF L, Q, B

\* A set of open edges resolves: what is left open, and what has fired then.
LEMMA AfterCounts ==
    ASSUME NEW d, Good(d), NEW t \in Steps, NEW R \in SUBSET Edges, NEW F,
           \A e \in R : d.edge[e] = "unresolved"
    PROVE  /\ RemainingAfter(d, t, R) = 0 <=> OpenEdges(d, t) \subseteq R
           /\ FiredAfter(d, t, R, F) = 0 <=> FiredEdges(d, t) = {} /\ R \cap F \cap In(t) = {}
           /\ FiredAfter(d, t, R, F) >= 1 <=> FiredEdges(d, t) # {} \/ R \cap F \cap In(t) # {}
<1>1. /\ d.remaining[t] = Cardinality(OpenEdges(d, t))
      /\ d.fired[t] = Cardinality(FiredEdges(d, t))
  BY DEF Good, DepsOK
<1> DEFINE O == OpenEdges(d, t)
           D == FiredEdges(d, t)
           N == R \cap F \cap In(t)
<1>2. /\ IsFiniteSet(O) /\ IsFiniteSet(O \ R) /\ IsFiniteSet(D) /\ IsFiniteSet(N)
      /\ Cardinality(O) \in Nat /\ Cardinality(O \ R) \in Nat
      /\ Cardinality(D) \in Nat /\ Cardinality(N) \in Nat
  <2>1. O \in SUBSET Edges /\ O \ R \in SUBSET Edges /\ D \in SUBSET Edges /\ N \in SUBSET Edges
    BY DEF OpenEdges, FiredEdges, In
  <2> HIDE DEF O, D, N
  <2> QED
    BY <2>1, FiniteParts
<1>3. O \cap R = R \cap In(t)
  BY DEF OpenEdges, In
<1>4. Cardinality(O \ R) = Cardinality(O) - Cardinality(R \cap In(t))
  <2> HIDE DEF O
  <2>1. Cardinality(O \ R) = Cardinality(O) - Cardinality(O \cap R)
    BY <1>2, FS_Difference, Zenon
  <2> QED
    BY <1>3, <2>1
<1>5. /\ Cardinality(O \ R) = 0 <=> O \ R = {}
      /\ Cardinality(D) = 0 <=> D = {}
      /\ Cardinality(N) = 0 <=> N = {}
  BY <1>2, FS_EmptySet
<1>6. RemainingAfter(d, t, R) = Cardinality(O \ R)
  BY <1>1, <1>4 DEF RemainingAfter
<1>7. FiredAfter(d, t, R, F) = Cardinality(D) + Cardinality(N)
  BY <1>1 DEF FiredAfter
<1>8. O \ R = {} <=> O \subseteq R
  OBVIOUS
<1> HIDE DEF O, D, N
<1>9. RemainingAfter(d, t, R) = 0 <=> O \subseteq R
  BY <1>5, <1>6, <1>8
<1>10. /\ FiredAfter(d, t, R, F) = 0 <=> D = {} /\ N = {}
       /\ FiredAfter(d, t, R, F) >= 1 <=> D # {} \/ N # {}
  BY <1>2, <1>5, <1>7
<1> QED
  BY <1>9, <1>10 DEF O, D, N

\* What Skips and Readies say, on edges alone.
Barren(d, t, R, F) ==
    /\ d.step[t] = "pending" /\ R \cap In(t) # {} /\ OpenEdges(d, t) \subseteq R
    /\ FiredEdges(d, t) = {} /\ R \cap F \cap In(t) = {}

Ripe(d, t, R, F) ==
    /\ d.step[t] = "pending" /\ R \cap In(t) # {}
    /\ FiredEdges(d, t) # {} \/ R \cap F \cap In(t) # {}
    /\ OpenEdges(d, t) \subseteq R \/ t \in JoinAny

\* On good rows they agree.
LEMMA SkipsReadies ==
    ASSUME NEW d, Good(d), NEW t \in Steps, NEW R \in SUBSET Edges, NEW F,
           \A e \in R : d.edge[e] = "unresolved"
    PROVE  /\ Skips(d, t, R, F) <=> Barren(d, t, R, F)
           /\ Readies(d, t, R, F) <=> Ripe(d, t, R, F)
BY AfterCounts DEF Skips, Readies, Barren, Ripe

\* The edges that resolve with the skips are open edges of s and of K.
LEMMA ResolvedOpen ==
    ASSUME NEW d, NEW s, NEW K
    PROVE  /\ Resolved(d, s, K) \in SUBSET Edges
           /\ \A e \in Resolved(d, s, K) : d.edge[e] = "unresolved" /\ Src[e] \in {s} \cup K
           /\ \A e \in Edges : d.edge[e] = "unresolved" /\ Src[e] \in {s} \cup K
                                  => e \in Resolved(d, s, K)
BY DEF Resolved

\* More skips make more steps barren: only s itself fires edges.
LEMMA BarrenMonotone ==
    ASSUME NEW d, NEW s \in Steps, NEW F \in SUBSET Out(s), NEW K, NEW L, K \subseteq L,
           NEW t \in Steps, Barren(d, t, Resolved(d, s, K), F)
    PROVE  Barren(d, t, Resolved(d, s, L), F)
<1>1. Resolved(d, s, K) \subseteq Resolved(d, s, L)
  BY DEF Resolved
<1>2. Resolved(d, s, L) \cap F \subseteq Resolved(d, s, K)
  BY DEF Resolved, Out
<1> QED
  BY <1>1, <1>2 DEF Barren

\* fanOut's worklist: the skips are closed, each skipped step is barren because
\* of them, and every closed set contains them.
LEMMA SkipRule ==
    ASSUME NEW d, Good(d), NEW s \in Steps, NEW F \in SUBSET Out(s)
    PROVE  LET K == SkipSet(d, s, F)
               P == StepsIn(d, {"pending"})
           IN  /\ K \subseteq P
               /\ \A t \in P : Barren(d, t, Resolved(d, s, K), F) => t \in K
               /\ \A t \in K : Barren(d, t, Resolved(d, s, K), F)
               /\ \A L \in SUBSET P :
                    (\A t \in P : Barren(d, t, Resolved(d, s, L), F) => t \in L) => K \subseteq L
<1> DEFINE K == SkipSet(d, s, F)
           P == StepsIn(d, {"pending"})
           bar(t, L) == Barren(d, t, Resolved(d, s, L), F)
           closed(L) == \A t \in P : bar(t, L) => t \in L
<1>0. P \subseteq Steps
  BY DEF StepsIn
<1>1. K = {t \in P : \A L \in SUBSET P : closed(L) => t \in L}
  <2>1. ASSUME NEW L \in SUBSET P
        PROVE  SkipClosed(d, s, F, L) <=> closed(L)
    <3>1. ASSUME NEW t \in P PROVE Skips(d, t, Resolved(d, s, L), F) <=> bar(t, L)
      <4> DEFINE R == Resolved(d, s, L)
      <4>1. t \in Steps
        BY <1>0
      <4>2. R \in SUBSET Edges /\ \A e \in R : d.edge[e] = "unresolved"
        BY ResolvedOpen
      <4> HIDE DEF R
      <4>3. Skips(d, t, R, F) <=> Barren(d, t, R, F)
        BY <4>1, <4>2, SkipsReadies
      <4> QED
        BY <4>3 DEF R
    <3> QED
      BY <3>1 DEF SkipClosed
  <2> QED
    BY <2>1 DEF SkipSet
<1>m. ASSUME NEW t \in P, NEW L, NEW Y, L \subseteq Y, bar(t, L)
      PROVE  bar(t, Y)
  BY <1>0, <1>m, BarrenMonotone
<1> HIDE DEF K, P, bar
<1>2. K \subseteq P
  BY <1>1
<1>3. \A L \in SUBSET P : closed(L) => K \subseteq L
  BY <1>1
<1>4. closed(K)
  <2> SUFFICES ASSUME NEW t \in P, bar(t, K), NEW L \in SUBSET P, closed(L)
               PROVE  t \in L
    BY <1>1
  <2>1. bar(t, L)
    BY <1>3, <1>m
  <2> QED
    BY <2>1
<1>5. ASSUME NEW t \in K PROVE bar(t, K)
  <2> DEFINE L == {x \in K : bar(x, K)}
  <2>1. L \in SUBSET P /\ L \subseteq K
    BY <1>2
  <2>2. closed(L)
    <3> SUFFICES ASSUME NEW x \in P, bar(x, L) PROVE x \in L
      OBVIOUS
    <3> HIDE DEF L
    <3>1. bar(x, K)
      BY <2>1, <1>m
    <3>2. x \in K
      BY <3>1, <1>4
    <3> QED
      BY <3>1, <3>2 DEF L
  <2>3. K \subseteq L
    BY <1>3, <2>1, <2>2, Zenon
  <2> QED
    BY <2>3
<1> QED
  BY <1>2, <1>3, <1>4, <1>5 DEF K, P, bar

\* The steps the dead letters block stay blocked as long as they wait and the
\* edges from blocked sources stay open.
LEMMA BlockedPersists ==
    ASSUME NEW d, Good(d), NEW c, Good(c),
           StepsIn(d, {"dead_lettered"}) \subseteq StepsIn(c, {"dead_lettered"}),
           Blocked(d) \subseteq StepsIn(c, {"pending", "cancelled"}),
           \A e \in Edges : /\ d.edge[e] = "unresolved"
                            /\ Src[e] \in StepsIn(d, {"dead_lettered"}) \cup Blocked(d)
                            => c.edge[e] = "unresolved",
           \A e \in Edges : c.edge[e] = "unresolved" => d.edge[e] = "unresolved",
           \A u \in Blocked(d) \cap JoinAny : FiredEdges(c, u) = {}
    PROVE  Blocked(d) \subseteq Blocked(c)
<1> DEFINE L == Blocked(d)
           W == Blocked(c)
           P == StepsIn(d, {"pending", "cancelled"})
           Q == StepsIn(c, {"pending", "cancelled"})
           B == StepsIn(d, {"dead_lettered"})
           C == StepsIn(c, {"dead_lettered"})
<1>0. P \in SUBSET Steps /\ Q \in SUBSET Steps
  BY DEF StepsIn
<1>1. /\ L \subseteq P
      /\ \A u \in P : Lost(d, u, B \cup L) => u \in L
      /\ \A V \in SUBSET P : (\A u \in P : Lost(d, u, B \cup V) => u \in V) => L \subseteq V
  <2>1. L = PlanWriteOff(d, P, B)
    BY DEF Blocked
  <2> HIDE DEF L, P, B
  <2> QED
    BY <1>0, <2>1, WriteOffRule, Zenon
<1>2. \A u \in Q : Lost(c, u, C \cup W) => u \in W
  <2>1. W = PlanWriteOff(c, Q, C)
    BY DEF Blocked
  <2> HIDE DEF W, Q, C
  <2> QED
    BY <1>0, <2>1, WriteOffRule, Zenon
<1>3. ASSUME NEW u \in P, Lost(d, u, B \cup (L \cap W)) PROVE u \in L \cap W
  <2>1. Lost(d, u, B \cup L)
    <3>1. B \cup (L \cap W) \subseteq B \cup L
      OBVIOUS
    <3> QED
      BY <1>3, <3>1, LostMonotone
  <2>2. u \in L /\ u \in Q
    BY <1>1, <2>1
  <2>3. \A e \in OpenEdges(d, u) : Src[e] \in B \cup (L \cap W)
           => e \in OpenEdges(c, u) /\ Src[e] \in C \cup W
    BY DEF OpenEdges, In
  <2>4. OpenEdges(c, u) \subseteq OpenEdges(d, u)
    BY DEF OpenEdges, In
  <2>5. Lost(c, u, C \cup W)
    <3> HIDE DEF L, W, P, Q, B, C
    <3>1. CASE u \in JoinAny
      <4>1. FiredEdges(c, u) = {}
        BY <2>2, <3>1 DEF L
      <4> QED
        BY <1>3, <2>3, <2>4, <3>1, <4>1 DEF Lost
    <3>2. CASE u \notin JoinAny
      BY <1>3, <2>3, <3>2 DEF Lost
    <3> QED
      BY <3>1, <3>2
  <2> QED
    BY <1>2, <2>2, <2>5
<1>4. L \subseteq L \cap W
  <2> HIDE DEF L, W, P, B
  <2> QED
    BY <1>1, <1>3, Zenon
<1> QED
  BY <1>4

-----------------------------------------------------------------------------
(* Fan-out.                                                                *)

\* c is d with the steps of S moved to st; edges stay as they are.
Turned(d, c, S, st) ==
    /\ \A x \in Steps : c.step[x] = IF x \in S THEN st ELSE d.step[x]
    /\ c.edge = d.edge

\* c is b after the fan-out from s: skips K, resolved edges R, readied steps A.
Fanned(b, c, s, F, K, R, A) ==
    /\ K \subseteq StepsIn(b, {"pending"}) /\ A \subseteq StepsIn(b, {"pending"}) /\ K \cap A = {}
    /\ R = Resolved(b, s, K)
    /\ \A t \in K : Barren(b, t, R, F)
    /\ \A t \in StepsIn(b, {"pending"}) : Barren(b, t, R, F) => t \in K
    /\ \A t \in A : Ripe(b, t, R, F)
    /\ \A t \in StepsIn(b, {"pending"}) \ K : Ripe(b, t, R, F) => t \in A
    /\ \A L \in SUBSET StepsIn(b, {"pending"}) :
         (\A t \in StepsIn(b, {"pending"}) : Barren(b, t, Resolved(b, s, L), F) => t \in L)
            => K \subseteq L
    /\ \A t \in Steps : c.step[t] = IF t \in K THEN "skipped"
                                    ELSE IF t \in A THEN "ready" ELSE b.step[t]
    /\ \A e \in Edges : c.edge[e] = IF e \in R
                                    THEN IF e \in F THEN "fired" ELSE "skipped"
                                    ELSE b.edge[e]
    /\ c.dispatch = b.dispatch \cup A /\ c.run = b.run /\ c.approval = b.approval

\* FanOut does just that.
LEMMA FanOutFanned ==
    ASSUME NEW b, Good(b), NEW s \in Steps, NEW F \in SUBSET Out(s)
    PROVE  \E K, R, A : Fanned(b, FanOut(b, s, F), s, F, K, R, A)
<1> DEFINE K == SkipSet(b, s, F)
           R == Resolved(b, s, K)
           A == {t \in Steps : Readies(b, t, R, F)} \ K
           P == StepsIn(b, {"pending"})
           c == FanOut(b, s, F)
<1>0. P \subseteq Steps
  BY DEF StepsIn
<1>1. /\ K \subseteq P
      /\ \A t \in P : Barren(b, t, R, F) => t \in K
      /\ \A t \in K : Barren(b, t, R, F)
      /\ \A L \in SUBSET P :
           (\A t \in P : Barren(b, t, Resolved(b, s, L), F) => t \in L) => K \subseteq L
  BY SkipRule
<1>2. R \in SUBSET Edges /\ \A e \in R : b.edge[e] = "unresolved"
  BY ResolvedOpen
<1>3. c = ApplyResolution(b, R, F, K, A)
  BY DEF FanOut
<1>4. \A t \in Steps : Readies(b, t, R, F) <=> Ripe(b, t, R, F)
  <2> HIDE DEF R
  <2> QED
    BY <1>2, SkipsReadies
<1>5. /\ A \subseteq P /\ K \cap A = {}
      /\ \A t \in A : Ripe(b, t, R, F)
      /\ \A t \in P \ K : Ripe(b, t, R, F) => t \in A
  <2> HIDE DEF R, K
  <2>1. \A t \in A : t \in Steps /\ t \notin K /\ Ripe(b, t, R, F)
    BY <1>4
  <2>2. \A t \in A : t \in P
    BY <2>1 DEF Ripe, StepsIn
  <2>3. \A t \in P \ K : Ripe(b, t, R, F) => t \in A
    BY <1>0, <1>4
  <2> QED
    BY <2>1, <2>2, <2>3
<1>6. Applied(b, R, F, K, A, c)
  <2>1. K \in SUBSET Steps /\ A \in SUBSET Steps /\ b \in Rows
    BY <1>0, <1>1, <1>5 DEF Good
  <2> HIDE DEF K, R, A, c
  <2> QED
    BY <1>2, <1>3, <2>1, ApplyRows
<1>7. R = Resolved(b, s, K)
  OBVIOUS
<1> HIDE DEF K, R, A, c, P
<1>8. Fanned(b, c, s, F, K, R, A)
  BY <1>1, <1>5, <1>6, <1>7, Zenon DEF Fanned, Applied, P
<1> QED
  BY <1>8 DEF c

\* What the edges into t look like after a fan-out.
LEMMA FannedEdges ==
    ASSUME NEW b, NEW c, NEW s, NEW F, NEW K, NEW R, NEW A, Fanned(b, c, s, F, K, R, A),
           NEW t \in Steps
    PROVE  /\ OpenEdges(c, t) = OpenEdges(b, t) \ R
           /\ FiredEdges(c, t) = FiredEdges(b, t) \cup (R \cap F \cap In(t))
           /\ R \cap In(t) \subseteq OpenEdges(b, t)
<1>1. R \in SUBSET Edges /\ \A e \in R : b.edge[e] = "unresolved"
  BY ResolvedOpen DEF Fanned
<1>2. \A e \in Edges : c.edge[e] = IF e \in R THEN IF e \in F THEN "fired" ELSE "skipped"
                                   ELSE b.edge[e]
  BY DEF Fanned
<1> QED
  BY <1>1, <1>2 DEF OpenEdges, FiredEdges, In

\* A live step s settled as st with an output: the rows its fan-out starts from.
Settling(d, b, s, st) ==
    /\ Good(d) /\ Good(b) /\ Core(d) /\ ~Stopped(d)
    /\ d.step[s] \in Live
    /\ Turned(d, b, {s}, st)
    /\ b.run = d.run /\ b.dispatch = d.dispatch

\* A fan-out resolves edges with their sources.
LEMMA FanResolutions ==
    ASSUME NEW d, NEW b, NEW c, NEW s \in Steps, NEW st \in {"succeeded", "collected"},
           NEW F \in SUBSET Out(s), NEW K, NEW R, NEW A,
           Settling(d, b, s, st), Fanned(b, c, s, F, K, R, A)
    PROVE  Resolutions(c)
<1> SUFFICES ASSUME NEW e \in Edges
             PROVE  /\ c.edge[e] # "unresolved" => c.step[Src[e]] \in Done
                    /\ c.edge[e] = "fired" => c.step[Src[e]] # "skipped"
                    /\ c.step[Src[e]] \in Done => c.edge[e] # "unresolved" \/ Stopped(c)
  BY Zenon DEF Resolutions
<1> DEFINE x == Src[e]
<1>0. x \in Steps
  BY GraphAssumption
<1>1. /\ d.edge[e] # "unresolved" => d.step[x] \in Done
      /\ d.edge[e] = "fired" => d.step[x] # "skipped"
      /\ d.step[x] \in Done => d.edge[e] # "unresolved"
  BY DEF Settling, Core, Resolutions
<1>2. /\ b.step[x] = IF x = s THEN st ELSE d.step[x]
      /\ b.edge[e] = d.edge[e]
  BY <1>0 DEF Settling, Turned
<1>3. d.step[s] \notin Done \cup {"pending"} /\ st \in Done /\ st # "skipped"
  BY Zenon DEF Settling, Done, Live
<1>4. /\ x \in K \cup A => b.step[x] = "pending" /\ x # s
      /\ ~(x \in K /\ x \in A)
  BY <1>2, <1>3 DEF Fanned, StepsIn, Done
<1>5. e \in R <=> x \in {s} \cup K /\ b.edge[e] = "unresolved"
  BY DEF Fanned, Resolved
<1>6. e \in F => x = s
  BY DEF Out
<1>7. /\ c.step[x] = IF x \in K THEN "skipped" ELSE IF x \in A THEN "ready" ELSE b.step[x]
      /\ c.edge[e] = IF e \in R THEN IF e \in F THEN "fired" ELSE "skipped" ELSE b.edge[e]
  BY <1>0, Zenon DEF Fanned
<1>8. "pending" \notin Done /\ "ready" \notin Done /\ "skipped" \in Done
  BY DEF Done
<1> HIDE DEF x
<1> QED
  BY <1>1, <1>2, <1>3, <1>4, <1>5, <1>6, <1>7, <1>8, Zenon DEF x

\* A fan-out readies and skips with cause, and what still waits, waits for an edge.
LEMMA FanJustified ==
    ASSUME NEW d, NEW b, NEW c, NEW s \in Steps, NEW st \in {"succeeded", "collected"},
           NEW F \in SUBSET Out(s), NEW K, NEW R, NEW A,
           Settling(d, b, s, st), Fanned(b, c, s, F, K, R, A)
    PROVE  Justified(c) /\ Waiting(c)
<1> SUFFICES ASSUME NEW t \in Steps
             PROVE  /\ c.step[t] \notin {"pending", "cancelled", "skipped"} =>
                         \/ In(t) = {}
                         \/ FiredEdges(c, t) # {} /\ (OpenEdges(c, t) = {} \/ t \in JoinAny)
                    /\ c.step[t] = "skipped" => OpenEdges(c, t) = {} /\ FiredEdges(c, t) = {}
                    /\ c.step[t] = "pending" =>
                         OpenEdges(c, t) # {} /\ (t \in JoinAny => FiredEdges(c, t) = {})
  BY Zenon DEF Justified, Waiting
<1>1. /\ OpenEdges(c, t) = OpenEdges(b, t) \ R
      /\ FiredEdges(c, t) = FiredEdges(b, t) \cup (R \cap F \cap In(t))
      /\ R \cap In(t) \subseteq OpenEdges(b, t)
  BY FannedEdges
<1>2. /\ d.step[t] \notin {"pending", "cancelled", "skipped"} =>
           \/ In(t) = {}
           \/ FiredEdges(b, t) # {} /\ (OpenEdges(b, t) = {} \/ t \in JoinAny)
      /\ d.step[t] = "skipped" => OpenEdges(b, t) = {} /\ FiredEdges(b, t) = {}
      /\ d.step[t] = "pending" =>
           OpenEdges(b, t) # {} /\ (t \in JoinAny => FiredEdges(b, t) = {})
  <2>1. OpenEdges(b, t) = OpenEdges(d, t) /\ FiredEdges(b, t) = FiredEdges(d, t)
    BY Zenon DEF Settling, Turned, OpenEdges, FiredEdges
  <2> QED
    BY <2>1, Zenon DEF Settling, Core, Justified, Waiting
<1>3. /\ b.step[t] = IF t = s THEN st ELSE d.step[t]
      /\ d.step[s] \notin {"pending", "cancelled", "skipped"}
      /\ st \notin {"pending", "cancelled", "skipped"}
  BY DEF Settling, Turned, Live
<1>4. /\ c.step[t] = IF t \in K THEN "skipped" ELSE IF t \in A THEN "ready" ELSE b.step[t]
      /\ t \in K => b.step[t] = "pending" /\ Barren(b, t, R, F)
      /\ t \in A => b.step[t] = "pending" /\ Ripe(b, t, R, F) /\ t \notin K
      /\ b.step[t] = "pending" /\ Barren(b, t, R, F) => t \in K
      /\ b.step[t] = "pending" /\ Ripe(b, t, R, F) => t \in A \cup K
  BY Zenon DEF Fanned, StepsIn
<1>5. CASE t \in K
  BY <1>1, <1>4, <1>5, Zenon DEF Barren
<1>6. CASE t \in A
  BY <1>1, <1>4, <1>6, Zenon DEF Ripe
<1>7. CASE t \notin K \cup A /\ b.step[t] = "pending"
  <2>1. ~Barren(b, t, R, F) /\ ~Ripe(b, t, R, F) /\ d.step[t] = "pending"
    BY <1>3, <1>4, <1>7, Zenon
  <2>2. CASE R \cap In(t) = {}
    <3>1. OpenEdges(c, t) = OpenEdges(b, t)
      BY <1>1, <2>2 DEF OpenEdges
    <3> QED
      BY <1>1, <1>2, <1>4, <1>7, <2>1, <2>2, <3>1, Zenon
  <2>3. CASE R \cap In(t) # {}
    <3>1. ~(OpenEdges(b, t) \subseteq R)
      BY <1>7, <2>1, <2>3 DEF Barren, Ripe
    <3>2. t \in JoinAny => FiredEdges(c, t) = {}
      BY <1>1, <1>7, <2>1, <2>3 DEF Ripe
    <3> QED
      BY <1>1, <1>4, <1>7, <3>1, <3>2, Zenon
  <2> QED
    BY <2>2, <2>3, Zenon
<1>8. CASE t \notin K \cup A /\ b.step[t] # "pending"
  BY <1>1, <1>2, <1>3, <1>4, <1>8, Zenon
<1> QED
  BY <1>5, <1>6, <1>7, <1>8, Zenon

\* The skips K, the edges R and the readied steps A of a fan-out are none of
\* what the dead letters of d block.
Spares(d, K, R, A) ==
    /\ \A u \in Blocked(d) : u \notin K /\ u \notin A
    /\ \A e \in R : Src[e] \notin StepsIn(d, {"dead_lettered"}) \cup Blocked(d)

\* A fan-out neither readies nor skips a step that a dead letter blocks.
LEMMA FanSparesBlocked ==
    ASSUME NEW d, NEW b, NEW c, NEW s \in Steps, NEW st \in {"succeeded", "collected"},
           NEW F \in SUBSET Out(s), NEW K, NEW R, NEW A,
           Settling(d, b, s, st), Fanned(b, c, s, F, K, R, A)
    PROVE  Spares(d, K, R, A)
<1> DEFINE L == Blocked(d)
           B == StepsIn(d, {"dead_lettered"})
           P == StepsIn(b, {"pending"})
<1>1. L \subseteq StepsIn(d, {"pending", "cancelled"}) /\ \A u \in L : Lost(d, u, B \cup L)
  BY BlockedRule DEF Settling
<1>2. \A x \in Steps : b.step[x] = (IF x = s THEN st ELSE d.step[x])
  BY DEF Settling, Turned
<1>3. d.step[s] \notin {"pending", "cancelled", "dead_lettered"} /\ st # "pending"
  BY DEF Settling, Live
<1>4. s \notin B \cup L /\ \A x \in P : x \notin B
  BY <1>1, <1>2, <1>3 DEF StepsIn
<1>5. \A u \in Steps : OpenEdges(d, u) = OpenEdges(b, u)
  BY DEF Settling, Turned, OpenEdges
<1>6. /\ K \subseteq P /\ A \subseteq P /\ P \subseteq Steps
      /\ R = Resolved(b, s, K)
      /\ \A t \in P : Barren(b, t, R, F) => t \in K
      /\ \A t \in A : Ripe(b, t, R, F)
      /\ (\A t \in P : Barren(b, t, Resolved(b, s, K \ L), F) => t \in K \ L) => K \subseteq K \ L
  BY Zenon DEF Fanned, StepsIn
<1> HIDE DEF L, B, P
<1>7. ASSUME NEW t \in P, Barren(b, t, Resolved(b, s, K \ L), F) PROVE t \in K \ L
  <2>0. t \in Steps
    BY <1>6
  <2>1. t \in K
    <3>1. Barren(b, t, Resolved(b, s, K), F)
      BY <1>7, <2>0, BarrenMonotone
    <3> QED
      BY <1>6, <3>1
  <2>2. t \notin L
    <3> SUFFICES ASSUME t \in L PROVE FALSE
      OBVIOUS
    <3>1. PICK e \in OpenEdges(d, t) : Src[e] \in B \cup L
      <4>1. Lost(d, t, B \cup L)
        BY <1>1
      <4> QED
        BY <4>1 DEF Lost
    <3>2. e \in Resolved(b, s, K \ L)
      BY <1>5, <1>7, <2>0, Zenon DEF Barren
    <3>3. Src[e] \in {s} \cup (K \ L)
      BY <3>2, ResolvedOpen
    <3> QED
      BY <1>4, <1>6, <3>1, <3>3
  <2> QED
    BY <2>1, <2>2
<1>8. K \cap L = {}
  BY <1>6, <1>7
<1>9. \A e \in R : Src[e] \notin B \cup L
  <2> TAKE e \in R
  <2>1. Src[e] \in {s} \cup K
    BY <1>6, ResolvedOpen, Zenon
  <2> QED
    BY <1>4, <1>6, <1>8, <2>1
<1>10. A \cap L = {}
  <2> SUFFICES ASSUME NEW t \in A, t \in L PROVE FALSE
    OBVIOUS
  <2>0. t \in Steps /\ Ripe(b, t, R, F) /\ Lost(d, t, B \cup L)
    BY <1>1, <1>6
  <2>1. R \cap In(t) \subseteq OpenEdges(d, t)
    BY <1>5, <2>0, FannedEdges
  <2>2. CASE t \in JoinAny
    BY <1>9, <2>0, <2>1, <2>2, Zenon DEF Ripe, Lost
  <2>3. CASE t \notin JoinAny
    BY <1>5, <1>9, <2>0, <2>3, Zenon DEF Ripe, Lost
  <2> QED
    BY <2>2, <2>3
<1> QED
  BY <1>8, <1>9, <1>10, Zenon DEF L, B, Spares

\* So a fan-out leaves every written-off step blocked.
LEMMA FanCaused ==
    ASSUME NEW d, NEW b, NEW c, NEW s \in Steps, NEW st \in {"succeeded", "collected"},
           NEW F \in SUBSET Out(s), NEW K, NEW R, NEW A,
           Settling(d, b, s, st), Fanned(b, c, s, F, K, R, A), Good(c)
    PROVE  Caused(c)
<1> DEFINE L == Blocked(d)
           B == StepsIn(d, {"dead_lettered"})
<1>1. /\ \A u \in L : u \notin K /\ u \notin A
      /\ \A e \in R : Src[e] \notin B \cup L
  <2>1. Spares(d, K, R, A)
    BY FanSparesBlocked
  <2> QED
    BY <2>1 DEF Spares
<1>2. L \subseteq StepsIn(d, {"pending", "cancelled"}) /\ \A u \in L : Lost(d, u, B \cup L)
  BY BlockedRule DEF Settling
<1>3. /\ \A x \in Steps : b.step[x] = (IF x = s THEN st ELSE d.step[x])
      /\ d.step[s] \notin {"pending", "cancelled", "dead_lettered"}
      /\ st \notin {"pending", "cancelled", "dead_lettered"}
      /\ b.edge = d.edge
  BY DEF Settling, Turned, Live
<1>4. /\ \A x \in K \cup A : x \in Steps /\ b.step[x] = "pending"
      /\ \A x \in Steps : c.step[x] = IF x \in K THEN "skipped"
                                      ELSE IF x \in A THEN "ready" ELSE b.step[x]
      /\ \A e \in Edges : c.edge[e] = IF e \in R THEN IF e \in F THEN "fired" ELSE "skipped"
                                      ELSE b.edge[e]
      /\ \A e \in R : b.edge[e] = "unresolved"
  BY ResolvedOpen, Zenon DEF Fanned, StepsIn
<1>5. L \subseteq StepsIn(c, {"pending", "cancelled"})
  BY <1>1, <1>2, <1>3, <1>4 DEF StepsIn
<1>6. B \subseteq StepsIn(c, {"dead_lettered"})
  BY <1>3, <1>4, Zenon DEF StepsIn
<1>7. StepsIn(c, {"cancelled"}) = StepsIn(d, {"cancelled"})
  BY <1>3, <1>4, SMTT(30) DEF StepsIn
<1>8. \A e \in Edges : d.edge[e] = "unresolved" /\ Src[e] \in B \cup L => c.edge[e] = "unresolved"
  BY <1>1, <1>3, <1>4
<1>9. \A e \in Edges : c.edge[e] = "unresolved" => d.edge[e] = "unresolved"
  BY <1>3, <1>4, Zenon
<1>10. \A u \in L \cap JoinAny : FiredEdges(c, u) = {}
  <2> TAKE u \in L \cap JoinAny
  <2>0. u \in Steps
    BY <1>2, Zenon DEF StepsIn
  <2>1. /\ FiredEdges(c, u) = FiredEdges(b, u) \cup (R \cap F \cap In(u))
        /\ R \cap In(u) \subseteq OpenEdges(b, u)
    BY <2>0, FannedEdges
  <2>2. FiredEdges(b, u) = FiredEdges(d, u) /\ OpenEdges(b, u) = OpenEdges(d, u)
    BY <1>3, Zenon DEF FiredEdges, OpenEdges
  <2>3. FiredEdges(d, u) = {} /\ \A e \in OpenEdges(d, u) : Src[e] \in B \cup L
    BY <1>2 DEF Lost
  <2>4. R \cap In(u) = {}
    BY <1>1, <2>1, <2>2, <2>3
  <2> QED
    BY <2>1, <2>2, <2>3, <2>4
<1>11. L \subseteq Blocked(c)
  BY <1>5, <1>6, <1>8, <1>9, <1>10, BlockedPersists, Zenon DEF Settling
<1> QED
  BY <1>7, <1>11 DEF Settling, Core, Caused

\* The fan-out of a settled step keeps the core of the invariant, and moves
\* nothing that was settled but the step itself.
LEMMA FanCore ==
    ASSUME NEW d, NEW b, NEW s \in Steps, NEW st \in {"succeeded", "collected"},
           NEW F \in SUBSET Out(s), Settling(d, b, s, st), Gated(b), Freed(d)
    PROVE  LET c == FanOut(b, s, F)
           IN  /\ Good(c) /\ Core(c) /\ Gated(c) /\ Freed(c)
               /\ c.run = d.run /\ c.approval = b.approval
               /\ \A x \in Steps : d.step[x] \in Settled => c.step[x] = d.step[x]
               /\ \A e \in Edges : d.edge[e] # "unresolved" => c.edge[e] = d.edge[e]
<1> DEFINE c == FanOut(b, s, F)
<1>1. Good(c)
  BY FanOutGood DEF Settling
<1>2. PICK K, R, A : Fanned(b, c, s, F, K, R, A)
  BY FanOutFanned DEF Settling
<1> HIDE DEF c
<1>3. Resolutions(c) /\ Justified(c) /\ Waiting(c) /\ Caused(c)
  BY <1>1, <1>2, FanResolutions, FanJustified, FanCaused, Zenon
<1>4. /\ \A x \in K \cup A : x \in Steps /\ b.step[x] = "pending"
      /\ \A x \in Steps : c.step[x] = IF x \in K THEN "skipped"
                                      ELSE IF x \in A THEN "ready" ELSE b.step[x]
      /\ c.dispatch = b.dispatch \cup A /\ c.run = b.run /\ c.approval = b.approval
  BY <1>2, Zenon DEF Fanned, StepsIn
<1>5. /\ \A x \in Steps : b.step[x] = (IF x = s THEN st ELSE d.step[x])
      /\ b.run = d.run /\ b.dispatch = d.dispatch /\ b.edge = d.edge
      /\ d.step[s] \notin {"pending", "cancelled"} /\ d.step[s] \notin Settled
      /\ st \notin {"pending", "cancelled"}
      /\ d.dispatch \in SUBSET Steps
  BY DEF Settling, Turned, Live, Settled, Good, Rows
<1>6. \A x \in d.dispatch : d.step[x] # "pending" /\ d.step[x] # "cancelled"
  BY Zenon DEF Settling, Core, Announced
<1>7. Announced(c)
  BY <1>4, <1>5, <1>6, SMTT(30) DEF Announced
<1>8. Gated(c)
  BY <1>4 DEF Gated
<1>9. \A x \in Steps : d.step[x] \in Settled => c.step[x] = d.step[x]
  <2>1. "pending" \notin Settled
    BY DEF Settled
  <2> QED
    BY <1>4, <1>5, <2>1, SMTT(30)
<1>10. \A e \in Edges : d.edge[e] # "unresolved" => c.edge[e] = d.edge[e]
  <2>1. \A e \in R : b.edge[e] = "unresolved"
    BY <1>2, ResolvedOpen, Zenon DEF Fanned
  <2> QED
    BY <1>2, <1>5, <2>1, ZenonT(40) DEF Fanned
<1>11. Freed(c)
  <2> SUFFICES ASSUME OnFailure # "fail_fast", NEW t \in Steps \ JoinAny, c.step[t] = "pending",
                      NEW e \in OpenEdges(c, t)
               PROVE  c.step[Src[e]] \notin {"dead_lettered", "cancelled"}
    BY Zenon DEF Freed
  <2>1. d.step[t] = "pending" /\ ~Stopped(d)
    BY <1>4, <1>5, Zenon DEF Settling
  <2>2. Src[e] \in Steps /\ e \in OpenEdges(d, t)
    BY <1>10, GraphAssumption, Zenon DEF OpenEdges, In
  <2>3. d.step[Src[e]] \notin {"dead_lettered", "cancelled"}
    BY <2>1, <2>2, Zenon DEF Freed
  <2>4. c.step[Src[e]] \in {"skipped", "ready", b.step[Src[e]]}
    BY <1>4, <2>2, Zenon
  <2>5. b.step[Src[e]] \in {st, d.step[Src[e]]}
    BY <1>5, <2>2, Zenon
  <2> QED
    BY <2>3, <2>4, <2>5
<1> QED
  BY <1>1, <1>3, <1>4, <1>5, <1>7, <1>8, <1>9, <1>10, <1>11, Zenon DEF Core, c

-----------------------------------------------------------------------------
(* Rollups.                                                                *)

\* Freed reads the step and edge rows only.
LEMMA FreedFrame ==
    ASSUME NEW d, NEW c, Freed(d), c.step = d.step, c.edge = d.edge, Stopped(c) <=> Stopped(d)
    PROVE  Freed(c)
<1>1. \A t : OpenEdges(c, t) = OpenEdges(d, t)
  BY DEF OpenEdges
<1> QED
  BY <1>1 DEF Freed

\* The aggregates of the statuses T together count the steps in T.
LEMMA SumCounts ==
    ASSUME NEW d, Good(d), NEW T \in SUBSET Settled
    PROVE  Sum(d, T) = Cardinality(StepsIn(d, T))
<1> DEFINE N(t) == StepsIn(d, {t} \cap T)
           A == N("succeeded")
           B == A \cup N("skipped")
           C == B \cup N("dead_lettered")
           D == C \cup N("cancelled")
<1>0. \A t \in Settled : IsFiniteSet(N(t)) /\ Cardinality(N(t)) \in Nat
  BY FiniteParts DEF StepsIn
<1>1. ASSUME NEW t \in Settled
      PROVE  (IF t \in T THEN d.counters[t] ELSE 0) = Cardinality(N(t))
  <2>1. CASE t \in T
    <3>1. {t} \cap T = {t}
      BY <2>1
    <3> QED
      BY <2>1, <3>1 DEF Good, CountsOK
  <2>2. CASE t \notin T
    <3>1. N(t) = {}
      BY <2>2 DEF StepsIn
    <3> QED
      BY <2>2, <3>1, FS_EmptySet
  <2> QED
    BY <2>1, <2>2
<1>2. {"succeeded", "skipped", "dead_lettered", "cancelled", "collected"} = Settled
  BY DEF Settled
<1>3. /\ A \cap N("skipped") = {} /\ B \cap N("dead_lettered") = {}
      /\ C \cap N("cancelled") = {} /\ D \cap N("collected") = {}
  BY DEF StepsIn
<1>4. D \cup N("collected") = StepsIn(d, T)
  BY Zenon DEF StepsIn, Settled
<1>5. IsFiniteSet(A) /\ IsFiniteSet(B) /\ IsFiniteSet(C) /\ IsFiniteSet(D)
  BY FiniteParts DEF StepsIn
<1>6. Sum(d, T) = Cardinality(N("succeeded")) + Cardinality(N("skipped"))
                    + Cardinality(N("dead_lettered")) + Cardinality(N("cancelled"))
                    + Cardinality(N("collected"))
  <2> HIDE DEF N
  <2> QED
    BY <1>1, <1>2 DEF Sum
<1> HIDE DEF N
<1>7. Cardinality(B) = Cardinality(A) + Cardinality(N("skipped"))
  BY <1>0, <1>2, <1>3, <1>5, CardDisjoint
<1> HIDE DEF B
<1>8. Cardinality(C) = Cardinality(B) + Cardinality(N("dead_lettered"))
  BY <1>0, <1>2, <1>3, <1>5, CardDisjoint
<1> HIDE DEF C
<1>9. Cardinality(D) = Cardinality(C) + Cardinality(N("cancelled"))
  BY <1>0, <1>2, <1>3, <1>5, CardDisjoint
<1> HIDE DEF D
<1>10. Cardinality(StepsIn(d, T)) = Cardinality(D) + Cardinality(N("collected"))
  BY <1>0, <1>2, <1>3, <1>4, <1>5, CardDisjoint
<1> QED
  BY <1>0, <1>2, <1>6, <1>7, <1>8, <1>9, <1>10

\* So the guards of the rollups, which read only the aggregates, judge the steps.
LEMMA SumFull ==
    ASSUME NEW d, Good(d), NEW T \in SUBSET Settled
    PROVE  Sum(d, T) = Cardinality(Steps) <=> \A s \in Steps : d.step[s] \in T
<1>1. StepsIn(d, T) \in SUBSET Steps
  BY DEF StepsIn
<1>2. Sum(d, T) = Cardinality(Steps) <=> StepsIn(d, T) = Steps
  BY <1>1, SumCounts, FS_Subset, GraphAssumption
<1> QED
  BY <1>2 DEF StepsIn

\* A dead letter is counted exactly when there is one.
LEMMA DeadCount ==
    ASSUME NEW d, Good(d)
    PROVE  /\ d.counters["dead_lettered"] = 0 <=> \A s \in Steps : d.step[s] # "dead_lettered"
           /\ d.counters["dead_lettered"] >= 1 <=> \E s \in Steps : d.step[s] = "dead_lettered"
<1> DEFINE S == StepsIn(d, {"dead_lettered"})
<1>1. d.counters["dead_lettered"] = Cardinality(S)
  BY DEF Good, CountsOK, Settled
<1>2. IsFiniteSet(S) /\ Cardinality(S) \in Nat
  BY FiniteParts DEF StepsIn
<1>3. Cardinality(S) = 0 <=> S = {}
  BY <1>2, FS_EmptySet
<1>4. S = {} <=> \A s \in Steps : d.step[s] # "dead_lettered"
  BY DEF StepsIn
<1> HIDE DEF S
<1> QED
  BY <1>1, <1>2, <1>3, <1>4

\* What a change of the run status alone leaves as it is.
LEMMA SetRunColumns ==
    ASSUME NEW d \in Rows, NEW r
    PROVE  /\ SetRun(d, r).run = r
           /\ SetRun(d, r).step = d.step /\ SetRun(d, r).edge = d.edge
           /\ SetRun(d, r).fired = d.fired
           /\ SetRun(d, r).approval = d.approval /\ SetRun(d, r).dispatch = d.dispatch
BY DEF SetRun, Rows

\* Rows that agree on steps, edges and announcements and on whether a cancel
\* stopped them are equally sound, up to their verdict.
LEMMA CoreFrame ==
    ASSUME NEW d, NEW c, Core(d), Gated(d),
           c.step = d.step, c.edge = d.edge, c.fired = d.fired,
           c.approval = d.approval, c.dispatch = d.dispatch,
           Stopped(c) <=> Stopped(d)
    PROVE  Core(c) /\ Gated(c)
<1>1. /\ \A s : OpenEdges(c, s) = OpenEdges(d, s) /\ FiredEdges(c, s) = FiredEdges(d, s)
      /\ \A T : StepsIn(c, T) = StepsIn(d, T)
  BY DEF OpenEdges, FiredEdges, StepsIn
<1>2. Resolutions(c)
  BY Zenon DEF Core, Resolutions
<1>3. Justified(c) /\ Waiting(c)
  BY <1>1, Zenon DEF Core, Justified, Waiting
<1>4. Announced(c) /\ Gated(c)
  BY Zenon DEF Core, Announced, Gated
<1>5. Blocked(c) = Blocked(d)
  <2>1. \A t, B : Impossible(c, t, B) <=> Impossible(d, t, B)
    BY Zenon DEF Impossible
  <2> QED
    BY <1>1, <2>1 DEF Blocked, PlanWriteOff
<1>6. Caused(c)
  BY <1>1, <1>5 DEF Core, Caused
<1> QED
  BY <1>2, <1>3, <1>4, <1>6 DEF Core

\* Where nothing is dead-lettered nothing is blocked, so nothing is written off.
LEMMA NoDeadNoWriteOff ==
    ASSUME NEW d, Good(d), \A s \in Steps : d.step[s] # "dead_lettered"
    PROVE  Blocked(d) = {}
<1> DEFINE P == StepsIn(d, {"pending", "cancelled"})
<1>1. StepsIn(d, {"dead_lettered"}) = {} /\ P \in SUBSET Steps
  BY DEF StepsIn
<1>2. Blocked(d) = PlanWriteOff(d, P, {})
  BY <1>1 DEF Blocked
<1>3. \A u \in P : ~Lost(d, u, {} \cup {})
  BY DEF Lost
<1>4. {} \in SUBSET P
  OBVIOUS
<1> HIDE DEF P
<1>5. PlanWriteOff(d, P, {}) \subseteq {}
  BY <1>1, <1>3, <1>4, WriteOffRule, Zenon
<1> QED
  BY <1>2, <1>5

\* attemptRunRollup after a fan-out: it closes the run when the last step has
\* settled, and then the verdict is the steps'.
LEMMA RunRollupSound ==
    ASSUME NEW d, Good(d), Core(d), Gated(d), Freed(d), VerdictOK(d), ~Stopped(d)
    PROVE  LET c == AttemptRunRollup(d)
           IN  /\ Sound(c)
               /\ c.step = d.step /\ c.edge = d.edge /\ c.approval = d.approval
               /\ d.run \in {"succeeded", "cancelled"} => c.run = d.run
<1> DEFINE c == AttemptRunRollup(d)
<1>0. d \in Rows
  BY DEF Good
<1>1. /\ Sum(d, Settled) = Cardinality(Steps) <=> \A s \in Steps : d.step[s] \in Settled
      /\ Sum(d, {"succeeded", "skipped", "collected"}) = Cardinality(Steps)
            <=> \A s \in Steps : d.step[s] \in {"succeeded", "skipped", "collected"}
  <2>1. {"succeeded", "skipped", "collected"} \subseteq Settled
    BY DEF Settled
  <2> QED
    BY <2>1, SumFull, Zenon
<1>2. d.run # "cancelling" /\ d.run # "cancelled"
  BY DEF Stopped
<1>3. CASE SucceedRunGuard(d)
  <2>1. c = SetRun(d, "succeeded")
    BY <1>3 DEF AttemptRunRollup
  <2>2. Core(c) /\ Gated(c) /\ c.step = d.step /\ c.edge = d.edge
           /\ c.approval = d.approval /\ c.run = "succeeded"
    <3> HIDE DEF c
    <3>1. /\ c.step = d.step /\ c.edge = d.edge /\ c.fired = d.fired
          /\ c.approval = d.approval /\ c.dispatch = d.dispatch /\ c.run = "succeeded"
      BY <1>0, <2>1, SetRunColumns
    <3>2. Stopped(c) <=> Stopped(d)
      BY <1>2, <3>1 DEF Stopped
    <3> QED
      BY <3>1, <3>2, CoreFrame
  <2>3. \A s \in Steps : d.step[s] \in {"succeeded", "skipped", "collected"}
    BY <1>1, <1>3 DEF SucceedRunGuard
  <2> HIDE DEF c
  <2>4. Concluded(c)
    BY <2>2, <2>3 DEF Concluded, VerdictOK, Done, Open
  <2>5. Open(d)
    BY <1>3 DEF SucceedRunGuard
  <2>6. Freed(c)
    BY <1>2, <2>2, FreedFrame DEF Stopped
  <2> QED
    BY <2>2, <2>4, <2>5, <2>6 DEF Sound, c, Open
<1>4. CASE ~SucceedRunGuard(d) /\ FailRunRollupGuard(d)
  <2>1. c = SetRun(d, "failed")
    BY <1>4 DEF AttemptRunRollup
  <2>2. Core(c) /\ Gated(c) /\ c.step = d.step /\ c.edge = d.edge
           /\ c.approval = d.approval /\ c.run = "failed"
    <3> HIDE DEF c
    <3>1. /\ c.step = d.step /\ c.edge = d.edge /\ c.fired = d.fired
          /\ c.approval = d.approval /\ c.dispatch = d.dispatch /\ c.run = "failed"
      BY <1>0, <2>1, SetRunColumns
    <3>2. Stopped(c) <=> Stopped(d)
      BY <1>2, <3>1 DEF Stopped
    <3> QED
      BY <3>1, <3>2, CoreFrame
  <2>3. /\ \A s \in Steps : d.step[s] \in Settled
        /\ \E s \in Steps : d.step[s] = "dead_lettered"
    BY <1>1, <1>4, DeadCount DEF FailRunRollupGuard
  <2> HIDE DEF c
  <2>4. Concluded(c)
    BY <2>2, <2>3 DEF Concluded, VerdictOK, Open
  <2>5. Open(d)
    BY <1>4 DEF FailRunRollupGuard
  <2>6. Freed(c)
    BY <1>2, <2>2, FreedFrame DEF Stopped
  <2> QED
    BY <2>2, <2>4, <2>5, <2>6 DEF Sound, c, Open
<1>5. CASE ~SucceedRunGuard(d) /\ ~FailRunRollupGuard(d)
  <2>1. c = d
    BY <1>2, <1>5 DEF AttemptRunRollup, AttemptCancelRollup, CancelRunRollupGuard
  <2>2. ASSUME Open(d), \A s \in Steps : d.step[s] \in Settled PROVE FALSE
    <3>1. ~(d.counters["dead_lettered"] >= 1)
      BY <1>1, <1>5, <2>2 DEF FailRunRollupGuard
    <3>2. \A s \in Steps : d.step[s] # "dead_lettered"
      BY <3>1, DeadCount
    <3>3. StepsIn(d, {"cancelled"}) = {}
      BY <3>2, NoDeadNoWriteOff DEF Core, Caused
    <3>4. \A s \in Steps : d.step[s] \in {"succeeded", "skipped", "collected"}
      BY <2>2, <3>2, <3>3 DEF StepsIn, Settled
    <3>5. d.counters["dead_lettered"] = 0
      BY <3>2, DeadCount
    <3> QED
      BY <1>1, <1>5, <2>2, <3>4, <3>5 DEF SucceedRunGuard
  <2>3. Concluded(d)
    BY <1>2, <2>2 DEF Concluded
  <2> QED
    BY <2>1, <2>3 DEF Sound
<1> QED
  BY <1>3, <1>4, <1>5, Zenon

\* attemptCancelRollup closes a cancelling run with its last running step.
LEMMA CancelRollupSound ==
    ASSUME NEW d, Good(d), Core(d), Gated(d), d.run = "cancelling",
           \A s \in Steps : d.step[s] \in Settled \cup {"running"}
    PROVE  LET c == AttemptCancelRollup(d)
           IN  /\ Sound(c)
               /\ c.step = d.step /\ c.edge = d.edge /\ c.approval = d.approval
<1> DEFINE c == AttemptCancelRollup(d)
<1>0. d \in Rows
  BY DEF Good
<1>1. Sum(d, Settled) = Cardinality(Steps) <=> \A s \in Steps : d.step[s] \in Settled
  BY SumFull
<1>2. CASE CancelRunRollupGuard(d)
  <2>1. c = SetRun(d, "cancelled")
    BY <1>2 DEF AttemptCancelRollup
  <2> HIDE DEF c
  <2>2. /\ c.step = d.step /\ c.edge = d.edge /\ c.fired = d.fired
        /\ c.approval = d.approval /\ c.dispatch = d.dispatch /\ c.run = "cancelled"
    BY <1>0, <2>1, SetRunColumns
  <2>3. Core(c) /\ Gated(c)
    BY <2>2, CoreFrame DEF Stopped
  <2>4. \A s \in Steps : d.step[s] \in Settled
    BY <1>1, <1>2 DEF CancelRunRollupGuard
  <2>5. Concluded(c)
    BY <2>2, <2>4 DEF Concluded, VerdictOK, Open
  <2> QED
    BY <2>2, <2>3, <2>5 DEF Sound, Freed, Stopped, c
<1>3. CASE ~CancelRunRollupGuard(d)
  <2>1. c = d
    BY <1>3 DEF AttemptCancelRollup
  <2>2. \E s \in Steps : d.step[s] = "running"
    BY <1>1, <1>3 DEF CancelRunRollupGuard
  <2>3. Concluded(d)
    BY <2>2 DEF Concluded, VerdictOK, Open
  <2> QED
    BY <2>1, <2>3 DEF Sound, Freed, Stopped
<1> QED
  BY <1>2, <1>3

-----------------------------------------------------------------------------
(* Dead letters and the write-off.                                         *)

\* What SetStatus and Settle leave in the columns the invariant reads.
LEMMA SettleColumns ==
    ASSUME NEW d \in Rows, NEW S \in SUBSET Steps, NEW st \in StepStatus
    PROVE  /\ Turned(d, SetStatus(d, S, st), S, st)
           /\ SetStatus(d, S, st).fired = d.fired
           /\ SetStatus(d, S, st).run = d.run
           /\ SetStatus(d, S, st).approval = d.approval
           /\ SetStatus(d, S, st).dispatch = d.dispatch
           /\ st \in Settled =>
                /\ Turned(d, Settle(d, S, st), S, st)
                /\ Settle(d, S, st).fired = d.fired
                /\ Settle(d, S, st).run = d.run
                /\ Settle(d, S, st).approval = d.approval
                /\ Settle(d, S, st).dispatch = d.dispatch
<1> DEFINE b == SetStatus(d, S, st)
           n == [b.counters EXCEPT ![st] = @ + Cardinality(S)]
           c == Settle(d, S, st)
<1>1. /\ b \in Rows
      /\ Turned(d, b, S, st) /\ b.fired = d.fired /\ b.run = d.run
      /\ b.approval = d.approval /\ b.dispatch = d.dispatch
  <2>1. b \in Rows /\ Turned(d, b, S, st) /\ b.fired = d.fired
    <3>1. /\ b \in Rows /\ b.fired = d.fired /\ b.edge = d.edge
          /\ \A x \in Steps : b.step[x] = IF x \in S THEN st ELSE d.step[x]
      BY SetStatusRows
    <3> HIDE DEF b
    <3> QED
      BY <3>1 DEF Turned
  <2>2. b.run = d.run /\ b.approval = d.approval /\ b.dispatch = d.dispatch
    BY DEF SetStatus, Rows
  <2> QED
    BY <2>1, <2>2
<1>2. c = [b EXCEPT !.counters = n]
  BY DEF Settle
<1> HIDE DEF b, n, c
<1>3. /\ c.step = b.step /\ c.edge = b.edge /\ c.fired = b.fired /\ c.run = b.run
      /\ c.approval = b.approval /\ c.dispatch = b.dispatch
  BY <1>1, <1>2 DEF Rows
<1> QED
  BY <1>1, <1>3 DEF b, c, Turned

\* Likewise for the sweep of CancelSteps.
LEMMA CancelStepsColumns ==
    ASSUME NEW d \in Rows, NEW S \in SUBSET Steps
    PROVE  LET c == CancelSteps(d, S)
           IN  /\ Turned(d, c, S, "cancelled") /\ c.fired = d.fired /\ c.run = d.run
               /\ c.approval = d.approval /\ c.dispatch = d.dispatch
<1> DEFINE b == Settle(d, S, "cancelled")
           u == b.due \ S
           c == CancelSteps(d, S)
<1>1. /\ Turned(d, b, S, "cancelled") /\ b.fired = d.fired /\ b.run = d.run
      /\ b.approval = d.approval /\ b.dispatch = d.dispatch
  BY SettleColumns DEF StepStatus, Settled
<1>2. b = [SetStatus(d, S, "cancelled") EXCEPT !.counters["cancelled"] = @ + Cardinality(S)]
  BY DEF Settle
<1>3. c = [b EXCEPT !.due = u]
  BY DEF CancelSteps
<1>4. /\ c.step = b.step /\ c.edge = b.edge /\ c.fired = b.fired /\ c.run = b.run
      /\ c.approval = b.approval /\ c.dispatch = b.dispatch
  <2> DEFINE n == [SetStatus(d, S, "cancelled").counters EXCEPT !["cancelled"] = @ + Cardinality(S)]
  <2>1. b = [SetStatus(d, S, "cancelled") EXCEPT !.counters = n]
    BY <1>2
  <2>2. SetStatus(d, S, "cancelled") \in Rows
    BY SetStatusRows DEF StepStatus, Settled
  <2> HIDE DEF b, c, u, n
  <2> QED
    BY <1>3, <2>1, <2>2 DEF Rows
<1> HIDE DEF b, c
<1> QED
  BY <1>1, <1>4 DEF c, Turned

\* The write-off of planWriteOff cancels pending steps that the dead letters block.
LEMMA WriteOffBlocked ==
    ASSUME NEW d, Good(d), Core(d), ~Stopped(d)
    PROVE  WriteOff(d) \subseteq Blocked(d) /\ WriteOff(d) \subseteq StepsIn(d, {"pending"})
<1> DEFINE L == Blocked(d)
           B == StepsIn(d, {"dead_lettered"})
           Q == StepsIn(d, {"pending", "cancelled"})
           P == StepsIn(d, {"pending"})
           C == StepsIn(d, {"dead_lettered", "cancelled"})
           V == L \cap P
<1>1. P \in SUBSET Steps /\ Q \in SUBSET Steps /\ P \subseteq Q
  BY DEF StepsIn
<1>2. C \subseteq B \cup L
  BY DEF StepsIn, Core, Caused
<1>3. \A u \in Q : Lost(d, u, B \cup L) => u \in L
  <2>1. L = PlanWriteOff(d, Q, B)
    BY DEF Blocked
  <2> HIDE DEF L, Q, B
  <2> QED
    BY <1>1, <2>1, WriteOffRule, Zenon
<1>4. WriteOff(d) = PlanWriteOff(d, P, C)
  BY DEF WriteOff
<1> HIDE DEF L, B, Q, P, C
<1>5. ASSUME NEW u \in P, Lost(d, u, C \cup V) PROVE u \in V
  <2>1. C \cup V \subseteq B \cup L
    BY <1>2
  <2>2. Lost(d, u, B \cup L)
    <3> HIDE DEF V
    <3> QED
      BY <1>5, <2>1, LostMonotone
  <2> QED
    BY <1>1, <1>3, <2>2
<1>6. V \in SUBSET P
  OBVIOUS
<1>7. PlanWriteOff(d, P, C) \subseteq V /\ PlanWriteOff(d, P, C) \subseteq P
  <2> HIDE DEF V
  <2> QED
    BY <1>1, <1>5, <1>6, WriteOffRule, Zenon
<1> QED
  BY <1>4, <1>7 DEF L, P

\* Writing off keeps the core of the invariant.
LEMMA WriteOffCore ==
    ASSUME NEW d, Good(d), Core(d), Gated(d), ~Stopped(d)
    PROVE  LET c == CancelSteps(d, WriteOff(d))
           IN  /\ Good(c) /\ Core(c) /\ Gated(c) /\ c.run = d.run /\ c.approval = d.approval
               /\ Turned(d, c, WriteOff(d), "cancelled")
               /\ WriteOff(d) \subseteq StepsIn(d, {"pending"})
<1> DEFINE W == WriteOff(d)
           c == CancelSteps(d, W)
<1>1. W \subseteq Blocked(d) /\ W \subseteq StepsIn(d, {"pending"})
  BY WriteOffBlocked
<1>2. W \in SUBSET Steps /\ d \in Rows
  BY <1>1 DEF StepsIn, Good
<1> HIDE DEF W
<1>3. Good(c)
  BY <1>1, <1>2, SweepGood DEF StepsIn, Settled
<1>4. /\ Turned(d, c, W, "cancelled") /\ c.fired = d.fired /\ c.run = d.run
      /\ c.approval = d.approval /\ c.dispatch = d.dispatch
  BY <1>2, CancelStepsColumns
<1> HIDE DEF c
<1>5. /\ \A x \in Steps : c.step[x] = IF x \in W THEN "cancelled" ELSE d.step[x]
      /\ c.edge = d.edge
      /\ \A x \in W : x \in Steps /\ d.step[x] = "pending"
  BY <1>1, <1>4 DEF Turned, StepsIn
<1>6. /\ \A s : OpenEdges(c, s) = OpenEdges(d, s) /\ FiredEdges(c, s) = FiredEdges(d, s)
  BY <1>5 DEF OpenEdges, FiredEdges
<1>7. Resolutions(c)
  <2>1. "pending" \notin Done /\ "cancelled" \notin Done
    BY DEF Done
  <2>2. \A e \in Edges : Src[e] \in Steps
    BY GraphAssumption
  <2> QED
    BY <1>4, <1>5, <2>1, <2>2, Zenon DEF Core, Resolutions, Stopped
<1>8. Justified(c) /\ Waiting(c)
  BY <1>5, <1>6, Zenon DEF Core, Justified, Waiting
<1>9. Announced(c)
  BY <1>2, <1>4, <1>5, Zenon DEF Core, Announced, Stopped, Rows
<1>10. Gated(c)
  BY <1>4, <1>5 DEF Gated
<1>11. Caused(c)
  <2>1. StepsIn(c, {"pending", "cancelled"}) = StepsIn(d, {"pending", "cancelled"})
    BY <1>5 DEF StepsIn
  <2>2. StepsIn(c, {"dead_lettered"}) = StepsIn(d, {"dead_lettered"})
    BY <1>5 DEF StepsIn
  <2>3. \A t, B : Impossible(c, t, B) <=> Impossible(d, t, B)
    BY <1>4, <1>5 DEF Impossible
  <2>4. Blocked(c) = Blocked(d)
    BY <2>1, <2>2, <2>3 DEF Blocked, PlanWriteOff
  <2>5. StepsIn(c, {"cancelled"}) \subseteq StepsIn(d, {"cancelled"}) \cup W
    BY <1>5 DEF StepsIn
  <2> QED
    BY <1>1, <2>4, <2>5 DEF Core, Caused
<1> QED
  BY <1>1, <1>3, <1>4, <1>7, <1>8, <1>9, <1>10, <1>11 DEF Core, c, W
=============================================================================
