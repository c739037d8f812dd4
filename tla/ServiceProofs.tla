--------------------------- MODULE ServiceProofs ---------------------------
(***************************************************************************)
(* The components that promise that something happens once, for every      *)
(* number of concurrent callers and every fault: the side-effect journal   *)
(* (EffectJournal), the registry's version numbering (Registry) and run    *)
(* submission with idempotency tokens (Submission).                        *)
(***************************************************************************)
EXTENDS Integers, FiniteSets, FiniteSetTheorems, TLAPS

-----------------------------------------------------------------------------
(* The journal of one side effect.                                         *)

CONSTANTS N, MaxFaults
VARIABLES row, lock, pend, att, service, faults

J == INSTANCE EffectJournal

JournalPcs == {"unclaimed", "begin", "absent", "locked", "inserted", "intent",
               "fired", "finished", "failed", "raced"}

JournalTypes ==
    /\ row \in [status: {"none", "intent", "done"}, result: Nat]
    /\ lock \in 0..N /\ pend \in 0..N
    /\ att \in [J!Attempts -> [pc: JournalPcs, tries: Nat, result: Nat, late: BOOLEAN]]
    /\ service \in [requests: Nat, applied: [J!Attempts \cup {0} -> Nat]]

\* What an attempt in state x may rely on, given the row: an attempt that lost the
\* insert race finds the row, one that began late does not get past it, and a
\* result in hand is the recorded one.
Informed(r, x) ==
    /\ x.tries # 0 => r.status # "none" /\ x.pc # "absent"
    /\ x.late => r.status = "done" /\ x.pc \notin {"absent", "inserted", "intent", "fired"}
    /\ x.pc = "finished" => r.status = "done" /\ x.result = r.result
    /\ x.pc # "raced"

\* An uncommitted insert is the only one, and there is no row yet.
InsertsExclude ==
    \A a \in J!Attempts : att[a].pc = "inserted" => pend = a /\ row.status = "none"

\* The service knows no key but the step's.
OneKey == \A k \in J!Attempts : service.applied[k] = 0

JournalInv ==
    /\ JournalTypes /\ InsertsExclude /\ OneKey
    /\ \A a \in J!Attempts : Informed(row, att[a])

\* The row only moves on: from none to an intent to a result, which stays.
RowMoves(r, q) ==
    /\ q.status = "none" => r.status = "none"
    /\ r.status = "done" => q = r

\* Rows that move on leave the other attempts informed.
LEMMA StayInformed ==
    ASSUME NEW r, NEW q, NEW x, Informed(r, x), RowMoves(r, q)
    PROVE  Informed(q, x)
BY DEF Informed, RowMoves

\* What a step of attempt a leaves, and what it makes of the row and the attempt.
JournalMove(a, r, x) ==
    /\ row' = r /\ att' = [att EXCEPT ![a] = x]
    /\ r \in [status: {"none", "intent", "done"}, result: Nat] /\ RowMoves(row, r)
    /\ x \in [pc: JournalPcs, tries: Nat, result: Nat, late: BOOLEAN] /\ Informed(r, x)
    /\ lock' \in 0..N /\ pend' \in 0..N
    /\ x.pc = "inserted" => pend' = a /\ r.status = "none"
    /\ \A b \in J!Attempts \ {a} : att[b].pc = "inserted" => pend' = b /\ r.status = "none"
    /\ service' = service \/
       \E n \in Nat, g \in [J!Attempts \cup {0} -> Nat] :
          service' = [requests |-> n, applied |-> g] /\ \A k \in J!Attempts : g[k] = service.applied[k]

\* A move of one attempt keeps the journal's invariant.
LEMMA JournalMoveKeeps ==
    ASSUME N \in Nat, JournalInv, NEW a \in J!Attempts, NEW r, NEW x, JournalMove(a, r, x)
    PROVE  JournalInv'
<1>1. att' \in [J!Attempts -> [pc: JournalPcs, tries: Nat, result: Nat, late: BOOLEAN]]
  BY Zenon DEF JournalInv, JournalTypes, JournalMove
<1>2. att'[a] = x /\ \A b \in J!Attempts \ {a} : att'[b] = att[b]
  BY Zenon DEF JournalInv, JournalTypes, JournalMove
<1>4. service' \in [requests: Nat, applied: [J!Attempts \cup {0} -> Nat]] /\ OneKey'
  <2>1. CASE service' = service
    BY <2>1, Zenon DEF JournalInv, JournalTypes, OneKey
  <2>2. ASSUME NEW n \in Nat, NEW g \in [J!Attempts \cup {0} -> Nat],
               service' = [requests |-> n, applied |-> g], \A k \in J!Attempts : g[k] = service.applied[k]
        PROVE  service' \in [requests: Nat, applied: [J!Attempts \cup {0} -> Nat]] /\ OneKey'
    <3>1. service'.applied = g /\ service' \in [requests: Nat, applied: [J!Attempts \cup {0} -> Nat]]
      BY <2>2
    <3> QED
      BY <2>2, <3>1, Zenon DEF JournalInv, OneKey
  <2> QED
    BY <2>1, <2>2, Zenon DEF JournalMove
<1>5. JournalTypes'
  BY <1>1, <1>4, Zenon DEF JournalMove, JournalTypes
<1>6. InsertsExclude'
  <2>1. /\ x.pc = "inserted" => pend' = a /\ row'.status = "none"
        /\ \A b \in J!Attempts \ {a} : att[b].pc = "inserted" => pend' = b /\ row'.status = "none"
    BY Zenon DEF JournalMove
  <2> QED
    BY <1>2, <2>1 DEF InsertsExclude
<1>7. \A b \in J!Attempts : Informed(row', att'[b])
  BY <1>2, StayInformed, Zenon DEF JournalMove, JournalInv
<1> QED
  BY <1>4, <1>5, <1>6, <1>7, Zenon DEF JournalInv

\* Every step of an attempt is such a move.
LEMMA JournalStep ==
    ASSUME N \in Nat, MaxFaults \in Nat, JournalInv, NEW a \in J!Attempts,
           \/ J!Claim(a) \/ J!GetForUpdate(a) \/ J!BranchOnRow(a) \/ J!InsertIntent(a) \/ J!CommitIntent(a)
           \/ J!Fire(a) \/ J!FireFails(a) \/ J!Complete(a) \/ J!CompleteFails(a) \/ J!Crash(a)
    PROVE  JournalInv'
<1> DEFINE Att == [pc: JournalPcs, tries: Nat, result: Nat, late: BOOLEAN]
           Rows == [status: {"none", "intent", "done"}, result: Nat]
           x == att[a]
<1>0. /\ row \in Rows /\ x \in Att /\ Informed(row, x) /\ lock \in 0..N /\ pend \in 0..N
      /\ a \in 0..N /\ 0 \in 0..N /\ 0 \in Nat /\ a # 0
      /\ \A b \in J!Attempts : att[b].pc = "inserted" => pend = b /\ row.status = "none" /\ b # 0
  BY DEF JournalInv, JournalTypes, InsertsExclude, J!Attempts
<1>1. RowMoves(row, row)
  BY DEF RowMoves
<1>2. ASSUME J!Claim(a)
      PROVE  \E r, y : JournalMove(a, r, y)
  <2> DEFINE y == [J!Fresh EXCEPT !.pc = "begin"]
  <2>1. y \in Att /\ y.tries = 0 /\ y.late = FALSE /\ y.pc = "begin"
    BY <1>0, Zenon DEF J!Fresh, JournalPcs
  <2>2. row' = row /\ att' = [att EXCEPT ![a] = y] /\ lock' = lock /\ pend' = pend /\ service' = service
    BY <1>2 DEF J!Claim, J!Set
  <2> HIDE DEF y, x
  <2>3. Informed(row, y)
    BY <2>1 DEF Informed
  <2>4. JournalMove(a, row, y)
    BY <1>0, <1>1, <2>1, <2>2, <2>3, Zenon DEF JournalMove
  <2> QED
    BY <2>4
<1>3. ASSUME J!GetForUpdate(a)
      PROVE  \E r, y : JournalMove(a, r, y)
  <2>1. PICK y : /\ y \in Att /\ y.tries = x.tries
                 /\ row.status = "none" => y.pc = "absent" /\ ~y.late /\ lock' = lock
                 /\ row.status # "none" => y.pc = "locked" /\ (y.late => row.status = "done") /\ lock' = a
                 /\ row' = row /\ att' = [att EXCEPT ![a] = y] /\ pend' = pend /\ service' = service
    <3> DEFINE z(p) == [x EXCEPT !.pc = p, !.late = row.status = "done"]
    <3>1. \A p \in JournalPcs : /\ z(p) \in Att /\ z(p).tries = x.tries /\ z(p).pc = p
                                /\ z(p).late = (row.status = "done")
      BY <1>0, Zenon
    <3>2. /\ row.status = "none" => att' = [att EXCEPT ![a] = z("absent")] /\ lock' = lock
          /\ row.status # "none" => att' = [att EXCEPT ![a] = z("locked")] /\ lock' = a
          /\ row' = row /\ pend' = pend /\ service' = service
      BY <1>3, Zenon DEF J!GetForUpdate, J!Set
    <3>3. "absent" \in JournalPcs /\ "locked" \in JournalPcs
      BY DEF JournalPcs
    <3>4. ~("none" = "done")
      OBVIOUS
    <3> HIDE DEF z, x, Att
    <3>5. CASE row.status = "none"
      BY <3>1, <3>2, <3>3, <3>4, <3>5, Zenon
    <3>6. CASE row.status # "none"
      BY <3>1, <3>2, <3>3, <3>6, Zenon
    <3> QED
      BY <3>5, <3>6, Zenon
  <2> HIDE DEF x
  <2>2. Informed(row, y)
    BY <1>0, <2>1 DEF Informed
  <2>3. y.pc # "inserted" /\ lock' \in 0..N
    BY <1>0, <2>1
  <2>4. JournalMove(a, row, y)
    BY <1>0, <1>1, <2>1, <2>2, <2>3, Zenon DEF JournalMove
  <2> QED
    BY <2>4
<1> DEFINE Goes(y, p, n) == /\ y \in Att /\ y.pc = p /\ y.result = n
                            /\ y.tries = x.tries /\ y.late = x.late
<1>4. \A p \in JournalPcs : Goes([x EXCEPT !.pc = p], p, x.result)
  BY <1>0, Zenon
<1>5. \A p \in JournalPcs, n \in Nat : Goes([x EXCEPT !.pc = p, !.result = n], p, n)
  BY <1>0, Zenon
<1>6. /\ "finished" \in JournalPcs /\ "intent" \in JournalPcs /\ "inserted" \in JournalPcs
      /\ "fired" \in JournalPcs /\ "failed" \in JournalPcs /\ "begin" \in JournalPcs /\ "raced" \in JournalPcs
  BY DEF JournalPcs
<1>7. row.result \in Nat /\ x.result \in Nat /\ x.tries \in Nat /\ row.status \in {"none", "intent", "done"}
  BY <1>0
<1>8. ASSUME J!BranchOnRow(a)
      PROVE  \E r, y : JournalMove(a, r, y)
  <2>1. PICK y : /\ y \in Att /\ y.tries = x.tries /\ y.late = x.late /\ x.pc = "locked"
                 /\ \/ row.status = "done" /\ y.pc = "finished" /\ y.result = row.result
                    \/ row.status # "done" /\ y.pc = "intent"
                 /\ att' = [att EXCEPT ![a] = y]
    BY <1>4, <1>5, <1>6, <1>7, <1>8, Zenon DEF J!BranchOnRow, J!Set
  <2>2. row' = row /\ lock' = 0 /\ pend' = pend /\ service' = service
    BY <1>8, Zenon DEF J!BranchOnRow
  <2> HIDE DEF x
  <2>3. Informed(row, y) /\ y.pc # "inserted"
    BY <1>0, <2>1 DEF Informed
  <2>4. JournalMove(a, row, y)
    BY <1>0, <1>1, <2>1, <2>2, <2>3, Zenon DEF JournalMove
  <2> QED
    BY <2>4
<1>9. ASSUME J!InsertIntent(a)
      PROVE  \E r, y : JournalMove(a, r, y)
  <2>1. x.pc = "absent" /\ pend = 0 /\ x.tries = 0 /\ ~x.late
    BY <1>0, <1>7, <1>9 DEF J!InsertIntent, Informed
  <2>2. row' = row /\ lock' = lock /\ service' = service
    BY <1>9, Zenon DEF J!InsertIntent
  <2>3. CASE row.status = "none"
    <3>1. PICK y : Goes(y, "inserted", x.result) /\ att' = [att EXCEPT ![a] = y] /\ pend' = a
      BY <1>4, <1>6, <1>9, <2>3, Zenon DEF J!InsertIntent, J!Set
    <3> HIDE DEF x
    <3>2. Informed(row, y)
      BY <2>1, <3>1 DEF Informed
    <3>3. JournalMove(a, row, y)
      BY <1>0, <1>1, <2>1, <2>2, <2>3, <3>1, <3>2, Zenon DEF JournalMove
    <3> QED
      BY <3>3
  <2>4. CASE row.status # "none"
    <3> DEFINE y == [x EXCEPT !.pc = IF x.tries = 0 THEN "begin" ELSE "raced", !.tries = @ + 1]
    <3>1. att' = [att EXCEPT ![a] = y] /\ pend' = pend
      BY <1>9, <2>4, Zenon DEF J!InsertIntent, J!Set
    <3>2. x.tries + 1 \in Nat /\ x.tries + 1 # 0
      BY <1>7
    <3>3. y \in Att /\ y.pc = "begin" /\ y.late = x.late
      BY <1>0, <1>6, <2>1, <3>2, Zenon
    <3> HIDE DEF x, y
    <3>4. Informed(row, y) /\ y.pc # "inserted"
      BY <2>1, <2>4, <3>3 DEF Informed
    <3>5. JournalMove(a, row, y)
      BY <1>0, <1>1, <2>1, <2>2, <3>1, <3>3, <3>4, Zenon DEF JournalMove
    <3> QED
      BY <3>5
  <2> QED
    BY <2>3, <2>4
<1>10. ASSUME J!CommitIntent(a)
       PROVE  \E r, y : JournalMove(a, r, y)
  <2> DEFINE r == [status |-> "intent", result |-> 0]
  <2>1. PICK y : Goes(y, "intent", x.result) /\ att' = [att EXCEPT ![a] = y]
    BY <1>4, <1>6, <1>10, Zenon DEF J!CommitIntent, J!Set
  <2>2. row' = r /\ lock' = lock /\ pend' = 0 /\ service' = service /\ x.pc = "inserted"
    BY <1>10, Zenon DEF J!CommitIntent
  <2>3. r \in Rows /\ r.status = "intent"
    OBVIOUS
  <2> HIDE DEF x, r
  <2>4. row.status = "none" /\ pend = a
    BY <1>0, <2>2 DEF x
  <2>5. RowMoves(row, r) /\ Informed(r, y) /\ y.pc # "inserted"
    BY <1>0, <2>1, <2>2, <2>3, <2>4 DEF RowMoves, Informed
  <2>6. JournalMove(a, r, y)
    BY <1>0, <2>1, <2>2, <2>3, <2>4, <2>5, Zenon DEF JournalMove
  <2> QED
    BY <2>6
<1>11. ASSUME J!Fire(a) \/ J!FireFails(a)
       PROVE  \E r, y : JournalMove(a, r, y)
  <2>1. service.requests + 1 \in Nat /\ service.applied \in [J!Attempts \cup {0} -> Nat]
    BY DEF JournalInv, JournalTypes
  <2>2. PICK y, p, n : /\ Goes(y, p, n) /\ p \in {"fired", "failed"} /\ att' = [att EXCEPT ![a] = y]
                       /\ x.pc = "intent"
    BY <1>4, <1>5, <1>6, <1>11, <2>1, Zenon DEF J!Fire, J!FireFails, J!Set
  <2>3. row' = row /\ lock' = lock /\ pend' = pend /\ (service' = service \/ J!Apply(0))
    BY <1>11, Zenon DEF J!Fire, J!FireFails, J!Key
  <2>4. \/ service' = service
        \/ \E n1 \in Nat, g \in [J!Attempts \cup {0} -> Nat] :
              service' = [requests |-> n1, applied |-> g] /\ \A k \in J!Attempts : g[k] = service.applied[k]
    <3>1. 0 \notin J!Attempts
      BY DEF J!Attempts
    <3>2. ASSUME J!Apply(0)
          PROVE  \E g \in [J!Attempts \cup {0} -> Nat] :
                    /\ service' = [requests |-> service.requests + 1, applied |-> g]
                    /\ \A k \in J!Attempts : g[k] = service.applied[k]
      <4> DEFINE f == [service.applied EXCEPT ![0] = service.requests + 1]
      <4>1. f \in [J!Attempts \cup {0} -> Nat] /\ \A k \in J!Attempts : f[k] = service.applied[k]
        BY <2>1, <3>1, Zenon
      <4>2. service' = [requests |-> service.requests + 1,
                        applied |-> IF service.applied[0] = 0 THEN f ELSE service.applied]
        BY <3>2, Zenon DEF J!Apply
      <4> HIDE DEF f
      <4> QED
        BY <2>1, <4>1, <4>2, Zenon
    <3> QED
      BY <2>1, <2>3, <3>2, Zenon
  <2> HIDE DEF x
  <2>5. Informed(row, y) /\ y.pc # "inserted"
    BY <1>0, <2>2 DEF Informed
  <2>6. JournalMove(a, row, y)
    BY <1>0, <1>1, <2>2, <2>3, <2>4, <2>5, Zenon DEF JournalMove
  <2> QED
    BY <2>6
<1>12. ASSUME J!Complete(a) \/ J!CompleteFails(a)
       PROVE  \E r, y : JournalMove(a, r, y)
  <2> DEFINE done == [status |-> "done", result |-> x.result]
  <2>1. done \in Rows /\ done.status = "done" /\ done.result = x.result
    BY <1>7
  <2>2. lock' = lock /\ pend' = pend /\ service' = service /\ x.pc = "fired"
    BY <1>12, Zenon DEF J!Complete, J!CompleteFails
  <2>3. PICK y, p, n, r :
           /\ Goes(y, p, n) /\ att' = [att EXCEPT ![a] = y] /\ row' = r
           /\ r = row \/ (row.status = "intent" /\ r = done)
           /\ \/ p = "finished" /\ r = done /\ n = x.result
              \/ p = "finished" /\ r = row /\ row.status = "done" /\ n = row.result
              \/ p = "failed"
    <3>1. CASE J!CompleteFails(a)
      <4>1. row' \in {row, IF row.status = "intent" THEN done ELSE row}
        BY <3>1, Zenon DEF J!CompleteFails
      <4>2. att' = [att EXCEPT ![a] = [x EXCEPT !.pc = "failed"]]
        BY <3>1, Zenon DEF J!CompleteFails, J!Set
      <4> HIDE DEF done
      <4>3. row' = row \/ (row.status = "intent" /\ row' = done)
        BY <4>1, Zenon
      <4> QED
        BY <1>4, <1>6, <4>2, <4>3, Zenon
    <3>2. CASE J!Complete(a) /\ row.status = "intent"
      <4>1. row' = done /\ att' = [att EXCEPT ![a] = [x EXCEPT !.pc = "finished"]]
        BY <3>2, Zenon DEF J!Complete, J!Set
      <4> HIDE DEF done
      <4> QED
        BY <1>4, <1>6, <3>2, <4>1, Zenon
    <3>3. CASE J!Complete(a) /\ row.status # "intent"
      <4>1. /\ row' = row /\ row.status = "done"
            /\ att' = [att EXCEPT ![a] = [x EXCEPT !.pc = "finished", !.result = row.result]]
        BY <3>3, Zenon DEF J!Complete, J!Set
      <4> HIDE DEF done
      <4> QED
        BY <1>5, <1>6, <1>7, <4>1, Zenon
    <3> QED
      BY <1>12, <3>1, <3>2, <3>3, Zenon
  <2> HIDE DEF x, done
  <2>4. r \in Rows /\ RowMoves(row, r) /\ (row.status = "none" => r = row)
    BY <1>0, <2>1, <2>3 DEF RowMoves
  <2>5. Informed(r, y) /\ y.pc # "inserted"
    BY <1>0, <2>1, <2>2, <2>3, <2>4 DEF Informed, RowMoves
  <2>6. JournalMove(a, r, y)
    BY <1>0, <2>2, <2>3, <2>4, <2>5, Zenon DEF JournalMove
  <2> QED
    BY <2>6
<1>13. ASSUME J!Crash(a)
       PROVE  \E r, y : JournalMove(a, r, y)
  <2>1. PICK y : Goes(y, "failed", x.result) /\ att' = [att EXCEPT ![a] = y]
    BY <1>4, <1>6, <1>13, Zenon DEF J!Crash, J!Set
  <2>2. row' = row /\ service' = service /\ x.pc # "finished"
        /\ lock' \in {0, lock} /\ pend' = IF pend = a THEN 0 ELSE pend
    BY <1>13 DEF J!Crash
  <2> HIDE DEF x
  <2>3. Informed(row, y) /\ y.pc # "inserted"
    BY <1>0, <2>1 DEF Informed
  <2>4. lock' \in 0..N /\ pend' \in 0..N
    BY <1>0, <2>2
  <2>5. JournalMove(a, row, y)
    BY <1>0, <1>1, <2>1, <2>2, <2>3, <2>4, Zenon DEF JournalMove
  <2> QED
    BY <2>5
<1> QED
  BY <1>2, <1>3, <1>8, <1>9, <1>10, <1>11, <1>12, <1>13, JournalMoveKeeps

\* However many attempts of a step run at the same time, and wherever they crash
\* or lose an answer: every attempt that gets a result gets the recorded one, a
\* service that dedupes on the key applies the effect at most once, an attempt that
\* began after the result was recorded never calls the service, and Begin loses
\* the insert race at most once (internal/exec/effects).
THEOREM EffectsTheorem ==
    ASSUME N \in Nat, MaxFaults \in Nat
    PROVE  J!Spec => [](J!TypeOK /\ J!ResultsAgree /\ J!EffectAppliedOnce
                        /\ J!LateAttemptsDoNotFire /\ J!RaceLostOnce)
<1>1. J!Init => JournalInv
  <2> SUFFICES ASSUME J!Init PROVE JournalInv
    OBVIOUS
  <2>1. \A a \in J!Attempts : att[a] = J!Fresh
    BY Zenon DEF J!Init
  <2>2. J!Fresh \in [pc: JournalPcs, tries: Nat, result: Nat, late: BOOLEAN]
    BY Zenon DEF J!Fresh, JournalPcs
  <2>3. J!Fresh.pc = "unclaimed" /\ J!Fresh.tries = 0 /\ J!Fresh.late = FALSE
    BY Zenon DEF J!Fresh
  <2>4. Informed(row, J!Fresh)
    BY <2>3 DEF Informed
  <2>5. 0 \in 0..N /\ 0 \in Nat
    OBVIOUS
  <2>6. att \in [J!Attempts -> [pc: JournalPcs, tries: Nat, result: Nat, late: BOOLEAN]]
    BY <2>2, Zenon DEF J!Init
  <2>7. service \in [requests: Nat, applied: [J!Attempts \cup {0} -> Nat]] /\ OneKey
    BY DEF J!Init, OneKey
  <2>8. row \in [status: {"none", "intent", "done"}, result: Nat]
    BY DEF J!Init, J!NoRow
  <2>9. JournalTypes
    BY <2>5, <2>6, <2>7, <2>8, Zenon DEF JournalTypes, J!Init
  <2> QED
    BY <2>1, <2>3, <2>4, <2>7, <2>9 DEF JournalInv, InsertsExclude
<1>2. JournalInv /\ [J!Next]_(J!vars) => JournalInv'
  <2>1. ASSUME JournalInv, UNCHANGED J!vars
        PROVE  JournalInv'
    BY <2>1, Zenon DEF JournalInv, JournalTypes, InsertsExclude, OneKey, J!vars
  <2> QED
    BY <2>1, JournalStep, Zenon DEF J!Next
<1>3. JournalInv => J!TypeOK /\ J!ResultsAgree /\ J!EffectAppliedOnce
                    /\ J!LateAttemptsDoNotFire /\ J!RaceLostOnce
  <2> SUFFICES ASSUME JournalInv
               PROVE  J!TypeOK /\ J!ResultsAgree /\ J!EffectAppliedOnce
                      /\ J!LateAttemptsDoNotFire /\ J!RaceLostOnce
    OBVIOUS
  <2>1. J!TypeOK
    BY DEF JournalInv, JournalTypes, JournalPcs, J!TypeOK
  <2>2. J!ResultsAgree /\ J!LateAttemptsDoNotFire /\ J!RaceLostOnce
    BY Zenon DEF JournalInv, Informed, J!ResultsAgree, J!LateAttemptsDoNotFire, J!RaceLostOnce
  <2>3. J!EffectAppliedOnce
    <3> DEFINE K == {k \in DOMAIN service.applied : service.applied[k] # 0}
    <3>1. K \subseteq {0}
      BY DEF JournalInv, JournalTypes, OneKey
    <3>2. IsFiniteSet({0}) /\ Cardinality({0}) = 1
      BY FS_Singleton, Zenon
    <3>3. Cardinality(K) <= 1
      BY <3>1, <3>2, FS_Subset
    <3> QED
      BY <3>3 DEF J!EffectAppliedOnce, J!Cardinality, Cardinality, J!IsFiniteSet, IsFiniteSet
  <2> QED
    BY <2>1, <2>2, <2>3
<1> QED
  BY <1>1, <1>2, <1>3, PTL DEF J!Spec

-----------------------------------------------------------------------------
(* The registry of definitions.                                            *)

CONSTANTS Names, LockKey, Builders, MaxVersions
VARIABLE reg

Reg == INSTANCE Registry

RegRows == [name: Names, version: Nat, opened: Nat, ifMatch: BOOLEAN]
RegAts == [pc: {"free", "edited", "locked", "read"}, name: Names, opened: Nat,
           ifMatch: BOOLEAN, next: Nat]

RowsOf(R, n) == {v \in R : v.name = n}

\* The stored versions of n are 1, 2, ... without a gap, each in one row.
Dense(R, n) ==
    /\ IsFiniteSet(RowsOf(R, n))
    /\ {v.version : v \in RowsOf(R, n)} = 1..Cardinality(RowsOf(R, n))

\* A transaction that has read the next version still has the next version.
Current(R, x) ==
    x.pc = "read" => /\ x.next = Cardinality(RowsOf(R, x.name)) + 1 /\ x.next # 1
                     /\ x.ifMatch => x.opened = x.next - 1

Holds(x) == x.pc \in {"locked", "read"}

RegInv ==
    /\ reg \in [rows: SUBSET RegRows, at: [Builders -> RegAts], collided: BOOLEAN] /\ ~reg.collided
    /\ \A n \in Names : Dense(reg.rows, n)
    /\ \A v \in reg.rows : v.ifMatch => v.version = v.opened + 1
    /\ \A b \in Builders : Current(reg.rows, reg.at[b])
    /\ \A b, c \in Builders : Holds(reg.at[b]) /\ Holds(reg.at[c])
                              /\ LockKey[reg.at[b].name] = LockKey[reg.at[c].name] => b = c

\* The cardinality that Registry speaks of is that of FiniteSets.
LEMMA RegCardinality == \A S : Reg!Cardinality(S) = Cardinality(S)
BY DEF Reg!Cardinality, Cardinality, Reg!IsFiniteSet, IsFiniteSet

\* MAX(version) + 1 of dense versions is one more than their number.
LEMMA NextIsCount ==
    ASSUME RegInv, NEW n \in Names
    PROVE  /\ Reg!VersionsOf(n) = 1..Cardinality(RowsOf(reg.rows, n))
           /\ Cardinality(RowsOf(reg.rows, n)) \in Nat
           /\ Reg!NextVersion(n) = Cardinality(RowsOf(reg.rows, n)) + 1
<1> DEFINE k == Cardinality(RowsOf(reg.rows, n))
<1>1. k \in Nat
  BY FS_CardinalityType DEF RegInv, Dense
<1>2. Reg!VersionsOf(n) = 1..k
  BY Zenon DEF RegInv, Dense, RowsOf, Reg!VersionsOf
<1> HIDE DEF k
<1>3. ASSUME k = 0
      PROVE  Reg!NextVersion(n) = k + 1
  <2>1. 1..k = {}
    BY <1>3
  <2> QED
    BY <1>2, <1>3, <2>1 DEF Reg!NextVersion
<1>4. ASSUME k # 0
      PROVE  Reg!NextVersion(n) = k + 1
  <2>1. k \in 1..k /\ \A y \in 1..k : k >= y
    BY <1>1, <1>4
  <2>2. \A x \in 1..k : (\A y \in 1..k : x >= y) => x = k
    BY <1>1, <2>1
  <2>3. Reg!Max(1..k) = k
    BY <2>1, <2>2 DEF Reg!Max
  <2>4. 1..k # {}
    BY <2>1
  <2> QED
    BY <1>2, <2>3, <2>4 DEF Reg!NextVersion
<1> QED
  BY <1>1, <1>2, <1>3, <1>4 DEF k

\* One more row, with the next version.
LEMMA DenseGrows ==
    ASSUME NEW R \in SUBSET RegRows, NEW v \in RegRows, NEW n \in Names, Dense(R, n),
           v.version = Cardinality(RowsOf(R, v.name)) + 1
    PROVE  /\ Dense(R \cup {v}, n)
           /\ n # v.name => RowsOf(R \cup {v}, n) = RowsOf(R, n)
<1>1. CASE n # v.name
  <2>1. RowsOf(R \cup {v}, n) = RowsOf(R, n)
    BY <1>1 DEF RowsOf
  <2> QED
    BY <2>1, Zenon DEF Dense
<1>2. CASE n = v.name
  <2> DEFINE S == RowsOf(R, n)
             k == Cardinality(S)
  <2>1. RowsOf(R \cup {v}, n) = S \cup {v}
    BY <1>2 DEF RowsOf
  <2>2. k \in Nat /\ IsFiniteSet(S) /\ {w.version : w \in S} = 1..k
    BY FS_CardinalityType DEF Dense
  <2>3. v.version = k + 1
    BY <1>2
  <2> HIDE DEF S, k
  <2>4. v \notin S
    <3>1. k + 1 \notin 1..k
      BY <2>2
    <3> QED
      BY <2>2, <2>3, <3>1
  <2>5. IsFiniteSet(S \cup {v}) /\ Cardinality(S \cup {v}) = k + 1
    BY <2>2, <2>4, FS_AddElement DEF k
  <2>6. {w.version : w \in S \cup {v}} = 1..(k + 1)
    <3>1. {w.version : w \in S \cup {v}} = 1..k \cup {k + 1}
      BY <2>2, <2>3
    <3>2. 1..k \cup {k + 1} = 1..(k + 1)
      BY <2>2
    <3> QED
      BY <3>1, <3>2
  <2> QED
    BY <1>2, <2>1, <2>5, <2>6, Zenon DEF Dense
<1> QED
  BY <1>1, <1>2

\* What a request of builder b does to the rows and to itself.
RegMove(b, R, y) ==
    /\ reg' = [rows |-> R, at |-> [reg.at EXCEPT ![b] = y], collided |-> FALSE]
    /\ y \in RegAts /\ Current(R, y)
    /\ \A c \in Builders \ {b} : Holds(y) /\ Holds(reg.at[c]) => LockKey[y.name] # LockKey[reg.at[c].name]
    /\ \/ R = reg.rows
       \/ \E v \in RegRows :
             /\ R = reg.rows \cup {v} /\ v.version = Cardinality(RowsOf(reg.rows, v.name)) + 1
             /\ v.ifMatch => v.version = v.opened + 1
             /\ \A c \in Builders \ {b} : reg.at[c].pc = "read" => reg.at[c].name # v.name

\* A move of one caller keeps the registry's invariant.
LEMMA RegMoveKeeps ==
    ASSUME RegInv, NEW b \in Builders, NEW R, NEW y, RegMove(b, R, y)
    PROVE  RegInv' /\ reg.rows \subseteq reg'.rows
<1>1. reg.rows \in SUBSET RegRows /\ reg.at \in [Builders -> RegAts]
  BY DEF RegInv
<1>2. reg'.rows = R /\ reg'.at = [reg.at EXCEPT ![b] = y] /\ reg'.collided = FALSE
  BY Zenon DEF RegMove
<1>3. reg'.at \in [Builders -> RegAts] /\ reg'.at[b] = y /\ \A c \in Builders \ {b} : reg'.at[c] = reg.at[c]
  BY <1>1, <1>2, Zenon DEF RegMove
<1>4. /\ R \in SUBSET RegRows /\ reg.rows \subseteq R
      /\ \A n \in Names : Dense(R, n)
      /\ \A v \in R : v.ifMatch => v.version = v.opened + 1
      /\ \A c \in Builders \ {b} : Current(R, reg.at[c])
  <2>1. CASE R = reg.rows
    BY <2>1, Zenon DEF RegInv
  <2>2. ASSUME NEW v \in RegRows, R = reg.rows \cup {v}, v.version = Cardinality(RowsOf(reg.rows, v.name)) + 1,
               v.ifMatch => v.version = v.opened + 1,
               \A c \in Builders \ {b} : reg.at[c].pc = "read" => reg.at[c].name # v.name
        PROVE  /\ R \in SUBSET RegRows /\ reg.rows \subseteq R
               /\ \A n \in Names : Dense(R, n)
               /\ \A w \in R : w.ifMatch => w.version = w.opened + 1
               /\ \A c \in Builders \ {b} : Current(R, reg.at[c])
    <3>1. \A n \in Names : Dense(R, n) /\ (n # v.name => RowsOf(R, n) = RowsOf(reg.rows, n))
      BY <1>1, <2>2, DenseGrows, Zenon DEF RegInv
    <3>2. \A c \in Builders : reg.at[c].name \in Names
      BY <1>1 DEF RegAts
    <3>3. \A c \in Builders \ {b} : Current(R, reg.at[c])
      BY <2>2, <3>1, <3>2, Zenon DEF RegInv, Current
    <3>4. \A w \in R : w.ifMatch => w.version = w.opened + 1
      BY <2>2, Zenon DEF RegInv
    <3> QED
      BY <1>1, <2>2, <3>1, <3>3, <3>4, Zenon
  <2> QED
    BY <2>1, <2>2, Zenon DEF RegMove
<1>5. reg' \in [rows: SUBSET RegRows, at: [Builders -> RegAts], collided: BOOLEAN]
  <2> DEFINE A == [reg.at EXCEPT ![b] = y]
  <2>1. reg' = [rows |-> R, at |-> A, collided |-> FALSE] /\ A \in [Builders -> RegAts]
    BY <1>2, <1>3, Zenon DEF RegMove
  <2> HIDE DEF A
  <2> QED
    BY <1>4, <2>1, Zenon
<1>6. \A c \in Builders : Current(reg'.rows, reg'.at[c])
  BY <1>2, <1>3, <1>4, Zenon DEF RegMove
<1>7. \A c, e \in Builders : Holds(reg'.at[c]) /\ Holds(reg'.at[e])
                             /\ LockKey[reg'.at[c].name] = LockKey[reg'.at[e].name] => c = e
  BY <1>3, Zenon DEF RegMove, RegInv
<1> QED
  BY <1>2, <1>4, <1>5, <1>6, <1>7, Zenon DEF RegInv

\* Every request's step is such a move.
LEMMA RegStep ==
    ASSUME Names # {}, RegInv, NEW b \in Builders,
           \/ Reg!Open(b) \/ Reg!CreateDefinition(b) \/ Reg!LockName(b)
           \/ Reg!ReadNext(b) \/ Reg!AppendVersion(b) \/ Reg!Abort(b)
    PROVE  RegInv' /\ reg.rows \subseteq reg'.rows
<1> DEFINE x == reg.at[b]
           k == Cardinality(RowsOf(reg.rows, x.name))
           Goes(R, y) == reg' = [rows |-> R, at |-> [reg.at EXCEPT ![b] = y], collided |-> FALSE]
<1>0. /\ reg \in [rows: SUBSET RegRows, at: [Builders -> RegAts], collided: BOOLEAN] /\ ~reg.collided
      /\ x \in RegAts /\ Current(reg.rows, x)
      /\ \A c \in Builders \ {b} : Holds(x) /\ Holds(reg.at[c]) => LockKey[x.name] # LockKey[reg.at[c].name]
  BY Zenon DEF RegInv
<1>1. x.name \in Names /\ x.opened \in Nat /\ x.next \in Nat /\ x.ifMatch \in BOOLEAN
  BY <1>0, Zenon DEF RegAts
<1>2. k \in Nat /\ Reg!VersionsOf(x.name) = 1..k /\ Reg!NextVersion(x.name) = k + 1
  BY <1>1, NextIsCount
<1>3. Reg!Free \in RegAts /\ Reg!Free.pc = "free"
  <2>1. (CHOOSE n \in Names : TRUE) \in Names
    OBVIOUS
  <2> QED
    BY <2>1, Zenon DEF Reg!Free, RegAts
<1>4. Current(reg.rows, Reg!Free) /\ ~Holds(Reg!Free) /\ \A R : Current(R, Reg!Free)
  BY <1>3 DEF Current, Holds
<1>5. ASSUME Goes(reg.rows, Reg!Free)
      PROVE  RegMove(b, reg.rows, Reg!Free)
  BY <1>3, <1>4, <1>5, Zenon DEF RegMove
<1>6. \A kind \in {"exists", "created", "not_found", "version_conflict", "appended"} :
        Reg!Answered(b, kind) = [rows |-> reg.rows, at |-> [reg.at EXCEPT ![b] = Reg!Free], collided |-> FALSE]
  <2> TAKE kind \in {"exists", "created", "not_found", "version_conflict", "appended"}
  <2> DEFINE hit == reg.collided \/ kind = "conflict"
  <2>1. hit = FALSE
    <3>1. ~(kind = "conflict")
      OBVIOUS
    <3> QED
      BY <1>0, <3>1, Zenon
  <2>2. Reg!Answered(b, kind) = [reg EXCEPT !.at[b] = Reg!Free, !.collided = hit]
    BY DEF Reg!Answered
  <2> HIDE DEF hit
  <2>3. Reg!Answered(b, kind) = [reg EXCEPT !.at[b] = Reg!Free, !.collided = FALSE]
    BY <2>1, <2>2, Zenon
  <2> QED
    BY <1>0, <2>3, Zenon
<1>7. ASSUME Reg!Open(b)
      PROVE  \E R, y : RegMove(b, R, y)
  <2>0. PICK n \in Names, m \in BOOLEAN : \E v \in Reg!VersionsOf(n) \cup {0} :
           reg' = [reg EXCEPT !.at[b] = [Reg!Free EXCEPT !.pc = "edited", !.name = n, !.opened = v, !.ifMatch = m]]
    BY <1>7, Zenon DEF Reg!Open
  <2>1. PICK v \in Reg!VersionsOf(n) \cup {0} :
           reg' = [reg EXCEPT !.at[b] = [Reg!Free EXCEPT !.pc = "edited", !.name = n, !.opened = v, !.ifMatch = m]]
    BY <2>0, Zenon
  <2> DEFINE y == [Reg!Free EXCEPT !.pc = "edited", !.name = n, !.opened = v, !.ifMatch = m]
  <2>2. v \in Nat
    <3>1. Reg!VersionsOf(n) = 1..Cardinality(RowsOf(reg.rows, n)) /\ Cardinality(RowsOf(reg.rows, n)) \in Nat
      BY NextIsCount
    <3> QED
      BY <3>1
  <2>3. y \in RegAts /\ y.pc = "edited"
    BY <1>3, <2>2, Zenon DEF RegAts
  <2> HIDE DEF y
  <2>4. reg' = [reg EXCEPT !.at[b] = y]
    BY <2>1 DEF y
  <2>5. Goes(reg.rows, y)
    BY <1>0, <2>4, Zenon
  <2>6. Current(reg.rows, y) /\ ~Holds(y)
    BY <2>3 DEF Current, Holds
  <2>7. RegMove(b, reg.rows, y)
    BY <2>3, <2>5, <2>6, Zenon DEF RegMove
  <2> QED
    BY <2>7
<1>8. ASSUME NEW v \in RegRows, v.name = x.name, v.version = k + 1, v.ifMatch => v.version = v.opened + 1,
             \A c \in Builders \ {b} : reg.at[c].pc = "read" => reg.at[c].name # v.name,
             Goes(reg.rows \cup {v}, Reg!Free)
      PROVE  RegMove(b, reg.rows \cup {v}, Reg!Free)
  BY <1>3, <1>4, <1>8, Zenon DEF RegMove
<1>9. ASSUME NEW v, NEW kind \in {"created", "appended"},
             reg' = [Reg!Answered(b, kind) EXCEPT !.rows = @ \cup {v}]
      PROVE  Goes(reg.rows \cup {v}, Reg!Free)
  <2> DEFINE A == [reg.at EXCEPT ![b] = Reg!Free]
  <2>1. Reg!Answered(b, kind) = [rows |-> reg.rows, at |-> A, collided |-> FALSE]
    BY <1>6
  <2> HIDE DEF A
  <2>2. reg' = [rows |-> reg.rows \cup {v}, at |-> A, collided |-> FALSE]
    <3>1. PICK z : z = Reg!Answered(b, kind)
      OBVIOUS
    <3>2. z = [rows |-> reg.rows, at |-> A, collided |-> FALSE]
      BY <2>1, <3>1
    <3>3. reg' = [z EXCEPT !.rows = @ \cup {v}]
      BY <1>9, <3>1
    <3> QED
      BY <3>2, <3>3, Zenon
  <2> QED
    BY <2>2 DEF A
<1>10. ASSUME Reg!CreateDefinition(b)
       PROVE  \E R, y : RegMove(b, R, y)
  <2>1. CASE 1 \in Reg!VersionsOf(x.name)
    <3>1. reg' = Reg!Answered(b, "exists")
      BY <1>10, <2>1, Zenon DEF Reg!CreateDefinition
    <3> QED
      BY <1>5, <1>6, <3>1, Zenon
  <2>2. CASE 1 \notin Reg!VersionsOf(x.name)
    <3> DEFINE v == Reg!Row(b, 1)
    <3>1. reg' = [Reg!Answered(b, "created") EXCEPT !.rows = @ \cup {v}] /\ ~x.ifMatch
      BY <1>10, <2>2, Zenon DEF Reg!CreateDefinition
    <3>2. k = 0
      BY <1>2, <2>2
    <3>3. v \in RegRows /\ v.name = x.name /\ v.version = 1 /\ v.ifMatch = x.ifMatch
      BY <1>1, Zenon DEF Reg!Row, RegRows
    <3>4. \A c \in Builders \ {b} : reg.at[c].pc = "read" => reg.at[c].name # x.name
      <4>1. \A c \in Builders : reg.at[c].pc = "read" => Cardinality(RowsOf(reg.rows, reg.at[c].name)) # 0
        BY DEF RegInv, Current
      <4> QED
        BY <3>2, <4>1, Zenon
    <3> HIDE DEF v, x, k
    <3>5. Goes(reg.rows \cup {v}, Reg!Free)
      BY <1>9, <3>1, Zenon
    <3>6. v.version = k + 1
      BY <3>2, <3>3
    <3>7. RegMove(b, reg.rows \cup {v}, Reg!Free)
      BY <1>8, <3>1, <3>3, <3>4, <3>5, <3>6, Zenon
    <3> QED
      BY <3>7
  <2> QED
    BY <2>1, <2>2
<1>11. ASSUME Reg!LockName(b)
       PROVE  \E R, y : RegMove(b, R, y)
  <2> DEFINE y == [x EXCEPT !.pc = "locked"]
  <2>1. y \in RegAts /\ y.pc = "locked" /\ y.name = x.name
    BY <1>0, Zenon DEF RegAts
  <2>2. Goes(reg.rows, y)
    <3>1. reg' = [reg EXCEPT !.at[b].pc = "locked"]
      BY <1>11 DEF Reg!LockName
    <3> QED
      BY <1>0, <3>1, Zenon
  <2>3. \A c \in Builders : Holds(reg.at[c]) => LockKey[x.name] # LockKey[reg.at[c].name]
    BY <1>11 DEF Reg!LockName, Reg!Holding, Holds
  <2> HIDE DEF y, x
  <2>4. Current(reg.rows, y)
    BY <2>1 DEF Current
  <2>5. RegMove(b, reg.rows, y)
    BY <2>1, <2>2, <2>3, <2>4, Zenon DEF RegMove
  <2> QED
    BY <2>5
<1>12. ASSUME Reg!ReadNext(b)
       PROVE  \E R, y : RegMove(b, R, y)
  <2> DEFINE next == Reg!NextVersion(x.name)
             y == [x EXCEPT !.pc = "read", !.next = next]
  <2>1. \/ reg' = Reg!Answered(b, "not_found")
        \/ reg' = Reg!Answered(b, "version_conflict")
        \/ /\ next # 1 /\ (x.ifMatch => x.opened = next - 1)
           /\ reg' = [reg EXCEPT !.at[b].pc = "read", !.at[b].next = next]
    BY <1>12 DEF Reg!ReadNext
  <2>2. x.pc = "locked" /\ next \in Nat /\ next = k + 1
    BY <1>2, <1>12 DEF Reg!ReadNext
  <2>3. y \in RegAts /\ y.pc = "read" /\ y.name = x.name /\ y.next = next /\ y.opened = x.opened /\ y.ifMatch = x.ifMatch
    BY <1>0, <2>2, Zenon DEF RegAts
  <2>4. CASE reg' = Reg!Answered(b, "not_found") \/ reg' = Reg!Answered(b, "version_conflict")
    <3>1. Goes(reg.rows, Reg!Free)
      BY <1>6, <2>4
    <3> QED
      BY <1>5, <3>1
  <2>5. CASE /\ next # 1 /\ (x.ifMatch => x.opened = next - 1)
             /\ reg' = [reg EXCEPT !.at[b].pc = "read", !.at[b].next = next]
    <3> HIDE DEF next
    <3>1. Goes(reg.rows, y)
      BY <1>0, <2>5, Zenon
    <3> HIDE DEF y
    <3>2. Current(reg.rows, y)
      BY <2>2, <2>3, <2>5, Zenon DEF Current
    <3>3. Holds(x)
      BY <2>2 DEF Holds
    <3> HIDE DEF x
    <3>4. RegMove(b, reg.rows, y)
      BY <1>0, <2>3, <3>1, <3>2, <3>3, Zenon DEF RegMove
    <3> QED
      BY <3>4
  <2> QED
    BY <2>1, <2>4, <2>5
<1>13. ASSUME Reg!AppendVersion(b)
       PROVE  \E R, y : RegMove(b, R, y)
  <2> DEFINE v == Reg!Row(b, x.next)
  <2>1. x.pc = "read" /\ Holds(x)
    BY <1>13 DEF Reg!AppendVersion, Holds
  <2>2. x.next = k + 1 /\ (x.ifMatch => x.opened = x.next - 1)
    BY <1>0, <2>1 DEF Current
  <2>3. x.next \notin Reg!VersionsOf(x.name)
    <3>1. k + 1 \notin 1..k
      BY <1>2
    <3> QED
      BY <1>2, <2>2, <3>1
  <2>4. reg' = [Reg!Answered(b, "appended") EXCEPT !.rows = @ \cup {v}]
    BY <1>13, <2>3, Zenon DEF Reg!AppendVersion
  <2>5. v \in RegRows /\ v.name = x.name /\ v.version = x.next /\ v.ifMatch = x.ifMatch /\ v.opened = x.opened
    BY <1>1, Zenon DEF Reg!Row, RegRows
  <2>6. \A c \in Builders \ {b} : reg.at[c].pc = "read" => reg.at[c].name # x.name
    <3>1. \A c \in Builders : reg.at[c].pc = "read" => Holds(reg.at[c])
      BY DEF Holds
    <3> QED
      BY <1>0, <2>1, <3>1, Zenon
  <2> HIDE DEF v, x, k
  <2>7. Goes(reg.rows \cup {v}, Reg!Free)
    BY <1>9, <2>4, Zenon
  <2>8. v.version = k + 1 /\ (v.ifMatch => v.version = v.opened + 1)
    BY <1>1, <2>2, <2>5
  <2>9. RegMove(b, reg.rows \cup {v}, Reg!Free)
    BY <1>8, <2>5, <2>6, <2>7, <2>8, Zenon
  <2> QED
    BY <2>9
<1>14. ASSUME Reg!Abort(b)
       PROVE  \E R, y : RegMove(b, R, y)
  <2>1. reg' = [reg EXCEPT !.at[b] = Reg!Free]
    BY <1>14 DEF Reg!Abort
  <2>2. Goes(reg.rows, Reg!Free)
    BY <1>0, <2>1, Zenon
  <2> QED
    BY <1>5, <2>2, Zenon
<1> HIDE DEF x, k, Goes
<1> QED
  BY <1>7, <1>10, <1>11, <1>12, <1>13, <1>14, RegMoveKeeps, Zenon

\* Whatever builders save at the same time, with or without If-Match, and whatever
\* transactions are lost: no two appends allocate the same version, a guarded save
\* supersedes exactly the version that was opened, a name's versions have no gap,
\* and a stored version stays (Store.CreateDefinitionVersion).
THEOREM RegistryTheorem ==
    ASSUME Names # {}
    PROVE  Reg!Spec => /\ [](Reg!AppendsNeverCollide /\ Reg!NoSilentFork /\ Reg!VersionsContiguous)
                       /\ [][Reg!RowsKept]_reg
<1>1. Reg!Init => RegInv
  <2> SUFFICES ASSUME Reg!Init PROVE RegInv
    OBVIOUS
  <2>1. Reg!Free \in RegAts /\ Reg!Free.pc = "free"
    <3>1. (CHOOSE n \in Names : TRUE) \in Names
      OBVIOUS
    <3> QED
      BY <3>1, Zenon DEF Reg!Free, RegAts
  <2>2. /\ reg.rows = {} /\ reg.at = [b \in Builders |-> Reg!Free] /\ reg.collided = FALSE
        /\ reg \in [rows: SUBSET RegRows, at: [Builders -> RegAts], collided: BOOLEAN]
    BY <2>1, Zenon DEF Reg!Init
  <2>3. \A n \in Names : Dense({}, n)
    <3>1. \A n : RowsOf({}, n) = {}
      BY DEF RowsOf
    <3>2. IsFiniteSet({}) /\ Cardinality({}) = 0 /\ 1..0 = {}
      BY FS_EmptySet
    <3> QED
      BY <3>1, <3>2 DEF Dense
  <2>4. \A b \in Builders : Current(reg.rows, reg.at[b]) /\ ~Holds(reg.at[b])
    BY <2>1, <2>2 DEF Current, Holds
  <2> QED
    BY <2>2, <2>3, <2>4, Zenon DEF RegInv
<1>2. RegInv /\ [Reg!Next]_reg => RegInv' /\ [Reg!RowsKept]_reg
  <2>1. ASSUME RegInv, reg' = reg
        PROVE  RegInv'
    BY <2>1, Zenon DEF RegInv
  <2> QED
    BY <2>1, RegStep, Zenon DEF Reg!Next, Reg!RowsKept
<1>3. RegInv => Reg!AppendsNeverCollide /\ Reg!NoSilentFork /\ Reg!VersionsContiguous
  <2> SUFFICES ASSUME RegInv
               PROVE  Reg!AppendsNeverCollide /\ Reg!NoSilentFork /\ Reg!VersionsContiguous
    OBVIOUS
  <2>1. Reg!AppendsNeverCollide /\ Reg!NoSilentFork
    BY Zenon DEF RegInv, Reg!AppendsNeverCollide, Reg!NoSilentFork
  <2>2. ASSUME NEW n \in Names
        PROVE  Reg!VersionsOf(n) = 1..Reg!Cardinality({v \in reg.rows : v.name = n})
    BY NextIsCount, RegCardinality DEF RowsOf
  <2> QED
    BY <2>1, <2>2, Zenon DEF Reg!VersionsContiguous
<1> QED
  BY <1>1, <1>2, <1>3, PTL DEF Reg!Spec

-----------------------------------------------------------------------------
(* Submission with idempotency tokens.                                     *)

CONSTANTS Requests, Token, Payload, LegacyRuns, Batches, MaxSends, NoToken, NoRun
VARIABLE sub

Sub == INSTANCE Submission

IsPayload(p) == p = [def |-> p.def, params |-> p.params, ref |-> p.ref]

\* The runs from before fingerprints were stored are numbered and have distinct
\* tokens.
SubmissionConstants ==
    /\ Batches \subseteq SUBSET Requests
    /\ \A r \in Requests : IsPayload(Payload[r])
    /\ IsFiniteSet(LegacyRuns) /\ MaxSends \in Nat
    /\ \A n \in LegacyRuns : /\ n.id \in 1..Cardinality(LegacyRuns) /\ n.fingerprint = NoRun
                             /\ \A m \in LegacyRuns : n.token = m.token /\ n.token # NoToken => n = m

SubPcs == {"idle", "lookup", "begin", "inserted", "reread", "answered", "unanswered"}
SubReqs == [pc: SubPcs, sends: Nat]

\* Two payloads that differ in formatting only.
SamePayload(p, q) ==
    [p EXCEPT !.params = Sub!Canonical(@)] = [q EXCEPT !.params = Sub!Canonical(@)]

\* The answer names a run of R that it may name.
Named(R, a) ==
    \E n \in R : /\ n.id = a.run /\ n.token = Token[a.req]
                 /\ n.fingerprint # NoRun => ((a.kind = "mismatch") <=> ~SamePayload(n.payload, Payload[a.req]))

\* Stored runs: numbered below next, and fingerprinted by what they carry.
Stored(n, next) ==
    /\ n.id \in Nat /\ n.id < next
    /\ n.fingerprint # NoRun => IsPayload(n.payload) /\ n.fingerprint = Sub!Fingerprint(n.payload)

Single(R) == \A m, n \in R : m.token = n.token /\ m.token # NoToken => m = n

\* An uncommitted insert of a token is the only one, and no run has the token.
Reserved(R, q) ==
    \A r \in Requests : q[r].pc = "inserted" /\ Token[r] # NoToken =>
        /\ \A n \in R : n.token # Token[r]
        /\ \A o \in Requests : q[o].pc = "inserted" /\ Token[o] = Token[r] => o = r

\* Answers: every one but an error names a run, and a created run is named as
\* created once.
Answered(R, A) ==
    /\ \A a \in A : a.kind # "error" => Named(R, a)
    /\ \A a, b \in A : a.kind = "created" /\ b.kind = "created" /\ a.run = b.run => a = b

SubInv ==
    /\ sub = [runs |-> sub.runs, active |-> sub.active, reqs |-> sub.reqs, answers |-> sub.answers, next |-> sub.next]
    /\ sub.active \subseteq Requests /\ sub.reqs \in [Requests -> SubReqs] /\ sub.next \in Nat
    /\ \A n \in sub.runs : Stored(n, sub.next)
    /\ Single(sub.runs) /\ Reserved(sub.runs, sub.reqs) /\ Answered(sub.runs, sub.answers)

\* A fingerprint tells payloads apart exactly up to formatting.
LEMMA FingerprintExact ==
    ASSUME NEW p, NEW q, IsPayload(p), IsPayload(q)
    PROVE  Sub!Fingerprint(p) = Sub!Fingerprint(q) <=> SamePayload(p, q)
<1> DEFINE c(x) == Sub!Canonical(x)
<1> HIDE DEF c
<1>1. ASSUME NEW x, IsPayload(x)
      PROVE  [x EXCEPT !.params = c(@)] = [def |-> x.def, params |-> c(x.params), ref |-> x.ref]
  BY <1>1 DEF IsPayload
<1>2. SamePayload(p, q) <=> [def |-> p.def, params |-> c(p.params), ref |-> p.ref]
                            = [def |-> q.def, params |-> c(q.params), ref |-> q.ref]
  BY <1>1, Zenon DEF SamePayload, c
<1>3. Sub!Fingerprint(p) = <<p.def, c(p.params), p.ref>> /\ Sub!Fingerprint(q) = <<q.def, c(q.params), q.ref>>
  BY Zenon DEF Sub!Fingerprint, c
<1> QED
  BY <1>2, <1>3

\* What a step of request r makes of the runs, of the request and of the answers.
SubState(r, R, y, A, k) ==
    [runs |-> R, active |-> sub.active, reqs |-> [sub.reqs EXCEPT ![r] = y], answers |-> A, next |-> k]

SubMove(r, R, y, A, k) ==
    /\ sub' = SubState(r, R, y, A, k)
    /\ y \in SubReqs
    /\ \/ R = sub.runs /\ k = sub.next
       \/ /\ R = sub.runs \cup {Sub!NewRun(r)} /\ k = sub.next + 1
          /\ sub.reqs[r].pc = "inserted" /\ y.pc # "inserted"
    /\ y.pc = "inserted" /\ Token[r] # NoToken =>
          /\ \A n \in R : n.token # Token[r]
          /\ \A o \in Requests : ~(sub.reqs[o].pc = "inserted" /\ Token[o] = Token[r])
    /\ \/ A = sub.answers
       \/ \E a : /\ A = sub.answers \cup {a}
                 /\ a.kind # "error" => Named(R, a)
                 /\ a.kind = "created" => a.run = sub.next

\* The run of a request, as it is stored.
LEMMA NewRunStored ==
    ASSUME SubmissionConstants, NEW r \in Requests, sub.next \in Nat
    PROVE  /\ Sub!NewRun(r).id = sub.next /\ Sub!NewRun(r).token = Token[r]
           /\ Stored(Sub!NewRun(r), sub.next + 1)
           /\ Sub!NewRun(r).payload = Payload[r]
<1> DEFINE f == IF Token[r] = NoToken THEN NoRun ELSE Sub!Fingerprint(Payload[r])
<1>1. Sub!NewRun(r) = [id |-> sub.next, token |-> Token[r], payload |-> Payload[r], fingerprint |-> f]
  BY DEF Sub!NewRun
<1> HIDE DEF f
<1>2. /\ Sub!NewRun(r).id = sub.next /\ Sub!NewRun(r).token = Token[r]
      /\ Sub!NewRun(r).payload = Payload[r] /\ Sub!NewRun(r).fingerprint = f
  BY <1>1
<1>3. f # NoRun => f = Sub!Fingerprint(Payload[r])
  BY Zenon DEF f
<1>4. sub.next < sub.next + 1
  OBVIOUS
<1> QED
  BY <1>2, <1>3, <1>4, Zenon DEF Stored, SubmissionConstants

\* A move of one request keeps the submission invariant.
LEMMA SubMoveKeeps ==
    ASSUME SubmissionConstants, SubInv, NEW r \in Requests, NEW R, NEW y, NEW A, NEW k, SubMove(r, R, y, A, k)
    PROVE  SubInv'
<1>1. /\ sub'.runs = R /\ sub'.active = sub.active /\ sub'.reqs = [sub.reqs EXCEPT ![r] = y]
      /\ sub'.answers = A /\ sub'.next = k
  BY Zenon DEF SubMove, SubState
<1>2. sub' = [runs |-> sub'.runs, active |-> sub'.active, reqs |-> sub'.reqs,
              answers |-> sub'.answers, next |-> sub'.next]
  BY <1>1, Zenon DEF SubMove, SubState
<1>3. /\ sub'.reqs \in [Requests -> SubReqs] /\ sub'.reqs[r] = y
      /\ \A o \in Requests \ {r} : sub'.reqs[o] = sub.reqs[o]
  BY <1>1, Zenon DEF SubMove, SubInv
<1> DEFINE v == Sub!NewRun(r)
<1>4. v.id = sub.next /\ v.token = Token[r] /\ Stored(v, sub.next + 1)
  BY NewRunStored DEF SubInv
<1>5. /\ \A n \in sub.runs : Stored(n, sub.next) /\ Stored(n, sub.next + 1)
      /\ sub.next \in Nat /\ sub.next + 1 \in Nat
  BY DEF SubInv, Stored
<1>6. sub.runs \subseteq R /\ \A n \in R : n \in sub.runs \/ (n = v /\ sub.reqs[r].pc = "inserted" /\ y.pc # "inserted")
  BY Zenon DEF SubMove
<1>7. k \in Nat /\ \A n \in R : Stored(n, k)
  BY <1>4, <1>5, Zenon DEF SubMove
<1> HIDE DEF v
<1>8. sub.reqs[r].pc = "inserted" /\ Token[r] # NoToken => \A n \in sub.runs : n.token # Token[r]
  BY Zenon DEF SubInv, Reserved
<1>9. Single(R)
  <2>1. Single(sub.runs)
    BY DEF SubInv
  <2> QED
    BY <1>4, <1>6, <1>8, <2>1, Zenon DEF Single
<1>10. Reserved(R, sub'.reqs)
  <2> SUFFICES ASSUME NEW s \in Requests, sub'.reqs[s].pc = "inserted", Token[s] # NoToken
               PROVE  /\ \A n \in R : n.token # Token[s]
                      /\ \A o \in Requests : sub'.reqs[o].pc = "inserted" /\ Token[o] = Token[s] => o = s
    BY Zenon DEF Reserved
  <2>1. CASE s = r
    BY <1>3, <2>1, Zenon DEF SubMove
  <2>2. CASE s # r
    <3>1. sub.reqs[s].pc = "inserted"
      BY <1>3, <2>2, Zenon
    <3>2. /\ \A n \in sub.runs : n.token # Token[s]
          /\ \A o \in Requests : sub.reqs[o].pc = "inserted" /\ Token[o] = Token[s] => o = s
      BY <3>1, Zenon DEF SubInv, Reserved
    <3>3. \A n \in R : n.token # Token[s]
      BY <1>4, <1>6, <2>2, <3>2, Zenon
    <3>4. ~(sub'.reqs[r].pc = "inserted" /\ Token[r] = Token[s])
      BY <1>3, <3>1, Zenon DEF SubMove
    <3> QED
      BY <1>3, <3>2, <3>3, <3>4, Zenon
  <2> QED
    BY <2>1, <2>2
<1>11. \A a : Named(sub.runs, a) => Named(R, a) /\ a.run # sub.next
  <2>1. \A n \in sub.runs : n.id # sub.next
    BY <1>5 DEF Stored
  <2> QED
    BY <1>6, <2>1, Zenon DEF Named
<1>12. Answered(R, A)
  <2>1. Answered(sub.runs, sub.answers)
    BY DEF SubInv
  <2>2. Answered(R, sub.answers) /\ \A a \in sub.answers : a.kind = "created" => a.run # sub.next
    <3>1. ~("created" = "error")
      OBVIOUS
    <3> QED
      BY <1>11, <2>1, <3>1, Zenon DEF Answered
  <2>3. CASE A = sub.answers
    BY <2>2, <2>3
  <2>4. ASSUME NEW a, A = sub.answers \cup {a}, a.kind # "error" => Named(R, a),
               a.kind = "created" => a.run = sub.next
        PROVE  Answered(R, A)
    BY <2>2, <2>4, Zenon DEF Answered
  <2> QED
    BY <2>3, <2>4, Zenon DEF SubMove
<1> QED
  BY <1>1, <1>2, <1>3, <1>7, <1>9, <1>10, <1>12, Zenon DEF SubInv

\* Moving a request on leaves the runs and the answers alone.
LEMMA GotoMove ==
    ASSUME SubmissionConstants, SubInv, NEW r \in Requests, NEW pc \in SubPcs, sub' = Sub!Goto(r, pc),
           pc = "inserted" /\ Token[r] # NoToken =>
               /\ \A n \in sub.runs : n.token # Token[r]
               /\ \A o \in Requests : ~(sub.reqs[o].pc = "inserted" /\ Token[o] = Token[r])
    PROVE  SubInv'
<1> DEFINE y == [sub.reqs[r] EXCEPT !.pc = pc]
<1>1. sub.reqs[r] \in SubReqs
  BY Zenon DEF SubInv
<1>2. y \in SubReqs /\ y.pc = pc
  BY <1>1 DEF SubReqs
<1>3. sub' = [sub EXCEPT !.reqs = [sub.reqs EXCEPT ![r] = y]]
  BY DEF Sub!Goto
<1> HIDE DEF y
<1>4. sub' = [runs |-> sub.runs, active |-> sub.active, reqs |-> [sub.reqs EXCEPT ![r] = y],
              answers |-> sub.answers, next |-> sub.next]
  BY <1>3 DEF SubInv
<1>5. SubMove(r, sub.runs, y, sub.answers, sub.next)
  BY <1>2, <1>4, Zenon DEF SubMove, SubState
<1> QED
  BY <1>5, SubMoveKeeps

\* The state an answer leaves.
LEMMA AnswerIs ==
    ASSUME SubInv, NEW r \in Requests, NEW kind, NEW id
    PROVE  \E y \in SubReqs :
              /\ y.pc = "answered"
              /\ Sub!Answer(r, kind, id) =
                    SubState(r, sub.runs, y, sub.answers \cup {[req |-> r, kind |-> kind, run |-> id]}, sub.next)
<1> DEFINE y == [sub.reqs[r] EXCEPT !.pc = "answered"]
           A == sub.answers \cup {[req |-> r, kind |-> kind, run |-> id]}
<1>1. sub.reqs[r] \in SubReqs
  BY Zenon DEF SubInv
<1>2. y \in SubReqs /\ y.pc = "answered"
  BY <1>1 DEF SubReqs, SubPcs
<1>3. Sub!Answer(r, kind, id) = [sub EXCEPT !.reqs = [sub.reqs EXCEPT ![r] = y], !.answers = A]
  BY DEF Sub!Answer
<1> HIDE DEF y, A
<1>4. Sub!Answer(r, kind, id) =
         [runs |-> sub.runs, active |-> sub.active, reqs |-> [sub.reqs EXCEPT ![r] = y], answers |-> A, next |-> sub.next]
  BY <1>3, Zenon DEF SubInv
<1>5. Sub!Answer(r, kind, id) = SubState(r, sub.runs, y, A, sub.next)
  BY <1>4, Zenon DEF SubState
<1> QED
  BY <1>2, <1>5, Zenon DEF A

\* An answer that commits nothing: an error, or a run the request may be told of.
LEMMA AnswerMove ==
    ASSUME SubmissionConstants, SubInv, NEW r \in Requests, NEW kind, NEW id, sub' = Sub!Answer(r, kind, id),
           kind # "created",
           kind # "error" => Named(sub.runs, [req |-> r, kind |-> kind, run |-> id])
    PROVE  SubInv'
<1> DEFINE a == [req |-> r, kind |-> kind, run |-> id]
<1>1. PICK y \in SubReqs :
         y.pc = "answered" /\ sub' = SubState(r, sub.runs, y, sub.answers \cup {a}, sub.next)
  BY AnswerIs, Zenon
<1>2. a.kind = kind /\ ~(y.pc = "inserted")
  BY <1>1
<1>3. a.kind # "error" => Named(sub.runs, a)
  BY <1>2, Zenon
<1> HIDE DEF a
<1>4. SubMove(r, sub.runs, y, sub.answers \cup {a}, sub.next)
  BY <1>1, <1>2, <1>3, Zenon DEF SubMove
<1> QED
  BY <1>4, SubMoveKeeps

\* A committed insert, told as created or not told at all.
LEMMA CommitMove ==
    ASSUME SubmissionConstants, SubInv, NEW r \in Requests, NEW kind, NEW id, sub.reqs[r].pc = "inserted",
           sub' = [Sub!Answer(r, kind, id) EXCEPT !.runs = @ \cup {Sub!NewRun(r)}, !.next = @ + 1],
           \/ kind = "error"
           \/ kind = "created" /\ id = sub.next
    PROVE  SubInv'
<1> DEFINE v == Sub!NewRun(r)
           a == [req |-> r, kind |-> kind, run |-> id]
           A == sub.answers \cup {a}
           R == sub.runs \cup {v}
<1>1. PICK y \in SubReqs :
         y.pc = "answered" /\ Sub!Answer(r, kind, id) = SubState(r, sub.runs, y, A, sub.next)
  BY AnswerIs, Zenon
<1>2. sub' = SubState(r, R, y, A, sub.next + 1)
  <2> DEFINE s == Sub!Answer(r, kind, id)
             q == [sub.reqs EXCEPT ![r] = y]
  <2>1. s = [runs |-> sub.runs, active |-> sub.active, reqs |-> q, answers |-> A, next |-> sub.next]
    BY <1>1, Zenon DEF SubState
  <2>2. sub' = [s EXCEPT !.runs = @ \cup {v}, !.next = @ + 1]
    OBVIOUS
  <2> HIDE DEF s, q, A, v
  <2>3. s.runs = sub.runs /\ s.next = sub.next
    BY <2>1, Zenon
  <2> DEFINE k == sub.next + 1
  <2>4. sub' = [s EXCEPT !.runs = R, !.next = k]
    BY <2>2, <2>3, Zenon
  <2> HIDE DEF R, k
  <2>5. sub' = [runs |-> R, active |-> sub.active, reqs |-> q, answers |-> A, next |-> k]
    BY <2>1, <2>4, Zenon
  <2> QED
    BY <2>5, Zenon DEF SubState, q, k
<1>3. a.kind = kind /\ a.run = id /\ a.req = r /\ ~(y.pc = "inserted") /\ ~("created" = "mismatch")
  BY <1>1
<1>4. v.id = sub.next /\ v.token = Token[r] /\ v.payload = Payload[r]
  BY NewRunStored DEF SubInv
<1> HIDE DEF v, a
<1>5. a.kind # "error" => Named(R, a)
  <2>1. SamePayload(v.payload, Payload[a.req])
    BY <1>3, <1>4, Zenon DEF SamePayload
  <2> QED
    BY <1>3, <1>4, <2>1, Zenon DEF Named
<1>6. a.kind = "created" => a.run = sub.next
  BY <1>3
<1>7. SubMove(r, R, y, A, sub.next + 1)
  BY <1>1, <1>2, <1>3, <1>5, <1>6, Zenon DEF SubMove, v
<1> QED
  BY <1>7, SubMoveKeeps

\* What is handed out for a run that has the token is that run, or a refusal
\* exactly when the payload is another one.
LEMMA ReuseMove ==
    ASSUME SubmissionConstants, SubInv, NEW r \in Requests, NEW run \in Sub!WithToken(Token[r]),
           sub' = Sub!CheckedReuse(r, run)
    PROVE  SubInv'
<1>1. run \in sub.runs /\ run.token = Token[r] /\ Stored(run, sub.next)
  BY Zenon DEF Sub!WithToken, SubInv
<1>2. IsPayload(Payload[r])
  BY Zenon DEF SubmissionConstants
<1>3. run.fingerprint # NoRun =>
         (run.fingerprint # Sub!Fingerprint(Payload[r]) <=> ~SamePayload(run.payload, Payload[r]))
  BY <1>1, <1>2, FingerprintExact, Zenon DEF Stored
<1> DEFINE a(kind) == [req |-> r, kind |-> kind, run |-> run.id]
<1>4. \A kind : a(kind).req = r /\ a(kind).kind = kind /\ a(kind).run = run.id
  OBVIOUS
<1> HIDE DEF a
<1>5. CASE run.fingerprint # NoRun /\ run.fingerprint # Sub!Fingerprint(Payload[r])
  <2>1. Named(sub.runs, a("mismatch"))
    BY <1>1, <1>3, <1>4, <1>5, Zenon DEF Named
  <2>2. sub' = Sub!Answer(r, "mismatch", run.id)
    BY <1>5, Zenon DEF Sub!CheckedReuse
  <2> QED
    BY <2>1, <2>2, AnswerMove DEF a
<1>6. CASE ~(run.fingerprint # NoRun /\ run.fingerprint # Sub!Fingerprint(Payload[r]))
  <2>0. ~("reused" = "mismatch")
    OBVIOUS
  <2>1. Named(sub.runs, a("reused"))
    BY <1>1, <1>3, <1>4, <1>6, <2>0, Zenon DEF Named
  <2>2. sub' = Sub!Answer(r, "reused", run.id)
    BY <1>6, Zenon DEF Sub!CheckedReuse
  <2> QED
    BY <2>1, <2>2, AnswerMove DEF a
<1> QED
  BY <1>5, <1>6

\* Every step of a request keeps the invariant.
LEMMA SubStep ==
    ASSUME SubmissionConstants, SubInv, Sub!Next
    PROVE  SubInv'
<1> USE DEF Sub!At
<1>0. PICK r \in sub.active :
         \/ Sub!Submit(r) \/ Sub!Lookup(r) \/ Sub!ReadFails(r) \/ Sub!Insert(r) \/ Sub!Commit(r)
         \/ Sub!CommitUnseen(r) \/ Sub!Rollback(r) \/ Sub!Reread(r) \/ Sub!Lost(r)
  BY Zenon DEF Sub!Next
<1>r. r \in Requests /\ sub.reqs[r] \in SubReqs
  BY Zenon DEF SubInv
<1>1. CASE Sub!Submit(r)
  <2> DEFINE y == [pc |-> "lookup", sends |-> sub.reqs[r].sends + 1]
  <2>1. y \in SubReqs /\ ~(y.pc = "inserted")
    BY <1>r DEF SubReqs, SubPcs
  <2>2. sub' = [sub EXCEPT !.reqs = [sub.reqs EXCEPT ![r] = y]]
    BY <1>1, Zenon DEF Sub!Submit
  <2> HIDE DEF y
  <2>3. sub' = SubState(r, sub.runs, y, sub.answers, sub.next)
    BY <2>2, Zenon DEF SubState, SubInv
  <2>4. SubMove(r, sub.runs, y, sub.answers, sub.next)
    BY <2>1, <2>3, Zenon DEF SubMove
  <2> QED
    BY <1>r, <2>4, SubMoveKeeps
<1>2. CASE Sub!Lookup(r)
  <2>1. CASE Token[r] = NoToken \/ Sub!WithToken(Token[r]) = {}
    <3>1. sub' = Sub!Goto(r, "begin")
      BY <1>2, <2>1, Zenon DEF Sub!Lookup
    <3> QED
      BY <1>r, <3>1, GotoMove DEF SubPcs
  <2>2. CASE ~(Token[r] = NoToken \/ Sub!WithToken(Token[r]) = {})
    <3>1. PICK run \in Sub!WithToken(Token[r]) : sub' = Sub!CheckedReuse(r, run)
      BY <1>2, <2>2, Zenon DEF Sub!Lookup
    <3> QED
      BY <1>r, <3>1, ReuseMove
  <2> QED
    BY <2>1, <2>2
<1>3. CASE Sub!ReadFails(r) \/ Sub!Rollback(r)
  <2>1. sub' = Sub!Answer(r, "error", NoRun)
    BY <1>3, Zenon DEF Sub!ReadFails, Sub!Rollback
  <2> QED
    BY <1>r, <2>1, AnswerMove, Zenon
<1>4. CASE Sub!Insert(r)
  <2>1. ~Sub!Locked(Token[r])
    BY <1>4, Zenon DEF Sub!Insert
  <2>2. CASE Token[r] # NoToken /\ Sub!WithToken(Token[r]) # {}
    <3>1. sub' = Sub!Goto(r, "reread")
      BY <1>4, <2>2, Zenon DEF Sub!Insert
    <3> QED
      BY <1>r, <3>1, GotoMove DEF SubPcs
  <2>3. CASE ~(Token[r] # NoToken /\ Sub!WithToken(Token[r]) # {})
    <3>1. sub' = Sub!Goto(r, "inserted")
      BY <1>4, <2>3, Zenon DEF Sub!Insert
    <3>2. Token[r] # NoToken =>
             /\ \A n \in sub.runs : n.token # Token[r]
             /\ \A o \in Requests : ~(sub.reqs[o].pc = "inserted" /\ Token[o] = Token[r])
      BY <2>1, <2>3, Zenon DEF Sub!Locked, Sub!WithToken
    <3>3. "inserted" \in SubPcs
      BY DEF SubPcs
    <3> QED
      BY <1>r, <3>1, <3>2, <3>3, GotoMove
  <2> QED
    BY <2>2, <2>3
<1>5. CASE Sub!Commit(r)
  <2>1. /\ sub.reqs[r].pc = "inserted"
        /\ sub' = [Sub!Answer(r, "created", sub.next) EXCEPT !.runs = @ \cup {Sub!NewRun(r)}, !.next = @ + 1]
    BY <1>5, Zenon DEF Sub!Commit
  <2> QED
    BY <1>r, <2>1, CommitMove, Zenon
<1>6. CASE Sub!CommitUnseen(r)
  <2>1. /\ sub.reqs[r].pc = "inserted"
        /\ sub' = [Sub!Answer(r, "error", NoRun) EXCEPT !.runs = @ \cup {Sub!NewRun(r)}, !.next = @ + 1]
    BY <1>6, Zenon DEF Sub!CommitUnseen
  <2> QED
    BY <1>r, <2>1, CommitMove, Zenon
<1>7. CASE Sub!Reread(r)
  <2>1. PICK run \in Sub!WithToken(Token[r]) : sub' = Sub!CheckedReuse(r, run)
    BY <1>7, Zenon DEF Sub!Reread
  <2> QED
    BY <1>r, <2>1, ReuseMove
<1>8. CASE Sub!Lost(r)
  <2>1. sub' = Sub!Goto(r, "unanswered")
    BY <1>8, Zenon DEF Sub!Lost
  <2> QED
    BY <1>r, <2>1, GotoMove DEF SubPcs
<1> QED
  BY <1>0, <1>1, <1>2, <1>3, <1>4, <1>5, <1>6, <1>7, <1>8, Zenon

\* The invariant holds of the store before any request.
LEMMA SubInit ==
    ASSUME SubmissionConstants, Sub!Init
    PROVE  SubInv
<1> DEFINE q == [r \in Requests |-> Sub!Idle]
           c == Cardinality(LegacyRuns)
<1>1. c \in Nat
  BY FS_CardinalityType, Zenon DEF SubmissionConstants
<1>2. Sub!Cardinality(LegacyRuns) = c
  BY DEF Sub!Cardinality, Cardinality, Sub!IsFiniteSet, IsFiniteSet
<1>3. PICK batch \in Batches :
         sub = [runs |-> LegacyRuns, active |-> batch, reqs |-> q, answers |-> {}, next |-> c + 1]
  BY <1>2, Zenon DEF Sub!Init
<1>4. Sub!Idle \in SubReqs /\ ~(Sub!Idle.pc = "inserted")
  BY DEF Sub!Idle, SubReqs, SubPcs
<1>5. q \in [Requests -> SubReqs] /\ \A r \in Requests : ~(q[r].pc = "inserted")
  BY <1>4, Zenon
<1> HIDE DEF q, c
<1>6. sub.runs = LegacyRuns /\ sub.active = batch /\ sub.reqs = q /\ sub.answers = {} /\ sub.next = c + 1
  BY <1>3, Zenon
<1>7. batch \subseteq Requests
  BY Zenon DEF SubmissionConstants
<1>8. ASSUME NEW n \in LegacyRuns
      PROVE  Stored(n, c + 1)
  <2>1. n.id \in 1..c /\ n.fingerprint = NoRun
    BY Zenon DEF SubmissionConstants, c
  <2>2. n.id \in Nat /\ n.id < c + 1
    BY <1>1, <2>1
  <2> QED
    BY <2>1, <2>2, Zenon DEF Stored
<1>9. Single(LegacyRuns)
  BY Zenon DEF SubmissionConstants, Single
<1>10. c + 1 \in Nat
  BY <1>1
<1>11. Reserved(sub.runs, sub.reqs) /\ Answered(sub.runs, sub.answers)
  BY <1>5, <1>6, Zenon DEF Reserved, Answered
<1> QED
  BY <1>3, <1>5, <1>6, <1>7, <1>8, <1>9, <1>10, <1>11, Zenon DEF SubInv

\* Submission, for any requests, tokens and payloads, any interleaving of the
\* handlers and any failures: a token names at most one run, an answer names
\* the run the request asked for (or the one that has its token with another
\* payload, exactly when it says so), and no run and no token is announced as
\* created twice (handleSubmitRun, CreateRun, checkedReuse).
THEOREM SubmissionTheorem ==
    ASSUME SubmissionConstants
    PROVE  Sub!Spec => [](Sub!OneRunPerToken /\ Sub!AnswersNameTheRun /\ Sub!CreatedOnce)
<1>1. Sub!Init => SubInv
  BY SubInit
<1>2. SubInv /\ [Sub!Next]_sub => SubInv'
  <2>1. CASE Sub!Next
    BY <2>1, SubStep
  <2>2. ASSUME SubInv, UNCHANGED sub
        PROVE  SubInv'
    BY <2>2 DEF SubInv, Stored, Reserved, Single, Answered, Named
  <2> QED
    BY <2>1, <2>2
<1>3. SubInv => Sub!OneRunPerToken /\ Sub!AnswersNameTheRun /\ Sub!CreatedOnce
  <2> SUFFICES ASSUME SubInv
               PROVE  Sub!OneRunPerToken /\ Sub!AnswersNameTheRun /\ Sub!CreatedOnce
    OBVIOUS
  <2>1. Single(sub.runs) /\ Answered(sub.runs, sub.answers)
    BY DEF SubInv
  <2>2. Sub!OneRunPerToken
    BY <2>1, Zenon DEF Single, Sub!OneRunPerToken, Sub!Tokened
  <2>3. Sub!AnswersNameTheRun
    BY <2>1, Zenon DEF Answered, Named, SamePayload, Sub!AnswersNameTheRun
  <2>4. Sub!CreatedOnce
    <3>0. ~("created" = "error")
      OBVIOUS
    <3>1. ASSUME NEW a \in sub.answers, NEW b \in sub.answers, a.kind = "created", b.kind = "created",
                 Token[a.req] # NoToken, Token[a.req] = Token[b.req]
          PROVE  a = b
      <4>1. PICK m \in sub.runs : m.id = a.run /\ m.token = Token[a.req]
        BY <2>1, <3>0, <3>1, Zenon DEF Answered, Named
      <4>2. PICK n \in sub.runs : n.id = b.run /\ n.token = Token[b.req]
        BY <2>1, <3>0, <3>1, Zenon DEF Answered, Named
      <4>3. m = n
        BY <2>1, <3>1, <4>1, <4>2, Zenon DEF Single
      <4> QED
        BY <2>1, <3>1, <4>1, <4>2, <4>3, Zenon DEF Answered
    <3> QED
      BY <2>1, <3>1, Zenon DEF Answered, Sub!CreatedOnce
  <2> QED
    BY <2>2, <2>3, <2>4
<1> QED
  BY <1>1, <1>2, <1>3, PTL DEF Sub!Spec

=============================================================================
