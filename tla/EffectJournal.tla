---------------------------- MODULE EffectJournal ----------------------------
(* One side effect of one step, journaled by internal/exec/effects: record   *)
(* the intent, call the external service, record the result. Every claim of  *)
(* the step is an attempt with its own StepJournal; after a takeover the     *)
(* attempts run at the same time. The journal row is read and written by     *)
(* short transactions whose statements interleave under PostgreSQL's row     *)
(* locks; a crash rolls the open one back.                                   *)
EXTENDS Naturals, FiniteSets

CONSTANTS
    N,          \* attempts of the step, claimed in order
    MaxFaults   \* crashes and failed statements

VARIABLES
    row,      \* the committed side_effects row
    lock,     \* the attempt whose transaction holds the row lock, or 0
    pend,     \* the attempt with an uncommitted insert, or 0
    att,      \* attempt -> its control state
    service,  \* the external service: requests seen, effects applied by key
    faults

vars == <<row, lock, pend, att, service, faults>>

Attempts == 1..N
NoRow == [status |-> "none", result |-> 0]

\* pc: unclaimed, begin, absent (saw no row), locked (holds the row lock),
\* inserted (insert not committed), intent (token in hand), fired (service
\* answered), finished, failed, raced (lost the insert race, second pass).
\* late marks an attempt that began after the result was committed.
Fresh == [pc |-> "unclaimed", tries |-> 0, result |-> 0, late |-> FALSE]

Set(a, new) == att' = [att EXCEPT ![a] = new]

Init ==
    /\ row = NoRow
    /\ lock = 0 /\ pend = 0
    /\ att = [a \in Attempts |-> Fresh]
    /\ service = [requests |-> 0, applied |-> [k \in Attempts \cup {0} |-> 0]]
    /\ faults = 0

\* The step is claimed, by a first claim, a retry or a takeover: nothing says
\* the attempts before it have stopped.
Claim(a) ==
    /\ att[a].pc = "unclaimed" /\ \A b \in 1..(a - 1) : att[b].pc # "unclaimed"
    /\ Set(a, [Fresh EXCEPT !.pc = "begin"])
    /\ UNCHANGED <<row, lock, pend, service, faults>>

-----------------------------------------------------------------------------
(* Begin: at most two passes, each one transaction. *)

\* SELECT ... FOR UPDATE waits for the lock; an absent row locks nothing.
GetForUpdate(a) ==
    /\ att[a].pc = "begin" /\ lock = 0
    /\ LET late == row.status = "done"
       IN  IF row.status = "none"
           THEN Set(a, [att[a] EXCEPT !.pc = "absent", !.late = late]) /\ UNCHANGED lock
           ELSE Set(a, [att[a] EXCEPT !.pc = "locked", !.late = late]) /\ lock' = a
    /\ UNCHANGED <<row, pend, service, faults>>

\* The row is there: a recorded result ends the attempt without a call, an
\* intent is taken over.
BranchOnRow(a) ==
    /\ att[a].pc = "locked"
    /\ IF row.status = "done"
       THEN Set(a, [att[a] EXCEPT !.pc = "finished", !.result = row.result])
       ELSE Set(a, [att[a] EXCEPT !.pc = "intent"])
    /\ lock' = 0
    /\ UNCHANGED <<row, pend, service, faults>>

\* INSERT waits for another's uncommitted insert, conflicts with a committed
\* row, and the first conflict starts the second pass.
InsertIntent(a) ==
    /\ att[a].pc = "absent" /\ pend = 0
    /\ IF row.status = "none"
       THEN Set(a, [att[a] EXCEPT !.pc = "inserted"]) /\ pend' = a
       ELSE /\ Set(a, [att[a] EXCEPT !.pc = IF att[a].tries = 0 THEN "begin" ELSE "raced",
                                     !.tries = @ + 1])
            /\ UNCHANGED pend
    /\ UNCHANGED <<row, lock, service, faults>>

CommitIntent(a) ==
    /\ att[a].pc = "inserted"
    /\ row' = [status |-> "intent", result |-> 0]
    /\ pend' = 0
    /\ Set(a, [att[a] EXCEPT !.pc = "intent"])
    /\ UNCHANGED <<lock, service, faults>>

-----------------------------------------------------------------------------
(* The external call and Complete. *)

\* effects.Key: the same for every attempt of the step.
Key(a) == 0

\* A service that dedupes on the key applies the effect of a repeated key once.
\* What it answers is its own: here the number of the request.
Apply(k) ==
    LET n == service.requests + 1
    IN  service' = [requests |-> n,
                    applied |-> IF service.applied[k] = 0
                                THEN [service.applied EXCEPT ![k] = n] ELSE service.applied]

Fire(a) ==
    /\ att[a].pc = "intent"
    /\ Apply(Key(a))
    /\ Set(a, [att[a] EXCEPT !.pc = "fired", !.result = service.requests + 1])
    /\ UNCHANGED <<row, lock, pend, faults>>

\* fn returns an error: the service may have acted, the intent dangles.
FireFails(a) ==
    /\ att[a].pc = "intent"
    /\ faults < MaxFaults /\ faults' = faults + 1
    /\ Apply(Key(a)) \/ UNCHANGED service
    /\ Set(a, [att[a] EXCEPT !.pc = "failed"])
    /\ UNCHANGED <<row, lock, pend>>

LastWriterWins(a) ==
    /\ att[a].pc = "fired" /\ lock = 0
    /\ row' = [status |-> "done", result |-> att[a].result]
    /\ Set(a, [att[a] EXCEPT !.pc = "finished"])
    /\ UNCHANGED <<lock, pend, service, faults>>

\* UPDATE ... WHERE status = 'intent': the first result stays, and a later
\* completer reads it back.
Complete(a) ==
    /\ att[a].pc = "fired" /\ lock = 0
    /\ IF row.status = "intent"
       THEN /\ row' = [status |-> "done", result |-> att[a].result]
            /\ Set(a, [att[a] EXCEPT !.pc = "finished"])
       ELSE /\ row.status = "done"
            /\ Set(a, [att[a] EXCEPT !.pc = "finished", !.result = row.result])
            /\ UNCHANGED row
    /\ UNCHANGED <<lock, pend, service, faults>>

\* The result's commit failed, or reached the database and its answer was
\* lost: the attempt fails either way.
CompleteFails(a) ==
    /\ att[a].pc = "fired" /\ lock = 0
    /\ faults < MaxFaults /\ faults' = faults + 1
    /\ row' \in {row, IF row.status = "intent" THEN [status |-> "done", result |-> att[a].result] ELSE row}
    /\ Set(a, [att[a] EXCEPT !.pc = "failed"])
    /\ UNCHANGED <<lock, pend, service>>

\* The process dies: PostgreSQL rolls its open transaction back.
Crash(a) ==
    /\ att[a].pc \in {"begin", "absent", "locked", "inserted", "intent", "fired"}
    /\ faults < MaxFaults /\ faults' = faults + 1
    /\ Set(a, [att[a] EXCEPT !.pc = "failed"])
    /\ lock' = IF lock = a THEN 0 ELSE lock
    /\ pend' = IF pend = a THEN 0 ELSE pend
    /\ UNCHANGED <<row, service>>

Next ==
    \E a \in Attempts :
        \/ Claim(a) \/ GetForUpdate(a) \/ BranchOnRow(a) \/ InsertIntent(a) \/ CommitIntent(a)
        \/ Fire(a) \/ FireFails(a) \/ Complete(a) \/ CompleteFails(a) \/ Crash(a)

Spec == Init /\ [][Next]_vars

-----------------------------------------------------------------------------
\* Control states, row and lock have their types.
TypeOK ==
    /\ row.status \in {"none", "intent", "done"} /\ row.result \in Nat
    /\ lock \in 0..N /\ pend \in 0..N
    /\ \A a \in Attempts :
        att[a].pc \in {"unclaimed", "begin", "absent", "locked", "inserted", "intent",
                       "fired", "finished", "failed", "raced"}

\* Every attempt that got a result got the same one, the journaled one, even
\* when two of them called the service and raced to record it
\* (effects.go:247-254).
ResultsAgree ==
    \A a \in Attempts : att[a].pc = "finished" => row.status = "done" /\ att[a].result = row.result

\* At a service that dedupes on the idempotency key the effect is applied once,
\* whatever crashes, retries and takeovers happen (effects.go:9-16).
EffectAppliedOnce ==
    Cardinality({k \in DOMAIN service.applied : service.applied[k] # 0}) <= 1

\* An attempt that starts after the result was committed never calls the
\* service (effects.go:183-185).
LateAttemptsDoNotFire ==
    \A a \in Attempts : att[a].late => att[a].pc \notin {"intent", "fired"}

\* The second pass of Begin always finds the row that beat the first one: no
\* attempt loses the insert race twice (effects.go:194-195, 244).
RaceLostOnce == \A a \in Attempts : att[a].pc # "raced"
=============================================================================
