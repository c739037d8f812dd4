----------------------------- MODULE MCSystem ------------------------------
(* One behaviour for each part: the services, the API and the requests.     *)
EXTENDS MCRequests

vars == <<part, serviceVars, gatewayVars, requestVars>>

Init == part \in Parts /\ ServicesInit /\ GatewayInit /\ RequestsInit

Next ==
    /\ \/ ServicesNext /\ UNCHANGED <<gatewayVars, requestVars>>
       \/ GatewayNext /\ UNCHANGED <<serviceVars, requestVars>>
       \/ RequestsNext /\ UNCHANGED <<serviceVars, gatewayVars>>
    /\ UNCHANGED part

\* Worker slots, and API requests, differ in nothing but their names.
CallersAlike == Permutations(Workers) \cup Permutations(Clients)

Spec == Init /\ [][Next]_vars

-----------------------------------------------------------------------------
(* The remaining properties are those of MCServices and MCRequests.          *)

\* What is spent is accounted for: the ledger of the attempts is exact, each row
\* carries the price in force, estimates bound it, and summaries and judges are on it.
SpendAccounted == AttemptsMetered /\ PricesHold /\ SpendMetered

\* An output that a step succeeds with is valid for that step, whether it was
\* answered, repaired, retried under feedback or served from the cache.
OutputsValid == AttemptsJudged /\ CallsAgree /\ RepairIsFaithful

\* A write that a client repeats or that races another client's takes effect once.
WritesOnce == SubmitsOnce /\ RegistryLinear

\* Pages that are read while their rows come and go leave nothing out.
PagesComplete == ListsExact /\ LogsAccounted

\* Retries, of steps and of notifications, keep to their policies.
RetriesBounded == RetriesFollowPolicy /\ NotificationsTrue

\* No attempt that was taken over writes to the board, no stored version changes,
\* and no revocation is taken back.
NothingTakenBack ==
    [][/\ part = "board" => B!WritesAreFenced
       /\ part = "reg" => Reg!RowsKept
       /\ part = "cred" => Cred!RevocationKept]_vars
=============================================================================
