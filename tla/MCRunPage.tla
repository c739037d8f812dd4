----------------------------- MODULE MCRunPage -----------------------------
(* Two small runs for module RunPage; part says which one a behaviour is.   *)
EXTENDS Naturals, Sequences

CONSTANTS Parts, CancelDuringSweep, MaxClaims, MaxHeard

VARIABLES part, d, sweep, page

\* A gate and a task of a map, which a join collects; nobody watches.
J == INSTANCE RunPage WITH
        Steps <- {"g", "b", "j"}, Edges <- {1, 2}, Src <- <<"g", "b">>, Dst <- <<"j", "j">>,
        Conditional <- {2}, Branch <- {}, JoinAny <- {}, Gates <- {"g"}, RejectEdges <- {1},
        OnReject <- "route", OnTimeout <- "reject", Collect <- {"b"},
        OnFailure <- "continue_independent_branches",
        MaxAttempts <- 2, MaxSemantic <- 1, MaxRequeues <- 0, MaxHeard <- 0

\* A gate and a task behind it, on a page.
W == INSTANCE RunPage WITH
        Steps <- {"g", "b"}, Edges <- {1}, Src <- <<"g">>, Dst <- <<"b">>,
        Conditional <- {}, Branch <- {}, JoinAny <- {}, Gates <- {"g"}, RejectEdges <- {},
        OnReject <- "fail", OnTimeout <- "park", Collect <- {},
        OnFailure <- "continue_independent_branches",
        MaxAttempts <- 2, MaxSemantic <- 1, MaxRequeues <- 1

pageVars == <<d, sweep, page>>

PageInit ==
    \/ part = "join" /\ J!Init
    \/ part = "page" /\ W!Init
    \/ part \notin {"join", "page"} /\ d = <<>> /\ sweep = {} /\ page = <<>>

PageNext == (part = "join" /\ J!Next) \/ (part = "page" /\ W!Next)

-----------------------------------------------------------------------------

\* The attempt and approval rows agree with the step rows.
LedgerMatches == part = "join" => J!LedgerMatches

\* The current holder's completion meets no conflict and no integrity error.
HolderNeverRefused == part = "join" => J!HolderNeverRefused

\* No rollup is missed: the states ListStalledRuns calls impossible do not occur.
RowsNeverStall ==
    /\ part = "join" => J!NeverStalled
    /\ part = "page" => W!NeverStalled

\* A page that has heard every event shows the run and its steps as they are.
ViewHeals == part = "page" => W!ViewHeals

\* It shows the approvals as they are, but for an expiry in a parked run.
ApprovalsHeal == part = "page" => W!ApprovalsHeal

\* A claim taken since the reconciler's scan survives its heal.
FreshClaimSurvives ==
    [][\A e \in sweep \ sweep' : d.step[e.step].claim # e.claim => d' = d]_pageVars

\* The statements and worklists implement RunGraph's transactions.  (The rows move
\* alike whether or not a page is open.)
ImplementsRunGraph ==
    /\ part = "join" => J!RG!Init
    /\ part = "page" => W!RG!Init
    /\ [][/\ part = "join" => J!RG!Next \/ UNCHANGED J!Rows
          /\ part = "page" /\ page = W!Closed => W!RG!Next \/ UNCHANGED W!Rows]_pageVars
=============================================================================
