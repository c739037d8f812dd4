----------------------------- MODULE MCRunGraph -----------------------------
(* Two small runs for module RunGraph; part says which one a behaviour is,   *)
(* and the rows of the other stay as they were created.                      *)
EXTENDS RunGraph

CONSTANT Parts
VARIABLES part, fork  \* fork: the second run's rows

Ends(E, k) == [e \in E |-> e[k]]

\* The first: a source with two arms, one of them a gate, which a join of mode any
\* collects; the first failure ends the run.
DiamondEdges == {<<"a", "b">>, <<"a", "c">>, <<"b", "j">>, <<"c", "j">>}
DiamondSrc == Ends(DiamondEdges, 1)
DiamondDst == Ends(DiamondEdges, 2)
DiamondConditional == {<<"a", "b">>}
DiamondRejects == {<<"c", "j">>}

\* The second: two roots, the second a branch, a join of both, and a map instance
\* behind the second; independent branches go on after a failure.
ForkEdges == {<<"a", "j">>, <<"b", "j">>, <<"b", "z">>}

F == INSTANCE RunGraph WITH
        db <- fork, Steps <- {"a", "b", "j", "z"}, Edges <- ForkEdges,
        Src <- Ends(ForkEdges, 1), Dst <- Ends(ForkEdges, 2),
        Conditional <- {<<"b", "z">>}, Branch <- {"b"}, JoinAny <- {}, Gates <- {},
        RejectEdges <- {}, OnReject <- "fail", OnTimeout <- "none", Collect <- {"z"},
        OnFailure <- "continue_independent_branches",
        MaxAttempts <- 1, MaxSemantic <- 2, MaxRequeues <- 2

MCInit == part \in Parts /\ Init /\ F!Init

MCNext ==
    \/ part = "diamond" /\ Next /\ UNCHANGED <<part, fork>>
    \/ part = "fork" /\ F!Next /\ UNCHANGED <<part, db>>

MCSpec == MCInit /\ [][MCNext]_<<part, db, fork>>

-----------------------------------------------------------------------------
\* The run whose independent branches go on has all of it: counters, order, progress
\* and outcomes as in the first run, and a dead letter leaves no step behind that can
\* never run.
BranchesGoOn ==
    part = "fork" =>
        /\ F!TypeOK /\ F!CountersMatch /\ F!FollowsTheGraph /\ F!NeverStuck
        /\ F!OutcomesJustified /\ F!NoLimbo
=============================================================================
