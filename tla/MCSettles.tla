----------------------------- MODULE MCSettles ------------------------------
(* What must happen to a run in the end, over the rows alone (part "join")   *)
(* and over the rows with their queue, workers and losses (part "queue").    *)
EXTENDS Integers, FiniteSets

CONSTANTS Parts, w1, None, MaxLosses

VARIABLES part, db, claim, attempt, stream, group, delayed, worker, losses

\* Two roots, the first a gate, and a join of both.
JoinSteps == {"a", "b", "j"}
JoinEdges == {<<"a", "j">>, <<"b", "j">>}

J == INSTANCE RunGraph WITH
        Steps <- JoinSteps, Edges <- JoinEdges,
        Src <- [e \in JoinEdges |-> e[1]], Dst <- [e \in JoinEdges |-> e[2]],
        Conditional <- {<<"a", "j">>}, Branch <- {}, JoinAny <- {}, Gates <- {"a"},
        RejectEdges <- {}, OnReject <- "fail", OnTimeout <- "reject", Collect <- {"b"},
        OnFailure <- "continue_independent_branches",
        MaxAttempts <- 1, MaxSemantic <- 1, MaxRequeues <- 0

\* One step, one worker.
Q == INSTANCE Dispatch WITH
        rows <- db, Steps <- {"a"}, Edges <- {},
        Src <- [e \in {} |-> "a"], Dst <- [e \in {} |-> "a"],
        Conditional <- {}, Branch <- {}, JoinAny <- {}, Gates <- {},
        RejectEdges <- {}, OnReject <- "fail", OnTimeout <- "none", Collect <- {},
        OnFailure <- "fail_fast", MaxAttempts <- 2, MaxSemantic <- 1, MaxRequeues <- 0,
        Workers <- {w1}, Entries <- {1, 2}, Claims <- {1, 2}, PoisonThreshold <- 2,
        RunOps <- {"cancel"}

queueVars == <<claim, attempt, stream, group, delayed, worker, losses>>
vars == <<part, db, queueVars>>

NoQueue ==
    /\ claim = <<>> /\ attempt = <<>> /\ stream = <<>> /\ group = TRUE
    /\ delayed = {} /\ worker = <<>> /\ losses = 0

Init == part \in Parts /\ IF part = "join" THEN J!Init /\ NoQueue ELSE Q!Init

InJoin(act) == part = "join" /\ act /\ UNCHANGED <<part, queueVars>>
InQueue(act) == part = "queue" /\ act /\ UNCHANGED part

Next == InJoin(J!Next) \/ InQueue(Q!Next)

\* Each component's own fairness; some consumer starts again after Redis lost
\* its data.  (A behaviour has one part: a condition on two disjuncts of
\* different parts is a condition on each.)
Fairness ==
    /\ SF_vars(\/ InJoin(\E s \in JoinSteps : J!Claim(s))
               \/ InQueue(Q!HandleClaim(w1) \/ Q!HandleDrop(w1) \/ Q!HandleTakeover(w1)))
    /\ SF_vars(\/ InJoin(db.run # "cancelling" /\ \E s \in JoinSteps : J!Complete(s))
               \/ InQueue(Q!Reports(w1)))
    /\ WF_vars(InJoin(\E s \in JoinSteps : J!BackoffElapses(s)) \/ InQueue(Q!BackoffElapses("a")))
    /\ WF_vars(InJoin(\E s \in JoinSteps : J!ReconcileDispatch(s)) \/ InQueue(Q!ReconcileDispatch("a")))
    /\ WF_vars(InJoin(\E s \in JoinSteps : J!HealCancellingStep(s)) \/ InQueue(Q!HealCancellingStep("a")))
    /\ SF_vars(InQueue(Q!DrainOnce("a", TRUE))) /\ WF_vars(InQueue(Q!PromoteDue("a")))
    /\ WF_vars(InQueue(Q!ReconcileRunning("a")))
    /\ \A e \in {1, 2} : SF_vars(InQueue(Q!Read(w1, e) \/ Q!Reclaim(w1, e)))
    /\ SF_vars(InQueue(Q!TakeoverAndClaim(w1) \/ Q!TakeoverDrop(w1)))
    /\ WF_vars(InQueue(Q!AbandonFenced(w1)))
    /\ SF_vars(InQueue(Q!Poison(w1))) /\ SF_vars(InQueue(Q!Ack(w1)))
    /\ WF_vars(InQueue(Q!Schedule(w1, TRUE))) /\ WF_vars(InQueue(Q!Restart(w1)))

Spec == Init /\ [][Next]_vars /\ Fairness

-----------------------------------------------------------------------------
\* A run does not stay running for ever unless a gate waits for a human: lost
\* entries, takeovers, retries, dead letters and the loss of all of Redis's
\* data lead to a rollup.
RunSettles ==
    ~<>[](db.run = "running" /\ \A s \in DOMAIN db.step : db.step[s] # "awaiting_human")

\* A requested cancel is finalized: by the last completion, or by the
\* reconciler's heal if every holder died.
CancelCompletes == db.run = "cancelling" ~> db.run = "cancelled"

\* Every run ends, but for a gate that waits: both of the above.
RunEnds == RunSettles /\ CancelCompletes
=============================================================================
