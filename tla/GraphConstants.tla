--------------------------- MODULE GraphConstants ---------------------------
(* What is fixed of a run once it is created: its graph and its policies.   *)
EXTENDS Integers, FiniteSets

CONSTANTS
    Steps,        \* the run's step ids
    Edges,        \* ordinals of the normal edges
    Src, Dst,     \* the two ends of an edge
    Conditional,  \* edges that carry a `when` predicate
    Branch,       \* steps of type branch: first match only
    JoinAny,      \* join steps of mode any
    Gates,        \* human_approval steps
    RejectEdges,  \* edges marked `decision: reject`
    OnReject,     \* reject routing of the gates: "fail" or "route"
    OnTimeout,    \* expiry policy of the gates: "none", "approve", "reject", "park"
    Collect,      \* map instances under on_item_failure: collect_errors
    OnFailure,    \* "fail_fast" or "continue_independent_branches"
    MaxAttempts,  \* transport budget of the retry policy
    MaxSemantic,  \* budget of the validation policy
    MaxRequeues   \* bound: how often an operator requeues from the DLQ

ASSUME GraphAssumption ==
    /\ IsFiniteSet(Steps) /\ Steps # {} /\ IsFiniteSet(Edges)
    /\ Src \in [Edges -> Steps] /\ Dst \in [Edges -> Steps]
    /\ Conditional \subseteq Edges /\ RejectEdges \subseteq Edges
    /\ Branch \subseteq Steps /\ JoinAny \subseteq Steps
    /\ Gates \subseteq Steps /\ Collect \subseteq Steps

ASSUME PolicyAssumption ==
    /\ OnReject \in {"fail", "route"}
    /\ OnTimeout \in {"none", "approve", "reject", "park"}
    /\ OnFailure \in {"fail_fast", "continue_independent_branches"}
    /\ MaxAttempts \in Nat \ {0} /\ MaxSemantic \in Nat \ {0}
    /\ MaxRequeues \in Nat
=============================================================================
