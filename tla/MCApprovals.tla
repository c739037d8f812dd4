---------------------------- MODULE MCApprovals -----------------------------
(* Gates as validation accepts them, in runs with and without a deadline.   *)
EXTENDS ApprovalTimeouts

Config(allowed, onTimeout, onReject, allowEdit) ==
    [allowed |-> allowed, onTimeout |-> onTimeout, onReject |-> onReject,
     allowEdit |-> allowEdit, timeout |-> 1]

\* Every policy, the unset one included, with a deadline before, at and after
\* the expiry of a second approval.
Policies ==
    {[cfg |-> Config({}, "approve", "route", TRUE), deadline |-> Never],
     [cfg |-> Config({}, "", "fail", FALSE), deadline |-> Never],
     [cfg |-> Config({}, "park", "fail", TRUE), deadline |-> 3],
     [cfg |-> Config({"approve"}, "approve", "fail", TRUE), deadline |-> 2]}

\* A gate that allows no rejection and leaves on_timeout to its default.
ApproveOnly == {[cfg |-> Config({"approve"}, "", "fail", FALSE), deadline |-> Never]}

\* A decided, expired or cancelled approval never changes again.
ApprovalsDecidedOnce == [][OneVerdict]_gate

\* The gate as its approval, its verdict and the run's clock see it: a timeout never
\* fires before its time, a verdict is one the gate allows, a gate waits exactly for
\* its pending approval, and an expiry parks the run once.
GateHolds == NeverEarly /\ VerdictAllowed /\ WaitsForItsApproval /\ ParksOnce

\* A gate does not outlive its timeout, nor a run its deadline.
ClocksEnforced == TimeoutFires /\ DeadlineEnforced
=============================================================================
