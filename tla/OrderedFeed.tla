----------------------------- MODULE OrderedFeed -----------------------------
(* What the event feed promises its client (ADR-018): the log of a run only *)
(* grows, and the client is given its events in order, each one once.       *)
EXTENDS Naturals

VARIABLES log, seen

Init == log = 0 /\ seen = 0

Append == log' > log /\ seen' = seen

Receive == seen < log /\ seen' = seen + 1 /\ log' = log

Next == Append \/ Receive

Spec == Init /\ [][Next]_<<log, seen>>
=============================================================================
