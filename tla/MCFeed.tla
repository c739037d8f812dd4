-------------------------------- MODULE MCFeed -------------------------------
(* The two WebSocket endpoints, checked side by side: part says which one a  *)
(* behaviour exercises, and the variables of the other stay as they are.     *)
EXTENDS EventFeed

CONSTANTS Runs, SubIds, HubBuffer, MaxSubscriptions, MaxTrackedRuns, MetaLimit, PollLimit,
          MaxControls, r1, r2

VARIABLES part, heads, stamp, dbUp, bus, hub, inbox, fh, budget

\* r1 starts and fails, r2 only starts; each has a definition of its own.
Script == [r \in Runs |-> IF r = r1 THEN <<"run_created", "run_failed">> ELSE <<"run_created">>]
DefOf == [r \in Runs |-> IF r = r1 THEN "a" ELSE "b"]
AllTypes == {"run_created", "run_failed"}
Requests ==
    {[filter |-> [runs |-> Runs, types |-> AllTypes, def |-> "any"], cursors |-> <<>>],
     [filter |-> [runs |-> {r1}, types |-> {"run_failed"}, def |-> "a"], cursors |-> [r \in {r1} |-> 1]]}

F == INSTANCE Firehose

fhVars == <<heads, stamp, dbUp, bus, hub, inbox, fh, budget>>
vars == <<part, feedVars, fhVars>>

MCInit == part \in {"ws", "firehose"} /\ Init /\ F!Init

WsNext == part = "ws" /\ Next /\ UNCHANGED <<part, fhVars>>
FhNext == part = "firehose" /\ F!Next /\ UNCHANGED <<part, feedVars>>

MCFairness ==
    /\ WF_vars(part = "ws" /\ Driver /\ UNCHANGED <<part, fhVars>>)
    /\ WF_vars(part = "ws" /\ WriteFrame /\ UNCHANGED <<part, fhVars>>)
    /\ WF_vars(part = "ws" /\ Connect /\ UNCHANGED <<part, fhVars>>)
    /\ WF_vars(part = "firehose" /\ F!DbComesBack /\ UNCHANGED <<part, feedVars>>)
    /\ WF_vars(part = "firehose" /\ F!ResyncTick /\ UNCHANGED <<part, feedVars>>)
    /\ []<>(fh.busy = "")

MCSpec == MCInit /\ [][WsNext \/ FhNext]_vars /\ MCFairness

-----------------------------------------------------------------------------
(* The properties of the two components, beside EventFeed's own; a           *)
(* behaviour of one part leaves the other in its initial state.              *)

\* No matching event is missing behind a firehose tail; tracked runs stay within
\* MaxTrackedRuns and can be evicted; the hub's subscription lives exactly as long
\* as it has clients.
NoHoleBehindTail ==
    F!TypeOK /\ F!NoHoleBehindTail /\ F!TrackingBounded /\ F!StreamOutlivesItsClients

\* The run WebSocket's client, and every firehose tail that is not marked
\* terminal, reaches the head of the log without help from pub/sub.
BecomesCurrent == (part = "ws" => ClientBecomesCurrent) /\ F!TailsHeal
=============================================================================
