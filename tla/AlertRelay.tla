----------------------------- MODULE AlertRelay -----------------------------
(***************************************************************************)
(* What an IDS's alert_forwarder.py promises, however many workers it has: *)
(* alerts are handed to the API in any order and possibly more than once,  *)
(* none is lost but those it gave up, and none is both accepted and given  *)
(* up.  AlertForwarder implements it; Response uses it as the channel from *)
(* each IDS to the API of its node.                                        *)
(***************************************************************************)
CONSTANT Alert    \* the alerts there may be

VARIABLES
    offered,    \* the alerts taken from the log
    handled,    \* those the API received at least once
    accepted,   \* those the API acknowledged to the forwarder
    dropped     \* those the forwarder gave up

vars == <<offered, handled, accepted, dropped>>

Init == offered = {} /\ handled = {} /\ accepted = {} /\ dropped = {}

Offer(i) ==
    /\ i \notin offered
    /\ offered' = offered \cup {i}
    /\ UNCHANGED <<handled, accepted, dropped>>

\* The API receives a group of alerts, and nobody learns of it.
Deliver(S) ==
    /\ handled' = handled \cup S
    /\ UNCHANGED <<offered, accepted, dropped>>

\* The API receives a group of alerts and its answer arrives.
DeliverAndAccept(S) ==
    /\ S \cap (accepted \cup dropped) = {}
    /\ handled' = handled \cup S
    /\ accepted' = accepted \cup S
    /\ UNCHANGED <<offered, dropped>>

GiveUp(S) ==
    /\ S \cap (accepted \cup dropped) = {}
    /\ dropped' = dropped \cup S
    /\ UNCHANGED <<offered, handled, accepted>>

Next ==
    \/ \E i \in Alert : Offer(i)
    \/ \E S \in SUBSET offered :
           Deliver(S) \/ DeliverAndAccept(S) \/ GiveUp(S)

Spec == Init /\ [][Next]_vars
=============================================================================
