----------------------------- MODULE MCSpsNode -----------------------------
(* Inputs for small nodes.  Filter*: three concurrent requests of the IDS   *)
(* agent snort at light0, with batches of one and of two types, a recovery, *)
(* a reset, an unknown type, and /stress.  Delivery*: two votes on their    *)
(* way over two validators, one of which may exit.  Recovery*, Order*,      *)
(* Gone* and Sum*: the two batches it takes to contradict a comment or a    *)
(* document.                                                                *)
EXTENDS SpsNode, TLC

CONSTANTS snort, suricata, light0, sqli, xss, r1, r2, r3, validator0, validator1

MCAgent == {snort, light0}

Alerts(sums, n) == [agent |-> snort, safe |-> FALSE, sums |-> sums, size |-> n]

Attack   == Alerts(sqli :> 1, 1)
Recovery == Alerts(sqli :> 0, 1)
Unknown  == Alerts(<< >>, 1)
Safe     == [Unknown EXCEPT !.safe = TRUE]

FilterInput == {Attack, Recovery, Alerts(sqli :> 1 @@ xss :> 1, 2), Safe, Unknown}
FilterStress == {<< >>, xss :> 1}

DeliveryBatch  == {Attack}
DeliveryStress == {sqli :> 1}

RecoveryBatch == {Attack, Recovery}
GoneBatch     == {Attack, Alerts(xss :> 1, 1)}
OrderBatch    == {Attack, Safe}

\* One alert of snort, two of suricata in one batch, on the same attack.
SumBatch == {Attack, [Alerts(sqli :> 2, 2) EXCEPT !.agent = suricata]}
SumAgent == {snort, suricata, light0}

FilterRequest   == {r1, r2, r3}
DeliveryRequest == {r1, r2}
FilterSymmetry  == Permutations(FilterRequest)
=============================================================================
