----------------------------- MODULE MCReplicas -----------------------------
(* Three agents, one parameter and two nodes: a validator, whose CometBFT   *)
(* may be relaunched, and a light node.                                     *)
EXTENDS Replicas, TLC

CONSTANTS snort, suricata, zeek, sqli, validator0, light0

MCAgent == {snort, suricata, zeek}
MCParam == {sqli}
MCNode == {validator0, light0}
MCSupervised == {validator0}

Symmetry == Permutations(MCAgent)
=============================================================================
