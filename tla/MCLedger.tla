------------------------------ MODULE MCLedger ------------------------------
(* Three IDS agents, two parameters and the values 0, 1 and 2 (the API adds *)
(* up the values of a batch, so a vote may exceed 1).                       *)
EXTENDS Ledger, TLC

CONSTANTS snort, suricata, zeek, sqli, xss

MCAgent == {snort, suricata, zeek}
MCParam == {sqli, xss}
MCValue == 0..2

Symmetry == Permutations(MCAgent) \cup Permutations(MCParam)
=============================================================================
