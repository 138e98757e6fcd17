----------------------------- MODULE MCContract -----------------------------
(* The three members that vote, two parameters, and a value, 2, that no     *)
(* action is defined for.                                                   *)
EXTENDS Contract, TLC

CONSTANTS member0, member1, member2, sqli, xss

MCAgent == {member0, member1, member2}
MCParam == {sqli, xss}

Symmetry == Permutations(MCAgent) \cup Permutations(MCParam)
=============================================================================
