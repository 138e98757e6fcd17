---------------------------- MODULE MajorityVote ----------------------------
(***************************************************************************)
(* What a ledger promises: agents cast and change votes, and the decided   *)
(* value of a parameter is at any time the value that more than half of    *)
(* AgentsCount currently vote for, or, while there is none, the last one   *)
(* decided.  Nothing is counted incrementally and nothing is deduplicated. *)
(***************************************************************************)
EXTENDS Integers, FiniteSets

CONSTANTS Agent, Param, Value, NoVote, AgentsCount

VARIABLES
    vote,      \* vote[p][a]: what a last voted on p
    decided    \* decided[p]: the confirmed value of p

vars == <<vote, decided>>

Init == /\ vote = [p \in Param |-> [a \in Agent |-> NoVote]]
        /\ decided = [p \in Param |-> 0]

InFavour(votes, v) == Cardinality({a \in Agent : votes[a] = v})

Wins(votes, v) == InFavour(votes, v) > AgentsCount \div 2

Cast(a, ballot) ==
    /\ vote' = [p \in Param |-> IF p \in DOMAIN ballot
                                THEN [vote[p] EXCEPT ![a] = ballot[p]]
                                ELSE vote[p]]
    /\ DOMAIN decided' = Param
    /\ \A p \in Param :
          \/ Wins(vote'[p], decided'[p])
          \/ /\ \A v \in Value : ~Wins(vote'[p], v)
             /\ decided'[p] = decided[p]

Next == \E a \in Agent, mask \in SUBSET Param : \E ballot \in [mask -> Value] :
            Cast(a, ballot)

Spec == Init /\ [][Next]_vars
=============================================================================
