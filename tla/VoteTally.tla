----------------------------- MODULE VoteTally -----------------------------
(***************************************************************************)
(* The vote counting of sps-chain (src/ledger.rs) as operators on values:  *)
(* no variables, so that the state machines of one ledger (Ledger), of the *)
(* replicas of a chain (Replicas) and of a whole node (SpsNode) share it.  *)
(*                                                                         *)
(* propose_new_values loops over the parameters of the transaction's mask  *)
(* and touches, for each, only that parameter's ParamStatus.  The loop is  *)
(* therefore written as a function on Param, without recursion.            *)
(***************************************************************************)
EXTENDS Integers, FiniteSets

CONSTANTS
    Agent,        \* agent ids (u32) that may appear in a transaction
    Param,        \* the voted parameters: SQL_INJECTION, XSS_ATTACK, ...
    Value,        \* the values (u64) a vote may carry; 0 is "no attack"
    NoVote,       \* agent_proposed has no entry for the agent
    AgentsCount   \* cfg.ledger.agents_count: fixed, whoever really votes

ASSUME VoteTallyAssumption ==
    /\ IsFiniteSet(Agent)
    /\ Value \subseteq Nat
    /\ 0 \in Value
    /\ NoVote \notin Value
    /\ AgentsCount \in Nat

-----------------------------------------------------------------------------
(* The state of one parameter, and the transactions.                       *)

Status == [current  : Value,
           proposed : [Agent -> Value \cup {NoVote}],
           count    : [Value -> Nat]]

InitStatus == [current  |-> 0,
               proposed |-> [a \in Agent |-> NoVote],
               count    |-> [v \in Value |-> 0]]

LedgerType == [Param -> Status]

InitLedger == [p \in Param |-> InitStatus]

\* A transaction votes on the parameters of its mask: a function on the mask.
\* The mask may be empty: /stress with an unknown type still sends a vote.
Ballot == UNION {[mask -> Value] : mask \in SUBSET Param}

Threshold == AgentsCount \div 2

-----------------------------------------------------------------------------
(* Counting one vote.                                                      *)

\* Mutant: the vote count keeps the withdrawn vote.
Withdraw_Forgotten(count, v) == count

\* The agent's previous vote stops counting.
Withdraw(count, v) ==
    IF v \in DOMAIN count
    THEN [count EXCEPT ![v] = IF @ > 0 THEN @ - 1 ELSE @]
    ELSE count

\* Mutant: the count is adopted in place of the value.
Recount_AdoptsCount(st, a, v) ==
    LET count == [Withdraw(st.count, st.proposed[a]) EXCEPT ![v] = @ + 1]
    IN [current  |-> IF count[v] > Threshold THEN count[v] ELSE st.current,
        proposed |-> [st.proposed EXCEPT ![a] = v],
        count    |-> count]

\* Mutant: the comparison lets half of the agents decide.
Recount_HalfIsEnough(st, a, v) ==
    LET count == [Withdraw(st.count, st.proposed[a]) EXCEPT ![v] = @ + 1]
    IN [current  |-> IF count[v] >= Threshold THEN v ELSE st.current,
        proposed |-> [st.proposed EXCEPT ![a] = v],
        count    |-> count]

\* Mutant: the new value is adopted only from zero, never back to zero.
Recount_NoReturn(st, a, v) ==
    LET count == [Withdraw(st.count, st.proposed[a]) EXCEPT ![v] = @ + 1]
    IN [current  |-> IF count[v] > Threshold /\ st.current = 0 THEN v ELSE st.current,
        proposed |-> [st.proposed EXCEPT ![a] = v],
        count    |-> count]

\* The body of the loop once the vote is known to count: move the agent's
\* vote to v and adopt v as soon as more than half of agents_count hold it.
Recount(st, a, v) ==
    LET count == [Withdraw(st.count, st.proposed[a]) EXCEPT ![v] = @ + 1]
    IN [current  |-> IF count[v] > Threshold THEN v ELSE st.current,
        proposed |-> [st.proposed EXCEPT ![a] = v],
        count    |-> count]

\* Mutant: an agent's first vote is final while deduplication is on.
Vote_FirstIsFinal(st, a, v, dedupDisabled) ==
    IF st.proposed[a] # NoVote /\ ~dedupDisabled THEN st ELSE Recount(st, a, v)

\* A vote equal to the agent's previous one is skipped, unless deduplication
\* is disabled on this node.
Vote(st, a, v, dedupDisabled) ==
    IF st.proposed[a] = v /\ ~dedupDisabled THEN st ELSE Recount(st, a, v)

ProposeNewValues(ledger, a, ballot, dedupDisabled) ==
    [p \in Param |-> IF p \in DOMAIN ballot
                     THEN Vote(ledger[p], a, ballot[p], dedupDisabled)
                     ELSE ledger[p]]

-----------------------------------------------------------------------------
(* The action the state asks for.  state_action has an entry for every     *)
(* non-zero state string, and the entry is determined by the parameters    *)
(* whose bit is set: an action is that set of parameters.                  *)

Raised(ledger) == {p \in Param : ledger[p].current # 0}

Changed(old, new) == \E p \in Param : old[p].current # new[p].current

\* Mutant: an action is sent only for the first attack, not for further ones.
EmitsAction_OnlyFromSafe(old, new) ==
    Changed(old, new) /\ Raised(new) # {} /\ Raised(old) = {}

\* Mutant: the state is read before the votes are counted.
EmitsAction_Before(old, new) == Changed(old, new) /\ Raised(old) # {}

\* Some parameter changed and the new state has an action.
EmitsAction(old, new) == Changed(old, new) /\ Raised(new) # {}

-----------------------------------------------------------------------------
(* Vocabulary of the properties: who holds a value, counted from the votes *)
(* themselves and not from vote_count.                                     *)

Supporters(proposed, v) == {a \in Agent : proposed[a] = v}

HasMajority(proposed, v) == Cardinality(Supporters(proposed, v)) > Threshold

\* Every count is the number of agents whose last vote is that value.
Tallied(st) ==
    \A v \in Value : st.count[v] = Cardinality(Supporters(st.proposed, v))

\* A value that a majority holds is the confirmed one.
Settled(st) ==
    \A v \in Value : HasMajority(st.proposed, v) => st.current = v
=============================================================================
