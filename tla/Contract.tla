------------------------------ MODULE Contract ------------------------------
(***************************************************************************)
(* IDS.sol, the ledger of the Quorum lab, from its deployment on: one      *)
(* transaction is one step.  One that names something else than parameters *)
(* (POST /stress with SAFE_ENVIRONMENT) reverts as a whole and changes     *)
(* nothing.  VoteTally is the ledger of the CometBFT lab; the contract is  *)
(* compared with it through AsLedger.                                      *)
(*                                                                         *)
(* Members start voting when they find the contract's address and ABI in   *)
(* /shared.  Both survive make clean, and the contract is deployed to the  *)
(* same address again: on a restart members do not wait for validator0,    *)
(* and may vote before the action map is populated.                        *)
(*                                                                         *)
(* The state string concatenates the confirmed values in decimal.  Every   *)
(* key of the action map is one binary digit a parameter, and so is a      *)
(* string of that length: a state is the function of confirmed values.     *)
(***************************************************************************)
EXTENDS VoteTally

CONSTANT NoAction     \* no event was emitted yet

ASSUME ContractAssumption == NoAction \notin [Param -> Nat]

VARIABLES
    statusMapDT,    \* the status of each parameter
    stateAction,    \* the states that have an action
    stale,          \* /shared has the address and ABI of an earlier start
    startup,        \* what validator0 does next: "populate", "share", nothing
    action,         \* the state whose action the last ActionRequired named
    missed          \* history: the state had no action when it was confirmed,
                    \* but has one since the map was populated

setup == <<stale, startup>>

vars == <<statusMapDT, stateAction, setup, action, missed>>

ParameterStatus == [currentValue       : Value,
                    agentProposedValue : [Agent -> Value],
                    voteCount          : [Value -> Nat],
                    hasVoted           : [Agent -> BOOLEAN]]

Init ==
    /\ statusMapDT = [p \in Param |->
                        [currentValue       |-> 0,
                         agentProposedValue |-> [a \in Agent |-> 0],
                         voteCount          |-> [v \in Value |-> 0],
                         hasVoted           |-> [a \in Agent |-> FALSE]]]
    /\ stateAction = {}
    /\ stale \in BOOLEAN
    /\ startup = "populate"
    /\ action = NoAction
    /\ missed = FALSE

-----------------------------------------------------------------------------
(* Deployment (validator0.startup).                                        *)

\* The states of populate_action_map.js: one bit a parameter, not all zero.
Policy == {s \in [Param -> {0, 1}] : \E p \in Param : s[p] = 1}

State(map) == [p \in Param |-> map[p].currentValue]

\* insertMap(states, actions), sent by the owner.
Populate ==
    /\ startup = "populate" /\ startup' = "share"
    /\ stateAction' = Policy
    /\ missed' = (State(statusMapDT) \in Policy)
    /\ UNCHANGED <<statusMapDT, stale, action>>

\* An error is printed, and the startup goes on.
PopulateFails ==
    /\ startup = "populate" /\ startup' = "share"
    /\ UNCHANGED <<statusMapDT, stateAction, stale, action, missed>>

\* The address and the ABI are copied to /shared.
Share ==
    /\ startup = "share" /\ startup' = "done"
    /\ UNCHANGED <<statusMapDT, stateAction, stale, action, missed>>

\* Mutant: members do not wait for the files.
Found_Always == TRUE

\* A member finds the files, of this start or of an earlier one.
Found == stale \/ startup = "done"

-----------------------------------------------------------------------------
(* proposeNewValues.                                                       *)

\* Mutant: the sender's previous vote keeps counting.
Kept_Forgotten(ps, a) == ps.voteCount

\* Mutant: the default 0 of agentProposedValue is taken for a vote.
Kept_DefaultIsVote(ps, a) ==
    LET previous == ps.agentProposedValue[a]
    IN IF ps.voteCount[previous] > 0
       THEN [ps.voteCount EXCEPT ![previous] = @ - 1]
       ELSE ps.voteCount

\* The counts without the sender's previous vote.
Kept(ps, a) ==
    LET previous == ps.agentProposedValue[a]
    IN IF ps.hasVoted[a] /\ ps.voteCount[previous] > 0
       THEN [ps.voteCount EXCEPT ![previous] = @ - 1]
       ELSE ps.voteCount

\* Mutant: the count is adopted in place of the value.
Adopted_Count(ps, votes, v) ==
    IF votes[v] > Threshold THEN votes[v] ELSE ps.currentValue

\* The value just voted, if more than half of agents4Params hold it.
Adopted(ps, votes, v) ==
    IF votes[v] > Threshold THEN v ELSE ps.currentValue

\* One turn of the loop: a vote equal to the sender's previous one is
\* skipped, another moves its count.
VoteOn(ps, a, v) ==
    IF ps.hasVoted[a] /\ ps.agentProposedValue[a] = v
    THEN ps
    ELSE LET votes == [Kept(ps, a) EXCEPT ![v] = @ + 1]
         IN [currentValue       |-> Adopted(ps, votes, v),
             agentProposedValue |-> [ps.agentProposedValue EXCEPT ![a] = v],
             voteCount          |-> votes,
             hasVoted           |-> [ps.hasVoted EXCEPT ![a] = TRUE]]

\* Mutant: the state is read before the votes are counted.
Announce_Before(map) ==
    action' = IF State(map) # State(statusMapDT) /\ State(statusMapDT) \in stateAction
              THEN State(statusMapDT) ELSE action

\* A changed state that has an action is announced.
Announce(map) ==
    action' = IF State(map) # State(statusMapDT) /\ State(map) \in stateAction
              THEN State(map) ELSE action

\* A member that found the files votes.
Propose(a, ballot) ==
    /\ Found
    /\ statusMapDT' = [p \in Param |->
                          IF p \in DOMAIN ballot
                          THEN VoteOn(statusMapDT[p], a, ballot[p])
                          ELSE statusMapDT[p]]
    /\ Announce(statusMapDT')
    /\ missed' = (missed /\ State(statusMapDT') = State(statusMapDT))
    /\ UNCHANGED <<stateAction, setup>>

Next ==
    \/ Populate
    \/ PopulateFails
    \/ Share
    \/ \E a \in Agent, ballot \in Ballot : Propose(a, ballot)

Spec == Init /\ [][Next]_vars

-----------------------------------------------------------------------------
(* Every variable has its type.                                            *)
TypeOK ==
    /\ statusMapDT \in [Param -> ParameterStatus]
    /\ stateAction \in {{}, Policy}
    /\ stale \in BOOLEAN
    /\ startup \in {"populate", "share", "done"}
    /\ action \in [Param -> Value] \cup {NoAction}
    /\ missed \in BOOLEAN

\* The contract's status as sps-node keeps it: hasVoted and the proposed
\* value in one.
AsStatus(ps) ==
    [current  |-> ps.currentValue,
     proposed |-> [a \in Agent |-> IF ps.hasVoted[a] THEN ps.agentProposedValue[a]
                                                     ELSE NoVote],
     count    |-> ps.voteCount]

AsLedger(map) == [p \in Param |-> AsStatus(map[p])]

\* The two labs count alike: whatever a transaction does to the contract, one
\* with the same votes does to the ledger of sps-node with deduplication on;
\* a first vote of 0 is a vote in both.
CountsAsLedger ==
    [][LET old == AsLedger(statusMapDT)
           new == AsLedger(statusMapDT')
       IN \/ new = old
          \/ \E a \in Agent, ballot \in Ballot :
                 new = ProposeNewValues(old, a, ballot, FALSE)]_vars

\* Once the map is populated, a confirmed state that has an action is the one
\* whose action was last announced, also after it was left for a state without
\* an action and reached again.  The exception is a state that was confirmed
\* before the map was populated: nothing announces it until it changes.  That
\* takes the files of an earlier start in /shared, which let members vote early.
ActionMatchesState ==
    /\ (stateAction = Policy /\ State(statusMapDT) \in Policy)
           => action = State(statusMapDT) \/ missed
    /\ missed => stale

\* What MajorityVote promises of the votes and the confirmed values.
Majority == INSTANCE MajorityVote
            WITH vote    <- [p \in Param |-> AsStatus(statusMapDT[p]).proposed],
                 decided <- [p \in Param |-> statusMapDT[p].currentValue]

\* The contract implements the abstract vote, reverted transactions included.
ImplementsMajorityVote == Majority!Spec
=============================================================================
