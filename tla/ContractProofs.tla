--------------------------- MODULE ContractProofs ---------------------------
(***************************************************************************)
(* The contract's safety, for every set of agents, parameters and values   *)
(* and every agents_count.  One lemma says that a vote does to the         *)
(* contract's status what it does to sps-node's; the properties of votes   *)
(* in VoteTallyProofs then hold of the contract.                           *)
(***************************************************************************)
EXTENDS Contract, VoteTallyProofs

-----------------------------------------------------------------------------
(* Type correctness.                                                       *)

\* Counting a vote keeps a status a status.
LEMMA VoteOnType ==
    ASSUME NEW ps \in ParameterStatus, NEW a \in Agent, NEW v \in Value
    PROVE  VoteOn(ps, a, v) \in ParameterStatus
<1> DEFINE votes == [Kept(ps, a) EXCEPT ![v] = @ + 1]
<1>1. /\ ps.voteCount \in [Value -> Nat]
      /\ ps.agentProposedValue \in [Agent -> Value]
      /\ ps.hasVoted \in [Agent -> BOOLEAN]
      /\ ps.currentValue \in Value
    BY DEF ParameterStatus
<1>2. Kept(ps, a) \in [Value -> Nat]  BY <1>1 DEF Kept
<1>3. votes \in [Value -> Nat]  BY <1>2
<1> HIDE DEF votes
<1>4. [currentValue       |-> Adopted(ps, votes, v),
       agentProposedValue |-> [ps.agentProposedValue EXCEPT ![a] = v],
       voteCount          |-> votes,
       hasVoted           |-> [ps.hasVoted EXCEPT ![a] = TRUE]] \in ParameterStatus
    BY <1>1, <1>3 DEF Adopted, ParameterStatus
<1>5. QED  BY <1>4 DEF VoteOn, votes

\* The confirmed values of a status map.
LEMMA StateType ==
    ASSUME NEW map \in [Param -> ParameterStatus]
    PROVE  State(map) \in [Param -> Value]
BY DEF State, ParameterStatus

\* Every variable keeps its type.
THEOREM TypeCorrect == Spec => []TypeOK
<1>1. Init => TypeOK
    <2> SUFFICES ASSUME Init  PROVE TypeOK
        OBVIOUS
    <2>1. [currentValue       |-> 0,
           agentProposedValue |-> [a \in Agent |-> 0],
           voteCount          |-> [v \in Value |-> 0],
           hasVoted           |-> [a \in Agent |-> FALSE]] \in ParameterStatus
        BY VoteTallyAssumption DEF VoteTallyAssumption, ParameterStatus
    <2>2. statusMapDT \in [Param -> ParameterStatus]
        BY <2>1 DEF Init
    <2>3. QED  BY <2>2 DEF Init, TypeOK
<1>2. TypeOK /\ [Next]_vars => TypeOK'
    <2> SUFFICES ASSUME TypeOK, [Next]_vars  PROVE TypeOK'
        OBVIOUS
    <2> USE DEF TypeOK
    <2>1. CASE Populate  BY <2>1 DEF Populate
    <2>2. CASE PopulateFails \/ Share  BY <2>2 DEF PopulateFails, Share
    <2>3. ASSUME NEW a \in Agent, NEW ballot \in Ballot, Propose(a, ballot)
          PROVE  TypeOK'
        <3>1. ASSUME NEW p \in Param, p \in DOMAIN ballot
              PROVE  VoteOn(statusMapDT[p], a, ballot[p]) \in ParameterStatus
            BY <3>1, BallotType, VoteOnType
        <3>2. statusMapDT' \in [Param -> ParameterStatus]
            BY <2>3, <3>1 DEF Propose
        <3>3. action' \in [Param -> Value] \cup {NoAction}
            BY <2>3, <3>2, StateType DEF Propose, Announce
        <3>4. missed' \in BOOLEAN  BY <2>3 DEF Propose
        <3>5. UNCHANGED <<stateAction, stale, startup>>  BY <2>3 DEF Propose, setup
        <3>6. QED  BY <3>2, <3>3, <3>4, <3>5
    <2>4. CASE UNCHANGED vars  BY <2>4 DEF vars, setup
    <2>5. QED  BY <2>1, <2>2, <2>3, <2>4 DEF Next
<1>3. QED  BY <1>1, <1>2, PTL DEF Spec

-----------------------------------------------------------------------------
(* The contract counts as sps-node does.                                   *)

\* The status of the contract, seen as one of sps-node, has its type.
LEMMA AsStatusType ==
    ASSUME NEW ps \in ParameterStatus
    PROVE  AsStatus(ps) \in Status
BY DEF AsStatus, Status, ParameterStatus

\* A vote is withdrawn from the count alike.
LEMMA SameWithdrawal ==
    ASSUME NEW ps \in ParameterStatus, NEW a \in Agent
    PROVE  Kept(ps, a) = Withdraw(ps.voteCount, AsStatus(ps).proposed[a])
<1>1. /\ ps.voteCount \in [Value -> Nat]
      /\ ps.agentProposedValue[a] \in Value
      /\ ps.hasVoted[a] \in BOOLEAN
    BY DEF ParameterStatus
<1>2. CASE ps.hasVoted[a]
    <2>1. AsStatus(ps).proposed[a] = ps.agentProposedValue[a]
        BY <1>2 DEF AsStatus
    <2>2. CASE ps.voteCount[ps.agentProposedValue[a]] > 0
        BY <1>1, <1>2, <2>1, <2>2 DEF Kept, Withdraw
    <2>3. CASE ~(ps.voteCount[ps.agentProposedValue[a]] > 0)
        BY <1>1, <1>2, <2>1, <2>3 DEF Kept, Withdraw
    <2>4. QED  BY <2>2, <2>3
<1>3. CASE ~ps.hasVoted[a]
    <2>1. AsStatus(ps).proposed[a] = NoVote  BY <1>3 DEF AsStatus
    <2>2. NoVote \notin DOMAIN ps.voteCount
        BY <1>1, VoteTallyAssumption DEF VoteTallyAssumption
    <2>3. QED  BY <1>3, <2>1, <2>2 DEF Kept, Withdraw
<1>4. QED  BY <1>1, <1>2, <1>3

\* A vote does to the contract's status what it does to sps-node's with
\* deduplication on.
LEMMA SameVote ==
    ASSUME NEW ps \in ParameterStatus, NEW a \in Agent, NEW v \in Value
    PROVE  AsStatus(VoteOn(ps, a, v)) = Vote(AsStatus(ps), a, v, FALSE)
<1> DEFINE old   == AsStatus(ps).proposed
           kept  == Withdraw(ps.voteCount, old[a])
           votes == [kept EXCEPT ![v] = @ + 1]
<1>1. /\ ps.agentProposedValue \in [Agent -> Value]
      /\ ps.hasVoted \in [Agent -> BOOLEAN]
    BY DEF ParameterStatus
<1>2. old[a] = v <=> (ps.hasVoted[a] /\ ps.agentProposedValue[a] = v)
    BY VoteTallyAssumption DEF VoteTallyAssumption, AsStatus
<1>3. CASE old[a] = v
    BY <1>2, <1>3 DEF VoteOn, Vote
<1>4. CASE old[a] # v
    <2>1. VoteOn(ps, a, v) =
              [currentValue       |-> IF votes[v] > Threshold THEN v
                                                              ELSE ps.currentValue,
               agentProposedValue |-> [ps.agentProposedValue EXCEPT ![a] = v],
               voteCount          |-> votes,
               hasVoted           |-> [ps.hasVoted EXCEPT ![a] = TRUE]]
        BY <1>2, <1>4, SameWithdrawal DEF VoteOn, Adopted
    <2>2. AsStatus(VoteOn(ps, a, v)).proposed = [old EXCEPT ![a] = v]
        <3>1. ASSUME NEW b \in Agent
              PROVE  AsStatus(VoteOn(ps, a, v)).proposed[b] =
                         IF b = a THEN v ELSE old[b]
            BY <1>1, <2>1 DEF AsStatus
        <3>2. QED  BY <3>1 DEF AsStatus
    <2>3. Vote(AsStatus(ps), a, v, FALSE) =
              [current  |-> IF votes[v] > Threshold THEN v ELSE ps.currentValue,
               proposed |-> [old EXCEPT ![a] = v],
               count    |-> votes]
        BY <1>4 DEF Vote, Recount, AsStatus
    <2>4. AsStatus(VoteOn(ps, a, v)) =
              [current  |-> VoteOn(ps, a, v).currentValue,
               proposed |-> AsStatus(VoteOn(ps, a, v)).proposed,
               count    |-> VoteOn(ps, a, v).voteCount]
        BY DEF AsStatus
    <2>5. /\ VoteOn(ps, a, v).currentValue =
                IF votes[v] > Threshold THEN v ELSE ps.currentValue
          /\ VoteOn(ps, a, v).voteCount = votes
        BY <2>1
    <2> HIDE DEF votes, kept, old
    <2>6. QED  BY <2>2, <2>3, <2>4, <2>5
<1>5. QED  BY <1>3, <1>4

\* So does a transaction to the whole map.
LEMMA SameLedger ==
    ASSUME NEW a \in Agent, NEW ballot \in Ballot, TypeOK, Propose(a, ballot)
    PROVE  AsLedger(statusMapDT') =
               ProposeNewValues(AsLedger(statusMapDT), a, ballot, FALSE)
<1>1. ASSUME NEW p \in Param
      PROVE  AsStatus(statusMapDT'[p]) =
                 IF p \in DOMAIN ballot
                 THEN Vote(AsStatus(statusMapDT[p]), a, ballot[p], FALSE)
                 ELSE AsStatus(statusMapDT[p])
    <2>1. statusMapDT'[p] = IF p \in DOMAIN ballot
                            THEN VoteOn(statusMapDT[p], a, ballot[p])
                            ELSE statusMapDT[p]
        BY DEF Propose
    <2>2. statusMapDT[p] \in ParameterStatus  BY DEF TypeOK
    <2>3. QED  BY <2>1, <2>2, BallotType, SameVote
<1>2. QED  BY <1>1 DEF AsLedger, ProposeNewValues

\* The two labs count alike: every step of the contract is a transaction of
\* sps-node's ledger with deduplication on, or leaves the votes alone.
THEOREM SameCounting == Spec => CountsAsLedger
<1>1. TypeOK /\ [Next]_vars =>
          [LET old == AsLedger(statusMapDT)
               new == AsLedger(statusMapDT')
           IN \/ new = old
              \/ \E a \in Agent, ballot \in Ballot :
                     new = ProposeNewValues(old, a, ballot, FALSE)]_vars
    BY SameLedger DEF Next, Populate, PopulateFails, Share
<1>2. QED  BY <1>1, TypeCorrect, PTL DEF Spec, CountsAsLedger

-----------------------------------------------------------------------------
(* The announced action.                                                   *)

\* The map is populated once; until members vote, no value is confirmed.
MapInv ==
    /\ startup = "populate" => stateAction = {}
    /\ ~Found => State(statusMapDT) = [p \in Param |-> 0]

\* A state without a confirmed value has no action.
LEMMA SafeHasNone == [p \in Param |-> 0] \notin Policy
BY DEF Policy

LEMMA InitAction == Init => MapInv /\ ActionMatchesState
<1> SUFFICES ASSUME Init  PROVE MapInv /\ ActionMatchesState
    OBVIOUS
<1>1. State(statusMapDT) = [p \in Param |-> 0]  BY DEF Init, State
<1>2. State(statusMapDT) \notin Policy  BY <1>1, SafeHasNone
<1>3. QED  BY <1>1, <1>2 DEF Init, MapInv, ActionMatchesState

\* A vote that changes the state announces the new one if it has an action; a
\* vote that does not leaves both the event and what is missed.
LEMMA VoteAnnounces ==
    ASSUME MapInv, ActionMatchesState, NEW a \in Agent, NEW ballot \in Ballot,
           Propose(a, ballot)
    PROVE  MapInv' /\ ActionMatchesState'
<1>1. UNCHANGED <<stateAction, stale, startup>> /\ Found
    BY DEF Propose, setup
<1>2. MapInv'  BY <1>1 DEF MapInv, Found
<1>3. ASSUME stateAction = Policy, State(statusMapDT') \in Policy
      PROVE  action' = State(statusMapDT') \/ missed'
    <2>1. CASE State(statusMapDT') # State(statusMapDT)
        BY <1>3, <2>1 DEF Propose, Announce
    <2>2. CASE State(statusMapDT') = State(statusMapDT)
        BY <1>3, <2>2 DEF Propose, Announce, ActionMatchesState
    <2>3. QED  BY <2>1, <2>2
<1>4. missed' => missed  BY DEF Propose
<1>5. QED  BY <1>1, <1>2, <1>3, <1>4 DEF ActionMatchesState

LEMMA StepAction ==
    ASSUME MapInv, ActionMatchesState, [Next]_vars
    PROVE  MapInv' /\ ActionMatchesState'
<1>1. CASE Populate
    <2>1. /\ UNCHANGED <<statusMapDT, stale>> /\ startup = "populate" /\ startup' = "share"
          /\ missed' = (State(statusMapDT) \in Policy)
        BY <1>1 DEF Populate
    <2>2. ~stale => State(statusMapDT) \notin Policy
        BY <2>1, SafeHasNone DEF MapInv, Found
    <2>3. QED  BY <2>1, <2>2 DEF MapInv, ActionMatchesState, Found
<1>2. CASE PopulateFails
    BY <1>2 DEF PopulateFails, MapInv, ActionMatchesState, Found
<1>3. CASE Share
    BY <1>3 DEF Share, MapInv, ActionMatchesState, Found
<1>4. CASE UNCHANGED vars
    BY <1>4 DEF vars, setup, MapInv, ActionMatchesState, Found, State
<1>5. QED  BY <1>1, <1>2, <1>3, <1>4, VoteAnnounces DEF Next

\* An announcement follows every change to a state that has an action.  So
\* while such a state lasts, the last event names it, unless the state is older
\* than its action: members voted before the map was populated, and on a first
\* start they cannot.
THEOREM ActionsMatch == Spec => []ActionMatchesState
<1>1. MapInv /\ ActionMatchesState /\ [Next]_vars => MapInv' /\ ActionMatchesState'
    BY StepAction
<1>2. QED  BY InitAction, <1>1, PTL DEF Spec

-----------------------------------------------------------------------------
(* Refinement of the abstract vote.                                        *)

\* Every count is the number of agents whose last vote is that value, and a
\* majority's value is confirmed.
Counted == \A p \in Param : Tallied(AsStatus(statusMapDT[p]))
Decided == \A p \in Param : Settled(AsStatus(statusMapDT[p]))

\* Every step leaves a parameter alone or counts one vote on it.
LEMMA StepOnParam ==
    ASSUME TypeOK, [Next]_vars, NEW p \in Param
    PROVE  \/ AsStatus(statusMapDT'[p]) = AsStatus(statusMapDT[p])
           \/ \E a \in Agent, v \in Value :
                  AsStatus(statusMapDT'[p]) =
                      Vote(AsStatus(statusMapDT[p]), a, v, FALSE)
<1>1. ASSUME NEW a \in Agent, NEW ballot \in Ballot, Propose(a, ballot)
      PROVE  \/ AsStatus(statusMapDT'[p]) = AsStatus(statusMapDT[p])
             \/ \E v \in Value : AsStatus(statusMapDT'[p]) =
                    Vote(AsStatus(statusMapDT[p]), a, v, FALSE)
    <2>1. statusMapDT'[p] = IF p \in DOMAIN ballot
                            THEN VoteOn(statusMapDT[p], a, ballot[p])
                            ELSE statusMapDT[p]
        BY <1>1 DEF Propose
    <2>2. statusMapDT[p] \in ParameterStatus  BY DEF TypeOK
    <2>3. QED  BY <2>1, <2>2, BallotType, SameVote
<1>2. CASE UNCHANGED statusMapDT  BY <1>2
<1>3. QED  BY <1>1, <1>2 DEF Next, Populate, PopulateFails, Share, vars

\* At the start nobody voted: all counts are zero, and nothing has a majority.
LEMMA InitVotes ==
    ASSUME Init, NEW p \in Param
    PROVE  Tallied(AsStatus(statusMapDT[p])) /\ Settled(AsStatus(statusMapDT[p]))
<1> DEFINE ps == statusMapDT[p]
<1>1. /\ AsStatus(ps).proposed = [a \in Agent |-> NoVote]
      /\ AsStatus(ps).count = [v \in Value |-> 0]
    BY DEF Init, AsStatus
<1>2. ASSUME NEW v \in Value
      PROVE  Cardinality(Supporters(AsStatus(ps).proposed, v)) = 0
    <2>1. Supporters(AsStatus(ps).proposed, v) = {}
        BY <1>1, VoteTallyAssumption DEF VoteTallyAssumption, Supporters
    <2>2. QED  BY <2>1, FS_EmptySet
<1>3. Threshold \in Nat
    BY VoteTallyAssumption DEF VoteTallyAssumption, Threshold
<1> HIDE DEF ps
<1>4. Tallied(AsStatus(ps))  BY <1>1, <1>2 DEF Tallied
<1>5. Settled(AsStatus(ps))  BY <1>2, <1>3 DEF Settled, HasMajority
<1>6. QED  BY <1>4, <1>5 DEF ps

\* voteCount agrees with the votes in every reachable state.
LEMMA CountsHold == Spec => []Counted
<1>1. Init => Counted  BY InitVotes DEF Counted
<1>2. TypeOK /\ Counted /\ [Next]_vars => Counted'
    <2> SUFFICES ASSUME TypeOK, Counted, [Next]_vars, NEW p \in Param
                 PROVE  Tallied(AsStatus(statusMapDT'[p]))
        BY DEF Counted
    <2>1. AsStatus(statusMapDT[p]) \in Status /\ Tallied(AsStatus(statusMapDT[p]))
        BY AsStatusType DEF TypeOK, Counted
    <2>2. QED  BY <2>1, StepOnParam, VoteTallies
<1>3. QED  BY <1>1, <1>2, TypeCorrect, PTL DEF Spec

\* With no more voting addresses than agents4Params, a majority's value is
\* the confirmed one.
LEMMA MajorityHolds ==
    ASSUME Cardinality(Agent) <= AgentsCount
    PROVE  Spec => []Decided
<1>1. Init => Decided  BY InitVotes DEF Decided
<1>2. TypeOK /\ Counted /\ Decided /\ [Next]_vars => Decided'
    <2> SUFFICES ASSUME TypeOK, Counted, Decided, [Next]_vars, NEW p \in Param
                 PROVE  Settled(AsStatus(statusMapDT'[p]))
        BY DEF Decided
    <2>1. /\ AsStatus(statusMapDT[p]) \in Status
          /\ Tallied(AsStatus(statusMapDT[p]))
          /\ Settled(AsStatus(statusMapDT[p]))
        BY AsStatusType DEF TypeOK, Counted, Decided
    <2>2. QED  BY <2>1, StepOnParam, VoteSettles
<1>3. QED  BY <1>1, <1>2, TypeCorrect, CountsHold, PTL DEF Spec

\* Whoever counts the agents in favour of a value counts its supporters.
LEMMA SameMajority ==
    ASSUME NEW votes, NEW v
    PROVE  Majority!Wins(votes, v) <=> HasMajority(votes, v)
<1>1. \A S : Majority!Cardinality(S) = Cardinality(S)
    BY DEF Majority!Cardinality, Cardinality
<1>2. QED
    BY <1>1
    DEF Majority!Wins, Majority!InFavour, HasMajority, Supporters, Threshold

\* After a step, either the confirmed value has a majority, or none has and
\* the step did not change it.
LEMMA StepDecides ==
    ASSUME TypeOK, Counted, Decided', [Next]_vars, NEW p \in Param
    PROVE  LET old == AsStatus(statusMapDT[p])
               new == AsStatus(statusMapDT'[p])
           IN \/ HasMajority(new.proposed, new.current)
              \/ /\ \A v \in Value : ~HasMajority(new.proposed, v)
                 /\ new.current = old.current
<1> DEFINE old == AsStatus(statusMapDT[p])
           new == AsStatus(statusMapDT'[p])
<1>1. old \in Status /\ Tallied(old)
    BY AsStatusType DEF TypeOK, Counted
<1>2. Settled(new)  BY DEF Decided
<1>3. new = old \/ \E a \in Agent, v \in Value : new = Vote(old, a, v, FALSE)
    BY StepOnParam
<1> HIDE DEF old, new
<1>4. new.current # old.current => HasMajority(new.proposed, new.current)
    BY <1>1, <1>3, VoteConfirmsMajority
<1>5. ASSUME NEW v \in Value, HasMajority(new.proposed, v)
      PROVE  HasMajority(new.proposed, new.current)
    BY <1>2, <1>5 DEF Settled
<1>6. QED  BY <1>4, <1>5 DEF old, new

\* The contract implements the abstract vote when no more than agents4Params
\* addresses vote: its skipped repetitions, its default 0 for an address that
\* never voted and its incremental counts are invisible.
THEOREM Refinement ==
    ASSUME Cardinality(Agent) <= AgentsCount
    PROVE  Spec => ImplementsMajorityVote
<1>1. Init => Majority!Init
    BY DEF Init, AsStatus, Majority!Init
<1>2. TypeOK /\ Counted /\ Decided' /\ [Next]_vars
          => [Majority!Next]_(Majority!vars)
    <2> SUFFICES ASSUME TypeOK, Counted, Decided', [Next]_vars
                 PROVE  Majority!Next \/ UNCHANGED Majority!vars
        OBVIOUS
    <2>1. ASSUME NEW a \in Agent, NEW ballot \in Ballot, Propose(a, ballot)
          PROVE  Majority!Next
        <3>1. ASSUME NEW p \in Param
              PROVE  AsStatus(statusMapDT'[p]).proposed =
                         IF p \in DOMAIN ballot
                         THEN [AsStatus(statusMapDT[p]).proposed EXCEPT ![a] = ballot[p]]
                         ELSE AsStatus(statusMapDT[p]).proposed
            <4>1. AsLedger(statusMapDT') =
                      ProposeNewValues(AsLedger(statusMapDT), a, ballot, FALSE)
                BY <2>1, SameLedger
            <4>2. AsStatus(statusMapDT'[p]) =
                      IF p \in DOMAIN ballot
                      THEN Vote(AsStatus(statusMapDT[p]), a, ballot[p], FALSE)
                      ELSE AsStatus(statusMapDT[p])
                BY <4>1 DEF AsLedger, ProposeNewValues
            <4>3. AsStatus(statusMapDT[p]) \in Status
                BY AsStatusType DEF TypeOK
            <4>4. CASE p \in DOMAIN ballot
                <5>1. ballot[p] \in Value  BY <4>4, BallotType
                <5>2. \A st \in Status, v \in Value :
                          Vote(st, a, v, FALSE).proposed = [st.proposed EXCEPT ![a] = v]
                    BY VoteMoves
                <5>3. QED  BY <4>2, <4>3, <4>4, <5>1, <5>2
            <4>5. CASE p \notin DOMAIN ballot
                BY <4>2, <4>5
            <4>6. QED  BY <4>4, <4>5
        <3>2. ASSUME NEW p \in Param
              PROVE  \/ HasMajority(AsStatus(statusMapDT'[p]).proposed,
                                    statusMapDT'[p].currentValue)
                     \/ /\ \A v \in Value :
                               ~HasMajority(AsStatus(statusMapDT'[p]).proposed, v)
                        /\ statusMapDT'[p].currentValue = statusMapDT[p].currentValue
            <4>1. /\ AsStatus(statusMapDT'[p]).current = statusMapDT'[p].currentValue
                  /\ AsStatus(statusMapDT[p]).current = statusMapDT[p].currentValue
                BY DEF AsStatus
            <4>2. QED  BY <4>1, StepDecides
        <3>3. Majority!Cast(a, ballot)
            BY <3>1, <3>2, SameMajority DEF Majority!Cast
        <3>4. PICK mask \in SUBSET Param : ballot \in [mask -> Value]
            BY DEF Ballot
        <3>5. QED  BY <3>3, <3>4 DEF Majority!Next
    <2>2. CASE UNCHANGED statusMapDT
        BY <2>2 DEF Majority!vars
    <2>3. QED  BY <2>1, <2>2 DEF Next, Populate, PopulateFails, Share, vars
<1>3. QED
    BY <1>1, <1>2, TypeCorrect, CountsHold, MajorityHolds, PTL
    DEF Spec, ImplementsMajorityVote, Majority!Spec
=============================================================================
