---------------------------- MODULE LedgerProofs ----------------------------
(***************************************************************************)
(* The ledger's safety, for every set of agents, parameters and values,    *)
(* every agents_count and any number of transactions.  The properties of   *)
(* one parameter come from VoteTallyProofs; here they are carried over the *)
(* steps of the state machine, and over those of the replicas of a chain,  *)
(* for any number of nodes, transactions and relaunches of CometBFT.       *)
(***************************************************************************)
EXTENDS Ledger, Replicas, VoteTallyProofs, WellFoundedInduction

-----------------------------------------------------------------------------
(* Type correctness.                                                       *)

\* Every variable keeps its type.
THEOREM TypeCorrect == Spec => []TypeOK
<1>1. Init => TypeOK
    <2>1. InitStatus \in Status
        BY VoteTallyAssumption DEF VoteTallyAssumption, InitStatus, Status
    <2>2. QED
        BY <2>1, LedgerAssumption
        DEF LedgerAssumption, Init, InitLedger, LedgerType, TypeOK
<1>2. TypeOK /\ [Next]_vars => TypeOK'
    <2> SUFFICES ASSUME TypeOK, [Next]_vars  PROVE TypeOK'
        OBVIOUS
    <2> USE LedgerAssumption DEF LedgerAssumption, TypeOK
    <2>1. ASSUME NEW a \in Agent, NEW ballot \in Ballot, DeliverTx(a, ballot)
          PROVE  TypeOK'
        <3>1. ledger' \in LedgerType  BY <2>1, ProposeType DEF DeliverTx
        <3>2. announced' \in SUBSET Param  BY <2>1 DEF DeliverTx, Raised
        <3>3. committedTxs' \in 0..MaxTxs  BY <2>1 DEF DeliverTx
        <3>4. QED  BY <2>1, <3>1, <3>2, <3>3 DEF DeliverTx
    <2>2. ASSUME NEW disabled \in BOOLEAN, SetDedup(disabled)
          PROVE  TypeOK'
        BY <2>2 DEF SetDedup
    <2>3. CASE UNCHANGED vars  BY <2>3 DEF vars
    <2>4. QED  BY <2>1, <2>2, <2>3 DEF Next
<1>3. QED  BY <1>1, <1>2, PTL DEF Spec

-----------------------------------------------------------------------------
(* What a step does to one parameter.                                      *)

\* Every step leaves a parameter alone or counts one vote on it.
LEMMA StepOnParam ==
    ASSUME TypeOK, [Next]_vars, NEW p \in Param
    PROVE  \/ ledger'[p] = ledger[p]
           \/ \E a \in Agent, v \in Value :
                  ledger'[p] = Vote(ledger[p], a, v, dedupDisabled)
<1>1. ASSUME NEW a \in Agent, NEW ballot \in Ballot, DeliverTx(a, ballot)
      PROVE  \/ ledger'[p] = ledger[p]
             \/ \E v \in Value :
                    ledger'[p] = Vote(ledger[p], a, v, dedupDisabled)
    <2>1. ledger'[p] = IF p \in DOMAIN ballot
                       THEN Vote(ledger[p], a, ballot[p], dedupDisabled)
                       ELSE ledger[p]
        BY <1>1 DEF DeliverTx, ProposeNewValues
    <2>2. QED  BY <2>1, BallotType
<1>2. ASSUME NEW disabled \in BOOLEAN, SetDedup(disabled)
      PROVE  ledger'[p] = ledger[p]
    BY <1>2 DEF SetDedup
<1>3. CASE UNCHANGED vars  BY <1>3 DEF vars
<1>4. QED  BY <1>1, <1>2, <1>3 DEF Next

-----------------------------------------------------------------------------
(* The counts.                                                             *)

\* The counts start equal to the numbers of supporters: all are zero.
LEMMA InitTallied == Tallied(InitStatus)
<1>1. ASSUME NEW v \in Value
      PROVE  Cardinality(Supporters(InitStatus.proposed, v)) = 0
    <2>1. Supporters(InitStatus.proposed, v) = {}
        BY VoteTallyAssumption DEF VoteTallyAssumption, InitStatus, Supporters
    <2>2. QED  BY <2>1, FS_EmptySet
<1>2. QED  BY <1>1 DEF Tallied, InitStatus

\* vote_count agrees with agent_proposed in every reachable state.
THEOREM TallyCorrect == Spec => []TallyMatchesVotes
<1>1. Init => TallyMatchesVotes
    BY InitTallied DEF Init, InitLedger, TallyMatchesVotes
<1>2. TypeOK /\ TallyMatchesVotes /\ [Next]_vars => TallyMatchesVotes'
    <2> SUFFICES ASSUME TypeOK, TallyMatchesVotes, [Next]_vars, NEW p \in Param
                 PROVE  Tallied(ledger'[p])
        BY DEF TallyMatchesVotes
    <2>1. /\ ledger[p] \in Status
          /\ dedupDisabled \in BOOLEAN
          /\ Tallied(ledger[p])
        BY DEF TypeOK, LedgerType, TallyMatchesVotes
    <2>2. QED  BY <2>1, StepOnParam, VoteTallies
<1>3. QED  BY <1>1, <1>2, TypeCorrect, PTL DEF Spec

\* A confirmed value changes only to one a majority holds at that moment.
\* The count the code compares with the threshold is only as good as the
\* tally, so the action property rests on TallyMatchesVotes.
THEOREM ConfirmationNeedsMajority == Spec => OnlyMajorityConfirms
<1>1. TypeOK /\ TallyMatchesVotes /\ [Next]_vars =>
          [\A p \in Param : ledger'[p].current # ledger[p].current =>
              HasMajority(ledger'[p].proposed, ledger'[p].current)]_vars
    <2> SUFFICES ASSUME TypeOK, TallyMatchesVotes, [Next]_vars,
                        NEW p \in Param,
                        ledger'[p].current # ledger[p].current
                 PROVE  HasMajority(ledger'[p].proposed, ledger'[p].current)
        OBVIOUS
    <2>1. /\ ledger[p] \in Status
          /\ dedupDisabled \in BOOLEAN
          /\ Tallied(ledger[p])
        BY DEF TypeOK, LedgerType, TallyMatchesVotes
    <2>2. PICK a \in Agent, v \in Value :
              ledger'[p] = Vote(ledger[p], a, v, dedupDisabled)
        BY StepOnParam
    <2>3. QED  BY <2>1, <2>2, VoteConfirmsMajority
<1>2. QED
    BY <1>1, TypeCorrect, TallyCorrect, PTL DEF Spec, OnlyMajorityConfirms

-----------------------------------------------------------------------------
(* Majorities are confirmed.                                               *)

\* At the start nobody voted, so no value has a majority.
LEMMA InitSettled == Settled(InitStatus)
<1>1. ASSUME NEW v \in Value
      PROVE  ~HasMajority(InitStatus.proposed, v)
    <2>1. Cardinality(Supporters(InitStatus.proposed, v)) = 0
        <3>1. Tallied(InitStatus)  BY InitTallied
        <3>2. QED  BY <3>1 DEF Tallied, InitStatus
    <2>2. Threshold \in Nat
        BY VoteTallyAssumption DEF VoteTallyAssumption, Threshold
    <2>3. QED  BY <2>1, <2>2 DEF HasMajority
<1>2. QED  BY <1>1 DEF Settled

\* With no more agents than agents_count, a value held by a majority is the
\* confirmed one.
THEOREM MajorityConfirmed == Spec => []MajorityIsConfirmed
<1>1. Init => MajorityIsConfirmed
    BY InitSettled DEF Init, InitLedger, MajorityIsConfirmed
<1>2. TypeOK /\ TallyMatchesVotes /\ MajorityIsConfirmed /\ [Next]_vars
          => MajorityIsConfirmed'
    <2> SUFFICES ASSUME TypeOK, TallyMatchesVotes, MajorityIsConfirmed,
                        [Next]_vars, Cardinality(Agent) <= AgentsCount,
                        NEW p \in Param
                 PROVE  Settled(ledger'[p])
        BY DEF MajorityIsConfirmed
    <2>1. /\ ledger[p] \in Status
          /\ dedupDisabled \in BOOLEAN
          /\ Tallied(ledger[p])
          /\ Settled(ledger[p])
        BY DEF TypeOK, LedgerType, TallyMatchesVotes, MajorityIsConfirmed
    <2>2. QED  BY <2>1, StepOnParam, VoteSettles
<1>3. QED  BY <1>1, <1>2, TypeCorrect, TallyCorrect, PTL DEF Spec

-----------------------------------------------------------------------------
(* The announced state.                                                    *)

\* While an attack is confirmed, the last event sent describes the confirmed
\* attacks: the action test fires on every change that leaves an attack.
THEOREM AttacksAnnounced == Spec => []AttackStateAnnounced
<1>1. Init => AttackStateAnnounced
    BY DEF Init, InitLedger, InitStatus, Raised, AttackStateAnnounced
<1>2. AttackStateAnnounced /\ [Next]_vars => AttackStateAnnounced'
    <2> SUFFICES ASSUME AttackStateAnnounced, [Next]_vars, Raised(ledger') # {}
                 PROVE  announced' = Raised(ledger')
        BY DEF AttackStateAnnounced
    <2>1. ASSUME NEW a \in Agent, NEW ballot \in Ballot, DeliverTx(a, ballot)
          PROVE  announced' = Raised(ledger')
        <3>1. CASE Changed(ledger, ledger')
            BY <2>1, <3>1 DEF DeliverTx, EmitsAction
        <3>2. CASE ~Changed(ledger, ledger')
            <4>1. Raised(ledger') = Raised(ledger)
                BY <3>2 DEF Changed, Raised
            <4>2. announced' = announced
                BY <2>1, <3>2 DEF DeliverTx, EmitsAction
            <4>3. QED  BY <4>1, <4>2 DEF AttackStateAnnounced
        <3>3. QED  BY <3>1, <3>2
    <2>2. ASSUME NEW disabled \in BOOLEAN, SetDedup(disabled)
          PROVE  announced' = Raised(ledger')
        BY <2>2 DEF SetDedup, AttackStateAnnounced
    <2>3. CASE UNCHANGED vars  BY <2>3 DEF vars, AttackStateAnnounced
    <2>4. QED  BY <2>1, <2>2, <2>3 DEF Next
<1>3. QED  BY <1>1, <1>2, PTL DEF Spec

-----------------------------------------------------------------------------
(* Refinement of the abstract vote.                                        *)

\* Whoever counts the agents in favour of a value counts its supporters.
LEMMA SameMajority ==
    ASSUME NEW votes, NEW v
    PROVE  Majority!Wins(votes, v) <=> HasMajority(votes, v)
<1>1. \A S : Majority!Cardinality(S) = Cardinality(S)
    BY DEF Majority!Cardinality, Cardinality
<1>2. QED
    BY <1>1
    DEF Majority!Wins, Majority!InFavour, HasMajority, Supporters, Threshold

\* In a settled state after a step, either the confirmed value has a
\* majority, or none has and the step did not change it.
LEMMA StepDecides ==
    ASSUME TypeOK, TallyMatchesVotes, [Next]_vars,
           NEW p \in Param, Settled(ledger'[p])
    PROVE  \/ HasMajority(ledger'[p].proposed, ledger'[p].current)
           \/ /\ \A v \in Value : ~HasMajority(ledger'[p].proposed, v)
              /\ ledger'[p].current = ledger[p].current
<1>1. ASSUME ledger'[p].current # ledger[p].current
      PROVE  HasMajority(ledger'[p].proposed, ledger'[p].current)
    <2>1. /\ ledger[p] \in Status
          /\ dedupDisabled \in BOOLEAN
          /\ Tallied(ledger[p])
        BY DEF TypeOK, LedgerType, TallyMatchesVotes
    <2>2. PICK a \in Agent, v \in Value :
              ledger'[p] = Vote(ledger[p], a, v, dedupDisabled)
        BY <1>1, StepOnParam
    <2>3. QED  BY <1>1, <2>1, <2>2, VoteConfirmsMajority
<1>2. ASSUME NEW v \in Value, HasMajority(ledger'[p].proposed, v)
      PROVE  HasMajority(ledger'[p].proposed, ledger'[p].current)
    BY <1>2 DEF Settled
<1>3. QED  BY <1>1, <1>2

\* The ledger implements the abstract vote when no more than agents_count
\* agents vote: whatever is deduplicated, its votes and confirmed values are
\* those of agents whose majority decides.
THEOREM Refinement ==
    ASSUME Cardinality(Agent) <= AgentsCount
    PROVE  Spec => ImplementsMajorityVote
<1>1. Init => Majority!Init
    BY DEF Init, InitLedger, InitStatus, Majority!Init
<1>2. TypeOK /\ TallyMatchesVotes /\ MajorityIsConfirmed' /\ [Next]_vars
          => [Majority!Next]_(Majority!vars)
    <2> SUFFICES ASSUME TypeOK, TallyMatchesVotes, MajorityIsConfirmed',
                        [Next]_vars
                 PROVE  Majority!Next \/ UNCHANGED Majority!vars
        OBVIOUS
    <2>1. ASSUME NEW a \in Agent, NEW ballot \in Ballot, DeliverTx(a, ballot)
          PROVE  Majority!Next
        <3>1. ASSUME NEW p \in Param
              PROVE  ledger'[p].proposed =
                         IF p \in DOMAIN ballot
                         THEN [ledger[p].proposed EXCEPT ![a] = ballot[p]]
                         ELSE ledger[p].proposed
            <4>1. ledger'[p] = IF p \in DOMAIN ballot
                               THEN Vote(ledger[p], a, ballot[p], dedupDisabled)
                               ELSE ledger[p]
                BY <2>1 DEF DeliverTx, ProposeNewValues
            <4>2. ledger[p] \in Status /\ dedupDisabled \in BOOLEAN
                BY DEF TypeOK, LedgerType
            <4>3. QED  BY <4>1, <4>2, BallotType, VoteMoves
        <3>2. ASSUME NEW p \in Param
              PROVE  \/ HasMajority(ledger'[p].proposed, ledger'[p].current)
                     \/ /\ \A v \in Value : ~HasMajority(ledger'[p].proposed, v)
                        /\ ledger'[p].current = ledger[p].current
            <4>1. Settled(ledger'[p])  BY DEF MajorityIsConfirmed
            <4>2. QED  BY <4>1, StepDecides
        <3>3. Majority!Cast(a, ballot)
            BY <3>1, <3>2, SameMajority DEF Majority!Cast
        <3>4. PICK mask \in SUBSET Param : ballot \in [mask -> Value]
            BY DEF Ballot
        <3>5. QED  BY <3>3, <3>4 DEF Majority!Next
    <2>2. ASSUME NEW disabled \in BOOLEAN, SetDedup(disabled)
          PROVE  UNCHANGED Majority!vars
        BY <2>2 DEF SetDedup, Majority!vars
    <2>3. CASE UNCHANGED vars
        BY <2>3 DEF vars, Majority!vars
    <2>4. QED  BY <2>1, <2>2, <2>3 DEF Next
<1>3. QED
    BY <1>1, <1>2, TypeCorrect, TallyCorrect, MajorityConfirmed, PTL
    DEF Spec, ImplementsMajorityVote, Majority!Spec

-----------------------------------------------------------------------------
(* The replicas.                                                           *)

\* Every variable of the replicas keeps its type, and no node is ahead of the
\* chain.
THEOREM ReplicasTypeCorrect == ReplicasSpec => []ReplicasTypeOK
<1>1. ReplicasInit => ReplicasTypeOK
    <2>1. InitLedger \in LedgerType
        BY VoteTallyAssumption
        DEF VoteTallyAssumption, InitLedger, InitStatus, LedgerType, Status
    <2>2. QED
        BY <2>1, ReplicasAssumption
        DEF ReplicasAssumption, ReplicasInit, ReplicasTypeOK
<1>2. ReplicasTypeOK /\ [ReplicasNext]_replicasVars => ReplicasTypeOK'
    <2> SUFFICES ASSUME ReplicasTypeOK, [ReplicasNext]_replicasVars
                 PROVE  ReplicasTypeOK'
        OBVIOUS
    <2> USE ReplicasAssumption DEF ReplicasAssumption, ReplicasTypeOK
    <2>1. ASSUME NEW tx \in Tx, Order(tx)  PROVE ReplicasTypeOK'
        <3>1. chain' \in Seq(Tx) /\ Len(chain') = Len(chain) + 1  BY <2>1 DEF Order
        <3>2. QED  BY <2>1, <3>1 DEF Order
    <2>2. ASSUME NEW n \in Node, DeliverNext(n)  PROVE ReplicasTypeOK'
        <3>1. chain[applied[n] + 1] \in Tx  BY <2>2 DEF DeliverNext
        <3>2. ledgers' \in [Node -> LedgerType]
            BY <2>2, <3>1, ProposeType DEF DeliverNext, Tx
        <3>3. /\ applied' \in [Node -> 0..MaxChain]
              /\ \A m \in Node : applied'[m] <= Len(chain)
            BY <2>2 DEF DeliverNext
        <3>4. QED  BY <2>2, <3>2, <3>3 DEF DeliverNext
    <2>3. ASSUME NEW n \in Node, NEW disabled \in BOOLEAN, SetSwitch(n, disabled)
          PROVE  ReplicasTypeOK'
        BY <2>3 DEF SetSwitch
    <2>4. ASSUME NEW n \in Node, RestartComet(n)  PROVE ReplicasTypeOK'
        BY <2>4 DEF RestartComet
    <2>5. CASE UNCHANGED replicasVars  BY <2>5 DEF replicasVars
    <2>6. QED  BY <2>1, <2>2, <2>3, <2>4, <2>5 DEF ReplicasNext
<1>3. QED  BY <1>1, <1>2, PTL DEF ReplicasSpec

\* What a delivery does to a parameter of the node, and that nothing else
\* touches a ledger.
LEMMA Delivery ==
    ASSUME ReplicasTypeOK, NEW n \in Node, DeliverNext(n), NEW p \in Param
    PROVE  LET tx == chain[applied[n] + 1]
           IN  /\ tx.agent \in Agent /\ tx.ballot \in Ballot
               /\ ledgers[n][p] \in Status /\ switch[n] \in BOOLEAN
               /\ ledgers'[n][p] = IF p \in DOMAIN tx.ballot
                                   THEN Vote(ledgers[n][p], tx.agent, tx.ballot[p], switch[n])
                                   ELSE ledgers[n][p]
               /\ p \in DOMAIN tx.ballot => tx.ballot[p] \in Value
               /\ \A m \in Node : m # n => ledgers'[m] = ledgers[m]
<1> DEFINE tx == chain[applied[n] + 1]
<1>1. tx \in Tx  BY DEF ReplicasTypeOK, DeliverNext
<1>2. tx.agent \in Agent /\ tx.ballot \in Ballot  BY <1>1 DEF Tx
<1>3. ledgers[n][p] \in Status /\ switch[n] \in BOOLEAN
    BY DEF ReplicasTypeOK, LedgerType
<1>4. /\ ledgers'[n] = ProposeNewValues(ledgers[n], tx.agent, tx.ballot, switch[n])
      /\ \A m \in Node : m # n => ledgers'[m] = ledgers[m]
    BY DEF ReplicasTypeOK, DeliverNext
<1>5. p \in DOMAIN tx.ballot => tx.ballot[p] \in Value  BY <1>2, BallotType
<1> HIDE DEF tx
<1>6. ledgers'[n][p] = IF p \in DOMAIN tx.ballot
                       THEN Vote(ledgers[n][p], tx.agent, tx.ballot[p], switch[n])
                       ELSE ledgers[n][p]
    BY <1>4 DEF ProposeNewValues
<1>7. QED  BY <1>2, <1>3, <1>4, <1>5, <1>6 DEF tx

LEMMA LedgersStay ==
    ASSUME [ReplicasNext]_replicasVars, \A n \in Node : ~DeliverNext(n)
    PROVE  ledgers' = ledgers
BY DEF ReplicasNext, Order, SetSwitch, RestartComet, replicasVars

\* Every replica's counts are those of its votes, and its majorities are
\* confirmed, even while a chain is replayed over a ledger that was kept.
ReplicasCount ==
    /\ \A n \in Node, p \in Param : Tallied(ledgers[n][p])
    /\ Cardinality(Agent) <= AgentsCount =>
          \A n \in Node, p \in Param : Settled(ledgers[n][p])

LEMMA ReplicasCountStep ==
    ASSUME ReplicasTypeOK, ReplicasCount, [ReplicasNext]_replicasVars
    PROVE  ReplicasCount'
<1>1. ASSUME NEW n \in Node, DeliverNext(n), NEW m \in Node, NEW p \in Param
      PROVE  /\ Tallied(ledgers'[m][p])
             /\ Cardinality(Agent) <= AgentsCount => Settled(ledgers'[m][p])
    <2>1. CASE m # n  BY <1>1, <2>1, Delivery DEF ReplicasCount
    <2>2. CASE m = n
        <3>1. /\ Tallied(ledgers[n][p])
              /\ Cardinality(Agent) <= AgentsCount => Settled(ledgers[n][p])
            BY DEF ReplicasCount
        <3>2. QED  BY <1>1, <2>2, <3>1, Delivery, VoteTallies, VoteSettles
    <2>3. QED  BY <2>1, <2>2
<1>2. CASE \A n \in Node : ~DeliverNext(n)
    BY <1>2, LedgersStay DEF ReplicasCount
<1>3. QED  BY <1>1, <1>2 DEF ReplicasCount

-----------------------------------------------------------------------------
(* What the first k transactions of the chain say, without the ledger.     *)

\* The transactions among them in which agent a votes on p, and its last vote.
CastBy(a, p, k) == {i \in 1..k : chain[i].agent = a /\ p \in DOMAIN chain[i].ballot}

Latest(I) == CHOOSE i \in I : \A j \in I : j <= i

LastVote(a, p, k) == chain[Latest(CastBy(a, p, k))].ballot[p]

VotesAt(p, k) ==
    [a \in Agent |-> IF CastBy(a, p, k) = {} THEN NoVote ELSE LastVote(a, p, k)]

\* The prefixes after which some value has a majority, and the value that the
\* last of them confirms.
Decides(votes) == \E v \in Value : HasMajority(votes, v)

Winner(votes) == CHOOSE v \in Value : HasMajority(votes, v)

Decided(p, k) == {j \in 1..k : Decides(VotesAt(p, j))}

ConfirmedAt(p, k) ==
    IF Decided(p, k) = {} THEN 0 ELSE Winner(VotesAt(p, Latest(Decided(p, k))))

\* A set of positions that is not empty has a latest: one above which there is
\* a smallest set of others.
LEMMA LatestExists ==
    ASSUME NEW k \in Nat, NEW I \in SUBSET (1..k), I # {}
    PROVE  Latest(I) \in I
<1> DEFINE Above(i) == {j \in I : i < j}
           Cuts == {Above(i) : i \in I}
<1>1. IsFiniteSet(I)
    <2>1. IsFiniteSet(1..k)  BY FS_Interval
    <2>2. QED  BY <2>1, FS_Subset
<1>2. Cuts \subseteq FiniteSubsetsOf(I) /\ Cuts # {}
    <2>1. \A i \in I : IsFiniteSet(Above(i)) /\ Above(i) \subseteq I  BY <1>1, FS_Subset
    <2>2. QED  BY <2>1 DEF FiniteSubsetsOf
<1>3. PICK c \in Cuts : \A d \in Cuts : ~(<<d, c>> \in StrictSubsetOrdering(I))
    BY <1>2, WFMin, FS_StrictSubsetOrderingWellFounded
<1>4. PICK i \in I : c = Above(i)  OBVIOUS
<1>5. ASSUME NEW j \in I, i < j  PROVE FALSE
    <2>1. \A m \in I : j < m => i < m  BY <1>5
    <2>2. ~(j < j)  OBVIOUS
    <2>3. Above(j) \subseteq Above(i) /\ j \in Above(i) /\ j \notin Above(j)
        BY <1>5, <2>1, <2>2
    <2>4. <<Above(j), c>> \in StrictSubsetOrdering(I)
        BY <2>3, <1>4 DEF StrictSubsetOrdering
    <2>5. QED  BY <2>4, <1>3
<1>6. \A j \in I : j <= i  BY <1>5
<1>7. QED  BY <1>6 DEF Latest

\* A set that a larger element joins has it as its latest.
LEMMA LatestJoins ==
    ASSUME NEW k \in Nat, NEW I \in SUBSET (1..k)
    PROVE  Latest(I \cup {k + 1}) = k + 1
<1>1. \A j \in I \cup {k + 1} : j <= k + 1  OBVIOUS
<1>2. \A i \in I \cup {k + 1} : (\A j \in I \cup {k + 1} : j <= i) => i = k + 1
    OBVIOUS
<1>3. QED  BY <1>1, <1>2 DEF Latest

\* The next transaction adds itself to what its agent cast on each parameter
\* of its ballot.
LEMMA CastByNext ==
    ASSUME ReplicasTypeOK, NEW k \in Nat, k < Len(chain), NEW a \in Agent, NEW p \in Param
    PROVE  LET tx == chain[k + 1]
           IN  /\ CastBy(a, p, k) \subseteq 1..k
               /\ CastBy(a, p, k + 1) =
                      IF tx.agent = a /\ p \in DOMAIN tx.ballot
                      THEN CastBy(a, p, k) \cup {k + 1} ELSE CastBy(a, p, k)
BY DEF CastBy

LEMMA VotesAtNext ==
    ASSUME ReplicasTypeOK, NEW k \in Nat, k < Len(chain), NEW p \in Param
    PROVE  LET tx == chain[k + 1]
           IN  VotesAt(p, k + 1) = IF p \in DOMAIN tx.ballot
                                   THEN [VotesAt(p, k) EXCEPT ![tx.agent] = tx.ballot[p]]
                                   ELSE VotesAt(p, k)
<1> DEFINE tx == chain[k + 1]
<1>1. ASSUME NEW a \in Agent
      PROVE  VotesAt(p, k + 1)[a] = IF tx.agent = a /\ p \in DOMAIN tx.ballot
                                    THEN tx.ballot[p] ELSE VotesAt(p, k)[a]
    <2>1. CASE tx.agent = a /\ p \in DOMAIN tx.ballot
        <3>1. CastBy(a, p, k + 1) = CastBy(a, p, k) \cup {k + 1}
            BY <2>1, CastByNext
        <3>2. Latest(CastBy(a, p, k + 1)) = k + 1
            BY <3>1, CastByNext, LatestJoins
        <3>3. CastBy(a, p, k + 1) # {}  BY <3>1
        <3>4. QED  BY <2>1, <3>2, <3>3 DEF VotesAt, LastVote
    <2>2. CASE ~(tx.agent = a /\ p \in DOMAIN tx.ballot)
        <3>1. CastBy(a, p, k + 1) = CastBy(a, p, k)  BY <2>2, CastByNext
        <3>2. QED  BY <2>2, <3>1 DEF VotesAt, LastVote
    <2>3. QED  BY <2>1, <2>2
<1>2. /\ VotesAt(p, k + 1) = [a \in Agent |-> VotesAt(p, k + 1)[a]]
      /\ VotesAt(p, k) = [a \in Agent |-> VotesAt(p, k)[a]]
    BY DEF VotesAt
<1> HIDE DEF tx
<1>3. CASE p \in DOMAIN tx.ballot
    <2>1. [VotesAt(p, k) EXCEPT ![tx.agent] = tx.ballot[p]] =
              [a \in Agent |-> IF tx.agent = a THEN tx.ballot[p] ELSE VotesAt(p, k)[a]]
        BY <1>2
    <2>2. VotesAt(p, k + 1) =
              [a \in Agent |-> IF tx.agent = a THEN tx.ballot[p] ELSE VotesAt(p, k)[a]]
        BY <1>1, <1>2, <1>3
    <2>3. QED  BY <1>3, <2>1, <2>2 DEF tx
<1>4. CASE p \notin DOMAIN tx.ballot
    BY <1>1, <1>2, <1>4 DEF tx
<1>5. QED  BY <1>3, <1>4

\* A prefix after which a value has a majority confirms it; another confirms
\* what the one before did.
LEMMA ConfirmedNext ==
    ASSUME NEW k \in Nat, NEW p \in Param
    PROVE  ConfirmedAt(p, k + 1) = IF Decides(VotesAt(p, k + 1))
                                   THEN Winner(VotesAt(p, k + 1)) ELSE ConfirmedAt(p, k)
<1>1. Decided(p, k) \in SUBSET (1..k)  BY DEF Decided
<1>2. Decided(p, k + 1) = IF Decides(VotesAt(p, k + 1))
                          THEN Decided(p, k) \cup {k + 1} ELSE Decided(p, k)
    BY DEF Decided
<1>3. CASE Decides(VotesAt(p, k + 1))
    <2>1. Latest(Decided(p, k + 1)) = k + 1  BY <1>1, <1>2, <1>3, LatestJoins
    <2>2. Decided(p, k + 1) # {}  BY <1>2, <1>3
    <2>3. QED  BY <1>3, <2>1, <2>2 DEF ConfirmedAt
<1>4. CASE ~Decides(VotesAt(p, k + 1))
    BY <1>2, <1>4 DEF ConfirmedAt
<1>5. QED  BY <1>3, <1>4

\* The chain only grows.
LEMMA ChainGrows ==
    ASSUME ReplicasTypeOK, [ReplicasNext]_replicasVars
    PROVE  /\ Len(chain) \in Nat /\ Len(chain) <= Len(chain')
           /\ \A i \in 1..Len(chain) : chain'[i] = chain[i]
<1>1. chain \in Seq(Tx)  BY DEF ReplicasTypeOK
<1>2. CASE UNCHANGED chain  BY <1>1, <1>2
<1>3. ASSUME NEW tx \in Tx, Order(tx)
      PROVE  Len(chain) <= Len(chain') /\ \A i \in 1..Len(chain) : chain'[i] = chain[i]
    BY <1>1, <1>3 DEF Order
<1>4. QED
    BY <1>1, <1>2, <1>3
    DEF ReplicasNext, DeliverNext, SetSwitch, RestartComet, replicasVars

\* The history of a prefix does not change when the chain grows.
LEMMA HistoryStays ==
    ASSUME ReplicasTypeOK, [ReplicasNext]_replicasVars, NEW k \in 0..Len(chain), NEW p \in Param
    PROVE  /\ \A a \in Agent : CastBy(a, p, k)' = CastBy(a, p, k)
           /\ \A a \in Agent : CastBy(a, p, k) # {} => LastVote(a, p, k)' = LastVote(a, p, k)
           /\ VotesAt(p, k)' = VotesAt(p, k)
           /\ ConfirmedAt(p, k)' = ConfirmedAt(p, k)
<1>1. Len(chain) \in Nat /\ \A i \in 1..Len(chain) : chain'[i] = chain[i]
    BY ChainGrows
<1>2. ASSUME NEW j \in 0..Len(chain), NEW a \in Agent
      PROVE  /\ CastBy(a, p, j)' = CastBy(a, p, j)
             /\ CastBy(a, p, j) # {} => LastVote(a, p, j)' = LastVote(a, p, j)
    <2>1. CastBy(a, p, j)' = CastBy(a, p, j) /\ CastBy(a, p, j) \in SUBSET (1..j)
        BY <1>1, <1>2 DEF CastBy
    <2>2. j \in Nat  BY <1>1
    <2>3. ASSUME CastBy(a, p, j) # {}  PROVE Latest(CastBy(a, p, j)) \in CastBy(a, p, j)
        BY <2>1, <2>2, <2>3, LatestExists
    <2>4. ASSUME CastBy(a, p, j) # {}  PROVE Latest(CastBy(a, p, j)) \in 1..Len(chain)
        BY <1>1, <2>1, <2>3, <2>4
    <2>5. QED  BY <1>1, <2>1, <2>4 DEF LastVote
<1>3. \A j \in 0..Len(chain) : VotesAt(p, j)' = VotesAt(p, j)
    BY <1>2 DEF VotesAt
<1>4. ASSUME NEW j \in 0..Len(chain)
      PROVE  Decides(VotesAt(p, j))' = Decides(VotesAt(p, j))
    BY <1>3 DEF Decides, HasMajority, Supporters
<1>5. Decided(p, k)' = Decided(p, k) /\ Decided(p, k) \in SUBSET (1..k)
    <2>1. 1..k \subseteq 0..Len(chain)  BY <1>1
    <2>2. QED  BY <1>4, <2>1 DEF Decided
<1>6. ASSUME Decided(p, k) # {}
      PROVE  Winner(VotesAt(p, Latest(Decided(p, k))))' = Winner(VotesAt(p, Latest(Decided(p, k))))
    <2>1. k \in Nat  BY <1>1
    <2>2. Latest(Decided(p, k)) \in Decided(p, k)  BY <1>5, <1>6, <2>1, LatestExists
    <2>3. Latest(Decided(p, k)) \in 0..Len(chain)  BY <1>1, <1>5, <2>2
    <2>4. VotesAt(p, Latest(Decided(p, k)))' = VotesAt(p, Latest(Decided(p, k)))
        BY <1>3, <1>5, <2>3
    <2>5. QED  BY <2>4 DEF Winner, HasMajority, Supporters
<1>7. ConfirmedAt(p, k)' = ConfirmedAt(p, k)
    BY <1>5, <1>6 DEF ConfirmedAt
<1>8. QED  BY <1>2, <1>3, <1>7

-----------------------------------------------------------------------------
(* What the ledgers hold of that history.                                  *)

\* While a node applies the chain for the first time its ledger is what the
\* applied prefix says.
FirstPass ==
    \A n \in Node, p \in Param : restarts[n] = 0 =>
        /\ ledgers[n][p].proposed = VotesAt(p, applied[n])
        /\ Cardinality(Agent) <= AgentsCount =>
               ledgers[n][p].current = ConfirmedAt(p, applied[n])

\* In any pass, the first or a replay over a ledger that was kept, an agent
\* that voted in the applied prefix holds its last vote there, and an agent
\* that voted nowhere on the chain holds none.
EveryPass ==
    \A n \in Node, p \in Param, a \in Agent :
        IF CastBy(a, p, applied[n]) # {}
        THEN ledgers[n][p].proposed[a] = LastVote(a, p, applied[n])
        ELSE CastBy(a, p, Len(chain)) = {} => ledgers[n][p].proposed[a] = NoVote

ReplicasInv == ReplicasTypeOK /\ ReplicasCount /\ FirstPass /\ EveryPass

\* Before the first transaction nobody voted and nothing is confirmed.
LEMMA HistoryStarts ==
    ASSUME NEW p \in Param
    PROVE  /\ VotesAt(p, 0) = [a \in Agent |-> NoVote]
           /\ ConfirmedAt(p, 0) = 0
           /\ \A a \in Agent : CastBy(a, p, 0) = {}
<1>1. \A a \in Agent : CastBy(a, p, 0) = {}  BY DEF CastBy
<1>2. Decided(p, 0) = {}  BY DEF Decided
<1>3. QED  BY <1>1, <1>2 DEF VotesAt, ConfirmedAt

LEMMA ReplicasInvInit ==
    ASSUME ReplicasInit, ReplicasTypeOK
    PROVE  ReplicasInv
<1>1. \A n \in Node, p \in Param :
          ledgers[n][p] = InitStatus /\ applied[n] = 0 /\ restarts[n] = 0
    BY DEF ReplicasInit, InitLedger
<1>2. ReplicasCount  BY <1>1, InitTallied, InitSettled DEF ReplicasCount
<1>3. InitStatus.current = 0 /\ InitStatus.proposed = [a \in Agent |-> NoVote]
    BY DEF InitStatus
<1>4. FirstPass  BY <1>1, <1>3, HistoryStarts DEF FirstPass
<1>5. EveryPass  BY <1>1, <1>3, HistoryStarts DEF EveryPass
<1>6. QED  BY <1>2, <1>4, <1>5 DEF ReplicasInv

\* A vote on p, whether it is counted or skipped, keeps the confirmed value what
\* the prefix confirms.
LEMMA ConfirmedFollows ==
    ASSUME ReplicasInv, ReplicasCount', Cardinality(Agent) <= AgentsCount,
           NEW n \in Node, restarts[n] = 0, DeliverNext(n), NEW p \in Param,
           ledgers'[n][p].proposed = VotesAt(p, applied[n] + 1)
    PROVE  ledgers'[n][p].current = ConfirmedAt(p, applied[n] + 1)
<1> DEFINE old == ledgers[n][p]
           new == ledgers'[n][p]
<1>1. applied[n] \in Nat /\ ReplicasTypeOK  BY DEF ReplicasInv, ReplicasTypeOK
<1>2. old.current = ConfirmedAt(p, applied[n])  BY DEF ReplicasInv, FirstPass
<1>3. Tallied(old)  BY DEF ReplicasInv, ReplicasCount
<1>4. Settled(new)  BY DEF ReplicasCount
<1>5. new \in Status
    <2>1. \A st \in Status, a \in Agent, v \in Value, disabled \in BOOLEAN :
              Vote(st, a, v, disabled) \in Status
        BY VoteType
    <2>2. QED  BY <1>1, <2>1, Delivery
<1>6. new.current # old.current => HasMajority(new.proposed, new.current)
    BY <1>1, <1>3, Delivery, VoteConfirmsMajority
<1> HIDE DEF old, new
<1>7. CASE Decides(VotesAt(p, applied[n] + 1))
    <2>1. Winner(VotesAt(p, applied[n] + 1)) \in Value
          /\ HasMajority(new.proposed, Winner(VotesAt(p, applied[n] + 1)))
        BY <1>7 DEF Decides, Winner, new
    <2>2. new.current = Winner(VotesAt(p, applied[n] + 1))
        BY <1>4, <2>1 DEF Settled
    <2>3. QED  BY <1>1, <1>7, <2>2, ConfirmedNext DEF new
<1>8. CASE ~Decides(VotesAt(p, applied[n] + 1))
    <2>1. new.current \in Value  BY <1>5 DEF Status
    <2>2. ~HasMajority(new.proposed, new.current)
        BY <1>8, <2>1 DEF Decides, new
    <2>3. QED  BY <1>1, <1>2, <1>6, <1>8, <2>2, ConfirmedNext DEF new
<1>9. QED  BY <1>7, <1>8

\* The next transaction on one node.
LEMMA PassNext ==
    ASSUME ReplicasInv, ReplicasCount', NEW n \in Node, DeliverNext(n), NEW p \in Param
    PROVE  /\ restarts[n] = 0 =>
                  /\ ledgers'[n][p].proposed = VotesAt(p, applied[n] + 1)
                  /\ Cardinality(Agent) <= AgentsCount =>
                         ledgers'[n][p].current = ConfirmedAt(p, applied[n] + 1)
           /\ \A a \in Agent :
                  IF CastBy(a, p, applied[n] + 1) # {}
                  THEN ledgers'[n][p].proposed[a] = LastVote(a, p, applied[n] + 1)
                  ELSE CastBy(a, p, Len(chain)) = {} => ledgers'[n][p].proposed[a] = NoVote
<1> DEFINE k == applied[n]
           tx == chain[k + 1]
           old == ledgers[n][p].proposed
           new == ledgers'[n][p].proposed
<1>1. k \in Nat /\ k < Len(chain) /\ ReplicasTypeOK
    BY DEF ReplicasInv, ReplicasTypeOK, DeliverNext
<1>2. tx.agent \in Agent /\ old \in [Agent -> Value \cup {NoVote}]
    BY <1>1, Delivery DEF Status
<1>3. new = IF p \in DOMAIN tx.ballot THEN [old EXCEPT ![tx.agent] = tx.ballot[p]] ELSE old
    BY <1>1, Delivery, VoteMoves
<1>4. restarts[n] = 0 => new = VotesAt(p, k + 1)
    <2>1. restarts[n] = 0 => old = VotesAt(p, k)  BY DEF ReplicasInv, FirstPass
    <2>2. QED  BY <1>1, <1>3, <2>1, VotesAtNext
<1>5. ASSUME NEW a \in Agent
      PROVE  IF CastBy(a, p, k + 1) # {}
             THEN new[a] = LastVote(a, p, k + 1)
             ELSE CastBy(a, p, Len(chain)) = {} => new[a] = NoVote
    <2>1. CASE tx.agent = a /\ p \in DOMAIN tx.ballot
        <3>1. CastBy(a, p, k + 1) = CastBy(a, p, k) \cup {k + 1}
              /\ CastBy(a, p, k) \in SUBSET (1..k)
            BY <1>1, <2>1, CastByNext
        <3>2. Latest(CastBy(a, p, k + 1)) = k + 1
            BY <1>1, <3>1, LatestJoins
        <3>3. new[a] = tx.ballot[p]  BY <1>2, <1>3, <2>1
        <3>4. QED  BY <3>1, <3>2, <3>3 DEF LastVote
    <2>2. CASE ~(tx.agent = a /\ p \in DOMAIN tx.ballot)
        <3>1. CastBy(a, p, k + 1) = CastBy(a, p, k)
            BY <1>1, <2>2, CastByNext
        <3>2. new[a] = old[a]  BY <1>2, <1>3, <2>2
        <3>3. IF CastBy(a, p, k) # {}
              THEN old[a] = LastVote(a, p, k)
              ELSE CastBy(a, p, Len(chain)) = {} => old[a] = NoVote
            BY DEF ReplicasInv, EveryPass
        <3> HIDE DEF old, new, k
        <3>4. QED  BY <3>1, <3>2, <3>3 DEF LastVote
    <2>3. QED  BY <2>1, <2>2
<1>6. QED  BY <1>4, <1>5, ConfirmedFollows

LEMMA ReplicasInvStep ==
    ASSUME ReplicasInv, ReplicasTypeOK', [ReplicasNext]_replicasVars
    PROVE  ReplicasInv'
<1>0. ReplicasTypeOK /\ ReplicasCount /\ ReplicasCount'
    BY ReplicasCountStep DEF ReplicasInv
<1>1. Len(chain) \in Nat /\ Len(chain) <= Len(chain')
    BY <1>0, ChainGrows
<1>2. SUFFICES ASSUME NEW n \in Node, NEW p \in Param
      PROVE  /\ restarts'[n] = 0 =>
                    /\ ledgers'[n][p].proposed = VotesAt(p, applied[n])'
                    /\ Cardinality(Agent) <= AgentsCount =>
                           ledgers'[n][p].current = ConfirmedAt(p, applied[n])'
             /\ \A a \in Agent :
                    IF CastBy(a, p, applied[n])' # {}
                    THEN ledgers'[n][p].proposed[a] = LastVote(a, p, applied[n])'
                    ELSE CastBy(a, p, Len(chain))' = {} =>
                             ledgers'[n][p].proposed[a] = NoVote
    BY <1>0 DEF ReplicasInv, FirstPass, EveryPass
<1>3. \A a \in Agent : CastBy(a, p, Len(chain))' = {} => CastBy(a, p, Len(chain)) = {}
    <2>1. \A i \in 1..Len(chain) : chain'[i] = chain[i]
        BY <1>0, ChainGrows
    <2>2. QED  BY <1>1, <2>1 DEF CastBy
<1>4. CASE DeliverNext(n)
    <2>1. applied[n] + 1 \in 0..Len(chain) /\ applied'[n] = applied[n] + 1
          /\ restarts' = restarts
        BY <1>0, <1>4 DEF ReplicasTypeOK, DeliverNext
    <2>2. PICK k \in 0..Len(chain) : k = applied[n] + 1 /\ k = applied'[n]
        BY <2>1
    <2>3. /\ VotesAt(p, applied[n])' = VotesAt(p, k)
          /\ ConfirmedAt(p, applied[n])' = ConfirmedAt(p, k)
          /\ \A a \in Agent : CastBy(a, p, applied[n])' = CastBy(a, p, k)
          /\ \A a \in Agent : CastBy(a, p, k) # {} =>
                                  LastVote(a, p, applied[n])' = LastVote(a, p, k)
        BY <1>0, <2>2, HistoryStays
    <2>4. QED  BY <1>0, <1>3, <1>4, <2>1, <2>2, <2>3, PassNext
<1>5. CASE ledgers'[n] = ledgers[n] /\ applied'[n] = applied[n] /\ restarts'[n] = restarts[n]
    <2>1. PICK k \in 0..Len(chain) : k = applied[n] /\ k = applied'[n]
        BY <1>0, <1>5 DEF ReplicasTypeOK
    <2>2. /\ VotesAt(p, applied[n])' = VotesAt(p, k)
          /\ ConfirmedAt(p, applied[n])' = ConfirmedAt(p, k)
          /\ \A a \in Agent : CastBy(a, p, applied[n])' = CastBy(a, p, k)
          /\ \A a \in Agent : CastBy(a, p, k) # {} =>
                                  LastVote(a, p, applied[n])' = LastVote(a, p, k)
        BY <1>0, <2>1, HistoryStays
    <2>3. QED
        BY <1>3, <1>5, <2>1, <2>2 DEF ReplicasInv, FirstPass, EveryPass
<1>6. CASE RestartComet(n)
    <2>1. restarts'[n] # 0 /\ applied'[n] = 0 /\ ledgers' = ledgers /\ chain' = chain
        BY <1>0, <1>6 DEF ReplicasTypeOK, RestartComet
    <2>2. ASSUME NEW a \in Agent, CastBy(a, p, Len(chain)) = {}
          PROVE  ledgers[n][p].proposed[a] = NoVote
        <3>1. CastBy(a, p, applied[n]) = {}
            BY <1>0, <1>1, <2>2 DEF CastBy, ReplicasTypeOK
        <3>2. QED  BY <2>2, <3>1 DEF ReplicasInv, EveryPass
    <2>3. \A a \in Agent : CastBy(a, p, applied[n])' = {}
        BY <2>1 DEF CastBy
    <2>4. QED  BY <1>3, <2>1, <2>2, <2>3
<1>7. QED
    <2>1. ASSUME NEW m \in Node, DeliverNext(m) \/ RestartComet(m), m # n
          PROVE  ledgers'[n] = ledgers[n] /\ applied'[n] = applied[n]
                 /\ restarts'[n] = restarts[n]
        BY <1>0, <2>1 DEF ReplicasTypeOK, DeliverNext, RestartComet
    <2>2. ASSUME UNCHANGED <<ledgers, applied, restarts>>
          PROVE  ledgers'[n] = ledgers[n] /\ applied'[n] = applied[n]
                 /\ restarts'[n] = restarts[n]
        BY <2>2
    <2>3. \/ UNCHANGED <<ledgers, applied, restarts>>
          \/ \E m \in Node : DeliverNext(m) \/ RestartComet(m)
        BY DEF ReplicasNext, Order, SetSwitch, replicasVars
    <2>4. QED  BY <1>4, <1>5, <1>6, <2>1, <2>2, <2>3

\* The invariant of the replicas.
LEMMA ReplicasInvariant == ReplicasSpec => []ReplicasInv
<1>1. ReplicasInit /\ ReplicasTypeOK => ReplicasInv  BY ReplicasInvInit
<1>2. ReplicasInv /\ ReplicasTypeOK' /\ [ReplicasNext]_replicasVars => ReplicasInv'
    BY ReplicasInvStep
<1>3. QED  BY <1>1, <1>2, ReplicasTypeCorrect, PTL DEF ReplicasSpec

\* The counts of a status follow from its votes.
LEMMA SameCounts ==
    ASSUME NEW st \in Status, NEW other \in Status, Tallied(st), Tallied(other),
           st.proposed = other.proposed
    PROVE  st.count = other.count
<1>1. st.count \in [Value -> Nat] /\ other.count \in [Value -> Nat]  BY DEF Status
<1>2. \A v \in Value : st.count[v] = other.count[v]  BY DEF Tallied
<1>3. QED  BY <1>1, <1>2

\* deliver_tx skips repeated votes or counts them again, as the switch of its
\* node says: two nodes that never started over and applied as many
\* transactions hold the same ledger whatever their switches were, when no more
\* agents vote than agents_count.
THEOREM SwitchesNeverSplit == ReplicasSpec => []SwitchesDoNotSplit
<1>1. ASSUME ReplicasInv  PROVE SwitchesDoNotSplit
    <2> SUFFICES ASSUME Cardinality(Agent) <= AgentsCount,
                        NEW n \in Node, NEW m \in Node,
                        restarts[n] = 0, restarts[m] = 0, applied[n] = applied[m]
                 PROVE  ledgers[n] = ledgers[m]
        BY DEF SwitchesDoNotSplit
    <2>1. ASSUME NEW p \in Param  PROVE ledgers[n][p] = ledgers[m][p]
        <3>1. ledgers[n][p] \in Status /\ ledgers[m][p] \in Status
            BY <1>1 DEF ReplicasInv, ReplicasTypeOK, LedgerType
        <3>2. /\ ledgers[n][p].proposed = ledgers[m][p].proposed
              /\ ledgers[n][p].current = ledgers[m][p].current
            BY <1>1 DEF ReplicasInv, FirstPass
        <3>3. ledgers[n][p].count = ledgers[m][p].count
            BY <1>1, <3>1, <3>2, SameCounts DEF ReplicasInv, ReplicasCount
        <3>4. QED  BY <3>1, <3>2, <3>3 DEF Status
    <2>2. QED  BY <1>1, <2>1 DEF ReplicasInv, ReplicasTypeOK, LedgerType
<1>2. QED
    <2>1. ReplicasInv => SwitchesDoNotSplit  BY <1>1
    <2>2. QED  BY <2>1, ReplicasInvariant, PTL

\* Nodes that applied the whole chain hold the same votes, whatever a relaunched
\* CometBFT delivered again on top of a ledger that was kept.
LEMMA ReplayedVotes ==
    ASSUME ReplicasInv, NEW n \in Node, NEW m \in Node, CaughtUp(n), CaughtUp(m),
           NEW p \in Param
    PROVE  /\ ledgers[n][p].proposed = ledgers[m][p].proposed
           /\ ledgers[n][p].count = ledgers[m][p].count
<1>1. ledgers[n][p] \in Status /\ ledgers[m][p] \in Status
    BY DEF ReplicasInv, ReplicasTypeOK, LedgerType
<1>2. ASSUME NEW a \in Agent
      PROVE  ledgers[n][p].proposed[a] = ledgers[m][p].proposed[a]
    <2>1. ASSUME NEW o \in Node, CaughtUp(o)
          PROVE  ledgers[o][p].proposed[a] =
                     IF CastBy(a, p, Len(chain)) # {}
                     THEN LastVote(a, p, Len(chain)) ELSE NoVote
        <3>1. applied[o] = Len(chain)  BY <2>1 DEF CaughtUp
        <3>2. IF CastBy(a, p, applied[o]) # {}
              THEN ledgers[o][p].proposed[a] = LastVote(a, p, applied[o])
              ELSE CastBy(a, p, Len(chain)) = {} => ledgers[o][p].proposed[a] = NoVote
            BY DEF ReplicasInv, EveryPass
        <3>3. QED  BY <3>1, <3>2
    <2>2. QED  BY <2>1
<1>3. ledgers[n][p].proposed = ledgers[m][p].proposed
    BY <1>1, <1>2 DEF Status
<1>4. QED
    BY <1>1, <1>3, SameCounts DEF ReplicasInv, ReplicasCount

\* After a replay the votes and the counts are those of a node that applied the
\* chain once.
THEOREM ReplaysKeepVotes == ReplicasSpec => []ReplayKeepsVotes
<1>1. ReplicasInv => ReplayKeepsVotes
    BY ReplayedVotes DEF ReplayKeepsVotes
<1>2. QED  BY <1>1, ReplicasInvariant, PTL

\* After a replay the confirmed value is that of a node that applied the chain
\* once, where the final votes have a majority and no more agents vote than
\* agents_count.
THEOREM ReplaysKeepMajorities == ReplicasSpec => []ReplayKeepsMajorities
<1>1. ASSUME ReplicasInv  PROVE ReplayKeepsMajorities
    <2> SUFFICES ASSUME Cardinality(Agent) <= AgentsCount,
                        NEW n \in Node, NEW m \in Node, CaughtUp(n), CaughtUp(m),
                        NEW p \in Param, NEW v \in Value,
                        HasMajority(ledgers[n][p].proposed, v)
                 PROVE  ledgers[n][p].current = ledgers[m][p].current
        BY DEF ReplayKeepsMajorities
    <2>1. ledgers[n][p].proposed = ledgers[m][p].proposed
        BY <1>1, ReplayedVotes
    <2>2. Settled(ledgers[n][p]) /\ Settled(ledgers[m][p])
        BY <1>1 DEF ReplicasInv, ReplicasCount
    <2>3. QED  BY <2>1, <2>2 DEF Settled
<1>2. QED
    <2>1. ReplicasInv => ReplayKeepsMajorities  BY <1>1
    <2>2. QED  BY <2>1, ReplicasInvariant, PTL
=============================================================================
