-------------------------- MODULE VoteTallyProofs --------------------------
(***************************************************************************)
(* Facts about counting one vote, for any agents, values and agents_count. *)
(* They say what Vote does to one ParamStatus; the proofs of the state     *)
(* machines that apply it (LedgerProofs) cite them.                        *)
(***************************************************************************)
EXTENDS VoteTally, FiniteSetTheorems, TLAPS

-----------------------------------------------------------------------------
(* Supporters.                                                             *)

\* A set of supporters is finite, and its size is a natural number.
LEMMA SupportersFinite ==
    ASSUME NEW votes, NEW v
    PROVE  /\ Supporters(votes, v) \in SUBSET Agent
           /\ IsFiniteSet(Supporters(votes, v))
           /\ Cardinality(Supporters(votes, v)) \in Nat
<1>1. Supporters(votes, v) \in SUBSET Agent  BY DEF Supporters
<1>2. IsFiniteSet(Supporters(votes, v))
    BY <1>1, VoteTallyAssumption, FS_Subset DEF VoteTallyAssumption
<1>3. QED  BY <1>1, <1>2, FS_CardinalityType

\* When agent a moves its vote to v: v gains a, a's previous value loses it, and the other
\* values keep their support.
LEMMA MovedCount ==
    ASSUME NEW votes \in [Agent -> Value \cup {NoVote}],
           NEW a \in Agent, NEW v \in Value, NEW w \in Value
    PROVE  Cardinality(Supporters([votes EXCEPT ![a] = v], w)) =
               IF w = v
               THEN Cardinality(Supporters(votes, w))
                        + (IF votes[a] = v THEN 0 ELSE 1)
               ELSE Cardinality(Supporters(votes, w))
                        - (IF votes[a] = w THEN 1 ELSE 0)
<1> DEFINE S == Supporters(votes, w)
           T == Supporters([votes EXCEPT ![a] = v], w)
<1>1. /\ IsFiniteSet(S)
      /\ Cardinality(S) \in Nat
    BY SupportersFinite
<1>2. a \in S <=> votes[a] = w  BY DEF Supporters
<1>3. CASE w = v
    <2>1. T = S \cup {a}  BY <1>3 DEF Supporters
    <2>2. Cardinality(S \cup {a}) =
              IF a \in S THEN Cardinality(S) ELSE Cardinality(S) + 1
        BY <1>1, FS_AddElement
    <2> HIDE DEF S, T
    <2>3. Cardinality(T) = Cardinality(S) + (IF votes[a] = w THEN 0 ELSE 1)
        BY <1>1, <1>2, <2>1, <2>2
    <2>4. QED  BY <1>3, <2>3 DEF S, T
<1>4. CASE w # v
    <2>1. T = S \ {a}  BY <1>4 DEF Supporters
    <2> HIDE DEF S, T
    <2>2. Cardinality(S \ {a}) =
              IF a \in S THEN Cardinality(S) - 1 ELSE Cardinality(S)
        BY <1>1, FS_RemoveElement
    <2>3. Cardinality(T) = Cardinality(S) - (IF votes[a] = w THEN 1 ELSE 0)
        BY <1>1, <1>2, <2>1, <2>2
    <2>4. QED  BY <1>4, <2>3 DEF S, T
<1>5. QED  BY <1>3, <1>4

\* An agent that holds a value is one of its supporters, so there is one.
LEMMA SupporterCounts ==
    ASSUME NEW votes \in [Agent -> Value \cup {NoVote}], NEW a \in Agent
    PROVE  Cardinality(Supporters(votes, votes[a])) > 0
<1> DEFINE S == Supporters(votes, votes[a])
<1>1. IsFiniteSet(S) /\ Cardinality(S) \in Nat  BY SupportersFinite
<1>2. a \in S  BY DEF Supporters
<1>3. Cardinality(S) # 0  BY <1>1, <1>2, FS_EmptySet
<1>4. QED  BY <1>1, <1>3

\* When no more than agents_count agents vote, two values cannot both have
\* a majority.
LEMMA OneMajority ==
    ASSUME Cardinality(Agent) <= AgentsCount,
           NEW votes, NEW v, NEW w,
           HasMajority(votes, v), HasMajority(votes, w)
    PROVE  v = w
<1> DEFINE S == Supporters(votes, v)
           T == Supporters(votes, w)
<1>1. /\ S \subseteq Agent /\ Cardinality(S) \in Nat
      /\ T \subseteq Agent /\ Cardinality(T) \in Nat
    BY SupportersFinite
<1>2. IsFiniteSet(Agent) /\ Cardinality(Agent) \in Nat /\ AgentsCount \in Nat
    BY VoteTallyAssumption, FS_CardinalityType DEF VoteTallyAssumption
<1>3. Cardinality(S) > AgentsCount \div 2 /\ Cardinality(T) > AgentsCount \div 2
    BY DEF HasMajority, Threshold
<1>4. Cardinality(S) + Cardinality(T) > Cardinality(Agent)
    BY <1>1, <1>2, <1>3
<1> HIDE DEF S, T
<1>5. S \cap T # {}
    BY <1>1, <1>2, <1>4, FS_MajoritiesIntersect
<1>6. QED  BY <1>5 DEF S, T, Supporters

-----------------------------------------------------------------------------
(* One vote on one parameter.                                              *)

\* Withdrawing a vote keeps the counts natural numbers.
LEMMA WithdrawType ==
    ASSUME NEW count \in [Value -> Nat], NEW v
    PROVE  Withdraw(count, v) \in [Value -> Nat]
BY DEF Withdraw

\* Counting a vote keeps a ParamStatus a ParamStatus.
LEMMA VoteType ==
    ASSUME NEW st \in Status, NEW a \in Agent, NEW v \in Value,
           NEW disabled \in BOOLEAN
    PROVE  Vote(st, a, v, disabled) \in Status
<1>1. Withdraw(st.count, st.proposed[a]) \in [Value -> Nat]
    BY WithdrawType DEF Status
<1>2. Recount(st, a, v) \in Status
    BY <1>1 DEF Recount, Status
<1>3. QED  BY <1>2 DEF Vote

\* Recounting moves the agent's vote and keeps every count equal to the
\* number of supporters.
LEMMA RecountTallies ==
    ASSUME NEW st \in Status, NEW a \in Agent, NEW v \in Value, Tallied(st)
    PROVE  /\ Recount(st, a, v).proposed = [st.proposed EXCEPT ![a] = v]
           /\ Tallied(Recount(st, a, v))
<1> DEFINE old   == st.proposed
           new   == [st.proposed EXCEPT ![a] = v]
           count == Withdraw(st.count, old[a])
<1>1. old \in [Agent -> Value \cup {NoVote}] /\ st.count \in [Value -> Nat]
    BY DEF Status
<1>2. \A u \in Value : st.count[u] = Cardinality(Supporters(old, u))
    BY DEF Tallied
<1>3. old[a] \in Value => st.count[old[a]] > 0
    BY <1>1, <1>2, SupporterCounts
<1>4. \A u \in Value : count[u] = st.count[u] - (IF old[a] = u THEN 1 ELSE 0)
    BY <1>1, <1>3 DEF Withdraw
<1>5. count \in [Value -> Nat]  BY <1>1, WithdrawType
<1>6. Recount(st, a, v).proposed = new  BY DEF Recount
<1>7. ASSUME NEW w \in Value
      PROVE  Recount(st, a, v).count[w] = Cardinality(Supporters(new, w))
    <2>1. Recount(st, a, v).count[w] = IF w = v THEN count[w] + 1 ELSE count[w]
        BY <1>5 DEF Recount
    <2>2. Cardinality(Supporters(new, w)) =
              IF w = v
              THEN Cardinality(Supporters(old, w)) + (IF old[a] = v THEN 0 ELSE 1)
              ELSE Cardinality(Supporters(old, w)) - (IF old[a] = w THEN 1 ELSE 0)
        BY <1>1, MovedCount
    <2>3. Cardinality(Supporters(old, w)) \in Nat  BY SupportersFinite
    <2> HIDE DEF old, new, count
    <2>4. count[w] = Cardinality(Supporters(old, w)) - (IF old[a] = w THEN 1 ELSE 0)
        BY <1>2, <1>4
    <2>5. QED  BY <2>1, <2>2, <2>3, <2>4
<1>8. QED  BY <1>6, <1>7 DEF Tallied

\* Counting a vote keeps the counts equal to the numbers of supporters.
LEMMA VoteTallies ==
    ASSUME NEW st \in Status, NEW a \in Agent, NEW v \in Value,
           NEW disabled \in BOOLEAN, Tallied(st)
    PROVE  Tallied(Vote(st, a, v, disabled))
BY RecountTallies DEF Vote

\* Counting a vote changes the confirmed value only to one a majority holds.
LEMMA VoteConfirmsMajority ==
    ASSUME NEW st \in Status, NEW a \in Agent, NEW v \in Value,
           NEW disabled \in BOOLEAN, Tallied(st),
           Vote(st, a, v, disabled).current # st.current
    PROVE  HasMajority(Vote(st, a, v, disabled).proposed,
                       Vote(st, a, v, disabled).current)
<1> DEFINE after == Recount(st, a, v)
<1>1. Vote(st, a, v, disabled) = after
    BY DEF Vote
<1>2. after.current = v /\ after.count[v] > Threshold
    BY <1>1 DEF Recount
<1>3. Tallied(after)  BY RecountTallies
<1>4. after.count[v] = Cardinality(Supporters(after.proposed, v))
    BY <1>3 DEF Tallied
<1>5. HasMajority(after.proposed, after.current)
    BY <1>2, <1>4 DEF HasMajority
<1>6. QED  BY <1>1, <1>5

\* Recounting leaves the confirmed value alone when v has no majority.
LEMMA RecountCurrent ==
    ASSUME NEW st \in Status, NEW a \in Agent, NEW v \in Value, Tallied(st)
    PROVE  Recount(st, a, v).current
               = IF HasMajority([st.proposed EXCEPT ![a] = v], v)
                 THEN v ELSE st.current
<1>1. Recount(st, a, v).count[v]
          = Cardinality(Supporters([st.proposed EXCEPT ![a] = v], v))
    BY RecountTallies DEF Tallied
<1>2. Recount(st, a, v).current
          = IF Recount(st, a, v).count[v] > Threshold THEN v ELSE st.current
    BY DEF Recount
<1>3. QED  BY <1>1, <1>2 DEF HasMajority

\* Counting a vote keeps a majority's value confirmed, when no more than
\* agents_count agents vote: v is checked, and no other value gains support.
LEMMA VoteSettles ==
    ASSUME Cardinality(Agent) <= AgentsCount,
           NEW st \in Status, NEW a \in Agent, NEW v \in Value,
           NEW disabled \in BOOLEAN, Tallied(st), Settled(st)
    PROVE  Settled(Vote(st, a, v, disabled))
<1> DEFINE new == [st.proposed EXCEPT ![a] = v]
<1>1. SUFFICES ASSUME NEW w \in Value, HasMajority(new, w)
               PROVE  Recount(st, a, v).current = w
    <2>1. Recount(st, a, v).proposed = new  BY DEF Recount
    <2>2. QED  BY <2>1 DEF Settled, Vote
<1>2. Recount(st, a, v).current = IF HasMajority(new, v) THEN v ELSE st.current
    BY RecountCurrent
<1>3. CASE HasMajority(new, v)
    <2>1. v = w  BY <1>1, <1>3, OneMajority
    <2>2. QED  BY <1>2, <1>3, <2>1
<1>4. CASE ~HasMajority(new, v)
    <2>1. w # v  BY <1>1, <1>4
    <2>2. /\ Cardinality(Supporters(new, w)) =
                 Cardinality(Supporters(st.proposed, w))
                     - (IF st.proposed[a] = w THEN 1 ELSE 0)
          /\ Cardinality(Supporters(st.proposed, w)) \in Nat
        BY <2>1, MovedCount, SupportersFinite DEF Status
    <2>3. Threshold \in Int
        BY VoteTallyAssumption DEF VoteTallyAssumption, Threshold
    <2>4. HasMajority(st.proposed, w)
        BY <1>1, <2>2, <2>3 DEF HasMajority
    <2>5. st.current = w  BY <2>4 DEF Settled
    <2>6. QED  BY <1>2, <1>4, <2>5
<1>5. QED  BY <1>3, <1>4

-----------------------------------------------------------------------------
(* Transactions.                                                           *)

\* A ballot is a function from some parameters to values.
LEMMA BallotType ==
    ASSUME NEW ballot \in Ballot
    PROVE  /\ DOMAIN ballot \subseteq Param
           /\ \A p \in DOMAIN ballot : ballot[p] \in Value
BY DEF Ballot

\* Applying a transaction gives a ledger.
LEMMA ProposeType ==
    ASSUME NEW led \in LedgerType, NEW a \in Agent, NEW ballot \in Ballot,
           NEW disabled \in BOOLEAN
    PROVE  ProposeNewValues(led, a, ballot, disabled) \in LedgerType
<1>1. ASSUME NEW p \in Param, p \in DOMAIN ballot
      PROVE  Vote(led[p], a, ballot[p], disabled) \in Status
    BY <1>1, BallotType, VoteType DEF LedgerType
<1>2. QED  BY <1>1 DEF ProposeNewValues, LedgerType

\* Whether the vote counts or is skipped, afterwards agent a holds v.
LEMMA VoteMoves ==
    ASSUME NEW st \in Status, NEW a \in Agent, NEW v \in Value,
           NEW disabled \in BOOLEAN
    PROVE  Vote(st, a, v, disabled).proposed = [st.proposed EXCEPT ![a] = v]
<1>1. CASE st.proposed[a] = v /\ ~disabled
    <2>1. st.proposed = [st.proposed EXCEPT ![a] = v]
        BY <1>1 DEF Status
    <2>2. QED  BY <1>1, <2>1 DEF Vote
<1>2. CASE ~(st.proposed[a] = v /\ ~disabled)
    BY <1>2 DEF Vote, Recount
<1>3. QED  BY <1>1, <1>2
=============================================================================
