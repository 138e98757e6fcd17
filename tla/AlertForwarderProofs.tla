------------------------ MODULE AlertForwarderProofs ------------------------
(***************************************************************************)
(* The forwarder's safety, for any number of workers and types, capacities *)
(* and tries, and any log.  No alert is lost or handled twice by the       *)
(* threads; the tries of an alert are those of its group; a request that   *)
(* is still under way leaves room for one more receipt.                    *)
(***************************************************************************)
EXTENDS AlertForwarder, FiniteSetTheorems, WellFoundedInduction, TLAPS

-----------------------------------------------------------------------------
(* The inductive invariant.                                                *)

\* main holds one alert at most.
HeldOne == held = {} \/ \E i \in alerts : held = {i}

\* The tries that an alert of a batch has used: those of its group, which is
\* the one in turn, or none yet.
Used(w, i) ==
    IF at[w] = "collect" \/ i \notin Group(w) THEN 0
    ELSE IF at[w] = "post" THEN Tries - left[w] ELSE Tries - left[w] + 1

TriesCounted ==
    /\ \A i \in 1..MaxLines :
           /\ (i \notin alerts \/ i \in held \cup queue) => posts[i] = 0
           /\ i \in dropped => posts[i] = Tries
    /\ \A w \in Worker : \A i \in pending[w] : posts[i] = Used(w, i)

\* The requests under way that carry an alert.
Carrying(i) == {r \in inflight : i \in r.alerts}

RequestsCounted ==
    /\ IsFiniteSet(inflight)
    /\ \A r \in inflight : r.alerts \subseteq alerts
    /\ \A i \in 1..MaxLines : received[i] + Cardinality(Carrying(i)) <= posts[i]

ForwarderInv ==
    /\ ForwarderTypeOK /\ Accounted /\ HeldOne
    /\ TriesCounted /\ RequestsCounted

-----------------------------------------------------------------------------
(* Sets of alerts.                                                         *)

\* A finite set of integers that is not empty has a least element.
LEMMA LeastExists ==
    ASSUME NEW S \in SUBSET Int, IsFiniteSet(S), S # {}
    PROVE  \E i \in S : \A j \in S : i <= j
<1> DEFINE Below(i) == {j \in S : j < i}
           Cuts == {Below(i) : i \in S}
<1>1. Cuts \subseteq FiniteSubsetsOf(S) /\ Cuts # {}
    <2>1. \A i \in S : IsFiniteSet(Below(i)) /\ Below(i) \subseteq S  BY FS_Subset
    <2>2. QED  BY <2>1 DEF FiniteSubsetsOf
<1>2. PICK c \in Cuts : \A d \in Cuts : ~(<<d, c>> \in StrictSubsetOrdering(S))
    BY <1>1, WFMin, FS_StrictSubsetOrderingWellFounded
<1>3. PICK i \in S : c = Below(i)  OBVIOUS
<1>4. ASSUME NEW j \in S, j < i  PROVE FALSE
    <2>1. \A k \in S : k < j => k < i  BY <1>4
    <2>2. ~(j < j)  OBVIOUS
    <2>3. Below(j) \subseteq Below(i) /\ j \in Below(i) /\ j \notin Below(j)
        BY <1>4, <2>1, <2>2
    <2>4. <<Below(j), c>> \in StrictSubsetOrdering(S)
        BY <2>3, <1>3 DEF StrictSubsetOrdering
    <2>5. QED  BY <2>4, <1>2
<1>5. QED  BY <1>4

LEMMA GroupInPending == ASSUME NEW w \in Worker PROVE Group(w) \subseteq pending[w]
BY DEF Group

\* Sets of alerts are finite.
LEMMA AlertsFinite ==
    ASSUME ForwarderTypeOK, NEW S \in SUBSET alerts
    PROVE  IsFiniteSet(S) /\ Cardinality(S) \in Nat
<1>1. Len(log) \in Nat  BY DEF ForwarderTypeOK
<1>2. IsFiniteSet(1..Len(log))  BY <1>1, FS_Interval
<1>3. S \in SUBSET (1..Len(log))  BY DEF ForwarderTypeOK
<1>4. QED  BY <1>2, <1>3, FS_Subset, FS_CardinalityType

LEMMA AlertsRead == ASSUME ForwarderTypeOK PROVE alerts \subseteq 1..MaxLines
<1>1. Len(log) \in Nat /\ Len(log) <= MaxLines /\ alerts \subseteq 1..Len(log)
    BY DEF ForwarderTypeOK
<1>2. QED  BY <1>1, AlertForwarderAssumption DEF AlertForwarderAssumption

\* The oldest alert is one of them.
LEMMA OldestIsIn ==
    ASSUME ForwarderTypeOK, NEW S \in SUBSET alerts, S # {}
    PROVE  Oldest(S) \in S
<1>1. S \in SUBSET Int /\ IsFiniteSet(S)
    BY AlertsFinite DEF ForwarderTypeOK
<1>2. \E i \in S : \A j \in S : i <= j  BY <1>1, LeastExists
<1>3. QED  BY <1>2 DEF Oldest

\* Lines that are read later do not change the groups.
LEMMA GroupKept ==
    ASSUME ForwarderTypeOK, NEW w \in Worker, pending'[w] = pending[w],
           \A i \in alerts : log'[i] = log[i]
    PROVE  Group(w)' = Group(w)
<1>1. pending[w] \in SUBSET alerts  BY DEF ForwarderTypeOK
<1>2. CASE pending[w] = {}  BY <1>2 DEF Group
<1>3. CASE pending[w] # {}
    <2>1. Oldest(pending[w]) \in alerts  BY <1>1, <1>3, OldestIsIn
    <2>2. \A i \in pending[w] : log'[i] = log[i]  BY <1>1
    <2>3. QED  BY <2>1, <2>2 DEF Group, Oldest
<1>4. QED  BY <1>2, <1>3

\* A step that leaves a worker alone leaves its tries alone.
LEMMA UsedKept ==
    ASSUME ForwarderTypeOK, NEW v \in Worker, NEW i,
           pending'[v] = pending[v], at'[v] = at[v], left'[v] = left[v],
           \A j \in alerts : log'[j] = log[j]
    PROVE  Used(v, i)' = Used(v, i)
BY GroupKept DEF Used

-----------------------------------------------------------------------------
(* A group is settled, or its try fails.                                   *)

\* What a worker's batch and counters may become.
Settling ==
    /\ at' \in [Worker -> {"collect", "post", "wait"}]
    /\ pending' \in [Worker -> SUBSET alerts]
    /\ \A v \in Worker : Cardinality(pending'[v]) <= BatchCap
    /\ left' \in [Worker -> 1..Tries]

LEMMA NextGroupType ==
    ASSUME ForwarderTypeOK, NEW w \in Worker, NextGroup(w)
    PROVE  Settling
<1> USE AlertForwarderAssumption DEF AlertForwarderAssumption
<1>1. pending' \in [Worker -> SUBSET alerts]  BY DEF NextGroup, ForwarderTypeOK
<1>2. ASSUME NEW v \in Worker  PROVE Cardinality(pending'[v]) <= BatchCap
    <2>1. pending'[v] \in SUBSET pending[v] /\ pending[v] \in SUBSET alerts
        BY DEF NextGroup, ForwarderTypeOK
    <2>2. /\ IsFiniteSet(pending[v]) /\ Cardinality(pending[v]) \in Nat
          /\ Cardinality(pending'[v]) \in Nat
        BY <2>1, AlertsFinite
    <2>3. Cardinality(pending'[v]) <= Cardinality(pending[v])  BY <2>1, <2>2, FS_Subset
    <2>4. Cardinality(pending[v]) <= BatchCap  BY DEF ForwarderTypeOK
    <2>5. QED  BY <2>2, <2>3, <2>4
<1>3. at' \in [Worker -> {"collect", "post", "wait"}]
    BY DEF NextGroup, ForwarderTypeOK
<1>4. left' \in [Worker -> 1..Tries]  BY DEF NextGroup, ForwarderTypeOK
<1>5. QED  BY <1>1, <1>2, <1>3, <1>4 DEF Settling

LEMMA TryFailsType ==
    ASSUME ForwarderTypeOK, NEW w \in Worker, TryFails(w)
    PROVE  Settling /\ accepted' = accepted /\ dropped' \subseteq alerts
<1> USE AlertForwarderAssumption DEF AlertForwarderAssumption
<1>1. CASE left[w] > 1
    <2>0. left[w] \in 1..Tries /\ left[w] - 1 \in 1..Tries
        BY <1>1 DEF ForwarderTypeOK
    <2>1. left' \in [Worker -> 1..Tries]
        BY <1>1, <2>0 DEF TryFails, ForwarderTypeOK
    <2>2. QED  BY <1>1, <2>1 DEF TryFails, ForwarderTypeOK, Settling
<1>2. CASE ~(left[w] > 1)
    <2>1. Group(w) \subseteq alerts  BY GroupInPending DEF ForwarderTypeOK
    <2>2. QED  BY <1>2, <2>1, NextGroupType DEF TryFails, ForwarderTypeOK
<1>3. QED  BY <1>1, <1>2

\* A group that is accepted, or given up, leaves its worker's hands.
LEMMA GroupSettled ==
    ASSUME ForwarderTypeOK, Accounted, NEW w \in Worker,
           pending' = [pending EXCEPT ![w] = @ \ Group(w)],
           UNCHANGED <<alerts, held, queue>>,
           \/ accepted' = accepted \cup Group(w) /\ dropped' = dropped
           \/ accepted' = accepted /\ dropped' = dropped \cup Group(w)
    PROVE  Accounted'
<1> DEFINE G == Group(w)
           Hands == UNION {pending[v] : v \in Worker}
<1>1. G \subseteq pending[w] /\ pending \in [Worker -> SUBSET alerts]
    BY GroupInPending DEF ForwarderTypeOK
<1>2. /\ pending'[w] = pending[w] \ G
      /\ \A v \in Worker : v # w => pending'[v] = pending[v]
    BY <1>1
<1>3. \A v \in Worker : pending'[v] = pending[v] \ G
    BY <1>1, <1>2 DEF Accounted
<1>4. UNION {pending'[v] : v \in Worker} = Hands \ G  BY <1>3
<1>5. G \cap (held \cup queue \cup accepted \cup dropped) = {} /\ G \subseteq Hands
    BY <1>1 DEF Accounted
<1>6. alerts' = held' \cup queue' \cup accepted' \cup dropped'
                    \cup UNION {pending'[v] : v \in Worker}
    BY <1>4, <1>5 DEF Accounted
<1>7. \A v \in Worker : pending'[v] \cap (held' \cup queue' \cup accepted' \cup dropped') = {}
    BY <1>3 DEF Accounted
<1>8. \A u, v \in Worker : u # v => pending'[u] \cap pending'[v] = {}
    BY <1>3 DEF Accounted
<1>9. QED  BY <1>5, <1>6, <1>7, <1>8 DEF Accounted

\* Alerts that another group of the batch holds have used no try.
LEMMA NextGroupTries ==
    ASSUME ForwarderTypeOK, Accounted, TriesCounted,
           NEW w \in Worker, NextGroup(w), UNCHANGED <<log, alerts, held, queue>>,
           \A i \in 1..MaxLines \ Group(w) : posts'[i] = posts[i],
           \A i \in dropped' : i \in dropped \/ (i \in Group(w) /\ posts'[i] = Tries)
    PROVE  TriesCounted'
<1>1. /\ pending \in [Worker -> SUBSET alerts] /\ alerts \subseteq 1..MaxLines
      /\ at \in [Worker -> {"collect", "post", "wait"}] /\ left \in [Worker -> 1..Tries]
    BY AlertsRead DEF ForwarderTypeOK
<1>2. Group(w) \subseteq pending[w]  BY GroupInPending
<1>3. ASSUME NEW i \in 1..MaxLines
      PROVE  /\ (i \notin alerts' \/ i \in held' \cup queue') => posts'[i] = 0
             /\ i \in dropped' => posts'[i] = Tries
    BY <1>1, <1>2 DEF TriesCounted, Accounted
<1>4. ASSUME NEW v \in Worker, NEW i \in pending'[v]
      PROVE  posts'[i] = Used(v, i)'
    <2>1. CASE v # w
        <3>1. pending'[v] = pending[v] /\ at'[v] = at[v] /\ left'[v] = left[v]
            BY <1>1, <2>1 DEF NextGroup
        <3>2. Used(v, i)' = Used(v, i)  BY <3>1, UsedKept
        <3>3. i \in pending[v] /\ i \notin Group(w) /\ i \in 1..MaxLines
            BY <1>1, <1>2, <2>1, <3>1 DEF Accounted
        <3>4. QED  BY <3>2, <3>3 DEF TriesCounted
    <2>2. CASE v = w
        <3>1. pending'[w] = pending[w] \ Group(w)  BY <1>1 DEF NextGroup
        <3>2. i \in pending[w] /\ i \notin Group(w) /\ i \in 1..MaxLines
            BY <1>1, <2>2, <3>1
        <3>3. posts'[i] = 0  BY <3>2 DEF TriesCounted, Used
        <3>4. at'[w] \in {"collect", "post"} /\ left'[w] = Tries
            BY <1>1 DEF NextGroup
        <3>5. Used(w, i)' = 0
            BY <3>4, AlertForwarderAssumption DEF Used, AlertForwarderAssumption
        <3>6. QED  BY <2>2, <3>3, <3>5
    <2>3. QED  BY <2>1, <2>2
<1>5. QED  BY <1>3, <1>4 DEF TriesCounted

\* After a try that failed a group has used one more than before, or all.
LEMMA TryFailsTries ==
    ASSUME ForwarderTypeOK, Accounted, TriesCounted,
           NEW w \in Worker, TryFails(w), at[w] # "collect",
           UNCHANGED <<log, alerts, held, queue>>,
           \A i \in 1..MaxLines :
               posts'[i] = IF i \in Group(w) THEN Tries - left[w] + 1 ELSE posts[i]
    PROVE  TriesCounted'
<1>1. /\ pending \in [Worker -> SUBSET alerts] /\ alerts \subseteq 1..MaxLines
      /\ at \in [Worker -> {"collect", "post", "wait"}] /\ left \in [Worker -> 1..Tries]
    BY AlertsRead DEF ForwarderTypeOK
<1>2. Group(w) \subseteq pending[w]  BY GroupInPending
<1>3. CASE left[w] > 1
    <2>1. /\ pending' = pending /\ dropped' = dropped
          /\ at' = [at EXCEPT ![w] = "post"] /\ left' = [left EXCEPT ![w] = @ - 1]
        BY <1>3 DEF TryFails
    <2>2. ASSUME NEW i \in 1..MaxLines
          PROVE  /\ (i \notin alerts' \/ i \in held' \cup queue') => posts'[i] = 0
                 /\ i \in dropped' => posts'[i] = Tries
        BY <1>1, <1>2, <2>1 DEF TriesCounted, Accounted
    <2>3. ASSUME NEW v \in Worker, NEW i \in pending'[v]
          PROVE  posts'[i] = Used(v, i)'
        <3>1. i \in pending[v] /\ i \in 1..MaxLines  BY <1>1, <2>1
        <3>2. CASE v # w
            <4>1. Used(v, i)' = Used(v, i)  BY <1>1, <2>1, <3>2, UsedKept
            <4>2. i \notin Group(w)  BY <1>2, <3>1, <3>2 DEF Accounted
            <4>3. QED  BY <3>1, <4>1, <4>2 DEF TriesCounted
        <3>3. CASE v = w
            <4>1. Group(w)' = Group(w)  BY <2>1, GroupKept
            <4>2. at'[w] = "post" /\ left'[w] = left[w] - 1  BY <1>1, <2>1
            <4>3. CASE i \in Group(w)
                <5>1. Used(w, i)' = Tries - (left[w] - 1)  BY <4>1, <4>2, <4>3 DEF Used
                <5>2. posts'[i] = Tries - left[w] + 1  BY <3>1, <4>3
                <5>3. Tries \in Int /\ left[w] \in Int
                    BY <1>1, AlertForwarderAssumption DEF AlertForwarderAssumption
                <5>4. QED  BY <3>3, <5>1, <5>2, <5>3
            <4>4. CASE i \notin Group(w)
                BY <3>1, <3>3, <4>1, <4>4 DEF Used, TriesCounted
            <4>5. QED  BY <4>3, <4>4
        <3>4. QED  BY <3>2, <3>3
    <2>4. QED  BY <2>2, <2>3 DEF TriesCounted
<1>4. CASE ~(left[w] > 1)
    <2>1. left[w] = 1  BY <1>1, <1>4
    <2>2. \A i \in Group(w) : i \in 1..MaxLines /\ posts'[i] = Tries
        <3>1. ASSUME NEW i \in Group(w)  PROVE i \in 1..MaxLines  BY <1>1, <1>2
        <3>2. Tries - left[w] + 1 = Tries
            BY <2>1, AlertForwarderAssumption DEF AlertForwarderAssumption
        <3>3. QED  BY <3>1, <3>2
    <2>3. NextGroup(w) /\ dropped' = dropped \cup Group(w)  BY <1>4 DEF TryFails
    <2>4. QED  BY <2>2, <2>3, NextGroupTries
<1>5. QED  BY <1>3, <1>4

-----------------------------------------------------------------------------
(* Requests.                                                               *)

LEMMA CarryingType ==
    ASSUME RequestsCounted, NEW i
    PROVE  IsFiniteSet(Carrying(i)) /\ Cardinality(Carrying(i)) \in Nat
<1>1. Carrying(i) \in SUBSET inflight  BY DEF Carrying
<1>2. QED  BY <1>1, FS_Subset, FS_CardinalityType DEF RequestsCounted

\* Requests that are lost or refused, and tries that are used, leave room.
LEMMA FewerRequests ==
    ASSUME ForwarderTypeOK, RequestsCounted,
           inflight' \subseteq inflight, received' = received, alerts \subseteq alerts',
           posts' \in [1..MaxLines -> 0..Tries],
           \A i \in 1..MaxLines : posts[i] <= posts'[i]
    PROVE  RequestsCounted'
<1>1. IsFiniteSet(inflight')
    BY FS_Subset DEF RequestsCounted
<1>2. ASSUME NEW i \in 1..MaxLines
      PROVE  received'[i] + Cardinality(Carrying(i)') <= posts'[i]
    <2>1. Carrying(i)' \in SUBSET Carrying(i)  BY DEF Carrying
    <2>2. /\ IsFiniteSet(Carrying(i)') /\ Cardinality(Carrying(i)) \in Nat
          /\ Cardinality(Carrying(i)') <= Cardinality(Carrying(i))
        BY <2>1, CarryingType, FS_Subset
    <2>3. Cardinality(Carrying(i)') \in Nat  BY <2>2, FS_CardinalityType
    <2>4. received[i] \in Nat /\ posts[i] \in Nat /\ posts'[i] \in Nat
        BY AlertForwarderAssumption DEF ForwarderTypeOK, AlertForwarderAssumption
    <2>5. received[i] + Cardinality(Carrying(i)) <= posts[i]  BY DEF RequestsCounted
    <2>6. posts[i] <= posts'[i]  OBVIOUS
    <2>7. QED  BY <2>2, <2>3, <2>4, <2>5, <2>6
<1>3. \A r \in inflight' : r.alerts \subseteq alerts'  BY DEF RequestsCounted
<1>4. QED  BY <1>1, <1>2, <1>3 DEF RequestsCounted

LEMMA SamePosts ==
    ASSUME ForwarderTypeOK, RequestsCounted,
           inflight' \subseteq inflight, received' = received, alerts \subseteq alerts',
           posts' = posts
    PROVE  RequestsCounted'
<1>1. posts \in [1..MaxLines -> 0..Tries]  BY DEF ForwarderTypeOK
<1>2. \A i \in 1..MaxLines : posts[i] <= posts'[i]
    BY <1>1, AlertForwarderAssumption DEF AlertForwarderAssumption
<1>3. QED  BY <1>1, <1>2, FewerRequests

\* A receipt takes the place of the request that brought it.
LEMMA RequestHandled ==
    ASSUME ForwarderTypeOK, RequestsCounted, NEW r \in inflight,
           inflight' = inflight \ {r}, received' = CountIn(r.alerts, received),
           posts' = posts, alerts' = alerts
    PROVE  RequestsCounted' /\ received' \in [1..MaxLines -> 0..Tries]
<1>1. IsFiniteSet(inflight')
    BY FS_RemoveElement DEF RequestsCounted
<1>2. ASSUME NEW i \in 1..MaxLines
      PROVE  /\ received'[i] \in 0..Tries
             /\ received'[i] + Cardinality(Carrying(i)') <= posts'[i]
    <2>1. /\ received[i] \in Nat /\ posts[i] \in 0..Tries /\ Tries \in Nat
          /\ received'[i] = IF i \in r.alerts THEN received[i] + 1 ELSE received[i]
        BY AlertForwarderAssumption
        DEF ForwarderTypeOK, AlertForwarderAssumption, CountIn
    <2>2. received[i] + Cardinality(Carrying(i)) <= posts[i]  BY DEF RequestsCounted
    <2>3. Carrying(i)' = Carrying(i) \ {r}  BY DEF Carrying
    <2>4. /\ IsFiniteSet(Carrying(i)')
          /\ Cardinality(Carrying(i)') = IF r \in Carrying(i)
                                         THEN Cardinality(Carrying(i)) - 1
                                         ELSE Cardinality(Carrying(i))
        BY <2>3, CarryingType, FS_RemoveElement
    <2>5. Cardinality(Carrying(i)') \in Nat /\ Cardinality(Carrying(i)) \in Nat
        BY <2>4, CarryingType, FS_CardinalityType
    <2>6. i \in r.alerts <=> r \in Carrying(i)  BY DEF Carrying
    <2>7. received'[i] + Cardinality(Carrying(i)') = received[i] + Cardinality(Carrying(i))
        BY <2>1, <2>4, <2>5, <2>6
    <2>8. received'[i] \in Nat  BY <2>1
    <2>9. QED  BY <2>1, <2>2, <2>5, <2>7, <2>8
<1>3. \A q \in inflight' : q.alerts \subseteq alerts'  BY DEF RequestsCounted
<1>4. received' \in [1..MaxLines -> 0..Tries]
    <2>1. DOMAIN received = 1..MaxLines  BY DEF ForwarderTypeOK
    <2>2. QED  BY <1>2, <2>1 DEF CountIn
<1>5. QED  BY <1>1, <1>2, <1>3, <1>4 DEF RequestsCounted

-----------------------------------------------------------------------------
(* Every action keeps the invariant.                                       *)

LEMMA InitInv == ForwarderInit => ForwarderInv
<1> SUFFICES ASSUME ForwarderInit  PROVE ForwarderInv
    OBVIOUS
<1> USE AlertForwarderAssumption DEF AlertForwarderAssumption, ForwarderInit
<1>1. ForwarderTypeOK
    <2>1. Cardinality({}) = 0 /\ 0 <= QueueCap /\ 0 <= BatchCap  BY FS_EmptySet
    <2>2. log \in Seq(Line) /\ Len(log) <= MaxLines  OBVIOUS
    <2>3. QED  BY <2>1, <2>2 DEF ForwarderTypeOK, RequestType
<1>2. Accounted /\ HeldOne /\ TriesCounted  BY DEF Accounted, HeldOne, TriesCounted
<1>3. RequestsCounted
    <2>1. \A i : Carrying(i) = {}  BY DEF Carrying
    <2>2. \A i \in 1..MaxLines : received[i] = 0 /\ posts[i] = 0  OBVIOUS
    <2>3. Cardinality({}) = 0 /\ IsFiniteSet({})  BY FS_EmptySet
    <2>4. \A i \in 1..MaxLines : received[i] + Cardinality(Carrying(i)) <= posts[i]
        <3>1. ASSUME NEW i \in 1..MaxLines
              PROVE  received[i] + Cardinality(Carrying(i)) <= posts[i]
            <4>1. Cardinality(Carrying(i)) = 0  BY <2>1, <2>3
            <4>2. QED  BY <2>2, <4>1
        <3>2. QED  BY <3>1
    <2>5. QED  BY <2>3, <2>4 DEF RequestsCounted
<1>4. QED  BY <1>1, <1>2, <1>3 DEF ForwarderInv

LEMMA ReadKeepsInv ==
    ASSUME ForwarderInv, NEW line \in Line, NEW disabled \in BOOLEAN, Read(line, disabled)
    PROVE  ForwarderInv'
<1> USE AlertForwarderAssumption DEF AlertForwarderAssumption, ForwarderInv
<1>1. /\ Len(log) \in Nat /\ Len(log') = Len(log) + 1 /\ Len(log') <= MaxLines
      /\ log' \in Seq(Line) /\ log \in Seq(Line)
    BY DEF Read, ForwarderTypeOK
<1>2. /\ alerts \subseteq 1..Len(log) /\ held' \subseteq {Len(log')}
      /\ alerts' = alerts \cup held' /\ alerts' \subseteq 1..Len(log')
      /\ Len(log') \notin alerts
    <2>1. alerts \subseteq 1..Len(log)  BY DEF ForwarderTypeOK
    <2>2. held' = {} \/ held' = {Len(log')}  BY DEF Read
    <2>3. alerts' = alerts \cup held'  BY DEF Read
    <2>4. 1..Len(log) \subseteq 1..Len(log') /\ Len(log') \in 1..Len(log')
          /\ Len(log') \notin 1..Len(log)
        BY <1>1
    <2>5. QED  BY <2>1, <2>2, <2>3, <2>4
<1>3. \A i \in alerts : log'[i] = log[i]  BY <1>1, <1>2 DEF Read
<1>4. UNCHANGED <<queue, inflight, received, posts, at, pending, left, accepted, dropped>>
    BY DEF Read, apiVars, settleVars
<1>5. ForwarderTypeOK'
    BY <1>1, <1>2, <1>4 DEF ForwarderTypeOK
<1>6. Accounted'
    <2>1. held = {} /\ \A w \in Worker : Len(log') \notin pending[w]
        BY <1>2 DEF Read, ForwarderTypeOK
    <2>2. Len(log') \notin queue \cup accepted \cup dropped
        BY <1>2 DEF ForwarderTypeOK
    <2>3. QED  BY <1>2, <1>4, <2>1, <2>2 DEF Accounted
<1>7. HeldOne'  BY <1>2 DEF HeldOne
<1>8. TriesCounted'
    <2>1. ASSUME NEW w \in Worker, NEW i \in pending'[w]
          PROVE  posts'[i] = Used(w, i)'
        BY <1>3, <1>4, UsedKept DEF TriesCounted
    <2>2. ASSUME NEW i \in 1..MaxLines
          PROVE  /\ (i \notin alerts' \/ i \in held' \cup queue') => posts'[i] = 0
                 /\ i \in dropped' => posts'[i] = Tries
        BY <1>2, <1>4 DEF TriesCounted
    <2>3. QED  BY <2>1, <2>2 DEF TriesCounted
<1>9. RequestsCounted'
    BY <1>2, <1>4, SamePosts
<1>10. QED  BY <1>5, <1>6, <1>7, <1>8, <1>9

LEMMA PutKeepsInv == ASSUME ForwarderInv, Put PROVE ForwarderInv'
<1> USE AlertForwarderAssumption DEF AlertForwarderAssumption, ForwarderInv
<1>1. /\ queue' = queue \cup held /\ held' = {}
      /\ UNCHANGED <<log, alerts, inflight, received, posts, at, pending, left,
                     accepted, dropped>>
    BY DEF Put, apiVars, settleVars
<1>2. Cardinality(queue') <= QueueCap
    <2>1. PICK i \in alerts : held = {i}  BY DEF Put, HeldOne
    <2>2. IsFiniteSet(queue) /\ Cardinality(queue) \in Nat
        BY AlertsFinite DEF ForwarderTypeOK
    <2>3. Cardinality(queue') = IF i \in queue THEN Cardinality(queue)
                                               ELSE Cardinality(queue) + 1
        BY <1>1, <2>1, <2>2, FS_AddElement
    <2>4. QED  BY <2>2, <2>3 DEF Put
<1>3. ForwarderTypeOK'  BY <1>1, <1>2 DEF ForwarderTypeOK
<1>4. Accounted'  BY <1>1 DEF Accounted
<1>5. HeldOne'  BY <1>1 DEF HeldOne
<1>6. TriesCounted'
    <2>1. ASSUME NEW w \in Worker, NEW i \in pending'[w]
          PROVE  posts'[i] = Used(w, i)'
        BY <1>1, UsedKept DEF TriesCounted
    <2>2. QED  BY <1>1, <2>1 DEF TriesCounted
<1>7. RequestsCounted'  BY <1>1, SamePosts
<1>8. QED  BY <1>3, <1>4, <1>5, <1>6, <1>7

LEMMA GetKeepsInv ==
    ASSUME ForwarderInv, NEW w \in Worker, Get(w)
    PROVE  ForwarderInv'
<1> USE AlertForwarderAssumption DEF AlertForwarderAssumption, ForwarderInv
<1> DEFINE o == Oldest(queue)
<1>1. o \in queue /\ o \in alerts
    BY OldestIsIn DEF Get, ForwarderTypeOK
<1>2. /\ pending' = [pending EXCEPT ![w] = @ \cup {o}] /\ queue' = queue \ {o}
      /\ UNCHANGED <<log, alerts, held, inflight, received, posts, at, left,
                     accepted, dropped>>
    BY DEF Get, readerVars, apiVars
<1> HIDE DEF o
<1>3. pending \in [Worker -> SUBSET alerts] /\ queue \subseteq alerts
    BY DEF ForwarderTypeOK
<1>4. \A v \in Worker : pending'[v] = IF v = w THEN pending[w] \cup {o} ELSE pending[v]
    BY <1>2, <1>3
<1>5. \A v \in Worker : Cardinality(pending'[v]) <= BatchCap
    <2>1. /\ IsFiniteSet(pending[w]) /\ Cardinality(pending[w]) \in Nat
          /\ Cardinality(pending[w]) < BatchCap
        BY <1>3, AlertsFinite DEF Get
    <2>2. \/ Cardinality(pending[w] \cup {o}) = Cardinality(pending[w])
          \/ Cardinality(pending[w] \cup {o}) = Cardinality(pending[w]) + 1
        BY <2>1, FS_AddElement
    <2>3. Cardinality(pending[w] \cup {o}) <= BatchCap  BY <2>1, <2>2
    <2>4. QED  BY <1>4, <2>3 DEF ForwarderTypeOK
<1>6. Cardinality(queue') <= QueueCap
    <2>1. IsFiniteSet(queue) /\ Cardinality(queue) \in Nat  BY <1>3, AlertsFinite
    <2>2. Cardinality(queue') = Cardinality(queue) - 1
        BY <1>1, <1>2, <2>1, FS_RemoveElement
    <2>3. QED  BY <2>1, <2>2 DEF ForwarderTypeOK
<1>7. ForwarderTypeOK'
    <2>1. pending' \in [Worker -> SUBSET alerts]  BY <1>1, <1>2, <1>3
    <2>2. QED  BY <1>2, <1>3, <1>5, <1>6, <2>1 DEF ForwarderTypeOK
<1>8. Accounted'
    <2>1. UNION {pending'[v] : v \in Worker} = {o} \cup UNION {pending[v] : v \in Worker}
        BY <1>4
    <2>2. alerts' = held' \cup queue' \cup accepted' \cup dropped'
                        \cup UNION {pending'[v] : v \in Worker}
        BY <1>1, <1>2, <2>1 DEF Accounted
    <2>3. \A v \in Worker :
              pending'[v] \cap (held' \cup queue' \cup accepted' \cup dropped') = {}
        BY <1>1, <1>2, <1>4 DEF Accounted
    <2>4. \A u, v \in Worker : u # v => pending'[u] \cap pending'[v] = {}
        BY <1>1, <1>4 DEF Accounted
    <2>5. QED  BY <1>2, <2>2, <2>3, <2>4 DEF Accounted
<1>9. HeldOne'  BY <1>2 DEF HeldOne
<1>10. TriesCounted'
    <2>1. ASSUME NEW v \in Worker, NEW i \in pending'[v]
          PROVE  posts'[i] = Used(v, i)'
        <3>1. CASE v # w
            BY <1>2, <1>4, <3>1, UsedKept DEF TriesCounted
        <3>2. CASE v = w
            <4>1. at[w] = "collect" /\ at'[w] = "collect"  BY <1>2 DEF Get
            <4>2. Used(w, i)' = 0  BY <4>1 DEF Used
            <4>3. i \in pending[w] => posts[i] = 0  BY <4>1 DEF TriesCounted, Used
            <4>4. posts[o] = 0  BY <1>1, AlertsRead DEF TriesCounted
            <4>5. QED  BY <1>2, <1>4, <3>2, <4>2, <4>3, <4>4
        <3>3. QED  BY <3>1, <3>2
    <2>2. QED  BY <1>2, <2>1 DEF TriesCounted
<1>11. RequestsCounted'  BY <1>2, SamePosts
<1>12. QED  BY <1>7, <1>8, <1>9, <1>10, <1>11

LEMMA CloseKeepsInv ==
    ASSUME ForwarderInv, NEW w \in Worker, Close(w)
    PROVE  ForwarderInv'
<1> USE AlertForwarderAssumption DEF AlertForwarderAssumption, ForwarderInv
<1>1. /\ at[w] = "collect" /\ at' = [at EXCEPT ![w] = "post"]
      /\ left' = [left EXCEPT ![w] = Tries]
      /\ UNCHANGED <<log, alerts, held, queue, inflight, received, posts, pending,
                     accepted, dropped>>
    BY DEF Close, readerVars, apiVars
<1>2. at \in [Worker -> {"collect", "post", "wait"}] /\ left \in [Worker -> 1..Tries]
    BY DEF ForwarderTypeOK
<1>3. ForwarderTypeOK'
    <2>1. at' \in [Worker -> {"collect", "post", "wait"}]  BY <1>1, <1>2
    <2>2. left' \in [Worker -> 1..Tries]  BY <1>1, <1>2
    <2>3. QED  BY <1>1, <2>1, <2>2 DEF ForwarderTypeOK
<1>4. Accounted'  BY <1>1 DEF Accounted
<1>5. HeldOne'  BY <1>1 DEF HeldOne
<1>6. TriesCounted'
    <2>1. ASSUME NEW v \in Worker, NEW i \in pending'[v]
          PROVE  posts'[i] = Used(v, i)'
        <3>1. CASE v # w  BY <1>1, <1>2, <3>1, UsedKept DEF TriesCounted
        <3>2. CASE v = w
            <4>1. posts[i] = 0  BY <1>1, <3>2 DEF TriesCounted, Used
            <4>2. at'[w] = "post" /\ left'[w] = Tries  BY <1>1, <1>2
            <4>3. Used(w, i)' = 0  BY <4>2 DEF Used
            <4>4. QED  BY <1>1, <3>2, <4>1, <4>3
        <3>3. QED  BY <3>1, <3>2
    <2>2. QED  BY <1>1, <2>1 DEF TriesCounted
<1>7. RequestsCounted'  BY <1>1, SamePosts
<1>8. QED  BY <1>3, <1>4, <1>5, <1>6, <1>7

\* What a try makes of posts, and that there is one left to make.
LEMMA TryUsed ==
    ASSUME ForwarderInv, NEW w \in Worker, at[w] = "post", UseTry(w)
    PROVE  /\ posts' \in [1..MaxLines -> 0..Tries]
           /\ \A i \in 1..MaxLines :
                  /\ posts'[i] = IF i \in Group(w) THEN Tries - left[w] + 1 ELSE posts[i]
                  /\ posts'[i] = IF i \in Group(w) THEN posts[i] + 1 ELSE posts[i]
<1> USE AlertForwarderAssumption DEF AlertForwarderAssumption, ForwarderInv
<1>1. DOMAIN posts = 1..MaxLines /\ left[w] \in 1..Tries /\ Tries \in Nat
    BY DEF ForwarderTypeOK
<1>2. ASSUME NEW i \in 1..MaxLines
      PROVE  /\ posts'[i] = IF i \in Group(w) THEN Tries - left[w] + 1 ELSE posts[i]
             /\ posts'[i] = IF i \in Group(w) THEN posts[i] + 1 ELSE posts[i]
             /\ posts'[i] \in 0..Tries
    <2>1. posts'[i] = IF i \in Group(w) THEN posts[i] + 1 ELSE posts[i]
        BY <1>1 DEF UseTry, CountIn
    <2>2. i \in Group(w) => posts[i] = Tries - left[w]
        BY GroupInPending DEF TriesCounted, Used
    <2>3. posts[i] \in 0..Tries  BY DEF ForwarderTypeOK
    <2>4. i \in Group(w) => posts'[i] = Tries - left[w] + 1 /\ posts'[i] \in 0..Tries
        BY <1>1, <2>1, <2>2
    <2>5. QED  BY <2>1, <2>3, <2>4
<1>3. posts' \in [1..MaxLines -> 0..Tries]
    BY <1>1, <1>2 DEF UseTry, CountIn
<1>4. QED  BY <1>2, <1>3

LEMMA PostKeepsInv ==
    ASSUME ForwarderInv, NEW w \in Worker, Post(w)
    PROVE  ForwarderInv'
<1> USE AlertForwarderAssumption DEF AlertForwarderAssumption, ForwarderInv
<1>1. /\ at[w] = "post" /\ at' = [at EXCEPT ![w] = "wait"]
      /\ inflight' = inflight \cup {Request(w)} /\ UseTry(w)
      /\ UNCHANGED <<log, alerts, held, queue, received, pending, left, accepted, dropped>>
    BY DEF Post, readerVars
<1>2. /\ at \in [Worker -> {"collect", "post", "wait"}] /\ left \in [Worker -> 1..Tries]
      /\ pending \in [Worker -> SUBSET alerts]
    BY DEF ForwarderTypeOK
<1>3. Request(w).alerts = Group(w) /\ Group(w) \subseteq alerts /\ alerts \subseteq 1..MaxLines
    BY <1>2, GroupInPending, AlertsRead DEF Request
<1>4. /\ posts' \in [1..MaxLines -> 0..Tries]
      /\ \A i \in 1..MaxLines :
             /\ posts'[i] = IF i \in Group(w) THEN Tries - left[w] + 1 ELSE posts[i]
             /\ posts'[i] = IF i \in Group(w) THEN posts[i] + 1 ELSE posts[i]
    BY <1>1, TryUsed
<1>5. ForwarderTypeOK'
    <2>1. at' \in [Worker -> {"collect", "post", "wait"}]  BY <1>1, <1>2
    <2>2. Tries - left[w] + 1 \in 1..Tries  BY <1>2
    <2>3. Request(w) \in RequestType  BY <1>3, <2>2 DEF Request, RequestType
    <2>4. inflight' \subseteq RequestType  BY <1>1, <2>3 DEF ForwarderTypeOK
    <2>5. QED  BY <1>1, <1>4, <2>1, <2>4 DEF ForwarderTypeOK
<1>6. Accounted'  BY <1>1 DEF Accounted
<1>7. HeldOne'  BY <1>1 DEF HeldOne
<1>8. TriesCounted'
    <2>1. Group(w) \cap (held \cup queue \cup dropped) = {}
        BY GroupInPending DEF Accounted
    <2>2. ASSUME NEW v \in Worker, NEW i \in pending'[v]
          PROVE  posts'[i] = Used(v, i)'
        <3>1. i \in pending[v] /\ i \in 1..MaxLines  BY <1>1, <1>2, <1>3
        <3>2. CASE v # w
            <4>1. i \notin Group(w)  BY <3>1, <3>2, GroupInPending DEF Accounted
            <4>2. Used(v, i)' = Used(v, i)  BY <1>1, <1>2, <3>2, UsedKept
            <4>3. QED  BY <1>4, <3>1, <4>1, <4>2 DEF TriesCounted
        <3>3. CASE v = w
            <4>1. Group(w)' = Group(w)  BY <1>1, GroupKept
            <4>2. at'[w] = "wait" /\ left'[w] = left[w]  BY <1>1, <1>2
            <4>3. i \notin Group(w) => posts[i] = 0
                BY <3>1, <3>3 DEF TriesCounted, Used
            <4>4. QED  BY <1>4, <3>1, <3>3, <4>1, <4>2, <4>3 DEF Used
        <3>4. QED  BY <3>2, <3>3
    <2>3. ASSUME NEW i \in 1..MaxLines
          PROVE  /\ (i \notin alerts' \/ i \in held' \cup queue') => posts'[i] = 0
                 /\ i \in dropped' => posts'[i] = Tries
        BY <1>1, <1>3, <1>4, <2>1 DEF TriesCounted
    <2>4. QED  BY <2>2, <2>3 DEF TriesCounted
<1>9. RequestsCounted'
    <2>1. IsFiniteSet(inflight')  BY <1>1, FS_AddElement DEF RequestsCounted
    <2>2. \A r \in inflight' : r.alerts \subseteq alerts'
        BY <1>1, <1>3 DEF RequestsCounted
    <2>3. ASSUME NEW i \in 1..MaxLines
          PROVE  received'[i] + Cardinality(Carrying(i)') <= posts'[i]
        <3>1. /\ IsFiniteSet(Carrying(i)) /\ Cardinality(Carrying(i)) \in Nat
              /\ received[i] \in Nat /\ posts[i] \in Nat
            BY CarryingType DEF ForwarderTypeOK
        <3>2. received[i] + Cardinality(Carrying(i)) <= posts[i]  BY DEF RequestsCounted
        <3>3. CASE i \in Group(w)
            <4>1. Carrying(i)' = Carrying(i) \cup {Request(w)}
                BY <1>1, <1>3, <3>3 DEF Carrying
            <4>2. \/ Cardinality(Carrying(i)') = Cardinality(Carrying(i))
                  \/ Cardinality(Carrying(i)') = Cardinality(Carrying(i)) + 1
                BY <3>1, <4>1, FS_AddElement
            <4>3. posts'[i] = posts[i] + 1 /\ received'[i] = received[i]
                BY <1>1, <1>4, <3>3
            <4>4. QED  BY <3>1, <3>2, <4>2, <4>3
        <3>4. CASE i \notin Group(w)
            <4>1. Carrying(i)' = Carrying(i)  BY <1>1, <1>3, <3>4 DEF Carrying
            <4>2. QED  BY <1>1, <1>4, <3>2, <3>4, <4>1
        <3>5. QED  BY <3>3, <3>4
    <2>4. QED  BY <2>1, <2>2, <2>3 DEF RequestsCounted
<1>10. QED  BY <1>5, <1>6, <1>7, <1>8, <1>9

\* A failure gives the group up, or leaves it to the next try.
LEMMA FailureAccounted ==
    ASSUME ForwarderInv, NEW w \in Worker, TryFails(w), UNCHANGED <<alerts, held, queue>>
    PROVE  Accounted'
<1>1. CASE left[w] > 1
    <2>1. pending' = pending /\ accepted' = accepted /\ dropped' = dropped
        BY <1>1 DEF TryFails
    <2>2. QED  BY <2>1 DEF Accounted, ForwarderInv
<1>2. CASE ~(left[w] > 1)
    <2>1. /\ pending' = [pending EXCEPT ![w] = @ \ Group(w)]
          /\ accepted' = accepted /\ dropped' = dropped \cup Group(w)
        BY <1>2 DEF TryFails, NextGroup
    <2>2. QED  BY <2>1, GroupSettled DEF ForwarderInv
<1>3. QED  BY <1>1, <1>2

LEMMA FailureKeepsInv ==
    ASSUME ForwarderInv, NEW w \in Worker, TryFails(w), at[w] # "collect",
           UNCHANGED <<log, alerts, held, queue, received>>, inflight' \subseteq inflight,
           \/ at[w] = "post" /\ UseTry(w)
           \/ at[w] = "wait" /\ posts' = posts
    PROVE  ForwarderInv'
<1> USE AlertForwarderAssumption DEF AlertForwarderAssumption, ForwarderInv
<1>1. /\ posts' \in [1..MaxLines -> 0..Tries]
      /\ \A i \in 1..MaxLines :
             /\ posts'[i] = IF i \in Group(w) THEN Tries - left[w] + 1 ELSE posts[i]
             /\ posts[i] <= posts'[i]
    <2>1. posts \in [1..MaxLines -> 0..Tries]  BY DEF ForwarderTypeOK
    <2>2. CASE at[w] = "post" /\ UseTry(w)
        <3>1. /\ posts' \in [1..MaxLines -> 0..Tries]
              /\ \A i \in 1..MaxLines :
                  /\ posts'[i] = IF i \in Group(w) THEN Tries - left[w] + 1 ELSE posts[i]
                  /\ posts'[i] = IF i \in Group(w) THEN posts[i] + 1 ELSE posts[i]
            BY <2>2, TryUsed
        <3>2. ASSUME NEW i \in 1..MaxLines  PROVE posts[i] <= posts'[i]
            <4>1. posts[i] \in Int  BY <2>1
            <4>2. QED  BY <3>1, <4>1
        <3>3. QED  BY <3>1, <3>2
    <2>3. CASE at[w] = "wait" /\ posts' = posts
        <3>1. \A i \in Group(w) : posts[i] = Tries - left[w] + 1
            BY <2>3, GroupInPending DEF TriesCounted, Used
        <3>2. QED  BY <2>1, <2>3, <3>1
    <2>4. QED  BY <2>2, <2>3
<1>2. Settling /\ accepted' = accepted /\ dropped' \subseteq alerts  BY TryFailsType
<1>3. inflight' \subseteq RequestType  BY DEF ForwarderTypeOK
<1>4. ForwarderTypeOK'  BY <1>1, <1>2, <1>3 DEF ForwarderTypeOK, Settling
<1>5. Accounted'  BY FailureAccounted
<1>6. HeldOne'  BY DEF HeldOne
<1>7. TriesCounted'  BY <1>1, TryFailsTries
<1>8. RequestsCounted'  BY <1>1, FewerRequests
<1>9. QED  BY <1>4, <1>5, <1>6, <1>7, <1>8

LEMMA AnswerKeepsInv ==
    ASSUME ForwarderInv, NEW r \in inflight, Answer(r)
    PROVE  ForwarderInv'
<1> USE AlertForwarderAssumption DEF AlertForwarderAssumption, ForwarderInv
<1> DEFINE w == r.by
<1>1. /\ w \in Worker /\ at[w] = "wait" /\ r.alerts = Group(w) /\ NextGroup(w)
      /\ inflight' = inflight \ {r} /\ received' = CountIn(r.alerts, received)
      /\ accepted' = accepted \cup Group(w) /\ dropped' = dropped
      /\ UNCHANGED <<log, alerts, held, queue, posts>>
    BY DEF Answer, Awaited, Request, readerVars, ForwarderTypeOK, RequestType
<1> HIDE DEF w
<1>2. RequestsCounted' /\ received' \in [1..MaxLines -> 0..Tries]
    BY <1>1, RequestHandled
<1>3. Settling  BY <1>1, NextGroupType
<1>4. ForwarderTypeOK'
    <2>1. accepted' \subseteq alerts
        BY <1>1, GroupInPending DEF ForwarderTypeOK
    <2>2. QED  BY <1>1, <1>2, <1>3, <2>1 DEF ForwarderTypeOK, Settling
<1>5. Accounted'
    <2>1. pending' = [pending EXCEPT ![w] = @ \ Group(w)]  BY <1>1 DEF NextGroup
    <2>2. QED  BY <1>1, <2>1, GroupSettled
<1>6. HeldOne'  BY <1>1 DEF HeldOne
<1>7. TriesCounted'  BY <1>1, NextGroupTries
<1>8. QED  BY <1>2, <1>4, <1>5, <1>6, <1>7

LEMMA HandleLateKeepsInv ==
    ASSUME ForwarderInv, NEW r \in inflight, HandleLate(r)
    PROVE  ForwarderInv'
<1> USE DEF ForwarderInv
<1>1. /\ inflight' = inflight \ {r} /\ received' = CountIn(r.alerts, received)
      /\ UNCHANGED <<log, alerts, held, queue, posts, at, pending, left, accepted, dropped>>
    BY DEF HandleLate, readerVars, settleVars
<1>2. RequestsCounted' /\ received' \in [1..MaxLines -> 0..Tries]
    BY <1>1, RequestHandled
<1>3. ForwarderTypeOK'  BY <1>1, <1>2 DEF ForwarderTypeOK
<1>4. Accounted' /\ HeldOne'  BY <1>1 DEF Accounted, HeldOne
<1>5. TriesCounted'
    <2>1. \A v \in Worker : \A i \in pending[v] : Used(v, i)' = Used(v, i)
        BY <1>1, UsedKept
    <2>2. QED  BY <1>1, <2>1 DEF TriesCounted
<1>6. QED  BY <1>2, <1>3, <1>4, <1>5

LEMMA LoseKeepsInv ==
    ASSUME ForwarderInv, NEW r \in inflight, Lose(r)
    PROVE  ForwarderInv'
<1> USE DEF ForwarderInv
<1>1. /\ inflight' = inflight \ {r}
      /\ UNCHANGED <<log, alerts, held, queue, received, posts, at, pending, left,
                     accepted, dropped>>
    BY DEF Lose, readerVars, settleVars
<1>2. RequestsCounted'  BY <1>1, SamePosts
<1>3. ForwarderTypeOK'  BY <1>1 DEF ForwarderTypeOK
<1>4. Accounted' /\ HeldOne'  BY <1>1 DEF Accounted, HeldOne
<1>5. TriesCounted'
    <2>1. \A v \in Worker : \A i \in pending[v] : Used(v, i)' = Used(v, i)
        BY <1>1, UsedKept
    <2>2. QED  BY <1>1, <2>1 DEF TriesCounted
<1>6. QED  BY <1>2, <1>3, <1>4, <1>5

LEMMA StutterKeepsInv == ASSUME ForwarderInv, UNCHANGED forwarderVars PROVE ForwarderInv'
<1> USE DEF ForwarderInv, forwarderVars, readerVars, apiVars, settleVars
<1>1. ForwarderTypeOK' /\ Accounted' /\ HeldOne'
    <2>1. ForwarderTypeOK'  BY DEF ForwarderTypeOK
    <2>2. Accounted'  BY DEF Accounted
    <2>3. HeldOne'  BY DEF HeldOne
    <2>4. QED  BY <2>1, <2>2, <2>3
<1>2. TriesCounted'
    <2>1. \A v \in Worker : \A i \in pending[v] : Used(v, i)' = Used(v, i)
        BY UsedKept
    <2>2. QED  BY <2>1 DEF TriesCounted
<1>3. RequestsCounted'  BY SamePosts
<1>4. QED  BY <1>1, <1>2, <1>3

LEMMA StepKeepsInv == ForwarderInv /\ [ForwarderNext]_forwarderVars => ForwarderInv'
<1> SUFFICES ASSUME ForwarderInv, [ForwarderNext]_forwarderVars  PROVE ForwarderInv'
    OBVIOUS
<1>1. ASSUME NEW w \in Worker, PostFails(w)  PROVE ForwarderInv'
    <2>1. /\ at[w] = "post" /\ UseTry(w) /\ TryFails(w)
          /\ UNCHANGED <<log, alerts, held, queue, received, inflight>>
        BY <1>1 DEF PostFails, readerVars, apiVars
    <2>2. QED  BY <2>1, FailureKeepsInv
<1>2. ASSUME NEW w \in Worker, Timeout(w)  PROVE ForwarderInv'
    <2>1. /\ at[w] = "wait" /\ posts' = posts /\ TryFails(w)
          /\ UNCHANGED <<log, alerts, held, queue, received, inflight>>
        BY <1>2 DEF Timeout, readerVars, apiVars
    <2>2. QED  BY <2>1, FailureKeepsInv
<1>3. ASSUME NEW r \in inflight, Refuse(r)  PROVE ForwarderInv'
    <2>1. /\ r.by \in Worker /\ at[r.by] = "wait" /\ posts' = posts /\ TryFails(r.by)
          /\ inflight' \subseteq inflight
          /\ UNCHANGED <<log, alerts, held, queue, received>>
        BY <1>3 DEF Refuse, Awaited, readerVars, ForwarderInv, ForwarderTypeOK, RequestType
    <2>2. QED  BY <2>1, FailureKeepsInv
<1>4. QED
    BY <1>1, <1>2, <1>3, ReadKeepsInv, PutKeepsInv, GetKeepsInv, CloseKeepsInv,
       PostKeepsInv, AnswerKeepsInv, HandleLateKeepsInv, LoseKeepsInv, StutterKeepsInv
    DEF ForwarderNext

-----------------------------------------------------------------------------
(* The theorems.                                                           *)

LEMMA Invariance == ForwarderSpec => []ForwarderInv
BY InitInv, StepKeepsInv, PTL DEF ForwarderSpec

\* Every variable keeps its type: the queue and the batches their capacities,
\* the counters their bounds.
THEOREM TypeCorrect == ForwarderSpec => []ForwarderTypeOK
<1>1. ForwarderInv => ForwarderTypeOK  BY DEF ForwarderInv
<1>2. QED  BY <1>1, Invariance, PTL

\* Every alert is in exactly one place, however many threads there are.
THEOREM NoAlertLost == ForwarderSpec => []Accounted
<1>1. ForwarderInv => Accounted  BY DEF ForwarderInv
<1>2. QED  BY <1>1, Invariance, PTL

\* Alerts are given up after all their tries, and received no more often than
\* they were tried.
THEOREM TriesSpent == ForwarderSpec => []TriesAreSpent
<1>1. ForwarderInv => TriesAreSpent
    <2> SUFFICES ASSUME ForwarderInv, NEW i \in alerts
                 PROVE  /\ i \in dropped => posts[i] = Tries
                        /\ received[i] <= posts[i]
        BY DEF TriesAreSpent
    <2>1. i \in 1..MaxLines  BY AlertsRead DEF ForwarderInv
    <2>2. i \in dropped => posts[i] = Tries  BY <2>1 DEF ForwarderInv, TriesCounted
    <2>3. /\ Cardinality(Carrying(i)) \in Nat
          /\ received[i] + Cardinality(Carrying(i)) <= posts[i]
        BY <2>1, CarryingType DEF ForwarderInv, RequestsCounted
    <2>4. received[i] \in Nat /\ posts[i] \in Nat
        BY <2>1, AlertForwarderAssumption
        DEF ForwarderInv, ForwarderTypeOK, AlertForwarderAssumption
    <2>5. QED  BY <2>2, <2>3, <2>4
<1>2. QED  BY <1>1, Invariance, PTL

\* A step on one group is a step of the channel, or none.
LEMMA FailureIsRelayStep ==
    ASSUME ForwarderInv, NEW w \in Worker, TryFails(w), UNCHANGED <<alerts, received>>
    PROVE  [Relay!Next]_Relay!vars
<1>1. CASE left[w] > 1
    BY <1>1 DEF TryFails, Relay!vars
<1>2. CASE ~(left[w] > 1)
    <2>1. accepted' = accepted /\ dropped' = dropped \cup Group(w)  BY <1>2 DEF TryFails
    <2>2. Group(w) \in SUBSET alerts /\ Group(w) \cap (accepted \cup dropped) = {}
        BY GroupInPending DEF ForwarderInv, ForwarderTypeOK, Accounted
    <2>3. Relay!GiveUp(Group(w))  BY <2>1, <2>2 DEF Relay!GiveUp
    <2>4. QED  BY <2>2, <2>3 DEF Relay!Next
<1>3. QED  BY <1>1, <1>2

\* What the API has received grows by the alerts of a request.
LEMMA HandledGrows ==
    ASSUME ForwarderInv, NEW r \in inflight, alerts' = alerts,
           received' = CountIn(r.alerts, received)
    PROVE  /\ r.alerts \in SUBSET alerts
           /\ {i \in alerts' : received'[i] > 0}
                  = {i \in alerts : received[i] > 0} \cup r.alerts
<1>1. r.alerts \subseteq alerts  BY DEF ForwarderInv, RequestsCounted
<1>2. ASSUME NEW i \in alerts
      PROVE  received'[i] > 0 <=> (received[i] > 0 \/ i \in r.alerts)
    <2>1. i \in 1..MaxLines  BY AlertsRead DEF ForwarderInv
    <2>2. received[i] \in Nat /\ DOMAIN received = 1..MaxLines
        BY <2>1, AlertForwarderAssumption
        DEF ForwarderInv, ForwarderTypeOK, AlertForwarderAssumption
    <2>3. received'[i] = IF i \in r.alerts THEN received[i] + 1 ELSE received[i]
        BY <2>1, <2>2 DEF CountIn
    <2>4. QED  BY <2>2, <2>3
<1>3. QED  BY <1>1, <1>2

\* The forwarder implements the channel that Response takes it for.
THEOREM Refinement == ForwarderSpec => ImplementsRelay
<1>1. ForwarderInit => Relay!Init
    BY DEF ForwarderInit, Relay!Init
<1>2. ForwarderInv /\ [ForwarderNext]_forwarderVars => [Relay!Next]_Relay!vars
    <2> SUFFICES ASSUME ForwarderInv, [ForwarderNext]_forwarderVars
                 PROVE  [Relay!Next]_Relay!vars
        OBVIOUS
    <2>1. ASSUME NEW line \in Line, NEW disabled \in BOOLEAN, Read(line, disabled)
          PROVE  [Relay!Next]_Relay!vars
        <3>1. UNCHANGED <<received, accepted, dropped>>
            BY <2>1 DEF Read, apiVars, settleVars
        <3>2. CASE alerts' = alerts  BY <3>1, <3>2 DEF Relay!vars
        <3>3. CASE alerts' # alerts
            <4>1. /\ Len(log) \in Nat /\ Len(log') = Len(log) + 1 /\ Len(log') <= MaxLines
                  /\ alerts \subseteq 1..Len(log)
                <5>1. log \in Seq(Line) /\ alerts \subseteq 1..Len(log) /\ MaxLines \in Nat
                    BY AlertForwarderAssumption
                    DEF ForwarderInv, ForwarderTypeOK, AlertForwarderAssumption
                <5>2. log' = Append(log, line) /\ Len(log) < MaxLines  BY <2>1 DEF Read
                <5>3. QED  BY <5>1, <5>2
            <4>2. /\ alerts' = alerts \cup {Len(log')}
                  /\ Len(log') \in 1..MaxLines /\ Len(log') \notin alerts
                BY <2>1, <3>3, <4>1, AlertForwarderAssumption
                DEF Read, AlertForwarderAssumption
            <4>3. ~(received[Len(log')] > 0)
                <5>1. posts[Len(log')] = 0  BY <4>2 DEF ForwarderInv, TriesCounted
                <5>2. /\ received[Len(log')] + Cardinality(Carrying(Len(log'))) <= posts[Len(log')]
                      /\ Cardinality(Carrying(Len(log'))) \in Nat
                    BY <4>2, CarryingType DEF ForwarderInv, RequestsCounted
                <5>3. received[Len(log')] \in Nat
                    BY <4>2, AlertForwarderAssumption
                    DEF ForwarderInv, ForwarderTypeOK, AlertForwarderAssumption
                <5>4. QED  BY <5>1, <5>2, <5>3
            <4>4. {i \in alerts' : received'[i] > 0} = {i \in alerts : received[i] > 0}
                BY <3>1, <4>2, <4>3
            <4>5. Relay!Offer(Len(log'))
                BY <3>1, <4>2, <4>4 DEF Relay!Offer
            <4>6. QED  BY <4>2, <4>5 DEF Relay!Next
        <3>4. QED  BY <3>2, <3>3
    <2>2. CASE Put  BY <2>2 DEF Put, apiVars, settleVars, Relay!vars
    <2>3. ASSUME NEW w \in Worker, Get(w) \/ Close(w) \/ Post(w)
          PROVE  [Relay!Next]_Relay!vars
        <3>1. UNCHANGED <<alerts, received, accepted, dropped>>
            BY <2>3 DEF Get, Close, Post, readerVars, apiVars
        <3>2. QED  BY <3>1 DEF Relay!vars
    <2>4. ASSUME NEW w \in Worker, PostFails(w) \/ Timeout(w)
          PROVE  [Relay!Next]_Relay!vars
        <3>1. TryFails(w) /\ UNCHANGED <<alerts, received>>
            BY <2>4 DEF PostFails, Timeout, readerVars, apiVars
        <3>2. QED  BY <3>1, FailureIsRelayStep
    <2>5. ASSUME NEW r \in inflight, Refuse(r)
          PROVE  [Relay!Next]_Relay!vars
        <3>1. r.by \in Worker /\ TryFails(r.by) /\ UNCHANGED <<alerts, received>>
            BY <2>5 DEF Refuse, readerVars, ForwarderInv, ForwarderTypeOK, RequestType
        <3>2. QED  BY <3>1, FailureIsRelayStep
    <2>6. ASSUME NEW r \in inflight, Answer(r)
          PROVE  [Relay!Next]_Relay!vars
        <3>1. /\ alerts' = alerts /\ received' = CountIn(r.alerts, received)
              /\ accepted' = accepted \cup r.alerts /\ dropped' = dropped
            BY <2>6 DEF Answer, readerVars
        <3>2. r.by \in Worker /\ r.alerts = Group(r.by)
            BY <2>6 DEF Answer, Awaited, Request, ForwarderInv, ForwarderTypeOK, RequestType
        <3>3. r.alerts \cap (accepted \cup dropped) = {}
            BY <3>2, GroupInPending DEF ForwarderInv, Accounted
        <3>4. /\ r.alerts \in SUBSET alerts
              /\ {i \in alerts' : received'[i] > 0}
                     = {i \in alerts : received[i] > 0} \cup r.alerts
            BY <3>1, HandledGrows
        <3>5. Relay!DeliverAndAccept(r.alerts)
            BY <3>1, <3>3, <3>4 DEF Relay!DeliverAndAccept
        <3>6. QED  BY <3>4, <3>5 DEF Relay!Next
    <2>7. ASSUME NEW r \in inflight, HandleLate(r)
          PROVE  [Relay!Next]_Relay!vars
        <3>1. /\ alerts' = alerts /\ received' = CountIn(r.alerts, received)
              /\ accepted' = accepted /\ dropped' = dropped
            BY <2>7 DEF HandleLate, readerVars, settleVars
        <3>2. /\ r.alerts \in SUBSET alerts
              /\ {i \in alerts' : received'[i] > 0}
                     = {i \in alerts : received[i] > 0} \cup r.alerts
            BY <3>1, HandledGrows
        <3>3. Relay!Deliver(r.alerts)  BY <3>1, <3>2 DEF Relay!Deliver
        <3>4. QED  BY <3>2, <3>3 DEF Relay!Next
    <2>8. ASSUME NEW r \in inflight, Lose(r)
          PROVE  [Relay!Next]_Relay!vars
        BY <2>8 DEF Lose, readerVars, settleVars, Relay!vars
    <2>9. CASE UNCHANGED forwarderVars
        BY <2>9 DEF forwarderVars, readerVars, apiVars, settleVars, Relay!vars
    <2>10. QED
        BY <2>1, <2>2, <2>3, <2>4, <2>5, <2>6, <2>7, <2>8, <2>9 DEF ForwarderNext
<1>3. QED  BY <1>1, <1>2, Invariance, PTL DEF ForwarderSpec, ImplementsRelay, Relay!Spec
=============================================================================
