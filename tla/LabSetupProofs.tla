--------------------------- MODULE LabSetupProofs ---------------------------
(***************************************************************************)
(* The setup of a lab, for every number of nodes the generators allow and  *)
(* any number of generations: what a generation that succeeded has         *)
(* written, and what the nodes that run on it know of each other.          *)
(***************************************************************************)
EXTENDS LabSetup, FiniteSetTheorems, FunctionTheorems, WellFoundedInduction, TLAPS

-----------------------------------------------------------------------------
(* Nodes.                                                                  *)

LEMMA Sizes ==
    /\ NumValidators \in Nat /\ NumLights \in Nat /\ NumMembers \in Nat /\ GroupSize \in Nat
    /\ NumValidators \in 1..10 /\ NumLights \in 1..3 /\ NumMembers \in 1..4
BY LabConfigAssumption DEF LabConfigAssumption

\* There are as many nodes of a kind as numbers for them.
LEMMA NumberedCount ==
    ASSUME NEW kind, NEW n \in Nat
    PROVE  IsFiniteSet(Numbered(kind, n)) /\ Cardinality(Numbered(kind, n)) = n
<1> DEFINE f == [i \in 0..(n - 1) |-> <<kind, i>>]
<1>1. f \in Bijection(0..(n - 1), Numbered(kind, n))
    <2>1. f \in [0..(n - 1) -> Numbered(kind, n)]  BY DEF Numbered
    <2>2. \A i, j \in 0..(n - 1) : f[i] = f[j] => i = j  OBVIOUS
    <2>3. \A m \in Numbered(kind, n) : \E i \in 0..(n - 1) : f[i] = m  BY DEF Numbered
    <2>4. QED  BY <2>1, <2>2, <2>3, Fun_IsBij
<1>2. ExistsBijection(0..(n - 1), Numbered(kind, n))  BY <1>1, Fun_ExistsBij
<1>3. IsFiniteSet(0..(n - 1)) /\ Cardinality(0..(n - 1)) = n  BY FS_Interval
<1>4. QED  BY <1>2, <1>3, FS_Bijection

\* What the nodes of each kind are.
LEMMA NodeKinds ==
    /\ \A v \in Validators : v = <<"validator", v[2]>> /\ v[1] = "validator"
                             /\ v[2] \in 0..(NumValidators - 1)
    /\ \A m \in Members : m = <<"member", m[2]>> /\ m[1] = "member"
                          /\ m[2] \in 0..(NumMembers - 1)
    /\ \A l \in Lights : l = <<"light", l[2]>> /\ l[1] = "light"
                         /\ l[2] \in 0..(NumLights - 1)
    /\ FullNode[1] = "fullnode" /\ FullNode[2] = 0
    /\ Leader \in Validators /\ GoQuorum \notin QuorumNodes
    /\ Validators \cap Members = {} /\ Validators \cap Lights = {}
    /\ FullNode \notin Validators \cup Lights \cup Members
BY Sizes DEF Validators, Members, Lights, Numbered, FullNode, Leader, GoQuorum, QuorumNodes

\* The generators give every node an address from 1 to 25.
LEMMA Addresses ==
    /\ \A n \in CometNodes : CometAddress(n) \in 1..25
    /\ \A n \in QuorumNodes : QuorumAddress(n) \in 1..25
<1>1. \A v \in Validators : CometAddress(v) \in 1..25 /\ QuorumAddress(v) \in 1..25
    BY NodeKinds, Sizes DEF CometAddress, QuorumAddress
<1>2. \A l \in Lights : CometAddress(l) \in 1..25
    BY NodeKinds, Sizes DEF CometAddress
<1>3. \A m \in Members : QuorumAddress(m) \in 1..25
    BY NodeKinds, Sizes DEF QuorumAddress
<1>4. CometAddress(FullNode) \in 1..25  BY NodeKinds DEF CometAddress
<1>5. QED  BY <1>1, <1>2, <1>3, <1>4 DEF CometNodes, QuorumNodes

\* A finite set of integers that is not empty has a least element.
LEMMA LeastExists ==
    ASSUME NEW S \in SUBSET Int, IsFiniteSet(S), S # {}
    PROVE  \E i \in S : \A j \in S : i <= j
<1> DEFINE Below(i) == {j \in S : j < i}
           Cuts == {Below(i) : i \in S}
<1>1. Cuts \subseteq FiniteSubsetsOf(S) /\ Cuts # {}
    <2>1. \A i \in S : IsFiniteSet(Below(i)) /\ Below(i) \subseteq S  BY FS_Subset
    <2>2. QED  BY <2>1 DEF FiniteSubsetsOf
<1>2. PICK c \in Cuts : \A d \in Cuts : ~(<<d, c>> \in StrictSubsetOrdering(S))
    BY <1>1, WFMin, FS_StrictSubsetOrderingWellFounded
<1>3. PICK i \in S : c = Below(i)  OBVIOUS
<1>4. ASSUME NEW j \in S, j < i  PROVE FALSE
    <2>1. \A k \in S : k < j => k < i  BY <1>4
    <2>2. ~(j < j)  OBVIOUS
    <2>3. Below(j) \subseteq Below(i) /\ j \in Below(i) /\ j \notin Below(j)
        BY <1>4, <2>1, <2>2
    <2>4. <<Below(j), c>> \in StrictSubsetOrdering(S)
        BY <2>3, <1>3 DEF StrictSubsetOrdering
    <2>5. QED  BY <2>4, <1>2
<1>5. QED  BY <1>4

\* The node in turn is one that waits for its files.
LEMMA FirstIsIn ==
    ASSUME todo \subseteq Nodes, lab \in {"cometbft", "quorum"}, todo # {}
    PROVE  FirstOf(todo) \in todo
<1> DEFINE P == {Position(n) : n \in todo}
<1>1. P \in SUBSET (1..25)  BY Addresses DEF Position, Nodes
<1>2. IsFiniteSet(P) /\ P \in SUBSET Int /\ P # {}
    <2>1. IsFiniteSet(1..25)
        <3>1. \A a, b \in Int : IsFiniteSet(a..b)  BY FS_Interval
        <3>2. 1 \in Int /\ 25 \in Int  OBVIOUS
        <3>3. QED  BY <3>1, <3>2, Zenon
    <2>2. IsFiniteSet(P)  BY <1>1, <2>1, FS_Subset
    <2>3. 1..25 \subseteq Int  OBVIOUS
    <2>4. QED  BY <1>1, <2>2, <2>3
<1>3. \E i \in P : \A j \in P : i <= j  BY <1>2, LeastExists
<1>4. \E n \in todo : \A m \in todo : Position(n) <= Position(m)  BY <1>3
<1>5. QED  BY <1>4 DEF FirstOf

-----------------------------------------------------------------------------
(* Files.                                                                  *)

\* A file has the type of its kind.
FileTypes == [k \in FileKinds |->
    CASE k = "sps"   -> SUBSET [id : Ids, role : {"validator", "agent", "fullnode"},
                                actuator : BOOLEAN]
      [] k = "peers" -> SUBSET [id : Ids, ip : 1..25]
      [] OTHER       -> SUBSET Ids]

LEMMA WrittenType ==
    ASSUME NEW d \in [LabNodes -> FilesType], NEW n \in LabNodes, NEW k \in FileKinds,
           NEW file \in FileTypes[k]
    PROVE  [d EXCEPT ![n][k] = file] \in [LabNodes -> FilesType]
<1>1. [d[n] EXCEPT ![k] = file] \in FilesType
    <2>1. CASE k = "sps"  BY <2>1 DEF FilesType, FileTypes, FileKinds
    <2>2. CASE k = "peers"  BY <2>2 DEF FilesType, FileTypes, FileKinds
    <2>3. CASE k = "genesis"  BY <2>3 DEF FilesType, FileTypes, FileKinds
    <2>4. CASE k = "key"  BY <2>4 DEF FilesType, FileTypes, FileKinds
    <2>5. CASE k = "contract"  BY <2>5 DEF FilesType, FileTypes, FileKinds
    <2>6. QED  BY <2>1, <2>2, <2>3, <2>4, <2>5 DEF FileKinds
<1>2. QED  BY <1>1

LEMMA NoFilesType == NoFiles \in FilesType
BY DEF NoFiles, FileKinds, FilesType

LEMMA IdentityType ==
    ASSUME NEW n \in LabNodes, NEW r \in 0..MaxRuns
    PROVE  Identity(n, r) \in Ids
BY DEF Ids

\* What a generator writes has its type.
LEMMA FileOfType ==
    ASSUME LabTypeOK, NEW k \in FileKinds, NEW n \in LabNodes
    PROVE  FileOf(k, n, run) \in FileTypes[k]
<1>1. run \in 0..MaxRuns  BY DEF LabTypeOK
<1>2. CASE k = "sps"
    BY <1>1, <1>2, IdentityType DEF FileOf, FileTypes, SpsConfig
<1>3. CASE k = "peers"
    <2>1. \A m \in CometNodes : CometEntry(m, run) \in [id : Ids, ip : 1..25]
        BY <1>1, IdentityType, Addresses DEF CometEntry, LabNodes
    <2>2. CometPeers(n, run) \in SUBSET [id : Ids, ip : 1..25]
        BY <2>1 DEF CometPeers, ValidatorPeers, CometNodes
    <2>3. \A m \in QuorumNodes : QuorumEntry(m, run) \in [id : Ids, ip : 1..25]
        BY <1>1, IdentityType, Addresses DEF QuorumEntry, LabNodes
    <2>4. Enodes(tool \ {GoQuorum}, run) \in SUBSET [id : Ids, ip : 1..25]
        BY <2>3 DEF Enodes, LabTypeOK
    <2>5. QED  BY <1>3, <2>2, <2>4 DEF FileOf, FileTypes
<1>4. CASE k = "genesis"
    BY <1>1, <1>4, IdentityType
    DEF FileOf, FileTypes, CometGenesis, LabNodes, CometNodes
<1>5. CASE k = "key"  BY <1>1, <1>5, IdentityType DEF FileOf, FileTypes
<1>6. CASE k = "contract"  BY <1>6 DEF FileOf, FileTypes
<1>7. QED  BY <1>2, <1>3, <1>4, <1>5, <1>6 DEF FileKinds

LEMMA AgentsType ==
    ASSUME LabTypeOK
    PROVE  ContractAgents(tool, run) \in SUBSET Ids
<1>1. \A m \in GroupOf(tool) : m \in LabNodes
    BY DEF GroupOf, LabNodes, QuorumNodes
<1>2. run \in 0..MaxRuns  BY DEF LabTypeOK
<1>3. QED  BY <1>1, <1>2, IdentityType DEF ContractAgents

-----------------------------------------------------------------------------
(* Type correctness.                                                       *)

\* Where a generator is: it has not succeeded while it runs, only that of the
\* Quorum lab waits for the tool, and it then writes what the tool made.
Making ==
    /\ making # "idle" => made = 0
    /\ making = "tool" => lab = "quorum" /\ part = 1
    /\ (making = "write" /\ lab = "quorum") => tool = QuorumNodes \cup {GoQuorum}

\* All directories are there when there are enough of them.
LEMMA AllMade ==
    ASSUME LabTypeOK, GoQuorum \in tool,
           Cardinality(tool \ {GoQuorum}) >= NumValidators + NumMembers
    PROVE  tool = QuorumNodes \cup {GoQuorum}
<1> DEFINE T == tool \ {GoQuorum}
<1>1. /\ IsFiniteSet(Validators) /\ Cardinality(Validators) = NumValidators
      /\ IsFiniteSet(Members) /\ Cardinality(Members) = NumMembers
    BY NumberedCount, Sizes DEF Validators, Members
<1>2. Cardinality({}) = 0  BY FS_EmptySet
<1>3. Validators \cap Members = {}  BY NodeKinds
<1>4. /\ IsFiniteSet(QuorumNodes)
      /\ Cardinality(QuorumNodes) = NumValidators + NumMembers
                                        - Cardinality(Validators \cap Members)
    BY <1>1, FS_Union DEF QuorumNodes
<1>5. Cardinality(QuorumNodes) = NumValidators + NumMembers
    <2>1. Cardinality(Validators \cap Members) = 0  BY <1>2, <1>3
    <2>2. NumValidators \in Nat /\ NumMembers \in Nat  BY Sizes
    <2>3. QED  BY <1>4, <2>1, <2>2
<1>6. T \in SUBSET QuorumNodes  BY DEF LabTypeOK
<1>7. IsFiniteSet(T) /\ Cardinality(T) <= Cardinality(QuorumNodes)
    BY <1>4, <1>6, FS_Subset
<1>8. Cardinality(T) \in Nat /\ Cardinality(QuorumNodes) \in Nat
    BY <1>4, <1>7, FS_CardinalityType
<1>9. Cardinality(T) = Cardinality(QuorumNodes)
    BY <1>5, <1>7, <1>8
<1>10. T = QuorumNodes  BY <1>4, <1>6, <1>9, FS_Subset
<1>11. QED  BY <1>10

LEMMA InitType == LabInit => LabTypeOK /\ Making
BY LabSetupAssumption, NoFilesType
DEF LabSetupAssumption, LabInit, LabTypeOK, Making

LEMMA StepType ==
    ASSUME LabTypeOK, Making, [LabNext]_labVars
    PROVE  LabTypeOK' /\ Making'
<1> USE LabSetupAssumption DEF LabSetupAssumption
<1>1. CASE Generate
    <2>1. run' \in 0..MaxRuns /\ made' = 0 /\ tool' = {} /\ part' = 1
        BY <1>1 DEF Generate, LabTypeOK
    <2>2. todo' \subseteq Nodes'  BY <1>1 DEF Generate, Nodes
    <2>3. LabTypeOK'
        BY <1>1, <2>1, <2>2 DEF Generate, LabTypeOK
    <2>4. Making'
        BY <1>1, <2>1 DEF Generate, LabTypeOK, Making
    <2>5. QED  BY <2>3, <2>4
<1>2. ASSUME NEW d \in QuorumNodes \cup {GoQuorum}, ToolMakes(d)
      PROVE  LabTypeOK' /\ Making'
    <2>1. LabTypeOK'
        BY <1>2 DEF ToolMakes, LabTypeOK, Nodes, shareVars
    <2>2. Making'  BY <1>2 DEF ToolMakes, Making
    <2>3. QED  BY <2>1, <2>2
<1>3. CASE Download
    <2>1. tool = QuorumNodes \cup {GoQuorum}  BY <1>3, AllMade DEF Download
    <2>2. todo' = QuorumNodes /\ lab = "quorum"
        BY <1>3, <2>1, NodeKinds DEF Download, Making
    <2>3. LabTypeOK'
        BY <1>3, <2>2 DEF Download, LabTypeOK, Nodes, shareVars
    <2>4. Making'  BY <1>3, <2>1 DEF Download, Making
    <2>5. QED  BY <2>3, <2>4
<1>4. CASE Fail
    <2>1. LabTypeOK'  BY <1>4 DEF Fail, LabTypeOK, Nodes, shareVars
    <2>2. Making'  BY <1>4 DEF Fail, Making
    <2>3. QED  BY <2>1, <2>2
<1>5. CASE WriteFile
    <2> DEFINE n == FirstOf(todo)
               k == FileOrder[part]
    <2>1. n \in todo /\ n \in LabNodes
        BY <1>5, FirstIsIn DEF WriteFile, LabTypeOK, Nodes, LabNodes
    <2>2. k \in FileKinds  BY DEF FileOrder, FileKinds, LabTypeOK
    <2> HIDE DEF n, k
    <2>3. disk' = [disk EXCEPT ![n][k] = FileOf(k, n, run)]  BY <1>5 DEF WriteFile, n, k
    <2>4. disk' \in [LabNodes -> FilesType]
        BY <2>1, <2>2, <2>3, FileOfType, WrittenType DEF LabTypeOK
    <2>5. todo' \subseteq Nodes' /\ part' \in 1..4
        BY <1>5 DEF WriteFile, LabTypeOK, Nodes
    <2>6. UNCHANGED <<lab, run, making, tool, made, published, since, up, has>>
        BY <1>5 DEF WriteFile, shareVars
    <2>7. LabTypeOK'  BY <2>4, <2>5, <2>6 DEF LabTypeOK
    <2>8. Making'  BY <1>5, <2>6 DEF WriteFile, Making
    <2>9. QED  BY <2>7, <2>8
<1>6. CASE Finish
    <2>1. disk' \in [LabNodes -> FilesType]
        <3>1. ContractAgents(tool, run) \in FileTypes["contract"] /\ "contract" \in FileKinds
            BY AgentsType DEF FileTypes, FileKinds
        <3>2. Leader \in LabNodes  BY NodeKinds DEF LabNodes, CometNodes
        <3>3. [disk EXCEPT ![Leader]["contract"] = ContractAgents(tool, run)]
                  \in [LabNodes -> FilesType]
            BY <3>1, <3>2, WrittenType DEF LabTypeOK
        <3>4. QED  BY <1>6, <3>3 DEF Finish, LabTypeOK
    <2>2. LabTypeOK'  BY <1>6, <2>1 DEF Finish, LabTypeOK, Nodes, shareVars
    <2>3. Making'  BY <1>6 DEF Finish, Making
    <2>4. QED  BY <2>2, <2>3
<1>7. CASE Start
    <2>1. LabTypeOK'  BY <1>7 DEF Start, makeVars, LabTypeOK, Nodes
    <2>2. Making'  BY <1>7 DEF Start, makeVars, Making
    <2>3. QED  BY <2>1, <2>2
<1>8. CASE Clean
    <2>1. LabTypeOK'
        BY <1>8, NoFilesType DEF Clean, StopAll, makeVars, shareVars, LabTypeOK, Nodes
    <2>2. Making'  BY <1>8 DEF Clean, makeVars, Making
    <2>3. QED  BY <2>1, <2>2
<1>9. CASE CleanConfig
    <2>1. LabTypeOK'
        BY <1>9, NoFilesType DEF CleanConfig, StopAll, LabTypeOK, Nodes
    <2>2. Making'  BY <1>9 DEF CleanConfig, Making
    <2>3. QED  BY <2>1, <2>2
<1>10. CASE Share
    <2>1. has[Leader].genesis \subseteq Ids /\ has[Leader].key \subseteq Ids
        BY NodeKinds DEF LabTypeOK, LabNodes, CometNodes, FilesType
    <2>2. LabTypeOK'
        BY <1>10, <2>1 DEF Share, makeVars, LabTypeOK, Nodes
    <2>3. Making'  BY <1>10 DEF Share, makeVars, Making
    <2>4. QED  BY <2>2, <2>3
<1>11. ASSUME NEW n \in Nodes, Boot(n)
       PROVE  LabTypeOK' /\ Making'
    <2>1. n \in LabNodes  BY DEF Nodes, LabNodes
    <2>2. LabTypeOK'
        BY <1>11, <2>1 DEF Boot, makeVars, shareVars, LabTypeOK, Nodes
    <2>3. Making'  BY <1>11 DEF Boot, makeVars, Making
    <2>4. QED  BY <2>2, <2>3
<1>12. ASSUME NEW n \in Nodes, Proceed(n)
       PROVE  LabTypeOK' /\ Making'
    <2>1. n \in LabNodes  BY DEF Nodes, LabNodes
    <2>2. /\ [has EXCEPT ![n]["genesis"] = published] \in [LabNodes -> FilesType]
          /\ [has EXCEPT ![n]["contract"] = published] \in [LabNodes -> FilesType]
        BY <2>1, WrittenType DEF LabTypeOK, FileTypes, FileKinds
    <2>3. has' \in [LabNodes -> FilesType]
        <3>1. Follows(n) => n = FullNode \/ n \in Members  BY DEF Follows
        <3>2. QED  BY <1>12, <2>2, <3>1 DEF Proceed, LabTypeOK
    <2>4. LabTypeOK'
        BY <1>12, <2>1, <2>3 DEF Proceed, makeVars, shareVars, LabTypeOK, Nodes
    <2>5. Making'  BY <1>12 DEF Proceed, makeVars, Making
    <2>6. QED  BY <2>4, <2>5
<1>13. CASE UNCHANGED labVars
    BY <1>13 DEF labVars, makeVars, shareVars, LabTypeOK, Nodes, Making
<1>14. CASE ShareFails
    <2>1. LabTypeOK'
        BY <1>14 DEF ShareFails, makeVars, shareVars, LabTypeOK, Nodes
    <2>2. Making'  BY <1>14 DEF ShareFails, makeVars, Making
    <2>3. QED  BY <2>1, <2>2
<1>15. QED
    BY <1>1, <1>2, <1>3, <1>4, <1>5, <1>6, <1>7, <1>8, <1>9, <1>10, <1>11, <1>12, <1>13, <1>14
    DEF LabNext

\* Every variable keeps its type.
THEOREM TypeCorrect == LabSpec => []LabTypeOK
<1>1. LabTypeOK /\ Making /\ [LabNext]_labVars => LabTypeOK' /\ Making'  BY StepType
<1>2. QED  BY InitType, <1>1, PTL DEF LabSpec

-----------------------------------------------------------------------------
(* What is written.                                                        *)

\* While a generator writes, every file before the place where it is, is its
\* own; kinds that a lab does not have stay empty.
Progress ==
    /\ \A n \in LabNodes : IF lab = "quorum" THEN disk[n]["sps"] = {}
                                             ELSE disk[n]["contract"] = {}
    /\ making = "write" =>
           \A n \in Nodes : \A i \in 1..4 :
               (n \notin todo \/ (n = FirstOf(todo) /\ i < part))
                   => disk[n][FileOrder[i]] = FileOf(FileOrder[i], n, run)

\* The kinds of files that a generator writes, and the order.
LEMMA Kinds ==
    /\ lab = "cometbft" => FileOrder = <<"sps", "peers", "genesis", "key">>
    /\ lab = "quorum" => FileOrder = <<"peers", "genesis", "key", "contract">>
    /\ \A i, j \in 1..4 : FileOrder[i] = FileOrder[j] => i = j
BY DEF FileOrder

LEMMA InitProgress == LabInit => Progress /\ GeneratedIsWhole
BY DEF LabInit, Progress, GeneratedIsWhole, NoFiles, FileKinds

\* The files of a generation depend on nothing but the lab.
LEMMA GeneratedFiles ==
    ASSUME LabTypeOK, NEW n, NEW r
    PROVE  Generated(n, r) =
               [k \in FileKinds |->
                   IF lab = "quorum"
                   THEN CASE k = "sps"      -> {}
                          [] k = "peers"    -> Enodes(QuorumNodes, r)
                          [] k = "genesis"  -> CometGenesis(r)
                          [] k = "key"      -> {Identity(n, r)}
                          [] k = "contract" -> IF n = Leader THEN ContractAgents(QuorumNodes, r)
                                                             ELSE {}
                   ELSE CASE k = "sps"      -> {SpsConfig(n, r)}
                          [] k = "peers"    -> CometPeers(n, r)
                          [] k = "genesis"  -> CometGenesis(r)
                          [] k = "key"      -> {Identity(n, r)}
                          [] k = "contract" -> {}]
<1> DEFINE F(k) ==
        CASE k = "contract" /\ n = Leader /\ lab = "quorum" -> ContractAgents(QuorumNodes, r)
          [] k = "sps" /\ lab = "quorum" -> {}
          [] k = "peers" /\ lab = "quorum" -> Enodes(QuorumNodes, r)
          [] OTHER -> FileOf(k, n, r)
<1>1. Generated(n, r) = [k \in FileKinds |-> F(k)]  BY DEF Generated
<1>2. lab \in {"cometbft", "quorum"}  BY DEF LabTypeOK
<1>3. F("sps") = IF lab = "quorum" THEN {} ELSE {SpsConfig(n, r)}
    BY <1>2 DEF FileOf
<1>4. F("peers") = IF lab = "quorum" THEN Enodes(QuorumNodes, r) ELSE CometPeers(n, r)
    BY <1>2 DEF FileOf
<1>5. F("genesis") = CometGenesis(r)  BY <1>2 DEF FileOf
<1>6. F("key") = {Identity(n, r)}  BY <1>2 DEF FileOf
<1>7. F("contract") = IF n = Leader /\ lab = "quorum" THEN ContractAgents(QuorumNodes, r)
                                                      ELSE {}
    BY <1>2 DEF FileOf
<1> HIDE DEF F
<1>8. QED  BY <1>1, <1>2, <1>3, <1>4, <1>5, <1>6, <1>7 DEF FileKinds

LEMMA GeneratedKinds ==
    ASSUME LabTypeOK, NEW n, NEW r
    PROVE  /\ Generated(n, r) = [k \in FileKinds |-> Generated(n, r)[k]]
           /\ Generated(n, r)["genesis"] = CometGenesis(r)
           /\ Generated(n, r)["key"] = {Identity(n, r)}
           /\ lab = "quorum" =>
                 /\ Generated(n, r)["sps"] = {}
                 /\ Generated(n, r)["peers"] = Enodes(QuorumNodes, r)
                 /\ Generated(n, r)["contract"] =
                        IF n = Leader THEN ContractAgents(QuorumNodes, r) ELSE {}
           /\ lab = "cometbft" =>
                 /\ Generated(n, r)["sps"] = {SpsConfig(n, r)}
                 /\ Generated(n, r)["peers"] = CometPeers(n, r)
                 /\ Generated(n, r)["contract"] = {}
<1>1. \A k \in FileKinds : k \in DOMAIN Generated(n, r)  BY GeneratedFiles
<1>2. /\ "sps" \in FileKinds /\ "peers" \in FileKinds /\ "genesis" \in FileKinds
      /\ "key" \in FileKinds /\ "contract" \in FileKinds
    BY DEF FileKinds
<1>3. QED  BY <1>1, <1>2, GeneratedFiles

LEMMA GeneratedFixed ==
    ASSUME LabTypeOK, lab' = lab, NEW n, NEW r
    PROVE  Generated(n, r)' = Generated(n, r)
<1>1. lab \in {"cometbft", "quorum"}  BY DEF LabTypeOK
<1>2. ASSUME NEW k \in FileKinds, k # "peers"  PROVE FileOf(k, n, r)' = FileOf(k, n, r)
    BY <1>2 DEF FileOf, FileKinds
<1>3. lab # "quorum" => FileOf("peers", n, r)' = FileOf("peers", n, r)
    BY <1>1 DEF FileOf
<1>4. QED  BY <1>1, <1>2, <1>3 DEF Generated, FileKinds

\* Steps that leave the generation alone leave its files alone.
LEMMA WholeKept ==
    ASSUME LabTypeOK, GeneratedIsWhole, UNCHANGED <<lab, made, disk>>
    PROVE  GeneratedIsWhole'
<1>1. \A n, r : Generated(n, r)' = Generated(n, r)  BY GeneratedFixed
<1>2. QED  BY <1>1 DEF GeneratedIsWhole, Nodes

LEMMA ProgressKept ==
    ASSUME Progress, UNCHANGED <<lab, run, making, tool, todo, part, disk>>
    PROVE  Progress'
BY DEF Progress, Nodes, FileOrder, FileOf, FirstOf, Position

LEMMA WriteProgress ==
    ASSUME LabTypeOK, Progress, WriteFile
    PROVE  Progress'
<1> DEFINE n == FirstOf(todo)
           k == FileOrder[part]
<1>1. n \in todo /\ n \in Nodes /\ n \in LabNodes
    BY FirstIsIn DEF WriteFile, LabTypeOK, Nodes, LabNodes
<1>2. /\ disk' = [disk EXCEPT ![n][k] = FileOf(k, n, run)]
      /\ part' = (IF part = 4 THEN 1 ELSE part + 1)
      /\ todo' = (IF part = 4 THEN todo \ {n} ELSE todo)
      /\ UNCHANGED <<lab, run, making, tool>> /\ making = "write"
    BY DEF WriteFile
<1>3. part < 4 => FirstOf(todo') = n  BY <1>2 DEF n
<1>4. k \in FileKinds /\ part \in 1..4
    BY DEF LabTypeOK, FileOrder, FileKinds
<1>5. ASSUME NEW m \in LabNodes, NEW j \in FileKinds
      PROVE  disk'[m][j] = IF m = n /\ j = k THEN FileOf(k, n, run) ELSE disk[m][j]
    BY <1>1, <1>2, <1>4 DEF LabTypeOK, FilesType, FileKinds
<1>6. FirstOf(todo)' = FirstOf(todo')
    BY <1>2 DEF FirstOf, Position
<1> HIDE DEF n, k
<1>7. ASSUME NEW m \in Nodes', NEW i \in 1..4,
             m \notin todo' \/ (m = FirstOf(todo)' /\ i < part')
      PROVE  disk'[m][FileOrder'[i]] = FileOf(FileOrder[i], m, run)'
    <2>1. m \in Nodes /\ m \in LabNodes  BY <1>2 DEF Nodes, LabNodes
    <2>2. /\ FileOrder' = FileOrder /\ FileOrder[i] \in FileKinds
          /\ FileOf(FileOrder[i], m, run)' = FileOf(FileOrder[i], m, run)
        BY <1>2 DEF FileOrder, FileKinds, FileOf
    <2>3. CASE m = n /\ i = part
        BY <1>5, <2>1, <2>2, <2>3 DEF k
    <2>4. CASE m = n /\ i # part
        <3>1. FileOrder[i] # k  BY <1>4, <2>4, Kinds DEF k
        <3>2. i < part
            BY <1>1, <1>2, <1>3, <1>4, <1>6, <1>7, <2>4
        <3>3. disk[m][FileOrder[i]] = FileOf(FileOrder[i], m, run)
            BY <1>2, <2>1, <2>4, <3>2 DEF Progress, n
        <3>4. QED  BY <1>5, <2>1, <2>2, <3>1, <3>3
    <2>5. CASE m # n
        <3>1. m \notin todo
            <4>1. CASE part = 4  BY <1>2, <1>7, <2>5, <4>1, <1>4, <1>6
            <4>2. CASE part # 4  BY <1>2, <1>3, <1>4, <1>6, <1>7, <2>5, <4>2
            <4>3. QED  BY <4>1, <4>2
        <3>2. disk[m][FileOrder[i]] = FileOf(FileOrder[i], m, run)
            BY <1>2, <2>1, <3>1 DEF Progress
        <3>3. QED  BY <1>5, <2>1, <2>2, <2>5, <3>2
    <2>6. QED  BY <2>3, <2>4, <2>5
<1>8. \A m \in LabNodes : IF lab' = "quorum" THEN disk'[m]["sps"] = {}
                                             ELSE disk'[m]["contract"] = {}
    <2>1. lab = "quorum" => k # "sps"  BY <1>4, Kinds DEF k
    <2>2. lab # "quorum" => k # "contract"
        BY <1>4, Kinds DEF k, LabTypeOK
    <2>3. "sps" \in FileKinds /\ "contract" \in FileKinds  BY DEF FileKinds
    <2>4. QED  BY <1>2, <1>5, <2>1, <2>2, <2>3 DEF Progress
<1>9. QED  BY <1>7, <1>8 DEF Progress

\* The agents do not depend on the directory that is no node's.
LEMMA AgentsOfNodes ==
    ASSUME NEW r
    PROVE  ContractAgents(QuorumNodes \cup {GoQuorum}, r) = ContractAgents(QuorumNodes, r)
<1>1. (QuorumNodes \cup {GoQuorum}) \cap Members = QuorumNodes \cap Members
    BY NodeKinds DEF QuorumNodes
<1>2. QED  BY <1>1 DEF ContractAgents, GroupOf

\* When no node is left to write, the generation is complete.
LEMMA FinishWhole ==
    ASSUME LabTypeOK, Making, Progress, Finish
    PROVE  GeneratedIsWhole'
<1>1. /\ making = "write" /\ todo = {} /\ made' = run /\ lab' = lab
      /\ disk' = IF lab = "cometbft" THEN disk
                 ELSE [disk EXCEPT ![Leader]["contract"] = ContractAgents(tool, run)]
      /\ lab \in {"cometbft", "quorum"}
      /\ disk \in [LabNodes -> FilesType]
    BY DEF Finish, LabTypeOK
<1>2. ASSUME NEW n \in Nodes  PROVE disk'[n] = Generated(n, run)
    <2>1. n \in LabNodes /\ disk[n] \in FilesType  BY <1>1 DEF Nodes, LabNodes
    <2>2. /\ disk[n][FileOrder[1]] = FileOf(FileOrder[1], n, run)
          /\ disk[n][FileOrder[2]] = FileOf(FileOrder[2], n, run)
          /\ disk[n][FileOrder[3]] = FileOf(FileOrder[3], n, run)
          /\ disk[n][FileOrder[4]] = FileOf(FileOrder[4], n, run)
        BY <1>1 DEF Progress
    <2>3. CASE lab = "cometbft"
        <3>1. /\ disk[n]["sps"] = FileOf("sps", n, run)
              /\ disk[n]["peers"] = FileOf("peers", n, run)
              /\ disk[n]["genesis"] = FileOf("genesis", n, run)
              /\ disk[n]["key"] = FileOf("key", n, run)
            BY <2>2, <2>3 DEF FileOrder
        <3>2. disk[n]["contract"] = {}  BY <2>1, <2>3 DEF Progress
        <3>3. disk[n] = [k \in FileKinds |-> disk[n][k]]
            BY <2>1 DEF FilesType, FileKinds
        <3>4. ASSUME NEW k \in FileKinds  PROVE disk[n][k] = Generated(n, run)[k]
            <4>1. FileOf("contract", n, run) = {}  BY DEF FileOf
            <4>2. /\ disk[n]["sps"] = Generated(n, run)["sps"]
                  /\ disk[n]["peers"] = Generated(n, run)["peers"]
                  /\ disk[n]["genesis"] = Generated(n, run)["genesis"]
                  /\ disk[n]["key"] = Generated(n, run)["key"]
                  /\ disk[n]["contract"] = Generated(n, run)["contract"]
                BY <2>3, <3>1, <3>2, <4>1, Kinds DEF Generated, FileKinds
            <4>3. QED  BY <4>2 DEF FileKinds
        <3>5. Generated(n, run) = [k \in FileKinds |-> Generated(n, run)[k]]
            BY GeneratedKinds
        <3>6. QED  BY <1>1, <2>3, <3>3, <3>4, <3>5
    <2>4. CASE lab = "quorum"
        <3>1. tool = QuorumNodes \cup {GoQuorum} /\ tool \ {GoQuorum} = QuorumNodes
            BY <1>1, <2>4, NodeKinds DEF Making
        <3>2. /\ disk[n]["peers"] = Enodes(QuorumNodes, run)
              /\ disk[n]["genesis"] = CometGenesis(run)
              /\ disk[n]["key"] = {Identity(n, run)}
              /\ disk[n]["contract"] = {}
            BY <2>2, <2>4, <3>1 DEF FileOrder, FileOf
        <3>3. disk[n]["sps"] = {}  BY <2>1, <2>4 DEF Progress
        <3>4. ContractAgents(tool, run) = ContractAgents(QuorumNodes, run)
            BY <3>1, AgentsOfNodes
        <3>5. /\ \A k \in FileKinds \ {"contract"} : disk'[n][k] = disk[n][k]
              /\ disk'[n]["contract"] = IF n = Leader THEN ContractAgents(QuorumNodes, run)
                                                      ELSE disk[n]["contract"]
              /\ disk'[n] = [k \in FileKinds |-> disk'[n][k]]
            BY <1>1, <2>1, <2>4, <3>4 DEF FilesType, FileKinds
        <3>6. ASSUME NEW k \in FileKinds  PROVE disk'[n][k] = Generated(n, run)[k]
            <4>1. Generated(n, run)["contract"] =
                      IF n = Leader THEN ContractAgents(QuorumNodes, run) ELSE {}
                BY <2>4 DEF Generated, FileKinds, FileOf
            <4>2. /\ Generated(n, run)["sps"] = {}
                  /\ Generated(n, run)["peers"] = Enodes(QuorumNodes, run)
                  /\ Generated(n, run)["genesis"] = CometGenesis(run)
                  /\ Generated(n, run)["key"] = {Identity(n, run)}
                BY <2>4 DEF Generated, FileKinds, FileOf
            <4>3. QED  BY <3>2, <3>3, <3>5, <4>1, <4>2 DEF FileKinds
        <3>7. Generated(n, run) = [k \in FileKinds |-> Generated(n, run)[k]]
            BY GeneratedKinds
        <3>8. QED  BY <3>5, <3>6, <3>7
    <2>5. QED  BY <1>1, <2>3, <2>4
<1>3. \A n, r : Generated(n, r)' = Generated(n, r)  BY <1>1, GeneratedFixed
<1>4. QED  BY <1>1, <1>2, <1>3 DEF GeneratedIsWhole, Nodes

LEMMA StepProgress ==
    ASSUME LabTypeOK, Making, Progress, GeneratedIsWhole, [LabNext]_labVars
    PROVE  Progress' /\ GeneratedIsWhole'
<1>1. CASE Generate
    <2>1. Progress'
        <3>1. UNCHANGED <<lab, disk>> /\ part' = 1  BY <1>1 DEF Generate
        <3>2. making' = "write" => todo' = CometNodes /\ lab = "cometbft"
            BY <1>1 DEF Generate, LabTypeOK
        <3>3. QED  BY <3>1, <3>2 DEF Progress, Nodes
    <2>2. made' = 0  BY <1>1 DEF Generate
    <2>3. QED  BY <2>1, <2>2 DEF GeneratedIsWhole
<1>2. ASSUME NEW d \in QuorumNodes \cup {GoQuorum}, ToolMakes(d)
      PROVE  Progress' /\ GeneratedIsWhole'
    <2>1. UNCHANGED <<lab, disk, making, made>> /\ making = "tool" /\ made = 0
        BY <1>2 DEF ToolMakes, Making
    <2>2. QED  BY <2>1 DEF Progress, GeneratedIsWhole
<1>3. CASE Download
    <2>1. UNCHANGED <<lab, disk, made, part>> /\ made = 0 /\ part = 1
        BY <1>3 DEF Download, Making
    <2>2. todo' = QuorumNodes /\ lab = "quorum"
        BY <1>3, AllMade, NodeKinds DEF Download, Making
    <2>3. Progress'  BY <2>1, <2>2 DEF Progress, Nodes
    <2>4. QED  BY <2>1, <2>3 DEF GeneratedIsWhole
<1>4. CASE Fail
    <2>1. UNCHANGED <<lab, disk, made>> /\ made = 0 /\ making' = "idle"
        BY <1>4 DEF Fail, Making
    <2>2. QED  BY <2>1 DEF Progress, GeneratedIsWhole
<1>5. CASE WriteFile
    <2>1. made' = 0  BY <1>5 DEF WriteFile, Making
    <2>2. QED  BY <1>5, <2>1, WriteProgress DEF GeneratedIsWhole
<1>6. CASE Finish
    <2>1. Progress'
        <3>1. making' = "idle" /\ lab' = lab  BY <1>6 DEF Finish
        <3>2. ASSUME NEW n \in LabNodes
              PROVE  IF lab = "quorum" THEN disk'[n]["sps"] = {} ELSE disk'[n]["contract"] = {}
            <4>1. disk \in [LabNodes -> FilesType]  BY DEF LabTypeOK
            <4>2. lab = "cometbft" => disk' = disk  BY <1>6 DEF Finish
            <4>3. lab # "cometbft" =>
                      disk' = [disk EXCEPT ![Leader]["contract"] = ContractAgents(tool, run)]
                BY <1>6 DEF Finish
            <4>4. lab # "cometbft" => disk'[n]["sps"] = disk[n]["sps"]
                BY <4>1, <4>3 DEF FilesType
            <4>5. QED  BY <4>2, <4>4 DEF Progress, LabTypeOK
        <3>3. QED  BY <3>1, <3>2 DEF Progress
    <2>2. QED  BY <1>6, <2>1, FinishWhole
<1>7. CASE CleanConfig
    <2>1. /\ lab' = lab /\ made' = 0 /\ making' = "idle"
          /\ disk' = [n \in LabNodes |-> NoFiles]
        BY <1>7 DEF CleanConfig
    <2>2. QED  BY <2>1 DEF Progress, GeneratedIsWhole, NoFiles, FileKinds
<1>8. CASE UNCHANGED <<makeVars, disk>>
    <2>1. UNCHANGED <<lab, run, making, tool, todo, part, made, disk>>
        BY <1>8 DEF makeVars
    <2>2. QED  BY <2>1, ProgressKept, WholeKept
<1>9. CASE Start \/ Clean \/ Share \/ ShareFails
           \/ (\E n \in Nodes : Boot(n) \/ Proceed(n)) \/ UNCHANGED labVars
    BY <1>8, <1>9 DEF Start, Clean, Share, ShareFails, Boot, Proceed, labVars
<1>10. QED
    BY <1>1, <1>2, <1>3, <1>4, <1>5, <1>6, <1>7, <1>9 DEF LabNext

\* Whatever generations failed, and wherever, and however the directories of
\* the genesis tool came: a generation that succeeded has written every file
\* of every node.
THEOREM GenerationWhole == LabSpec => []GeneratedIsWhole
<1>1. LabTypeOK /\ Making /\ Progress /\ GeneratedIsWhole /\ [LabNext]_labVars
          => LabTypeOK' /\ Making' /\ Progress' /\ GeneratedIsWhole'
    BY StepType, StepProgress
<1>2. QED  BY InitType, InitProgress, <1>1, PTL DEF LabSpec

-----------------------------------------------------------------------------
(* The nodes that run.                                                     *)

\* The file a follower replaces by what validator0 shares.
SharedKind == IF lab = "cometbft" THEN "genesis" ELSE "contract"

\* Nodes are up only on a generation that succeeded, and have its files.
Taken ==
    /\ ~Stopped => making = "idle" /\ made # 0
    /\ \A n \in LabNodes \ Nodes : up[n] = "down"
    /\ \A n \in Nodes :
          /\ up[n] \in {"wait", "share"} => has[n] = disk[n]
          /\ up[n] = "run" => \A k \in FileKinds :
                (Follows(n) => k # SharedKind) => has[n][k] = disk[n][k]

\* What validator0 has to share.
Offered == IF lab = "cometbft" THEN disk[Leader]["genesis"] ELSE disk[Leader]["key"]

\* Until the keys are drawn anew, nothing was shared but that.
Shared ==
    /\ since = "clean" => published = {} /\ \A n \in LabNodes : up[n] = "down"
    /\ since = "started" =>
          /\ making = "idle"
          /\ published # {} => published = Offered
          /\ \A n \in Nodes :
                (up[n] = "run" /\ Follows(n)) => has[n][SharedKind] = Offered

LEMMA LeaderLeads ==
    ASSUME lab \in {"cometbft", "quorum"}
    PROVE  Leader \in Nodes /\ ~Follows(Leader) /\ Nodes \subseteq LabNodes
BY NodeKinds DEF Nodes, CometNodes, QuorumNodes, Follows, LabNodes

LEMMA InitTaken == LabInit => Taken /\ Shared
BY LeaderLeads DEF LabInit, Taken, Shared, Stopped, Nodes, LabNodes

\* The generators write only while no node is up.
LEMMA StoppedKept ==
    ASSUME LabTypeOK, Taken, Stopped, UNCHANGED <<lab, up>>
    PROVE  Taken'
BY DEF Taken, Stopped, Nodes, LabNodes

LEMMA StepTaken ==
    ASSUME LabTypeOK, Taken, [LabNext]_labVars
    PROVE  Taken'
<1>1. CASE Generate \/ (\E d \in QuorumNodes \cup {GoQuorum} : ToolMakes(d)) \/ Download
           \/ Fail \/ WriteFile \/ Finish
    <2>1. Stopped  BY <1>1 DEF Generate, ToolMakes, Download, Fail, WriteFile, Finish, Taken
    <2>2. UNCHANGED <<lab, up>>
        BY <1>1 DEF Generate, ToolMakes, Download, Fail, WriteFile, Finish
    <2>3. QED  BY <2>1, <2>2, StoppedKept
<1>2. CASE Start
    <2>1. /\ UNCHANGED <<lab, making, made>> /\ making = "idle" /\ made # 0
          /\ up' = [n \in LabNodes |-> IF n \in Nodes THEN "boot" ELSE "down"]
        BY <1>2 DEF Start, makeVars
    <2>2. LabNodes' = LabNodes /\ Nodes' = Nodes /\ Nodes \subseteq LabNodes
        BY <2>1 DEF Nodes, LabNodes
    <2>3. \A n \in Nodes : up'[n] = "boot"  BY <2>1, <2>2
    <2>4. QED  BY <2>1, <2>2, <2>3 DEF Taken
<1>3. CASE Clean \/ CleanConfig
    <2>1. \A n \in LabNodes : up'[n] = "down"
        BY <1>3 DEF Clean, CleanConfig, StopAll
    <2>2. Nodes' \subseteq LabNodes /\ LabNodes' = LabNodes  BY DEF Nodes, LabNodes
    <2>3. QED  BY <2>1, <2>2 DEF Taken, Stopped
<1>4. CASE Share \/ ShareFails
    <2>1. UNCHANGED <<lab, making, made, disk, has>> /\ up[Leader] = "share"
          /\ up' = [up EXCEPT ![Leader] = "run"]
        BY <1>4 DEF Share, ShareFails, makeVars
    <2>2. Leader \in Nodes /\ ~Follows(Leader) /\ Nodes \subseteq LabNodes
        BY LeaderLeads DEF LabTypeOK
    <2>3. ~Stopped  BY <2>1, <2>2 DEF Stopped
    <2>4. QED  BY <2>1, <2>2, <2>3 DEF Taken, LabTypeOK, Nodes, Follows, SharedKind
<1>5. ASSUME NEW n \in Nodes, Boot(n)  PROVE Taken'
    <2>1. UNCHANGED <<lab, making, made, disk>> /\ up[n] = "boot"
          /\ has' = [has EXCEPT ![n] = disk[n]]
          /\ \E p \in {"wait", "share", "run"} : up' = [up EXCEPT ![n] = p]
        BY <1>5 DEF Boot, makeVars
    <2>2. n \in LabNodes /\ ~Stopped /\ Nodes \subseteq LabNodes
        BY <2>1 DEF Nodes, LabNodes, Stopped
    <2>3. has'[n] = disk[n] /\ \A m \in LabNodes : m # n => has'[m] = has[m] /\ up'[m] = up[m]
        BY <2>1, <2>2 DEF LabTypeOK
    <2>4. QED  BY <2>1, <2>2, <2>3 DEF Taken, Nodes, Follows, SharedKind
<1>6. ASSUME NEW n \in Nodes, Proceed(n)  PROVE Taken'
    <2>1. UNCHANGED <<lab, making, made, disk>> /\ up[n] = "wait"
          /\ up' = [up EXCEPT ![n] = "run"]
        BY <1>6 DEF Proceed, makeVars
    <2>2. n \in LabNodes /\ ~Stopped /\ Nodes \subseteq LabNodes
        BY <2>1 DEF Nodes, LabNodes, Stopped
    <2>3. \A m \in LabNodes : m # n => has'[m] = has[m] /\ up'[m] = up[m]
        BY <1>6, <2>1, <2>2 DEF LabTypeOK, Proceed, Follows
    <2>4. has[n] = disk[n]  BY <2>1 DEF Taken
    <2>5. ASSUME NEW k \in FileKinds, Follows(n) => k # SharedKind
          PROVE  has'[n][k] = has[n][k]
        <3>1. CASE ~Follows(n)
            <4>1. n # FullNode /\ n \notin Members
                BY <3>1, NodeKinds DEF LabTypeOK, Follows, Nodes, CometNodes, QuorumNodes
            <4>2. QED  BY <1>6, <3>1, <4>1 DEF Proceed
        <3>2. CASE Follows(n) /\ n = FullNode
            <4>1. SharedKind = "genesis"
                BY <3>2, NodeKinds DEF SharedKind, Follows
            <4>2. has' = [has EXCEPT ![n]["genesis"] = published]
                BY <1>6, <3>2, NodeKinds DEF Proceed
            <4>3. QED  BY <2>2, <2>5, <3>2, <4>1, <4>2 DEF LabTypeOK, FilesType, FileKinds
        <3>3. CASE Follows(n) /\ n # FullNode
            <4>1. SharedKind = "contract" /\ n \in Members
                BY <3>3 DEF SharedKind, Follows
            <4>2. has' = [has EXCEPT ![n]["contract"] = published]
                BY <1>6, <3>3, <4>1 DEF Proceed
            <4>3. QED  BY <2>2, <2>5, <3>3, <4>1, <4>2 DEF LabTypeOK, FilesType, FileKinds
        <3>4. QED  BY <3>1, <3>2, <3>3
    <2>6. QED  BY <2>1, <2>2, <2>3, <2>4, <2>5 DEF Taken, Nodes, Follows, SharedKind, LabTypeOK
<1>7. CASE UNCHANGED labVars
    BY <1>7 DEF labVars, makeVars, shareVars, Taken, Stopped, Nodes, Follows, SharedKind
<1>8. QED  BY <1>1, <1>2, <1>3, <1>4, <1>5, <1>6, <1>7 DEF LabNext

LEMMA StepShared ==
    ASSUME LabTypeOK, Taken, Shared, [LabNext]_labVars
    PROVE  Shared'
<1>1. CASE Generate
    BY <1>1 DEF Generate, Shared, LabTypeOK
<1>2. CASE (\E d \in QuorumNodes \cup {GoQuorum} : ToolMakes(d)) \/ Download
           \/ Fail \/ WriteFile \/ Finish
    <2>1. making # "idle" /\ UNCHANGED <<published, since, up>>
        BY <1>2 DEF ToolMakes, Download, Fail, WriteFile, Finish, shareVars
    <2>2. QED  BY <2>1 DEF Shared
<1>3. CASE Start
    <2>1. /\ UNCHANGED <<lab, making, published, disk>> /\ making = "idle"
          /\ since' = IF since = "clean" THEN "started" ELSE since
          /\ up' = [n \in LabNodes |-> IF n \in Nodes THEN "boot" ELSE "down"]
        BY <1>3 DEF Start, makeVars
    <2>2. \A n \in Nodes' : up'[n] # "run"  BY <2>1 DEF Nodes, LabNodes
    <2>3. Offered' = Offered  BY <2>1 DEF Offered
    <2>4. QED  BY <2>1, <2>2, <2>3 DEF Shared
<1>4. CASE Clean
    <2>1. UNCHANGED <<lab, making, published, since, disk>>
          /\ up' = [n \in LabNodes |-> "down"]
        BY <1>4 DEF Clean, StopAll, makeVars, shareVars
    <2>2. \A n \in Nodes' : up'[n] # "run"  BY <2>1 DEF Nodes, LabNodes
    <2>3. Offered' = Offered  BY <2>1 DEF Offered
    <2>4. QED  BY <2>1, <2>2, <2>3 DEF Shared
<1>5. CASE CleanConfig
    BY <1>5 DEF CleanConfig, StopAll, Shared
<1>6. CASE Share
    <2>1. UNCHANGED <<lab, making, since, disk, has>> /\ up[Leader] = "share"
          /\ up' = [up EXCEPT ![Leader] = "run"]
          /\ published' = IF lab = "cometbft" THEN has[Leader].genesis ELSE has[Leader].key
        BY <1>6 DEF Share, makeVars
    <2>2. Leader \in Nodes /\ ~Follows(Leader) /\ Nodes \subseteq LabNodes
        BY LeaderLeads DEF LabTypeOK
    <2>3. published' = Offered
        BY <2>1, <2>2 DEF Taken, Offered
    <2>4. Offered' = Offered /\ SharedKind' = SharedKind /\ Nodes' = Nodes
          /\ \A n : Follows(n)' = Follows(n)
        BY <2>1 DEF Offered, SharedKind, Nodes, Follows
    <2>5. since # "clean"  BY <2>1, <2>2 DEF Shared
    <2>6. \A n \in Nodes : n # Leader => up'[n] = up[n]
        BY <2>1, <2>2 DEF LabTypeOK
    <2>7. QED  BY <2>1, <2>2, <2>3, <2>4, <2>5, <2>6 DEF Shared
<1>7. ASSUME NEW n \in Nodes, Boot(n)  PROVE Shared'
    <2>1. UNCHANGED <<lab, making, published, since, disk>> /\ up[n] = "boot"
          /\ has' = [has EXCEPT ![n] = disk[n]]
          /\ up' = [up EXCEPT ![n] = IF Waits(n) THEN "wait"
                                     ELSE IF n = Leader THEN "share" ELSE "run"]
        BY <1>7 DEF Boot, makeVars, shareVars
    <2>2. n \in LabNodes /\ Nodes \subseteq LabNodes  BY DEF Nodes, LabNodes
    <2>3. since # "clean"  BY <2>1, <2>2 DEF Shared
    <2>4. \A m \in Nodes : m # n => has'[m] = has[m] /\ up'[m] = up[m]
        BY <2>1, <2>2 DEF LabTypeOK
    <2>5. Follows(n) => up'[n] # "run"  BY <2>1, <2>2 DEF LabTypeOK, Waits
    <2>6. Offered' = Offered /\ SharedKind' = SharedKind /\ Nodes' = Nodes
          /\ \A m : Follows(m)' = Follows(m)
        BY <2>1 DEF Offered, SharedKind, Nodes, Follows
    <2>7. QED  BY <2>1, <2>3, <2>4, <2>5, <2>6 DEF Shared
<1>8. ASSUME NEW n \in Nodes, Proceed(n)  PROVE Shared'
    <2>1. UNCHANGED <<lab, making, published, since, disk>> /\ up[n] = "wait"
          /\ published # {} /\ up' = [up EXCEPT ![n] = "run"]
        BY <1>8 DEF Proceed, makeVars, shareVars
    <2>2. n \in LabNodes /\ Nodes \subseteq LabNodes  BY DEF Nodes, LabNodes
    <2>3. since # "clean"  BY <2>1, <2>2 DEF Shared
    <2>4. \A m \in Nodes : m # n => has'[m] = has[m] /\ up'[m] = up[m]
        BY <1>8, <2>1, <2>2 DEF LabTypeOK, Proceed, Follows
    <2>5. Follows(n) => has'[n][SharedKind] = published
        <3>1. CASE Follows(n) /\ n = FullNode
            <4>1. SharedKind = "genesis" /\ has' = [has EXCEPT ![n]["genesis"] = published]
                BY <1>8, <3>1, NodeKinds DEF SharedKind, Follows, Proceed
            <4>2. QED  BY <2>2, <4>1 DEF LabTypeOK, FilesType
        <3>2. CASE Follows(n) /\ n # FullNode
            <4>1. SharedKind = "contract" /\ n \in Members
                BY <3>2 DEF SharedKind, Follows
            <4>2. has' = [has EXCEPT ![n]["contract"] = published]
                BY <1>8, <3>2, <4>1 DEF Proceed
            <4>3. QED  BY <2>2, <4>1, <4>2 DEF LabTypeOK, FilesType
        <3>3. QED  BY <3>1, <3>2
    <2>6. Offered' = Offered /\ SharedKind' = SharedKind /\ Nodes' = Nodes
          /\ \A m : Follows(m)' = Follows(m)
        BY <2>1 DEF Offered, SharedKind, Nodes, Follows
    <2>7. QED  BY <2>1, <2>3, <2>4, <2>5, <2>6 DEF Shared
<1>9. CASE UNCHANGED labVars
    BY <1>9 DEF labVars, makeVars, shareVars, Shared, Nodes, Follows, SharedKind, Offered
<1>10. CASE ShareFails
    <2>1. /\ UNCHANGED <<lab, making, published, since, disk, has>>
          /\ up[Leader] = "share" /\ up' = [up EXCEPT ![Leader] = "run"]
        BY <1>10 DEF ShareFails, makeVars, shareVars
    <2>2. Leader \in Nodes /\ ~Follows(Leader) /\ Nodes \subseteq LabNodes
        BY LeaderLeads DEF LabTypeOK
    <2>3. Offered' = Offered /\ SharedKind' = SharedKind /\ Nodes' = Nodes
          /\ \A n : Follows(n)' = Follows(n)
        BY <2>1 DEF Offered, SharedKind, Nodes, Follows
    <2>4. since # "clean"  BY <2>1, <2>2 DEF Shared
    <2>5. \A n \in Nodes : n # Leader => up'[n] = up[n]
        BY <2>1, <2>2 DEF LabTypeOK
    <2>6. QED  BY <2>1, <2>2, <2>3, <2>4, <2>5 DEF Shared
<1>11. QED
    BY <1>1, <1>2, <1>3, <1>4, <1>5, <1>6, <1>7, <1>8, <1>9, <1>10 DEF LabNext

LEMMA SharedAgrees ==
    ASSUME LabTypeOK, Shared
    PROVE  FollowersAgree
<1> SUFFICES ASSUME since # "regenerated", NEW n \in Nodes, up[n] = "run", Follows(n)
             PROVE  IF lab = "cometbft" THEN has[n].genesis = disk[Leader].genesis
                                        ELSE has[n].contract = disk[Leader].key
    BY DEF FollowersAgree
<1>1. n \in LabNodes  BY DEF Nodes, LabNodes
<1>2. since = "started"  BY <1>1 DEF LabTypeOK, Shared
<1>3. has[n][SharedKind] = Offered  BY <1>2 DEF Shared
<1>4. QED  BY <1>3 DEF SharedKind, Offered

\* Whatever is started, stopped and cleaned in between, a node uses an old
\* genesis or contract only after keys were drawn anew without clean-config.
THEOREM SharedIsCurrent == LabSpec => []FollowersAgree
<1>1. LabTypeOK /\ Making /\ Taken /\ Shared /\ [LabNext]_labVars
          => LabTypeOK' /\ Making' /\ Taken' /\ Shared'
    BY StepType, StepTaken, StepShared
<1>2. LabTypeOK /\ Shared => FollowersAgree  BY SharedAgrees
<1>3. QED  BY InitType, InitTaken, <1>1, <1>2, PTL DEF LabSpec

-----------------------------------------------------------------------------
(* What the nodes of a lab that runs know of each other.                   *)

\* A node that runs has the files of the generation, but what it was shared.
LEMMA RunsOnGenerated ==
    ASSUME LabTypeOK, GeneratedIsWhole, Taken, NEW n \in Nodes, up[n] = "run"
    PROVE  /\ has[n]["peers"] = Generated(n, made)["peers"]
           /\ has[n]["sps"] = Generated(n, made)["sps"]
           /\ has[n]["key"] = {Identity(n, made)}
           /\ ~Follows(n) => has[n] = disk[n] /\ disk[n] = Generated(n, made)
<1>1. made # 0 /\ disk[n] = Generated(n, made)
    BY DEF Taken, Stopped, GeneratedIsWhole
<1>2. \A k \in FileKinds : (Follows(n) => k # SharedKind) => has[n][k] = disk[n][k]
    BY DEF Taken
<1>3. SharedKind \in {"genesis", "contract"}  BY DEF SharedKind
<1>4. n \in LabNodes  BY DEF Nodes, LabNodes
<1>5. ~Follows(n) => has[n] = disk[n]
    BY <1>2, <1>4 DEF LabTypeOK, FilesType, FileKinds
<1>6. QED  BY <1>1, <1>2, <1>3, <1>5, GeneratedKinds DEF FileKinds

LEMMA ConnectsWhole ==
    ASSUME LabTypeOK, GeneratedIsWhole, Taken
    PROVE  NodesConnect
<1> SUFFICES ASSUME NEW n \in Nodes, NEW m \in Nodes, n # m, up[n] = "run", up[m] = "run",
                    m \in Validators \/ lab = "quorum"
             PROVE  Reaches(n, m)
                    /\ (lab = "cometbft" /\ n \in Validators => ~Reaches(n, n))
    BY DEF NodesConnect
<1>1. has[m].key = {Identity(m, made)} /\ has[n].key = {Identity(n, made)}
    BY RunsOnGenerated
<1>2. has[n].peers = Generated(n, made)["peers"]  BY RunsOnGenerated
<1>3. CASE lab = "quorum"
    <2>1. has[n].peers = Enodes(QuorumNodes, made)  BY <1>2, <1>3, GeneratedKinds
    <2>2. m \in QuorumNodes  BY <1>3 DEF Nodes
    <2>3. m # FullNode  BY <2>2, NodeKinds DEF QuorumNodes
    <2>4. QuorumAddress(m) = BootAddress(m)  BY <2>3 DEF QuorumAddress, BootAddress
    <2>5. QuorumEntry(m, made) \in has[n].peers  BY <2>1, <2>2 DEF Enodes
    <2>6. Reaches(n, m)  BY <1>1, <2>4, <2>5 DEF Reaches, QuorumEntry
    <2>7. QED  BY <1>3, <2>6
<1>4. CASE lab = "cometbft"
    <2>1. has[n].peers = CometPeers(n, made)  BY <1>2, <1>4, GeneratedKinds
    <2>2. m \in Validators /\ m # FullNode /\ m[1] = "validator"
        BY <1>4, NodeKinds
    <2>3. CometAddress(m) = BootAddress(m)  BY <2>2 DEF CometAddress, BootAddress
    <2>4. Identity(m, made) # Identity(n, made)  BY DEF Identity
    <2>5. CometEntry(m, made) \in has[n].peers
        BY <2>1, <2>2, <2>4 DEF CometPeers, ValidatorPeers, CometEntry
    <2>6. Reaches(n, m)  BY <1>1, <2>3, <2>5 DEF Reaches, CometEntry
    <2>7. ASSUME n \in Validators  PROVE ~Reaches(n, n)
        <3>1. \A p \in has[n].peers : p.id # Identity(n, made)
            BY <2>1, <2>7 DEF CometPeers
        <3>2. QED  BY <1>1, <3>1 DEF Reaches
    <2>8. QED  BY <2>6, <2>7
<1>5. QED  BY <1>3, <1>4 DEF LabTypeOK

\* Nodes that run have the keys and addresses of those they need.
THEOREM NodesReachEachOther == LabSpec => []NodesConnect
<1>1. LabTypeOK /\ Making /\ Progress /\ GeneratedIsWhole /\ Taken /\ [LabNext]_labVars
          => LabTypeOK' /\ Making' /\ Progress' /\ GeneratedIsWhole' /\ Taken'
    BY StepType, StepProgress, StepTaken
<1>2. LabTypeOK /\ GeneratedIsWhole /\ Taken => NodesConnect  BY ConnectsWhole
<1>3. QED  BY InitType, InitProgress, InitTaken, <1>1, <1>2, PTL DEF LabSpec

=============================================================================
