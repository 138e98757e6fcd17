------------------------------ MODULE LabSetup ------------------------------
(***************************************************************************)
(* The life of a lab on its host: the makefile's setup (generate-config,   *)
(* then start), clean and clean-config, the generators and, for the        *)
(* Quorum lab, the genesis tool they wait for, and the startup scripts of  *)
(* the nodes up to the point where the node runs.                          *)
(*                                                                         *)
(* The user runs start only after a generation that succeeded: setup stops *)
(* at the first target that fails.  A generation may fail, or be           *)
(* interrupted, between any two files.                                     *)
(***************************************************************************)
EXTENDS LabConfig

CONSTANT MaxRuns     \* bound on the runs of a generator

ASSUME LabSetupAssumption == MaxRuns \in Nat

VARIABLES
    lab,         \* LAB_TYPE
    run,         \* the number of generations begun
    making,      \* what generate-config does: "idle", "tool" or "write"
    tool,        \* Quorum: what quorum-genesis-tool has made by now
    todo,        \* the nodes whose files are not all written yet
    part,        \* the place in FileOrder of the file to write next
    made,        \* the generation that succeeded last, 0 if the last one did not
    disk,        \* the files of each node on the host
    published,   \* what validator0 shared: its genesis, or its contract
    since,       \* history: what was done since the last clean-config
    up,          \* how far the startup script of each node is
    has          \* the files each running node has taken

makeVars  == <<lab, run, making, tool, todo, part, made>>
shareVars == <<published, since>>
labVars   == <<makeVars, disk, shareVars, up, has>>

LabNodes == CometNodes \cup QuorumNodes

Nodes == IF lab = "cometbft" THEN CometNodes ELSE QuorumNodes

\* The tool writes goQuorum, with genesis.json and permissioned-nodes.json,
\* beside the directories of the nodes.
GoQuorum == <<"goQuorum", 0>>

\* The files of a node, and the order a generator writes them in.  A file is
\* the set of what it lists, empty while it does not exist.
FileKinds == {"sps", "peers", "genesis", "key", "contract"}

FileOrder == IF lab = "cometbft" THEN <<"sps", "peers", "genesis", "key">>
                                 ELSE <<"peers", "genesis", "key", "contract">>

NoFiles == [k \in FileKinds |-> {}]

LabInit ==
    /\ lab \in {"cometbft", "quorum"}
    /\ run = 0 /\ making = "idle" /\ tool = {} /\ todo = {} /\ part = 1 /\ made = 0
    /\ disk = [n \in LabNodes |-> NoFiles]
    /\ published = {} /\ since = "clean"
    /\ up = [n \in LabNodes |-> "down"]
    /\ has = [n \in LabNodes |-> NoFiles]

Stopped == \A n \in Nodes : up[n] = "down"

-----------------------------------------------------------------------------
(* generate-config.                                                        *)

\* Mutant: the last generation still counts while another is under way.
Generate_KeepsMade ==
    /\ making = "idle" /\ Stopped /\ run < MaxRuns
    /\ run' = run + 1
    /\ IF lab = "cometbft" THEN making' = "write" /\ todo' = CometNodes
                           ELSE making' = "tool"  /\ todo' = {}
    /\ tool' = {}
    /\ part' = 1
    /\ since' = IF since = "started" THEN "regenerated" ELSE since
    /\ UNCHANGED <<lab, made, disk, published, up, has>>

\* A generator starts: a new set of keys is drawn.  The directory that is
\* shared by the containers is kept as it is.
Generate ==
    /\ making = "idle" /\ Stopped /\ run < MaxRuns
    /\ run' = run + 1
    /\ made' = 0
    /\ IF lab = "cometbft" THEN making' = "write" /\ todo' = CometNodes
                           ELSE making' = "tool"  /\ todo' = {}
    /\ tool' = {}
    /\ part' = 1
    /\ since' = IF since = "started" THEN "regenerated" ELSE since
    /\ UNCHANGED <<lab, disk, published, up, has>>

\* quorum-genesis-tool (external) makes one directory after another.
ToolMakes(d) ==
    /\ making = "tool" /\ d \notin tool
    /\ tool' = tool \cup {d}
    /\ UNCHANGED <<lab, run, making, todo, part, made, disk, shareVars, up, has>>

\* The probe finds as many directories as there are nodes, and goQuorum: the
\* archive is downloaded, and its directories are the nodes to configure.
Download ==
    /\ making = "tool" /\ GoQuorum \in tool
    /\ Cardinality(tool \ {GoQuorum}) >= NumValidators + NumMembers
    /\ making' = "write"
    /\ todo' = tool \ {GoQuorum}
    /\ UNCHANGED <<lab, run, tool, part, made, disk, shareVars, up, has>>

\* The tool is too slow, a step raises, or the user interrupts: make stops.
Fail ==
    /\ making # "idle"
    /\ making' = "idle"
    /\ todo' = {}
    /\ UNCHANGED <<lab, run, tool, part, made, disk, shareVars, up, has>>

\* The order of the nodes: validators first, each kind by its index.
Position(n) == IF lab = "cometbft" THEN CometAddress(n) ELSE QuorumAddress(n)

FirstOf(S) == CHOOSE n \in S : \A m \in S : Position(n) <= Position(m)

\* What a generation r writes into file k of node n: in sps_config.toml whose
\* votes it sends; in config.toml, or static-nodes.json, whom it connects to;
\* the validators; its keys.  The nodes of the Quorum lab get a copy of the
\* contract's template, which names no agents.
FileOf(k, n, r) ==
    CASE k = "sps"      -> {SpsConfig(n, r)}
      [] k = "peers"    -> IF lab = "cometbft" THEN CometPeers(n, r)
                                               ELSE Enodes(tool \ {GoQuorum}, r)
      [] k = "genesis"  -> CometGenesis(r)
      [] k = "key"      -> {Identity(n, r)}
      [] k = "contract" -> {}

\* Mutant: the files of a node that has a key already are kept.
WriteFile_KeepsOld ==
    LET n == FirstOf(todo)
        k == FileOrder[part]
    IN /\ making = "write" /\ todo # {}
       /\ disk' = IF disk[n]["key"] = {} THEN [disk EXCEPT ![n][k] = FileOf(k, n, run)]
                                         ELSE disk
       /\ part' = IF part = 4 THEN 1 ELSE part + 1
       /\ todo' = IF part = 4 THEN todo \ {n} ELSE todo
       /\ UNCHANGED <<lab, run, making, tool, made, shareVars, up, has>>

\* The next file of the node in turn is written over the old one.
WriteFile ==
    LET n == FirstOf(todo)
        k == FileOrder[part]
    IN /\ making = "write" /\ todo # {}
       /\ disk' = [disk EXCEPT ![n][k] = FileOf(k, n, run)]
       /\ part' = IF part = 4 THEN 1 ELSE part + 1
       /\ todo' = IF part = 4 THEN todo \ {n} ELSE todo
       /\ UNCHANGED <<lab, run, making, tool, made, shareVars, up, has>>

\* Every node is written; validator0's contract is given its agents.
Finish ==
    /\ making = "write" /\ todo = {}
    /\ making' = "idle"
    /\ made' = run
    /\ disk' = IF lab = "cometbft" THEN disk
               ELSE [disk EXCEPT ![Leader]["contract"] = ContractAgents(tool, run)]
    /\ UNCHANGED <<lab, run, tool, todo, part, shareVars, up, has>>

-----------------------------------------------------------------------------
(* start, clean and clean-config.                                          *)

Start ==
    /\ making = "idle" /\ made # 0 /\ Stopped
    /\ up' = [n \in LabNodes |-> IF n \in Nodes THEN "boot" ELSE "down"]
    /\ since' = IF since = "clean" THEN "started" ELSE since
    /\ UNCHANGED <<makeVars, disk, published, has>>

StopAll ==
    /\ up' = [n \in LabNodes |-> "down"]
    /\ has' = [n \in LabNodes |-> NoFiles]

\* The containers and what is in them are gone; the host's files are not.
Clean ==
    /\ ~Stopped
    /\ StopAll
    /\ UNCHANGED <<makeVars, disk, shareVars>>

\* Mutant: what validator0 shared is not removed.
CleanConfig_KeepsShared ==
    /\ making = "idle" /\ run > 0
    /\ StopAll
    /\ disk' = [n \in LabNodes |-> NoFiles]
    /\ made' = 0
    /\ since' = "clean"
    /\ UNCHANGED <<lab, run, making, tool, todo, part, published>>

CleanConfig ==
    /\ making = "idle" /\ run > 0
    /\ StopAll
    /\ disk' = [n \in LabNodes |-> NoFiles]
    /\ made' = 0
    /\ published' = {} /\ since' = "clean"
    /\ UNCHANGED <<lab, run, making, tool, todo, part>>

-----------------------------------------------------------------------------
(* The startup scripts.                                                    *)

\* Who uses what validator0 shares: fullnode0 its genesis, and the members of
\* the Quorum lab the address of its contract.
Follows(n) == IF lab = "cometbft" THEN n = FullNode ELSE n \in Members

\* Mutant: validator0 waits for itself.
Waits_All(n) == n \in Validators \/ Follows(n)

\* Who waits for it.
Waits(n) == \/ lab = "cometbft" /\ n \in Validators \ {Leader}
            \/ Follows(n)

\* The node copies its own files, which do not change while the lab is up: it
\* does not matter that fullnode0 waits first.
Boot(n) ==
    /\ up[n] = "boot"
    /\ has' = [has EXCEPT ![n] = disk[n]]
    /\ up' = [up EXCEPT ![n] = IF Waits(n) THEN "wait"
                               ELSE IF n = Leader THEN "share" ELSE "run"]
    /\ UNCHANGED <<makeVars, disk, shareVars>>

\* validator0 shares the genesis it copied, or deploys the contract with its
\* own account, which makes the address of the contract, and shares that.
Share ==
    /\ up[Leader] = "share"
    /\ published' = IF lab = "cometbft" THEN has[Leader].genesis ELSE has[Leader].key
    /\ up' = [up EXCEPT ![Leader] = "run"]
    /\ UNCHANGED <<makeVars, disk, since, has>>

\* The deployment fails, which is only printed, and there is nothing to copy.
ShareFails ==
    /\ lab = "quorum" /\ up[Leader] = "share"
    /\ up' = [up EXCEPT ![Leader] = "run"]
    /\ UNCHANGED <<makeVars, disk, shareVars, has>>

\* A node that waits finds something shared.
Proceed(n) ==
    /\ up[n] = "wait" /\ published # {}
    /\ has' = CASE ~Follows(n)       -> has
                [] n = FullNode      -> [has EXCEPT ![n]["genesis"] = published]
                [] n \in Members     -> [has EXCEPT ![n]["contract"] = published]
    /\ up' = [up EXCEPT ![n] = "run"]
    /\ UNCHANGED <<makeVars, disk, shareVars>>

-----------------------------------------------------------------------------
Scripts == Share \/ ShareFails \/ \E n \in Nodes : Boot(n) \/ Proceed(n)

LabNext ==
    \/ Generate
    \/ \E d \in QuorumNodes \cup {GoQuorum} : ToolMakes(d)
    \/ Download
    \/ Fail
    \/ WriteFile
    \/ Finish
    \/ Start
    \/ Clean
    \/ CleanConfig
    \/ Share
    \/ ShareFails
    \/ \E n \in Nodes : Boot(n)
    \/ \E n \in Nodes : Proceed(n)

\* Containers go on booting; nobody has to type a command.
LabFairness == WF_labVars(Scripts)

LabSpec == LabInit /\ [][LabNext]_labVars /\ LabFairness

-----------------------------------------------------------------------------
Ids == {Identity(n, r) : n \in LabNodes, r \in 0..MaxRuns}

FilesType == [sps      : SUBSET [id : Ids, role : {"validator", "agent", "fullnode"},
                                 actuator : BOOLEAN],
              peers    : SUBSET [id : Ids, ip : 1..25],
              genesis  : SUBSET Ids,
              key      : SUBSET Ids,
              contract : SUBSET Ids]

\* Every variable has its type.
LabTypeOK ==
    /\ lab \in {"cometbft", "quorum"}
    /\ run \in 0..MaxRuns /\ made \in {0, run}
    /\ making \in {"idle", "tool", "write"}
    /\ tool \subseteq QuorumNodes \cup {GoQuorum}
    /\ todo \subseteq Nodes
    /\ part \in 1..4
    /\ disk \in [LabNodes -> FilesType]
    /\ published \subseteq Ids
    /\ since \in {"clean", "started", "regenerated"}
    /\ up \in [LabNodes -> {"down", "boot", "wait", "share", "run"}]
    /\ has \in [LabNodes -> FilesType]

\* The files of a generation, every one of them.
Generated(n, r) ==
    [k \in FileKinds |->
        CASE k = "contract" /\ n = Leader /\ lab = "quorum" -> ContractAgents(QuorumNodes, r)
          [] k = "sps" /\ lab = "quorum" -> {}
          [] k = "peers" /\ lab = "quorum" -> Enodes(QuorumNodes, r)
          [] OTHER -> FileOf(k, n, r)]

\* After a generation that succeeded, whatever failed before, no node has a
\* file of another one or lacks one, however slow the genesis tool was.
GeneratedIsWhole == made # 0 => \A n \in Nodes : disk[n] = Generated(n, made)

\* Unless keys were generated anew after a start without clean-config, a node
\* that runs uses the chain of the validator0 that runs, or the address that
\* validator0's deployment gives the contract.
FollowersAgree ==
    since # "regenerated" => \A n \in Nodes :
        (up[n] = "run" /\ Follows(n)) =>
            IF lab = "cometbft" THEN has[n].genesis = disk[Leader].genesis
                                ELSE has[n].contract = disk[Leader].key

Reaches(n, m) == \E p \in has[n].peers : has[m].key = {p.id} /\ p.ip = BootAddress(m)

\* Nodes that run know each other: validators one another but not themselves,
\* and every other node all the validators, by the key and the address they
\* really have; in the Quorum lab each node knows each.
NodesConnect ==
    \A n, m \in Nodes :
        (n # m /\ up[n] = "run" /\ up[m] = "run" /\ (m \in Validators \/ lab = "quorum"))
            => Reaches(n, m) /\ (lab = "cometbft" /\ n \in Validators => ~Reaches(n, n))

\* Members wait for a contract that was never deployed.
NothingToShare == lab = "quorum" /\ up[Leader] = "run" /\ published = {}

\* A lab that is started runs as a whole in the end, unless it is stopped or
\* its first contract cannot be deployed: no node waits forever for another.
AllStart ==
    []<>(Stopped \/ (\A n \in Nodes : up[n] = "run") \/ NothingToShare)
=============================================================================
