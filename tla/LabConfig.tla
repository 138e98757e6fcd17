----------------------------- MODULE LabConfig -----------------------------
(***************************************************************************)
(* What the two generators write for each node of a lab, as operators on   *)
(* values: generate_cometbft_config.py and generate_blockchain_config.py.  *)
(*                                                                         *)
(* A node is its kind and its index, an address the last byte of one in    *)
(* 10.99.0.0/24, and an identity the node and the run of the generator     *)
(* that drew its keys.                                                     *)
(***************************************************************************)
EXTENDS Integers, FiniteSets

CONSTANTS
    NumValidators,    \* validators of either lab (3)
    NumLights,        \* AGENTS: light nodes of the CometBFT lab (3)
    NumMembers,       \* members of the Quorum lab (4)
    GroupSize         \* the members configure_leader makes agents (3)

\* The addresses of validators end at 10, those of light nodes at 13; there are
\* startup scripts for four members.
ASSUME LabConfigAssumption ==
    /\ NumValidators \in 1..10
    /\ NumLights \in 1..3
    /\ NumMembers \in 1..4
    /\ GroupSize \in Nat

Numbered(kind, n) == {<<kind, i>> : i \in 0..(n - 1)}

Validators == Numbered("validator", NumValidators)
Leader     == <<"validator", 0>>
Members    == Numbered("member", NumMembers)

\* VALIDATORS, AGENTS and FULLNODE.
FullNode   == <<"fullnode", 0>>
Lights     == Numbered("light", NumLights)
CometNodes == Validators \cup Lights \cup {FullNode}

\* The directories quorum-genesis-tool makes.
QuorumNodes == Validators \cup Members

-----------------------------------------------------------------------------
(* Identities and addresses.                                               *)

\* generate_ed25519_identity draws a fresh key: no two identities are equal.
Identity(n, run) == <<n, run>>

CometAddress(n) ==
    CASE n[1] = "validator" -> n[2] + 1
      [] n[1] = "light"     -> n[2] + 11
      [] n[1] = "fullnode"  -> 14

QuorumAddress(n) == n[2] + (IF n[1] = "validator" THEN 1 ELSE 11)

\* The address a container takes when it boots (external: *.startup).  That
\* of fullnode0 is not the one the generator and README.md give it.
BootAddress(n) == IF n = FullNode THEN 21 ELSE n[2] + (IF n[1] = "validator" THEN 1 ELSE 11)

-----------------------------------------------------------------------------
(* generate_all.                                                           *)

CometEntry(n, run) == [id |-> Identity(n, run), ip |-> CometAddress(n)]

ValidatorPeers(run) == {CometEntry(v, run) : v \in Validators}

\* Mutant: validators are given all peers, themselves included.
CometPeers_Self(n, run) == ValidatorPeers(run) \cup {CometEntry(FullNode, run)}

\* A validator is given the other validators; any other node all of them and
\* fullnode0, itself included if it is fullnode0.
CometPeers(n, run) ==
    IF n \in Validators
    THEN {p \in ValidatorPeers(run) : p.id # Identity(n, run)}
    ELSE ValidatorPeers(run) \cup {CometEntry(FullNode, run)}

\* build_sps_config: only fullnode0 is given the URL of the actuator.  Votes
\* carry the id of the node.
SpsConfig(n, run) ==
    [id       |-> Identity(n, run),
     role     |-> IF n \in Validators THEN "validator"
                  ELSE IF n \in Lights THEN "agent" ELSE "fullnode",
     actuator |-> n = FullNode]

CometGenesis(run) == {Identity(v, run) : v \in Validators}

-----------------------------------------------------------------------------
(* generate_config.                                                        *)

\* The entry of permissioned-nodes.json with the node's key, <HOST> replaced.
QuorumEntry(n, run) == [id |-> Identity(n, run), ip |-> QuorumAddress(n)]

\* The nodes of the archive: one list for all of them, a full mesh.
Enodes(nodes, run) == {QuorumEntry(n, run) : n \in nodes}

\* configure_leader: #AGENTS becomes the accounts of the first three members,
\* a number of its own beside the one the contract counts against.
GroupOf(nodes) ==
    {m \in nodes \cap Members :
        Cardinality({k \in nodes \cap Members : k[2] < m[2]}) < GroupSize}

ContractAgents(nodes, run) == {Identity(m, run) : m \in GroupOf(nodes)}
=============================================================================
