------------------------------ MODULE Replicas ------------------------------
(***************************************************************************)
(* The sps-nodes of a CometBFT chain as replicas of one ledger.  CometBFT  *)
(* (external) orders the transactions; every sps-node applies them in that *)
(* order, each under its own deduplication switch.                         *)
(*                                                                         *)
(* On the validators a supervisor relaunches CometBFT when it exits.  Its  *)
(* stores are in memory (db_backend = "memdb"), sps-node reports height 0  *)
(* and init_chain clears nothing: the relaunched CometBFT delivers the     *)
(* whole chain again, on top of the ledger the process still holds.        *)
(***************************************************************************)
EXTENDS VoteTally, Sequences

CONSTANTS
    Node,         \* the sps-nodes
    Supervised,   \* those whose CometBFT is relaunched: the validators
    MaxChain,     \* bound on the length of the chain
    MaxRestarts   \* bound on the relaunches of one node's CometBFT

ASSUME ReplicasAssumption ==
    /\ Supervised \subseteq Node
    /\ MaxChain \in Nat
    /\ MaxRestarts \in Nat

VARIABLES
    chain,           \* the transactions in the order CometBFT decided
    ledgers,         \* ledgers[n]: status_map of node n
    switch,          \* switch[n]: Ledger::dedup_disabled of node n
    applied,         \* applied[n]: transactions delivered since CometBFT started
    restarts         \* restarts[n]: relaunches of n's CometBFT so far

replicasVars == <<chain, ledgers, switch, applied, restarts>>

Tx == [agent : Agent, ballot : Ballot]

ReplicasInit ==
    /\ chain = <<>>
    /\ ledgers = [n \in Node |-> InitLedger]
    /\ switch = [n \in Node |-> FALSE]
    /\ applied = [n \in Node |-> 0]
    /\ restarts = [n \in Node |-> 0]

\* External: a transaction is committed in the next block.
Order(tx) ==
    /\ Len(chain) < MaxChain
    /\ chain' = Append(chain, tx)
    /\ UNCHANGED <<ledgers, switch, applied, restarts>>

\* The application is handed the next transaction of the chain.
DeliverNext(n) ==
    /\ applied[n] < Len(chain)
    /\ LET tx == chain[applied[n] + 1]
       IN  ledgers' = [ledgers EXCEPT ![n] =
                           ProposeNewValues(@, tx.agent, tx.ballot, switch[n])]
    /\ applied' = [applied EXCEPT ![n] = @ + 1]
    /\ UNCHANGED <<chain, switch, restarts>>

\* POST /config/dedup reaches one node at a time.
SetSwitch(n, disabled) ==
    /\ switch' = [switch EXCEPT ![n] = disabled]
    /\ UNCHANGED <<chain, ledgers, applied, restarts>>

\* Mutant: init_chain resets the confirmed values but keeps the votes.
RestartComet_KeepsVotesOnly(n) ==
    /\ n \in Supervised
    /\ restarts[n] < MaxRestarts
    /\ restarts' = [restarts EXCEPT ![n] = @ + 1]
    /\ applied' = [applied EXCEPT ![n] = 0]
    /\ ledgers' = [ledgers EXCEPT ![n] =
                       [p \in Param |-> [@[p] EXCEPT !.current = 0]]]
    /\ UNCHANGED <<chain, switch>>

\* CometBFT exits and the supervisor relaunches it: info() answers height 0,
\* so delivery starts again from the first block; the ledger is kept.
RestartComet(n) ==
    /\ n \in Supervised
    /\ restarts[n] < MaxRestarts
    /\ restarts' = [restarts EXCEPT ![n] = @ + 1]
    /\ applied' = [applied EXCEPT ![n] = 0]
    /\ UNCHANGED <<chain, ledgers, switch>>

ReplicasNext ==
    \/ \E tx \in Tx : Order(tx)
    \/ \E n \in Node : DeliverNext(n)
    \/ \E n \in Node, disabled \in BOOLEAN : SetSwitch(n, disabled)
    \/ \E n \in Node : RestartComet(n)

ReplicasSpec == ReplicasInit /\ [][ReplicasNext]_replicasVars

-----------------------------------------------------------------------------
(* Every variable has its type.                                            *)
ReplicasTypeOK ==
    /\ chain \in Seq(Tx)
    /\ Len(chain) <= MaxChain
    /\ ledgers \in [Node -> LedgerType]
    /\ switch \in [Node -> BOOLEAN]
    /\ applied \in [Node -> 0..MaxChain]
    /\ \A n \in Node : applied[n] <= Len(chain)
    /\ restarts \in [Node -> 0..MaxRestarts]

CaughtUp(n) == applied[n] = Len(chain)

\* "dedup va impostata su tutti per evitare split-brain" (benchmark_capacity.py:53,
\* blockchain_benchmark.py:106).  Need not: as long as no more than agents_count
\* agents vote, nodes that never started over and have applied the same number
\* of transactions hold the same ledger, whatever their switches were set to on
\* the way.  Only with more voters the comments are right.
SwitchesDoNotSplit ==
    Cardinality(Agent) <= AgentsCount =>
        \A n, m \in Node :
            (restarts[n] = 0 /\ restarts[m] = 0 /\ applied[n] = applied[m])
                => ledgers[n] = ledgers[m]

\* Nodes that applied the whole chain agree on every vote and every count,
\* however often some of them applied it: votes are stored, not added up.
ReplayKeepsVotes ==
    \A n, m \in Node : (CaughtUp(n) /\ CaughtUp(m)) =>
        \A p \in Param :
            /\ ledgers[n][p].proposed = ledgers[m][p].proposed
            /\ ledgers[n][p].count    = ledgers[m][p].count

\* They also agree on the confirmed value of every parameter on which the
\* final votes have a majority.
ReplayKeepsMajorities ==
    Cardinality(Agent) <= AgentsCount =>
        \A n, m \in Node : (CaughtUp(n) /\ CaughtUp(m)) =>
            \A p \in Param :
                (\E v \in Value : HasMajority(ledgers[n][p].proposed, v))
                    => ledgers[n][p].current = ledgers[m][p].current

\* "The supervisor relaunches it automatically so consensus resumes without
\* manual intervention" (validator0.startup): once the relaunched node has
\* applied the whole chain, its state is that of every other node.  It is not:
\* where the final votes have no majority, the replay may pass through a
\* majority that never existed, and end with another confirmed value.
RelaunchResumesConsensus ==
    \A n, m \in Node :
        (CaughtUp(n) /\ CaughtUp(m)) => ledgers[n] = ledgers[m]
=============================================================================
