------------------------------- MODULE Ledger -------------------------------
(***************************************************************************)
(* The voting state machine of one sps-node: the Ledger behind its lock,   *)
(* driven by deliver_tx (main.rs) and by /config/dedup (api.rs).  Both     *)
(* hold the write lock for the whole call, so each is one step.            *)
(***************************************************************************)
EXTENDS VoteTally

CONSTANT MaxTxs     \* bound on the transactions delivered

ASSUME LedgerAssumption == MaxTxs \in Nat

VARIABLES
    ledger,         \* status_map
    dedupDisabled,  \* Ledger::dedup_disabled
    committedTxs,   \* Ledger::committed_txs
    announced       \* the state of the last ActionEvent sent on action_tx,
                    \* {} while none was sent

vars == <<ledger, dedupDisabled, committedTxs, announced>>

Init ==
    /\ ledger = InitLedger
    /\ dedupDisabled \in BOOLEAN
    /\ committedTxs = 0
    /\ announced = {}

\* deliver_tx of a transaction that decodes.  One that does not decode gets
\* code 1 and changes nothing.
DeliverTx(a, ballot) ==
    /\ committedTxs < MaxTxs
    /\ ledger' = ProposeNewValues(ledger, a, ballot, dedupDisabled)
    /\ announced' = IF EmitsAction(ledger, ledger') THEN Raised(ledger')
                                                    ELSE announced
    /\ committedTxs' = committedTxs + 1
    /\ UNCHANGED dedupDisabled

\* POST /config/dedup?enabled=...
SetDedup(disabled) ==
    /\ dedupDisabled' = disabled
    /\ UNCHANGED <<ledger, committedTxs, announced>>

Next ==
    \/ \E a \in Agent, ballot \in Ballot : DeliverTx(a, ballot)
    \/ \E disabled \in BOOLEAN : SetDedup(disabled)

Spec == Init /\ [][Next]_vars

-----------------------------------------------------------------------------
(* Every variable has its type.                                            *)
TypeOK ==
    /\ ledger \in LedgerType
    /\ dedupDisabled \in BOOLEAN
    /\ committedTxs \in 0..MaxTxs
    /\ announced \in SUBSET Param

\* vote_count is kept by increments and guarded decrements only.  It must
\* agree, for every parameter and value, with the votes in agent_proposed:
\* no path (first vote, changed vote, repeated vote with or without
\* deduplication) counts an agent twice or forgets one.
TallyMatchesVotes == \A p \in Param : Tallied(ledger[p])

\* The confirmed value is checked only when a vote arrives.  As long as no
\* more than agents_count agents vote, that is enough: a value held by a
\* majority is the confirmed one, for whatever history of changed votes and
\* deduplication switches.
MajorityIsConfirmed ==
    Cardinality(Agent) <= AgentsCount => \A p \in Param : Settled(ledger[p])

\* A confirmed value changes only to a value that a majority of agents hold
\* at that very moment, counted from the votes: no stale or double vote ever
\* tips a parameter, and a vote on one parameter never moves another.
OnlyMajorityConfirms ==
    [][\A p \in Param : ledger'[p].current # ledger[p].current =>
            HasMajority(ledger'[p].proposed, ledger'[p].current)]_vars

\* The actuator learns the state only from ActionEvents, which are sent on
\* changes.  While any attack is confirmed, the last event sent describes
\* exactly the attacks confirmed now.
AttackStateAnnounced ==
    Raised(ledger) # {} => announced = Raised(ledger)

-----------------------------------------------------------------------------
(* The ledger implements the abstract vote, deduplication or not, when no  *)
(* more than agents_count agents vote: the incremental count, the skipped  *)
(* repeated votes and the per-node deduplication switch are invisible.     *)
Majority == INSTANCE MajorityVote
            WITH vote    <- [p \in Param |-> ledger[p].proposed],
                 decided <- [p \in Param |-> ledger[p].current]

\* Every step of the ledger is a Cast of the abstract vote or a stutter.
ImplementsMajorityVote == Majority!Spec
=============================================================================
