------------------------------ MODULE SpsNode ------------------------------
(***************************************************************************)
(* A light node of the CometBFT lab, from the HTTP alert to the ledger:    *)
(*                                                                         *)
(*   handle_alert, handle_stress (api.rs)   concurrent handlers, one a     *)
(*       request: filter under the stats lock, then, lock released, send   *)
(*       on the bounded tx queue (an await), then count                    *)
(*   the queue worker and its tasks (main.rs)   one worker takes votes,    *)
(*       picks the next validator in turn and waits for a permit; the task *)
(*       it spawns submits that vote until a submission is answered        *)
(*   CometBFT (external)   mempools with a cache of known transactions,    *)
(*       gossip, blocks; validators exit and are relaunched                *)
(*   deliver_tx (main.rs)   the ledger of VoteTally                        *)
(*                                                                         *)
(* Every request is an element of Request and is used at most once; what   *)
(* it carries is chosen when its handler runs.                             *)
(***************************************************************************)
EXTENDS VoteTally, Sequences

CONSTANTS
    Request,       \* the HTTP requests of a behaviour
    Batch,         \* what a POST /alert may carry, see BatchType
    StressBallot,  \* what a POST /stress may ask to vote
    NodeAgent,     \* the agent id of /stress votes: a hash of the node's id
    Validator,     \* the RPC targets, and the validators of the chain
    NoVotes,       \* this request made no vote; no vote is in the worker's hand
    QueueCap,      \* capacity of the tx queue (100 000)
    Permits,       \* permits of the semaphore (200)
    MaxGone,       \* bound on clients that give up waiting for the queue
    MaxLost,       \* bound on submissions that arrive but are not answered
    MaxCrashes     \* bound on the exits of validators

\* A parsed POST body: who sent it, whether it holds SAFE_ENVIRONMENT, the
\* sum of the values of each attack type in it, and the number of alerts.
BatchType == [agent : Agent, safe : BOOLEAN, sums : Ballot, size : Nat \ {0}]

ASSUME SpsNodeAssumption ==
    /\ Batch \subseteq BatchType
    /\ StressBallot \subseteq {b \in Ballot : Cardinality(DOMAIN b) <= 1}
    /\ NodeAgent \in Agent
    /\ IsFiniteSet(Validator) /\ Validator # {}
    /\ QueueCap \in Nat \ {0}
    /\ Permits \in Nat \ {0}
    /\ MaxGone \in Nat /\ MaxLost \in Nat
    /\ MaxCrashes \in Nat

VARIABLES
    pc,             \* progress of each request's handler
    vote,           \* the vote each request made, see Votes
    seq,            \* ApiState::seq, the next transaction id
    seen,           \* LocalStats::seen_types
    received,       \* LocalStats::received
    processed,      \* LocalStats::processed
    dedupDisabled,  \* Ledger::dedup_disabled
    step,           \* history: SAFE_ENVIRONMENT batches handled, by agent
    queue,          \* the mpsc tx queue
    hand,           \* the vote the worker holds while it waits for a permit
    turn,           \* rr: the target of the next vote
    tasks,          \* spawned submissions: the request and its target
    lost,           \* submissions whose answer was lost so far
    up,             \* validators running
    crashes,        \* exits of validators so far
    mempool,        \* pending transactions of each validator
    cache,          \* transactions each validator knows
    wiped,          \* history: transactions that vanished with a mempool
    committed,      \* transactions delivered to the ledger
    ledger          \* status_map of this node

apiVars   == <<pc, vote, seq, seen, received, processed, step>>
workVars  == <<queue, hand, turn, tasks, lost>>
cometVars == <<up, crashes, mempool, cache, wiped>>
chainVars == <<committed, ledger>>
vars == <<apiVars, dedupDisabled, workVars, cometVars, chainVars>>

-----------------------------------------------------------------------------
\* The transaction's bytes.  The timestamp is left out: two votes made in the
\* same millisecond differ in their id alone.
VoteTx == [id : Nat, agent : Agent, ballot : Ballot]

\* A vote as a request made it.  Its kind is how it passed the filter, and
\* its step the number of resets of the agent at that moment (history).
Votes == [tx : VoteTx, step : Nat,
          kind : {"alert", "safe", "unfiltered", "stress"}]

\* NoVotes is a mark, and neither a vote nor what the worker may hold.
ASSUME NoVotesAssumption ==
    NoVotes \notin Votes \cup [req : Request, target : Validator]

Target == CHOOSE order \in [0..(Cardinality(Validator) - 1) -> Validator] :
              \A v \in Validator : \E i \in DOMAIN order : order[i] = v

Init ==
    /\ pc = [r \in Request |-> "new"]
    /\ vote = [r \in Request |-> NoVotes]
    /\ seq = 0
    /\ seen = [a \in Agent |-> {}]
    /\ received = 0 /\ processed = 0
    /\ dedupDisabled = FALSE
    /\ step = [a \in Agent |-> 0]
    /\ queue = <<>> /\ hand = NoVotes /\ turn = 0 /\ tasks = {} /\ lost = 0
    /\ up = Validator /\ crashes = 0
    /\ mempool = [v \in Validator |-> {}]
    /\ cache = [v \in Validator |-> {}]
    /\ wiped = {}
    /\ committed = {}
    /\ ledger = InitLedger

-----------------------------------------------------------------------------
(* The HTTP handlers.                                                      *)

AllSafe == [p \in Param |-> 0]

OnlyOn(ballot, mask) == [p \in mask |-> ballot[p]]

\* Mutant: the id does not advance.
NextSeq_Stuck == seq

NextSeq == seq + 1

\* The handler goes on to send this vote, with a fresh id.
MakeVote(r, agent, ballot, kind, atStep) ==
    /\ vote' = [vote EXCEPT ![r] =
                   [tx |-> [id |-> seq, agent |-> agent, ballot |-> ballot],
                    kind |-> kind, step |-> atStep]]
    /\ pc' = [pc EXCEPT ![r] = "send"]
    /\ seq' = NextSeq

\* A body without alerts of a known type is answered at once.
IgnoreBatch(r) ==
    /\ pc' = [pc EXCEPT ![r] = "dropped"]
    /\ UNCHANGED <<vote, seq, seen, received, processed, step>>

\* SAFE_ENVIRONMENT votes 0 on every parameter and clears the agent's cache.
ResetBatch(r, b) ==
    /\ b.safe
    /\ MakeVote(r, b.agent, AllSafe, "safe", step[b.agent] + 1)
    /\ seen' = [seen EXCEPT ![b.agent] = {}]
    /\ step' = [step EXCEPT ![b.agent] = @ + 1]
    /\ received' = received + b.size
    /\ UNCHANGED processed

\* With deduplication disabled the whole batch goes on, and is not remembered.
UnfilteredBatch(r, b) ==
    /\ ~b.safe /\ dedupDisabled
    /\ MakeVote(r, b.agent, b.sums, "unfiltered", step[b.agent])
    /\ received' = received + b.size
    /\ UNCHANGED <<seen, processed, step>>

\* Mutant: the types are remembered before they are filtered, so that a batch
\* that arrives together with a known type is forwarded whole.
FilterBatch_Whole(r, b) ==
    /\ ~b.safe /\ ~dedupDisabled
    /\ LET fresh == DOMAIN b.sums \ seen[b.agent]
       IN  /\ fresh # {}
           /\ MakeVote(r, b.agent, b.sums, "alert", step[b.agent])
           /\ seen' = [seen EXCEPT ![b.agent] = @ \cup fresh]
    /\ received' = received + b.size
    /\ UNCHANGED <<processed, step>>

\* Types this agent has not forwarded since its last reset go on, and count
\* as forwarded from now on; the value plays no part.
FilterBatch(r, b) ==
    /\ ~b.safe /\ ~dedupDisabled
    /\ LET fresh == DOMAIN b.sums \ seen[b.agent]
       IN  /\ fresh # {}
           /\ MakeVote(r, b.agent, OnlyOn(b.sums, fresh), "alert", step[b.agent])
           /\ seen' = [seen EXCEPT ![b.agent] = @ \cup fresh]
    /\ received' = received + b.size
    /\ UNCHANGED <<processed, step>>

\* All its types were forwarded already: answered OK and forgotten.  The id
\* it drew is not used.
DropBatch(r, b) ==
    /\ ~b.safe /\ ~dedupDisabled
    /\ DOMAIN b.sums \subseteq seen[b.agent]
    /\ pc' = [pc EXCEPT ![r] = "dropped"]
    /\ seq' = NextSeq
    /\ received' = received + b.size
    /\ UNCHANGED <<vote, seen, processed, step>>

\* handle_alert up to the end of its locked section.
HandleAlert(r, b) ==
    /\ pc[r] = "new"
    /\ IF ~b.safe /\ DOMAIN b.sums = {}
       THEN IgnoreBatch(r)
       ELSE \/ ResetBatch(r, b)
            \/ UnfilteredBatch(r, b)
            \/ FilterBatch(r, b)
            \/ DropBatch(r, b)
    /\ UNCHANGED <<dedupDisabled, workVars, cometVars, chainVars>>

\* handle_stress: no filter, no statistics, the node's own agent id.  An
\* unknown type gives an empty mask and is sent all the same.
HandleStress(r, ballot) ==
    /\ pc[r] = "new"
    /\ MakeVote(r, NodeAgent, ballot, "stress", step[NodeAgent])
    /\ UNCHANGED <<seen, received, processed, step>>
    /\ UNCHANGED <<dedupDisabled, workVars, cometVars, chainVars>>

\* tx_queue.send(vote).await: waits while the queue is full.
Enqueue(r) ==
    /\ pc[r] = "send"
    /\ Len(queue) < QueueCap
    /\ queue' = Append(queue, r)
    /\ pc' = [pc EXCEPT ![r] = IF vote[r].kind = "stress" THEN "accepted"
                                                          ELSE "count"]
    /\ UNCHANGED <<vote, seq, seen, received, processed, step>>
    /\ UNCHANGED <<hand, turn, tasks, lost, dedupDisabled, cometVars, chainVars>>

\* The client gives up (alert_forwarder.py: after 2 s) while its handler waits
\* for a full queue: the HTTP server drops the handler, and the vote with it.
Disconnect(r) ==
    /\ pc[r] = "send" /\ Len(queue) = QueueCap
    /\ Cardinality({s \in Request : pc[s] = "gone"}) < MaxGone
    /\ pc' = [pc EXCEPT ![r] = "gone"]
    /\ UNCHANGED <<vote, seq, seen, received, processed, step>>
    /\ UNCHANGED <<dedupDisabled, workVars, cometVars, chainVars>>

\* handle_alert takes the lock again to count, then answers 202.
Count(r) ==
    /\ pc[r] = "count"
    /\ processed' = processed + 1
    /\ pc' = [pc EXCEPT ![r] = "accepted"]
    /\ UNCHANGED <<vote, seq, seen, received, step>>
    /\ UNCHANGED <<dedupDisabled, workVars, cometVars, chainVars>>

\* POST /config/dedup on this node.
SetDedup(disabled) ==
    /\ dedupDisabled' = disabled
    /\ UNCHANGED <<apiVars, workVars, cometVars, chainVars>>

-----------------------------------------------------------------------------
(* The queue worker and its tasks.                                         *)

\* Mutant: the turn never wraps around.
NextTurn_NoWrap == turn + 1

NextTurn == (turn + 1) % Cardinality(Validator)

\* The worker takes a vote and picks its target: the validators in turn,
\* whether they answer or not.
Take ==
    /\ hand = NoVotes /\ queue # <<>>
    /\ hand' = [req |-> Head(queue), target |-> Target[turn]]
    /\ queue' = Tail(queue)
    /\ turn' = NextTurn
    /\ UNCHANGED <<tasks, lost, apiVars, dedupDisabled, cometVars, chainVars>>

\* Mutant: a submission that runs holds up the worker.
Spawn_OneAtATime ==
    /\ hand # NoVotes
    /\ tasks = {}
    /\ tasks' = tasks \cup {hand}
    /\ hand' = NoVotes
    /\ UNCHANGED <<queue, turn, lost, apiVars, dedupDisabled, cometVars, chainVars>>

\* With a permit the worker spawns the task and goes on.
Spawn ==
    /\ hand # NoVotes
    /\ Cardinality(tasks) < Permits
    /\ tasks' = tasks \cup {hand}
    /\ hand' = NoVotes
    /\ UNCHANGED <<queue, turn, lost, apiVars, dedupDisabled, cometVars, chainVars>>

\* The validator takes in a transaction it does not know.
TakeIn(v, tx) ==
    /\ v \in up /\ tx \notin cache[v]
    /\ mempool' = [mempool EXCEPT ![v] = @ \cup {tx}]
    /\ cache'   = [cache EXCEPT ![v] = @ \cup {tx}]
    /\ UNCHANGED <<up, crashes, wiped>>

\* The submission arrives and is answered: the task ends, its permit is free.
SubmitOk(t) ==
    /\ t \in tasks
    /\ TakeIn(t.target, vote[t.req].tx)
    /\ tasks' = tasks \ {t}
    /\ UNCHANGED <<queue, hand, turn, lost, apiVars, dedupDisabled, chainVars>>

\* The submission arrives but the answer does not (the client gives up after
\* 5 s): the task tries again.
SubmitUnanswered(t) ==
    /\ t \in tasks /\ lost < MaxLost
    /\ TakeIn(t.target, vote[t.req].tx)
    /\ lost' = lost + 1
    /\ UNCHANGED <<queue, hand, turn, tasks, apiVars, dedupDisabled, chainVars>>

\* Mutant: a failed submission is given up.
SubmitRefused_GivesUp(t) ==
    /\ t \in tasks /\ t.target \notin up
    /\ tasks' = tasks \ {t}
    /\ UNCHANGED <<queue, hand, turn, lost, apiVars, dedupDisabled,
                   cometVars, chainVars>>

\* The target refuses the connection: the task sleeps, and tries the same
\* target again; the backoff, at most a second, is left out.
SubmitRefused(t) ==
    /\ t \in tasks /\ t.target \notin up
    /\ UNCHANGED vars

\* The target knows the transaction already.  Whether it answers a repeated
\* submission with success is up to CometBFT; without it the task repeats on.
SubmitRepeated(t) ==
    /\ t \in tasks /\ t.target \in up
    /\ vote[t.req].tx \in cache[t.target]
    /\ tasks' = tasks \ {t}
    /\ UNCHANGED <<queue, hand, turn, lost, apiVars, dedupDisabled,
                   cometVars, chainVars>>

-----------------------------------------------------------------------------
(* CometBFT, and the application it drives.                                *)

Gossip(v, w, tx) ==
    /\ v \in up /\ tx \in mempool[v]
    /\ TakeIn(w, tx)
    /\ UNCHANGED <<apiVars, dedupDisabled, workVars, chainVars>>

\* Blocks are decided by more than two thirds of the validators, which all
\* have the same power.
Live == 3 * Cardinality(up) > 2 * Cardinality(Validator)

\* deliver_tx on this node's ledger.
DeliverTx(tx) == ProposeNewValues(ledger, tx.agent, tx.ballot, dedupDisabled)

\* A proposer puts a transaction of its mempool in a block, which leaves every
\* mempool and is delivered to the applications.
Commit(v, tx) ==
    /\ Live /\ v \in up /\ tx \in mempool[v]
    /\ mempool' = [w \in Validator |-> mempool[w] \ {tx}]
    /\ cache' = [w \in Validator |-> IF w \in up THEN cache[w] \cup {tx} ELSE cache[w]]
    /\ ledger' = DeliverTx(tx)
    /\ committed' = committed \cup {tx}
    /\ UNCHANGED <<up, crashes, wiped, apiVars, dedupDisabled, workVars>>

\* CometBFT exits; its mempool and cache are in memory.
Crash(v) ==
    /\ v \in up /\ crashes < MaxCrashes
    /\ up' = up \ {v}
    /\ crashes' = crashes + 1
    /\ mempool' = [mempool EXCEPT ![v] = {}]
    /\ cache' = [cache EXCEPT ![v] = {}]
    /\ wiped' = wiped \cup {tx \in mempool[v] :
                               \A w \in Validator \ {v} : tx \notin mempool[w]}
    /\ UNCHANGED <<apiVars, dedupDisabled, workVars, chainVars>>

\* The supervisor relaunches it.
Relaunch(v) ==
    /\ v \notin up
    /\ up' = up \cup {v}
    /\ UNCHANGED <<crashes, mempool, cache, wiped, apiVars, dedupDisabled,
                   workVars, chainVars>>

-----------------------------------------------------------------------------
Pending == UNION {mempool[v] : v \in Validator}

Handlers ==
    \/ \E r \in Request, b \in Batch : HandleAlert(r, b)
    \/ \E r \in Request, ballot \in StressBallot : HandleStress(r, ballot)
    \/ \E r \in Request : Enqueue(r)
    \/ \E r \in Request : Disconnect(r)
    \/ \E r \in Request : Count(r)
    \/ \E disabled \in BOOLEAN : SetDedup(disabled)

Worker ==
    \/ Take
    \/ Spawn
    \/ \E t \in tasks : SubmitOk(t)
    \/ \E t \in tasks : SubmitUnanswered(t)
    \/ \E t \in tasks : SubmitRefused(t)
    \/ \E t \in tasks : SubmitRepeated(t)

Comet ==
    \/ \E v, w \in Validator : \E tx \in mempool[v] : Gossip(v, w, tx)
    \/ \E v \in Validator : \E tx \in mempool[v] : Commit(v, tx)
    \/ \E v \in Validator : Crash(v)
    \/ \E v \in Validator : Relaunch(v)

Next == Handlers \/ Worker \/ Comet

Submission(r) == \E v \in Validator : SubmitOk([req |-> r, target |-> v])

\* Handlers, worker and tasks are scheduled, a running validator answers in
\* the end, a validator that exited is relaunched, and blocks are made while
\* transactions wait.  Nothing else is fair: no request need be sent, no
\* repeated submission accepted, no transaction gossiped.
Fairness ==
    /\ \A r \in Request : WF_vars(Enqueue(r)) /\ WF_vars(Count(r))
    /\ WF_vars(Take) /\ WF_vars(Spawn)
    /\ \A r \in Request : WF_vars(Submission(r))
    /\ \A v \in Validator : WF_vars(Relaunch(v))
    /\ \A v \in Validator : WF_vars(\E tx \in mempool[v] : Commit(v, tx))

Spec == Init /\ [][Next]_vars /\ Fairness

-----------------------------------------------------------------------------
(* Every variable has its type.                                            *)
TypeOK ==
    /\ pc \in [Request -> {"new", "dropped", "send", "gone", "count", "accepted"}]
    /\ vote \in [Request -> Votes \cup {NoVotes}]
    /\ seq \in Nat /\ received \in Nat /\ processed \in Nat
    /\ seen \in [Agent -> SUBSET Param]
    /\ step \in [Agent -> Nat]
    /\ dedupDisabled \in BOOLEAN
    /\ queue \in Seq(Request) /\ Len(queue) <= QueueCap
    /\ tasks \subseteq [req : Request, target : Validator]
    /\ Cardinality(tasks) <= Permits
    /\ hand = NoVotes \/ hand \in [req : Request, target : Validator]
    /\ turn \in 0..(Cardinality(Validator) - 1)
    /\ lost \in 0..MaxLost /\ crashes \in 0..MaxCrashes
    /\ up \subseteq Validator
    /\ ledger \in LedgerType

Voted(r) == vote[r] # NoVotes

\* The requests of agent a's current step whose filtered vote includes p.
ForwardersOf(a, p) ==
    {r \in Request : /\ Voted(r) /\ vote[r].kind = "alert"
                     /\ vote[r].tx.agent = a /\ vote[r].step = step[a]
                     /\ p \in DOMAIN vote[r].tx.ballot}

\* Between two resets of an agent, however many handlers run at once and
\* wherever their votes are, each attack type passes the filter exactly once if
\* it is remembered as seen, and not at all otherwise: "12 tx per step" for
\* three agents and four types.
ForwardedOncePerStep ==
    \A a \in Agent : \A p \in Param :
        Cardinality(ForwardersOf(a, p)) = IF p \in seen[a] THEN 1 ELSE 0

\* Where a request's vote is while it is on its way.
InFlight(r) ==
    \/ pc[r] = "send"
    \/ \E i \in DOMAIN queue : queue[i] = r
    \/ hand # NoVotes /\ hand.req = r
    \/ \E t \in tasks : t.req = r

\* On its way, or handed to the chain, which delivers it or loses it in a crash.
Underway(r) == InFlight(r) \/ vote[r].tx \in Pending \cup committed \cup wiped

\* No vote goes missing between the handler and the ledger: it is on its way
\* to its validator, in a mempool, delivered, or was in a mempool that was
\* lost, unless its client gave up before it was queued.  Two votes never
\* share a transaction, or the chain would take the second for a repetition
\* of the first.
NoVoteLost ==
    /\ \A r \in Request : (Voted(r) /\ pc[r] # "gone") => Underway(r)
    /\ \A r, s \in Request :
          (r # s /\ Voted(r) /\ Voted(s)) => vote[r].tx # vote[s].tx

\* Every vote that was accepted is delivered to the ledger in the end, unless
\* a validator exits with the only copy: tasks that wait for a validator, that
\* repeat an unanswered submission or that keep a permit never stop the
\* others, as long as fewer answers are lost than there are permits.
AcceptedIsCommitted ==
    \A r \in Request : pc[r] = "accepted" ~>
        (Voted(r) /\ vote[r].tx \in committed \cup wiped)

-----------------------------------------------------------------------------
(* What the comments say and the code does not do.                         *)

Quiet == /\ \A r \in Request : pc[r] \in {"new", "dropped", "gone", "accepted"}
         /\ queue = <<>> /\ hand = NoVotes /\ tasks = {} /\ Pending = {}

\* "SAFE_ENVIRONMENT forces all attack parameters to 0" (api.rs): once
\* everything was delivered, an agent that handled nothing after its last
\* SAFE_ENVIRONMENT votes 0 on every parameter.
SafeEnvironmentWins ==
    \A a \in Agent :
        (/\ Quiet /\ wiped = {} /\ step[a] > 0
         /\ \A r \in Request :
               (Voted(r) /\ vote[r].tx.agent = a /\ vote[r].step = step[a])
                   => vote[r].kind = "safe")
        => \A p \in Param : ledger[p].proposed[a] = 0

\* seen_types holds the "types already forwarded this step" (api.rs): the vote
\* that made an agent remember a type is on its way, or was delivered.  A client
\* that gives up leaves the type behind without its vote, and its retry is
\* answered OK and dropped.
SeenIsForwarded ==
    \A a \in Agent : \A p \in seen[a] :
        \E r \in ForwardersOf(a, p) : Underway(r)

\* "Upon reaching the consensus" of the IDSs the attack is acted upon
\* (README): while more than half of agents_count agents vote for an attack of
\* type p, it is confirmed.  A vote is the sum of its batch, so agents that
\* saw the same attack need not vote the same value.
DetectionIsConfirmed ==
    \A p \in Param :
        Cardinality({a \in Agent : ledger[p].proposed[a] \notin {0, NoVote}}) > Threshold
            => p \in Raised(ledger)

\* Without the marker, recovery alerts (value=0) reset the deduplication after
\* each detection, says benchmark_capacity.py:107-109, and the alert forwarder
\* is to revert the state to safe (ids_snort.startup:4): a recovery that is
\* discarded finds no attack of its agent to take back.
RecoveriesPass ==
    [][\A r \in Request, b \in Batch :
          (HandleAlert(r, b) /\ seq' # seq /\ pc'[r] = "dropped") =>
              \A p \in DOMAIN b.sums : b.sums[p] = 0 =>
                  \A s \in ForwardersOf(b.agent, p) : vote[s].tx.ballot[p] = 0]_vars
=============================================================================
