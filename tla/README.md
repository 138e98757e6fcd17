# Self-protecting system: TLA+ models and proofs

Three intrusion detection systems (snort, suricata, zeek) watch the traffic of a
web shop. Each reports attacks to a node of a blockchain, the nodes vote on the
state of the shop, and a state that a majority of the IDSs agrees on makes an
actuator run a countermeasure. The repository has the chain twice: CometBFT
(`lab/cometbft`, a Rust node `sps-node`) and Quorum (`lab/quorum`, a Solidity
contract and a Node.js gateway). This directory models the program's own logic
around these chains; the consensus engines themselves are external.

## The system

| part | source | state | operations |
|---|---|---|---|
| ledger | `sps-chain/src/ledger.rs` | per parameter: confirmed value, each agent's last vote, count per value; deduplication switch | `propose_new_values`, the action of a state |
| ABCI application | `sps-chain/src/main.rs` | the ledger behind a lock, the action channel | `deliver_tx`, `info`, `init_chain`, `check_tx` |
| HTTP API | `sps-chain/src/api.rs` | sequence number, `seen_types`, two counters | `/alert`, `/stress`, `/config/dedup`, read-only GETs |
| queue worker | `sps-chain/src/main.rs` | queue of 100 000 votes, 200 permits, round-robin turn | take, spawn, submit with retries |
| action forwarder | `sps-chain/src/forwarder.rs` | position in the action channel | post each action once |
| CometBFT | external, `validator*.startup`, `generate_cometbft_config.py` | mempools, blocks (both in memory) | order, gossip, exit, relaunch |
| IDS contract | `contract/IDS.sol` | as the ledger, plus the owner and the action map | `proposeNewValues`, `insertMap`, `changeOwner` |
| Quorum API | `contract/blockchain_api.js` | batch, last voted state, send queue, nonce | `/alert`, `/stress`, poll, send, retry |
| Quorum forwarder | `contract/actuator_forwarder.js` | last block read | poll, forward |
| alert forwarder | `alert_forwarder.py` | queue of 200 000 alerts, ten workers | read, batch by type, post with three tries |
| actuator and feedback | `actuator_server.py`, `ids_feedback_server.py` | none | run by ssh, tell the IDSs, write a recovery line |
| generators | `generate_cometbft_config.py`, `generate_blockchain_config.py`, the genesis tool (external) | the files of each node on the host | draw keys, wait for the tool, write files, name the contract's agents |
| lab life cycle | `makefile`, `*.startup` | what validator0 shared, how far each node has booted | generate-config, start, clean, clean-config; copy, share, wait |

How they interact: an IDS writes its log, the alert forwarder reads it and posts
to `/alert`; the API filters what its agent already reported since the last
`SAFE_ENVIRONMENT`, and queues a vote; the worker submits it to the validators in
turn; CometBFT orders the votes and delivers each to every node's ledger; a change
of the confirmed state sends an event to the forwarder, which posts the action to
the actuator, which tells the IDSs, whose feedback servers write a recovery line to
the log the alert forwarder reads. In the Quorum lab the API is
`blockchain_api.js`, the ledger is the contract and the forwarder polls its events.

What is hard: handlers run concurrently and share `seen_types` under a lock that they
release before the vote is queued; tasks submit concurrently and retry for ever;
validators exit with what was only in memory; a relaunched CometBFT delivers the chain
again; the deduplication switch is set node by node; counts are kept by increments; ten
workers of each IDS post its alerts at once to an API that may answer late or never; a
gateway hands out nonces itself, and sets them back while others are being used; alerts,
transactions and actions may be lost or overtake each other on the way round the loop; a
generation may end between two files, and what one start shared is still there at the
next. What makes the parts correct: counts that agree with the votes, a confirmed value
that follows the majority and nothing else, events that describe the confirmed state,
replicas that agree, one vote per type and step, no vote lost or counted twice, accepted
votes that are delivered, alerts that are accepted or given up and never both, nonces
without a gap, attacks taken back only after a response, a state that returns to safe,
and nodes whose keys, peers and contract are of one generation.

## Modules

* `VoteTally`: the counting of `ledger.rs` as operators without variables. A
  parameter's status is a record (`current`, `proposed`, `count`), a transaction is
  an agent and a ballot, a function from the parameters of its mask to values (the
  mask and the fixed array of the code in one). The loop of `propose_new_values`
  touches one parameter a turn and is a function on parameters, so nothing is
  recursive and the module can be proved about. An action is the set of
  parameters whose bit it names, `Raised`. The mutants (`Withdraw_Forgotten`, ...)
  are wrong versions of an operator, used to test that the properties can fail.
* `MajorityVote`: what a ledger promises. Agents cast votes; a value held by more
  than half of `AgentsCount` is decided, otherwise the decided value stays.
* `Ledger`: the state machine of one node. `DeliverTx` is `deliver_tx` (both hold
  the write lock for the whole call), `SetDedup` is `/config/dedup`. `announced` is
  the state in the last event.
* `Replicas`: several nodes applying one chain, each with its own pace and switch:
  `DeliverNext` is `deliver_tx` at one of them, `SetSwitch` its `/config/dedup`,
  `RestartComet` a relaunch by the validators' supervisor: delivery starts over
  (`info` answers height 0), the ledger stays (`init_chain` clears nothing). Its names
  differ from those of `Ledger`, so that one module can prove theorems about both.
* `SpsNode`: a light node from the HTTP request to its ledger. A handler is a
  request's `pc`: `HandleAlert` up to the end of the locked section, `Enqueue` for
  the await, `Count` for the second lock, `Disconnect` when the client leaves at the
  await. `Take` and `Spawn` are the worker before and after it waits for a permit,
  the `Submit*` actions are one turn of a task's loop by what came back. `TakeIn`,
  `Gossip`, `Commit`, `Crash`, `Relaunch` are CometBFT as far as the code relies on
  it. `step`, `vote` (after its transaction was sent) and `wiped` are history.
* `Contract`: `IDS.sol` from its deployment on. `Populate` or `PopulateFails` is
  `populate_action_map.js`, then `Share` is the copy of address and ABI to `/shared`;
  `Propose` is a `proposeNewValues` transaction with the event it emits. Members vote once
  they find both files (`Found`), and the files of an earlier start (`stale`) will do:
  `make clean` leaves them, and with the same keys the contract gets the same address
  again, as its deployment is the first transaction of validator0's account. `missed` is
  history. `Kept`, `Adopted` and `VoteOn` are the loop. The state string is the function
  of confirmed values (see the module's head), an announced action is the state whose
  action it is. `AsLedger` shows the contract as sps-node's ledger.
* `EventPoller`: `actuator_forwarder.js`. A poll is `Start`ed by the timer, suspended at
  `getBlockNumber` (`Answer`, `Resume`) and at `getPastEvents` (`Forward`), or caught
  (`Fail`); the variable `lastBlock` is shared by the polls under way.
* `TxSender`: how `blockchain_api.js` sends. A send is `posted`, taken by geth (`Take`),
  and ends with an event: `OnHash`, or one of the errors `OnRefusal` (the nonce is used),
  `OnFailure` (anything else), `OnLateError` (geth had taken it), `OnBlockTimeout`. An error
  makes its handler ask for the number of mined transactions (`AnswerCount`) and go on with
  it as the next nonce (`Continue`), or without it if the call throws (`ContinueBlind`);
  the request is retried (`Retry`) or given up (`Reject`, with the second handler of
  `stressAlert`). `MineTx` mines in the order of nonces. `blind`, `taken` and `late` are
  history.
* `AlertRelay`: what the forwarder of an IDS promises: alerts reach the API in any order
  and perhaps more than once, none is lost but those given up, none is both accepted and
  given up.
* `AlertForwarder`: `alert_forwarder.py`. `Read` and `Put` are `main` (an alert in `held`
  is in the hands of `alert_queue.put`). A worker collects a batch (`Get`, `Close`),
  sends the group of the oldest type in it (`Post`, `PostFails`) and waits (`Answer`,
  `Refuse`, `Timeout`); `TryFails` is the retry loop, `NextGroup` the loop over types and
  batches. The API is external: a request may be handled after its worker gave it up
  (`HandleLate`) or be lost (`Lose`). `alerts`, `received`, `posts`, `accepted` and
  `dropped` are history.
* `Response`: the loop of the Quorum lab. `Detect` writes attack lines at several IDSs;
  `Deliver` is `enqueueAlert`, `SendBatch` is `processBatch`, `SeeBlock` the new block
  that wipes `lastVotedState`, `Mine`, `RetryTx` and `DropTx` are what becomes of a
  transaction; the contract is `VoteTally`'s ledger, as `CountsAsLedger` allows. An
  action is posted once (`PostLost`), executed with feedback to the IDSs (`Execute`) or
  stuck in ssh (`SshTimesOut`). The forwarder is `AlertRelay`: alerts overtake each other
  (`Deliver`), come twice (`DeliverUnanswered`) or are given up (`GiveUpAlert`). Whatever
  is lost, repeated, overtaken or comes back counts as a trouble.
* `LabConfig`: what the generators write, as operators: identities (a node and the run
  that drew its keys), addresses, peers, roles, genesis, the contract's agents.
* `LabSetup`: the life of a lab. `Generate`, `ToolMakes`, `Download`, `WriteFile`,
  `Finish`, `Fail` are a run of a generator, file by file; `Start`, `Clean`,
  `CleanConfig` the makefile's targets; `Boot`, `Share`, `ShareFails`, `Proceed` the
  startup scripts.
* `VoteTallyProofs`, `LedgerProofs` (with `Replicas`), `SpsNodeProofs`, `ContractProofs`,
  `EventPollerProofs` (with `TxSender`), `AlertForwarderProofs`, `ResponseProofs`,
  `LabSetupProofs`: lemmas and theorems.
* `MCLedger`, `MCReplicas`, `MCSpsNode`, `MCContract`, `MCEventPoller`, `MCLab`: inputs
  for TLC.

## Runs

| run | configuration | result |
|---|---|---|
| `ledger` | 3 agents, 2 parameters, values 0..2, 7 transactions, switch at any time | passes, 12 thousand states |
| `replicas` | 3 agents, 1 parameter, values 0 and 1, validator and light node, 4 transactions, 1 relaunch | passes, 360 thousand states |
| `relaunch` | as before, 3 transactions | `RelaunchResumesConsensus` is violated |
| `node_filter` | 3 requests, 2 types, 1 validator, queue and permits of 1, 1 client gives up | passes, 1.2 million states |
| `node_delivery` | 2 requests, 2 validators, queue 1, permits 2, 1 lost answer, 1 exit, 1 client gives up | passes, liveness included |
| `recovery` | an attack and its recovery | `RecoveriesPass` is violated |
| `safe_order` | an attack and a `SAFE_ENVIRONMENT`, 2 validators | `SafeEnvironmentWins` is violated |
| `gone_client` | two types, queue of 1, 1 client gives up | `SeenIsForwarded` is violated |
| `batch_sums` | two agents of three, batches of one and of two alerts | `DetectionIsConfirmed` is violated |
| `contract` | 3 members, 2 parameters, values 0..2, first start or restart, no bound on transactions | passes, 15 thousand states |
| `event_poller` | 3 overlapping polls, 3 blocks, 1 failure; 3 requests, 1 slot, 1 retry, 1 fault | passes, 147 thousand states, liveness included |
| `lab` | both labs at their real size and 2 generations; 2 workers, 2 lines, 2 tries; 3 IDSs, 2 attacks, 1 trouble | passes, 212 thousand states, liveness included |

`ledger` shows, and the proofs establish for all sizes, that counts, confirmations
and events are right (`TallyMatchesVotes`, `OnlyMajorityConfirms`,
`MajorityIsConfirmed`, `AttackStateAnnounced`) and that the ledger implements
`MajorityVote` whatever the switch does. `replicas` shows what survives per-node
switches and a replay: all nodes that applied the same transactions once are equal
(`SwitchesDoNotSplit`); after a replay votes and counts agree, and so do confirmed values backed by a
majority. `node_filter` shows that each type passes once per step whatever
interleaves; `node_delivery` that no vote is lost between handler and chain, and
that accepted votes are delivered.

`contract` shows that the two labs count alike (`CountsAsLedger`): the default 0 of
`agentProposedValue` is never taken for a vote, nor a first vote of 0 for a repetition.
`ActionMatchesState` says that a state with an action is the one last announced, also
when it is reached through a state without one, such as a confirmed 2. It has one
exception. On a restart members do not wait for validator0 (`member0.startup:63`): votes
may be mined before `insertMap`, and a state that is confirmed then has no action yet.
Populating the map announces nothing, so the attack is not answered until the state
changes. The first start after `clean-config` has no such window, which the property says
too.

`SwitchesDoNotSplit` contradicts three comments: `benchmark_capacity.py:53` and `:126` and
`blockchain_benchmark.py:106` have the deduplication switch set on all nodes to avoid a
split-brain. With three IDSs and `agents_count` 3 there is none: a repeated vote that is
counted again is taken off and put back, and if its value has a majority it was confirmed
before. The switch is thus no matter of consensus, as long as no more than `agents_count`
agents vote. With more the comments are right. Votes of `/stress` are cast under the ids
of their nodes, so let a, b, c and d vote with `agents_count` 3: a and b vote 1, which is
confirmed, c and d vote 0, which is confirmed then, and a votes 1 again. With
deduplication the last vote is skipped, and 0 stays; without it the vote is counted, 1
still has two supporters, and is confirmed. Nodes with different switches differ then.

`event_poller` shows that no event is skipped (`NothingSkipped`) although a slow poll may
set `lastBlock` back: that costs repetitions, which the actuator executes again, and no
event. With one failure, every event is forwarded in the end (`EventuallyForwarded`).

The same run checks the sender of a member's API, in behaviours of their own (`subject`).
The handler of an error reads the count of mined transactions, and by the time it uses it
as the next nonce others may have been handed out, mined or set back by another handler.
Still no nonce is passed over (`NoNonceSkipped`), no votes are taken twice without an error
after the first time (`NotTwice`), and every send comes to an end (`SendsEnd`). The
conditions in these properties are what the code leaves open:

* a count that cannot be read (the empty `catch` of `blockchain_api.js:248`) leaves the
  nonce of the failed send unused, and the transactions after it wait until another error
  sets the nonce back;
* a request that is given up leaves a gap too, until the next request fills it;
* an error after the hash frees its slot a second time (lines 224, 230): `activeTxCount`
  falls below the active sends, by at most one an error, and more than
  `MAX_CONCURRENT_TX` may then be sent at once (`SenderTypeOK` has the bound);
* the same error sends votes again that may be mined already.

`lab` checks three parts that share no state in one run: `subject` says which of them a
behaviour is about, so that their states add up and do not multiply.

* *Setup.* Whatever generations fail and wherever, one that succeeds leaves every file of
  every node and none of another run (`GeneratedIsWhole`); nodes that run know each
  other's keys and the addresses they really take (`NodesConnect`), and none waits for
  ever (`AllStart`), with one exception: when validator0 cannot deploy the first contract,
  which `compile_and_deploy_contract.js` only prints, there is nothing to copy and the
  members wait without limit (`NothingToShare`). `FollowersAgree` has a condition, and needs it: neither generator removes
  what validator0 shared before (`shared/handshake`, `shared/contract_address.txt`), only
  `clean-config` does. After `setup`, `clean`, `setup` a follower may find it and use the
  old genesis, or the address of a contract that does not exist, before validator0 has
  shared the new one. After a restart without generating anew, files and addresses agree, but members do not
  wait for the deployment: they may start before the contract exists, when their votes
  are lost on an address without code, or before its map is populated (see `contract`).
  That the generators' constants fit each other is not checked: `AGENTS_COUNT` and the
  list of light nodes, `members_for_group` and the slice `[:3]` are literals, and the
  contract takes votes of any sender.
* *Forwarder.* An alert is in one place (`Accounted`), each type of a batch has its own
  three tries (`TriesAreSpent`), every alert is settled even if the API never answers,
  the one that waits for a full queue included (`EveryAlertSettles`), and the whole
  implements `AlertRelay` (`ImplementsRelay`): an answer that comes late is not taken for
  that of a later request.
* *Response.* No confirmed attack is taken back before one of its type was acted upon
  (`ResetHasCause`), whatever is lost or overtaken; a confirmed attack is acted upon
  (`AttacksAreAnswered`) and the state is safe again in the end (`ReturnsToSafe`) when
  nothing is lost. The last two exclude *troubles*, for which the code does not make up.
  A recovery that overtakes its attack (`alert_forwarder.py:126`), an older vote that is
  retried and mined after a newer (`blockchain_api.js:254`), a recovery that is given up or
  dropped with its transaction, and an ssh call that exceeds its 10 s, after which no IDS
  is told (`actuator_server.py:64`), leave agents on their attack vote. If they are too
  many for a majority of recoveries, the attack stays confirmed, and as the state does not
  change there is no further event. A post to the actuator that fails is not repeated
  (`actuator_forwarder.js:62`): the attack stays confirmed and is not answered. Votes for
  an attack that are dropped (`blockchain_api.js:199`, `:257`) are missing until the IDS
  reports it again after the next block, which wipes `lastVotedState`. One of the troubles
  is no loss: a relapse. If an attack is seen by two IDSs after the response to one of its type and
  before all its recoveries are voted, attack and recovery lines of an IDS may follow
  each other in one batch, where the later replaces the earlier. One agent then votes
  recovery and another attack, the values never have a majority to change the state, and
  the attack stays confirmed without another action, since the state did not change.

fullnode0 is left out of `NodesConnect` on purpose: `README.md:54` and
`generate_cometbft_config.py:40` give it 10.99.0.14, its startup script takes 10.99.0.21
(`fullnode0.startup:7`), so the peers that light nodes are given for it lead nowhere.
They reach it because it connects to the validators itself.

The five violated properties state what a comment or document says. *relaunch*: a chain in
which snort votes 1, then 0, and zeek votes 1 confirms nothing; replayed on the votes it
left behind, snort's first vote meets zeek's, which is a majority that never existed, and
1 stays confirmed on that node alone. *recovery*: an attack
alert is let through, and the recovery alert of its type that follows is discarded as a
repetition, since `seen_types` has types and not values and only `SAFE_ENVIRONMENT` clears
it; `benchmark_capacity.py:107` has recoveries reset the deduplication. *safe_order*: the lock is released before the
vote is queued, and tasks submit concurrently to several validators, so an older attack
vote may be delivered after the reset. *gone_client*: the type is marked before the await
at which the handler may be dropped; the retry is then answered 200 and discarded.
*batch_sums*: the API adds up the values of a batch, so two agents that saw one attack
vote 1 and 2, and neither value has a majority; the Quorum API keeps the last value
instead.

Bounds. Three agents are the labs' number and the least with a proper majority; four
parameters of the code are two or one, since a vote treats each by itself and only
the announced state relates them; values are 0..2 where a sum may exceed 1. Seven
transactions let each agent vote, change and change back. Queue and permits are 1 or
2 so that both are exhausted. `MaxTxs`, `MaxChain`, `MaxRestarts`, `MaxGone`, `MaxLost` and
`MaxCrashes` bound the length of a chain and the number of faults; requests are
finite, which is why `SpsNode` runs do not check for deadlock: a node that has
answered everything rests. Symmetry is used where agents or requests are
interchangeable, and never with the liveness property.

Fairness (`SpsNode`). Weak fairness on the handlers' steps, the worker's steps, a
submission to a validator that is up (`Submission`), the relaunch of a validator (the
supervisor's loop) and block production while a running validator has transactions.
The runtime schedules every task, and CometBFT makes blocks when transactions wait.
Nothing else is fair: no request need come, no client stays or leaves, no transaction
is gossiped, a repeated submission may be refused for ever. That last point is why
`MaxLost` is below `Permits` in `node_delivery`: each task whose answer was lost may
keep its permit for ever, and with as many of them as permits the worker stops.

Fairness (`EventPoller`). Weak fairness on the steps of each poll: the timer ticks for
ever, and geth answers each call in the end. `MaxFailures` is the assumption that calls do
not fail for ever; `MaxBlocks` bounds the chain.

`event_poller`'s other bounds. One slot makes the requests queue behind each other, a queue
of one makes the third be rejected, one retry makes a request be given up, and with one
error two sends and two handlers may still be under way at once, since it may free a slot
twice. A transaction that waits behind an unread count takes two
faults, and is beyond the run; the theorem covers any number. Neither script is checked
for deadlock: the sender rests when its requests are done.

Fairness (`TxSender`). Some step of the API or of geth that is possible is taken
(`Sending`): events arrive, timers fire, the next transaction of the account is mined. No
error need happen and no request need come.

`lab`'s bounds. Nodes and groups have the labs' real sizes: 3 validators, 3 light nodes or
4 members, groups of 3. Two generations (`MaxRuns`) are enough for one to fail or to be
stale beside the other. The forwarder has 2 workers for 10, a queue of 1 and batches of 2,
so that the queue is full while a worker holds a mixed batch, 2 tries for 3, and lines
that name a type in either spelling. Two attacks let a second come before, during and
after the response to the first; one trouble is each kind of fault once. The run has one
attack type in the loop, since two are too many states: that an attack confirmed while
one of another type is being answered is acted upon too is beyond its liveness
properties. `ResetHasCause` is proved for any number of types. It does not check for deadlock: lines, generations and attacks are
bounded, and a lab at rest rests.

Fairness (`MCLab`). Setup: startup scripts go on (`Scripts`), as they loop without limit;
no command need be typed. Forwarder: some thread that can go on does, and a request that
is not answered times out, which is `http.client`'s timeout; nothing is assumed of the API
or the log. Response: what is under way, an alert, a batch, a transaction or an action, is
finished or lost; blocks need not be seen and attacks need not come. All three are weak.

## Proofs

`VoteTallyProofs` proves, for any agents, parameters and values (`VoteTallyAssumption`:
agents are finite, values are naturals with 0, the mark for "no vote" is no value),
that a vote keeps types, keeps every count equal to the number of its supporters, keeps
the confirmed value settled, and changes it only to a value with a majority. The core
is a cardinality argument: a vote moves one agent from one set of supporters to
another, and two values cannot both have more than half of `AgentsCount` if at most
`AgentsCount` agents vote.

`LedgerProofs` lifts this to the state machine: `TypeCorrect`, `TallyCorrect`,
`ConfirmationNeedsMajority`, `MajorityConfirmed`, `AttacksAnnounced`, `Refinement`.
The inductive invariant is the conjunction of types, tallies, settled parameters and
announced states: the comparison with the threshold uses the count, so a majority says
something about votes only where counts are right, and a parameter stays settled only
because it was before. `Refinement` assumes `Cardinality(Agent) <= AgentsCount`;
without it two values can have a majority at once (`/stress` votes under the node's own
id, so more ids than `agents_count` may vote), the confirmed value is then whichever
was voted for last, and with deduplication a repeated vote does not bring it back.

It also proves the three invariants of `Replicas`, for any number of nodes, transactions
and relaunches: `SwitchesNeverSplit`, `ReplaysKeepVotes`, `ReplaysKeepMajorities`. None of
them is inductive, since they compare nodes that are at the same place and say nothing of
those on their way there. So the invariant says what each ledger is by the chain alone.
`CastBy(a, p, k)` are the positions up to k where agent a votes on p; from them follow the
votes after k transactions (`VotesAt`) and the value the last majority up to k confirmed
(`ConfirmedAt`), without recursion. `FirstPass`: as long as a node's CometBFT was not
relaunched, its ledger is that of the applied prefix, whatever its switch was
(`ConfirmedAt` needs at most `AgentsCount` voters). `EveryPass`: during a replay an agent
that voted in the prefix already holds its last vote there, and one that votes nowhere on
the chain holds none; what the others hold is from the pass before. At the end of the
chain nobody is left of those, and counts and majorities follow because every ledger is
tallied and settled (`ReplicasCount`). The confirmed value where the final votes have no
majority is what a replay changes, see *relaunch*.

`SpsNodeProofs` proves both invariants of the light node for any requests, batches,
types, validators, queue slots, permits and faults. `VotesAreNotLost`: `NoVoteLost`
excuses what is with the chain, and a validator that has a transaction in its cache
takes it no second time, so a submission that is repeated adds nothing: `CacheIsKnown`
says that whatever is in a cache is pending, committed or was wiped. That no two votes
share a transaction is `IdsAreDrawn`: each handler draws its sequence number with
`fetch_add`, so ids only grow. `ForwardedOnce`: a vote is stamped with its agent's step
in the locked section (`StepsArePast`), so a reset leaves no forwarder of the new step;
a type is in `seen_types` exactly if one request of this step let it through
(`SeenWasForwarded`). Both rest on `NodeTypes`: the types, that requests have a vote
exactly from `send` on (`VotesAreMade`), and that queue, worker and tasks hold only such
requests (`WorkIsVoted`).

`ContractProofs` reduces the contract to the same lemmas: `SameVote` says that a vote
does to a `Parameter_Status`, seen through `AsStatus`, what `Vote` does to a status with
deduplication on. `SameCounting` and `Refinement` follow, the latter with the tallies and
settled parameters carried along as in `LedgerProofs`. `ActionsMatch` needs a
strengthening of its own (`MapInv`): as long as the map is not populated no state has an
action, and without files of an earlier start nobody has voted and the state is all zeros,
so that populating the map gives the current state an action only on a restart; after
that, a vote announces the state it changes, or leaves state and exception as they are.

`EventPollerProofs` proves `NothingSkipped` for any number of polls, blocks and failures.
`NothingSkipped` alone is not inductive, since a poll moves `lastBlock` to the end of a
range it computed long before: `RangesAreNext` adds that the blocks before that range were
forwarded by then, and forwarded blocks stay so. It also proves `NoNonceSkipped`
(`NoncesFollow`) for any number of requests, slots, retries and errors: `CountsArePast`
says that a count an error handler holds is at most the mined transactions of now, so that
the nonces below it are used, whatever happened since the count was read.

`TakenOnce` (`NotTwice`) needs to know where a request can be. `InOnePlace`: it is once in
the queue, or waits for its retry, or has one send, and never two of these; a retry is set
off by the handler that ends the send. `TakenIsPast`: if a request may yet be taken
(`PendingNow`: it is queued, waits for a retry, is posted, or its handler is about to
decide and it was not given up), the node took it no more often than errors came after
that. A request that was given up has a second handler in `stressAlert`, and that one may
only set the nonce. `SenderTypeCorrect` has the count of slots: `SlotsAreCounted` says that
the active sends are at most `activeTxCount` plus the failures so far, by cardinality of
the sends one call of `processTxQueue` adds; the lower bound of the type follows, since
there cannot be fewer than none. `SlotsOverrun` is the other side of it: `MAX_CONCURRENT_TX`
is exceeded by the number of failures at most.

`AlertForwarderProofs` proves `Accounted`, `TriesAreSpent` and the refinement for any
number of workers, types, tries and capacities. `ForwarderInv` adds to the types and to
`Accounted` that `held` has one alert at most, that an alert in a batch was tried as often
as its worker has used tries if it is in the group in turn and never if it is in a later
one (`TriesCounted`), and that no request has more tries than its alerts and all requests
for an alert together with those handled are as many as its posts (`RequestsCounted`): an
alert that is handled late was posted before.

`ResponseProofs` proves `ResetHasCause` for any agents and attack types. A confirmed value
changes only to the one that is voted, a recovery is voted only if one was in a log, and
lines of recovery come from `Execute` alone: `RecoveriesFollowActions` says so of every
place between the log and the contract, the lines, the batch and the transactions.

`LabSetupProofs` proves all four invariants of the setup for any number of validators up
to ten, of light nodes up to three, of members up to four (which is what the addresses and
the startup scripts leave room for) and of generations. `Progress` says that every file
before the place where the generator is, is its own; `AllMade` that the tool's directories
are all there once there are enough of them, a cardinality argument; `Taken` that nodes
are up only on the files of a generation that succeeded; `Shared` what may lie in the shared directory since the last clean-config.

`LeastExists`, a lemma of `LabSetupProofs` and `AlertForwarderProofs`, says that a finite set of numbers has a least element, by
well-founded induction on subsets: the forwarder's oldest alert and the generators' next
node exist.

Every invariant and every action property that the runs check, and each refinement, is
stated by a theorem. Only model-checked: liveness (`AcceptedIsCommitted`,
`EventuallyForwarded`, `SendsEnd`, `AllStart`, `EveryAlertSettles`, `AttacksAreAnswered`,
`ReturnsToSafe`), which needs ENABLED and is beyond the prover. The theorems assume what
the modules assume of their constants, and `MajorityConfirmed`, `SwitchesNeverSplit`,
`ReplaysKeepMajorities` and the two refinements of `MajorityVote` the condition on
`AgentsCount` that their statements name.

## Abstractions, and what is not modelled

The timestamp of a vote is left out: the sequence number is what tells votes of one
node apart, and it is drawn in the step of the locked section, since only that no two are
equal matters. Agent names and their hash are one set: the ids of the labs' agents
differ. Two nodes' sequence numbers both start at 0 and their votes differ by agent;
`SpsNode` is one node. Values are not bounded at 2^64. The backoff of a task, logging
and GET handlers are left out. `check_tx` accepts every transaction in the labs
(`SPS_FAST_CHECKTX=1`). The contract's `changeOwner` is left out: nothing calls it, and
the owner matters to `insertMap` alone. A transaction that reverts changes nothing and is
no step. Which agent an event selects is left out: the listeners log it or pass it on,
and the actuator runs the action whoever is named.

In `AlertForwarder`, the text of a line is what the code searches it for; the 100 ms
pause after a failure and the sampled output are left out. In `Response`, alerts of
different types do not hold each other up, the marker that switches recoveries off is
absent, and the exit code of ssh is not looked at, as in the code, which tells the IDSs
whatever it is; a transaction is mined, tried again or dropped there, and why is in
`TxSender`, where it is its number and has no votes. In `LabSetup`, a file is written at
once, a directory of the genesis tool comes with its files (the generator waits two
seconds more for them), and the deployment of the contract is one step that succeeds or not. Files do not change
while the lab is up, so that it does not matter when a node copies its own.

Not modelled: CometBFT's and QBFT's consensus; sps-node's action forwarder and the limit
of its channel; the Quorum API's SAFE_ENVIRONMENT, deduplication switch and arrays of
alerts; SSH keys, image builds,
kernel settings, routing and the vulnerable shop; the attack bursts and benchmarks, which
are load and no part of the system; the vendored crates and contracts.

## Plan

Done, in this order: the ledger and its abstract specification; its proofs; replicas and
replay; the node from request to ledger; the contract of the Quorum lab and its proofs;
the poller of its events; the forwarder of alerts with its refinement; the response loop;
the generators and the life of a lab; the proofs of these three; the sender of the Quorum
API and the proof about its nonces; the proofs about replicas, the light node and what the
sender sends twice. Left:

1. `SAFE_ENVIRONMENT` in the Quorum API's batch;
2. sps-node's action forwarder, and the loop of the CometBFT lab, where the filter of the
   API and its sums take the place of `lastVotedState`.
