------------------------------ MODULE Response ------------------------------
(***************************************************************************)
(* The loop of the Quorum lab, from the logs of the IDSs and back: the     *)
(* alert_forwarder.py of each IDS, the blockchain_api.js of its member,    *)
(* the contract, the posts of member3, actuator_server.py, and the         *)
(* ids_feedback_server.py beside each IDS.                                 *)
(*                                                                         *)
(* Each IDS is the agent of the member it reports to.  Alerts of different *)
(* types never hold each other up: an IDS's log is one sequence for each   *)
(* type.  The forwarder is the channel that AlertForwarder implements, the *)
(* contract counts as sps-chain does (Contract).                           *)
(***************************************************************************)
EXTENDS VoteTally, SequencesExt

CONSTANTS
    Detectors,      \* the sets of IDSs that may detect an attack
    MaxAttacks,     \* bound on the attacks the IDSs detect
    MaxTroubles     \* bound on what is lost, repeated, overtaken, or
                    \* comes back

ASSUME ResponseAssumption ==
    {0, 1} \subseteq Value /\ MaxAttacks \in Nat /\ MaxTroubles \in Nat

VARIABLES
    lines,      \* by IDS and type, the lines of the log whose alert the API
                \* has not received: 1 for an attack, 0 for a recovery
    buffer,     \* batchBuffer of each member
    lastVoted,  \* lastVotedState of each member
    sent,       \* the transactions of each member that are not mined
    ledger,     \* the contract
    actions,    \* the actions that are being posted or executed
    acted,      \* history: the types of the actions the actuator executed
    attacks,    \* how many attacks were detected
    troubles    \* how often something was lost, repeated or overtaken, or an
                \* attack came after the response to one of its type

memberVars   == <<buffer, lastVoted, sent>>
responseVars == <<lines, memberVars, ledger, actions, acted, attacks, troubles>>

NoBatch == [p \in Param |-> NoVote]

ResponseInit ==
    /\ lines = [a \in Agent |-> [p \in Param |-> <<>>]]
    /\ buffer = [a \in Agent |-> NoBatch]
    /\ lastVoted = [a \in Agent |-> NoBatch]
    /\ sent = [a \in Agent |-> <<>>]
    /\ ledger = InitLedger
    /\ actions = <<>>
    /\ acted = {} /\ attacks = 0 /\ troubles = 0

Trouble(happens) ==
    /\ happens => troubles < MaxTroubles
    /\ troubles' = IF happens THEN troubles + 1 ELSE troubles

-----------------------------------------------------------------------------
(* The IDS and its forwarder.                                              *)

\* The router mirrors an attack of type p to the IDSs, and those in S detect
\* it.  It is a relapse if p was already acted upon.
Detect(S, p) ==
    /\ attacks < MaxAttacks
    /\ attacks' = attacks + 1
    /\ lines' = [a \in Agent |-> IF a \in S THEN [lines[a] EXCEPT ![p] = Append(@, 1)]
                                  ELSE lines[a]]
    /\ Trouble(p \in acted)
    /\ UNCHANGED <<memberVars, ledger, actions, acted>>

TakeLine(a, p, i) == lines' = [lines EXCEPT ![a][p] = RemoveAt(@, i)]

\* enqueueAlert: the value of an alert replaces one that waits for the batch,
\* unless it repeats the vote in lastVotedState: then it is dropped.
Enqueue(a, p, v) ==
    buffer' = IF lastVoted[a][p] = v THEN buffer ELSE [buffer EXCEPT ![a][p] = v]

\* Mutant: the values of one type are added up, as the API of sps-chain does.
Deliver_Sums(a, p, i) ==
    LET v == lines[a][p][i]
    IN /\ TakeLine(a, p, i)
       /\ buffer' = IF lastVoted[a][p] = v THEN buffer
                    ELSE [buffer EXCEPT ![a][p] = IF @ = NoVote THEN v ELSE @ + v]
       /\ Trouble(i > 1)
       /\ UNCHANGED <<lastVoted, sent, ledger, actions, acted, attacks>>

\* The API receives an alert, not always the oldest: ten workers post.
Deliver(a, p, i) ==
    /\ TakeLine(a, p, i)
    /\ Enqueue(a, p, lines[a][p][i])
    /\ Trouble(i > 1)
    /\ UNCHANGED <<lastVoted, sent, ledger, actions, acted, attacks>>

\* Its answer comes too late, and the alert will be posted again.
DeliverUnanswered(a, p, i) ==
    /\ Enqueue(a, p, lines[a][p][i])
    /\ Trouble(TRUE)
    /\ UNCHANGED <<lines, lastVoted, sent, ledger, actions, acted, attacks>>

\* The forwarder gives an alert up.
GiveUpAlert(a, p, i) ==
    /\ TakeLine(a, p, i)
    /\ Trouble(TRUE)
    /\ UNCHANGED <<memberVars, ledger, actions, acted, attacks>>

-----------------------------------------------------------------------------
(* The member, the contract and member3.                                   *)

Batch(a) == [p \in {q \in Param : buffer[a][q] # NoVote} |-> buffer[a][p]]

\* processBatch: what waits becomes a transaction and the last vote.
SendBatch(a) ==
    /\ buffer[a] # NoBatch
    /\ buffer' = [buffer EXCEPT ![a] = NoBatch]
    /\ lastVoted' = [lastVoted EXCEPT ![a] =
                        [p \in Param |-> IF buffer[a][p] = NoVote THEN lastVoted[a][p]
                                                                 ELSE buffer[a][p]]]
    /\ sent' = [sent EXCEPT ![a] = Append(@, Batch(a))]
    /\ UNCHANGED <<lines, ledger, actions, acted, attacks, troubles>>

\* pollBlocks sees a new block, with the member's transactions or without.  A
\* batch that the block itself triggered is sent right before.
SeeBlock(a) ==
    /\ lastVoted[a] # NoBatch
    /\ lastVoted' = [lastVoted EXCEPT ![a] = NoBatch]
    /\ UNCHANGED <<lines, buffer, sent, ledger, actions, acted, attacks, troubles>>

\* The oldest transaction is mined.  If it changes the state to one that has
\* an action, member3 sees the event and posts it.
Mine(a) ==
    /\ sent[a] # <<>>
    /\ sent' = [sent EXCEPT ![a] = Tail(@)]
    /\ ledger' = ProposeNewValues(ledger, a, Head(sent[a]), FALSE)
    /\ actions' = IF EmitsAction(ledger, ledger')
                  THEN Append(actions, Raised(ledger')) ELSE actions
    /\ UNCHANGED <<lines, buffer, lastVoted, acted, attacks, troubles>>

\* It fails, and is tried again behind those sent after it.
RetryTx(a) ==
    /\ Len(sent[a]) > 1
    /\ sent' = [sent EXCEPT ![a] = Append(Tail(@), Head(@))]
    /\ Trouble(TRUE)
    /\ UNCHANGED <<lines, buffer, lastVoted, ledger, actions, acted, attacks>>

\* It failed MAX_RETRIES times.
DropTx(a) ==
    /\ sent[a] # <<>>
    /\ sent' = [sent EXCEPT ![a] = Tail(@)]
    /\ Trouble(TRUE)
    /\ UNCHANGED <<lines, buffer, lastVoted, ledger, actions, acted, attacks>>

\* The actuator cannot be reached: there is no second post.
PostLost(i) ==
    /\ actions' = RemoveAt(actions, i)
    /\ Trouble(TRUE)
    /\ UNCHANGED <<lines, memberVars, ledger, acted, attacks>>

-----------------------------------------------------------------------------
(* actuator_server.py and ids_feedback_server.py.                          *)

\* ATTACK_MAP: the types the action names.
Recovered(action) == action

\* Mutant: only one IDS is told.
Told_One(missed) == {CHOOSE a \in Agent : TRUE} \ missed

\* IDS_IPS, but those that do not answer within a second.
Told(missed) == Agent \ missed

\* FeedbackHandler appends NEGATIVE ALERT to the log its forwarder follows.
Feedback(action, missed) ==
    lines' = [a \in Agent |-> [p \in Param |->
                 IF a \in Told(missed) /\ p \in Recovered(action)
                 THEN Append(lines[a][p], 0) ELSE lines[a][p]]]

\* ssh returns, with whatever exit code, and the IDSs are told one by one.
\* The posts are concurrent: any of them may be the next to get there.
Execute(i, missed) ==
    /\ actions' = RemoveAt(actions, i)
    /\ acted' = acted \cup Recovered(actions[i])
    /\ Feedback(actions[i], missed)
    /\ Trouble(missed # {})
    /\ UNCHANGED <<memberVars, ledger, attacks>>

\* Mutant: the IDSs are told although the command timed out.
SshTimesOut_Tells(i) ==
    /\ actions' = RemoveAt(actions, i)
    /\ Feedback(actions[i], {})
    /\ Trouble(TRUE)
    /\ UNCHANGED <<memberVars, ledger, acted, attacks>>

\* ssh takes more than ten seconds: TimeoutExpired ends the handler.
SshTimesOut(i) ==
    /\ actions' = RemoveAt(actions, i)
    /\ Trouble(TRUE)
    /\ UNCHANGED <<lines, memberVars, ledger, acted, attacks>>

-----------------------------------------------------------------------------
ResponseNext ==
    \/ \E S \in Detectors, p \in Param : Detect(S, p)
    \/ \E a \in Agent, p \in Param : \E i \in DOMAIN lines[a][p] : Deliver(a, p, i)
    \/ \E a \in Agent, p \in Param : \E i \in DOMAIN lines[a][p] : DeliverUnanswered(a, p, i)
    \/ \E a \in Agent, p \in Param : \E i \in DOMAIN lines[a][p] : GiveUpAlert(a, p, i)
    \/ \E a \in Agent : SendBatch(a)
    \/ \E a \in Agent : SeeBlock(a)
    \/ \E a \in Agent : Mine(a)
    \/ \E a \in Agent : RetryTx(a)
    \/ \E a \in Agent : DropTx(a)
    \/ \E i \in DOMAIN actions : PostLost(i)
    \/ \E i \in DOMAIN actions, missed \in SUBSET Agent : Execute(i, missed)
    \/ \E i \in DOMAIN actions : SshTimesOut(i)

\* What is under way: an alert, a batch, a transaction or an action.
Loop ==
    \/ \E a \in Agent, p \in Param :
           \E i \in DOMAIN lines[a][p] : Deliver(a, p, i) \/ GiveUpAlert(a, p, i)
    \/ \E a \in Agent : SendBatch(a) \/ Mine(a) \/ DropTx(a)
    \/ \E i \in DOMAIN actions : \/ PostLost(i) \/ SshTimesOut(i)
                                 \/ \E missed \in SUBSET Agent : Execute(i, missed)

\* It is finished or lost.
ResponseFairness == WF_responseVars(Loop)

ResponseSpec == ResponseInit /\ [][ResponseNext]_responseVars /\ ResponseFairness

-----------------------------------------------------------------------------
\* What a transaction votes.
Batches == UNION {[mask -> {0, 1}] : mask \in SUBSET Param}

\* Every variable has its type.
ResponseTypeOK ==
    /\ lines \in [Agent -> [Param -> Seq({0, 1})]]
    /\ buffer \in [Agent -> [Param -> {0, 1, NoVote}]]
    /\ lastVoted \in [Agent -> [Param -> {0, 1, NoVote}]]
    /\ sent \in [Agent -> Seq(Batches)]
    /\ ledger \in LedgerType
    /\ actions \in Seq(SUBSET Param)
    /\ acted \subseteq Param
    /\ attacks \in 0..MaxAttacks
    /\ troubles \in 0..MaxTroubles

\* Nobody takes back an attack before the actuator acted upon one of its type,
\* whatever is lost or overtaken on the way round.
ResetHasCause ==
    [][\A p \in Raised(ledger) \ Raised(ledger') : p \in acted]_responseVars

\* A confirmed attack is acted upon, unless it is taken back or something is
\* lost: it does not stay confirmed forever and unanswered.
AttacksAreAnswered ==
    \A p \in Param : []<>(p \in Raised(ledger) => p \in acted \/ troubles > 0)

\* Once the attacks are over the state is safe again and remains so, if
\* nothing was lost or repeated, no alert overtook one of its type, and no
\* attack followed the response to one of its type (troubles never decrease).
ReturnsToSafe == <>[](Raised(ledger) = {} \/ troubles > 0)
=============================================================================
