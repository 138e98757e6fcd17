------------------------------ MODULE TxSender ------------------------------
(***************************************************************************)
(* How blockchain_api.js sends batches as transactions: the queue, the     *)
(* slots, the nonces it hands out itself, and what it does about errors.   *)
(*                                                                         *)
(*   sendToBlockchain  queues a request and runs processTxQueue            *)
(*   processTxQueue    sends while there are requests and free slots, each *)
(*       with the next nonce; the events of a send free its slot           *)
(*   the error event   asks the node how many transactions of the account  *)
(*       were mined, starts over from that nonce, and queues the request   *)
(*       again after 500 ms; stressAlert asks again when it is rejected    *)
(*   the node (geth, external) takes a transaction or refuses it, and      *)
(*       mines those of an account in the order of their nonces            *)
(*                                                                         *)
(* Handlers run to their next await.  A request is the number of its call  *)
(* of sendToBlockchain.                                                    *)
(***************************************************************************)
EXTENDS Integers, Sequences, FiniteSets

CONSTANTS
    MaxConcurrentTx,  \* MAX_CONCURRENT_TX (12)
    MaxRetries,       \* MAX_RETRIES (5)
    MaxQueueLength,   \* MAX_QUEUE_LENGTH (25 000)
    Stress,           \* the requests that are sent by /stress
    MaxReqs,          \* bound on the requests
    MaxFaults         \* bound on what fails without a cause in the model

ASSUME TxSenderAssumption ==
    /\ MaxConcurrentTx \in Nat \ {0} /\ MaxRetries \in Nat
    /\ MaxQueueLength \in Nat \ {0}
    /\ MaxReqs \in Nat /\ MaxFaults \in Nat
    /\ Stress \subseteq 1..MaxReqs

VARIABLES
    reqs,           \* how many requests were made
    txQueue,        \* txQueue
    txNonce,        \* txNonce
    activeTxCount,  \* activeTxCount
    retryCount,     \* retryCount of each request
    sends,          \* the sends and their handlers, see SendType
    retrying,       \* the requests whose retry waits for its timer
    resolved,       \* the requests that were given a hash
    rejected,       \* the requests that were given up
    mined,          \* how many transactions of the account are mined
    pool,           \* the nonces of those that wait to be mined
    blind,          \* history: a count was asked for in vain
    faults,         \* how much failed so far
    taken,          \* history: how often the node took a request's votes
    late            \* history: errors of a request that had a hash

requestVars == <<reqs, retryCount, retrying, resolved, rejected>>
queueVars   == <<txQueue, txNonce, activeTxCount>>
nodeVars    == <<mined, pool, taken>>
faultVars   == <<blind, faults, late>>
senderVars  == <<requestVars, queueVars, sends, nodeVars, faultVars>>

\* A send: its request and nonce, and how far it is.  It is posted; the node took
\* it; the API learnt that it has a hash; or its handler of an error (or of a
\* rejection) has asked for the count of transactions, and the node answered.
SendType == [req : 1..MaxReqs, nonce : Nat, count : Nat,
             at  : {"posted", "taken", "hashed", "asked", "answered"}]

SenderInit ==
    /\ reqs = 0 /\ txQueue = <<>> /\ txNonce = 0 /\ activeTxCount = 0
    /\ retryCount = [r \in 1..MaxReqs |-> 0]
    /\ sends = {} /\ retrying = {} /\ resolved = {} /\ rejected = {}
    /\ mined = 0 /\ pool = {}
    /\ taken = [r \in 1..MaxReqs |-> 0]
    /\ blind = FALSE /\ faults = 0
    /\ late = [r \in 1..MaxReqs |-> 0]

At(s, place) == [s EXCEPT !.at = place]

\* s goes on to a place, or ends.
MovesTo(s, place) == (sends \ {s}) \cup {At(s, place)}

Fault == faults < MaxFaults /\ faults' = faults + 1

\* There is no mined transaction with this nonce, and none that waits.
Unused(nonce) == nonce >= mined /\ nonce \notin pool

-----------------------------------------------------------------------------
(* The API.                                                                *)

\* The requests q, of which those that find a slot are sent, if active slots
\* are taken, nonce is the next one, and S are the sends.
ProcessTxQueue(q, active, nonce, S) ==
    LET free == IF active < MaxConcurrentTx THEN MaxConcurrentTx - active ELSE 0
        n    == IF free < Len(q) THEN free ELSE Len(q)
    IN /\ txQueue' = SubSeq(q, n + 1, Len(q))
       /\ activeTxCount' = active + n
       /\ txNonce' = nonce + n
       /\ sends' = S \cup {[req |-> q[i], nonce |-> nonce + i - 1, count |-> 0,
                            at |-> "posted"] : i \in 1..n}

\* The promise of r is rejected, unless it was resolved before.  A batch is
\* forgotten, stressAlert asks for the count.
Reject(r, S) ==
    S \cup IF r \in Stress \ resolved
           THEN {[req |-> r, nonce |-> txNonce, count |-> 0, at |-> "asked"]}
           ELSE {}

\* sendToBlockchain, from processBatch or stressAlert.
SendToBlockchain ==
    LET r == reqs + 1
    IN /\ reqs < MaxReqs
       /\ reqs' = r
       /\ IF Len(txQueue) >= MaxQueueLength
          THEN /\ rejected' = rejected \cup {r}
               /\ sends' = Reject(r, sends)
               /\ UNCHANGED queueVars
          ELSE /\ ProcessTxQueue(Append(txQueue, r), activeTxCount, txNonce, sends)
               /\ UNCHANGED rejected
       /\ UNCHANGED <<retryCount, retrying, resolved, nodeVars, faultVars>>

\* Mutant: the slot is freed, and nothing takes it.
OnHash_LeavesQueue(s) ==
    /\ s.at = "taken"
    /\ resolved' = resolved \cup {s.req}
    /\ sends' = MovesTo(s, "hashed")
    /\ activeTxCount' = activeTxCount - 1
    /\ UNCHANGED <<txQueue, txNonce, reqs, retryCount, retrying, rejected, nodeVars, faultVars>>

\* on('transactionHash').
OnHash(s) ==
    /\ s.at = "taken"
    /\ resolved' = resolved \cup {s.req}
    /\ ProcessTxQueue(txQueue, activeTxCount - 1, txNonce, MovesTo(s, "hashed"))
    /\ UNCHANGED <<reqs, retryCount, retrying, rejected, nodeVars, faultVars>>

\* Mutant: the slot is freed by the event and again by its handler.
OnError_FreesTwice(s) ==
    /\ activeTxCount' = activeTxCount - 2
    /\ sends' = MovesTo(s, "asked")
    /\ UNCHANGED <<txQueue, txNonce, requestVars, nodeVars>>

\* on('error'), but for the timeout below: the handler asks for the count.  A
\* refusal changes nothing at the node, and is one step with its event.
OnError(s) ==
    /\ activeTxCount' = activeTxCount - 1
    /\ sends' = MovesTo(s, "asked")
    /\ UNCHANGED <<txQueue, txNonce, requestVars, nodeVars>>

\* The node refuses a nonce that is used: "nonce too low", "already known",
\* "replacement transaction underpriced".
OnRefusal(s) ==
    /\ s.at = "posted" /\ ~ Unused(s.nonce)
    /\ OnError(s)
    /\ UNCHANGED faultVars

\* It refuses the transaction for another reason, or is not reached.
OnFailure(s) ==
    /\ s.at = "posted"
    /\ OnError(s)
    /\ Fault
    /\ UNCHANGED <<blind, late>>

\* The node took the transaction, and the send fails later: the answer was lost,
\* or there is no receipt, or it tells that the contract reverted.
OnLateError(s) ==
    /\ s.at \in {"taken", "hashed"}
    /\ OnError(s)
    /\ Fault
    /\ late' = [late EXCEPT ![s.req] = @ + 1]
    /\ UNCHANGED blind

\* Mutant: a timeout is an error like any other.
OnBlockTimeout_Retries(s) ==
    /\ s.at = "hashed"
    /\ OnError(s)
    /\ Fault
    /\ UNCHANGED <<blind, late>>

\* on('error') of a transaction that was not mined for too many blocks.  It had
\* given its slot back when it got its hash.
OnBlockTimeout(s) ==
    /\ s.at = "hashed"
    /\ ProcessTxQueue(txQueue, activeTxCount - 1, txNonce, sends \ {s})
    /\ Fault
    /\ UNCHANGED <<requestVars, nodeVars, blind, late>>

\* What the request of a send does next: it waits for a retry, or it is given up.
\* That of a handler of a rejection was given up before.
RetryOrReject(s, nonce) ==
    \/ /\ s.req \in rejected
       /\ sends' = sends \ {s}
       /\ txNonce' = nonce
       /\ UNCHANGED <<txQueue, activeTxCount, retryCount, retrying, rejected>>
    \/ /\ s.req \notin rejected /\ retryCount[s.req] < MaxRetries
       /\ retryCount' = [retryCount EXCEPT ![s.req] = @ + 1]
       /\ retrying' = retrying \cup {s.req}
       /\ sends' = sends \ {s}
       /\ txNonce' = nonce
       /\ UNCHANGED <<txQueue, activeTxCount, rejected>>
    \/ /\ s.req \notin rejected /\ retryCount[s.req] = MaxRetries
       /\ rejected' = rejected \cup {s.req}
       /\ ProcessTxQueue(txQueue, activeTxCount, nonce, Reject(s.req, sends \ {s}))
       /\ UNCHANGED <<retryCount, retrying>>

\* Mutant: the nonce goes on, though that of the failed send was not used.
Continue_KeepsNonce(s) ==
    /\ s.at = "answered"
    /\ RetryOrReject(s, txNonce)
    /\ UNCHANGED <<reqs, resolved, nodeVars, faultVars>>

\* getTransactionCount returns, and the next nonce is the count, though others
\* may have been sent and mined since.
Continue(s) ==
    /\ s.at = "answered"
    /\ RetryOrReject(s, s.count)
    /\ UNCHANGED <<reqs, resolved, nodeVars, faultVars>>

\* It throws, and the nonce remains.
ContinueBlind(s) ==
    /\ s.at = "asked"
    /\ RetryOrReject(s, txNonce)
    /\ Fault
    /\ blind' = TRUE
    /\ UNCHANGED <<reqs, resolved, nodeVars, late>>

\* setTimeout of 500 ms: the request goes to the end, however long the queue.
Retry(r) ==
    /\ r \in retrying
    /\ retrying' = retrying \ {r}
    /\ ProcessTxQueue(Append(txQueue, r), activeTxCount, txNonce, sends)
    /\ UNCHANGED <<reqs, retryCount, resolved, rejected, nodeVars, faultVars>>

-----------------------------------------------------------------------------
(* The node.                                                               *)

Take(s) ==
    /\ s.at = "posted" /\ Unused(s.nonce)
    /\ pool' = pool \cup {s.nonce}
    /\ taken' = [taken EXCEPT ![s.req] = @ + 1]
    /\ sends' = MovesTo(s, "taken")
    /\ UNCHANGED <<requestVars, queueVars, mined, faultVars>>

\* The next transaction of the account is mined.
MineTx ==
    /\ mined \in pool
    /\ pool' = pool \ {mined}
    /\ mined' = mined + 1
    /\ UNCHANGED <<requestVars, queueVars, sends, taken, faultVars>>

\* The count, as it is when the node answers.
AnswerCount(s) ==
    /\ s.at = "asked"
    /\ sends' = (sends \ {s}) \cup {[At(s, "answered") EXCEPT !.count = mined]}
    /\ UNCHANGED <<requestVars, queueVars, nodeVars, faultVars>>

-----------------------------------------------------------------------------
SenderNext ==
    \/ SendToBlockchain
    \/ \E s \in sends : OnHash(s)
    \/ \E s \in sends : OnRefusal(s)
    \/ \E s \in sends : OnFailure(s)
    \/ \E s \in sends : OnLateError(s)
    \/ \E s \in sends : OnBlockTimeout(s)
    \/ \E s \in sends : Continue(s)
    \/ \E s \in sends : ContinueBlind(s)
    \/ \E r \in retrying : Retry(r)
    \/ \E s \in sends : Take(s)
    \/ MineTx
    \/ \E s \in sends : AnswerCount(s)

\* The API and the node go on with what was asked of them.  No fault need
\* happen, and no request need come.
Sending ==
    \/ MineTx
    \/ \E r \in retrying : Retry(r)
    \/ \E s \in sends : \/ OnHash(s) \/ OnRefusal(s) \/ Continue(s)
                        \/ Take(s) \/ AnswerCount(s)

SenderFairness == WF_senderVars(Sending)

SenderSpec == SenderInit /\ [][SenderNext]_senderVars /\ SenderFairness

-----------------------------------------------------------------------------
\* Every variable has its type.  An error after the hash frees a slot that was
\* free: the count of active sends falls below those that are active, by at
\* most one a fault, and more than MAX_CONCURRENT_TX may be sent at once.
SenderTypeOK ==
    /\ reqs \in 0..MaxReqs
    /\ txQueue \in Seq(1..MaxReqs)
    /\ txNonce \in Nat
    /\ activeTxCount \in -MaxFaults..MaxConcurrentTx
    /\ retryCount \in [1..MaxReqs -> 0..MaxRetries]
    /\ sends \subseteq SendType
    /\ retrying \subseteq 1..MaxReqs
    /\ resolved \subseteq 1..MaxReqs /\ rejected \subseteq 1..MaxReqs
    /\ mined \in Nat /\ pool \subseteq Nat
    /\ blind \in BOOLEAN /\ faults \in 0..MaxFaults
    /\ taken \in [1..MaxReqs -> Nat] /\ late \in [1..MaxReqs -> 0..MaxFaults]

\* A nonce that was handed out is with the node or will be, or the handler that
\* starts over from a smaller one is on its way: else the transactions after it
\* would wait for ever.  A count that cannot be read is the exception.
Owned(k) ==
    \/ k \in pool
    \/ \E s \in sends : /\ s.nonce = k
                        /\ s.at \in {"posted", "asked", "answered"}

NoNonceSkipped == blind \/ \A k \in mined..(txNonce - 1) : Owned(k)

\* The votes of a request are not mined twice, unless its send failed after the
\* node had taken it.
NotTwice == \A r \in 1..MaxReqs : taken[r] <= 1 + late[r]

\* Every send comes to an end, also if errors, retries and new requests meet, and
\* what the node took is mined, unless a request was given up or a count was
\* not read.
SendsEnd ==
    []<>(/\ txQueue = <<>> /\ retrying = {} /\ \A s \in sends : s.at = "hashed"
         /\ pool = {} \/ rejected # {} \/ blind)
=============================================================================
