------------------------- MODULE EventPollerProofs -------------------------
(***************************************************************************)
(* Two scripts of the Quorum lab over their suspended calls.  The poller   *)
(* skips no event, for any number of polls, blocks and failures.  The      *)
(* sender skips no nonce, has no request taken twice but for the errors    *)
(* that come after the node took it, and miscounts its slots by no more    *)
(* than the failures, for any number of requests, slots, retries and       *)
(* errors.                                                                 *)
(***************************************************************************)
EXTENDS EventPoller, TxSender, SequenceTheorems, FiniteSetTheorems, TLAPS

\* Every variable keeps its type; a poll that waits for events waits for
\* blocks of the chain.
Typed ==
    /\ TypeOK
    /\ \A t \in Poll : /\ poll[t].to <= height
                       /\ poll[t].at = "events" => poll[t].from <= poll[t].to

\* The blocks before the range a poll waits for were forwarded when it read
\* lastBlock.  So the poll may move lastBlock to the end of its range when it
\* forwarded that, back or forth.
RangesAreNext ==
    \A t \in Poll : poll[t].at = "events" =>
        \A e \in eventful : e < poll[t].from => e \in forwarded

\* The invariant.
Inv == NothingSkipped /\ RangesAreNext

-----------------------------------------------------------------------------
(* Types.                                                                  *)

\* A poll that ends leaves the polls well typed.
LEMMA Ending ==
    ASSUME Typed, NEW t \in Poll
    PROVE  LET after == [poll EXCEPT ![t] = Idle]
           IN /\ after \in [Poll -> PollType]
              /\ \A u \in Poll :
                    /\ after[u].to <= height
                    /\ after[u].at = "events" => after[u].from <= after[u].to
<1>1. Idle \in PollType
    BY EventPollerAssumption DEF EventPollerAssumption, Idle, PollType
<1>2. Idle.to <= height /\ Idle.at # "events"
    BY DEF Typed, TypeOK, Idle
<1>3. QED  BY <1>1, <1>2 DEF Typed, TypeOK

\* The strengthened type invariant is inductive.
LEMMA TypedHolds == Spec => []Typed
<1>1. Init => Typed
    BY EventPollerAssumption
    DEF EventPollerAssumption, Init, Typed, TypeOK, PollType, Idle
<1>2. Typed /\ [Next]_vars => Typed'
    <2> SUFFICES ASSUME Typed, [Next]_vars  PROVE Typed'
        OBVIOUS
    <2> USE EventPollerAssumption DEF EventPollerAssumption, Typed, TypeOK, PollType
    <2>1. ASSUME NEW events \in BOOLEAN, Mine(events)  PROVE Typed'
        BY <2>1 DEF Mine
    <2>2. ASSUME NEW t \in Poll, Start(t)  PROVE Typed'
        BY <2>2 DEF Start
    <2>3. ASSUME NEW t \in Poll, Answer(t)  PROVE Typed'
        BY <2>3 DEF Answer
    <2>4. ASSUME NEW t \in Poll, Resume(t)  PROVE Typed'
        <3>1. CASE poll[t].to <= lastBlock
            <4>1. poll' = [poll EXCEPT ![t] = Idle]  BY <2>4, <3>1 DEF Resume
            <4>2. QED  BY <2>4, <4>1, Ending DEF Resume
        <3>2. CASE ~(poll[t].to <= lastBlock)
            <4>1. poll' = [poll EXCEPT ![t].at = "events", ![t].from = lastBlock + 1]
                BY <2>4, <3>2 DEF Resume
            <4>2. lastBlock + 1 \in 0..(MaxBlocks + 1) /\ lastBlock + 1 <= poll[t].to
                BY <3>2
            <4>3. QED  BY <2>4, <4>1, <4>2 DEF Resume
        <3>3. QED  BY <3>1, <3>2
    <2>5. ASSUME NEW t \in Poll, Forward(t)  PROVE Typed'
        <3>1. poll[t].to \in 0..height  OBVIOUS
        <3>2. EventsUpTo(t, poll[t].to) \subseteq eventful  BY DEF EventsUpTo
        <3>3. QED  BY <2>5, <3>1, <3>2, Ending DEF Forward
    <2>6. ASSUME NEW t \in Poll, Fail(t)  PROVE Typed'
        <3>1. \A b : EventsUpTo(t, b) \subseteq eventful  BY DEF EventsUpTo
        <3>2. forwarded' \subseteq eventful  BY <2>6, <3>1 DEF Fail
        <3>3. failures' \in 0..MaxFailures  BY <2>6 DEF Fail
        <3>4. QED  BY <2>6, <3>2, <3>3, Ending DEF Fail
    <2>7. CASE UNCHANGED vars  BY <2>7 DEF vars
    <2>8. QED  BY <2>1, <2>2, <2>3, <2>4, <2>5, <2>6, <2>7 DEF Next
<1>3. QED  BY <1>1, <1>2, PTL DEF Spec

\* Every variable keeps its type.
THEOREM TypeCorrect == Spec => []TypeOK
BY TypedHolds, PTL DEF Typed

-----------------------------------------------------------------------------
(* Nothing skipped.                                                        *)

\* However the polls overlap and fail, every event up to lastBlock was
\* forwarded.
THEOREM EventsForwarded == Spec => []NothingSkipped
<1>1. Init => Inv
    BY DEF Init, Inv, NothingSkipped, RangesAreNext
<1>2. Typed /\ Inv /\ [Next]_vars => Inv'
    <2> SUFFICES ASSUME Typed, Inv, [Next]_vars  PROVE Inv'
        OBVIOUS
    <2> USE DEF Typed, TypeOK, PollType, Inv, NothingSkipped, RangesAreNext
    <2>1. ASSUME NEW events \in BOOLEAN, Mine(events)  PROVE Inv'
        <3>1. \A e \in eventful' : e \in eventful \/ e = height + 1
            BY <2>1 DEF Mine
        <3>2. /\ lastBlock' < height + 1
              /\ \A t \in Poll : poll'[t].at = "events" => poll'[t].from < height + 1
            BY <2>1 DEF Mine
        <3>3. QED  BY <2>1, <3>1, <3>2 DEF Mine
    <2>2. ASSUME NEW t \in Poll, Start(t)  PROVE Inv'
        BY <2>2 DEF Start
    <2>3. ASSUME NEW t \in Poll, Answer(t)  PROVE Inv'
        BY <2>3 DEF Answer
    <2>4. ASSUME NEW t \in Poll, Resume(t)  PROVE Inv'
        BY <2>4 DEF Resume, Idle
    <2>5. ASSUME NEW t \in Poll, Forward(t)  PROVE Inv'
        <3>1. \A e \in eventful : e <= poll[t].to => e \in forwarded'
            BY <2>5 DEF Forward, EventsUpTo
        <3>2. NothingSkipped'  BY <2>5, <3>1 DEF Forward
        <3>3. RangesAreNext'  BY <2>5 DEF Forward, Idle
        <3>4. QED  BY <3>2, <3>3
    <2>6. ASSUME NEW t \in Poll, Fail(t)  PROVE Inv'
        <3>1. forwarded \subseteq forwarded'
            BY <2>6 DEF Fail
        <3>2. QED  BY <2>6, <3>1 DEF Fail, Idle
    <2>7. CASE UNCHANGED vars  BY <2>7 DEF vars
    <2>8. QED  BY <2>1, <2>2, <2>3, <2>4, <2>5, <2>6, <2>7 DEF Next
<1>3. QED  BY <1>1, <1>2, TypedHolds, PTL DEF Spec, Inv

-----------------------------------------------------------------------------
(* The sender.                                                             *)

\* What the proof needs to know of the types.
SenderTypes ==
    /\ reqs \in 0..MaxReqs
    /\ txQueue \in Seq(1..MaxReqs)
    /\ txNonce \in Nat /\ activeTxCount \in Int
    /\ sends \subseteq SendType
    /\ retrying \subseteq 1..MaxReqs
    /\ mined \in Nat /\ pool \subseteq Nat

\* A count that was answered is of the past: it can be no more than the count
\* is now.
CountsArePast == \A s \in sends : s.at = "answered" => s.count <= mined

SenderInv == SenderTypes /\ CountsArePast /\ NoNonceSkipped

\* The nonces from mined to nonce - 1 have owners, if S are the sends.
AllOwned(nonce, S) ==
    \A k \in mined..(nonce - 1) :
        \/ k \in pool
        \/ \E s \in S : s.nonce = k /\ s.at \in {"posted", "asked", "answered"}

\* A send that goes on to a place remains a send.
LEMMA MovedIsSend ==
    ASSUME SenderTypes, NEW s \in sends,
           NEW place \in {"posted", "taken", "hashed", "asked", "answered"}
    PROVE  /\ At(s, place) \in SendType
           /\ At(s, place).at = place /\ At(s, place).nonce = s.nonce
           /\ MovesTo(s, place) \subseteq SendType
<1>1. s \in SendType  BY DEF SenderTypes
<1>2. /\ At(s, place) \in SendType
      /\ At(s, place).at = place /\ At(s, place).nonce = s.nonce
    BY <1>1 DEF At, SendType
<1>3. QED  BY <1>2 DEF MovesTo, SenderTypes

\* processTxQueue keeps types, and each nonce it hands out has a send.
LEMMA Handed ==
    ASSUME NEW q \in Seq(1..MaxReqs), NEW active \in Int, NEW nonce \in Nat,
           NEW S \in SUBSET SendType, ProcessTxQueue(q, active, nonce, S)
    PROVE  /\ txQueue' \in Seq(1..MaxReqs)
           /\ txNonce' \in Nat /\ activeTxCount' \in Int
           /\ sends' \subseteq SendType /\ S \subseteq sends'
           /\ \A s \in sends' \ S : s.at = "posted"
           /\ \A k \in nonce..(txNonce' - 1) :
                 \E s \in sends' : s.nonce = k /\ s.at = "posted"
<1> DEFINE free == IF active < MaxConcurrentTx THEN MaxConcurrentTx - active ELSE 0
           n    == IF free < Len(q) THEN free ELSE Len(q)
           send(i) == [req |-> q[i], nonce |-> nonce + i - 1, count |-> 0, at |-> "posted"]
<1>1. /\ txQueue' = SubSeq(q, n + 1, Len(q))
      /\ activeTxCount' = active + n /\ txNonce' = nonce + n
      /\ sends' = S \cup {send(i) : i \in 1..n}
    BY DEF ProcessTxQueue
<1>2. n \in 0..Len(q)
    BY TxSenderAssumption DEF TxSenderAssumption
<1> HIDE DEF n
<1>0. Len(q) \in Nat /\ \A i \in 1..Len(q) : q[i] \in 1..MaxReqs
    <2>1. Len(q) \in Nat /\ q \in [1..Len(q) -> 1..MaxReqs]  BY LenProperties
    <2>2. QED  BY <2>1
<1>3. txQueue' \in Seq(1..MaxReqs)
    <2>1. \A i \in (n + 1)..Len(q) : q[i] \in 1..MaxReqs
        BY <1>2, <1>0
    <2>2. n + 1 \in Int /\ Len(q) \in Int  BY <1>2, <1>0
    <2>3. QED  BY <1>1, <2>1, <2>2, SubSeqProperties
<1>4. \A i \in 1..n : send(i) \in SendType /\ send(i).at = "posted" /\ send(i).nonce = nonce + i - 1
    <2> TAKE i \in 1..n
    <2>1. i \in 1..Len(q) /\ i \in Nat \ {0}  BY <1>2, <1>0
    <2>2. q[i] \in 1..MaxReqs /\ nonce + i - 1 \in Nat  BY <2>1, <1>0
    <2>3. QED  BY <2>2 DEF SendType
<1>5. ASSUME NEW k \in nonce..(txNonce' - 1)
      PROVE  \E s \in sends' : s.nonce = k /\ s.at = "posted"
    <2>1. k - nonce + 1 \in 1..n /\ nonce + (k - nonce + 1) - 1 = k  BY <1>1, <1>2
    <2>2. QED  BY <1>1, <1>4, <2>1
<1>6. QED  BY <1>1, <1>2, <1>3, <1>4, <1>5

\* So if the nonces below the first one it hands out have owners, all have.
LEMMA HandedOn ==
    ASSUME SenderInv, NEW q \in Seq(1..MaxReqs), NEW active \in Int, NEW nonce \in Nat,
           NEW S \in SUBSET SendType, ProcessTxQueue(q, active, nonce, S),
           UNCHANGED <<mined, pool>>, reqs' \in 0..MaxReqs, retrying' \subseteq 1..MaxReqs,
           \A s \in S : s.at = "answered" => s.count <= mined,
           blind' \/ AllOwned(nonce, S)
    PROVE  SenderTypes' /\ CountsArePast' /\ NoNonceSkipped'
<1>1. SenderTypes'
    BY Handed DEF SenderInv, SenderTypes
<1>2. CountsArePast'
    BY Handed DEF CountsArePast
<1>3. ASSUME AllOwned(nonce, S), NEW k \in mined..(txNonce' - 1)
      PROVE  Owned(k)'
    <2>1. CASE k \in mined..(nonce - 1)
        <3>1. \/ k \in pool
              \/ \E s \in S : s.nonce = k /\ s.at \in {"posted", "asked", "answered"}
            BY <1>3, <2>1 DEF AllOwned
        <3>2. QED  BY <3>1, Handed DEF Owned
    <2>2. CASE k \in nonce..(txNonce' - 1)
        BY <2>2, Handed DEF Owned
    <2>3. QED  BY <1>3, <2>1, <2>2, Handed DEF SenderInv, SenderTypes
<1>4. QED  BY <1>1, <1>2, <1>3 DEF NoNonceSkipped

\* A send that goes on leaves the nonces owned, if it owned none or still does.
LEMMA MovedOn ==
    ASSUME SenderInv, NEW s \in sends,
           NEW place \in {"posted", "taken", "hashed", "asked", "answered"},
           place # "answered",
           s.at \in {"taken", "hashed"} \/ place = "asked"
    PROVE  /\ \A t \in MovesTo(s, place) : t.at = "answered" => t.count <= mined
           /\ blind \/ AllOwned(txNonce, MovesTo(s, place))
<1>1. \A t \in MovesTo(s, place) : t.at = "answered" => t.count <= mined
    BY MovedIsSend DEF SenderInv, CountsArePast, MovesTo
<1>2. ASSUME NEW k \in mined..(txNonce - 1), Owned(k)
      PROVE  \/ k \in pool
             \/ \E t \in MovesTo(s, place) : /\ t.nonce = k
                                             /\ t.at \in {"posted", "asked", "answered"}
    <2>1. CASE k \in pool  BY <2>1
    <2>2. ASSUME NEW t \in sends, t.nonce = k, t.at \in {"posted", "asked", "answered"}
          PROVE  \E u \in MovesTo(s, place) : /\ u.nonce = k
                                              /\ u.at \in {"posted", "asked", "answered"}
        BY <2>2, MovedIsSend DEF SenderInv, MovesTo
    <2>3. QED  BY <1>2, <2>1, <2>2 DEF Owned
<1>3. QED  BY <1>1, <1>2 DEF SenderInv, NoNonceSkipped, AllOwned

\* What a rejection adds to the sends is a send that was not answered.
LEMMA RejectedIsSend ==
    ASSUME SenderTypes, NEW r \in 1..MaxReqs, NEW S \in SUBSET SendType
    PROVE  /\ Reject(r, S) \subseteq SendType /\ S \subseteq Reject(r, S)
           /\ \A s \in Reject(r, S) \ S : s.at = "asked"
<1> DEFINE new == [req |-> r, nonce |-> txNonce, count |-> 0, at |-> "asked"]
<1>1. new \in SendType /\ new.at = "asked"  BY DEF SenderTypes, SendType
<1>2. Reject(r, S) \subseteq S \cup {new} /\ S \subseteq Reject(r, S)  BY DEF Reject
<1>3. QED  BY <1>1, <1>2

\* A handler that goes on with a nonce, which has no gap below it.
LEMMA ContinuedKeeps ==
    ASSUME SenderInv, NEW s \in sends, NEW nonce \in Nat, RetryOrReject(s, nonce),
           UNCHANGED <<reqs, mined, pool>>,
           blind' \/ AllOwned(nonce, {})
    PROVE  SenderInv'
<1> DEFINE rest == sends \ {s}
<1>1. s.req \in 1..MaxReqs /\ rest \subseteq SendType
    BY DEF SenderInv, SenderTypes, SendType
<1>2. \A t \in rest : t.at = "answered" => t.count <= mined
    BY DEF SenderInv, CountsArePast
<1>3. ASSUME sends' = rest, txNonce' = nonce, retrying' \subseteq 1..MaxReqs,
             UNCHANGED <<txQueue, activeTxCount>>
      PROVE  SenderInv'
    BY <1>1, <1>2, <1>3
    DEF SenderInv, SenderTypes, CountsArePast, NoNonceSkipped, AllOwned, Owned
<1>4. CASE s.req \in rejected
    BY <1>3, <1>4 DEF RetryOrReject, SenderInv, SenderTypes
<1>5. CASE s.req \notin rejected /\ retryCount[s.req] < MaxRetries
    <2>1. /\ sends' = rest /\ txNonce' = nonce /\ retrying' = retrying \cup {s.req}
          /\ UNCHANGED <<txQueue, activeTxCount>>
        BY <1>5, TxSenderAssumption DEF RetryOrReject, TxSenderAssumption
    <2>2. QED  BY <1>1, <1>3, <2>1 DEF SenderInv, SenderTypes
<1>6. CASE /\ ProcessTxQueue(txQueue, activeTxCount, nonce, Reject(s.req, rest))
           /\ UNCHANGED retrying
    <2>1. /\ Reject(s.req, rest) \subseteq SendType
          /\ \A t \in Reject(s.req, rest) : t.at = "answered" => t.count <= mined
        BY <1>1, <1>2, RejectedIsSend DEF SenderInv
    <2>2. blind' \/ AllOwned(nonce, Reject(s.req, rest))
        BY DEF AllOwned
    <2>3. QED  BY <1>6, <2>1, <2>2, HandedOn DEF SenderInv, SenderTypes
<1>7. QED  BY <1>4, <1>5, <1>6 DEF RetryOrReject

\* The invariant is inductive.
LEMMA SenderInvHolds == SenderSpec => []SenderInv
<1> USE TxSenderAssumption DEF TxSenderAssumption
<1>1. SenderInit => SenderInv
    BY DEF SenderInit, SenderInv, SenderTypes, CountsArePast, NoNonceSkipped
<1>2. SenderInv /\ [SenderNext]_senderVars => SenderInv'
    <2> SUFFICES ASSUME SenderInv, [SenderNext]_senderVars  PROVE SenderInv'
        OBVIOUS
    <2>0. SenderTypes /\ (blind \/ AllOwned(txNonce, sends))
        BY DEF SenderInv, NoNonceSkipped, AllOwned, Owned
    <2>1. CASE SendToBlockchain
        <3>1. reqs + 1 \in 1..MaxReqs /\ reqs' = reqs + 1
            BY <2>0, <2>1 DEF SendToBlockchain, SenderTypes
        <3>2. CASE Len(txQueue) >= MaxQueueLength
            <4>1. /\ sends' = Reject(reqs + 1, sends)
                  /\ UNCHANGED <<retrying, queueVars, nodeVars, faultVars>>
                BY <2>1, <3>2 DEF SendToBlockchain
            <4>2. /\ sends' \subseteq SendType
                  /\ \A t \in sends' : t.at = "answered" => t.count <= mined
                BY <2>0, <3>1, <4>1, RejectedIsSend DEF SenderInv, SenderTypes, CountsArePast
            <4>3. sends \subseteq sends'
                BY <2>0, <3>1, <4>1, RejectedIsSend DEF SenderTypes
            <4>4. QED
                BY <2>0, <3>1, <4>1, <4>2, <4>3
                DEF SenderInv, SenderTypes, CountsArePast, NoNonceSkipped, AllOwned, Owned,
                    queueVars, nodeVars, faultVars
        <3>3. CASE ~(Len(txQueue) >= MaxQueueLength)
            <4>1. /\ ProcessTxQueue(Append(txQueue, reqs + 1), activeTxCount, txNonce, sends)
                  /\ UNCHANGED <<retrying, nodeVars, faultVars>>
                BY <2>1, <3>3 DEF SendToBlockchain
            <4>2. Append(txQueue, reqs + 1) \in Seq(1..MaxReqs)
                BY <2>0, <3>1, AppendProperties DEF SenderTypes
            <4>3. /\ reqs' \in 0..MaxReqs /\ retrying' \subseteq 1..MaxReqs
                  /\ UNCHANGED <<mined, pool, blind>>
                  /\ sends \in SUBSET SendType /\ activeTxCount \in Int /\ txNonce \in Nat
                BY <2>0, <3>1, <4>1 DEF SenderTypes, nodeVars, faultVars
            <4>4. \A t \in sends : t.at = "answered" => t.count <= mined
                BY DEF SenderInv, CountsArePast
            <4>5. SenderTypes' /\ CountsArePast' /\ NoNonceSkipped'
                BY <2>0, <4>1, <4>2, <4>3, <4>4, HandedOn
            <4>6. QED  BY <4>5 DEF SenderInv
        <3>4. QED  BY <3>2, <3>3
    <2>2. ASSUME NEW s \in sends, OnHash(s)  PROVE SenderInv'
        <3>1. /\ \A t \in MovesTo(s, "hashed") : t.at = "answered" => t.count <= mined
              /\ blind \/ AllOwned(txNonce, MovesTo(s, "hashed"))
              /\ MovesTo(s, "hashed") \subseteq SendType
            BY <2>0, <2>2, MovedOn, MovedIsSend DEF OnHash
        <3>2. QED
            BY <2>0, <2>2, <3>1, HandedOn
            DEF OnHash, SenderInv, SenderTypes, nodeVars, faultVars
    <2>3. ASSUME NEW s \in sends, OnError(s), blind' = blind  PROVE SenderInv'
        <3>1. /\ sends' = MovesTo(s, "asked") /\ UNCHANGED <<requestVars, nodeVars, txNonce, txQueue>>
              /\ activeTxCount' \in Int
            BY <2>0, <2>3 DEF OnError, SenderTypes
        <3>2. /\ \A t \in sends' : t.at = "answered" => t.count <= mined
              /\ blind \/ AllOwned(txNonce, sends')
              /\ sends' \subseteq SendType
            BY <2>0, <3>1, MovedOn, MovedIsSend
        <3>3. QED
            BY <2>3, <3>1, <3>2
            DEF SenderInv, SenderTypes, CountsArePast, NoNonceSkipped, AllOwned, Owned,
                requestVars, nodeVars
    <2>4. ASSUME NEW s \in sends, OnRefusal(s) \/ OnFailure(s) \/ OnLateError(s)
          PROVE  SenderInv'
        BY <2>3, <2>4 DEF OnRefusal, OnFailure, OnLateError, faultVars
    <2>5. ASSUME NEW s \in sends, OnBlockTimeout(s)  PROVE SenderInv'
        <3> DEFINE rest == sends \ {s}
        <3>1. /\ rest \subseteq SendType
              /\ \A t \in rest : t.at = "answered" => t.count <= mined
            BY <2>0 DEF SenderInv, SenderTypes, CountsArePast
        <3>2. blind \/ AllOwned(txNonce, rest)
            BY <2>0, <2>5 DEF OnBlockTimeout, AllOwned
        <3>3. QED
            BY <2>0, <2>5, <3>1, <3>2, HandedOn
            DEF OnBlockTimeout, SenderInv, SenderTypes, requestVars, nodeVars
    <2>6. ASSUME NEW s \in sends, Continue(s)  PROVE SenderInv'
        <3>1. s.count \in Nat /\ s.count <= mined
            BY <2>0, <2>6 DEF Continue, SenderInv, CountsArePast, SenderTypes, SendType
        <3>2. AllOwned(s.count, {})
            BY <2>0, <3>1 DEF AllOwned, SenderTypes
        <3>3. QED
            BY <2>6, <3>1, <3>2, ContinuedKeeps DEF Continue, nodeVars
    <2>7. ASSUME NEW s \in sends, ContinueBlind(s)  PROVE SenderInv'
        BY <2>0, <2>7, ContinuedKeeps DEF ContinueBlind, SenderTypes, nodeVars
    <2>8. ASSUME NEW r \in retrying, Retry(r)  PROVE SenderInv'
        <3>1. Append(txQueue, r) \in Seq(1..MaxReqs)
            BY <2>0, AppendProperties DEF SenderTypes
        <3>2. QED
            BY <2>0, <2>8, <3>1, HandedOn
            DEF Retry, SenderInv, SenderTypes, CountsArePast, nodeVars, faultVars
    <2>9. ASSUME NEW s \in sends, Take(s)  PROVE SenderInv'
        <3>1. /\ sends' = MovesTo(s, "taken") /\ pool' = pool \cup {s.nonce}
              /\ s.nonce \in Nat
              /\ UNCHANGED <<reqs, retrying, queueVars, mined, blind>>
            BY <2>0, <2>9 DEF Take, requestVars, faultVars, SenderTypes, SendType
        <3>2. /\ sends' \subseteq SendType
              /\ \A t \in sends' : t \in sends \/ t.at = "taken"
            BY <2>0, <3>1, MovedIsSend DEF MovesTo
        <3>3. SenderTypes' /\ CountsArePast'
            BY <2>0, <3>1, <3>2 DEF SenderInv, SenderTypes, CountsArePast, queueVars
        <3>4. ASSUME NEW k \in Int, Owned(k)  PROVE Owned(k)'
            BY <3>1, <3>4 DEF Owned, MovesTo
        <3>5. QED
            BY <2>0, <3>1, <3>3, <3>4
            DEF SenderInv, SenderTypes, NoNonceSkipped, queueVars
    <2>10. CASE MineTx
        <3>1. /\ mined' = mined + 1 /\ pool' = pool \ {mined}
              /\ UNCHANGED <<reqs, retrying, queueVars, sends, blind>>
            BY <2>10 DEF MineTx, requestVars, faultVars
        <3>2. SenderTypes' /\ CountsArePast'
            BY <2>0, <3>1 DEF SenderInv, SenderTypes, CountsArePast, SendType, queueVars
        <3>3. \A k \in mined'..(txNonce' - 1) :
                  k \in mined..(txNonce - 1) /\ (Owned(k) => Owned(k)')
            BY <2>0, <3>1 DEF SenderTypes, Owned, queueVars
        <3>4. QED
            BY <3>1, <3>2, <3>3 DEF SenderInv, NoNonceSkipped
    <2>11. ASSUME NEW s \in sends, AnswerCount(s)  PROVE SenderInv'
        <3> DEFINE answered == [At(s, "answered") EXCEPT !.count = mined]
        <3>1. /\ sends' = (sends \ {s}) \cup {answered} /\ s.at = "asked"
              /\ UNCHANGED <<reqs, retrying, queueVars, mined, pool, blind>>
            BY <2>11 DEF AnswerCount, requestVars, nodeVars, faultVars
        <3>2. /\ answered \in SendType /\ answered.count = mined
              /\ answered.at = "answered" /\ answered.nonce = s.nonce
            BY <2>0 DEF SenderTypes, SendType, At
        <3> HIDE DEF answered
        <3>3. SenderTypes' /\ CountsArePast'
            BY <2>0, <3>1, <3>2 DEF SenderInv, SenderTypes, CountsArePast, queueVars
        <3>4. ASSUME NEW k \in Int, Owned(k)  PROVE Owned(k)'
            BY <3>1, <3>2, <3>4 DEF Owned
        <3>5. QED
            BY <2>0, <3>1, <3>3, <3>4
            DEF SenderInv, SenderTypes, NoNonceSkipped, queueVars
    <2>12. CASE UNCHANGED senderVars
        BY <2>12
        DEF senderVars, requestVars, queueVars, nodeVars, faultVars, SenderInv,
            SenderTypes, CountsArePast, NoNonceSkipped, Owned
    <2>13. QED
        BY <2>1, <2>2, <2>4, <2>5, <2>6, <2>7, <2>8, <2>9, <2>10, <2>11, <2>12
        DEF SenderNext
<1>3. QED  BY <1>1, <1>2, PTL DEF SenderSpec

\* Whatever errors, retries and new requests meet, a nonce that was handed out
\* is with the node, or under way to it, or about to be handed out again, as
\* long as each count that was asked for is answered.
THEOREM NoncesFollow == SenderSpec => []NoNonceSkipped
BY SenderInvHolds, PTL DEF SenderInv

-----------------------------------------------------------------------------
(* The steps of the sender, one at a time.                                 *)

\* The send of the i-th of the requests q, if the first has this nonce.
Posted(q, nonce, i) ==
    [req |-> q[i], nonce |-> nonce + i - 1, count |-> 0, at |-> "posted"]

\* processTxQueue sends the first n of the requests q.
Serves(q, active, nonce, S, n) ==
    /\ n \in 0..Len(q)
    /\ activeTxCount' = active + n
    /\ active <= MaxConcurrentTx => active + n <= MaxConcurrentTx
    /\ txQueue' \in Seq(1..MaxReqs) /\ Len(txQueue') = Len(q) - n
    /\ \A i \in 1..Len(txQueue') : txQueue'[i] = q[n + i]
    /\ sends' = S \cup {Posted(q, nonce, i) : i \in 1..n}

LEMMA Served ==
    ASSUME NEW q \in Seq(1..MaxReqs), NEW active \in Int, NEW nonce \in Nat, NEW S,
           ProcessTxQueue(q, active, nonce, S)
    PROVE  \E n \in Nat : Serves(q, active, nonce, S, n)
<1> DEFINE free == IF active < MaxConcurrentTx THEN MaxConcurrentTx - active ELSE 0
           n    == IF free < Len(q) THEN free ELSE Len(q)
<1>1. /\ txQueue' = SubSeq(q, n + 1, Len(q))
      /\ activeTxCount' = active + n
      /\ sends' = S \cup {Posted(q, nonce, i) : i \in 1..n}
    BY DEF ProcessTxQueue, Posted
<1>2. Len(q) \in Nat /\ \A i \in 1..Len(q) : q[i] \in 1..MaxReqs
    <2>1. Len(q) \in Nat /\ q \in [1..Len(q) -> 1..MaxReqs]  BY LenProperties
    <2>2. QED  BY <2>1
<1>3. /\ n \in 0..Len(q)
      /\ active <= MaxConcurrentTx => active + n <= MaxConcurrentTx
    BY <1>2, TxSenderAssumption DEF TxSenderAssumption
<1> HIDE DEF n
<1>4. n + 1 \in Int /\ Len(q) \in Int /\ \A i \in (n + 1)..Len(q) : q[i] \in 1..MaxReqs
    BY <1>2, <1>3
<1>5. /\ txQueue' \in Seq(1..MaxReqs)
      /\ Len(txQueue') = IF n + 1 <= Len(q) THEN Len(q) - (n + 1) + 1 ELSE 0
      /\ \A i \in 1..(Len(q) - (n + 1) + 1) : txQueue'[i] = q[n + 1 + i - 1]
    BY <1>1, <1>4, SubSeqProperties
<1>6. Len(txQueue') = Len(q) - n  BY <1>2, <1>3, <1>5
<1>7. \A i \in 1..Len(txQueue') : txQueue'[i] = q[n + i]
    <2> TAKE i \in 1..Len(txQueue')
    <2>1. i \in 1..(Len(q) - (n + 1) + 1) /\ n + 1 + i - 1 = n + i  BY <1>2, <1>3, <1>6
    <2>2. QED  BY <1>5, <2>1
<1>8. n \in Nat  BY <1>2, <1>3
<1>9. QED  BY <1>1, <1>3, <1>5, <1>6, <1>7, <1>8 DEF Serves

-----------------------------------------------------------------------------
(* Counters.                                                               *)

\* What is not in SenderTypes.  Each error of a request that had a hash was a
\* fault of its own.
CounterTypes ==
    /\ retryCount \in [1..MaxReqs -> 0..MaxRetries]
    /\ resolved \subseteq 1..MaxReqs /\ rejected \subseteq 1..MaxReqs
    /\ faults \in 0..MaxFaults
    /\ taken \in [1..MaxReqs -> Nat] /\ late \in [1..MaxReqs -> Nat]
    /\ \A r \in 1..MaxReqs : late[r] <= faults

\* What a handler that goes on does to the counters.
LEMMA ContinuedCounters ==
    ASSUME SenderTypes, CounterTypes, NEW s \in sends, NEW nonce, RetryOrReject(s, nonce)
    PROVE  /\ retryCount' \in [1..MaxReqs -> 0..MaxRetries]
           /\ rejected' \subseteq 1..MaxReqs
<1>1. s.req \in 1..MaxReqs  BY DEF SenderTypes, SendType
<1>2. /\ retryCount \in [1..MaxReqs -> 0..MaxRetries] /\ rejected \subseteq 1..MaxReqs
      /\ retryCount[s.req] \in 0..MaxRetries /\ MaxRetries \in Nat
    BY <1>1, TxSenderAssumption DEF CounterTypes, TxSenderAssumption
<1>3. CASE UNCHANGED <<retryCount, rejected>>
    BY <1>2, <1>3
<1>4. CASE /\ retryCount[s.req] < MaxRetries /\ UNCHANGED rejected
           /\ retryCount' = [retryCount EXCEPT ![s.req] = @ + 1]
    <2>1. retryCount[s.req] + 1 \in 0..MaxRetries  BY <1>2, <1>4
    <2>2. QED  BY <1>2, <1>4, <2>1
<1>5. CASE UNCHANGED retryCount /\ rejected' = rejected \cup {s.req}
    BY <1>1, <1>2, <1>5
<1>6. QED  BY <1>3, <1>4, <1>5 DEF RetryOrReject

LEMMA CounterTypesHold == SenderSpec => []CounterTypes
<1> USE TxSenderAssumption DEF TxSenderAssumption
<1>1. SenderInit => CounterTypes
    BY DEF SenderInit, CounterTypes
<1>2. SenderInv /\ CounterTypes /\ [SenderNext]_senderVars => CounterTypes'
    <2> SUFFICES ASSUME SenderTypes, CounterTypes, [SenderNext]_senderVars
                 PROVE  CounterTypes'
        BY DEF SenderInv
    <2>0. \A s \in sends : s.req \in 1..MaxReqs  BY DEF SenderTypes, SendType
    <2>1. CASE SendToBlockchain
        <3>1. reqs + 1 \in 1..MaxReqs
            BY <2>1 DEF SendToBlockchain, SenderTypes
        <3>2. rejected' \subseteq rejected \cup {reqs + 1}
            BY <2>1 DEF SendToBlockchain
        <3>3. UNCHANGED <<retryCount, resolved, taken, faultVars>>
            BY <2>1 DEF SendToBlockchain, nodeVars
        <3>4. QED  BY <3>1, <3>2, <3>3 DEF CounterTypes, faultVars
    <2>2. ASSUME NEW s \in sends, OnHash(s)  PROVE CounterTypes'
        BY <2>0, <2>2 DEF OnHash, CounterTypes, nodeVars, faultVars
    <2>3. ASSUME NEW s \in sends, OnRefusal(s)  PROVE CounterTypes'
        BY <2>3 DEF OnRefusal, OnError, CounterTypes, requestVars, nodeVars, faultVars
    <2>4. ASSUME NEW s \in sends, OnFailure(s)  PROVE CounterTypes'
        BY <2>4 DEF OnFailure, OnError, Fault, CounterTypes, requestVars, nodeVars
    <2>5. ASSUME NEW s \in sends, OnLateError(s)  PROVE CounterTypes'
        <3>1. /\ UNCHANGED <<retryCount, resolved, rejected, blind, taken>>
              /\ faults' = faults + 1 /\ faults < MaxFaults
              /\ late' = [late EXCEPT ![s.req] = @ + 1]
            BY <2>5 DEF OnLateError, OnError, Fault, requestVars, nodeVars
        <3>2. /\ faults' \in 0..MaxFaults /\ late' \in [1..MaxReqs -> Nat]
              /\ \A r \in 1..MaxReqs : late'[r] <= faults'
            <4>1. s.req \in 1..MaxReqs /\ late \in [1..MaxReqs -> Nat]
                BY <2>0 DEF CounterTypes
            <4>2. late' \in [1..MaxReqs -> Nat]  BY <3>1, <4>1
            <4>3. faults \in 0..MaxFaults /\ faults' \in 0..MaxFaults
                BY <3>1 DEF CounterTypes
            <4>4. ASSUME NEW r \in 1..MaxReqs  PROVE late'[r] <= faults'
                <5>1. late[r] \in Nat /\ late[r] <= faults  BY DEF CounterTypes
                <5>2. late'[r] = late[r] \/ late'[r] = late[r] + 1  BY <3>1, <4>1
                <5>3. QED  BY <3>1, <4>3, <5>1, <5>2
            <4>5. QED  BY <4>2, <4>3, <4>4
        <3>3. QED  BY <3>1, <3>2 DEF CounterTypes
    <2>6. ASSUME NEW s \in sends, OnBlockTimeout(s)  PROVE CounterTypes'
        BY <2>6 DEF OnBlockTimeout, Fault, CounterTypes, requestVars, nodeVars
    <2>7. ASSUME NEW s \in sends, Continue(s)  PROVE CounterTypes'
        BY <2>7, ContinuedCounters DEF Continue, CounterTypes, nodeVars, faultVars
    <2>8. ASSUME NEW s \in sends, ContinueBlind(s)  PROVE CounterTypes'
        <3>1. /\ RetryOrReject(s, txNonce) /\ UNCHANGED <<resolved, taken, late>>
              /\ faults < MaxFaults /\ faults' = faults + 1
            BY <2>8 DEF ContinueBlind, Fault, nodeVars
        <3>2. /\ retryCount' \in [1..MaxReqs -> 0..MaxRetries]
              /\ rejected' \subseteq 1..MaxReqs
            BY <3>1, ContinuedCounters
        <3>3. faults' \in 0..MaxFaults /\ \A r \in 1..MaxReqs : late[r] <= faults'
            BY <3>1 DEF CounterTypes
        <3>4. /\ resolved' \subseteq 1..MaxReqs
              /\ taken' \in [1..MaxReqs -> Nat] /\ late' \in [1..MaxReqs -> Nat]
            BY <3>1 DEF CounterTypes
        <3>5. QED  BY <3>1, <3>2, <3>3, <3>4 DEF CounterTypes
    <2>9. ASSUME NEW r \in retrying, Retry(r)  PROVE CounterTypes'
        BY <2>9 DEF Retry, CounterTypes, nodeVars, faultVars
    <2>10. ASSUME NEW s \in sends, Take(s)  PROVE CounterTypes'
        <3>1. /\ taken' = [taken EXCEPT ![s.req] = @ + 1] /\ s.req \in 1..MaxReqs
              /\ UNCHANGED <<retryCount, resolved, rejected, faults, late>>
            BY <2>0, <2>10 DEF Take, requestVars, faultVars
        <3>2. taken \in [1..MaxReqs -> Nat] /\ taken[s.req] \in Nat
            BY <3>1 DEF CounterTypes
        <3>3. taken' \in [1..MaxReqs -> Nat]  BY <3>1, <3>2
        <3>4. QED  BY <3>1, <3>3 DEF CounterTypes
    <2>11. CASE MineTx
        BY <2>11 DEF MineTx, CounterTypes, requestVars, faultVars
    <2>12. ASSUME NEW s \in sends, AnswerCount(s)  PROVE CounterTypes'
        BY <2>12 DEF AnswerCount, CounterTypes, requestVars, nodeVars, faultVars
    <2>13. CASE UNCHANGED senderVars
        BY <2>13 DEF senderVars, CounterTypes, requestVars, nodeVars, faultVars
    <2>14. QED
        BY <2>1, <2>2, <2>3, <2>4, <2>5, <2>6, <2>7, <2>8, <2>9, <2>10, <2>11, <2>12, <2>13
        DEF SenderNext
<1>3. QED  BY <1>1, <1>2, SenderInvHolds, PTL DEF SenderSpec

-----------------------------------------------------------------------------
(* Slots, and with them the types.                                         *)

\* The sends of S that no event has freed the slot of.
Active(S) == {s \in S : s.at \in {"posted", "taken"}}

\* Each takes a slot of its own, but for one a fault: an error after the hash
\* frees a slot a second time.
SlotsAreCounted ==
    /\ IsFiniteSet(sends)
    /\ activeTxCount <= MaxConcurrentTx
    /\ Cardinality(Active(sends)) <= activeTxCount + faults

\* The active sends of a finite set are a finite number.
LEMMA ActiveAreFinite ==
    ASSUME NEW S, IsFiniteSet(S)
    PROVE  IsFiniteSet(Active(S)) /\ Cardinality(Active(S)) \in Nat
BY FS_Subset, FS_CardinalityType DEF Active

\* processTxQueue counts a slot for each request it sends.
LEMMA ServedTakesSlots ==
    ASSUME NEW q \in Seq(1..MaxReqs), NEW active \in Int, NEW nonce \in Nat, NEW S,
           ProcessTxQueue(q, active, nonce, S), IsFiniteSet(S),
           NEW f \in Nat, active <= MaxConcurrentTx,
           Cardinality(Active(S)) <= active + f
    PROVE  /\ IsFiniteSet(sends')
           /\ activeTxCount' <= MaxConcurrentTx
           /\ Cardinality(Active(sends')) <= activeTxCount' + f
<1>1. PICK n \in Nat : Serves(q, active, nonce, S, n)
    BY Served
<1> DEFINE new == {Posted(q, nonce, i) : i \in 1..n}
           send == [i \in 1..n |-> Posted(q, nonce, i)]
<1>2. IsFiniteSet(new) /\ Cardinality(new) <= n /\ Cardinality(new) \in Nat
    <2>1. IsFiniteSet(1..n) /\ Cardinality(1..n) = n  BY FS_Interval
    <2>2. send \in Surjection(1..n, new)  BY DEF Surjection
    <2>3. IsFiniteSet(new) /\ Cardinality(new) <= Cardinality(1..n)
        BY <2>1, <2>2, FS_Surjection
    <2>4. QED  BY <2>1, <2>3, FS_CardinalityType
<1>3. sends' = S \cup new /\ Active(sends') = Active(S) \cup new
    BY <1>1 DEF Serves, Active, Posted
<1> HIDE DEF new
<1>4. IsFiniteSet(sends')  BY <1>2, <1>3, FS_Union
<1>5. Cardinality(Active(sends')) <= Cardinality(Active(S)) + n
    <2>1. IsFiniteSet(Active(S)) /\ Cardinality(Active(S)) \in Nat  BY ActiveAreFinite
    <2>2. Cardinality(Active(S) \cup new)
              = Cardinality(Active(S)) + Cardinality(new) - Cardinality(Active(S) \cap new)
        BY <1>2, <2>1, FS_Union
    <2>3. Cardinality(Active(S) \cap new) \in Nat
        BY <2>1, FS_Subset, FS_CardinalityType
    <2>4. Cardinality(Active(S)) + Cardinality(new) - Cardinality(Active(S) \cap new)
              <= Cardinality(Active(S)) + n
        BY <1>2, <2>1, <2>3
    <2>5. QED  BY <1>3, <2>2, <2>4
<1>6. activeTxCount' = active + n /\ activeTxCount' <= MaxConcurrentTx
    BY <1>1 DEF Serves
<1>7. Cardinality(Active(S)) \in Nat /\ Cardinality(Active(sends')) \in Nat
    BY <1>4, ActiveAreFinite
<1>8. QED  BY <1>4, <1>5, <1>6, <1>7

\* A send that goes on to a place, or ends, stays active, becomes inactive or
\* was inactive.
LEMMA MovedIsCounted ==
    ASSUME SlotsAreCounted, SenderTypes, NEW s \in sends, NEW u, NEW S,
           S = sends \ {s} \/ S = (sends \ {s}) \cup {u},
           u.at \in {"posted", "taken"} => s.at \in {"posted", "taken"}
    PROVE  /\ IsFiniteSet(S)
           /\ Cardinality(Active(S)) <= Cardinality(Active(sends))
           /\ s.at \in {"posted", "taken"} /\ u.at \notin {"posted", "taken"}
              => Cardinality(Active(S)) = Cardinality(Active(sends)) - 1
<1> DEFINE rest == Active(sends) \ {s}
<1>1. IsFiniteSet(Active(sends)) /\ Cardinality(Active(sends)) \in Nat
    BY ActiveAreFinite DEF SlotsAreCounted
<1>2. IsFiniteSet(S)
    <2>1. IsFiniteSet(sends \ {s})  BY FS_RemoveElement DEF SlotsAreCounted
    <2>2. IsFiniteSet((sends \ {s}) \cup {u})  BY <2>1, FS_AddElement, Zenon
    <2>3. QED  BY <2>1, <2>2
<1>3. /\ IsFiniteSet(rest) /\ Cardinality(rest) \in Nat
      /\ Cardinality(rest) = IF s \in Active(sends) THEN Cardinality(Active(sends)) - 1
                                                    ELSE Cardinality(Active(sends))
    BY <1>1, FS_RemoveElement, FS_CardinalityType
<1> HIDE DEF rest
<1>4. CASE S = (sends \ {s}) \cup {u} /\ u.at \in {"posted", "taken"}
    <2>1. Active(S) = rest \cup {u} /\ s \in Active(sends)  BY <1>4 DEF Active, rest
    <2>2. Cardinality(rest \cup {u}) <= Cardinality(rest) + 1
        <3>1. Cardinality(rest \cup {u}) = IF u \in rest THEN Cardinality(rest)
                                                         ELSE Cardinality(rest) + 1
            BY <1>3, FS_AddElement, Zenon
        <3>2. QED  BY <1>3, <3>1
    <2>3. Cardinality(rest) = Cardinality(Active(sends)) - 1  BY <1>3, <2>1
    <2>4. Cardinality(rest) + 1 = Cardinality(Active(sends))  BY <1>1, <2>3
    <2>5. Cardinality(Active(S)) <= Cardinality(Active(sends))  BY <2>1, <2>2, <2>4
    <2>6. QED  BY <1>2, <1>4, <2>5
<1>5. CASE ~(S = (sends \ {s}) \cup {u} /\ u.at \in {"posted", "taken"})
    <2>1. Active(S) = rest  BY <1>5 DEF Active, rest
    <2>2. s \in Active(sends) <=> s.at \in {"posted", "taken"}  BY DEF Active
    <2>3. QED  BY <1>1, <1>2, <1>3, <2>1, <2>2
<1>6. QED  BY <1>4, <1>5

\* A rejection adds a send that is not active.
LEMMA RejectedIsCounted ==
    ASSUME NEW r, NEW S, IsFiniteSet(S)
    PROVE  IsFiniteSet(Reject(r, S)) /\ Active(Reject(r, S)) = Active(S)
<1> DEFINE new == [req |-> r, nonce |-> txNonce, count |-> 0, at |-> "asked"]
<1>1. Reject(r, S) = S \/ Reject(r, S) = S \cup {new}  BY DEF Reject
<1>2. IsFiniteSet(S \cup {new})  BY FS_AddElement, Zenon
<1>3. Active(Reject(r, S)) = Active(S)  BY <1>1 DEF Active
<1>4. QED  BY <1>1, <1>2, <1>3

\* A handler that goes on keeps the count of slots.
LEMMA ContinuedIsCounted ==
    ASSUME SlotsAreCounted, SenderTypes, faults \in Nat, faults' \in Nat, faults <= faults',
           NEW s \in sends, NEW nonce \in Nat, RetryOrReject(s, nonce)
    PROVE  SlotsAreCounted'
<1> DEFINE rest == sends \ {s}
<1>0. activeTxCount \in Int /\ txQueue \in Seq(1..MaxReqs)  BY DEF SenderTypes
<1>1. /\ IsFiniteSet(rest) /\ Cardinality(Active(rest)) \in Nat
      /\ Cardinality(Active(rest)) <= Cardinality(Active(sends))
      /\ Cardinality(Active(sends)) \in Nat
    BY MovedIsCounted, ActiveAreFinite DEF SlotsAreCounted
<1>2. Cardinality(Active(rest)) <= activeTxCount + faults
    BY <1>0, <1>1 DEF SlotsAreCounted
<1> HIDE DEF rest
<1>3. CASE sends' = rest /\ UNCHANGED activeTxCount
    <2>1. Cardinality(Active(rest)) <= activeTxCount + faults'  BY <1>0, <1>1, <1>2
    <2>2. QED  BY <1>1, <1>3, <2>1 DEF SlotsAreCounted
<1>4. CASE ProcessTxQueue(txQueue, activeTxCount, nonce, Reject(s.req, rest))
    <2>1. IsFiniteSet(Reject(s.req, rest)) /\ Active(Reject(s.req, rest)) = Active(rest)
        BY <1>1, RejectedIsCounted
    <2>2. /\ IsFiniteSet(sends')
          /\ activeTxCount' <= MaxConcurrentTx
          /\ Cardinality(Active(sends')) <= activeTxCount' + faults
        BY <1>0, <1>2, <1>4, <2>1, ServedTakesSlots DEF SlotsAreCounted
    <2>3. Cardinality(Active(sends')) \in Nat /\ activeTxCount' \in Int
        <3>1. PICK n \in Nat : activeTxCount' = activeTxCount + n
            BY <1>0, <1>4, Served DEF Serves
        <3>2. QED  BY <1>0, <2>2, <3>1, ActiveAreFinite
    <2>4. QED  BY <2>2, <2>3 DEF SlotsAreCounted
<1>5. QED  BY <1>3, <1>4 DEF RetryOrReject, rest

LEMMA SlotsHold == SenderSpec => []SlotsAreCounted
<1> USE TxSenderAssumption DEF TxSenderAssumption
<1>1. SenderInit => SlotsAreCounted
    <2>1. Active({}) = {}  BY DEF Active
    <2>2. QED  BY <2>1, FS_EmptySet DEF SenderInit, SlotsAreCounted
<1>2. SenderInv /\ CounterTypes /\ CounterTypes' /\ SlotsAreCounted /\ [SenderNext]_senderVars
          => SlotsAreCounted'
    <2> SUFFICES ASSUME SenderTypes, CounterTypes, CounterTypes', SlotsAreCounted,
                        [SenderNext]_senderVars
                 PROVE  SlotsAreCounted'
        BY DEF SenderInv
    <2>0. /\ activeTxCount \in Int /\ txQueue \in Seq(1..MaxReqs) /\ txNonce \in Nat
          /\ faults \in Nat /\ faults' \in Nat
          /\ IsFiniteSet(sends) /\ Cardinality(Active(sends)) \in Nat
          /\ activeTxCount <= MaxConcurrentTx
          /\ Cardinality(Active(sends)) <= activeTxCount + faults
        BY ActiveAreFinite DEF SenderTypes, CounterTypes, SlotsAreCounted
    <2>1. CASE SendToBlockchain
        <3>1. faults' = faults  BY <2>1 DEF SendToBlockchain, faultVars
        <3>2. CASE Len(txQueue) >= MaxQueueLength
            <4>1. sends' = Reject(reqs + 1, sends) /\ activeTxCount' = activeTxCount
                BY <2>1, <3>2 DEF SendToBlockchain, queueVars
            <4>2. QED  BY <2>0, <3>1, <4>1, RejectedIsCounted DEF SlotsAreCounted
        <3>3. CASE ~(Len(txQueue) >= MaxQueueLength)
            <4>1. ProcessTxQueue(Append(txQueue, reqs + 1), activeTxCount, txNonce, sends)
                BY <2>1, <3>3 DEF SendToBlockchain
            <4>2. Append(txQueue, reqs + 1) \in Seq(1..MaxReqs)
                BY <2>0, <2>1, AppendProperties DEF SendToBlockchain, SenderTypes
            <4>3. QED  BY <2>0, <3>1, <4>1, <4>2, ServedTakesSlots DEF SlotsAreCounted
        <3>4. QED  BY <3>2, <3>3
    <2>2. ASSUME NEW s \in sends, OnHash(s)  PROVE SlotsAreCounted'
        <3> DEFINE rest == MovesTo(s, "hashed")
        <3>1. /\ s.at = "taken" /\ faults' = faults
              /\ ProcessTxQueue(txQueue, activeTxCount - 1, txNonce, rest)
            BY <2>2 DEF OnHash, faultVars
        <3>2. rest = (sends \ {s}) \cup {At(s, "hashed")} /\ At(s, "hashed").at = "hashed"
            BY MovedIsSend DEF MovesTo
        <3>3. /\ IsFiniteSet(rest)
              /\ Cardinality(Active(rest)) = Cardinality(Active(sends)) - 1
            BY <3>1, <3>2, MovedIsCounted
        <3> HIDE DEF rest
        <3>4. Cardinality(Active(rest)) <= (activeTxCount - 1) + faults
            BY <2>0, <3>3
        <3>5. activeTxCount - 1 \in Int /\ activeTxCount - 1 <= MaxConcurrentTx
            BY <2>0
        <3>6. QED  BY <2>0, <3>1, <3>3, <3>4, <3>5, ServedTakesSlots DEF SlotsAreCounted
    <2>3. ASSUME NEW s \in sends, OnError(s),
                 s.at \in {"posted", "taken"} \/ faults' = faults + 1, faults <= faults'
          PROVE  SlotsAreCounted'
        <3>1. /\ sends' = (sends \ {s}) \cup {At(s, "asked")} /\ At(s, "asked").at = "asked"
              /\ activeTxCount' = activeTxCount - 1
            BY <2>3, MovedIsSend DEF OnError, MovesTo
        <3>2. /\ IsFiniteSet(sends')
              /\ Cardinality(Active(sends')) <= Cardinality(Active(sends))
              /\ s.at \in {"posted", "taken"}
                 => Cardinality(Active(sends')) = Cardinality(Active(sends)) - 1
            BY <3>1, MovedIsCounted
        <3>3. Cardinality(Active(sends')) \in Nat  BY <3>2, ActiveAreFinite
        <3>4. Cardinality(Active(sends')) <= activeTxCount' + faults'
            BY <2>0, <2>3, <3>1, <3>2, <3>3
        <3>5. activeTxCount' <= MaxConcurrentTx  BY <2>0, <3>1
        <3>6. QED  BY <3>2, <3>4, <3>5 DEF SlotsAreCounted
    <2>4. ASSUME NEW s \in sends, OnRefusal(s) \/ OnFailure(s) \/ OnLateError(s)
          PROVE  SlotsAreCounted'
        <3>1. OnError(s)  BY <2>4 DEF OnRefusal, OnFailure, OnLateError
        <3>2. (s.at = "posted" /\ faults' = faults) \/ faults' = faults + 1
            BY <2>4 DEF OnRefusal, OnFailure, OnLateError, Fault, faultVars
        <3>3. QED  BY <2>0, <2>3, <3>1, <3>2
    <2>5. ASSUME NEW s \in sends, OnBlockTimeout(s)  PROVE SlotsAreCounted'
        <3> DEFINE rest == sends \ {s}
        <3>1. /\ ProcessTxQueue(txQueue, activeTxCount - 1, txNonce, rest)
              /\ faults' = faults + 1
            BY <2>5 DEF OnBlockTimeout, Fault
        <3>2. /\ IsFiniteSet(rest)
              /\ Cardinality(Active(rest)) <= Cardinality(Active(sends))
            BY MovedIsCounted
        <3> HIDE DEF rest
        <3>3. Cardinality(Active(rest)) \in Nat  BY <3>2, ActiveAreFinite
        <3>4. Cardinality(Active(rest)) <= (activeTxCount - 1) + faults'
            BY <2>0, <3>1, <3>2, <3>3
        <3>5. activeTxCount - 1 \in Int /\ activeTxCount - 1 <= MaxConcurrentTx
            BY <2>0
        <3>6. QED  BY <2>0, <3>1, <3>2, <3>4, <3>5, ServedTakesSlots DEF SlotsAreCounted
    <2>6. ASSUME NEW s \in sends, Continue(s)  PROVE SlotsAreCounted'
        <3>1. /\ RetryOrReject(s, s.count) /\ faults' = faults /\ s.count \in Nat
            BY <2>6 DEF Continue, faultVars, SenderTypes, SendType
        <3>2. QED  BY <2>0, <3>1, ContinuedIsCounted
    <2>7. ASSUME NEW s \in sends, ContinueBlind(s)  PROVE SlotsAreCounted'
        <3>1. RetryOrReject(s, txNonce) /\ faults' = faults + 1
            BY <2>7 DEF ContinueBlind, Fault
        <3>2. QED  BY <2>0, <3>1, ContinuedIsCounted
    <2>8. ASSUME NEW r \in retrying, Retry(r)  PROVE SlotsAreCounted'
        <3>1. ProcessTxQueue(Append(txQueue, r), activeTxCount, txNonce, sends) /\ faults' = faults
            BY <2>8 DEF Retry, faultVars
        <3>2. Append(txQueue, r) \in Seq(1..MaxReqs)
            BY <2>0, AppendProperties DEF SenderTypes
        <3>3. QED  BY <2>0, <3>1, <3>2, ServedTakesSlots DEF SlotsAreCounted
    <2>9. ASSUME NEW s \in sends, NEW u, sends' = (sends \ {s}) \cup {u},
                 u.at \in {"posted", "taken"} => s.at \in {"posted", "taken"},
                 UNCHANGED <<activeTxCount, faults>>
          PROVE  SlotsAreCounted'
        <3>1. /\ IsFiniteSet(sends')
              /\ Cardinality(Active(sends')) <= Cardinality(Active(sends))
            BY <2>9, MovedIsCounted
        <3>2. Cardinality(Active(sends')) \in Nat  BY <3>1, ActiveAreFinite
        <3>3. Cardinality(Active(sends')) <= activeTxCount + faults
            BY <2>0, <3>1, <3>2
        <3>4. QED  BY <2>0, <2>9, <3>1, <3>3 DEF SlotsAreCounted
    <2>10. ASSUME NEW s \in sends, Take(s)  PROVE SlotsAreCounted'
        <3>1. s.at = "posted" /\ sends' = (sends \ {s}) \cup {At(s, "taken")}
            BY <2>10 DEF Take, MovesTo
        <3>2. QED  BY <2>9, <2>10, <3>1 DEF Take, queueVars, faultVars
    <2>11. ASSUME NEW s \in sends, AnswerCount(s)  PROVE SlotsAreCounted'
        <3> DEFINE answered == [At(s, "answered") EXCEPT !.count = mined]
        <3>1. sends' = (sends \ {s}) \cup {answered}  BY <2>11 DEF AnswerCount
        <3>2. answered.at = "answered"  BY DEF At, SenderTypes, SendType
        <3> HIDE DEF answered
        <3>3. QED  BY <2>9, <2>11, <3>1, <3>2 DEF AnswerCount, queueVars, faultVars
    <2>12. CASE MineTx \/ UNCHANGED senderVars
        <3>1. UNCHANGED <<sends, activeTxCount, faults>>
            BY <2>12 DEF MineTx, senderVars, queueVars, faultVars
        <3>2. QED  BY <3>1 DEF SlotsAreCounted, Active
    <2>13. QED
        BY <2>1, <2>2, <2>4, <2>5, <2>6, <2>7, <2>8, <2>10, <2>11, <2>12 DEF SenderNext
<1>3. QED  BY <1>1, <1>2, SenderInvHolds, CounterTypesHold, PTL DEF SenderSpec

\* Whether a count was asked for in vain is a truth value.
BlindIsTyped == blind \in BOOLEAN

LEMMA BlindHolds == SenderSpec => []BlindIsTyped
<1>1. SenderInit => BlindIsTyped  BY DEF SenderInit, BlindIsTyped
<1>2. BlindIsTyped /\ [SenderNext]_senderVars => BlindIsTyped'
    <2> SUFFICES ASSUME BlindIsTyped, [SenderNext]_senderVars  PROVE BlindIsTyped'
        OBVIOUS
    <2>1. blind' = blind \/ blind' = TRUE
        BY DEF SenderNext, SendToBlockchain, OnHash, OnRefusal, OnFailure, OnLateError,
               OnBlockTimeout, Continue, ContinueBlind, Retry, Take, MineTx, AnswerCount,
               senderVars, faultVars
    <2>2. QED  BY <2>1 DEF BlindIsTyped
<1>3. QED  BY <1>1, <1>2, PTL DEF SenderSpec

\* Every variable of the sender has its type: no more slots are counted than
\* MAX_CONCURRENT_TX, and no fewer than minus the faults, whatever frees them twice.
THEOREM SenderTypeCorrect == SenderSpec => []SenderTypeOK
<1>1. SenderTypes /\ CounterTypes /\ SlotsAreCounted /\ BlindIsTyped => SenderTypeOK
    <2> SUFFICES ASSUME SenderTypes, CounterTypes, SlotsAreCounted, BlindIsTyped
                 PROVE  SenderTypeOK
        OBVIOUS
    <2>1. activeTxCount \in -MaxFaults..MaxConcurrentTx
        <3>1. Cardinality(Active(sends)) \in Nat
            BY ActiveAreFinite DEF SlotsAreCounted
        <3>2. QED
            BY <3>1, TxSenderAssumption
            DEF TxSenderAssumption, SlotsAreCounted, SenderTypes, CounterTypes
    <2>2. late \in [1..MaxReqs -> 0..MaxFaults]
        <3>1. \A r \in 1..MaxReqs : late[r] \in 0..MaxFaults
            BY TxSenderAssumption DEF TxSenderAssumption, CounterTypes
        <3>2. QED  BY <3>1 DEF CounterTypes
    <2>3. QED  BY <2>1, <2>2 DEF SenderTypes, CounterTypes, BlindIsTyped, SenderTypeOK
<1>2. QED
    BY <1>1, SenderInvHolds, CounterTypesHold, SlotsHold, BlindHolds, PTL DEF SenderInv

\* MAX_CONCURRENT_TX is not kept, since an error after the hash frees a slot
\* that was free; but no more sends than the failures so far are above it.
THEOREM SlotsOverrun == SenderSpec => [](Cardinality(Active(sends)) <= MaxConcurrentTx + faults)
<1>1. SenderTypes /\ CounterTypes /\ SlotsAreCounted
          => Cardinality(Active(sends)) <= MaxConcurrentTx + faults
    <2> SUFFICES ASSUME SenderTypes, CounterTypes, SlotsAreCounted
                 PROVE  Cardinality(Active(sends)) <= MaxConcurrentTx + faults
        OBVIOUS
    <2>1. Cardinality(Active(sends)) \in Nat  BY ActiveAreFinite DEF SlotsAreCounted
    <2>2. QED
        BY <2>1, TxSenderAssumption
        DEF TxSenderAssumption, SlotsAreCounted, SenderTypes, CounterTypes
<1>2. QED  BY <1>1, SenderInvHolds, CounterTypesHold, SlotsHold, PTL DEF SenderInv

-----------------------------------------------------------------------------
(* Once at a time.                                                         *)

Queued(q) == {q[i] : i \in 1..Len(q)}

\* A request is in one place: once in the queue q, or among those R that wait
\* for their retry, or it has one send of S.
OnePlaceEach(q, R, S) ==
    /\ \A i, j \in 1..Len(q) : q[i] = q[j] => i = j
    /\ \A i \in 1..Len(q) : q[i] \notin R /\ \A s \in S : s.req # q[i]
    /\ \A s \in S : s.req \notin R
    /\ \A s, t \in S : s.req = t.req => s = t

\* The requests that are in some place.
Held(q, R, S) == Queued(q) \cup R \cup {s.req : s \in S}

\* Those the node can yet be asked to take, if the requests X are given up.
Pending(q, R, S, X) ==
    Queued(q) \cup R \cup {s.req : s \in {t \in S :
        t.at = "posted" \/ (t.at \in {"asked", "answered"} /\ t.req \notin X)}}

HeldNow    == Held(txQueue, retrying, sends)
PendingNow == Pending(txQueue, retrying, sends, rejected)

InOnePlace ==
    /\ OnePlaceEach(txQueue, retrying, sends)
    /\ \A r \in HeldNow : r <= reqs

\* The node is asked again only for a request that failed after it was taken.
TakenIsPast ==
    \A r \in 1..MaxReqs : /\ taken[r] <= 1 + late[r]
                          /\ r \in PendingNow => taken[r] <= late[r]
                          /\ r > reqs => taken[r] = 0

\* processTxQueue moves requests from the queue to sends, and duplicates none.
LEMMA ServedOnce ==
    ASSUME NEW q \in Seq(1..MaxReqs), NEW active \in Int, NEW nonce \in Nat,
           NEW S, NEW R, NEW X, ProcessTxQueue(q, active, nonce, S),
           OnePlaceEach(q, R, S)
    PROVE  /\ OnePlaceEach(txQueue', R, sends')
           /\ Held(txQueue', R, sends') \subseteq Held(q, R, S)
           /\ Pending(txQueue', R, sends', X) \subseteq Pending(q, R, S, X)
<1>1. PICK n \in Nat : Serves(q, active, nonce, S, n)
    BY Served
<1>2. /\ Len(q) \in Nat /\ n \in 0..Len(q)
      /\ Len(txQueue') \in Nat /\ Len(txQueue') = Len(q) - n
    BY <1>1, LenProperties DEF Serves
<1>3. \A i \in 1..Len(txQueue') : /\ n + i \in 1..Len(q) /\ n + i > n
                                  /\ txQueue'[i] = q[n + i]
    BY <1>1, <1>2 DEF Serves
<1>4. \A s \in sends' : \/ s \in S
                        \/ \E i \in 1..n : s = Posted(q, nonce, i)
    BY <1>1 DEF Serves
<1>5. \A i \in 1..n : /\ i \in 1..Len(q)
                      /\ Posted(q, nonce, i).req = q[i] /\ Posted(q, nonce, i).at = "posted"
    BY <1>2 DEF Posted
<1>6. OnePlaceEach(txQueue', R, sends')
    <2>1. ASSUME NEW i \in 1..Len(txQueue'), NEW j \in 1..Len(txQueue'),
                 txQueue'[i] = txQueue'[j]
          PROVE  i = j
        <3>1. n + i = n + j  BY <1>3, <2>1 DEF OnePlaceEach
        <3>2. QED  BY <1>2, <3>1
    <2>2. ASSUME NEW i \in 1..Len(txQueue')
          PROVE  txQueue'[i] \notin R /\ \A s \in sends' : s.req # txQueue'[i]
        <3>1. txQueue'[i] \notin R  BY <1>3 DEF OnePlaceEach
        <3>2. \A s \in S : s.req # txQueue'[i]  BY <1>3 DEF OnePlaceEach
        <3>3. \A j \in 1..n : q[j] # txQueue'[i]
            <4> SUFFICES ASSUME NEW j \in 1..n, q[j] = q[n + i]  PROVE FALSE
                BY <1>3
            <4>1. j = n + i  BY <1>3, <1>5 DEF OnePlaceEach
            <4>2. QED  BY <1>2, <4>1
        <3>4. QED  BY <1>4, <1>5, <3>1, <3>2, <3>3
    <2>3. ASSUME NEW s \in sends'  PROVE s.req \notin R
        BY <1>4, <1>5 DEF OnePlaceEach
    <2>4. ASSUME NEW s \in sends', NEW t \in sends', s.req = t.req  PROVE s = t
        <3>1. CASE s \in S /\ t \in S  BY <2>4, <3>1 DEF OnePlaceEach
        <3>2. ASSUME NEW i \in 1..n, s = Posted(q, nonce, i),
                     NEW j \in 1..n, t = Posted(q, nonce, j)
              PROVE  s = t
            BY <1>5, <2>4, <3>2 DEF OnePlaceEach
        <3>3. ASSUME NEW i \in 1..n, NEW u \in S  PROVE u.req # Posted(q, nonce, i).req
            BY <1>5 DEF OnePlaceEach
        <3>4. QED  BY <1>4, <2>4, <3>1, <3>2, <3>3
    <2>5. QED  BY <2>1, <2>2, <2>3, <2>4 DEF OnePlaceEach
<1>7. Queued(txQueue') \subseteq Queued(q)  BY <1>3 DEF Queued
<1>8. \A s \in sends' : s \in S \/ (s.at = "posted" /\ s.req \in Queued(q))
    BY <1>4, <1>5 DEF Queued
<1>9. QED  BY <1>6, <1>7, <1>8 DEF Held, Pending

\* A request that is in no place may be queued.
LEMMA QueuedOnce ==
    ASSUME NEW q \in Seq(1..MaxReqs), NEW r \in 1..MaxReqs, NEW R, NEW S, NEW X,
           OnePlaceEach(q, R, S), r \notin Held(q, R, S)
    PROVE  /\ Append(q, r) \in Seq(1..MaxReqs)
           /\ OnePlaceEach(Append(q, r), R, S)
           /\ Held(Append(q, r), R, S) = Held(q, R, S) \cup {r}
           /\ Pending(Append(q, r), R, S, X) = Pending(q, R, S, X) \cup {r}
<1> DEFINE p == Append(q, r)
<1>1. /\ p \in Seq(1..MaxReqs) /\ Len(q) \in Nat /\ Len(p) = Len(q) + 1
      /\ \A i \in 1..Len(q) : p[i] = q[i]
      /\ p[Len(q) + 1] = r
    BY AppendProperties, LenProperties
<1> HIDE DEF p
<1>2. 1..Len(p) = 1..Len(q) \cup {Len(q) + 1} /\ Len(q) + 1 \notin 1..Len(q)
    BY <1>1
<1>3. Queued(p) = Queued(q) \cup {r}  BY <1>1, <1>2 DEF Queued
<1>4. \A i \in 1..Len(q) : p[i] # r
    BY <1>1 DEF Held, Queued
<1>5. r \notin R /\ \A s \in S : s.req # r  BY DEF Held
<1>6. OnePlaceEach(p, R, S)
    BY <1>1, <1>2, <1>4, <1>5 DEF OnePlaceEach
<1>7. QED  BY <1>1, <1>3, <1>6 DEF Held, Pending, p

\* The sends after s ended, and after s went on and is u.
Without(s)  == sends \ {s}
Moved(s, u) == (sends \ {s}) \cup {u}

LEMMA EndedOnce ==
    ASSUME OnePlaceEach(txQueue, retrying, sends), NEW s \in sends
    PROVE  /\ OnePlaceEach(txQueue, retrying, Without(s))
           /\ s.req \notin Held(txQueue, retrying, Without(s))
           /\ HeldNow = Held(txQueue, retrying, Without(s)) \cup {s.req}
           /\ Pending(txQueue, retrying, Without(s), rejected) \subseteq PendingNow
<1>1. OnePlaceEach(txQueue, retrying, Without(s))  BY DEF OnePlaceEach, Without
<1>2. s.req \notin Held(txQueue, retrying, Without(s))
    BY DEF OnePlaceEach, Held, Queued, Without
<1>3. HeldNow = Held(txQueue, retrying, Without(s)) \cup {s.req}
    BY DEF HeldNow, Held, Without
<1>4. Pending(txQueue, retrying, Without(s), rejected) \subseteq PendingNow
    BY DEF PendingNow, Pending, Without
<1>5. QED  BY <1>1, <1>2, <1>3, <1>4

LEMMA MovedOnce ==
    ASSUME OnePlaceEach(txQueue, retrying, sends), NEW s \in sends, NEW u, u.req = s.req
    PROVE  /\ OnePlaceEach(txQueue, retrying, Moved(s, u))
           /\ Held(txQueue, retrying, Moved(s, u)) = HeldNow
           /\ Pending(txQueue, retrying, Moved(s, u), rejected)
                 \subseteq PendingNow \cup {s.req}
           /\ u.at = "taken" \/ u.at = "hashed" =>
                 Pending(txQueue, retrying, Moved(s, u), rejected)
                     = Pending(txQueue, retrying, Without(s), rejected)
           /\ s.at = "posted" \/ (s.at = "asked" /\ u.at = "answered") =>
                 Pending(txQueue, retrying, Moved(s, u), rejected) \subseteq PendingNow
<1> DEFINE pending == Pending(txQueue, retrying, Moved(s, u), rejected)
<1>1. OnePlaceEach(txQueue, retrying, Moved(s, u))  BY DEF OnePlaceEach, Moved
<1>2. Held(txQueue, retrying, Moved(s, u)) = HeldNow  BY DEF HeldNow, Held, Moved
<1>3. pending \subseteq PendingNow \cup {s.req}
    BY DEF PendingNow, Pending, Moved
<1>4. ASSUME u.at = "taken" \/ u.at = "hashed"
      PROVE  pending = Pending(txQueue, retrying, Without(s), rejected)
    BY <1>4 DEF Pending, Moved, Without
<1>5. ASSUME s.at = "posted" \/ (s.at = "asked" /\ u.at = "answered")
      PROVE  pending \subseteq PendingNow
    BY <1>5 DEF PendingNow, Pending, Moved
<1>6. QED  BY <1>1, <1>2, <1>3, <1>4, <1>5

\* If no request can be taken that could not before, but for a new one, the
\* counts of the past remain right.
LEMMA NothingTaken ==
    ASSUME CounterTypes, reqs \in Nat, reqs' \in Nat, reqs <= reqs', TakenIsPast,
           \A r \in PendingNow' : r \in PendingNow \/ r > reqs,
           UNCHANGED <<taken, late>>
    PROVE  TakenIsPast'
<1>1. ASSUME NEW r \in 1..MaxReqs
      PROVE  /\ taken[r] <= 1 + late[r]
             /\ r \in PendingNow' => taken[r] <= late[r]
             /\ r > reqs' => taken[r] = 0
    <2>1. r \in Nat /\ late[r] \in Nat /\ taken[r] \in Nat  BY DEF CounterTypes
    <2>2. /\ taken[r] <= 1 + late[r]
          /\ r \in PendingNow => taken[r] <= late[r]
          /\ r > reqs => taken[r] = 0
        BY DEF TakenIsPast
    <2>3. ASSUME r \in PendingNow'  PROVE taken[r] <= late[r]
        <3>1. r \in PendingNow \/ r > reqs  BY <2>3
        <3>2. QED  BY <2>1, <2>2, <3>1
    <2>4. r > reqs' => r > reqs  BY <2>1
    <2>5. QED  BY <2>2, <2>3, <2>4
<1>2. QED  BY <1>1 DEF TakenIsPast

\* A handler that goes on moves its request, to the retries or nowhere.
LEMMA ContinuedOnce ==
    ASSUME SenderTypes, CounterTypes, InOnePlace, TakenIsPast,
           NEW s \in sends, NEW nonce \in Nat, RetryOrReject(s, nonce),
           s.at \in {"asked", "answered"}, UNCHANGED <<reqs, taken, late>>
    PROVE  InOnePlace' /\ TakenIsPast'
<1> DEFINE rest == Without(s)
           again == [req |-> s.req, nonce |-> txNonce, count |-> 0, at |-> "asked"]
           after == Reject(s.req, rest)
<1>1. /\ OnePlaceEach(txQueue, retrying, rest)
      /\ s.req \notin Held(txQueue, retrying, rest)
      /\ HeldNow = Held(txQueue, retrying, rest) \cup {s.req}
      /\ Pending(txQueue, retrying, rest, rejected) \subseteq PendingNow
    <2>1. OnePlaceEach(txQueue, retrying, sends)  BY DEF InOnePlace
    <2>2. QED  BY <2>1, EndedOnce
<1>2. SUFFICES /\ OnePlaceEach(txQueue', retrying', sends')
               /\ HeldNow' \subseteq HeldNow /\ PendingNow' \subseteq PendingNow
    BY NothingTaken DEF InOnePlace, SenderTypes
<1>3. CASE s.req \in rejected
    BY <1>1, <1>3 DEF RetryOrReject, HeldNow, PendingNow, Without
<1>4. CASE /\ s.req \notin rejected /\ retrying' = retrying \cup {s.req}
           /\ sends' = rest /\ UNCHANGED <<txQueue, rejected>>
    <2>1. OnePlaceEach(txQueue, retrying \cup {s.req}, rest)
        BY <1>1 DEF OnePlaceEach, Held, Queued
    <2>2. Held(txQueue, retrying \cup {s.req}, rest) = Held(txQueue, retrying, rest) \cup {s.req}
        BY DEF Held
    <2>3. Pending(txQueue, retrying \cup {s.req}, rest, rejected)
              = Pending(txQueue, retrying, rest, rejected) \cup {s.req}
        BY DEF Pending
    <2>4. s.req \in PendingNow  BY <1>4 DEF PendingNow, Pending
    <2>5. QED  BY <1>1, <1>4, <2>1, <2>2, <2>3, <2>4 DEF HeldNow, PendingNow
<1>5. CASE /\ rejected' = rejected \cup {s.req} /\ UNCHANGED retrying
           /\ ProcessTxQueue(txQueue, activeTxCount, nonce, after)
    <2>1. after = rest \/ after = rest \cup {again}  BY DEF Reject
    <2>2. OnePlaceEach(txQueue, retrying, after) /\ Held(txQueue, retrying, after) \subseteq HeldNow
        <3>1. again.req = s.req  OBVIOUS
        <3> HIDE DEF again
        <3>2. /\ OnePlaceEach(txQueue, retrying, rest \cup {again})
              /\ Held(txQueue, retrying, rest \cup {again}) = HeldNow
            <4>1. OnePlaceEach(txQueue, retrying, sends)  BY DEF InOnePlace
            <4>2. rest \cup {again} = Moved(s, again)  BY DEF Without, Moved
            <4>3. QED  BY <3>1, <4>1, <4>2, MovedOnce
        <3>3. QED  BY <1>1, <2>1, <3>2
    <2>3. Pending(txQueue, retrying, after, rejected') \subseteq PendingNow
        <3>1. again.req = s.req /\ again.at = "asked" /\ again.req \in rejected'  BY <1>5
        <3> HIDE DEF again
        <3>2. \A t \in after : t \in rest \/ (t.at = "asked" /\ t.req \in rejected')
            BY <2>1, <3>1
        <3>3. \A t \in rest : t.req \notin rejected' => t.req \notin rejected  BY <1>5
        <3>4. Pending(txQueue, retrying, after, rejected')
                  \subseteq Pending(txQueue, retrying, rest, rejected)
            BY <3>2, <3>3 DEF Pending
        <3>5. QED  BY <1>1, <3>4
    <2> HIDE DEF after
    <2>4. /\ OnePlaceEach(txQueue', retrying, sends')
          /\ Held(txQueue', retrying, sends') \subseteq Held(txQueue, retrying, after)
          /\ Pending(txQueue', retrying, sends', rejected')
                 \subseteq Pending(txQueue, retrying, after, rejected')
        BY <1>5, <2>2, ServedOnce DEF SenderTypes
    <2>5. QED  BY <1>5, <2>2, <2>3, <2>4 DEF HeldNow, PendingNow
<1>6. QED  BY <1>3, <1>4, <1>5 DEF RetryOrReject, Without

\* The invariant.
TakenInv == InOnePlace /\ TakenIsPast

LEMMA TakenInvHolds == SenderSpec => []TakenInv
<1> USE TxSenderAssumption DEF TxSenderAssumption
<1>1. SenderInit => TakenInv
    BY DEF SenderInit, TakenInv, InOnePlace, OnePlaceEach, HeldNow, Held, Queued, TakenIsPast
<1>2. SenderInv /\ CounterTypes /\ TakenInv /\ [SenderNext]_senderVars => TakenInv'
    <2> SUFFICES ASSUME SenderTypes, CounterTypes, InOnePlace, TakenIsPast,
                        [SenderNext]_senderVars
                 PROVE  InOnePlace' /\ TakenIsPast'
        BY DEF SenderInv, TakenInv
    <2>0. /\ reqs \in Nat /\ activeTxCount \in Int /\ txNonce \in Nat
          /\ txQueue \in Seq(1..MaxReqs)
          /\ OnePlaceEach(txQueue, retrying, sends)
        BY DEF SenderTypes, InOnePlace
    <2>same. ASSUME UNCHANGED <<reqs, taken, late>>,
                 OnePlaceEach(txQueue', retrying', sends'),
                 HeldNow' \subseteq HeldNow, PendingNow' \subseteq PendingNow
          PROVE  InOnePlace' /\ TakenIsPast'
        BY <2>0, <2>same, NothingTaken DEF InOnePlace
    <2>1. CASE SendToBlockchain
        <3> DEFINE r == reqs + 1
        <3>1. /\ r \in 1..MaxReqs /\ reqs' = r /\ UNCHANGED <<retrying, taken, late>>
              /\ r \notin HeldNow
            BY <2>0, <2>1 DEF SendToBlockchain, nodeVars, faultVars, InOnePlace
        <3>2. SUFFICES /\ OnePlaceEach(txQueue', retrying', sends')
                       /\ HeldNow' \subseteq HeldNow \cup {r}
                       /\ PendingNow' \subseteq PendingNow \cup {r}
            <4>0. r = reqs + 1  OBVIOUS
            <4> HIDE DEF r
            <4>1. InOnePlace'
                <5>1. reqs' = reqs + 1 /\ \A p \in HeldNow : p <= reqs
                    BY <3>1, <4>0 DEF InOnePlace
                <5>2. HeldNow \subseteq 1..MaxReqs
                    <6>1. \A i \in 1..Len(txQueue) : txQueue[i] \in 1..MaxReqs
                        BY <2>0, LenProperties
                    <6>2. QED  BY <6>1 DEF HeldNow, Held, Queued, SenderTypes, SendType
                <5>3. \A p \in HeldNow' : p <= reqs'
                    BY <2>0, <3>2, <4>0, <5>1, <5>2
                <5>4. QED  BY <3>2, <5>3 DEF InOnePlace
            <4>2. \A p \in PendingNow' : p \in PendingNow \/ p > reqs
                BY <2>0, <3>1, <3>2, <4>0
            <4>3. reqs' \in Nat /\ reqs <= reqs'  BY <2>0, <3>1, <4>0
            <4>4. QED  BY <2>0, <3>1, <4>1, <4>2, <4>3, NothingTaken
        <3> HIDE DEF r
        <3>3. CASE Len(txQueue) >= MaxQueueLength
            <4> DEFINE new == [req |-> r, nonce |-> txNonce, count |-> 0, at |-> "asked"]
            <4>1. /\ sends' = sends \/ sends' = sends \cup {new}
                  /\ rejected' = rejected \cup {r} /\ UNCHANGED txQueue
                BY <2>1, <3>3 DEF SendToBlockchain, Reject, queueVars, r
            <4>2. new.req = r  OBVIOUS
            <4> HIDE DEF new
            <4>3. OnePlaceEach(txQueue', retrying', sends')
                BY <2>0, <3>1, <4>1, <4>2 DEF OnePlaceEach, HeldNow, Held, Queued
            <4>4. HeldNow' \subseteq HeldNow \cup {r}
                BY <3>1, <4>1, <4>2 DEF HeldNow, Held
            <4>5. PendingNow' \subseteq PendingNow \cup {r}
                BY <3>1, <4>1, <4>2 DEF PendingNow, Pending
            <4>6. QED  BY <4>3, <4>4, <4>5
        <3>4. CASE ~(Len(txQueue) >= MaxQueueLength)
            <4>1. /\ ProcessTxQueue(Append(txQueue, r), activeTxCount, txNonce, sends)
                  /\ UNCHANGED rejected
                BY <2>1, <3>4 DEF SendToBlockchain, r
            <4>2. /\ Append(txQueue, r) \in Seq(1..MaxReqs)
                  /\ OnePlaceEach(Append(txQueue, r), retrying, sends)
                  /\ Held(Append(txQueue, r), retrying, sends) = HeldNow \cup {r}
                  /\ Pending(Append(txQueue, r), retrying, sends, rejected) = PendingNow \cup {r}
                BY <2>0, <3>1, QueuedOnce DEF HeldNow, PendingNow
            <4>3. /\ OnePlaceEach(txQueue', retrying, sends')
                  /\ Held(txQueue', retrying, sends') \subseteq HeldNow \cup {r}
                  /\ Pending(txQueue', retrying, sends', rejected) \subseteq PendingNow \cup {r}
                BY <2>0, <4>1, <4>2, ServedOnce
            <4>4. QED  BY <3>1, <4>1, <4>3 DEF HeldNow, PendingNow
        <3>5. QED  BY <3>3, <3>4
    <2>2. ASSUME NEW s \in sends, OnHash(s)  PROVE InOnePlace' /\ TakenIsPast'
        <3> DEFINE after == MovesTo(s, "hashed")
        <3>1. /\ ProcessTxQueue(txQueue, activeTxCount - 1, txNonce, after)
              /\ UNCHANGED <<reqs, retrying, rejected, taken, late>>
              /\ activeTxCount - 1 \in Int
            BY <2>0, <2>2 DEF OnHash, nodeVars, faultVars
        <3>2. /\ after = Moved(s, At(s, "hashed"))
              /\ At(s, "hashed").req = s.req /\ At(s, "hashed").at = "hashed"
            BY DEF MovesTo, Moved, At, SenderTypes, SendType
        <3> HIDE DEF after
        <3>3. /\ OnePlaceEach(txQueue, retrying, after)
              /\ Held(txQueue, retrying, after) = HeldNow
              /\ Pending(txQueue, retrying, after, rejected) \subseteq PendingNow
            BY <2>0, <3>2, EndedOnce, MovedOnce
        <3>4. /\ OnePlaceEach(txQueue', retrying, sends')
              /\ Held(txQueue', retrying, sends') \subseteq HeldNow
              /\ Pending(txQueue', retrying, sends', rejected) \subseteq PendingNow
            BY <2>0, <3>1, <3>3, ServedOnce
        <3>5. QED  BY <2>same, <3>1, <3>4 DEF HeldNow, PendingNow
    <2>3. ASSUME NEW s \in sends, OnError(s)
          PROVE  /\ OnePlaceEach(txQueue', retrying', sends')
                 /\ HeldNow' = HeldNow
                 /\ PendingNow' \subseteq PendingNow \cup {s.req}
                 /\ s.at = "posted" => PendingNow' \subseteq PendingNow
                 /\ UNCHANGED <<reqs, taken>>
        <3>1. /\ sends' = Moved(s, At(s, "asked")) /\ At(s, "asked").req = s.req
              /\ UNCHANGED <<txQueue, retrying, rejected, reqs, taken>>
            BY <2>3 DEF OnError, MovesTo, Moved, At, SenderTypes, SendType, requestVars, nodeVars
        <3>2. /\ OnePlaceEach(txQueue, retrying, sends')
              /\ Held(txQueue, retrying, sends') = HeldNow
              /\ Pending(txQueue, retrying, sends', rejected) \subseteq PendingNow \cup {s.req}
              /\ s.at = "posted" =>
                    Pending(txQueue, retrying, sends', rejected) \subseteq PendingNow
            BY <2>0, <3>1, MovedOnce
        <3>3. QED  BY <3>1, <3>2 DEF HeldNow, PendingNow
    <2>4. ASSUME NEW s \in sends, OnRefusal(s) \/ OnFailure(s)
          PROVE  InOnePlace' /\ TakenIsPast'
        <3>1. OnError(s) /\ s.at = "posted" /\ UNCHANGED late
            BY <2>4 DEF OnRefusal, OnFailure, faultVars
        <3>2. QED  BY <2>3, <2>same, <3>1
    <2>5. ASSUME NEW s \in sends, OnLateError(s)  PROVE InOnePlace' /\ TakenIsPast'
        <3>1. OnError(s) /\ late' = [late EXCEPT ![s.req] = @ + 1]
            BY <2>5 DEF OnLateError
        <3>2. InOnePlace'  BY <2>3, <3>1 DEF InOnePlace
        <3>3. ASSUME NEW r \in 1..MaxReqs
              PROVE  /\ taken'[r] <= 1 + late'[r]
                     /\ r \in PendingNow' => taken'[r] <= late'[r]
                     /\ r > reqs' => taken'[r] = 0
            <4>1. /\ taken' = taken /\ reqs' = reqs
                  /\ late[r] \in Nat /\ taken[r] \in Nat
                  /\ late'[r] = IF r = s.req THEN late[r] + 1 ELSE late[r]
                BY <2>3, <3>1 DEF CounterTypes
            <4>2. r \in PendingNow' => r \in PendingNow \/ r = s.req
                BY <2>3, <3>1
            <4>3. QED  BY <4>1, <4>2 DEF TakenIsPast
        <3>4. QED  BY <3>2, <3>3 DEF TakenIsPast
    <2>6. ASSUME NEW s \in sends, OnBlockTimeout(s)  PROVE InOnePlace' /\ TakenIsPast'
        <3> DEFINE rest == Without(s)
        <3>1. /\ ProcessTxQueue(txQueue, activeTxCount - 1, txNonce, rest)
              /\ UNCHANGED <<reqs, retrying, rejected, taken, late>>
              /\ activeTxCount - 1 \in Int
            BY <2>0, <2>6 DEF OnBlockTimeout, requestVars, nodeVars, Without
        <3>2. /\ OnePlaceEach(txQueue, retrying, rest)
              /\ Held(txQueue, retrying, rest) \subseteq HeldNow
              /\ Pending(txQueue, retrying, rest, rejected) \subseteq PendingNow
            BY <2>0, EndedOnce
        <3> HIDE DEF rest
        <3>3. /\ OnePlaceEach(txQueue', retrying, sends')
              /\ Held(txQueue', retrying, sends') \subseteq HeldNow
              /\ Pending(txQueue', retrying, sends', rejected) \subseteq PendingNow
            BY <2>0, <3>1, <3>2, ServedOnce
        <3>4. QED  BY <2>same, <3>1, <3>3 DEF HeldNow, PendingNow
    <2>7. ASSUME NEW s \in sends, Continue(s)  PROVE InOnePlace' /\ TakenIsPast'
        <3>1. s.count \in Nat  BY DEF SenderTypes, SendType
        <3>2. QED  BY <2>7, <3>1, ContinuedOnce DEF Continue, nodeVars, faultVars
    <2>8. ASSUME NEW s \in sends, ContinueBlind(s)  PROVE InOnePlace' /\ TakenIsPast'
        BY <2>0, <2>8, ContinuedOnce DEF ContinueBlind, nodeVars
    <2>9. ASSUME NEW r \in retrying, Retry(r)  PROVE InOnePlace' /\ TakenIsPast'
        <3> DEFINE R == retrying \ {r}
        <3>1. /\ ProcessTxQueue(Append(txQueue, r), activeTxCount, txNonce, sends)
              /\ retrying' = R /\ UNCHANGED <<reqs, rejected, taken, late>>
            BY <2>9 DEF Retry, nodeVars, faultVars
        <3>2. /\ OnePlaceEach(txQueue, R, sends) /\ r \notin Held(txQueue, R, sends)
              /\ r \in 1..MaxReqs
              /\ Held(txQueue, R, sends) \cup {r} = HeldNow
              /\ Pending(txQueue, R, sends, rejected) \cup {r} = PendingNow
            BY <2>0 DEF OnePlaceEach, SenderTypes, HeldNow, Held, Queued, PendingNow, Pending
        <3> HIDE DEF R
        <3>3. /\ Append(txQueue, r) \in Seq(1..MaxReqs)
              /\ OnePlaceEach(Append(txQueue, r), R, sends)
              /\ Held(Append(txQueue, r), R, sends) = HeldNow
              /\ Pending(Append(txQueue, r), R, sends, rejected) = PendingNow
            <4>1. /\ Append(txQueue, r) \in Seq(1..MaxReqs)
                  /\ OnePlaceEach(Append(txQueue, r), R, sends)
                  /\ Held(Append(txQueue, r), R, sends) = Held(txQueue, R, sends) \cup {r}
                  /\ Pending(Append(txQueue, r), R, sends, rejected)
                         = Pending(txQueue, R, sends, rejected) \cup {r}
                BY <2>0, <3>2, QueuedOnce
            <4>2. QED  BY <3>2, <4>1
        <3>4. /\ OnePlaceEach(txQueue', R, sends')
              /\ Held(txQueue', R, sends') \subseteq HeldNow
              /\ Pending(txQueue', R, sends', rejected) \subseteq PendingNow
            BY <2>0, <3>1, <3>3, ServedOnce
        <3>5. QED  BY <2>same, <3>1, <3>4 DEF HeldNow, PendingNow
    <2>10. ASSUME NEW s \in sends, Take(s)  PROVE InOnePlace' /\ TakenIsPast'
        <3>1. /\ sends' = Moved(s, At(s, "taken")) /\ s.at = "posted"
              /\ At(s, "taken").req = s.req /\ At(s, "taken").at = "taken"
              /\ taken' = [taken EXCEPT ![s.req] = @ + 1] /\ s.req \in 1..MaxReqs
              /\ UNCHANGED <<reqs, txQueue, retrying, rejected, late>>
            BY <2>10
            DEF Take, MovesTo, Moved, At, SenderTypes, SendType, requestVars, queueVars,
                faultVars
        <3>2. /\ OnePlaceEach(txQueue, retrying, sends')
              /\ HeldNow' = HeldNow
              /\ PendingNow' \subseteq PendingNow
              /\ PendingNow' = Pending(txQueue, retrying, Without(s), rejected)
            <4>1. /\ OnePlaceEach(txQueue, retrying, sends')
                  /\ Held(txQueue, retrying, sends') = HeldNow
                  /\ Pending(txQueue, retrying, Without(s), rejected) \subseteq PendingNow
                  /\ Pending(txQueue, retrying, sends', rejected)
                         = Pending(txQueue, retrying, Without(s), rejected)
                BY <2>0, <3>1, EndedOnce, MovedOnce
            <4>2. QED  BY <3>1, <4>1 DEF HeldNow, PendingNow
        <3>3. s.req \notin PendingNow' /\ s.req \in PendingNow
            <4>1. s.req \notin Held(txQueue, retrying, Without(s))  BY <2>0, EndedOnce
            <4>2. QED  BY <3>1, <3>2, <4>1 DEF PendingNow, Pending, Held
        <3>4. s.req <= reqs  BY DEF InOnePlace, HeldNow, Held
        <3>5. InOnePlace'  BY <3>1, <3>2 DEF InOnePlace
        <3>6. ASSUME NEW r \in 1..MaxReqs
              PROVE  /\ taken'[r] <= 1 + late[r]
                     /\ r \in PendingNow' => taken'[r] <= late[r]
                     /\ r > reqs => taken'[r] = 0
            <4>1. /\ late[r] \in Nat /\ taken[r] \in Nat
                  /\ taken'[r] = IF r = s.req THEN taken[r] + 1 ELSE taken[r]
                BY <3>1 DEF CounterTypes
            <4>2. /\ taken[r] <= 1 + late[r]
                  /\ r \in PendingNow => taken[r] <= late[r]
                  /\ r > reqs => taken[r] = 0
                BY DEF TakenIsPast
            <4>3. CASE r = s.req
                <5>1. ~(r > reqs)  BY <2>0, <3>1, <3>4, <4>3
                <5>2. QED  BY <3>3, <4>1, <4>2, <4>3, <5>1
            <4>4. CASE r # s.req  BY <3>2, <4>1, <4>2, <4>4
            <4>5. QED  BY <4>3, <4>4
        <3>7. QED  BY <3>1, <3>5, <3>6 DEF TakenIsPast
    <2>11. ASSUME NEW s \in sends, AnswerCount(s)  PROVE InOnePlace' /\ TakenIsPast'
        <3> DEFINE answered == [At(s, "answered") EXCEPT !.count = mined]
        <3>1. /\ sends' = Moved(s, answered) /\ s.at = "asked"
              /\ UNCHANGED <<reqs, txQueue, retrying, rejected, taken, late>>
            BY <2>11 DEF AnswerCount, Moved, requestVars, queueVars, nodeVars, faultVars
        <3>2. answered.req = s.req /\ answered.at = "answered"
            BY DEF At, SenderTypes, SendType
        <3> HIDE DEF answered
        <3>3. /\ OnePlaceEach(txQueue, retrying, sends')
              /\ Held(txQueue, retrying, sends') = HeldNow
              /\ Pending(txQueue, retrying, sends', rejected) \subseteq PendingNow
            BY <2>0, <3>1, <3>2, MovedOnce
        <3>4. QED  BY <2>same, <3>1, <3>3 DEF HeldNow, PendingNow
    <2>12. CASE MineTx \/ UNCHANGED senderVars
        <3>1. UNCHANGED <<reqs, txQueue, retrying, sends, rejected, taken, late>>
            BY <2>12
            DEF MineTx, senderVars, requestVars, queueVars, nodeVars, faultVars
        <3>2. QED  BY <2>0, <2>same, <3>1 DEF HeldNow, PendingNow
    <2>13. QED
        BY <2>1, <2>2, <2>4, <2>5, <2>6, <2>7, <2>8, <2>9, <2>10, <2>11, <2>12
        DEF SenderNext
<1>3. QED
    BY <1>1, <1>2, SenderInvHolds, CounterTypesHold, PTL DEF SenderSpec

\* However retries, refusals and new requests meet, the node takes the votes of
\* a request once, and once more for each error that came after it took them.
THEOREM TakenOnce == SenderSpec => []NotTwice
<1>1. TakenInv => NotTwice  BY DEF TakenInv, TakenIsPast, NotTwice
<1>2. QED  BY <1>1, TakenInvHolds, PTL
=============================================================================
