--------------------------- MODULE ResponseProofs ---------------------------
(***************************************************************************)
(* The safety of the response loop, for any members, types, detectors and  *)
(* bounds.                                                                 *)
(***************************************************************************)
EXTENDS Response, VoteTallyProofs

-----------------------------------------------------------------------------
(* Sequences.                                                              *)

\* Removing an element leaves the others.
LEMMA RemoveAtType ==
    ASSUME NEW S, NEW s \in Seq(S), NEW i \in 1..Len(s)
    PROVE  RemoveAt(s, i) \in Seq(S)
BY DEF RemoveAt

-----------------------------------------------------------------------------
(* Type correctness.                                                       *)

LEMMA BatchType == ASSUME ResponseTypeOK, NEW a \in Agent PROVE Batch(a) \in Batches
<1> DEFINE mask == {q \in Param : buffer[a][q] # NoVote}
<1>1. Batch(a) \in [mask -> {0, 1}]  BY DEF Batch, ResponseTypeOK
<1>2. mask \in SUBSET Param  OBVIOUS
<1>3. QED  BY <1>1, <1>2 DEF Batches

LEMMA BatchesAreBallots == Batches \subseteq Ballot
BY ResponseAssumption DEF ResponseAssumption, Batches, Ballot

LEMMA TroubleType ==
    ASSUME ResponseTypeOK, NEW happens, Trouble(happens)
    PROVE  troubles' \in 0..MaxTroubles
BY ResponseAssumption DEF ResponseAssumption, ResponseTypeOK, Trouble

LEMMA TakeLineType ==
    ASSUME ResponseTypeOK, NEW a \in Agent, NEW p \in Param,
           NEW i \in DOMAIN lines[a][p], TakeLine(a, p, i)
    PROVE  lines' \in [Agent -> [Param -> Seq({0, 1})]]
<1>1. /\ lines \in [Agent -> [Param -> Seq({0, 1})]] /\ lines[a][p] \in Seq({0, 1})
      /\ i \in 1..Len(lines[a][p])
    BY DEF ResponseTypeOK
<1>2. RemoveAt(lines[a][p], i) \in Seq({0, 1})  BY <1>1, RemoveAtType
<1>3. lines' = [lines EXCEPT ![a][p] = RemoveAt(lines[a][p], i)]  BY <1>1 DEF TakeLine
<1>4. QED  BY <1>1, <1>2, <1>3

LEMMA FeedbackType ==
    ASSUME ResponseTypeOK, NEW action \in SUBSET Param, NEW missed \in SUBSET Agent,
           Feedback(action, missed)
    PROVE  lines' \in [Agent -> [Param -> Seq({0, 1})]]
<1>1. ASSUME NEW a \in Agent, NEW p \in Param
      PROVE  lines[a][p] \in Seq({0, 1}) /\ Append(lines[a][p], 0) \in Seq({0, 1})
    BY DEF ResponseTypeOK
<1>2. QED  BY <1>1 DEF Feedback

\* An action is taken from those under way.
LEMMA ActionsType ==
    ASSUME ResponseTypeOK, NEW i \in DOMAIN actions
    PROVE  RemoveAt(actions, i) \in Seq(SUBSET Param) /\ actions[i] \in SUBSET Param
<1>1. actions \in Seq(SUBSET Param) /\ i \in 1..Len(actions)  BY DEF ResponseTypeOK
<1>2. QED  BY <1>1, RemoveAtType

\* Every variable keeps its type: in particular every vote is 0 or 1.
THEOREM TypeCorrect == ResponseSpec => []ResponseTypeOK
<1>1. ResponseInit => ResponseTypeOK
    <2> SUFFICES ASSUME ResponseInit  PROVE ResponseTypeOK
        OBVIOUS
    <2>1. InitLedger \in LedgerType
        BY VoteTallyAssumption
        DEF VoteTallyAssumption, InitLedger, InitStatus, LedgerType, Status
    <2>2. QED
        BY <2>1, ResponseAssumption
        DEF ResponseAssumption, ResponseInit, NoBatch, ResponseTypeOK
<1>2. ResponseTypeOK /\ [ResponseNext]_responseVars => ResponseTypeOK'
    <2> SUFFICES ASSUME ResponseTypeOK, [ResponseNext]_responseVars  PROVE ResponseTypeOK'
        OBVIOUS
    <2> USE ResponseAssumption DEF ResponseAssumption
    <2>1. ASSUME NEW S \in Detectors, NEW p \in Param, Detect(S, p)
          PROVE  ResponseTypeOK'
        <3>1. lines' \in [Agent -> [Param -> Seq({0, 1})]]
            <4>1. ASSUME NEW a \in Agent
                  PROVE  [lines[a] EXCEPT ![p] = Append(@, 1)] \in [Param -> Seq({0, 1})]
                <5>1. lines[a] \in [Param -> Seq({0, 1})] /\ lines[a][p] \in Seq({0, 1})
                    BY DEF ResponseTypeOK
                <5>2. Append(lines[a][p], 1) \in Seq({0, 1})  BY <5>1
                <5>3. QED  BY <5>1, <5>2
            <4>2. QED  BY <2>1, <4>1 DEF Detect, ResponseTypeOK
        <3>2. attacks' \in 0..MaxAttacks  BY <2>1 DEF Detect, ResponseTypeOK
        <3>3. troubles' \in 0..MaxTroubles  BY <2>1, TroubleType DEF Detect
        <3>4. QED
            BY <2>1, <3>1, <3>2, <3>3 DEF Detect, memberVars, ResponseTypeOK
    <2>2. ASSUME NEW a \in Agent, NEW p \in Param, NEW i \in DOMAIN lines[a][p],
                 Deliver(a, p, i)
          PROVE  ResponseTypeOK'
        <3>1. lines' \in [Agent -> [Param -> Seq({0, 1})]]
            BY <2>2, TakeLineType DEF Deliver
        <3>2. lines[a][p][i] \in {0, 1}
            <4>1. lines[a][p] \in Seq({0, 1})  BY DEF ResponseTypeOK
            <4>2. QED  BY <4>1
        <3>3. buffer' \in [Agent -> [Param -> {0, 1, NoVote}]]
            BY <2>2, <3>2 DEF Deliver, Enqueue, ResponseTypeOK
        <3>4. troubles' \in 0..MaxTroubles  BY <2>2, TroubleType DEF Deliver
        <3>5. QED  BY <2>2, <3>1, <3>3, <3>4 DEF Deliver, ResponseTypeOK
    <2>3. ASSUME NEW a \in Agent, NEW p \in Param, NEW i \in DOMAIN lines[a][p],
                 GiveUpAlert(a, p, i)
          PROVE  ResponseTypeOK'
        <3>1. lines' \in [Agent -> [Param -> Seq({0, 1})]]
            BY <2>3, TakeLineType DEF GiveUpAlert
        <3>2. troubles' \in 0..MaxTroubles  BY <2>3, TroubleType DEF GiveUpAlert
        <3>3. QED  BY <2>3, <3>1, <3>2 DEF GiveUpAlert, memberVars, ResponseTypeOK
    <2>4. ASSUME NEW a \in Agent, SendBatch(a)
          PROVE  ResponseTypeOK'
        <3>1. Batch(a) \in Batches  BY BatchType
        <3>2. buffer' \in [Agent -> [Param -> {0, 1, NoVote}]]
            BY <2>4 DEF SendBatch, NoBatch, ResponseTypeOK
        <3>3. lastVoted' \in [Agent -> [Param -> {0, 1, NoVote}]]
            BY <2>4 DEF SendBatch, ResponseTypeOK
        <3>4. sent' \in [Agent -> Seq(Batches)]
            BY <2>4, <3>1 DEF SendBatch, ResponseTypeOK
        <3>5. QED  BY <2>4, <3>2, <3>3, <3>4 DEF SendBatch, ResponseTypeOK
    <2>5. ASSUME NEW a \in Agent, SeeBlock(a)
          PROVE  ResponseTypeOK'
        BY <2>5 DEF SeeBlock, NoBatch, ResponseTypeOK
    <2>6. ASSUME NEW a \in Agent, Mine(a)
          PROVE  ResponseTypeOK'
        <3>1. sent[a] \in Seq(Batches) /\ sent[a] # <<>>
            BY <2>6 DEF Mine, ResponseTypeOK
        <3>2. Head(sent[a]) \in Ballot /\ Tail(sent[a]) \in Seq(Batches)
            BY <3>1, BatchesAreBallots
        <3>3. ledger' \in LedgerType
            BY <2>6, <3>2, ProposeType DEF Mine, ResponseTypeOK
        <3>4. actions' \in Seq(SUBSET Param)
            <4>1. Raised(ledger') \in SUBSET Param  BY DEF Raised
            <4>2. actions \in Seq(SUBSET Param)  BY DEF ResponseTypeOK
            <4>3. Append(actions, Raised(ledger')) \in Seq(SUBSET Param)  BY <4>1, <4>2
            <4>4. QED  BY <2>6, <4>2, <4>3 DEF Mine
        <3>5. sent' \in [Agent -> Seq(Batches)]
            BY <2>6, <3>2 DEF Mine, ResponseTypeOK
        <3>6. QED  BY <2>6, <3>3, <3>4, <3>5 DEF Mine, ResponseTypeOK
    <2>7. ASSUME NEW a \in Agent, RetryTx(a) \/ DropTx(a)
          PROVE  ResponseTypeOK'
        <3>1. sent[a] \in Seq(Batches) /\ sent[a] # <<>>
            <4>1. sent[a] \in Seq(Batches)  BY DEF ResponseTypeOK
            <4>2. Len(sent[a]) > 1 \/ sent[a] # <<>>  BY <2>7 DEF RetryTx, DropTx
            <4>3. QED  BY <4>1, <4>2
        <3>2. /\ Tail(sent[a]) \in Seq(Batches)
              /\ Append(Tail(sent[a]), Head(sent[a])) \in Seq(Batches)
            BY <3>1
        <3>3. sent' \in [Agent -> Seq(Batches)]
            BY <2>7, <3>2 DEF RetryTx, DropTx, ResponseTypeOK
        <3>4. troubles' \in 0..MaxTroubles  BY <2>7, TroubleType DEF RetryTx, DropTx
        <3>5. QED  BY <2>7, <3>3, <3>4 DEF RetryTx, DropTx, ResponseTypeOK
    <2>8. ASSUME NEW i \in DOMAIN actions, PostLost(i) \/ SshTimesOut(i)
          PROVE  ResponseTypeOK'
        <3>1. actions' \in Seq(SUBSET Param)
            BY <2>8, ActionsType DEF PostLost, SshTimesOut
        <3>2. troubles' \in 0..MaxTroubles  BY <2>8, TroubleType DEF PostLost, SshTimesOut
        <3>3. QED
            BY <2>8, <3>1, <3>2 DEF PostLost, SshTimesOut, memberVars, ResponseTypeOK
    <2>9. ASSUME NEW i \in DOMAIN actions, NEW missed \in SUBSET Agent, Execute(i, missed)
          PROVE  ResponseTypeOK'
        <3>1. actions' \in Seq(SUBSET Param) /\ actions[i] \in SUBSET Param
            BY <2>9, ActionsType DEF Execute
        <3>2. lines' \in [Agent -> [Param -> Seq({0, 1})]]
            BY <2>9, <3>1, FeedbackType DEF Execute
        <3>3. acted' \subseteq Param
            BY <2>9, <3>1 DEF Execute, Recovered, ResponseTypeOK
        <3>4. troubles' \in 0..MaxTroubles  BY <2>9, TroubleType DEF Execute
        <3>5. QED
            BY <2>9, <3>1, <3>2, <3>3, <3>4 DEF Execute, memberVars, ResponseTypeOK
    <2>10. ASSUME NEW a \in Agent, NEW p \in Param, NEW i \in DOMAIN lines[a][p],
                  DeliverUnanswered(a, p, i)
           PROVE  ResponseTypeOK'
        <3>1. lines[a][p] \in Seq({0, 1})  BY DEF ResponseTypeOK
        <3>2. lines[a][p][i] \in {0, 1}  BY <3>1
        <3>3. buffer' \in [Agent -> [Param -> {0, 1, NoVote}]]
            BY <2>10, <3>2 DEF DeliverUnanswered, Enqueue, ResponseTypeOK
        <3>4. troubles' \in 0..MaxTroubles  BY <2>10, TroubleType DEF DeliverUnanswered
        <3>5. QED  BY <2>10, <3>3, <3>4 DEF DeliverUnanswered, ResponseTypeOK
    <2>11. CASE UNCHANGED responseVars
        BY <2>11 DEF responseVars, memberVars, ResponseTypeOK
    <2>12. QED
        BY <2>1, <2>2, <2>3, <2>4, <2>5, <2>6, <2>7, <2>8, <2>9, <2>10, <2>11 DEF ResponseNext
<1>3. QED  BY <1>1, <1>2, PTL DEF ResponseSpec

-----------------------------------------------------------------------------
(* An attack is taken back by recoveries, and a recovery is only written   *)
(* once the actuator acted.                                                *)

\* Transactions that take back only what was acted upon.
Justified == {b \in Batches : \A p \in DOMAIN b : b[p] = 0 => p \in acted}

\* Wherever a 0 is on its way round the loop, its type was acted upon.
RecoveriesFollowActions ==
    /\ \A a \in Agent, p \in Param :
           p \notin acted => lines[a][p] \in Seq({1}) /\ buffer[a][p] # 0
    /\ \A a \in Agent : sent[a] \in Seq(Justified)

ResponseInv == ResponseTypeOK /\ RecoveriesFollowActions

\* Steps that append no recovery and make no transaction.
LEMMA LinesTaken ==
    ASSUME ResponseInv, acted' = acted, buffer' = buffer, sent' = sent,
           NEW b \in Agent, NEW q \in Param, NEW i \in DOMAIN lines[b][q],
           TakeLine(b, q, i)
    PROVE  RecoveriesFollowActions'
<1>1. lines \in [Agent -> [Param -> Seq({0, 1})]]  BY DEF ResponseInv, ResponseTypeOK
<1>2. ASSUME NEW a \in Agent, NEW p \in Param, p \notin acted
      PROVE  lines'[a][p] \in Seq({1})
    <2>1. lines[a][p] \in Seq({1})  BY <1>2 DEF ResponseInv, RecoveriesFollowActions
    <2>2. CASE a = b /\ p = q
        <3>1. i \in 1..Len(lines[a][p])  BY <2>1, <2>2
        <3>2. RemoveAt(lines[a][p], i) \in Seq({1})  BY <2>1, <3>1, RemoveAtType
        <3>3. QED  BY <1>1, <2>2, <3>2 DEF TakeLine
    <2>3. CASE ~(a = b /\ p = q)  BY <1>1, <2>1, <2>3 DEF TakeLine
    <2>4. QED  BY <2>2, <2>3
<1>3. Justified' = Justified  BY DEF Justified
<1>4. QED  BY <1>2, <1>3 DEF ResponseInv, RecoveriesFollowActions

LEMMA StepKeepsInv ==
    ASSUME ResponseInv, [ResponseNext]_responseVars
    PROVE  RecoveriesFollowActions'
<1> USE DEF ResponseInv
<1>1. ASSUME NEW S \in Detectors, NEW q \in Param, Detect(S, q)
      PROVE  RecoveriesFollowActions'
    <2>1. UNCHANGED <<acted, buffer, sent>>  BY <1>1 DEF Detect, memberVars
    <2>2. ASSUME NEW a \in Agent, NEW p \in Param, p \notin acted
          PROVE  lines'[a][p] \in Seq({1})
        <3>1. lines[a][p] \in Seq({1})  BY <2>2 DEF RecoveriesFollowActions
        <3>2. Append(lines[a][p], 1) \in Seq({1})  BY <3>1
        <3>3. lines[a] \in [Param -> Seq({0, 1})]  BY DEF ResponseTypeOK
        <3>4. lines'[a][p] = lines[a][p] \/ lines'[a][p] = Append(lines[a][p], 1)
            BY <1>1, <3>3 DEF Detect
        <3>5. QED  BY <3>1, <3>2, <3>4
    <2>3. Justified' = Justified  BY <2>1 DEF Justified
    <2>4. QED  BY <2>1, <2>2, <2>3 DEF RecoveriesFollowActions
<1>2. ASSUME NEW b \in Agent, NEW q \in Param, NEW i \in DOMAIN lines[b][q],
             Deliver(b, q, i)
      PROVE  RecoveriesFollowActions'
    <2>1. UNCHANGED <<acted, sent>> /\ TakeLine(b, q, i)  BY <1>2 DEF Deliver
    <2>2. ASSUME NEW a \in Agent, NEW p \in Param, p \notin acted
          PROVE  lines'[a][p] \in Seq({1}) /\ buffer'[a][p] # 0
        <3>1. /\ lines[a][p] \in Seq({1}) /\ buffer[a][p] # 0
              /\ lines \in [Agent -> [Param -> Seq({0, 1})]]
              /\ buffer \in [Agent -> [Param -> {0, 1, NoVote}]]
            BY <2>2 DEF RecoveriesFollowActions, ResponseTypeOK
        <3>2. CASE a = b /\ p = q
            <4>1. i \in 1..Len(lines[a][p])  BY <3>1, <3>2
            <4>2. RemoveAt(lines[a][p], i) \in Seq({1})  BY <3>1, <4>1, RemoveAtType
            <4>3. lines[a][p][i] = 1  BY <3>1, <4>1
            <4>4. buffer'[a][p] \in {buffer[a][p], 1}
                BY <1>2, <3>1, <3>2, <4>3 DEF Deliver, Enqueue
            <4>5. lines'[a][p] = RemoveAt(lines[a][p], i)
                BY <2>1, <3>1, <3>2 DEF TakeLine
            <4>6. QED  BY <3>1, <4>2, <4>4, <4>5
        <3>3. CASE ~(a = b /\ p = q)
            <4>1. lines'[a][p] = lines[a][p]  BY <2>1, <3>1, <3>3 DEF TakeLine
            <4>2. buffer'[a][p] = buffer[a][p]  BY <1>2, <3>1, <3>3 DEF Deliver, Enqueue
            <4>3. QED  BY <3>1, <4>1, <4>2
        <3>4. QED  BY <3>2, <3>3
    <2>3. Justified' = Justified  BY <2>1 DEF Justified
    <2>4. QED  BY <2>1, <2>2, <2>3 DEF RecoveriesFollowActions
<1>3. ASSUME NEW b \in Agent, NEW q \in Param, NEW i \in DOMAIN lines[b][q],
             GiveUpAlert(b, q, i)
      PROVE  RecoveriesFollowActions'
    BY <1>3, LinesTaken DEF GiveUpAlert, memberVars
<1>4. ASSUME NEW b \in Agent, SendBatch(b)
      PROVE  RecoveriesFollowActions'
    <2>1. UNCHANGED <<acted, lines>> /\ Justified' = Justified
        BY <1>4 DEF SendBatch, Justified
    <2>2. Batch(b) \in Justified
        <3>1. Batch(b) \in Batches  BY BatchType
        <3>2. ASSUME NEW p \in DOMAIN Batch(b), Batch(b)[p] = 0  PROVE p \in acted
            <4>1. p \in Param /\ buffer[b][p] = 0  BY <3>2 DEF Batch
            <4>2. QED  BY <4>1 DEF RecoveriesFollowActions
        <3>3. QED  BY <3>1, <3>2 DEF Justified
    <2>3. ASSUME NEW a \in Agent
          PROVE  sent'[a] \in Seq(Justified) /\ \A p \in Param : p \notin acted => buffer'[a][p] # 0
        <3>1. sent[a] \in Seq(Justified)  BY DEF RecoveriesFollowActions
        <3>2. Append(sent[a], Batch(b)) \in Seq(Justified)
            BY <2>2, <2>3, <1>4, <3>1
            DEF SendBatch, RecoveriesFollowActions
        <3>3. sent'[a] \in {sent[a], Append(sent[a], Batch(b))}
            BY <1>4 DEF SendBatch, ResponseTypeOK
        <3>4. \A p \in Param : buffer'[a][p] \in {buffer[a][p], NoVote}
            BY <1>4 DEF SendBatch, NoBatch, ResponseTypeOK
        <3>5. NoVote # 0  BY VoteTallyAssumption DEF VoteTallyAssumption
        <3>6. QED  BY <3>1, <3>2, <3>3, <3>4, <3>5 DEF RecoveriesFollowActions
    <2>4. QED  BY <2>1, <2>3 DEF RecoveriesFollowActions
<1>5. ASSUME NEW b \in Agent, SeeBlock(b)
      PROVE  RecoveriesFollowActions'
    <2>1. UNCHANGED <<acted, lines, buffer, sent>> /\ Justified' = Justified
        BY <1>5 DEF SeeBlock, Justified
    <2>2. QED  BY <2>1 DEF RecoveriesFollowActions
<1>6. ASSUME NEW b \in Agent, Mine(b) \/ RetryTx(b) \/ DropTx(b)
      PROVE  RecoveriesFollowActions'
    <2>1. UNCHANGED <<acted, lines, buffer>> /\ Justified' = Justified
        BY <1>6 DEF Mine, RetryTx, DropTx, Justified
    <2>2. ASSUME NEW a \in Agent  PROVE sent'[a] \in Seq(Justified)
        <3>1. sent[a] \in Seq(Justified) /\ sent[b] \in Seq(Justified)
            BY DEF RecoveriesFollowActions
        <3>2. Len(sent[b]) > 1 \/ sent[b] # <<>>  BY <1>6 DEF Mine, RetryTx, DropTx
        <3>3. sent[b] # <<>>  BY <3>1, <3>2
        <3>4. /\ Tail(sent[b]) \in Seq(Justified)
              /\ Append(Tail(sent[b]), Head(sent[b])) \in Seq(Justified)
            BY <3>1, <3>3
        <3>5. sent'[a] \in {sent[a], Tail(sent[b]), Append(Tail(sent[b]), Head(sent[b]))}
            BY <1>6 DEF Mine, RetryTx, DropTx, ResponseTypeOK
        <3>6. QED  BY <3>1, <3>4, <3>5
    <2>3. QED  BY <2>1, <2>2 DEF RecoveriesFollowActions
<1>7. ASSUME NEW i \in DOMAIN actions, PostLost(i) \/ SshTimesOut(i)
      PROVE  RecoveriesFollowActions'
    <2>1. UNCHANGED <<acted, lines, buffer, sent>> /\ Justified' = Justified
        BY <1>7 DEF PostLost, SshTimesOut, memberVars, Justified
    <2>2. QED  BY <2>1 DEF RecoveriesFollowActions
<1>8. ASSUME NEW i \in DOMAIN actions, NEW missed \in SUBSET Agent, Execute(i, missed)
      PROVE  RecoveriesFollowActions'
    <2>1. /\ acted' = acted \cup actions[i] /\ UNCHANGED <<buffer, sent>>
          /\ Feedback(actions[i], missed)
        BY <1>8 DEF Execute, Recovered, memberVars
    <2>2. Justified \subseteq Justified'  BY <2>1 DEF Justified
    <2>3. ASSUME NEW a \in Agent, NEW p \in Param, p \notin acted'
          PROVE  lines'[a][p] = lines[a][p]
        BY <2>1, <2>3 DEF Feedback, Recovered
    <2>4. ASSUME NEW a \in Agent  PROVE sent'[a] \in Seq(Justified')
        BY <2>1, <2>2 DEF RecoveriesFollowActions
    <2>5. QED  BY <2>1, <2>3, <2>4 DEF RecoveriesFollowActions
<1>9. CASE UNCHANGED responseVars
    <2>1. UNCHANGED <<acted, lines, buffer, sent>> /\ Justified' = Justified
        BY <1>9 DEF responseVars, memberVars, Justified
    <2>2. QED  BY <2>1 DEF RecoveriesFollowActions
<1>10. ASSUME NEW b \in Agent, NEW q \in Param, NEW i \in DOMAIN lines[b][q],
              DeliverUnanswered(b, q, i)
       PROVE  RecoveriesFollowActions'
    <2>1. UNCHANGED <<acted, lines, sent>> /\ Justified' = Justified
        BY <1>10 DEF DeliverUnanswered, Justified
    <2>2. ASSUME NEW a \in Agent, NEW p \in Param, p \notin acted
          PROVE  buffer'[a][p] # 0
        <3>1. lines[a][p] \in Seq({1}) /\ buffer[a][p] # 0
            BY <2>2 DEF RecoveriesFollowActions
        <3>2. buffer \in [Agent -> [Param -> {0, 1, NoVote}]]  BY DEF ResponseTypeOK
        <3>3. CASE a = b /\ p = q
            <4>1. lines[a][p][i] = 1  BY <3>1, <3>3
            <4>2. QED
                BY <1>10, <3>1, <3>2, <3>3, <4>1 DEF DeliverUnanswered, Enqueue
        <3>4. CASE ~(a = b /\ p = q)
            BY <1>10, <3>1, <3>2, <3>4 DEF DeliverUnanswered, Enqueue
        <3>5. QED  BY <3>3, <3>4
    <2>3. QED  BY <2>1, <2>2 DEF RecoveriesFollowActions
<1>11. QED
    BY <1>1, <1>2, <1>3, <1>4, <1>5, <1>6, <1>7, <1>8, <1>9, <1>10 DEF ResponseNext

\* However alerts, batches, transactions and actions are lost, delayed and
\* reordered, a confirmed attack is taken back only after the actuator acted
\* on one of its type.
THEOREM AttacksStand == ResponseSpec => ResetHasCause
<1>1. ResponseInit => RecoveriesFollowActions
    <2>1. VoteTallyAssumption => NoVote # 0  BY DEF VoteTallyAssumption
    <2>2. QED
        BY <2>1, VoteTallyAssumption DEF ResponseInit, NoBatch, RecoveriesFollowActions
<1>2. ResponseInv /\ [ResponseNext]_responseVars
          => [\A p \in Raised(ledger) \ Raised(ledger') : p \in acted]_responseVars
    <2> SUFFICES ASSUME ResponseInv, ResponseNext, NEW p \in Raised(ledger) \ Raised(ledger')
                 PROVE  p \in acted
        OBVIOUS
    <2>1. p \in Param /\ ledger[p].current # 0 /\ ledger'[p].current = 0
        BY DEF Raised
    <2>2. PICK a \in Agent : Mine(a)
        <3>1. ledger' # ledger  BY <2>1
        <3>2. QED
            BY <3>1 DEF ResponseNext, Detect, Deliver, DeliverUnanswered, GiveUpAlert, SendBatch, SeeBlock,
                        RetryTx, DropTx, PostLost, Execute, SshTimesOut
    <2>3. sent[a] \in Seq(Justified) /\ sent[a] # <<>>
        BY <2>2 DEF Mine, ResponseInv, RecoveriesFollowActions
    <2>4. Head(sent[a]) \in Justified  BY <2>3
    <2>5. ledger'[p] = IF p \in DOMAIN Head(sent[a])
                       THEN Vote(ledger[p], a, Head(sent[a])[p], FALSE) ELSE ledger[p]
        BY <2>1, <2>2 DEF Mine, ProposeNewValues
    <2>6. p \in DOMAIN Head(sent[a]) /\ Head(sent[a])[p] = 0
        <3>1. p \in DOMAIN Head(sent[a])  BY <2>1, <2>5
        <3>2. ledger'[p] = Vote(ledger[p], a, Head(sent[a])[p], FALSE)  BY <2>5, <3>1
        <3>3. ledger'[p].current \in {ledger[p].current, Head(sent[a])[p]}
            BY <3>2 DEF Vote, Recount
        <3>4. QED  BY <2>1, <3>1, <3>3
    <2>7. QED  BY <2>4, <2>6 DEF Justified
<1>3. ResponseInv /\ [ResponseNext]_responseVars => RecoveriesFollowActions'
    BY StepKeepsInv
<1>4. QED
    BY <1>1, <1>2, <1>3, TypeCorrect, PTL DEF ResponseSpec, ResponseInv, ResetHasCause
=============================================================================
