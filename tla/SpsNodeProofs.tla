---------------------------- MODULE SpsNodeProofs ----------------------------
(***************************************************************************)
(* A light node, for any number of requests, batches, types, validators,   *)
(* queue slots, permits and faults: its filter lets each type through once *)
(* a step, and no vote is lost between the handler and the ledger.         *)
(***************************************************************************)
EXTENDS SpsNode, VoteTallyProofs, SequenceTheorems, FunctionTheorems

\* The types, and what the size of tasks says about them.
Typed ==
    /\ TypeOK
    /\ IsFiniteSet(tasks)
    /\ mempool \in [Validator -> SUBSET VoteTx]
    /\ cache \in [Validator -> SUBSET VoteTx]

\* A request has a vote from the moment its handler goes on to send it.
VotesAreMade ==
    \A r \in Request : Voted(r) <=> pc[r] \in {"send", "gone", "count", "accepted"}

-----------------------------------------------------------------------------
(* Helpers.                                                                *)

\* A batch, its parts, and the ballots made of it are well typed.
LEMMA BatchTyped ==
    ASSUME NEW b \in Batch
    PROVE  b.agent \in Agent /\ b.safe \in BOOLEAN /\ b.sums \in Ballot /\ b.size \in Nat
BY SpsNodeAssumption DEF SpsNodeAssumption, BatchType

LEMMA BallotsTyped ==
    /\ AllSafe \in Ballot
    /\ \A ballot \in Ballot, mask \in SUBSET Param :
          mask \subseteq DOMAIN ballot => /\ OnlyOn(ballot, mask) \in Ballot
                                          /\ DOMAIN OnlyOn(ballot, mask) = mask
<1>1. AllSafe \in [Param -> Value]
    BY VoteTallyAssumption DEF VoteTallyAssumption, AllSafe
<1>2. AllSafe \in Ballot  BY <1>1 DEF Ballot
<1>3. ASSUME NEW ballot \in Ballot, NEW mask \in SUBSET Param, mask \subseteq DOMAIN ballot
      PROVE  OnlyOn(ballot, mask) \in Ballot /\ DOMAIN OnlyOn(ballot, mask) = mask
    <2>1. OnlyOn(ballot, mask) \in [mask -> Value]
        BY <1>3, BallotType DEF OnlyOn
    <2>2. QED  BY <2>1 DEF Ballot
<1>4. QED  BY <1>2, <1>3

\* There is an order of the validators, so Target is one.
LEMMA TargetTyped ==
    /\ Cardinality(Validator) \in Nat \ {0}
    /\ Target \in [0..(Cardinality(Validator) - 1) -> Validator]
<1> DEFINE N == Cardinality(Validator)
<1>1. N \in Nat /\ N # 0 /\ ExistsBijection(1..N, Validator)
    BY SpsNodeAssumption, FS_CardinalityType, FS_EmptySet DEF SpsNodeAssumption
<1> HIDE DEF N
<1>2. PICK f \in [1..N -> Validator] : \A v \in Validator : \E i \in 1..N : f[i] = v
    BY <1>1 DEF ExistsBijection, Bijection, Surjection
<1> DEFINE order == [i \in 0..(N - 1) |-> f[i + 1]]
<1>3. order \in [0..(N - 1) -> Validator]
    BY <1>1, <1>2
<1>4. \A v \in Validator : \E i \in DOMAIN order : order[i] = v
    <2> TAKE v \in Validator
    <2>1. PICK i \in 1..N : f[i] = v  BY <1>2
    <2>2. i - 1 \in 0..(N - 1) /\ (i - 1) + 1 = i  BY <1>1, <2>1
    <2>3. order[i - 1] = v  BY <2>1, <2>2
    <2>4. QED  BY <2>2, <2>3
<1>5. Target \in [0..(N - 1) -> Validator]
    BY <1>3, <1>4 DEF Target, N
<1>6. QED  BY <1>1, <1>5 DEF N

\* A handler that goes on to send makes a vote, and disturbs no other request.
LEMMA VoteMade ==
    ASSUME Typed, NEW r \in Request, NEW agent \in Agent, NEW ballot \in Ballot,
           NEW kind \in {"alert", "safe", "unfiltered", "stress"}, NEW atStep \in Nat,
           MakeVote(r, agent, ballot, kind, atStep)
    PROVE  /\ vote' \in [Request -> Votes \cup {NoVotes}]
           /\ vote'[r] = [tx |-> [id |-> seq, agent |-> agent, ballot |-> ballot],
                          kind |-> kind, step |-> atStep]
           /\ vote'[r] \in Votes /\ vote'[r] # NoVotes
           /\ vote'[r].tx.id = seq
           /\ \A s \in Request : s # r => vote'[s] = vote[s]
           /\ pc' = [pc EXCEPT ![r] = "send"]
           /\ seq' = seq + 1 /\ seq \in Nat
<1> DEFINE new == [tx |-> [id |-> seq, agent |-> agent, ballot |-> ballot],
                   kind |-> kind, step |-> atStep]
<1>1. new \in Votes  BY DEF Typed, TypeOK, Votes, VoteTx
<1>2. new # NoVotes  BY <1>1, NoVotesAssumption DEF NoVotesAssumption
<1>3. vote' = [vote EXCEPT ![r] = new]  BY DEF MakeVote
<1> HIDE DEF new
<1>4. vote' \in [Request -> Votes \cup {NoVotes}] /\ vote'[r] = new
    BY <1>1, <1>3 DEF Typed, TypeOK
<1>5. QED  BY <1>1, <1>2, <1>3, <1>4 DEF MakeVote, NextSeq, Typed, TypeOK, new

\* Steps of the handlers change what apiVars holds, and nothing else.
ApiTyped ==
    /\ pc \in [Request -> {"new", "dropped", "send", "gone", "count", "accepted"}]
    /\ vote \in [Request -> Votes \cup {NoVotes}]
    /\ seq \in Nat /\ received \in Nat /\ processed \in Nat
    /\ seen \in [Agent -> SUBSET Param]
    /\ step \in [Agent -> Nat]

LEMMA ApiSteps ==
    ASSUME Typed, ApiTyped',
           UNCHANGED <<dedupDisabled, workVars, cometVars, chainVars>>
    PROVE  Typed'
BY DEF Typed, TypeOK, ApiTyped, workVars, cometVars, chainVars

\* A validator that takes in a transaction keeps the types of CometBFT.
LEMMA TakenIn ==
    ASSUME Typed, NEW v \in Validator, NEW tx \in VoteTx, TakeIn(v, tx)
    PROVE  /\ mempool' \in [Validator -> SUBSET VoteTx]
           /\ cache' \in [Validator -> SUBSET VoteTx]
           /\ up' \subseteq Validator /\ crashes' \in 0..MaxCrashes
BY DEF Typed, TypeOK, TakeIn

\* The transaction of a request that has a vote.
LEMMA VoteHasTx ==
    ASSUME Typed, NEW r \in Request, Voted(r)
    PROVE  vote[r] \in Votes /\ vote[r].tx \in VoteTx
BY DEF Typed, TypeOK, Voted, Votes

-----------------------------------------------------------------------------
(* Type correctness.                                                       *)

\* What is queued, held or submitted was voted.
WorkIsVoted ==
    /\ \A i \in DOMAIN queue : Voted(queue[i])
    /\ hand # NoVotes => Voted(hand.req)
    /\ \A t \in tasks : Voted(t.req)

NodeTypes == Typed /\ VotesAreMade /\ WorkIsVoted

\* How many tasks there are when one is spawned and when one ends.
LEMMA TaskAdded ==
    ASSUME NEW S, IsFiniteSet(S), Cardinality(S) < Permits, NEW t
    PROVE  IsFiniteSet(S \cup {t}) /\ Cardinality(S \cup {t}) <= Permits
<1>1. Cardinality(S) \in Nat /\ Permits \in Nat
    BY FS_CardinalityType, SpsNodeAssumption DEF SpsNodeAssumption
<1>2. /\ IsFiniteSet(S \cup {t})
      /\ \/ Cardinality(S \cup {t}) = Cardinality(S)
         \/ Cardinality(S \cup {t}) = Cardinality(S) + 1
    BY FS_AddElement
<1>3. QED  BY <1>1, <1>2

LEMMA TaskRemoved ==
    ASSUME NEW S, IsFiniteSet(S), Cardinality(S) <= Permits, NEW t
    PROVE  IsFiniteSet(S \ {t}) /\ Cardinality(S \ {t}) <= Permits
<1>1. Cardinality(S) \in Nat /\ Permits \in Nat
    BY FS_CardinalityType, SpsNodeAssumption DEF SpsNodeAssumption
<1>2. /\ IsFiniteSet(S \ {t})
      /\ \/ Cardinality(S \ {t}) = Cardinality(S)
         \/ Cardinality(S \ {t}) = Cardinality(S) - 1
    BY FS_RemoveElement
<1>3. QED  BY <1>1, <1>2

LEMMA HandlersTyped ==
    ASSUME Typed, Handlers
    PROVE  Typed'
<1>0. ApiTyped  BY DEF Typed, TypeOK, ApiTyped
<1>1. ASSUME NEW r \in Request, NEW b \in Batch, HandleAlert(r, b)  PROVE Typed'
    <2>0. /\ b.agent \in Agent /\ b.sums \in Ballot /\ b.size \in Nat
          /\ step[b.agent] \in Nat /\ seen[b.agent] \subseteq Param
          /\ UNCHANGED <<dedupDisabled, workVars, cometVars, chainVars>>
        BY <1>0, <1>1, BatchTyped DEF HandleAlert, ApiTyped
    <2>1. CASE IgnoreBatch(r)
        <3>1. ApiTyped'  BY <1>0, <2>1 DEF IgnoreBatch, ApiTyped
        <3>2. QED  BY <2>0, <3>1, ApiSteps
    <2>2. CASE ResetBatch(r, b)
        <3>1. step[b.agent] + 1 \in Nat  BY <2>0
        <3>2. /\ vote' \in [Request -> Votes \cup {NoVotes}]
              /\ pc' = [pc EXCEPT ![r] = "send"] /\ seq' = seq + 1
            BY <2>0, <2>2, <3>1, VoteMade, BallotsTyped DEF ResetBatch
        <3>3. ApiTyped'
            BY <1>0, <2>0, <2>2, <3>2 DEF ResetBatch, ApiTyped
        <3>4. QED  BY <2>0, <3>3, ApiSteps
    <2>3. CASE UnfilteredBatch(r, b)
        <3>1. /\ vote' \in [Request -> Votes \cup {NoVotes}]
              /\ pc' = [pc EXCEPT ![r] = "send"] /\ seq' = seq + 1
            BY <2>0, <2>3, VoteMade DEF UnfilteredBatch
        <3>2. ApiTyped'
            BY <1>0, <2>0, <2>3, <3>1 DEF UnfilteredBatch, ApiTyped
        <3>3. QED  BY <2>0, <3>2, ApiSteps
    <2>4. CASE FilterBatch(r, b)
        <3> DEFINE fresh == DOMAIN b.sums \ seen[b.agent]
        <3>1. fresh \subseteq Param /\ fresh \subseteq DOMAIN b.sums
            BY <2>0, BallotType
        <3>2. OnlyOn(b.sums, fresh) \in Ballot  BY <2>0, <3>1, BallotsTyped
        <3>3. /\ vote' \in [Request -> Votes \cup {NoVotes}]
              /\ pc' = [pc EXCEPT ![r] = "send"] /\ seq' = seq + 1
            BY <2>0, <2>4, <3>2, VoteMade DEF FilterBatch
        <3>4. ApiTyped'
            BY <1>0, <2>0, <2>4, <3>1, <3>3 DEF FilterBatch, ApiTyped
        <3>5. QED  BY <2>0, <3>4, ApiSteps
    <2>5. CASE DropBatch(r, b)
        <3>1. ApiTyped'  BY <1>0, <2>0, <2>5 DEF DropBatch, NextSeq, ApiTyped
        <3>2. QED  BY <2>0, <3>1, ApiSteps
    <2>6. QED  BY <1>1, <2>1, <2>2, <2>3, <2>4, <2>5 DEF HandleAlert
<1>2. ASSUME NEW r \in Request, NEW ballot \in StressBallot, HandleStress(r, ballot)
      PROVE  Typed'
    <2>1. NodeAgent \in Agent /\ ballot \in Ballot /\ step[NodeAgent] \in Nat
        BY <1>0, SpsNodeAssumption DEF SpsNodeAssumption, ApiTyped
    <2>2. /\ vote' \in [Request -> Votes \cup {NoVotes}]
          /\ pc' = [pc EXCEPT ![r] = "send"] /\ seq' = seq + 1
        BY <1>2, <2>1, VoteMade DEF HandleStress
    <2>3. ApiTyped'  BY <1>0, <1>2, <2>2 DEF HandleStress, ApiTyped
    <2>4. QED  BY <1>2, <2>3, ApiSteps DEF HandleStress
<1> USE DEF Typed, TypeOK
<1>3. ASSUME NEW r \in Request, Enqueue(r)  PROVE Typed'
    <2>1. queue' \in Seq(Request) /\ Len(queue') = Len(queue) + 1 /\ Len(queue) \in Nat
        BY <1>3, AppendProperties, LenProperties DEF Enqueue
    <2>2. Len(queue') <= QueueCap
        BY <1>3, <2>1, SpsNodeAssumption DEF Enqueue, SpsNodeAssumption
    <2>3. pc' \in [Request -> {"new", "dropped", "send", "gone", "count", "accepted"}]
        BY <1>3 DEF Enqueue
    <2>4. QED  BY <1>3, <2>1, <2>2, <2>3 DEF Enqueue, cometVars, chainVars
<1>4. ASSUME NEW r \in Request, Disconnect(r)  PROVE Typed'
    BY <1>4, ApiSteps DEF Disconnect, ApiTyped
<1>5. ASSUME NEW r \in Request, Count(r)  PROVE Typed'
    BY <1>5, ApiSteps DEF Count, ApiTyped
<1>6. ASSUME NEW disabled \in BOOLEAN, SetDedup(disabled)  PROVE Typed'
    BY <1>6 DEF SetDedup, apiVars, workVars, cometVars, chainVars
<1>7. QED  BY <1>1, <1>2, <1>3, <1>4, <1>5, <1>6 DEF Handlers

LEMMA WorkerTyped ==
    ASSUME NodeTypes, Worker
    PROVE  Typed'
<1> USE DEF NodeTypes, Typed, TypeOK
<1>1. CASE Take
    <2>1. Head(queue) \in Request /\ Tail(queue) \in Seq(Request)
          /\ Len(Tail(queue)) <= QueueCap
        BY <1>1, HeadTailProperties, LenProperties, SpsNodeAssumption
        DEF Take, SpsNodeAssumption
    <2>2. Target[turn] \in Validator  BY TargetTyped
    <2>3. turn' \in 0..(Cardinality(Validator) - 1)
        <3>1. turn' = (turn + 1) % Cardinality(Validator) /\ turn \in Int
            BY <1>1 DEF Take, NextTurn
        <3> HIDE DEF NodeTypes, Typed, TypeOK
        <3>2. Cardinality(Validator) \in Nat /\ Cardinality(Validator) > 0
            BY TargetTyped
        <3>3. QED  BY <3>1, <3>2
    <2>4. QED  BY <1>1, <2>1, <2>2, <2>3 DEF Take, apiVars, cometVars, chainVars
<1>2. CASE Spawn
    <2>1. IsFiniteSet(tasks') /\ Cardinality(tasks') <= Permits
        BY <1>2, TaskAdded DEF Spawn
    <2>2. QED  BY <1>2, <2>1 DEF Spawn, apiVars, cometVars, chainVars
<1>3. ASSUME NEW t \in tasks, tasks' = tasks \ {t}
      PROVE  /\ IsFiniteSet(tasks') /\ Cardinality(tasks') <= Permits
             /\ tasks' \subseteq [req : Request, target : Validator]
    BY <1>3, TaskRemoved
<1>4. ASSUME NEW t \in tasks  PROVE t.target \in Validator /\ vote[t.req].tx \in VoteTx
    BY VoteHasTx DEF WorkIsVoted
<1>5. ASSUME NEW t \in tasks, SubmitOk(t)  PROVE Typed'
    BY <1>3, <1>4, <1>5, TakenIn DEF SubmitOk, apiVars, chainVars
<1>6. ASSUME NEW t \in tasks, SubmitUnanswered(t)  PROVE Typed'
    BY <1>4, <1>6, TakenIn, SpsNodeAssumption
    DEF SubmitUnanswered, apiVars, chainVars, SpsNodeAssumption
<1>7. ASSUME NEW t \in tasks, SubmitRefused(t)  PROVE Typed'
    BY <1>7 DEF SubmitRefused, vars, apiVars, workVars, cometVars, chainVars
<1>8. ASSUME NEW t \in tasks, SubmitRepeated(t)  PROVE Typed'
    BY <1>3, <1>8 DEF SubmitRepeated, apiVars, cometVars, chainVars
<1>9. QED  BY <1>1, <1>2, <1>5, <1>6, <1>7, <1>8 DEF Worker

LEMMA CometTyped ==
    ASSUME Typed, Comet
    PROVE  Typed'
<1> USE DEF Typed, TypeOK
<1>1. ASSUME NEW v \in Validator, NEW w \in Validator, NEW tx \in mempool[v], Gossip(v, w, tx)
      PROVE  Typed'
    BY <1>1, TakenIn DEF Gossip, apiVars, workVars, chainVars
<1>2. ASSUME NEW v \in Validator, NEW tx \in mempool[v], Commit(v, tx)  PROVE Typed'
    <2>1. tx \in VoteTx /\ tx.agent \in Agent /\ tx.ballot \in Ballot
        BY DEF VoteTx
    <2>2. ledger' \in LedgerType
        BY <1>2, <2>1, ProposeType DEF Commit, DeliverTx
    <2>3. /\ mempool' \in [Validator -> SUBSET VoteTx]
          /\ cache' \in [Validator -> SUBSET VoteTx]
        BY <1>2, <2>1 DEF Commit
    <2>4. QED  BY <1>2, <2>2, <2>3 DEF Commit, apiVars, workVars
<1>3. ASSUME NEW v \in Validator, Crash(v)  PROVE Typed'
    BY <1>3, SpsNodeAssumption DEF Crash, SpsNodeAssumption, apiVars, workVars, chainVars
<1>4. ASSUME NEW v \in Validator, Relaunch(v)  PROVE Typed'
    BY <1>4 DEF Relaunch, apiVars, workVars, chainVars
<1>5. QED  BY <1>1, <1>2, <1>3, <1>4 DEF Comet

-----------------------------------------------------------------------------
(* What a handler may do to the votes: its request ends without one, or     *)
(* gets one under the next id.                                              *)

Silent(r) ==
    /\ pc[r] = "new" /\ pc' = [pc EXCEPT ![r] = "dropped"]
    /\ vote' = vote
    /\ seq' \in {seq, seq + 1}
    /\ UNCHANGED <<dedupDisabled, workVars, cometVars, chainVars>>

Voting(r) ==
    /\ pc[r] = "new" /\ pc' = [pc EXCEPT ![r] = "send"]
    /\ vote'[r] # NoVotes /\ vote'[r].tx.id = seq
    /\ \A s \in Request : s # r => vote'[s] = vote[s]
    /\ seq' = seq + 1
    /\ UNCHANGED <<dedupDisabled, workVars, cometVars, chainVars>>

LEMMA HandlerSteps ==
    ASSUME Typed, NEW r \in Request,
           \/ \E b \in Batch : HandleAlert(r, b)
           \/ \E ballot \in StressBallot : HandleStress(r, ballot)
    PROVE  Silent(r) \/ Voting(r)
<1>0. ApiTyped  BY DEF Typed, TypeOK, ApiTyped
<1>1. ASSUME NEW b \in Batch, HandleAlert(r, b)  PROVE Silent(r) \/ Voting(r)
    <2>0. /\ b.agent \in Agent /\ b.sums \in Ballot
          /\ step[b.agent] \in Nat /\ seen[b.agent] \subseteq Param
          /\ pc[r] = "new" /\ UNCHANGED <<dedupDisabled, workVars, cometVars, chainVars>>
        BY <1>0, <1>1, BatchTyped DEF HandleAlert, ApiTyped
    <2>1. CASE IgnoreBatch(r)  BY <2>0, <2>1 DEF IgnoreBatch, Silent
    <2>2. CASE ResetBatch(r, b)
        <3>1. step[b.agent] + 1 \in Nat  BY <2>0
        <3>2. MakeVote(r, b.agent, AllSafe, "safe", step[b.agent] + 1)
            BY <2>2 DEF ResetBatch
        <3>3. /\ vote'[r] # NoVotes /\ vote'[r].tx.id = seq
              /\ \A s \in Request : s # r => vote'[s] = vote[s]
              /\ pc' = [pc EXCEPT ![r] = "send"] /\ seq' = seq + 1
            BY <2>0, <3>1, <3>2, VoteMade, BallotsTyped
        <3>4. QED  BY <2>0, <3>3 DEF Voting
    <2>3. CASE UnfilteredBatch(r, b)
        BY <2>0, <2>3, VoteMade DEF UnfilteredBatch, Voting
    <2>4. CASE FilterBatch(r, b)
        <3> DEFINE fresh == DOMAIN b.sums \ seen[b.agent]
        <3>1. fresh \subseteq Param /\ fresh \subseteq DOMAIN b.sums
            BY <2>0, BallotType
        <3>2. OnlyOn(b.sums, fresh) \in Ballot  BY <2>0, <3>1, BallotsTyped
        <3>3. MakeVote(r, b.agent, OnlyOn(b.sums, fresh), "alert", step[b.agent])
            BY <2>4 DEF FilterBatch
        <3> HIDE DEF fresh
        <3>4. /\ vote'[r] # NoVotes /\ vote'[r].tx.id = seq
              /\ \A s \in Request : s # r => vote'[s] = vote[s]
              /\ pc' = [pc EXCEPT ![r] = "send"] /\ seq' = seq + 1
            BY <2>0, <3>2, <3>3, VoteMade
        <3>5. QED  BY <2>0, <3>4 DEF Voting
    <2>5. CASE DropBatch(r, b)  BY <2>0, <2>5 DEF DropBatch, NextSeq, Silent
    <2>6. QED  BY <1>1, <2>1, <2>2, <2>3, <2>4, <2>5 DEF HandleAlert
<1>2. ASSUME NEW ballot \in StressBallot, HandleStress(r, ballot)  PROVE Voting(r)
    <2>1. NodeAgent \in Agent /\ ballot \in Ballot /\ step[NodeAgent] \in Nat
        BY <1>0, SpsNodeAssumption DEF SpsNodeAssumption, ApiTyped
    <2>2. QED  BY <1>2, <2>1, VoteMade DEF HandleStress, Voting
<1>3. QED  BY <1>1, <1>2

\* Steps of the worker, of its tasks and of CometBFT leave the handlers alone.
LEMMA OtherSteps ==
    ASSUME Worker \/ Comet
    PROVE  UNCHANGED apiVars
<1>1. CASE Worker
    BY <1>1 DEF Worker, Take, Spawn, SubmitOk, SubmitUnanswered, SubmitRefused,
       SubmitRepeated, vars
<1>2. CASE Comet
    BY <1>2 DEF Comet, Gossip, Commit, Crash, Relaunch
<1>3. QED  BY <1>1, <1>2

\* A step of a handler after its vote was made.
LEMMA LaterSteps ==
    ASSUME NEW r \in Request, Enqueue(r) \/ Disconnect(r) \/ Count(r)
    PROVE  /\ UNCHANGED <<vote, seq, seen, step>>
           /\ UNCHANGED <<cometVars, chainVars>>
           /\ pc[r] \in {"send", "count"}
           /\ \E c \in {"gone", "count", "accepted"} : pc' = [pc EXCEPT ![r] = c]
BY DEF Enqueue, Disconnect, Count

\* The kinds of steps, as far as votes are concerned.
LEMMA VoteSteps ==
    ASSUME Typed, Next
    PROVE  \/ \E r \in Request : Silent(r)
           \/ \E r \in Request : Voting(r)
           \/ \E r \in Request : Enqueue(r) \/ Disconnect(r) \/ Count(r)
           \/ UNCHANGED <<pc, vote, seq, seen, step>>
<1>1. CASE Handlers
    BY <1>1, HandlerSteps DEF Handlers, SetDedup, apiVars
<1>2. CASE Worker \/ Comet
    BY <1>2, OtherSteps DEF apiVars
<1>3. QED  BY <1>1, <1>2 DEF Next

\* A vote, once made, is never changed.
LEMMA VotesStay ==
    ASSUME Typed, VotesAreMade, Next, NEW s \in Request, Voted(s)
    PROVE  vote'[s] = vote[s] /\ Voted(s)'
<1>1. CASE \E r \in Request : Silent(r)  BY <1>1 DEF Silent, Voted
<1>2. ASSUME NEW r \in Request, Voting(r)  PROVE vote'[s] = vote[s] /\ Voted(s)'
    BY <1>2 DEF Voting, Voted, VotesAreMade
<1>3. CASE \E r \in Request : Enqueue(r) \/ Disconnect(r) \/ Count(r)
    BY <1>3, LaterSteps DEF Voted
<1>4. CASE UNCHANGED <<pc, vote, seq, seen, step>>  BY <1>4 DEF Voted
<1>5. QED  BY <1>1, <1>2, <1>3, <1>4, VoteSteps

LEMMA VotesMadeStep ==
    ASSUME Typed, VotesAreMade, Next
    PROVE  VotesAreMade'
<1> USE DEF VotesAreMade, Voted
<1>0. pc \in [Request -> {"new", "dropped", "send", "gone", "count", "accepted"}]
    BY DEF Typed, TypeOK
<1>1. ASSUME NEW r \in Request, Silent(r)  PROVE VotesAreMade'
    BY <1>0, <1>1 DEF Silent
<1>2. ASSUME NEW r \in Request, Voting(r)  PROVE VotesAreMade'
    BY <1>0, <1>2 DEF Voting
<1>3. ASSUME NEW r \in Request, Enqueue(r) \/ Disconnect(r) \/ Count(r)
      PROVE  VotesAreMade'
    BY <1>0, <1>3, LaterSteps
<1>4. CASE UNCHANGED <<pc, vote, seq, seen, step>>  BY <1>4
<1>5. QED  BY <1>1, <1>2, <1>3, <1>4, VoteSteps

LEMMA WorkVotedStep ==
    ASSUME NodeTypes, Next
    PROVE  WorkIsVoted'
<1> USE DEF NodeTypes
<1>1. \A s \in Request : Voted(s) => Voted(s)'  BY VotesStay
<1>2. /\ queue \in Seq(Request)
      /\ tasks \subseteq [req : Request, target : Validator]
      /\ hand = NoVotes \/ hand \in [req : Request, target : Validator]
    BY DEF Typed, TypeOK
<1>3. CASE UNCHANGED workVars
    BY <1>1, <1>2, <1>3, ElementOfSeq DEF WorkIsVoted, workVars
<1>4. ASSUME NEW r \in Request, Enqueue(r)  PROVE WorkIsVoted'
    <2>1. \A i \in DOMAIN queue' : queue'[i] = r \/ \E j \in DOMAIN queue : queue'[i] = queue[j]
        BY <1>2, <1>4 DEF Enqueue
    <2>2. Voted(r)  BY <1>4 DEF Enqueue, VotesAreMade
    <2>3. QED
        BY <1>1, <1>2, <1>4, <2>1, <2>2 DEF WorkIsVoted, Enqueue
<1>5. CASE Take
    <2>1. /\ Voted(Head(queue)) /\ Head(queue) \in Request
          /\ \A i \in DOMAIN Tail(queue) :
                Tail(queue)[i] \in Request /\ Voted(Tail(queue)[i])
        BY <1>2, <1>5 DEF Take, WorkIsVoted
    <2>2. QED  BY <1>1, <1>2, <1>5, <2>1 DEF WorkIsVoted, Take
<1>6. CASE Spawn  BY <1>1, <1>2, <1>6 DEF WorkIsVoted, Spawn
<1>7. ASSUME NEW t \in tasks,
             SubmitOk(t) \/ SubmitUnanswered(t) \/ SubmitRefused(t) \/ SubmitRepeated(t)
      PROVE  WorkIsVoted'
    <2>1. UNCHANGED <<queue, hand>> /\ tasks' \subseteq tasks
        BY <1>7 DEF SubmitOk, SubmitUnanswered, SubmitRefused, SubmitRepeated,
           vars, workVars
    <2>2. QED  BY <1>1, <1>2, <2>1 DEF WorkIsVoted
<1>8. CASE Comet
    <2>1. UNCHANGED workVars
        BY <1>8 DEF Comet, Gossip, Commit, Crash, Relaunch
    <2>2. QED  BY <1>3, <2>1
<1>9. ASSUME Handlers, \A r \in Request : ~Enqueue(r)  PROVE UNCHANGED workVars
    BY <1>9 DEF Handlers, HandleAlert, HandleStress, Disconnect, Count, SetDedup
<1>10. QED
    BY <1>3, <1>4, <1>5, <1>6, <1>7, <1>8, <1>9 DEF Next, Handlers, Worker

LEMMA NodeTypesInit ==
    ASSUME Init
    PROVE  NodeTypes
<1> USE DEF Init
<1>1. InitLedger \in LedgerType
    BY VoteTallyAssumption
    DEF VoteTallyAssumption, InitLedger, InitStatus, LedgerType, Status
<1>2. IsFiniteSet(tasks) /\ Cardinality(tasks) <= Permits
    BY FS_EmptySet, SpsNodeAssumption DEF SpsNodeAssumption
<1>3. turn \in 0..(Cardinality(Validator) - 1)  BY TargetTyped
<1>4. queue \in Seq(Request) /\ Len(queue) <= QueueCap
    BY EmptySeq, SpsNodeAssumption DEF SpsNodeAssumption
<1>5. lost \in 0..MaxLost /\ crashes \in 0..MaxCrashes
    BY SpsNodeAssumption DEF SpsNodeAssumption
<1>6. Typed
    BY <1>1, <1>2, <1>3, <1>4, <1>5 DEF Typed, TypeOK
<1>7. VotesAreMade /\ WorkIsVoted
    BY DEF VotesAreMade, WorkIsVoted, Voted
<1>8. QED  BY <1>6, <1>7 DEF NodeTypes

LEMMA NodeTypesStep ==
    ASSUME NodeTypes, [Next]_vars
    PROVE  NodeTypes'
<1>1. CASE Next
    <2>1. Typed'
        BY <1>1, HandlersTyped, WorkerTyped, CometTyped DEF Next, NodeTypes
    <2>2. QED  BY <1>1, <2>1, VotesMadeStep, WorkVotedStep DEF NodeTypes
<1>2. CASE UNCHANGED vars
    BY <1>2 DEF NodeTypes, Typed, TypeOK, VotesAreMade, WorkIsVoted, Voted, vars, apiVars,
       workVars, cometVars, chainVars
<1>3. QED  BY <1>1, <1>2

\* Every variable keeps its type, whatever the requests, the faults and the
\* order of the handlers, the worker, its tasks and the blocks: the tx queue
\* never holds more than its capacity, and no more tasks run than there are
\* permits.
THEOREM TypeCorrect == Spec => []TypeOK
<1>1. Init => NodeTypes  BY NodeTypesInit
<1>2. NodeTypes /\ [Next]_vars => NodeTypes'  BY NodeTypesStep
<1>3. NodeTypes => TypeOK  BY DEF NodeTypes, Typed
<1>4. QED  BY <1>1, <1>2, <1>3, PTL DEF Spec

-----------------------------------------------------------------------------
(* No vote is lost.                                                        *)

\* Ids grow, so that two votes differ in theirs.
IdsAreDrawn ==
    /\ \A r \in Request : Voted(r) => vote[r].tx.id < seq
    /\ \A r, s \in Request :
          (r # s /\ Voted(r) /\ Voted(s)) => vote[r].tx.id # vote[s].tx.id

LEMMA IdsStep ==
    ASSUME NodeTypes, IdsAreDrawn, Next
    PROVE  IdsAreDrawn'
<1> USE DEF NodeTypes, IdsAreDrawn
<1>0. /\ seq \in Nat
      /\ \A r \in Request : Voted(r) => vote[r].tx.id \in Nat
    BY VoteHasTx DEF Typed, TypeOK, VoteTx
<1>1. ASSUME NEW r \in Request, Silent(r)  PROVE IdsAreDrawn'
    BY <1>0, <1>1 DEF Silent, Voted
<1>2. ASSUME NEW r \in Request, Voting(r)  PROVE IdsAreDrawn'
    <2>1. \A s \in Request : s # r => vote'[s] = vote[s] /\ (Voted(s)' <=> Voted(s))
        BY <1>2 DEF Voting, Voted
    <2>2. vote'[r].tx.id = seq /\ seq' = seq + 1  BY <1>2 DEF Voting
    <2>3. QED  BY <1>0, <2>1, <2>2
<1>3. ASSUME NEW r \in Request, Enqueue(r) \/ Disconnect(r) \/ Count(r)
      PROVE  IdsAreDrawn'
    BY <1>3, LaterSteps DEF Voted
<1>4. CASE UNCHANGED <<pc, vote, seq, seen, step>>  BY <1>4 DEF Voted
<1>5. QED  BY <1>1, <1>2, <1>3, <1>4, VoteSteps

\* What the chain has, or has had.
Known == Pending \cup committed \cup wiped

\* A validator knows only transactions that the chain has, or has had.
CacheIsKnown == \A v \in Validator : cache[v] \subseteq Known

LEMMA PendingElement ==
    ASSUME NEW v \in Validator, NEW tx \in mempool[v]
    PROVE  tx \in Pending
BY DEF Pending

\* The chain takes in transactions and forgets none.
LEMMA TakenInKnown ==
    ASSUME Typed, CacheIsKnown, NEW v \in Validator, NEW tx \in VoteTx,
           TakeIn(v, tx), UNCHANGED chainVars
    PROVE  Known \subseteq Known' /\ tx \in Known' /\ CacheIsKnown'
<1>1. /\ mempool \in [Validator -> SUBSET VoteTx]
      /\ cache \in [Validator -> SUBSET VoteTx]
    BY DEF Typed
<1>2. \A w \in Validator : mempool'[w] = IF w = v THEN mempool[w] \cup {tx} ELSE mempool[w]
    BY <1>1 DEF TakeIn
<1>3. \A w \in Validator : cache'[w] = IF w = v THEN cache[w] \cup {tx} ELSE cache[w]
    BY <1>1 DEF TakeIn
<1>4. Pending \subseteq Pending' /\ tx \in Pending'
    BY <1>2 DEF Pending
<1>5. Known \subseteq Known' /\ tx \in Known'
    BY <1>4 DEF Known, TakeIn, chainVars
<1>6. QED  BY <1>3, <1>5 DEF CacheIsKnown

LEMMA KnownStep ==
    ASSUME NodeTypes, CacheIsKnown, Next
    PROVE  Known \subseteq Known' /\ CacheIsKnown'
<1> USE DEF NodeTypes
<1>0. /\ mempool \in [Validator -> SUBSET VoteTx]
      /\ cache \in [Validator -> SUBSET VoteTx]
    BY DEF Typed
<1>1. CASE UNCHANGED <<mempool, cache, wiped, committed>>
    <2>1. Pending' = Pending /\ Known' = Known  BY <1>1 DEF Pending, Known
    <2>2. QED  BY <1>1, <2>1 DEF CacheIsKnown
<1>2. ASSUME NEW t \in tasks, SubmitOk(t) \/ SubmitUnanswered(t)
      PROVE  Known \subseteq Known' /\ CacheIsKnown'
    <2>1. t.req \in Request /\ t.target \in Validator /\ Voted(t.req)
        BY DEF Typed, TypeOK, WorkIsVoted
    <2>2. vote[t.req].tx \in VoteTx  BY <2>1, VoteHasTx
    <2>3. TakeIn(t.target, vote[t.req].tx) /\ UNCHANGED chainVars
        BY <1>2 DEF SubmitOk, SubmitUnanswered
    <2>4. QED  BY <2>1, <2>2, <2>3, TakenInKnown
<1>3. ASSUME NEW v \in Validator, NEW w \in Validator, NEW tx \in mempool[v], Gossip(v, w, tx)
      PROVE  Known \subseteq Known' /\ CacheIsKnown'
    <2>1. tx \in VoteTx  BY <1>0
    <2>2. QED  BY <1>3, <2>1, TakenInKnown DEF Gossip
<1>4. ASSUME NEW v \in Validator, NEW tx \in mempool[v], Commit(v, tx)
      PROVE  Known \subseteq Known' /\ CacheIsKnown'
    <2>1. \A w \in Validator : mempool'[w] = mempool[w] \ {tx}
        BY <1>4 DEF Commit
    <2>2. Pending \subseteq Pending' \cup {tx}
        BY <2>1 DEF Pending
    <2>3. committed' = committed \cup {tx} /\ wiped' = wiped
        BY <1>4 DEF Commit
    <2>4. Known \subseteq Known' /\ tx \in Known'
        BY <2>2, <2>3 DEF Known
    <2>5. \A w \in Validator : cache'[w] \subseteq cache[w] \cup {tx}
        BY <1>4 DEF Commit
    <2>6. QED  BY <2>4, <2>5 DEF CacheIsKnown
<1>5. ASSUME NEW v \in Validator, Crash(v)
      PROVE  Known \subseteq Known' /\ CacheIsKnown'
    <2>1. \A w \in Validator : /\ mempool'[w] = IF w = v THEN {} ELSE mempool[w]
                               /\ cache'[w] = IF w = v THEN {} ELSE cache[w]
        BY <1>0, <1>5 DEF Crash
    <2>2. /\ wiped \subseteq wiped' /\ committed' = committed
          /\ \A tx \in mempool[v] :
                tx \in wiped' \/ \E w \in Validator \ {v} : tx \in mempool[w]
        BY <1>5 DEF Crash, chainVars
    <2>3. Pending \subseteq Pending' \cup wiped'
        BY <2>1, <2>2 DEF Pending
    <2>4. Known \subseteq Known'  BY <2>2, <2>3 DEF Known
    <2>5. QED  BY <2>1, <2>4 DEF CacheIsKnown
<1>6. ASSUME Handlers \/ Take \/ Spawn \/ (\E t \in tasks : SubmitRefused(t) \/ SubmitRepeated(t))
             \/ (\E v \in Validator : Relaunch(v))
      PROVE  UNCHANGED <<mempool, cache, wiped, committed>>
    BY <1>6 DEF Handlers, HandleAlert, HandleStress, Enqueue, Disconnect, Count, SetDedup,
       Take, Spawn, SubmitRefused, SubmitRepeated, Relaunch, vars, cometVars, chainVars
<1>7. QED
    BY <1>1, <1>2, <1>3, <1>4, <1>5, <1>6 DEF Next, Worker, Comet

\* The vote of every request is on its way or known, unless its client gave up.
VotesAreUnderway ==
    \A r \in Request : (Voted(r) /\ pc[r] # "gone") => (InFlight(r) \/ vote[r].tx \in Known)

NoneLost == NodeTypes /\ IdsAreDrawn /\ CacheIsKnown /\ VotesAreUnderway

\* What a step of the handlers does to a vote that was made before it: it is
\* where it was, or in the queue.
LEMMA HandlersKeepVotes ==
    ASSUME NodeTypes, Handlers, NEW s \in Request, Voted(s), InFlight(s),
           pc'[s] # "gone"
    PROVE  InFlight(s)'
<1> USE DEF NodeTypes
<1>0. /\ pc \in [Request -> {"new", "dropped", "send", "gone", "count", "accepted"}]
      /\ queue \in Seq(Request)
      /\ pc[s] # "new"
    BY DEF Typed, TypeOK, VotesAreMade
<1>1. ASSUME NEW r \in Request, Silent(r) \/ Voting(r)  PROVE InFlight(s)'
    <2>1. r # s /\ pc'[s] = pc[s] /\ UNCHANGED workVars
        BY <1>0, <1>1 DEF Silent, Voting
    <2>2. QED  BY <2>1 DEF InFlight, workVars
<1>2. ASSUME NEW r \in Request, Enqueue(r)  PROVE InFlight(s)'
    <2>1. /\ DOMAIN queue \subseteq DOMAIN queue'
          /\ \A i \in DOMAIN queue : queue'[i] = queue[i]
          /\ \E i \in DOMAIN queue' : queue'[i] = r
        BY <1>0, <1>2 DEF Enqueue
    <2>2. CASE r = s  BY <2>1, <2>2 DEF InFlight
    <2>3. CASE r # s
        <3>1. pc'[s] = pc[s] /\ UNCHANGED <<hand, tasks>>
            BY <1>0, <1>2, <2>3 DEF Enqueue
        <3>2. QED  BY <2>1, <3>1 DEF InFlight
    <2>4. QED  BY <2>2, <2>3
<1>3. ASSUME NEW r \in Request, Disconnect(r) \/ Count(r)  PROVE InFlight(s)'
    <2>1. UNCHANGED workVars /\ (pc[s] = "send" => pc'[s] = pc[s])
        BY <1>0, <1>3 DEF Disconnect, Count
    <2>2. QED  BY <2>1 DEF InFlight, workVars
<1>4. ASSUME NEW disabled \in BOOLEAN, SetDedup(disabled)  PROVE InFlight(s)'
    BY <1>4 DEF SetDedup, InFlight, apiVars, workVars
<1>5. QED  BY <1>1, <1>2, <1>3, <1>4, HandlerSteps DEF Handlers

\* The worker and its tasks pass a vote on until the chain has it.
LEMMA WorkerKeepsVotes ==
    ASSUME NodeTypes, CacheIsKnown, Worker, Known \subseteq Known',
           NEW s \in Request, Voted(s), InFlight(s)
    PROVE  InFlight(s)' \/ vote'[s].tx \in Known'
<1> USE DEF NodeTypes
<1>0. /\ queue \in Seq(Request)
      /\ tasks \subseteq [req : Request, target : Validator]
      /\ \A t \in tasks : t.req \in Request /\ Voted(t.req) /\ t.target \in Validator
    BY DEF Typed, TypeOK, WorkIsVoted
<1>1. UNCHANGED <<pc, vote>>  BY OtherSteps DEF apiVars
<1>2. CASE Take
    <2>1. \A i \in DOMAIN queue :
             queue[i] = Head(queue) \/ \E j \in DOMAIN Tail(queue) : Tail(queue)[j] = queue[i]
        <3> TAKE i \in DOMAIN queue
        <3>1. CASE i = 1  BY <1>0, <1>2, <3>1 DEF Take
        <3>2. CASE i # 1
            <4>1. i - 1 \in DOMAIN Tail(queue) /\ Tail(queue)[i - 1] = queue[i]
                BY <1>0, <1>2, <3>2 DEF Take
            <4>2. QED  BY <4>1
        <3>3. QED  BY <3>1, <3>2
    <2>2. Head(queue) \in Request  BY <1>0, <1>2 DEF Take
    <2>3. hand' \in [req : Request, target : Validator]
        BY <1>2, <2>2, TargetTyped DEF Take, Typed, TypeOK
    <2>4. hand' # NoVotes  BY <2>3, NoVotesAssumption DEF NoVotesAssumption
    <2>5. hand'.req = Head(queue) /\ queue' = Tail(queue) /\ UNCHANGED tasks
          /\ hand = NoVotes
        BY <1>2 DEF Take
    <2>6. QED  BY <1>1, <2>1, <2>4, <2>5 DEF InFlight
<1>3. CASE Spawn
    <2>1. tasks' = tasks \cup {hand} /\ UNCHANGED queue  BY <1>3 DEF Spawn
    <2>2. QED  BY <1>1, <2>1 DEF InFlight
<1>4. ASSUME NEW t \in tasks, UNCHANGED <<queue, hand>>, tasks \subseteq tasks' \cup {t},
             t \in tasks' \/ vote[t.req].tx \in Known'
      PROVE  InFlight(s)' \/ vote'[s].tx \in Known'
    BY <1>1, <1>4 DEF InFlight
<1>5. ASSUME NEW t \in tasks, SubmitOk(t)  PROVE InFlight(s)' \/ vote'[s].tx \in Known'
    <2>1. TakeIn(t.target, vote[t.req].tx) /\ UNCHANGED chainVars
        BY <1>5 DEF SubmitOk
    <2>2. vote[t.req].tx \in Known'
        BY <1>0, <2>1, VoteHasTx, TakenInKnown
    <2>3. UNCHANGED <<queue, hand>> /\ tasks \subseteq tasks' \cup {t}
        BY <1>5 DEF SubmitOk
    <2>4. QED  BY <1>4, <2>2, <2>3
<1>6. ASSUME NEW t \in tasks, SubmitUnanswered(t) \/ SubmitRefused(t)
      PROVE  InFlight(s)' \/ vote'[s].tx \in Known'
    BY <1>4, <1>6 DEF SubmitUnanswered, SubmitRefused, vars, workVars
<1>7. ASSUME NEW t \in tasks, SubmitRepeated(t)
      PROVE  InFlight(s)' \/ vote'[s].tx \in Known'
    <2>1. vote[t.req].tx \in Known'
        BY <1>0, <1>7 DEF SubmitRepeated, CacheIsKnown
    <2>2. UNCHANGED <<queue, hand>> /\ tasks \subseteq tasks' \cup {t}
        BY <1>7 DEF SubmitRepeated
    <2>3. QED  BY <1>4, <2>1, <2>2
<1>8. QED  BY <1>2, <1>3, <1>5, <1>6, <1>7 DEF Worker

LEMMA UnderwayStep ==
    ASSUME NodeTypes, CacheIsKnown, VotesAreUnderway, Next
    PROVE  VotesAreUnderway'
<1>0. SUFFICES ASSUME NEW s \in Request, Voted(s)', pc'[s] # "gone"
               PROVE  InFlight(s)' \/ vote'[s].tx \in Known'
    BY DEF VotesAreUnderway
<1>1. Known \subseteq Known'  BY KnownStep
<1>2. CASE ~Voted(s)
    <2>1. PICK r \in Request : Voting(r)
        BY <1>0, <1>2, VoteSteps, LaterSteps DEF NodeTypes, Silent, Voted
    <2>2. r = s  BY <1>0, <1>2, <2>1 DEF Voting, Voted
    <2>3. pc'[s] = "send"  BY <2>1, <2>2 DEF Voting, NodeTypes, Typed, TypeOK
    <2>4. QED  BY <2>3 DEF InFlight
<1>3. CASE Voted(s)
    <2>1. vote'[s] = vote[s] /\ pc[s] # "gone"
        <3>1. vote'[s] = vote[s]  BY <1>3, VotesStay DEF NodeTypes
        <3>2. CASE pc[s] = "gone"
            <4>1. pc'[s] = "gone"
                BY <3>2, VoteSteps, LaterSteps DEF NodeTypes, Typed, TypeOK, Silent, Voting
            <4>2. QED  BY <1>0, <4>1
        <3>3. QED  BY <3>1, <3>2
    <2>2. CASE vote[s].tx \in Known  BY <1>1, <2>1, <2>2
    <2>3. CASE InFlight(s)
        <3>1. CASE Handlers  BY <1>0, <1>3, <2>3, <3>1, HandlersKeepVotes
        <3>2. CASE Worker  BY <1>1, <1>3, <2>3, <3>2, WorkerKeepsVotes
        <3>3. CASE Comet
            <4>1. UNCHANGED <<pc, queue, hand, tasks>>
                BY <3>3 DEF Comet, Gossip, Commit, Crash, Relaunch, apiVars, workVars
            <4>2. QED  BY <2>3, <4>1 DEF InFlight
        <3>4. QED  BY <3>1, <3>2, <3>3 DEF Next
    <2>4. QED  BY <1>3, <2>1, <2>2, <2>3 DEF VotesAreUnderway
<1>4. QED  BY <1>2, <1>3

LEMMA NoneLostInductive ==
    /\ Init => NoneLost
    /\ NoneLost /\ [Next]_vars => NoneLost'
<1>1. ASSUME Init  PROVE NoneLost
    <2>1. \A r \in Request : ~Voted(r)  BY <1>1 DEF Init, Voted
    <2>2. CacheIsKnown  BY <1>1 DEF Init, CacheIsKnown
    <2>3. QED
        BY <1>1, <2>1, <2>2, NodeTypesInit DEF NoneLost, IdsAreDrawn, VotesAreUnderway
<1>2. ASSUME NoneLost, Next  PROVE NoneLost'
    BY <1>2, NodeTypesStep, IdsStep, KnownStep, UnderwayStep DEF NoneLost
<1>3. ASSUME NoneLost, UNCHANGED vars  PROVE NoneLost'
    <2>1. NodeTypes'  BY <1>3, NodeTypesStep DEF NoneLost
    <2>2. UNCHANGED <<pc, vote, seq, queue, hand, tasks, mempool, cache, wiped, committed>>
        BY <1>3 DEF vars, apiVars, workVars, cometVars, chainVars
    <2>3. Known' = Known  BY <2>2 DEF Known, Pending
    <2>4. QED
        BY <1>3, <2>1, <2>2, <2>3 DEF NoneLost, IdsAreDrawn, CacheIsKnown, VotesAreUnderway,
           Voted, InFlight
<1>4. QED  BY <1>1, <1>2, <1>3

\* No vote goes missing between handle_alert or handle_stress and the ledger,
\* however the handlers, the worker, its tasks, refused, unanswered and
\* repeated submissions, gossip, blocks and exits of validators interleave;
\* and no two votes share a transaction.
THEOREM VotesAreNotLost == Spec => []NoVoteLost
<1>1. Init => NoneLost  BY NoneLostInductive
<1>2. NoneLost /\ [Next]_vars => NoneLost'  BY NoneLostInductive
<1>3. ASSUME NoneLost  PROVE NoVoteLost
    <2>1. \A r \in Request : (Voted(r) /\ pc[r] # "gone") => Underway(r)
        BY <1>3 DEF NoneLost, VotesAreUnderway, Underway, Known
    <2>2. QED  BY <1>3, <2>1 DEF NoneLost, IdsAreDrawn, NoVoteLost
<1>4. QED  BY <1>1, <1>2, <1>3, PTL DEF Spec

-----------------------------------------------------------------------------
(* Each type passes the filter once a step.                                 *)

\* No vote was made at a step its agent has not reached.
StepsArePast == \A r \in Request : Voted(r) => vote[r].step <= step[vote[r].tx.agent]

\* A type is remembered exactly if one request of this step forwarded it.
SeenWasForwarded ==
    \A a \in Agent, p \in Param :
        IF p \in seen[a] THEN \E r \in Request : ForwardersOf(a, p) = {r}
                         ELSE ForwardersOf(a, p) = {}

OncePerStep == NodeTypes /\ StepsArePast /\ SeenWasForwarded

\* A request that makes no filtered vote changes no set of forwarders, as long
\* as the agent's step stays.
LEMMA ForwardersStay ==
    ASSUME NEW r \in Request, ~Voted(r),
           \A s \in Request : s # r => vote'[s] = vote[s],
           NEW a \in Agent, NEW p \in Param, step'[a] = step[a],
           \/ vote'[r] = NoVotes
           \/ vote'[r].kind # "alert"
           \/ vote'[r].tx.agent # a
           \/ p \notin DOMAIN vote'[r].tx.ballot
    PROVE  ForwardersOf(a, p)' = ForwardersOf(a, p)
BY DEF ForwardersOf, Voted

\* What MakeVote says of the votes, in the form the cases below need.
LEMMA MadeVote ==
    ASSUME NodeTypes, StepsArePast, NEW r \in Request, NEW agent \in Agent,
           NEW ballot \in Ballot, NEW kind \in {"alert", "safe", "unfiltered", "stress"},
           NEW atStep \in Nat, pc[r] = "new", MakeVote(r, agent, ballot, kind, atStep),
           \A a \in Agent : step'[a] >= step[a], atStep <= step'[agent],
           step' \in [Agent -> Nat]
    PROVE  /\ ~Voted(r) /\ Voted(r)'
           /\ \A s \in Request : s # r => vote'[s] = vote[s]
           /\ vote'[r].kind = kind /\ vote'[r].step = atStep
           /\ vote'[r].tx.agent = agent /\ vote'[r].tx.ballot = ballot
           /\ StepsArePast'
<1>1. /\ vote'[r] = [tx |-> [id |-> seq, agent |-> agent, ballot |-> ballot],
                     kind |-> kind, step |-> atStep]
      /\ vote'[r] # NoVotes
      /\ \A s \in Request : s # r => vote'[s] = vote[s]
    BY VoteMade DEF NodeTypes
<1>2. ~Voted(r) /\ Voted(r)'
    BY <1>1 DEF NodeTypes, VotesAreMade, Voted
<1>3. /\ vote'[r].kind = kind /\ vote'[r].step = atStep
      /\ vote'[r].tx.agent = agent /\ vote'[r].tx.ballot = ballot
    BY <1>1
<1>4. ASSUME NEW s \in Request, Voted(s)'
      PROVE  vote'[s].step <= step'[vote'[s].tx.agent]
    <2>1. CASE s = r  BY <1>3, <2>1
    <2>2. CASE s # r
        <3>1. vote'[s] = vote[s] /\ Voted(s)  BY <1>1, <1>4, <2>2 DEF Voted
        <3>2. vote[s].tx.agent \in Agent /\ vote[s].step \in Nat
            BY <3>1, VoteHasTx DEF NodeTypes, Votes, VoteTx
        <3>3. /\ vote[s].step <= step[vote[s].tx.agent]
              /\ step[vote[s].tx.agent] \in Nat
            BY <3>1, <3>2 DEF StepsArePast, NodeTypes, Typed, TypeOK
        <3>4. /\ step'[vote[s].tx.agent] >= step[vote[s].tx.agent]
              /\ step'[vote[s].tx.agent] \in Nat
            BY <3>2
        <3>5. QED  BY <3>1, <3>2, <3>3, <3>4
    <2>3. QED  BY <2>1, <2>2
<1>5. QED  BY <1>1, <1>2, <1>3, <1>4 DEF StepsArePast

\* The cases of handle_alert and handle_stress.
LEMMA ResetOnce ==
    ASSUME OncePerStep, NEW r \in Request, NEW b \in Batch, pc[r] = "new", ResetBatch(r, b)
    PROVE  StepsArePast' /\ SeenWasForwarded'
<1> USE DEF OncePerStep
<1>0. /\ step \in [Agent -> Nat] /\ seen \in [Agent -> SUBSET Param]
      /\ b.agent \in Agent
    BY BatchTyped DEF NodeTypes, Typed, TypeOK
<1>1. /\ step' = [step EXCEPT ![b.agent] = @ + 1]
      /\ seen' = [seen EXCEPT ![b.agent] = {}]
      /\ MakeVote(r, b.agent, AllSafe, "safe", step[b.agent] + 1)
    BY DEF ResetBatch
<1>2. /\ step[b.agent] + 1 \in Nat /\ step[b.agent] + 1 <= step'[b.agent]
      /\ step' \in [Agent -> Nat] /\ \A a \in Agent : step'[a] >= step[a]
    BY <1>0, <1>1
<1>3. /\ ~Voted(r) /\ \A s \in Request : s # r => vote'[s] = vote[s]
      /\ vote'[r].kind = "safe"
      /\ StepsArePast'
    BY <1>0, <1>1, <1>2, MadeVote, BallotsTyped
<1>4. ASSUME NEW a \in Agent, NEW p \in Param, a = b.agent
      PROVE  p \notin seen'[a] /\ ForwardersOf(a, p)' = {}
    <2>1. p \notin seen'[a] /\ step'[a] = step[a] + 1
        BY <1>0, <1>1, <1>4
    <2>2. ASSUME NEW s \in Request, Voted(s), vote[s].tx.agent = a
          PROVE  vote[s].step # step'[a]
        <3>1. vote[s].step <= step[a] /\ vote[s].step \in Nat /\ step[a] \in Nat
            BY <1>0, <2>2, VoteHasTx DEF StepsArePast, NodeTypes, Votes
        <3>2. QED  BY <2>1, <3>1
    <2>3. ForwardersOf(a, p)' = {}
        BY <1>3, <2>2 DEF ForwardersOf, Voted
    <2>4. QED  BY <2>1, <2>3
<1>5. ASSUME NEW a \in Agent, NEW p \in Param, a # b.agent
      PROVE  seen'[a] = seen[a] /\ ForwardersOf(a, p)' = ForwardersOf(a, p)
    BY <1>0, <1>1, <1>3, <1>5, ForwardersStay
<1>6. SeenWasForwarded'  BY <1>4, <1>5 DEF SeenWasForwarded
<1>7. QED  BY <1>3, <1>6

LEMMA FilterOnce ==
    ASSUME OncePerStep, NEW r \in Request, NEW b \in Batch, pc[r] = "new", FilterBatch(r, b)
    PROVE  StepsArePast' /\ SeenWasForwarded'
<1> USE DEF OncePerStep
<1> DEFINE fresh == DOMAIN b.sums \ seen[b.agent]
<1>0. /\ step \in [Agent -> Nat] /\ seen \in [Agent -> SUBSET Param]
      /\ b.agent \in Agent /\ b.sums \in Ballot
    BY BatchTyped DEF NodeTypes, Typed, TypeOK
<1>1. /\ step' = step
      /\ seen' = [seen EXCEPT ![b.agent] = @ \cup fresh]
      /\ MakeVote(r, b.agent, OnlyOn(b.sums, fresh), "alert", step[b.agent])
    BY DEF FilterBatch
<1>2. fresh \subseteq Param /\ fresh \subseteq DOMAIN b.sums
    BY <1>0, BallotType
<1>3. OnlyOn(b.sums, fresh) \in Ballot /\ DOMAIN OnlyOn(b.sums, fresh) = fresh
    BY <1>0, <1>2, BallotsTyped
<1>4. /\ step[b.agent] \in Nat /\ step[b.agent] <= step'[b.agent]
      /\ step' \in [Agent -> Nat] /\ \A a \in Agent : step'[a] >= step[a]
    BY <1>0, <1>1
<1>5. /\ ~Voted(r) /\ Voted(r)'
      /\ \A s \in Request : s # r => vote'[s] = vote[s]
      /\ vote'[r].kind = "alert" /\ vote'[r].step = step[b.agent]
      /\ vote'[r].tx.agent = b.agent /\ vote'[r].tx.ballot = OnlyOn(b.sums, fresh)
      /\ StepsArePast'
    BY <1>0, <1>1, <1>3, <1>4, MadeVote
<1> HIDE DEF fresh
<1>6. ASSUME NEW a \in Agent, NEW p \in Param, a = b.agent, p \in fresh
      PROVE  p \in seen'[a] /\ ForwardersOf(a, p)' = {r}
    <2>1. p \in seen'[a] /\ p \notin seen[a]  BY <1>0, <1>1, <1>6 DEF fresh
    <2>2. ForwardersOf(a, p) = {}  BY <2>1 DEF SeenWasForwarded
    <2>3. ForwardersOf(a, p)' = {r}
        BY <1>1, <1>3, <1>5, <1>6, <2>2 DEF ForwardersOf, Voted
    <2>4. QED  BY <2>1, <2>3
<1>7. ASSUME NEW a \in Agent, NEW p \in Param, a # b.agent \/ p \notin fresh
      PROVE  (p \in seen'[a] <=> p \in seen[a]) /\ ForwardersOf(a, p)' = ForwardersOf(a, p)
    <2>1. p \in seen'[a] <=> p \in seen[a]  BY <1>0, <1>1, <1>7
    <2>2. step'[a] = step[a]  BY <1>1
    <2>3. vote'[r].tx.agent # a \/ p \notin DOMAIN vote'[r].tx.ballot
        BY <1>3, <1>5, <1>7
    <2>4. QED  BY <1>5, <2>1, <2>2, <2>3, ForwardersStay
<1>8. SeenWasForwarded'  BY <1>6, <1>7 DEF SeenWasForwarded
<1>9. QED  BY <1>5, <1>8

\* A vote outside the filter.
LEMMA UnfilteredOnce ==
    ASSUME OncePerStep, NEW r \in Request, pc[r] = "new", NEW agent \in Agent,
           NEW ballot \in Ballot, NEW kind \in {"unfiltered", "stress"},
           MakeVote(r, agent, ballot, kind, step[agent]), UNCHANGED <<seen, step>>
    PROVE  StepsArePast' /\ SeenWasForwarded'
<1> USE DEF OncePerStep
<1>1. step \in [Agent -> Nat]  BY DEF NodeTypes, Typed, TypeOK
<1>2. /\ step[agent] \in Nat /\ step[agent] <= step'[agent]
      /\ step' \in [Agent -> Nat] /\ \A a \in Agent : step'[a] >= step[a]
    BY <1>1
<1>3. /\ ~Voted(r) /\ vote'[r].kind = kind /\ StepsArePast'
      /\ \A s \in Request : s # r => vote'[s] = vote[s]
    BY <1>2, MadeVote
<1>4. \A a \in Agent, p \in Param : ForwardersOf(a, p)' = ForwardersOf(a, p)
    BY <1>3, ForwardersStay
<1>5. QED  BY <1>3, <1>4 DEF SeenWasForwarded

LEMMA OnceStep ==
    ASSUME OncePerStep, Next
    PROVE  StepsArePast' /\ SeenWasForwarded'
<1>0. NodeTypes /\ \A a \in Agent : step[a] \in Nat
    BY DEF OncePerStep, NodeTypes, Typed, TypeOK
<1>1. CASE UNCHANGED <<vote, seen, step>>
    BY <1>1 DEF OncePerStep, StepsArePast, SeenWasForwarded, ForwardersOf, Voted
<1>2. ASSUME NEW r \in Request, NEW b \in Batch, HandleAlert(r, b)
      PROVE  StepsArePast' /\ SeenWasForwarded'
    <2>1. pc[r] = "new"  BY <1>2 DEF HandleAlert
    <2>2. CASE IgnoreBatch(r) \/ DropBatch(r, b)
        BY <1>1, <2>2 DEF IgnoreBatch, DropBatch
    <2>3. CASE ResetBatch(r, b)  BY <2>1, <2>3, ResetOnce
    <2>4. CASE UnfilteredBatch(r, b)
        BY <2>1, <2>4, BatchTyped, UnfilteredOnce DEF UnfilteredBatch
    <2>5. CASE FilterBatch(r, b)  BY <2>1, <2>5, FilterOnce
    <2>6. QED  BY <1>2, <2>2, <2>3, <2>4, <2>5 DEF HandleAlert
<1>3. ASSUME NEW r \in Request, NEW ballot \in StressBallot, HandleStress(r, ballot)
      PROVE  StepsArePast' /\ SeenWasForwarded'
    <2>1. NodeAgent \in Agent /\ ballot \in Ballot
        BY SpsNodeAssumption DEF SpsNodeAssumption
    <2>2. QED  BY <1>3, <2>1, UnfilteredOnce DEF HandleStress
<1>4. CASE \E r \in Request : Enqueue(r) \/ Disconnect(r) \/ Count(r)
    BY <1>1, <1>4, LaterSteps
<1>5. CASE \E disabled \in BOOLEAN : SetDedup(disabled)
    BY <1>1, <1>5 DEF SetDedup, apiVars
<1>6. CASE Worker \/ Comet
    BY <1>1, <1>6, OtherSteps DEF apiVars
<1>7. QED  BY <1>2, <1>3, <1>4, <1>5, <1>6 DEF Next, Handlers

\* Between two resets of an agent the filter of handle_alert lets each attack
\* type through exactly once if it is remembered as seen, and not at all
\* otherwise, however many handlers run at once and wherever their votes are.
THEOREM ForwardedOnce == Spec => []ForwardedOncePerStep
<1>1. ASSUME Init  PROVE OncePerStep
    <2>1. \A r \in Request : ~Voted(r)  BY <1>1 DEF Init, Voted
    <2>2. \A a \in Agent : seen[a] = {}  BY <1>1 DEF Init
    <2>3. QED
        BY <1>1, <2>1, <2>2, NodeTypesInit
        DEF OncePerStep, StepsArePast, SeenWasForwarded, ForwardersOf
<1>2. ASSUME OncePerStep, [Next]_vars  PROVE OncePerStep'
    <2>1. NodeTypes'  BY <1>2, NodeTypesStep DEF OncePerStep
    <2>2. CASE Next  BY <1>2, <2>1, <2>2, OnceStep DEF OncePerStep
    <2>3. CASE UNCHANGED vars
        BY <1>2, <2>1, <2>3
        DEF OncePerStep, StepsArePast, SeenWasForwarded, ForwardersOf, Voted, vars, apiVars
    <2>4. QED  BY <1>2, <2>2, <2>3
<1>3. ASSUME OncePerStep  PROVE ForwardedOncePerStep
    <2>1. ASSUME NEW a \in Agent, NEW p \in Param
          PROVE  Cardinality(ForwardersOf(a, p)) = IF p \in seen[a] THEN 1 ELSE 0
        <3>1. CASE p \in seen[a]
            <4>1. PICK r \in Request : ForwardersOf(a, p) = {r}
                BY <1>3, <3>1 DEF OncePerStep, SeenWasForwarded
            <4>2. Cardinality({r}) = 1  BY FS_Singleton
            <4>3. QED  BY <3>1, <4>1, <4>2
        <3>2. CASE p \notin seen[a]
            <4>1. ForwardersOf(a, p) = {}
                BY <1>3, <3>2 DEF OncePerStep, SeenWasForwarded
            <4>2. QED  BY <3>2, <4>1, FS_EmptySet
        <3>3. QED  BY <3>1, <3>2
    <2>2. QED  BY <2>1 DEF ForwardedOncePerStep
<1>4. QED
    <2>1. Init => OncePerStep  BY <1>1
    <2>2. OncePerStep /\ [Next]_vars => OncePerStep'  BY <1>2
    <2>3. OncePerStep => ForwardedOncePerStep  BY <1>3
    <2>4. QED  BY <2>1, <2>2, <2>3, PTL DEF Spec
=============================================================================
