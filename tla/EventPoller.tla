---------------------------- MODULE EventPoller ----------------------------
(***************************************************************************)
(* actuator_forwarder.js: member3 polls its geth for ActionRequired events *)
(* and forwards each to the actuator.                                      *)
(*                                                                         *)
(* setInterval starts a poll every 100 ms, whether the previous ones have  *)
(* ended or not.  A poll is suspended twice, at getBlockNumber and at      *)
(* getPastEvents, and runs without interruption in between; geth answers   *)
(* the polls in any order.  lastBlock is shared by all of them.  Blocks of *)
(* QBFT are final, so what getPastEvents returns depends on its range only.*)
(***************************************************************************)
EXTENDS Integers, FiniteSets

CONSTANTS
    Poll,          \* polls that may be under way at once
    MaxBlocks,     \* bound on the blocks of the chain
    MaxFailures    \* bound on the polls that end in the catch

ASSUME EventPollerAssumption == MaxBlocks \in Nat /\ MaxFailures \in Nat

VARIABLES
    height,      \* the number of the last block
    eventful,    \* the blocks with an ActionRequired event
    lastBlock,   \* lastBlock
    poll,        \* the progress of each poll, see PollType
    forwarded,   \* history: the blocks whose events were forwarded
    failures     \* polls that ended in the catch so far

vars == <<height, eventful, lastBlock, poll, forwarded, failures>>

\* A poll waits for the block number, has it (to), or waits for the events of
\* the blocks from..to.
PollType == [at : {"idle", "number", "answered", "events"},
             from : 0..(MaxBlocks + 1), to : 0..MaxBlocks]

Idle == [at |-> "idle", from |-> 0, to |-> 0]

Init ==
    /\ height = 0 /\ eventful = {}
    /\ lastBlock = 0
    /\ poll = [t \in Poll |-> Idle]
    /\ forwarded = {}
    /\ failures = 0

-----------------------------------------------------------------------------
\* The chain grows by a block, with or without events.
Mine(events) ==
    /\ height < MaxBlocks
    /\ height' = height + 1
    /\ eventful' = IF events THEN eventful \cup {height'} ELSE eventful
    /\ UNCHANGED <<lastBlock, poll, forwarded, failures>>

\* The timer starts a poll.
Start(t) ==
    /\ poll[t].at = "idle"
    /\ poll' = [poll EXCEPT ![t].at = "number"]
    /\ UNCHANGED <<height, eventful, lastBlock, forwarded, failures>>

\* geth answers getBlockNumber.
Answer(t) ==
    /\ poll[t].at = "number"
    /\ poll' = [poll EXCEPT ![t] = [at |-> "answered", from |-> 0, to |-> height]]
    /\ UNCHANGED <<height, eventful, lastBlock, forwarded, failures>>

\* Mutant: the blocks are taken for read before their events are fetched.
Resume_MarksRead(t) ==
    /\ poll[t].at = "answered"
    /\ poll' = IF poll[t].to <= lastBlock
               THEN [poll EXCEPT ![t] = Idle]
               ELSE [poll EXCEPT ![t].at = "events", ![t].from = lastBlock + 1]
    /\ lastBlock' = IF poll[t].to <= lastBlock THEN lastBlock ELSE poll[t].to
    /\ UNCHANGED <<height, eventful, forwarded, failures>>

\* Mutant: the comparison waits for two new blocks.
Resume_WaitsForTwo(t) ==
    /\ poll[t].at = "answered"
    /\ poll' = IF poll[t].to <= lastBlock + 1
               THEN [poll EXCEPT ![t] = Idle]
               ELSE [poll EXCEPT ![t].at = "events", ![t].from = lastBlock + 1]
    /\ UNCHANGED <<height, eventful, lastBlock, forwarded, failures>>

\* The poll returns if nothing is new, or asks for the events of new blocks.
Resume(t) ==
    /\ poll[t].at = "answered"
    /\ poll' = IF poll[t].to <= lastBlock
               THEN [poll EXCEPT ![t] = Idle]
               ELSE [poll EXCEPT ![t].at = "events", ![t].from = lastBlock + 1]
    /\ UNCHANGED <<height, eventful, lastBlock, forwarded, failures>>

EventsUpTo(t, b) == {e \in eventful : poll[t].from <= e /\ e <= b}

\* Mutant: the next poll starts one block further.
Forward_SkipsOne(t) ==
    /\ poll[t].at = "events"
    /\ forwarded' = forwarded \cup EventsUpTo(t, poll[t].to)
    /\ lastBlock' = poll[t].to + 1
    /\ poll' = [poll EXCEPT ![t] = Idle]
    /\ UNCHANGED <<height, eventful, failures>>

\* The events arrive and are forwarded.  lastBlock goes back if a poll with
\* a higher block ended before this one.
Forward(t) ==
    /\ poll[t].at = "events"
    /\ forwarded' = forwarded \cup EventsUpTo(t, poll[t].to)
    /\ lastBlock' = poll[t].to
    /\ poll' = [poll EXCEPT ![t] = Idle]
    /\ UNCHANGED <<height, eventful, failures>>

\* A call fails, or writing the log does after some events were forwarded:
\* the error is caught, and the poll ends.
Fail(t) ==
    /\ poll[t].at \in {"number", "events"}
    /\ failures < MaxFailures
    /\ failures' = failures + 1
    /\ \E b \in 0..poll[t].to :
          forwarded' = IF poll[t].at = "events"
                       THEN forwarded \cup EventsUpTo(t, b) ELSE forwarded
    /\ poll' = [poll EXCEPT ![t] = Idle]
    /\ UNCHANGED <<height, eventful, lastBlock>>

Next ==
    \/ \E events \in BOOLEAN : Mine(events)
    \/ \E t \in Poll : Start(t)
    \/ \E t \in Poll : Answer(t)
    \/ \E t \in Poll : Resume(t)
    \/ \E t \in Poll : Forward(t)
    \/ \E t \in Poll : Fail(t)

\* The timer keeps ticking, and geth answers or fails each call in the end.
\* No block need be mined and no call need fail.
Fairness == \A t \in Poll :
    WF_vars(Start(t)) /\ WF_vars(Answer(t)) /\ WF_vars(Resume(t)) /\ WF_vars(Forward(t))

Spec == Init /\ [][Next]_vars /\ Fairness

-----------------------------------------------------------------------------
(* Every variable has its type.                                            *)
TypeOK ==
    /\ height \in 0..MaxBlocks
    /\ eventful \subseteq 1..height
    /\ lastBlock \in 0..height
    /\ poll \in [Poll -> PollType]
    /\ forwarded \subseteq eventful
    /\ failures \in 0..MaxFailures

\* However the polls overlap, fail half way or set lastBlock back, no block
\* up to lastBlock has an event that was not forwarded: what is skipped is
\* never read again.
NothingSkipped == \A e \in eventful : e <= lastBlock => e \in forwarded

\* Every event is forwarded in the end: a late poll that sets lastBlock back
\* costs repetitions and no event, and so does a poll that fails.
EventuallyForwarded ==
    \A b \in 1..MaxBlocks : b \in eventful ~> b \in forwarded
=============================================================================
