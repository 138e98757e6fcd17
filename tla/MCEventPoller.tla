--------------------------- MODULE MCEventPoller ---------------------------
(***************************************************************************)
(* Two scripts of the Quorum lab that share no state, and hand out numbers *)
(* over suspended calls: the poller of member3, with three polls that      *)
(* overlap, three blocks and one failure; and the sender of a member's     *)
(* API, with three requests and one failure.  A behaviour is one of one    *)
(* script, so that their states add up rather than multiply.               *)
(***************************************************************************)
EXTENDS EventPoller, TxSender

CONSTANTS poll1, poll2, poll3
MCPoll == {poll1, poll2, poll3}

VARIABLE subject

mcVars == <<subject, vars, senderVars>>

MCInit ==
    /\ subject \in {"poller", "sender"}
    /\ Init /\ SenderInit

MCNext ==
    /\ UNCHANGED subject
    /\ \/ subject = "poller" /\ Next       /\ UNCHANGED senderVars
       \/ subject = "sender" /\ SenderNext /\ UNCHANGED vars

\* The fairness of each script: the other one stays in its initial state.
MCSpec ==
    /\ MCInit /\ [][MCNext]_mcVars
    /\ \A t \in Poll : /\ WF_vars(subject = "poller" /\ Start(t))
                       /\ WF_vars(subject = "poller" /\ Answer(t))
                       /\ WF_vars(subject = "poller" /\ Resume(t))
                       /\ WF_vars(subject = "poller" /\ Forward(t))
    /\ WF_senderVars(subject = "sender" /\ Sending)
=============================================================================
