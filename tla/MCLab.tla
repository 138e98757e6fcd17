------------------------------- MODULE MCLab -------------------------------
(***************************************************************************)
(* Three parts of a lab that share no state: how it is set up, the         *)
(* forwarder of one IDS, and the response loop.  A behaviour is one of one *)
(* part, so that their states add up rather than multiply.                 *)
(***************************************************************************)
EXTENDS LabSetup, AlertForwarder, Response

CONSTANTS sqli, xss, a1, a2, a3

\* The same two types as the forwarder's lines name them.
TypeRank == sqli :> 1 @@ xss :> 2

\* An attack that is spelled with spaces and names another type as well, and
\* a recovery that does.
Lines == {[negative |-> FALSE, names |-> {sqli}, spelled |-> {xss}],
          [negative |-> TRUE,  names |-> {xss},  spelled |-> {sqli}]}

\* An attack is detected by two of the three IDSs.
Pairs == {{a1, a2}, {a2, a3}}

VARIABLE subject

mcVars == <<subject, labVars, forwarderVars, responseVars>>

Init ==
    /\ subject \in {"setup", "forwarder", "response"}
    /\ LabInit /\ ForwarderInit /\ ResponseInit
    /\ subject # "setup" => lab = "cometbft"

Next ==
    /\ UNCHANGED subject
    /\ \/ subject = "setup"     /\ LabNext       /\ UNCHANGED <<forwarderVars, responseVars>>
       \/ subject = "forwarder" /\ ForwarderNext /\ UNCHANGED <<labVars, responseVars>>
       \/ subject = "response"  /\ ResponseNext  /\ UNCHANGED <<labVars, forwarderVars>>

\* The fairness of each part: one that is not the subject stays in its initial
\* state, where nothing fair is enabled.
Spec == /\ Init /\ [][Next]_mcVars
        /\ WF_labVars(subject = "setup" /\ Scripts)
        /\ WF_forwarderVars(subject = "forwarder" /\ Threads)
        /\ WF_responseVars(subject = "response" /\ Loop)
=============================================================================
