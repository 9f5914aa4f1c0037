---------------------------- MODULE RequestChannel ----------------------------
(* What a session promises to the control application that uses it: requests  *)
(* are numbered in the order of SubmitRule, the peer serves them in that      *)
(* order, and the k-th GetResult returns the answer to the k-th SubmitRule.   *)
(* The control applications rely on this pairing: a StageResponse carries no  *)
(* request identifier, so a caller that submitted several rules can only      *)
(* match answers to rules by position.                                        *)
EXTENDS Naturals

VARIABLES
    submitted,   \* number of requests accepted by SubmitRule
    served,      \* number of requests the peer has answered
    delivered,   \* number of answers handed out by GetResult
    answer,      \* the request the last answer belongs to (0: none yet)
    closed       \* RemoveSession has been called

vars == <<submitted, served, delivered, answer, closed>>

Init ==
    /\ submitted = 0
    /\ served = 0
    /\ delivered = 0
    /\ answer = 0
    /\ closed = FALSE

Submit ==
    /\ ~closed
    /\ submitted' = submitted + 1
    /\ UNCHANGED <<served, delivered, answer, closed>>

\* A request already handed to the peer may still be answered after the close.
Serve ==
    /\ served < submitted
    /\ served' = served + 1
    /\ UNCHANGED <<submitted, delivered, answer, closed>>

\* The application stops asking once it has closed the channel.
Deliver ==
    /\ ~closed
    /\ delivered < served
    /\ delivered' = delivered + 1
    /\ answer' = delivered + 1
    /\ UNCHANGED <<submitted, served, closed>>

Close ==
    /\ ~closed
    /\ closed' = TRUE
    /\ UNCHANGED <<submitted, served, delivered, answer>>

Next == Submit \/ Serve \/ Deliver \/ Close

\* Until the close every request is served and every answer is delivered.
Spec ==
    /\ Init /\ [][Next]_vars
    /\ WF_vars(Serve /\ ~closed)
    /\ WF_vars(Deliver)
===============================================================================
