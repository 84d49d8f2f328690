------------------------------ MODULE Responder ------------------------------
(***************************************************************************)
(* What a server promises on one connection: every response answers a      *)
(* request that was received on this connection, and no request is         *)
(* answered twice.  Requests are identified by their position in the       *)
(* stream of received messages.                                            *)
(***************************************************************************)
EXTENDS Naturals, Sequences

VARIABLES
    requests,   \* requests received so far
    answers     \* responses sent so far, in order

Answered == {answers[i] : i \in 1..Len(answers)}

Init == requests = {} /\ answers = <<>>

\* One read may complete several requests.
Receive ==
    /\ requests \subseteq requests'
    /\ UNCHANGED answers

Answer ==
    /\ \E k \in requests \ Answered : answers' = Append(answers, k)
    /\ UNCHANGED requests

Next == Receive \/ Answer

Spec == Init /\ [][Next]_<<requests, answers>>
=============================================================================
