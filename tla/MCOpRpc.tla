------------------------------- MODULE MCOpRpc -------------------------------
(***************************************************************************)
(* OpRpc with a header of two units and requests of up to five.  One call    *)
(* is any; beside it another, with content shorter than a header, goes on.   *)
(***************************************************************************)
EXTENDS OpRpc

CONSTANTS c1, c2

MCCaller == {c1, c2}
\* No content, content shorter than a header, longer, and above RPC_REQ_SIZE.
MCSize == {0, 1, 4, 5}
MCType == {0, 1}
\* A failure, an empty answer, an answer, one above RPC_RESPONSE_SIZE.
MCReturn == {-1, 0, 1, 2}

MCInit == Init /\ request[c2] = [type |-> 0, size |-> 1, answer |-> TRUE]

MCSpec == MCInit /\ [][Next]_vars /\ Fairness
==============================================================================
