------------------------------- MODULE MCOpCli -------------------------------
(***************************************************************************)
(* OpCli with three sessions and two descriptors.                            *)
(***************************************************************************)
EXTENDS OpCli

CONSTANTS c1, c2, c3

MCClient == {c1, c2, c3}
==============================================================================
