------------------------------- MODULE MCOpHash -------------------------------
(***************************************************************************)
(* OpHash with MIN_NODES = 2: six keys make it double twice and shrink back. *)
(***************************************************************************)
EXTENDS OpHash, TLC

CONSTANTS v1, v2

MCKey == 1 .. 6
MCHash == [k \in MCKey |-> IF k = 6 THEN 3 ELSE k]
MCValue == {v1, v2}
MCSymmetry == Permutations(MCValue)
==============================================================================
