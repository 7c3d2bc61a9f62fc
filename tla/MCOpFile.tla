------------------------------- MODULE MCOpFile -------------------------------
(***************************************************************************)
(* OpFile with four expressions, two of them of the same length.             *)
(***************************************************************************)
EXTENDS OpFile

MCSize == <<1, 2, 2, 3>>
==============================================================================
