---------------------------- MODULE MCCronField ------------------------------
(***************************************************************************)
(* CronField with an array of four, numbers up to one beyond it, and fields  *)
(* of two items.                                                            *)
(***************************************************************************)
EXTENDS CronField

MCStep == {-1, 0, 2, 3}
==============================================================================
