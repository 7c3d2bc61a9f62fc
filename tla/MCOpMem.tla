------------------------------- MODULE MCOpMem -------------------------------
(* Two pools of two blocks and one block, one spare address for a father.     *)
EXTENDS OpMem, TLC

CONSTANTS f1, f2, f3, t1, t2, s1

MCPoolSize == <<1, 2>>
MCPoolNum == <<2, 1>>
MCReqSize == {1, 2, 3}

Symmetry == Permutations(Thread) \cup Permutations(Father)
==============================================================================
