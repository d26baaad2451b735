---------------------------- MODULE MCLmfServer ------------------------------
(* A small instance of LmfServer for TLC: two racing workers, a vector     *)
(* without a solution and one at the origin.  Positions computed from torn *)
(* matrices are neither.                                                   *)
EXTENDS LmfServer
CONSTANTS t1, t2, bad, origin
TwoThreads == {t1, t2}
TwoVectors == {bad, origin}
NoSolution == {bad}
Origin == {origin}
==============================================================================
