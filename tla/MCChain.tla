------------------------------ MODULE MCChain ------------------------------
(* Every array of at most two migrations among versions 0 .. 3, and every  *)
(* array of three that all move forward: a link of every kind (backward,   *)
(* still, by one, by more), every order of the array, duplicates, gaps and *)
(* overshoots.                                                             *)
EXTENDS Chain

Forward == {m \in Link : MovesForward(m)}

MCArrays == UNION {[1 .. n -> Link] : n \in 0 .. 2} \cup [1 .. 3 -> Forward]
=============================================================================
