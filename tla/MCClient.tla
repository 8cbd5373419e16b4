------------------------------ MODULE MCClient ------------------------------
(***************************************************************************)
(* Client for TLC.                                                         *)
(***************************************************************************)
EXTENDS Client, TLC

CONSTANTS c1, c2

Symmetry == Permutations({c1, c2})

MCShapes == {[method |-> "POST", stream |-> FALSE]}
=============================================================================
