----------------------------- MODULE MCAuthCode -----------------------------
(***************************************************************************)
(* AuthCode for TLC.                                                       *)
(***************************************************************************)
EXTENDS AuthCode, TLC

CONSTANTS p1, p2

Symmetry == Permutations({p1, p2})
=============================================================================
