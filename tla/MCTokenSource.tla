--------------------------- MODULE MCTokenSource ---------------------------
(***************************************************************************)
(* TokenSource for TLC.                                                    *)
(***************************************************************************)
EXTENDS TokenSource

CONSTANTS p1, p2
=============================================================================
