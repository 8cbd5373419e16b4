---------------------------- MODULE MCTransport ----------------------------
(***************************************************************************)
(* Transport for TLC.                                                      *)
(***************************************************************************)
EXTENDS Transport, TLC

CONSTANT c1

MCShapes == [method : {"GET", "POST"}, stream : BOOLEAN]

\* No header, one that parses to nothing, and a wait. With MaxInt = 3 the second
\* backoff, 2 * BaseDelay = 4, wraps to -4.
MCHints == {NoHeader, 0, 2}
=============================================================================
