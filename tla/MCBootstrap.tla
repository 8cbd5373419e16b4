---------------------------- MODULE MCBootstrap ----------------------------
(***************************************************************************)
(* Bootstrap for TLC: a callback with a code and the right state, one with *)
(* a code and another state, a refusal, and one with an empty query.       *)
(***************************************************************************)
EXTENDS Bootstrap

CONSTANTS r1, r2, r3

MCContents ==
    {[code |-> TRUE, error |-> FALSE, own |-> TRUE],
     [code |-> TRUE, error |-> FALSE, own |-> FALSE],
     [code |-> FALSE, error |-> TRUE, own |-> TRUE],
     [code |-> FALSE, error |-> FALSE, own |-> FALSE]}
=============================================================================
