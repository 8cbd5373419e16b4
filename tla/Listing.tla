------------------------------ MODULE Listing ------------------------------
(***************************************************************************)
(* What an iterator over a paginated list promises to its consumer: the    *)
(* items that were there when the listing was opened, newest first, each   *)
(* one once, and an end without an error only after the oldest.            *)
(*                                                                         *)
(* Items are numbered by age, 1 being the oldest. A listing may be walked  *)
(* again from the start. Nothing is promised where trusted does not hold.  *)
(***************************************************************************)
EXTENDS Integers

VARIABLES
    trusted,    \* the promise is made at all
    ceiling,    \* items that a listing opened now would walk
    left,       \* items this one has still to yield, or Unopened
    given,      \* the item yielded last, 0 before the first
    phase       \* "idle", "running", "exhausted" or "stopped"

Unopened == -1

vars == <<trusted, ceiling, left, given, phase>>

Init ==
    /\ ceiling \in Nat
    /\ left = Unopened /\ given = 0
    /\ phase = "idle"

\* It may turn out at once that the listing cannot be walked.
Start ==
    /\ phase # "running"
    /\ phase' \in {"running", "stopped"} /\ left' = Unopened /\ given' = 0
    /\ UNCHANGED ceiling

Open ==
    /\ phase = "running" /\ left = Unopened
    /\ left' = ceiling
    /\ UNCHANGED <<ceiling, given, phase>>

\* The consumer may break out of its loop at any item.
Yield ==
    /\ phase = "running" /\ left > 0
    /\ given' = left /\ left' = left - 1
    /\ phase' \in {"running", "stopped"}
    /\ UNCHANGED ceiling

Finish ==
    /\ phase = "running" /\ left = 0
    /\ phase' = "exhausted"
    /\ UNCHANGED <<ceiling, left, given>>

\* The consumer is given an error instead of an item.
Stop ==
    /\ phase = "running"
    /\ phase' = "stopped"
    /\ UNCHANGED <<ceiling, left, given>>

\* Items are added at the young end.
Grow ==
    /\ ceiling' \in Nat /\ ceiling' >= ceiling
    /\ UNCHANGED <<left, given, phase>>

Next ==
    /\ UNCHANGED trusted
    /\ trusted => Start \/ Open \/ Yield \/ Finish \/ Stop \/ Grow

Spec == Init /\ [][Next]_vars
=============================================================================
