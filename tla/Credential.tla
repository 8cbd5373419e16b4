----------------------------- MODULE Credential -----------------------------
(***************************************************************************)
(* What a token source promises to the goroutines that share it: one       *)
(* credential, renewed by one user at a time and only when it is close to  *)
(* its expiry, and handed from memory only while it is far enough from it. *)
(*                                                                         *)
(* The remaining life of the credential is what the server that issued it  *)
(* would say; it counts down.                                              *)
(***************************************************************************)
EXTENDS Integers

CONSTANTS Users, Nobody

VARIABLES
    margin,     \* life a credential handed from memory is sure to exceed
    threshold,  \* life above which nobody asks for another one
    life,       \* what is left of the shared credential, 0 if there is none
    renewer,    \* the user that is renewing it, or Nobody
    given       \* life of what each user was given last, Error or Nothing

Nothing == -2
Error == -1

vars == <<margin, threshold, life, renewer, given>>

Init ==
    /\ margin \in Int /\ threshold \in Int
    /\ life = 0
    /\ renewer = Nobody
    /\ given = [u \in Users |-> Nothing]

\* A user asks; what it was given before is no longer of interest.
Ask(u) ==
    /\ given' = [given EXCEPT ![u] = Nothing]
    /\ UNCHANGED <<life, renewer>>

Share(u) ==
    /\ renewer = Nobody
    /\ life > margin
    /\ given' = [given EXCEPT ![u] = life]
    /\ UNCHANGED <<life, renewer>>

Begin(u) ==
    /\ renewer = Nobody
    /\ life <= threshold
    /\ renewer' = u
    /\ UNCHANGED <<life, given>>

Renew(u) ==
    /\ renewer = u
    /\ life' \in Nat
    /\ given' = [given EXCEPT ![u] = life']
    /\ renewer' = Nobody

GiveUp(u) ==
    /\ renewer = u
    /\ renewer' = Nobody
    /\ given' = [given EXCEPT ![u] = Error]
    /\ UNCHANGED life

Age ==
    /\ life' = IF life > 0 THEN life - 1 ELSE 0
    /\ UNCHANGED <<renewer, given>>

Next ==
    /\ \/ \E u \in Users :
             Ask(u) \/ Share(u) \/ Begin(u) \/ Renew(u) \/ GiveUp(u)
       \/ Age
    /\ UNCHANGED <<margin, threshold>>

Spec == Init /\ [][Next]_vars
=============================================================================
