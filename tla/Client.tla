------------------------------- MODULE Client -------------------------------
(***************************************************************************)
(* A client as its constructor assembles it: one Transport, one token      *)
(* source as its Authenticator, shared by every call. build() applies the  *)
(* credentials on each attempt, so a call that retries goes through the    *)
(* token source's mutex again and again.                                   *)
(***************************************************************************)
EXTENDS Integers

CONSTANTS
    MaxInt, MaxAttempts, BaseDelay, MaxDelay, DefaultAttempts, DefaultBase,
    DefaultCap, RetryableStatuses, RetryableMethods, HonorRetryAfter, Nil,
    Calls, Shapes, Keys, ReplyStatuses, Hints, Policies, RetryAfterUnit,
    DefaultUnit, AttemptBound,
    None, Kinds, Skew, Early, Fallback, TTLs, TripBound,
    DialBound   \* the longest time from Apply to the write of the request

VARIABLES
    policy, pc, req, header, copied, live, attempt, outcome, body, timer,
    result, sent, applied, inbox, quiet, won,
    kind, holder, at, cache, elapsed, reply, got,
    bearer,     \* life left of the token in each call's Authorization header
    dialed      \* time since Apply of each call whose request is not written yet

T == INSTANCE Transport
S == INSTANCE TokenSource WITH Procs <- Calls

transportVars == <<policy, pc, req, header, copied, live, attempt, outcome,
                   body, timer, result, sent, applied, inbox, quiet, won>>
sourceVars == <<kind, holder, at, cache, elapsed, reply, got>>
stamped == <<bearer, dialed>>
vars == <<transportVars, sourceVars, stamped>>

\* INSTANCE does not carry the assumptions of the parts over.
ASSUME ClientAssumption ==
    /\ T!DurationAssumption /\ T!TransportAssumption
    /\ T!FailuresOnly /\ T!HintsFit
    /\ S!SourceAssumption
    /\ DialBound \in Nat

TypeOK ==
    /\ T!TypeOK
    /\ S!TypeOK
    /\ bearer \in [Calls -> Nat]
    /\ dialed \in [Calls -> 0..DialBound]

Init ==
    /\ T!Init /\ S!Init
    /\ bearer = [c \in Calls |-> 0] /\ dialed = [c \in Calls |-> 0]

----------------------------------------------------------------------------

\* The loop reaches build() and the Authenticator asks for a token.
Enter(c) ==
    /\ pc[c] = "build"
    /\ S!Call(c)
    /\ UNCHANGED <<transportVars, stamped>>

\* Inside Token, short of its return.
Token(c) ==
    /\ S!Lock(c) \/ S!Miss(c) \/ S!Answers(c)
    /\ UNCHANGED <<transportVars, stamped>>

\* Fault: the header is set on the first attempt only.
Bearer_First(c) == IF attempt[c] = 0 THEN got'[c] ELSE bearer[c]

\* Apply stamps the token it just got on the rebuilt request.
Bearer(c) == got'[c]

\* Fault: a usable token is also taken without the mutex.
Authorize_Unlocked(c) ==
    /\ \/ S!Hit(c) \/ S!Store(c)
       \/ /\ S!Usable
          /\ got' = [got EXCEPT ![c] = cache.life]
          /\ UNCHANGED <<kind, holder, at, cache, elapsed, reply>>
    /\ T!ApplyOK(c)
    /\ bearer' = [bearer EXCEPT ![c] = Bearer(c)]
    /\ dialed' = [dialed EXCEPT ![c] = 0]

Authorize(c) ==
    /\ S!Hit(c) \/ S!Store(c)
    /\ T!ApplyOK(c)
    /\ bearer' = [bearer EXCEPT ![c] = Bearer(c)]
    /\ dialed' = [dialed EXCEPT ![c] = 0]

\* Fault: Apply ignores the error and stamps what Token returned beside it.
Refuse_Ignored(c) ==
    /\ S!Fail(c)
    /\ T!ApplyOK(c)
    /\ bearer' = [bearer EXCEPT ![c] = got'[c]]
    /\ dialed' = [dialed EXCEPT ![c] = 0]

\* Without a token the request is never made.
Refuse(c) ==
    /\ S!Fail(c)
    /\ T!ApplyFail(c)
    /\ UNCHANGED stamped

Exchange(c) ==
    /\ T!Step(c)
    /\ dialed' = [dialed EXCEPT ![c] = 0]
    /\ UNCHANGED <<sourceVars, bearer>>

\* The caller and the API server. A request that its call no longer waits for
\* is left unserved here: no variable of the client depends on it.
Outside ==
    /\ \/ \E c \in Calls : T!Start(c) \/ T!Reject(c) \/ T!Cancel(c)
       \/ \E m \in sent, status \in ReplyStatuses, hint \in Hints :
             /\ pc[m.call] = "wire" /\ attempt[m.call] = m.n
             /\ T!Serve(m, status, hint)
    /\ UNCHANGED <<sourceVars, stamped>>

\* Time passes for everyone, also for a request that carries its header and waits
\* for http.Client.Do to resolve, dial and handshake. That takes DialBound at
\* most: the timeout of the HTTP client covers it.
Pass ==
    /\ \A c \in Calls : pc[c] = "send" => dialed[c] < DialBound
    /\ T!Elapse /\ S!Elapse
    /\ bearer' = [c \in Calls |-> S!Less(bearer[c])]
    /\ dialed' = [c \in Calls |-> IF pc[c] = "send" THEN dialed[c] + 1 ELSE 0]

Next ==
    \/ \E c \in Calls :
          Enter(c) \/ Token(c) \/ Authorize(c) \/ Refuse(c) \/ Exchange(c)
    \/ Outside
    \/ Pass

\* Inside Token: the goroutine runs, and the mutex starves nobody.
TokenFairness(c) ==
    /\ WF_vars(Enter(c))
    /\ SF_vars(S!Lock(c) /\ Token(c))
    /\ WF_vars(S!Miss(c) /\ Token(c))
    /\ WF_vars(Authorize(c))
    /\ WF_vars((reply.here \/ ~live[c]) /\ Refuse(c))

Running == \A c \in Calls : TokenFairness(c) /\ WF_vars(Exchange(c))

Safe == Init /\ [][Next]_vars

\* Neither time nor the authorization server is assumed to do anything: the
\* client built for it sets no timeout.
Spec == Safe /\ Running

----------------------------------------------------------------------------
(***************************************************************************)
(* Properties.                                                             *)
(***************************************************************************)

\* Every request goes out with a token that is alive when it is written, also
\* after a dial that takes its time, and also the replay made after a wait that
\* outlived the token of the first attempt. A token from the cache owes that to
\* the early-refresh margin, which covers the dial; a token just fetched to a
\* lifetime longer than its round trip and the dial.
BearerLiveOnWire == [][\A m \in sent' \ sent : bearer[m.call] > 0]_vars

\* No goroutine waits for the token mutex, or holds it, with a response open: a
\* full connection pool and a held mutex cannot wait for each other.
NoHoldAndWait == \A c \in Calls : at[c] # "idle" => body[c] # "open"

\* Put together, both parts still behave as they do on their own.
PartsHold == T!Safe /\ S!Safe
=============================================================================
