---------------------------- MODULE TokenSource ----------------------------
(***************************************************************************)
(* The two self-contained token sources: jwt.Source (auth/jwt/source.go,   *)
(* refreshing with a fixed refresh token) and ClientCredentialsTokenSource *)
(* (openbanking/tokensource.go). Both guard one cached token by a mutex    *)
(* that Token holds across the whole round trip to the authorization       *)
(* server; they differ in when they read the clock, in what they do with   *)
(* an odd reply, and in their safety margin.                               *)
(*                                                                         *)
(* All times count down: left is what remains until the source's own       *)
(* expiry time, life what remains until the server's. A mutex has one      *)
(* holder, so there is one round trip to keep.                             *)
(***************************************************************************)
EXTENDS Integers

CONSTANTS
    Procs,      \* goroutines that call Token
    None,       \* nobody: the mutex is free
    Kinds,      \* subset of {"jwt", "cc"}
    Skew,       \* refreshSkew of jwt.Source
    Early,      \* EarlyRefresh of ClientCredentialsTokenSource
    Fallback,   \* the lifetime it supposes when expires_in is missing
    TTLs,       \* lifetimes the server puts in expires_in, 0 if it does not
    TripBound   \* the longest round trip to the server

ASSUME SourceAssumption ==
    /\ None \notin Procs
    /\ Kinds \subseteq {"jwt", "cc"}
    /\ Skew \in Nat /\ Early \in Nat /\ Fallback \in Nat
    /\ TTLs \subseteq Nat
    /\ TripBound \in Nat

VARIABLES
    kind,       \* which of the two sources this is
    holder,     \* who holds mu
    at,         \* where each goroutine is in Token
    cache,      \* accessToken and expiresAt
    elapsed,    \* time since the holder found the cache stale
    reply,      \* the server's answer on its way back
    got         \* life of the token Token returned last, Error or Nothing

vars == <<kind, holder, at, cache, elapsed, reply, got>>

Nothing == -2
Error == -1

NoToken == [set |-> FALSE, left |-> 0, life |-> 0]
NoReply == [here |-> FALSE, token |-> FALSE, ttl |-> 0, life |-> 0]

TypeOK ==
    /\ kind \in Kinds
    /\ holder \in Procs \cup {None}
    /\ at \in [Procs -> {"idle", "lock", "check", "trip"}]
    /\ cache \in [set : BOOLEAN, left : Nat, life : Nat]
    /\ elapsed \in 0..TripBound
    /\ reply \in [here : BOOLEAN, token : BOOLEAN, ttl : TTLs \cup {0},
                  life : Nat]
    /\ got \in [Procs -> Int]

Init ==
    /\ kind \in Kinds
    /\ holder = None
    /\ at = [p \in Procs |-> "idle"]
    /\ cache = NoToken
    /\ elapsed = 0
    /\ reply = NoReply
    /\ got = [p \in Procs |-> Nothing]

----------------------------------------------------------------------------

Less(n) == IF n > 0 THEN n - 1 ELSE 0
AtLeast0(n) == IF n > 0 THEN n ELSE 0

Call(p) ==
    /\ at[p] = "idle"
    /\ at' = [at EXCEPT ![p] = "lock"]
    /\ got' = [got EXCEPT ![p] = Nothing]
    /\ UNCHANGED <<kind, holder, cache, elapsed, reply>>

\* Fault: readers do not exclude one another.
Free_Shared(p) == TRUE

Free(p) == holder = None

Lock(p) ==
    /\ at[p] = "lock" /\ Free(p)
    /\ holder' = p
    /\ at' = [at EXCEPT ![p] = "check"]
    /\ UNCHANGED <<kind, cache, elapsed, reply, got>>

\* Token returns and the deferred Unlock runs.
Return(p, life) ==
    /\ holder' = None
    /\ at' = [at EXCEPT ![p] = "idle"]
    /\ got' = [got EXCEPT ![p] = life]

Usable == cache.set /\ cache.left > 0

Hit(p) ==
    /\ at[p] = "check" /\ Usable
    /\ Return(p, cache.life)
    /\ UNCHANGED <<kind, cache, elapsed, reply>>

\* The cached token is stale: the request goes out with the mutex held.
Miss(p) ==
    /\ at[p] = "check" /\ ~Usable
    /\ at' = [at EXCEPT ![p] = "trip"]
    /\ elapsed' = 0
    /\ reply' = NoReply
    /\ UNCHANGED <<kind, holder, cache, got>>

\* The lifetime the client may count on when expires_in says ttl: a source that
\* supposes one when the field is missing is taken at its word.
Promised(ttl) == IF ttl = 0 /\ kind = "cc" THEN Fallback ELSE ttl

\* The server issues a token, or says 2xx without one.
Answer(p, ttl, token) ==
    /\ at[p] = "trip" /\ ~reply.here
    /\ reply' = [here |-> TRUE, token |-> token, ttl |-> ttl,
                 life |-> IF token THEN Promised(ttl) ELSE 0]
    /\ UNCHANGED <<kind, holder, at, cache, elapsed, got>>

\* Fault: the client-credentials source reads the clock after the round trip.
Remaining_ClockAfter(ttl) ==
    IF kind = "jwt" THEN (IF ttl <= Skew THEN 0 ELSE ttl - Skew)
    ELSE AtLeast0(Promised(ttl) - Early)

\* Fault: jwt.Source takes its skew off any lifetime, also a shorter one.
Remaining_Unclamped(ttl) ==
    IF kind = "jwt" THEN ttl - Skew
    ELSE AtLeast0(Promised(ttl) - Early - elapsed)

\* Fault: no margin is taken off.
Remaining_NoMargin(ttl) ==
    IF kind = "jwt" THEN ttl ELSE AtLeast0(Promised(ttl) - elapsed)

\* Until the expiry time the source computes. jwt.Source counts from after the
\* round trip and never falls below zero, the other from before it.
Remaining(ttl) ==
    IF kind = "jwt" THEN (IF ttl <= Skew THEN 0 ELSE ttl - Skew)
    ELSE AtLeast0(Promised(ttl) - Early - elapsed)

\* The reply is decoded and cached. jwt.Source takes a reply without a token for
\* a token: it returns the empty string and no error.
Store(p) ==
    /\ at[p] = "trip" /\ reply.here /\ (reply.token \/ kind = "jwt")
    /\ cache' = IF reply.token
                THEN [set |-> TRUE, left |-> Remaining(reply.ttl),
                      life |-> reply.life]
                ELSE NoToken
    /\ Return(p, reply.life)
    /\ elapsed' = 0
    /\ reply' = NoReply
    /\ UNCHANGED kind

\* Fault: an error return that leaves the mutex locked.
Abandon_Locked(p) ==
    /\ at' = [at EXCEPT ![p] = "idle"]
    /\ got' = [got EXCEPT ![p] = Error]
    /\ UNCHANGED holder

Abandon(p) == Return(p, Error)

\* The assertion cannot be signed, the connection breaks, the context is done,
\* the server says no, or its reply cannot be used. The cache stays as it was.
Fail(p) ==
    /\ at[p] = "trip"
    /\ Abandon(p)
    /\ elapsed' = 0
    /\ reply' = NoReply
    /\ UNCHANGED <<kind, cache>>

----------------------------------------------------------------------------

Tripping == \E p \in Procs : at[p] = "trip"

Older(c) == [c EXCEPT !.left = Less(@), !.life = Less(@)]

Elapse ==
    /\ Tripping => elapsed < TripBound
    /\ cache' = Older(cache)
    /\ reply' = [reply EXCEPT !.life = Less(@)]
    /\ elapsed' = IF Tripping THEN elapsed + 1 ELSE 0
    /\ UNCHANGED <<kind, holder, at, got>>

Tick == (Tripping \/ cache.life > 0 \/ cache.left > 0) /\ Elapse

Answers(p) == \E ttl \in TTLs, token \in BOOLEAN : Answer(p, ttl, token)

\* What the goroutine does once it has called Token.
Step(p) == Lock(p) \/ Hit(p) \/ Miss(p) \/ Store(p) \/ Fail(p)

Next ==
    \/ \E p \in Procs : Call(p) \/ Step(p) \/ Answers(p)
    \/ Tick

Settle(p) == reply.here /\ (Store(p) \/ Fail(p))

\* A goroutine in Token runs on, and sync.Mutex hands itself over to a waiter
\* that starves. That the server answers is an assumption about the server.
Running(p) ==
    /\ SF_vars(Lock(p))
    /\ WF_vars(Hit(p)) /\ WF_vars(Miss(p)) /\ WF_vars(Settle(p))

Fairness == \A p \in Procs : Running(p) /\ WF_vars(Answers(p))

Safe == Init /\ [][Next]_vars
Spec == Safe /\ Fairness

----------------------------------------------------------------------------
(***************************************************************************)
(* Properties.                                                             *)
(***************************************************************************)

Headroom == IF kind = "cc" THEN Early ELSE Skew - TripBound
RefreshBelow == IF kind = "cc" THEN Early + TripBound ELSE Skew

\* One refresh in flight: a goroutine past the lock is the one holder, so no two
\* of them ever talk to the server at once.
SingleFlight ==
    \A p \in Procs : at[p] \in {"check", "trip"} <=> holder = p

\* A token that Token would return from the cache has more than Headroom of its
\* life left: the time the reply took, on a clock read before or after the trip,
\* never eats up the margin.
CachedTokenLive == Usable => cache.life > Headroom

\* Every call of Token returns as long as the server answers, also when it fails
\* others before it.
TokenReturns == \A p \in Procs : at[p] = "lock" ~> at[p] = "idle"

\* What the comment on jwt.Source.Token says.
NeverExpired == Usable => cache.life > 0

Tripper == IF holder # None /\ at[holder] = "trip" THEN holder ELSE None

C == INSTANCE Credential WITH
        Users <- Procs, Nobody <- None,
        margin <- Headroom, threshold <- RefreshBelow,
        life <- cache.life, renewer <- Tripper, given <- got

\* The source keeps the promise of Credential.
Implements == C!Spec
=============================================================================
