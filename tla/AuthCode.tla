------------------------------ MODULE AuthCode ------------------------------
(***************************************************************************)
(* The authorization-code token source (openbanking/authcode.go): a pair   *)
(* of an access token and a refresh token, first obtained by the bootstrap *)
(* program for a code, kept on disk, and renewed by whichever goroutine    *)
(* finds the access token stale. The authorization server may rotate the   *)
(* refresh token on every renewal: it then accepts the new one alone.      *)
(*                                                                         *)
(* Around the source: requests that were given up but not recalled, the    *)
(* program that saves a snapshot now and then, and crashes.                *)
(*                                                                         *)
(* Refresh tokens are numbered in the order of their issue, 0 is none. All *)
(* times count down, as in TokenSource.                                    *)
(***************************************************************************)
EXTENDS Integers

CONSTANTS
    Procs,        \* goroutines that call Token
    None,         \* nobody
    ConfigEarly,  \* AuthCodeConfig.EarlyRefresh, 0 means unset
    DefaultEarly, \* DefaultEarlyRefresh
    Fallback,     \* the lifetime supposed when expires_in is missing
    TTLs,         \* lifetimes the server puts in expires_in, 0 if it does not
    TripBound,    \* the longest round trip to the server
    MaxRefresh    \* refresh tokens ever issued

ASSUME AuthCodeAssumption ==
    /\ None \notin Procs
    /\ ConfigEarly \in Nat /\ DefaultEarly \in Nat /\ Fallback \in Nat
    /\ TTLs \subseteq Nat
    /\ TripBound \in Nat
    /\ MaxRefresh \in Nat \ {0}

VARIABLES
    phase,      \* "fresh" before the consent, then "down" or "up"
    holder,     \* who holds mu
    at,         \* where each goroutine is in Token
    tok,        \* the source's token pair
    elapsed,    \* time since the holder found the access token stale
    reply,      \* the server's answer on its way to the holder
    got,        \* what Token returned last to each goroutine
    disk,       \* the pair as it was last written
    snap,       \* a snapshot about to be written
    saving,     \* TRUE while there is one
    accepted,   \* the refresh token the server accepts
    wire,       \* refresh requests the server has not processed
    lost        \* the reply with the accepted token never reached the source

vars == <<phase, holder, at, tok, elapsed, reply, got, disk, snap, saving,
          accepted, wire, lost>>
saver == <<disk, snap, saving>>
server == <<accepted, wire, lost>>

Pair == [refresh : 0..MaxRefresh, left : Nat, life : Nat]
NoPair == [refresh |-> 0, left |-> 0, life |-> 0]

NoReply == [here |-> FALSE, ttl |-> 0, life |-> 0, refresh |-> 0]

TypeOK ==
    /\ phase \in {"fresh", "down", "up"}
    /\ holder \in Procs \cup {None}
    /\ at \in [Procs -> {"idle", "lock", "check", "trip"}]
    /\ tok \in Pair /\ disk \in Pair /\ snap \in Pair
    /\ elapsed \in 0..TripBound
    /\ reply \in [here : BOOLEAN, ttl : TTLs \cup {0}, life : Nat,
                  refresh : 0..MaxRefresh]
    /\ got \in [Procs -> {"nothing", "token", "error"}]
    /\ saving \in BOOLEAN
    /\ accepted \in 0..MaxRefresh
    /\ wire \subseteq [token : 1..MaxRefresh, by : Procs \cup {None}]
    /\ lost \in BOOLEAN

----------------------------------------------------------------------------

Less(n) == IF n > 0 THEN n - 1 ELSE 0
AtLeast0(n) == IF n > 0 THEN n ELSE 0

\* NewAuthCodeTokenSource fills in the default, ExchangeAuthCode does not.
SourceEarly == IF ConfigEarly = 0 THEN DefaultEarly ELSE ConfigEarly
ExchangeEarly == ConfigEarly

Promised(ttl) == IF ttl = 0 THEN Fallback ELSE ttl

\* Fault: expires_in is taken as it is.
Remaining_NoMargin(ttl, early) == Promised(ttl)

\* Until ExpiresAt, on a clock read after the round trip.
Remaining(ttl, early) == AtLeast0(Promised(ttl) - early)

Init ==
    /\ phase = "fresh"
    /\ disk = NoPair /\ tok = NoPair
    /\ holder = None
    /\ at = [p \in Procs |-> "idle"]
    /\ elapsed = 0
    /\ reply = NoReply
    /\ got = [p \in Procs |-> "nothing"]
    /\ snap = NoPair /\ saving = FALSE
    /\ accepted = 0
    /\ wire = {}
    /\ lost = FALSE

\* The bootstrap program exchanges the code for a pair, with a refresh token or
\* without, and writes it to disk.
ExchangeAuthCode ==
    /\ phase = "fresh"
    /\ \E ttl \in TTLs, trip \in 0..TripBound, refresh \in {0, 1} :
          /\ disk' = [refresh |-> refresh,
                      left |-> Remaining(ttl, ExchangeEarly),
                      life |-> AtLeast0(Promised(ttl) - trip)]
          /\ accepted' = refresh
    /\ phase' = "down"
    /\ UNCHANGED <<holder, at, tok, elapsed, reply, got, snap, saving, wire,
                   lost>>

\* A process starts from the pair on disk.
NewAuthCodeTokenSource ==
    /\ phase = "down"
    /\ tok' = disk
    /\ phase' = "up"
    /\ UNCHANGED <<holder, at, elapsed, reply, got, saver, server>>

----------------------------------------------------------------------------
\* Token.

Call(p) ==
    /\ phase = "up" /\ at[p] = "idle"
    /\ at' = [at EXCEPT ![p] = "lock"]
    /\ got' = [got EXCEPT ![p] = "nothing"]
    /\ UNCHANGED <<phase, holder, tok, elapsed, reply, saver, server>>

\* Fault: readers do not exclude one another.
Free_Shared == TRUE

Free == holder = None

Lock(p) ==
    /\ at[p] = "lock" /\ Free
    /\ holder' = p
    /\ at' = [at EXCEPT ![p] = "check"]
    /\ UNCHANGED <<phase, tok, elapsed, reply, got, saver, server>>

Return(p, what) ==
    /\ holder' = None
    /\ at' = [at EXCEPT ![p] = "idle"]
    /\ got' = [got EXCEPT ![p] = what]

Usable == tok.left > 0

Hit(p) ==
    /\ at[p] = "check" /\ Usable
    /\ Return(p, "token")
    /\ UNCHANGED <<phase, tok, elapsed, reply, saver, server>>

\* Expired, and nothing to renew it with: the user must consent again.
NoRefresh(p) ==
    /\ at[p] = "check" /\ ~Usable /\ tok.refresh = 0
    /\ Return(p, "error")
    /\ UNCHANGED <<phase, tok, elapsed, reply, saver, server>>

\* Fault: the refresh is posted whether or not there is a refresh token.
Miss_WithoutToken(p) ==
    /\ at[p] = "check" /\ ~Usable
    /\ at' = [at EXCEPT ![p] = "trip"]
    /\ wire' = wire \cup {[token |-> tok.refresh, by |-> p]}
    /\ elapsed' = 0
    /\ reply' = NoReply
    /\ UNCHANGED <<phase, holder, tok, got, saver, accepted, lost>>

Miss(p) ==
    /\ at[p] = "check" /\ ~Usable /\ tok.refresh # 0
    /\ at' = [at EXCEPT ![p] = "trip"]
    /\ wire' = wire \cup {[token |-> tok.refresh, by |-> p]}
    /\ elapsed' = 0
    /\ reply' = NoReply
    /\ UNCHANGED <<phase, holder, tok, got, saver, accepted, lost>>

\* Fault: the field is copied although it is empty.
Renewed_Empty(refresh) == refresh

\* A reply without a refresh token leaves the previous one in place.
Renewed(refresh) == IF refresh = 0 THEN tok.refresh ELSE refresh

Store(p) ==
    /\ at[p] = "trip" /\ reply.here
    /\ tok' = [refresh |-> Renewed(reply.refresh),
               left |-> Remaining(reply.ttl, SourceEarly),
               life |-> reply.life]
    /\ Return(p, "token")
    /\ elapsed' = 0
    /\ reply' = NoReply
    /\ UNCHANGED <<phase, saver, server>>

\* A request that nobody waits for any longer stays where it is.
Orphaned(m, ps) == IF m.by \in ps THEN [m EXCEPT !.by = None] ELSE m

\* A refusal, a broken connection, a context that is done, or a reply that cannot
\* be used. The pair stays as it was.
Fail(p) ==
    /\ at[p] = "trip"
    /\ Return(p, "error")
    /\ wire' = {Orphaned(m, {p}) : m \in wire}
    /\ lost' = (lost \/ reply.refresh \notin {0, tok.refresh})
    /\ elapsed' = 0
    /\ reply' = NoReply
    /\ UNCHANGED <<phase, tok, saver, accepted>>

----------------------------------------------------------------------------
\* The program around the source.

\* Snapshot waits for the mutex, but not in front of anybody.
Snapshot ==
    /\ phase = "up" /\ ~saving /\ Free
    /\ snap' = tok /\ saving' = TRUE
    /\ UNCHANGED <<phase, holder, at, tok, elapsed, reply, got, disk, server>>

Write ==
    /\ saving
    /\ disk' = snap
    /\ snap' = NoPair /\ saving' = FALSE
    /\ UNCHANGED <<phase, holder, at, tok, elapsed, reply, got, server>>

Crash ==
    /\ phase = "up"
    /\ phase' = "down"
    /\ tok' = NoPair
    /\ holder' = None
    /\ at' = [p \in Procs |-> "idle"]
    /\ got' = [p \in Procs |-> "nothing"]
    /\ elapsed' = 0
    /\ reply' = NoReply
    /\ snap' = NoPair /\ saving' = FALSE
    /\ wire' = {Orphaned(m, Procs) : m \in wire}
    /\ lost' = (disk.refresh # accepted)
    /\ UNCHANGED <<disk, accepted>>

----------------------------------------------------------------------------
\* The authorization server.

\* A request with the accepted token is granted: a new access token, and the same
\* refresh token, which may or may not be repeated, or the next one.
Grant(m, ttl) ==
    /\ m \in wire /\ m.token = accepted
    /\ wire' = wire \ {m}
    /\ \E refresh \in {0, accepted, accepted + 1} \cap 0..MaxRefresh :
          /\ accepted' = IF refresh = 0 THEN accepted ELSE refresh
          /\ IF m.by = None
             THEN lost' = (lost \/ accepted' # accepted) /\ UNCHANGED reply
             ELSE /\ reply' = [here |-> TRUE, ttl |-> ttl,
                               life |-> Promised(ttl), refresh |-> refresh]
                  /\ UNCHANGED lost
    /\ UNCHANGED <<phase, holder, at, tok, elapsed, got, saver>>

\* One with a token that was replaced is refused, and so may be any other.
Refuse(m) ==
    /\ m \in wire
    /\ wire' = wire \ {m}
    /\ UNCHANGED <<phase, holder, at, tok, elapsed, reply, got, saver, accepted,
                   lost>>

Older(pair) == [pair EXCEPT !.left = Less(@), !.life = Less(@)]

Tripping == \E p \in Procs : at[p] = "trip"

Tick ==
    /\ Tripping => elapsed < TripBound
    /\ Tripping \/ \E pair \in {tok, disk} : pair.life > 0 \/ pair.left > 0
    /\ tok' = Older(tok) /\ disk' = Older(disk) /\ snap' = Older(snap)
    /\ reply' = [reply EXCEPT !.life = Less(@)]
    /\ elapsed' = IF Tripping THEN elapsed + 1 ELSE 0
    /\ UNCHANGED <<phase, holder, at, got, saving, server>>

----------------------------------------------------------------------------

Next ==
    \/ ExchangeAuthCode \/ NewAuthCodeTokenSource
    \/ \E p \in Procs :
          \/ Call(p) \/ Lock(p) \/ Hit(p) \/ NoRefresh(p) \/ Miss(p)
          \/ Store(p) \/ Fail(p)
    \/ Snapshot \/ Write \/ Crash
    \/ \E m \in wire : Refuse(m) \/ \E ttl \in TTLs : Grant(m, ttl)
    \/ Tick

Spec == Init /\ [][Next]_vars

----------------------------------------------------------------------------
(***************************************************************************)
(* Properties.                                                             *)
(***************************************************************************)

\* Whatever the server repeats, rotates or leaves out, and however goroutines,
\* snapshots and crashes interleave, the source holds the refresh token that the
\* server accepts, unless the reply that carried it was lost.
SessionKept ==
    phase = "up" /\ ~lost /\ reply.refresh = 0 => tok.refresh = accepted

\* The refresh token on a request that somebody waits for is always the source's
\* current one: no goroutine presents one that another has already had replaced,
\* which servers take for a theft. It may still be a token that the server has
\* replaced, namely after the reply with its successor was lost: a granted request
\* was given up, or a crash came before the new pair was on disk. Then, and only
\* then, the code presents the replaced token again.
ReuseOnlyAfterLoss ==
    \A m \in wire : m.by # None =>
        /\ m.token = tok.refresh
        /\ m.token = accepted \/ lost

\* A token handed from the cache has at least the early-refresh margin of its life
\* left, less the time the reply took. It holds of the first one, which the
\* bootstrap program obtained, only if its configuration set the margin.
MarginKept == Usable => tok.life > SourceEarly - TripBound
=============================================================================
