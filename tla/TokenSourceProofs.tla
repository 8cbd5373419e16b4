------------------------- MODULE TokenSourceProofs -------------------------
(***************************************************************************)
(* Proofs about TokenSource: for any number of goroutines, any lifetimes   *)
(* and any bound on the round trip, the mutex makes refreshes single, a    *)
(* cached token keeps its margin, and the source implements Credential.    *)
(***************************************************************************)
EXTENDS TokenSource, TLAPS

\* Remaining time stays a natural number as it counts down.
LEMMA LessNat == \A n \in Nat : Less(n) \in Nat
BY DEF Less

\* The parts of a well-typed reply are lengths of time.
LEMMA ReplyTypes ==
    ASSUME TypeOK
    PROVE  /\ reply.ttl \in Nat
           /\ reply.life \in Nat
           /\ elapsed \in Nat /\ elapsed <= TripBound
<1>1. reply.ttl \in TTLs \cup {0} /\ reply.life \in Nat
  BY DEF TypeOK
<1>2. TTLs \cup {0} \subseteq Nat
  BY SourceAssumption
<1>3. elapsed \in 0..TripBound /\ TripBound \in Nat
  BY SourceAssumption DEF TypeOK
<1>4. elapsed \in Nat /\ elapsed <= TripBound
  BY <1>3
<1>5. QED
  BY <1>1, <1>2, <1>4

\* What the source makes of a reply is a length of time.
LEMMA RemainingNat ==
    ASSUME TypeOK
    PROVE  Remaining(reply.ttl) \in Nat
<1>1. reply.ttl \in Nat
  BY ReplyTypes
<1>2. elapsed \in Nat
  BY ReplyTypes
<1>3. Promised(reply.ttl) \in Nat
  BY <1>1, SourceAssumption DEF Promised
<1>4. QED
  BY <1>1, <1>2, <1>3, SourceAssumption DEF Remaining, AtLeast0

\* The initial states are well typed.
LEMMA TypeInit == Init => TypeOK
BY SourceAssumption DEF Init, TypeOK, NoToken, NoReply, Nothing

\* Every step keeps the types.
LEMMA TypeStep == TypeOK /\ [Next]_vars => TypeOK'
<1> SUFFICES ASSUME TypeOK, [Next]_vars PROVE TypeOK'
  OBVIOUS
<1> USE SourceAssumption DEF TypeOK
<1>1. CASE UNCHANGED vars
  BY <1>1 DEF vars
<1>2. ASSUME NEW p \in Procs, Call(p) PROVE TypeOK'
  BY <1>2 DEF Call, Nothing
<1>3. ASSUME NEW p \in Procs, Lock(p) PROVE TypeOK'
  BY <1>3 DEF Lock
<1>4. ASSUME NEW p \in Procs, Hit(p) PROVE TypeOK'
  BY <1>4 DEF Hit, Return
<1>5. ASSUME NEW p \in Procs, Miss(p) PROVE TypeOK'
  BY <1>5 DEF Miss, NoReply
<1>6. ASSUME NEW p \in Procs, Store(p) PROVE TypeOK'
  <2>1. Remaining(reply.ttl) \in Nat
    BY RemainingNat
  <2>2. QED
    BY <1>6, <2>1 DEF Store, Return, NoReply, NoToken
<1>7. ASSUME NEW p \in Procs, Fail(p) PROVE TypeOK'
  BY <1>7 DEF Fail, Abandon, Return, NoReply, Error
<1>8. ASSUME NEW p \in Procs, Answers(p) PROVE TypeOK'
  BY <1>8 DEF Answers, Answer, Promised
<1>9. CASE Tick
  <2>1. Older(cache) \in [set : BOOLEAN, left : Nat, life : Nat]
    BY LessNat DEF Older
  <2>2. [reply EXCEPT !.life = Less(@)] \in
          [here : BOOLEAN, token : BOOLEAN, ttl : TTLs \cup {0}, life : Nat]
    BY LessNat
  <2>3. elapsed' \in 0..TripBound
    BY <1>9 DEF Tick, Elapse
  <2>4. QED
    BY <1>9, <2>1, <2>2, <2>3 DEF Tick, Elapse
<1>10. QED
  BY <1>1, <1>2, <1>3, <1>4, <1>5, <1>6, <1>7, <1>8, <1>9 DEF Next, Step

\* Every state and every step is well typed.
THEOREM Typing == Safe => []TypeOK
BY TypeInit, TypeStep, PTL DEF Safe

----------------------------------------------------------------------------

\* Every step keeps those past the lock to its holder.
LEMMA SingleFlightStep ==
    TypeOK /\ SingleFlight /\ [Next]_vars => SingleFlight'
<1> SUFFICES ASSUME TypeOK, SingleFlight, [Next]_vars PROVE SingleFlight'
  OBVIOUS
<1> USE SourceAssumption DEF TypeOK, SingleFlight
<1>1. CASE UNCHANGED vars
  BY <1>1 DEF vars
<1>2. ASSUME NEW p \in Procs, Call(p) PROVE SingleFlight'
  BY <1>2 DEF Call
<1>3. ASSUME NEW p \in Procs, Lock(p) PROVE SingleFlight'
  BY <1>3 DEF Lock, Free
<1>4. ASSUME NEW p \in Procs, Hit(p) \/ Store(p) \/ Fail(p) PROVE SingleFlight'
  BY <1>4 DEF Hit, Store, Fail, Abandon, Return
<1>5. ASSUME NEW p \in Procs, Miss(p) PROVE SingleFlight'
  BY <1>5 DEF Miss
<1>6. ASSUME NEW p \in Procs, Answers(p) PROVE SingleFlight'
  BY <1>6 DEF Answers, Answer
<1>7. CASE Tick
  BY <1>7 DEF Tick, Elapse
<1>8. QED
  BY <1>1, <1>2, <1>3, <1>4, <1>5, <1>6, <1>7 DEF Next, Step

\* At most one goroutine is past the lock, so at most one round trip to the
\* authorization server is under way.
THEOREM Mutex == Safe => []SingleFlight
<1>1. Init => SingleFlight
  BY SourceAssumption DEF Init, SingleFlight
<1>2. QED
  BY <1>1, SingleFlightStep, Typing, PTL DEF Safe

----------------------------------------------------------------------------
(***************************************************************************)
(* The margin. What the cache promises follows from what a reply on its    *)
(* way back promises: it has aged by no more than the time since the       *)
(* request went out, and not at all beyond what the server gave it.        *)
(***************************************************************************)

\* A reply under way has lost at most what the clock of the trip shows.
ReplyAge ==
    /\ reply.here /\ reply.token =>
          /\ Tripping
          /\ Promised(reply.ttl) - elapsed <= reply.life
          /\ reply.life <= Promised(reply.ttl)
    /\ ~reply.token => reply.life = 0

\* The two expiry times of the cached token differ by the margin, give or take
\* the trip.
CacheGap ==
    /\ ~cache.set => cache.left = 0
    /\ cache.left > 0 => cache.left + Headroom <= cache.life
    /\ cache.life <= cache.left + RefreshBelow

Margins == ReplyAge /\ CacheGap

\* An empty cache has its margins.
LEMMA MarginsInit == Init => Margins
BY SourceAssumption DEF Init, Margins, ReplyAge, CacheGap, NoToken, NoReply,
   Headroom, RefreshBelow

\* Storing a reply, whichever clock the expiry time is counted from, leaves the
\* margin between the two.
LEMMA StoreGap ==
    ASSUME TypeOK, Margins, NEW p \in Procs, Store(p)
    PROVE  CacheGap'
<1> USE SourceAssumption DEF TypeOK
<1>1. CASE ~reply.token
  BY <1>1 DEF Store, NoToken, CacheGap, Headroom, RefreshBelow
<1>2. CASE reply.token
  <2>1. /\ cache'.set
        /\ cache'.left = Remaining(reply.ttl)
        /\ cache'.life = reply.life
        /\ kind' = kind
    BY <1>2 DEF Store
  <2>2. /\ Promised(reply.ttl) - elapsed <= reply.life
        /\ reply.life <= Promised(reply.ttl)
    BY <1>2 DEF Store, Margins, ReplyAge
  <2> DEFINE ttl == reply.ttl
  <2>3. /\ ttl \in Nat /\ elapsed \in Nat /\ elapsed <= TripBound
        /\ reply.life \in Nat
    BY ReplyTypes
  <2>4. CASE kind = "jwt"
    <3>1. Promised(ttl) = ttl
      BY <2>4 DEF Promised
    <3>2. Remaining(ttl) = IF ttl <= Skew THEN 0 ELSE ttl - Skew
      BY <2>4 DEF Remaining
    <3>3. /\ Headroom' = Skew - TripBound
          /\ RefreshBelow' = Skew
      BY <2>1, <2>4 DEF Headroom, RefreshBelow
    <3>4. QED
      BY <2>1, <2>2, <2>3, <3>1, <3>2, <3>3 DEF CacheGap
  <2>5. CASE kind = "cc"
    <3>1. Promised(ttl) \in Nat
      BY <2>3 DEF Promised
    <3>2. Remaining(ttl) = AtLeast0(Promised(ttl) - Early - elapsed)
      BY <2>5 DEF Remaining
    <3>3. /\ Headroom' = Early
          /\ RefreshBelow' = Early + TripBound
      BY <2>1, <2>5 DEF Headroom, RefreshBelow
    <3>4. QED
      BY <2>1, <2>2, <2>3, <3>1, <3>2, <3>3 DEF CacheGap, AtLeast0
  <2>6. QED
    BY <2>4, <2>5
<1>3. QED
  BY <1>1, <1>2

\* Every step keeps the margins.
LEMMA MarginsStep ==
    TypeOK /\ SingleFlight /\ Margins /\ [Next]_vars => Margins'
<1> SUFFICES ASSUME TypeOK, SingleFlight, Margins, [Next]_vars PROVE Margins'
  OBVIOUS
<1> USE SourceAssumption DEF TypeOK, Margins
<1>1. CASE UNCHANGED vars
  BY <1>1 DEF vars, ReplyAge, CacheGap, Tripping, Promised, Headroom,
     RefreshBelow
<1>2. ASSUME NEW p \in Procs, Call(p) PROVE Margins'
  BY <1>2 DEF Call, ReplyAge, CacheGap, Tripping, Promised, Headroom,
     RefreshBelow
<1>3. ASSUME NEW p \in Procs, Lock(p) PROVE Margins'
  BY <1>3 DEF Lock, ReplyAge, CacheGap, Tripping, Promised, Headroom,
     RefreshBelow
<1>4. ASSUME NEW p \in Procs, Hit(p) PROVE Margins'
  <2>1. \A q \in Procs : at[q] = "trip" => q # p /\ at'[q] = "trip"
    BY <1>4 DEF Hit, Return
  <2>2. QED
    BY <1>4, <2>1 DEF Hit, Return, ReplyAge, CacheGap, Tripping, Promised,
       Headroom, RefreshBelow
<1>5. ASSUME NEW p \in Procs, Miss(p) PROVE Margins'
  BY <1>5 DEF Miss, NoReply, ReplyAge, CacheGap, Headroom, RefreshBelow
<1>6. ASSUME NEW p \in Procs, Store(p) PROVE Margins'
  <2>1. ReplyAge'
    BY <1>6 DEF Store, NoReply, ReplyAge
  <2>2. QED
    BY <1>6, <2>1, StoreGap
<1>7. ASSUME NEW p \in Procs, Fail(p) PROVE Margins'
  BY <1>7 DEF Fail, NoReply, ReplyAge, CacheGap, Headroom, RefreshBelow
<1>8. ASSUME NEW p \in Procs, Answers(p) PROVE Margins'
  BY <1>8 DEF Answers, Answer, ReplyAge, CacheGap, Tripping, Promised,
     Headroom, RefreshBelow
<1>9. CASE Tick
  <2>1. CacheGap'
    BY <1>9 DEF Tick, Elapse, Older, Less, CacheGap, Headroom, RefreshBelow
  <2>2. ReplyAge'
    BY <1>9 DEF Tick, Elapse, Less, ReplyAge, Tripping, Promised
  <2>3. QED
    BY <2>1, <2>2
<1>10. QED
  BY <1>1, <1>2, <1>3, <1>4, <1>5, <1>6, <1>7, <1>8, <1>9 DEF Next, Step

\* The strengthening: TypeOK, SingleFlight and Margins are inductive together.
THEOREM MarginsHold == Safe => []Margins
BY MarginsInit, MarginsStep, Typing, Mutex, PTL DEF Safe

\* Whatever Token returns from the cache has more than the margin of its life
\* left, for both sources and any lifetime the server hands out.
THEOREM CachedLive == Safe => []CachedTokenLive
<1>1. TypeOK /\ Margins => CachedTokenLive
  BY SourceAssumption
  DEF TypeOK, Margins, CacheGap, CachedTokenLive, Usable, Headroom
<1>2. QED
  BY <1>1, Typing, MarginsHold, PTL

----------------------------------------------------------------------------
(***************************************************************************)
(* Refinement.                                                             *)
(***************************************************************************)

\* The source starts as Credential does.
LEMMA RefineInit == Init => C!Init
BY SourceAssumption DEF Init, C!Init, Tripper, NoToken, Headroom, RefreshBelow,
   Nothing, C!Nothing

\* Every step of the source is a step of Credential or changes nothing it sees.
LEMMA RefineStep ==
    TypeOK /\ SingleFlight /\ Margins /\ [Next]_vars => [C!Next]_(C!vars)
<1> SUFFICES ASSUME TypeOK, SingleFlight, Margins, [Next]_vars
             PROVE  C!Next \/ UNCHANGED C!vars
  OBVIOUS
<1> USE SourceAssumption DEF TypeOK, SingleFlight, Tripper
<1>1. kind' = kind
  BY DEF vars, Next, Step, Call, Lock, Hit, Miss, Store, Fail, Answers, Answer,
     Tick, Elapse
<1>2. UNCHANGED <<Headroom, RefreshBelow>>
  BY <1>1 DEF Headroom, RefreshBelow
<1>3. CASE UNCHANGED vars
  BY <1>2, <1>3 DEF vars, C!vars
<1>4. ASSUME NEW p \in Procs, Call(p) PROVE C!Next
  <2>1. C!Ask(p)
    BY <1>4 DEF Call, C!Ask, Nothing, C!Nothing
  <2>2. QED
    BY <1>2, <2>1 DEF C!Next
<1>5. ASSUME NEW p \in Procs, Lock(p) PROVE UNCHANGED C!vars
  BY <1>2, <1>5 DEF Lock, Free, C!vars
<1>6. ASSUME NEW p \in Procs, Hit(p) PROVE C!Next
  <2>1. C!Share(p)
    BY <1>6 DEF Hit, Return, Usable, Margins, CacheGap, Headroom, C!Share
  <2>2. QED
    BY <1>2, <2>1 DEF C!Next
<1>7. ASSUME NEW p \in Procs, Miss(p) PROVE C!Next
  <2>1. cache.left = 0
    BY <1>7 DEF Miss, Usable, Margins, CacheGap
  <2>2. cache.life <= RefreshBelow
    BY <2>1 DEF Margins, CacheGap, RefreshBelow
  <2>3. C!Begin(p)
    BY <1>7, <2>2 DEF Miss, C!Begin
  <2>4. QED
    BY <1>2, <2>3 DEF C!Next
<1>8. ASSUME NEW p \in Procs, Store(p) PROVE C!Next
  <2>1. at[p] = "trip" /\ holder = p /\ p # None /\ holder' = None
    BY <1>8 DEF Store, Return
  <2>2. cache'.life = IF reply.token THEN reply.life ELSE 0
    BY <1>8 DEF Store, NoToken
  <2>3. got' = [got EXCEPT ![p] = reply.life]
    BY <1>8 DEF Store, Return
  <2>4. ~reply.token => reply.life = 0
    BY <1>8 DEF Margins, Store, ReplyAge
  <2>5. C!Renew(p)
    BY <2>1, <2>2, <2>3, <2>4, ReplyTypes DEF C!Renew
  <2>6. QED
    BY <1>2, <2>5 DEF C!Next
<1>9. ASSUME NEW p \in Procs, Fail(p) PROVE C!Next
  <2>1. C!GiveUp(p)
    BY <1>9 DEF Fail, Abandon, Return, Error, C!Error, C!GiveUp
  <2>2. QED
    BY <1>2, <2>1 DEF C!Next
<1>10. ASSUME NEW p \in Procs, Answers(p) PROVE UNCHANGED C!vars
  BY <1>2, <1>10 DEF Answers, Answer, C!vars
<1>11. CASE Tick
  <2>1. C!Age
    BY <1>11 DEF Tick, Elapse, Older, Less, C!Age
  <2>2. QED
    BY <1>2, <2>1 DEF C!Next
<1>12. QED
  BY <1>3, <1>4, <1>5, <1>6, <1>7, <1>8, <1>9, <1>10, <1>11 DEF Next, Step

\* The source implements Credential: it renews alone, only when it must, and
\* shares only what is still good.
THEOREM Refinement == Safe => Implements
BY RefineInit, RefineStep, Typing, Mutex, MarginsHold, PTL
DEF Safe, Implements, C!Spec
=============================================================================
