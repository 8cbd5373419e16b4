---------------------------- MODULE ClientProofs ----------------------------
(***************************************************************************)
(* Theorems about Client: put together, the transport and the token source *)
(* still behave as they do on their own, so that all that is proved of     *)
(* them holds of the client, and with it what only the two together show.  *)
(*                                                                         *)
(* The theorems about the parts come with an instance of their modules,    *)
(* whose operators are those of Client's own T and S.                      *)
(***************************************************************************)
EXTENDS Client, TLAPS

TP == INSTANCE TransportProofs
SP == INSTANCE TokenSourceProofs WITH Procs <- Calls

----------------------------------------------------------------------------
(* T and TP, S and SP are the same specifications.                         *)

\* The assumptions of the transport hold of the instance the theorems are about.
LEMMA TransportAssumed ==
    /\ TP!DurationAssumption /\ TP!TransportAssumption
    /\ TP!FailuresOnly /\ TP!HintsFit
<1>1. TP!DurationAssumption
  BY ClientAssumption
<1>2. TP!TransportAssumption
  BY ClientAssumption
  DEF T!Attempts, TP!Attempts, T!Or, TP!Or, T!NoHeader, TP!NoHeader
<1>3. TP!FailuresOnly
  BY ClientAssumption DEF T!Statuses, TP!Statuses, T!Success, TP!Success
<1>4. TP!HintsFit
  BY ClientAssumption
  DEF T!Asked, TP!Asked, T!NoHeader, TP!NoHeader, T!Unit, TP!Unit, T!Or, TP!Or
<1> QED  BY <1>1, <1>2, <1>3, <1>4

\* And so do those of the token source.
LEMMA SourceAssumed == SP!SourceAssumption
BY ClientAssumption

\* The instance of the transport that the theorems are about is Client's own.
LEMMA SameTransport ==
    /\ T!Init <=> TP!Init
    /\ T!Next <=> TP!Next
    /\ [T!Next]_(T!vars) <=> [TP!Next]_(TP!vars)
    /\ T!TypeOK <=> TP!TypeOK
    /\ T!TypeOK' <=> TP!TypeOK'
    /\ T!NoLeakedBody <=> TP!NoLeakedBody
<1>1. T!Init <=> TP!Init
  BY DEF T!Init, TP!Init, T!Pending, TP!Pending, T!NoHeader, TP!NoHeader
<1>2. T!Next <=> TP!Next
  BY DEF T!Next, TP!Next, T!Step, TP!Step, T!Environment, TP!Environment,
         T!Start, TP!Start, T!Reject, TP!Reject, T!Reuse, TP!Reuse,
         T!Cancel, TP!Cancel, T!CloseStream, TP!CloseStream,
         T!ApplyOK, TP!ApplyOK, T!ApplyFail, TP!ApplyFail, T!Send, TP!Send,
         T!Receive, TP!Receive, T!Fail, TP!Fail, T!GiveUp, TP!GiveUp,
         T!RetryNow, TP!RetryNow, T!RetryLater, TP!RetryLater,
         T!Wake, TP!Wake, T!CancelSleep, TP!CancelSleep, T!Finish, TP!Finish,
         T!Serve, TP!Serve, T!Tick, TP!Tick, T!Elapse, TP!Elapse,
         T!Goto, TP!Goto, T!Return, TP!Return, T!callVars, TP!callVars,
         T!wireVars, TP!wireVars, T!Pending, TP!Pending, T!Built, TP!Built,
         T!Success, TP!Success, T!Asked, TP!Asked, T!Unit, TP!Unit,
         T!Or, TP!Or, T!Failure, TP!Failure, T!Decisions, TP!Decisions,
         T!NextDecisions, TP!NextDecisions, T!Delay, TP!Delay,
         T!ParseRetryAfter, TP!ParseRetryAfter, T!Wrap, TP!Wrap,
         T!Discarded, TP!Discarded, T!Bump, TP!Bump,
         T!Interrupted, TP!Interrupted, T!ResultsOf, TP!ResultsOf,
         T!Reply, TP!Reply, T!Decrement, TP!Decrement,
         T!NoHeader, TP!NoHeader, T!Attempts, TP!Attempts,
         T!ShouldRetry, TP!ShouldRetry, T!MethodAllowed, TP!MethodAllowed,
         T!Statuses, TP!Statuses, T!BackoffDelays, TP!BackoffDelays,
         T!BackoffFrom, TP!BackoffFrom, T!ToDuration, TP!ToDuration,
         T!Clamp, TP!Clamp, T!Cap, TP!Cap, T!Base, TP!Base
<1>3. [T!Next]_(T!vars) <=> [TP!Next]_(TP!vars)
  BY <1>2 DEF T!vars, TP!vars
<1>4. (T!TypeOK <=> TP!TypeOK) /\ (T!TypeOK' <=> TP!TypeOK')
  BY DEF T!TypeOK, TP!TypeOK, T!Locations, TP!Locations, T!Results, TP!Results,
         T!Outcomes, TP!Outcomes, T!Replies, TP!Replies, T!Pending, TP!Pending,
         T!NoHeader, TP!NoHeader, T!Request, TP!Request, T!Methods, TP!Methods
<1>5. T!NoLeakedBody <=> TP!NoLeakedBody
  BY DEF T!NoLeakedBody, TP!NoLeakedBody
<1> QED  BY <1>1, <1>2, <1>3, <1>4, <1>5

\* And so is that of the token source.
LEMMA SameSource ==
    /\ S!Init <=> SP!Init
    /\ S!Next <=> SP!Next
    /\ [S!Next]_(S!vars) <=> [SP!Next]_(SP!vars)
    /\ S!TypeOK <=> SP!TypeOK
    /\ S!TypeOK' <=> SP!TypeOK'
<1>1. S!Init <=> SP!Init
  BY DEF S!Init, SP!Init, S!NoToken, SP!NoToken, S!NoReply, SP!NoReply,
         S!Nothing, SP!Nothing
<1>2. S!Next <=> SP!Next
  BY DEF S!Next, SP!Next, S!Step, SP!Step, S!Call, SP!Call, S!Lock, SP!Lock,
         S!Free, SP!Free, S!Hit, SP!Hit, S!Usable, SP!Usable,
         S!Return, SP!Return, S!Miss, SP!Miss, S!NoReply, SP!NoReply,
         S!Store, SP!Store, S!Fail, SP!Fail, S!Abandon, SP!Abandon,
         S!Error, SP!Error, S!Nothing, SP!Nothing, S!NoToken, SP!NoToken,
         S!Remaining, SP!Remaining, S!Promised, SP!Promised,
         S!AtLeast0, SP!AtLeast0, S!Answers, SP!Answers, S!Answer, SP!Answer,
         S!Tick, SP!Tick, S!Tripping, SP!Tripping, S!Elapse, SP!Elapse,
         S!Older, SP!Older, S!Less, SP!Less
<1>3. [S!Next]_(S!vars) <=> [SP!Next]_(SP!vars)
  BY <1>2 DEF S!vars, SP!vars
<1>4. (S!TypeOK <=> SP!TypeOK) /\ (S!TypeOK' <=> SP!TypeOK')
  BY DEF S!TypeOK, SP!TypeOK
<1> QED  BY <1>1, <1>2, <1>3, <1>4

----------------------------------------------------------------------------
(* Every step of the client is a step of its parts, or none.               *)

\* A call is inside Token only while build() waits for it.
AtBuild == \A c \in Calls : at[c] # "idle" => pc[c] = "build"

\* Between two round trips there is nothing of the last one left.
BetweenTrips == ~S!Tripping => elapsed = 0 /\ reply = S!NoReply

IInv == TypeOK /\ AtBuild /\ BetweenTrips

\* Where no timer runs, time changes nothing in the transport.
LEMMA ElapseTransport == T!TypeOK /\ T!Elapse => [T!Next]_(T!vars)
<1> SUFFICES ASSUME T!TypeOK, T!Elapse PROVE T!Next \/ UNCHANGED T!vars
  OBVIOUS
<1>1. CASE \E c \in Calls : timer[c] > 0 \/ quiet[c] > 0
  BY <1>1 DEF T!Tick, T!Next
<1>2. CASE ~\E c \in Calls : timer[c] > 0 \/ quiet[c] > 0
  <2>1. timer \in [Calls -> Nat] /\ quiet \in [Calls -> Nat]
    BY DEF T!TypeOK
  <2>2. T!Decrement(timer) = timer /\ T!Decrement(quiet) = quiet
    BY <1>2, <2>1 DEF T!Decrement
  <2>3. UNCHANGED T!vars
    BY <2>2 DEF T!Elapse, T!vars, T!callVars, T!wireVars
  <2> QED  BY <2>3
<1> QED  BY <1>1, <1>2

\* Nor in the token source, where none is cached nor asked for.
LEMMA ElapseSource ==
    S!TypeOK /\ BetweenTrips /\ S!Elapse => [S!Next]_(S!vars)
<1> SUFFICES ASSUME S!TypeOK, BetweenTrips, S!Elapse PROVE S!Next \/ UNCHANGED S!vars
  OBVIOUS
<1>1. CASE S!Tripping \/ cache.life > 0 \/ cache.left > 0
  BY <1>1 DEF S!Tick, S!Next
<1>2. CASE ~(S!Tripping \/ cache.life > 0 \/ cache.left > 0)
  <2>1. cache \in [set : BOOLEAN, left : Nat, life : Nat]
    BY DEF S!TypeOK
  <2>2. cache.left = 0 /\ cache.life = 0
    BY <1>2, <2>1
  <2>3. S!Older(cache) = cache
    <3>1. S!Less(0) = 0
      BY DEF S!Less
    <3>2. S!Older(cache) = [cache EXCEPT !.left = 0, !.life = 0]
      BY <2>2, <3>1 DEF S!Older
    <3>3. [cache EXCEPT !.left = 0, !.life = 0] = cache
      BY <2>1, <2>2
    <3> QED  BY <3>2, <3>3
  <2>4. [reply EXCEPT !.life = S!Less(@)] = reply /\ elapsed = 0
    BY <1>2 DEF BetweenTrips, S!NoReply, S!Less
  <2> QED  BY <1>2, <2>3, <2>4 DEF S!Elapse, S!vars
<1> QED  BY <1>1, <1>2

\* A step of the client is a step of each part, or leaves the part alone.
LEMMA PartsStep ==
    ASSUME IInv, [Next]_vars
    PROVE  [T!Next]_(T!vars) /\ [S!Next]_(S!vars)
<1> USE DEF transportVars, sourceVars, T!vars, S!vars
<1>1. ASSUME NEW c \in Calls, Enter(c) \/ Token(c)
      PROVE  UNCHANGED T!vars /\ S!Next
  BY <1>1 DEF Enter, Token, S!Next, S!Step
<1>2. ASSUME NEW c \in Calls, Authorize(c) \/ Refuse(c)
      PROVE  T!Next /\ S!Next
  BY <1>2 DEF Authorize, Refuse, T!Next, S!Next, S!Step
<1>3. ASSUME NEW c \in Calls, Exchange(c)
      PROVE  T!Next /\ UNCHANGED S!vars
  BY <1>3 DEF Exchange, T!Next
<1>4. ASSUME Outside
      PROVE  T!Next /\ UNCHANGED S!vars
  BY <1>4 DEF Outside, T!Next, T!Environment
<1>5. ASSUME Pass
      PROVE  [T!Next]_(T!vars) /\ [S!Next]_(S!vars)
  BY <1>5, ElapseTransport, ElapseSource DEF Pass, IInv, TypeOK
<1>6. CASE UNCHANGED vars
  BY <1>6 DEF vars
<1> QED  BY <1>1, <1>2, <1>3, <1>4, <1>5, <1>6 DEF Next

----------------------------------------------------------------------------

\* The strengthening holds at the start.
LEMMA InitIInv == Init => IInv
<1> SUFFICES ASSUME Init PROVE IInv
  OBVIOUS
<1>1. T!TypeOK /\ S!TypeOK
  BY TransportAssumed, SourceAssumed, SameTransport, SameSource, TP!TypeInit, SP!TypeInit
  DEF Init
<1>2. bearer \in [Calls -> Nat] /\ dialed \in [Calls -> 0..DialBound]
  BY ClientAssumption DEF Init
<1>3. AtBuild /\ BetweenTrips
  BY DEF Init, S!Init, AtBuild, BetweenTrips
<1> QED  BY <1>1, <1>2, <1>3 DEF IInv, TypeOK

\* No dial outlasts its bound.
LEMMA DialedTyped ==
    ASSUME IInv, [Next]_vars PROVE dialed' \in [Calls -> 0..DialBound]
<1>1. dialed \in [Calls -> 0..DialBound] /\ DialBound \in Nat
  BY ClientAssumption DEF IInv, TypeOK
<1>2. CASE Pass
  BY <1>1, <1>2 DEF Pass
<1> QED
  BY <1>1, <1>2
  DEF Next, vars, stamped, Enter, Token, Authorize, Refuse, Exchange, Outside

\* A header only ever carries what is left of a token's life.
LEMMA BearerTyped == ASSUME IInv, [Next]_vars PROVE bearer' \in [Calls -> Nat]
<1>1. bearer \in [Calls -> Nat] /\ got \in [Calls -> Int]
      /\ cache.life \in Nat /\ reply.life \in Nat
  BY DEF IInv, TypeOK, S!TypeOK
<1>2. ASSUME NEW c \in Calls, Authorize(c) PROVE bearer' \in [Calls -> Nat]
  <2>1. got'[c] \in Nat
    BY <1>1, <1>2 DEF Authorize, S!Hit, S!Store, S!Return
  <2> QED  BY <1>1, <1>2, <2>1 DEF Authorize, Bearer
<1>3. CASE Pass
  BY <1>1, <1>3 DEF Pass, S!Less
<1> QED
  BY <1>1, <1>2, <1>3
  DEF Next, vars, stamped, Enter, Token, Refuse, Exchange, Outside

\* No step leaves a call inside Token that does not wait in build().
LEMMA AtBuildStep == ASSUME IInv, [Next]_vars PROVE AtBuild'
<1>1. /\ pc \in [Calls -> T!Locations]
      /\ at \in [Calls -> {"idle", "lock", "check", "trip"}]
  BY DEF IInv, TypeOK, T!TypeOK, S!TypeOK
<1>2. AtBuild
  BY DEF IInv
<1> USE DEF AtBuild, transportVars, sourceVars
<1>3. ASSUME NEW c \in Calls, Enter(c) \/ Token(c) PROVE AtBuild'
  BY <1>1, <1>2, <1>3 DEF Enter, Token, S!Call, S!Lock, S!Miss, S!Answers, S!Answer
<1>4. ASSUME NEW c \in Calls, Authorize(c) PROVE AtBuild'
  BY <1>1, <1>2, <1>4 DEF Authorize, S!Hit, S!Store, S!Return, T!ApplyOK, T!Goto
<1>5. ASSUME NEW c \in Calls, Refuse(c) PROVE AtBuild'
  BY <1>1, <1>2, <1>5 DEF Refuse, S!Fail, S!Abandon, S!Return, T!ApplyFail, T!Return, T!Goto
<1>6. ASSUME NEW c \in Calls, Exchange(c) PROVE AtBuild'
  <2>1. /\ pc[c] # "build" /\ at' = at
        /\ \E l : pc' = [pc EXCEPT ![c] = l]
    BY <1>6 DEF Exchange, T!Step, T!Send, T!Receive, T!Fail, T!GiveUp, T!RetryNow,
                T!RetryLater, T!Wake, T!CancelSleep, T!Finish, T!Goto, T!Return
  <2> QED  BY <1>1, <1>2, <2>1
<1>7. CASE Outside
  BY <1>1, <1>2, <1>7
  DEF Outside, T!Start, T!Reject, T!Cancel, T!Serve, T!Goto, T!Return
<1>8. CASE Pass
  BY <1>1, <1>2, <1>8 DEF Pass, T!Elapse, S!Elapse
<1>9. CASE UNCHANGED vars
  BY <1>2, <1>9 DEF vars
<1> QED  BY <1>3, <1>4, <1>5, <1>6, <1>7, <1>8, <1>9 DEF Next

\* Nothing of a round trip outlives it.
LEMMA BetweenTripsStep == ASSUME IInv, [Next]_vars PROVE BetweenTrips'
<1>1. at \in [Calls -> {"idle", "lock", "check", "trip"}] /\ BetweenTrips
  BY DEF IInv, TypeOK, S!TypeOK
<1> USE DEF BetweenTrips, S!Tripping, S!NoReply
<1>2. ASSUME NEW c \in Calls, S!Call(c) \/ S!Lock(c) \/ S!Hit(c) PROVE BetweenTrips'
  BY <1>1, <1>2 DEF S!Call, S!Lock, S!Hit, S!Return
<1>3. ASSUME NEW c \in Calls, S!Miss(c) \/ S!Answers(c) PROVE BetweenTrips'
  BY <1>1, <1>3 DEF S!Miss, S!Answers, S!Answer
<1>4. ASSUME NEW c \in Calls, S!Store(c) \/ S!Fail(c) PROVE BetweenTrips'
  BY <1>4 DEF S!Store, S!Fail
<1>5. CASE S!Elapse
  <2>1. SUFFICES ASSUME ~S!Tripping PROVE elapsed' = 0 /\ reply' = S!NoReply
    BY <1>5 DEF S!Elapse
  <2>2. elapsed' = 0 /\ reply' = [reply EXCEPT !.life = S!Less(@)]
    BY <1>1, <1>5, <2>1 DEF S!Elapse
  <2>3. reply = S!NoReply /\ S!Less(0) = 0
    BY <1>1, <2>1 DEF S!Less
  <2> QED  BY <2>2, <2>3
<1>6. CASE UNCHANGED sourceVars
  BY <1>1, <1>6 DEF sourceVars
<1> QED
  BY <1>2, <1>3, <1>4, <1>5, <1>6
  DEF Next, vars, Enter, Token, Authorize, Refuse, Exchange, Outside, Pass

\* The strengthening is inductive.
LEMMA NextIInv == ASSUME IInv, [Next]_vars PROVE IInv'
<1>1. T!TypeOK'
  BY PartsStep, TransportAssumed, SameTransport, TP!TypeStep DEF IInv, TypeOK
<1>2. S!TypeOK'
  BY PartsStep, SourceAssumed, SameSource, SP!TypeStep DEF IInv, TypeOK
<1> QED
  BY <1>1, <1>2, BearerTyped, DialedTyped, AtBuildStep, BetweenTripsStep
  DEF IInv, TypeOK

----------------------------------------------------------------------------

\* The strengthening, in every reachable state.
THEOREM Inductive == Safe => []IInv
BY InitIInv, NextIInv, PTL DEF Safe

\* Both parts keep their types, whatever the other does.
THEOREM Typing == Safe => []TypeOK
<1>1. IInv => TypeOK  BY DEF IInv
<1> QED  BY <1>1, Inductive, PTL

\* A client is a transport and a token source: every behaviour of the two
\* together is one of each.
THEOREM Composition == Safe => PartsHold
<1>1. Init => T!Init /\ S!Init
  BY DEF Init
<1>2. IInv /\ [Next]_vars => [T!Next]_(T!vars) /\ [S!Next]_(S!vars)
  BY PartsStep
<1> QED
  BY <1>1, <1>2, Inductive, PTL DEF Safe, PartsHold, T!Safe, S!Safe

\* So the theorems about the parts apply.
LEMMA PartsApply == Safe => TP!Safe /\ SP!Safe
<1>1. Init => TP!Init /\ SP!Init
  BY SameTransport, SameSource DEF Init
<1>2. IInv /\ [Next]_vars => [TP!Next]_(TP!vars) /\ [SP!Next]_(SP!vars)
  BY PartsStep, SameTransport, SameSource
<1> QED
  BY <1>1, <1>2, Inductive, PTL DEF Safe, TP!Safe, SP!Safe

\* A goroutine that waits for the token mutex, or holds it, has no response
\* open, for any number of calls: where it waits, the transport has closed the
\* one before.
THEOREM NoDeadlockOfPools == Safe => []NoHoldAndWait
<1>1. AtBuild /\ TP!NoLeakedBody => NoHoldAndWait
  BY DEF AtBuild, TP!NoLeakedBody, NoHoldAndWait
<1>2. IInv => AtBuild
  BY DEF IInv
<1>3. Safe => []TP!NoLeakedBody
  BY PartsApply, TransportAssumed, TP!NoLeak, PTL
<1> QED  BY <1>1, <1>2, <1>3, Inductive, PTL

----------------------------------------------------------------------------
(* The token on the wire.                                                  *)

\* A request yet to be written carries a token that outlives what is left of the
\* longest dial.
BearerReady == \A c \in Calls : pc[c] = "send" => bearer[c] + dialed[c] > DialBound

\* A call comes to its dial only with the token it just got: one from the cache has the
\* margin of its life left, one just fetched all but the round trip. The dial takes
\* from the token's life what it adds to its own length.
LEMMA BearerReadyStep ==
    ASSUME Kinds = {"cc"}, DialBound <= Early, Fallback > TripBound + DialBound,
           \A ttl \in TTLs \ {0} : ttl > TripBound + DialBound,
           IInv, SP!Margins, BearerReady, [Next]_vars
    PROVE  BearerReady'
<1>1. /\ pc \in [Calls -> T!Locations] /\ bearer \in [Calls -> Nat]
      /\ got \in [Calls -> Int] /\ kind = "cc"
      /\ reply.ttl \in TTLs \cup {0} /\ reply.life \in Nat
      /\ elapsed \in 0..TripBound /\ cache.life \in Nat /\ cache.left \in Nat
      /\ dialed \in [Calls -> 0..DialBound]
  BY DEF IInv, TypeOK, T!TypeOK, S!TypeOK
<1>2. TTLs \subseteq Nat /\ TripBound \in Nat /\ Fallback \in Nat /\ Early \in Nat
             /\ DialBound \in Nat
  BY ClientAssumption
<1>3. ASSUME NEW c \in Calls, Authorize(c) PROVE BearerReady'
  <2>1. got'[c] > DialBound
    <3>1. CASE S!Hit(c)
      <4>1. got'[c] = cache.life /\ cache.left > 0
        BY <1>1, <3>1 DEF S!Hit, S!Return, S!Usable
      <4>2. cache.left + Early <= cache.life
        BY <1>1, <4>1 DEF SP!Margins, SP!CacheGap, SP!Headroom
      <4> QED  BY <1>1, <1>2, <4>1, <4>2
    <3>2. CASE S!Store(c)
      <4>1. got'[c] = reply.life /\ reply.here /\ reply.token
        BY <1>1, <3>2 DEF S!Store, S!Return
      <4>2. SP!Promised(reply.ttl) - elapsed <= reply.life
        BY <4>1 DEF SP!Margins, SP!ReplyAge
      <4>3. SP!Promised(reply.ttl) > TripBound + DialBound /\ SP!Promised(reply.ttl) \in Nat
        BY <1>1, <1>2 DEF SP!Promised
      <4> QED  BY <1>1, <1>2, <4>1, <4>2, <4>3
    <3> QED  BY <1>3, <3>1, <3>2 DEF Authorize
  <2>2. /\ pc' = [pc EXCEPT ![c] = "send"] /\ bearer' = [bearer EXCEPT ![c] = got'[c]]
        /\ dialed' = [dialed EXCEPT ![c] = 0]
    BY <1>3 DEF Authorize, Bearer, T!ApplyOK, T!Goto
  <2>3. dialed'[c] = 0 /\ bearer'[c] = got'[c] /\ got'[c] \in Int
    BY <1>1, <1>3, <2>2 DEF Authorize, S!Hit, S!Store, S!Return
  <2> QED  BY <1>1, <1>2, <2>1, <2>2, <2>3 DEF BearerReady
<1>4. ASSUME NEW c \in Calls, Exchange(c) PROVE BearerReady'
  <2>1. /\ bearer' = bearer /\ dialed' = [dialed EXCEPT ![c] = 0]
        /\ \E l : l # "send" /\ pc' = [pc EXCEPT ![c] = l]
    BY <1>4 DEF Exchange, T!Step, T!Send, T!Receive, T!Fail, T!GiveUp, T!RetryNow,
                T!RetryLater, T!Wake, T!CancelSleep, T!Finish, T!Goto, T!Return
  <2> QED  BY <1>1, <2>1 DEF BearerReady
<1>5. ASSUME NEW c \in Calls, Enter(c) \/ Token(c) \/ Refuse(c) PROVE BearerReady'
  BY <1>1, <1>5
  DEF BearerReady, Enter, Token, Refuse, transportVars, stamped, T!ApplyFail,
      T!Return, T!Goto
<1>6. CASE Outside
  BY <1>1, <1>6
  DEF BearerReady, Outside, stamped, T!Start, T!Reject, T!Cancel, T!Serve, T!Goto,
      T!Return
<1>7. CASE Pass
  <2>1. SUFFICES ASSUME NEW c \in Calls, pc[c] = "send"
                 PROVE  bearer'[c] + dialed'[c] > DialBound
    BY <1>7 DEF BearerReady, Pass, T!Elapse
  <2>2. bearer[c] \in Nat /\ bearer[c] > 0
    BY <1>1, <1>2, <2>1 DEF BearerReady
  <2>3. bearer'[c] = bearer[c] - 1 /\ dialed'[c] = dialed[c] + 1
    BY <1>7, <2>1, <2>2 DEF Pass, S!Less
  <2> QED  BY <1>1, <2>1, <2>2, <2>3 DEF BearerReady
<1>8. CASE UNCHANGED vars
  BY <1>8 DEF BearerReady, vars, stamped, transportVars
<1> QED  BY <1>3, <1>4, <1>5, <1>6, <1>7, <1>8 DEF Next

\* With client credentials, an early-refresh margin that covers the longest dial, and
\* lifetimes longer than a round trip and a dial, every request, each replay
\* included, goes out with a token that is alive when it is written.
THEOREM BearersLive ==
    ASSUME Kinds = {"cc"}, DialBound <= Early, Fallback > TripBound + DialBound,
           \A ttl \in TTLs \ {0} : ttl > TripBound + DialBound
    PROVE  Safe => BearerLiveOnWire
<1>1. Init => BearerReady
  BY DEF Init, T!Init, BearerReady
<1>2. IInv /\ SP!Margins /\ BearerReady /\ [Next]_vars => BearerReady'
  BY BearerReadyStep
<1>3. Safe => []SP!Margins
  BY PartsApply, SourceAssumed, SP!MarginsHold, PTL
<1>4. IInv /\ BearerReady /\ [Next]_vars =>
          [\A m \in sent' \ sent : bearer[m.call] > 0]_vars
  <2> SUFFICES ASSUME IInv, BearerReady, Next, NEW m \in sent' \ sent
               PROVE  bearer[m.call] > 0
    OBVIOUS
  <2>1. PICK c \in Calls : T!Send(c)
    BY DEF Next, Enter, Token, Authorize, Refuse, Exchange, Outside, Pass,
           transportVars, T!ApplyOK, T!ApplyFail, T!Step, T!Receive, T!Fail,
           T!GiveUp, T!RetryNow, T!RetryLater, T!Wake, T!CancelSleep, T!Finish,
           T!Start, T!Reject, T!Cancel, T!Serve, T!Elapse, T!wireVars
  <2>2. pc[c] = "send" /\ m = T!Built(c)
    BY <2>1 DEF T!Send
  <2>3. m.call = c
    BY <2>2 DEF T!Built
  <2>4. bearer[c] \in Nat /\ dialed[c] \in 0..DialBound /\ DialBound \in Nat
    BY ClientAssumption DEF IInv, TypeOK
  <2> QED  BY <2>2, <2>3, <2>4 DEF BearerReady
<1> QED
  BY <1>1, <1>2, <1>3, <1>4, Inductive, PTL DEF Safe, BearerLiveOnWire
=============================================================================
