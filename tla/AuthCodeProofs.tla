--------------------------- MODULE AuthCodeProofs ---------------------------
(***************************************************************************)
(* Proofs about AuthCode: for any number of goroutines, rotations, crashes *)
(* and abandoned requests, the session is kept and no replaced refresh     *)
(* token is presented; and with EarlyRefresh set, tokens keep their margin.*)
(***************************************************************************)
EXTENDS AuthCode, TLAPS

\* Remaining time stays a natural number as it counts down.
LEMMA LessNat == \A n \in Nat : Less(n) \in Nat
BY DEF Less

\* Older tokens are still well typed.
LEMMA OlderPair ==
    ASSUME NEW pair \in Pair
    PROVE  /\ Older(pair) \in Pair
           /\ Older(pair).refresh = pair.refresh
           /\ Older(pair).left = Less(pair.left)
           /\ Older(pair).life = Less(pair.life)
<1>1. Older(pair) \in Pair
  BY LessNat DEF Older, Pair
<1>2. Older(pair).refresh = pair.refresh
  BY DEF Older, Pair
<1>3. Older(pair).left = Less(pair.left)
  BY DEF Older, Pair
<1>4. Older(pair).life = Less(pair.life)
  BY DEF Older, Pair
<1>5. QED
  BY <1>1, <1>2, <1>3, <1>4

\* The empty pair and the missing reply are well typed.
LEMMA NothingTypes ==
    /\ NoPair \in Pair
    /\ NoReply \in [here : BOOLEAN, ttl : TTLs \cup {0}, life : Nat,
                     refresh : 0..MaxRefresh]
<1>1. 0 \in 0..MaxRefresh
  BY AuthCodeAssumption
<1>2. QED
  BY <1>1 DEF NoPair, Pair, NoReply

\* A request that loses its owner stays a request.
LEMMA OrphanedTypes ==
    ASSUME TypeOK, NEW ps, NEW m \in wire
    PROVE  /\ Orphaned(m, ps) \in [token : 1..MaxRefresh, by : Procs \cup {None}]
           /\ Orphaned(m, ps).token = m.token
           /\ Orphaned(m, ps).by = IF m.by \in ps THEN None ELSE m.by
BY DEF TypeOK, Orphaned

\* What a reply says is a length of time, and so is what is left of it.
LEMMA RemainingNat ==
    ASSUME NEW ttl \in TTLs \cup {0}, NEW early \in Nat
    PROVE  Promised(ttl) \in Nat /\ Remaining(ttl, early) \in Nat
BY AuthCodeAssumption DEF Promised, Remaining, AtLeast0

\* A margin is a length of time.
LEMMA EarlyNat == SourceEarly \in Nat /\ ExchangeEarly \in Nat
BY AuthCodeAssumption DEF SourceEarly, ExchangeEarly

\* The bootstrap program writes a well-typed pair.
LEMMA ExchangeTypes ==
    ASSUME TypeOK, ExchangeAuthCode
    PROVE  disk' \in Pair /\ accepted' \in 0..MaxRefresh
<1>1. PICK ttl \in TTLs, trip \in 0..TripBound, refresh \in {0, 1} :
         /\ disk' = [refresh |-> refresh,
                     left |-> Remaining(ttl, ExchangeEarly),
                     life |-> AtLeast0(Promised(ttl) - trip)]
         /\ accepted' = refresh
  BY DEF ExchangeAuthCode
<1>2. Remaining(ttl, ExchangeEarly) \in Nat /\ Promised(ttl) \in Nat
  BY RemainingNat, EarlyNat
<1>3. AtLeast0(Promised(ttl) - trip) \in Nat
  BY <1>2, AuthCodeAssumption DEF AtLeast0
<1>4. refresh \in 0..MaxRefresh
  BY AuthCodeAssumption
<1>5. QED
  BY <1>1, <1>2, <1>3, <1>4 DEF Pair

\* Every state and every step is well typed.
THEOREM Typing == Spec => []TypeOK
<1>1. Init => TypeOK
  <2> SUFFICES ASSUME Init PROVE TypeOK
    OBVIOUS
  <2>1. 0 \in 0..MaxRefresh /\ 0 \in 0..TripBound
    BY AuthCodeAssumption
  <2>2. QED
    BY <2>1, NothingTypes DEF Init, TypeOK
<1>2. TypeOK /\ [Next]_vars => TypeOK'
  <2> SUFFICES ASSUME TypeOK, [Next]_vars PROVE TypeOK'
    OBVIOUS
  <2> USE AuthCodeAssumption DEF TypeOK, saver, server
  <2>1. CASE UNCHANGED vars
    BY <2>1 DEF vars
  <2>2. CASE ExchangeAuthCode
    BY <2>2, ExchangeTypes DEF ExchangeAuthCode
  <2>3. CASE NewAuthCodeTokenSource
    BY <2>3 DEF NewAuthCodeTokenSource
  <2>4. ASSUME NEW p \in Procs, Call(p) \/ Lock(p) PROVE TypeOK'
    BY <2>4 DEF Call, Lock
  <2>5. ASSUME NEW p \in Procs, Hit(p) \/ NoRefresh(p) PROVE TypeOK'
    BY <2>5 DEF Hit, NoRefresh, Return
  <2>6. ASSUME NEW p \in Procs, Miss(p) PROVE TypeOK'
    <3>1. tok.refresh \in 1..MaxRefresh
      BY <2>6 DEF Miss, Pair
    <3>2. QED
      BY <2>6, <3>1 DEF Miss, NoReply
  <2>7. ASSUME NEW p \in Procs, Store(p) PROVE TypeOK'
    <3>1. tok' \in Pair
      BY <2>7, RemainingNat, EarlyNat DEF Store, Pair, Renewed
    <3>2. QED
      BY <2>7, <3>1 DEF Store, Return, NoReply
  <2>8. ASSUME NEW p \in Procs, Fail(p) PROVE TypeOK'
    <3>1. wire' \subseteq [token : 1..MaxRefresh, by : Procs \cup {None}]
      BY <2>8, OrphanedTypes DEF Fail
    <3>2. lost' \in BOOLEAN
      <4>1. (lost \/ reply.refresh \notin {0, tok.refresh}) \in BOOLEAN
        BY Zenon
      <4>2. QED
        BY <2>8, <4>1 DEF Fail
    <3>3. 0 \in 0..TripBound
      OBVIOUS
    <3>4. /\ at' \in [Procs -> {"idle", "lock", "check", "trip"}]
          /\ got' \in [Procs -> {"nothing", "token", "error"}]
          /\ holder' \in Procs \cup {None}
      BY <2>8 DEF Fail, Return
    <3>5. QED
      BY <2>8, <3>1, <3>2, <3>3, <3>4, NothingTypes DEF Fail
  <2>9. CASE Snapshot \/ Write
    BY <2>9, NothingTypes DEF Snapshot, Write
  <2>10. CASE Crash
    <3>1. wire' \subseteq [token : 1..MaxRefresh, by : Procs \cup {None}]
      BY <2>10, OrphanedTypes DEF Crash
    <3>2. 0 \in 0..TripBound
      OBVIOUS
    <3>3. QED
      BY <2>10, <3>1, <3>2, NothingTypes DEF Crash
  <2>11. ASSUME NEW m \in wire, Refuse(m) PROVE TypeOK'
    BY <2>11 DEF Refuse
  <2>12. ASSUME NEW m \in wire, NEW ttl \in TTLs, Grant(m, ttl) PROVE TypeOK'
    <3>1. Promised(ttl) \in Nat
      BY DEF Promised
    <3>2. /\ accepted' \in 0..MaxRefresh
          /\ lost' \in BOOLEAN
          /\ reply' \in [here : BOOLEAN, ttl : TTLs \cup {0}, life : Nat,
                         refresh : 0..MaxRefresh]
      <4>1. PICK refresh \in {0, accepted, accepted + 1} \cap 0..MaxRefresh :
              /\ accepted' = IF refresh = 0 THEN accepted ELSE refresh
              /\ \/ m.by = None /\ lost' \in BOOLEAN /\ UNCHANGED reply
                 \/ /\ reply' = [here |-> TRUE, ttl |-> ttl,
                                 life |-> Promised(ttl), refresh |-> refresh]
                    /\ UNCHANGED lost
        <5>1. PICK r \in {0, accepted, accepted + 1} \cap 0..MaxRefresh :
                /\ accepted' = IF r = 0 THEN accepted ELSE r
                /\ IF m.by = None
                   THEN lost' = (lost \/ accepted' # accepted) /\ UNCHANGED reply
                   ELSE /\ reply' = [here |-> TRUE, ttl |-> ttl,
                                     life |-> Promised(ttl), refresh |-> r]
                        /\ UNCHANGED lost
          BY <2>12 DEF Grant
        <5>2. (lost \/ accepted' # accepted) \in BOOLEAN
          BY Zenon
        <5>3. QED
          BY <5>1, <5>2
      <4>2. accepted' \in 0..MaxRefresh
        BY <4>1
      <4>3. lost' \in BOOLEAN
        BY <4>1
      <4>4. reply' \in [here : BOOLEAN, ttl : TTLs \cup {0}, life : Nat,
                        refresh : 0..MaxRefresh]
        <5>1. CASE UNCHANGED reply
          BY <5>1
        <5>2. CASE reply' = [here |-> TRUE, ttl |-> ttl,
                             life |-> Promised(ttl), refresh |-> refresh]
          BY <5>2, <3>1
        <5>3. QED
          BY <4>1, <5>1, <5>2
      <4>5. QED
        BY <4>2, <4>3, <4>4
    <3>3. QED
      BY <2>12, <3>2 DEF Grant
  <2>13. CASE Tick
    <3>1. tok' \in Pair /\ disk' \in Pair /\ snap' \in Pair
      BY <2>13, OlderPair DEF Tick
    <3>2. reply' \in [here : BOOLEAN, ttl : TTLs \cup {0}, life : Nat,
                      refresh : 0..MaxRefresh]
      BY <2>13 DEF Tick, Less
    <3>3. elapsed' \in 0..TripBound
      BY <2>13 DEF Tick
    <3>4. QED
      BY <2>13, <3>1, <3>2, <3>3 DEF Tick
  <2>14. QED
    BY <2>1, <2>2, <2>3, <2>4, <2>5, <2>6, <2>7, <2>8, <2>9, <2>10, <2>11,
       <2>12, <2>13
    DEF Next
<1>3. QED
  BY <1>1, <1>2, PTL DEF Spec

----------------------------------------------------------------------------
(***************************************************************************)
(* The session. A request that somebody waits for carries the source's own *)
(* refresh token, and until its reply is in, that is the accepted one.     *)
(***************************************************************************)

\* Those past the lock hold it, and nobody does while there is no process.
Alone ==
    /\ \A p \in Procs : at[p] \in {"check", "trip"} <=> holder = p
    /\ phase # "up" => /\ \A p \in Procs : at[p] = "idle"
                       /\ ~reply.here /\ ~saving

\* A request with an owner is the holder's, and not yet answered.
Owned ==
    \A m \in wire : m.by # None =>
        /\ holder = m.by /\ at[m.by] = "trip"
        /\ ~reply.here
        /\ m.token = tok.refresh

\* A reply is on its way to the holder only.
Pending ==
    /\ reply.here => holder \in Procs /\ at[holder] = "trip"
    /\ ~reply.here => reply.refresh = 0

\* Where the accepted refresh token is.
Linked ==
    ~lost =>
        /\ phase = "up" =>
              accepted = IF reply.refresh = 0
                         THEN tok.refresh ELSE reply.refresh
        /\ phase = "down" => accepted = disk.refresh

Session == Alone /\ Owned /\ Pending /\ Linked

\* While an owned request is under way, the source is up and unanswered.
LEMMA OwnedFacts ==
    ASSUME TypeOK, Session, NEW m \in wire, m.by # None
    PROVE  /\ m.by \in Procs /\ holder = m.by /\ at[m.by] = "trip"
           /\ ~reply.here /\ reply.refresh = 0
           /\ m.token = tok.refresh /\ phase = "up"
<1>1. m.by \in Procs
  BY DEF TypeOK
<1>2. /\ holder = m.by /\ at[m.by] = "trip"
      /\ ~reply.here /\ m.token = tok.refresh
  BY DEF Session, Owned
<1>3. reply.refresh = 0
  BY <1>2 DEF Session, Pending
<1>4. phase = "up"
  BY <1>1, <1>2 DEF Session, Alone
<1>5. QED
  BY <1>1, <1>2, <1>3, <1>4

\* A goroutine past the lock holds it, in a source that is up.
LEMMA HolderFacts ==
    ASSUME TypeOK, Session, NEW p \in Procs, at[p] \in {"check", "trip"}
    PROVE  /\ holder = p /\ phase = "up" /\ p # None
           /\ \A q \in Procs : at[q] \in {"check", "trip"} => q = p
           /\ at[p] = "check" => ~reply.here /\ reply.refresh = 0
<1>1. holder = p /\ phase = "up"
  BY DEF Session, Alone
<1>2. p # None
  BY AuthCodeAssumption
<1>3. \A q \in Procs : at[q] \in {"check", "trip"} => q = p
  BY <1>1 DEF Session, Alone
<1>4. at[p] = "check" => ~reply.here /\ reply.refresh = 0
  BY <1>1 DEF Session, Pending
<1>5. QED
  BY <1>1, <1>2, <1>3, <1>4

\* Giving the lock back leaves nobody past it.
LEMMA AloneReturn ==
    ASSUME TypeOK, Session, NEW p \in Procs, at[p] \in {"check", "trip"},
           holder' = None, at' = [at EXCEPT ![p] = "idle"], UNCHANGED phase
    PROVE  Alone'
<1>1. phase' = "up"
  BY HolderFacts
<1>2. \A q \in Procs : at'[q] \notin {"check", "trip"}
  <2> SUFFICES ASSUME NEW q \in Procs PROVE at'[q] \notin {"check", "trip"}
    OBVIOUS
  <2>1. CASE q = p
    BY <2>1 DEF TypeOK
  <2>2. CASE q # p
    <3>1. at[q] \notin {"check", "trip"}
      BY <2>2, HolderFacts
    <3>2. QED
      BY <2>2, <3>1 DEF TypeOK
  <2>3. QED
    BY <2>1, <2>2
<1>3. \A q \in Procs : holder' # q
  BY AuthCodeAssumption
<1>4. QED
  BY <1>1, <1>2, <1>3 DEF Alone

\* Giving the lock back without touching the pair.
LEMMA ReturnStep ==
    ASSUME TypeOK, Session, NEW p \in Procs, Hit(p) \/ NoRefresh(p)
    PROVE  Session'
<1>1. at[p] = "check"
  BY DEF Hit, NoRefresh
<1>2. /\ holder' = None /\ at' = [at EXCEPT ![p] = "idle"]
      /\ UNCHANGED <<phase, tok, reply, saving, disk, wire, accepted, lost>>
  BY DEF Hit, NoRefresh, Return, saver, server
<1>3. Alone'
  BY <1>1, <1>2, AloneReturn
<1>4. Owned'
  BY <1>1, <1>2, HolderFacts, OwnedFacts DEF Owned
<1>5. Pending'
  BY <1>1, <1>2, HolderFacts DEF Pending
<1>6. Linked'
  BY <1>2 DEF Session, Linked
<1>7. QED
  BY <1>3, <1>4, <1>5, <1>6 DEF Session

\* A refresh request carries the source's own refresh token.
LEMMA MissStep ==
    ASSUME TypeOK, Session, NEW p \in Procs, Miss(p)
    PROVE  Session'
<1>1. /\ at[p] = "check" /\ holder = p /\ phase = "up"
      /\ ~reply.here /\ reply.refresh = 0
  BY HolderFacts DEF Miss
<1>2. /\ at' = [at EXCEPT ![p] = "trip"]
      /\ reply' = NoReply
      /\ wire' = wire \cup {[token |-> tok.refresh, by |-> p]}
      /\ UNCHANGED <<holder, phase, tok, saving, disk, accepted, lost>>
  BY DEF Miss, saver
<1>3. reply'.here = FALSE /\ reply'.refresh = 0
  BY <1>2 DEF NoReply
<1>4. Alone'
  BY <1>1, <1>2, <1>3 DEF Session, Alone, TypeOK
<1>5. Owned'
  <2> SUFFICES ASSUME NEW m \in wire', m.by # None
               PROVE  /\ holder' = m.by /\ at'[m.by] = "trip"
                      /\ ~reply'.here /\ m.token = tok'.refresh
    BY DEF Owned
  <2>1. CASE m \in wire
    BY <2>1, <1>1, OwnedFacts
  <2>2. CASE m = [token |-> tok.refresh, by |-> p]
    BY <2>2, <1>1, <1>2, <1>3 DEF TypeOK
  <2>3. QED
    BY <1>2, <2>1, <2>2
<1>6. Pending'
  BY <1>3 DEF Pending
<1>7. Linked'
  BY <1>1, <1>2, <1>3 DEF Session, Linked
<1>8. QED
  BY <1>4, <1>5, <1>6, <1>7 DEF Session

\* Storing a reply stores the refresh token that the server accepts.
LEMMA StoreStep ==
    ASSUME TypeOK, Session, NEW p \in Procs, Store(p)
    PROVE  Session'
<1>1. at[p] = "trip" /\ holder = p /\ phase = "up" /\ reply.here
  BY HolderFacts DEF Store
<1>2. /\ holder' = None /\ at' = [at EXCEPT ![p] = "idle"]
      /\ reply' = NoReply
      /\ tok'.refresh = Renewed(reply.refresh)
      /\ UNCHANGED <<phase, saving, disk, wire, accepted, lost>>
  BY DEF Store, Return, saver, server
<1>3. reply'.here = FALSE /\ reply'.refresh = 0
  BY <1>2 DEF NoReply
<1>4. Alone'
  BY <1>1, <1>2, AloneReturn
<1>5. Owned'
  BY <1>1, <1>2, OwnedFacts DEF Owned
<1>6. Pending'
  BY <1>3 DEF Pending
<1>7. Linked'
  BY <1>1, <1>2, <1>3 DEF Session, Linked, Renewed
<1>8. QED
  BY <1>4, <1>5, <1>6, <1>7 DEF Session

\* Giving up keeps the pair, and the server's token with it unless the reply that
\* is dropped carried a new one.
LEMMA FailStep ==
    ASSUME TypeOK, Session, NEW p \in Procs, Fail(p)
    PROVE  Session'
<1>1. at[p] = "trip" /\ holder = p /\ phase = "up"
  BY HolderFacts DEF Fail
<1>2. /\ holder' = None /\ at' = [at EXCEPT ![p] = "idle"]
      /\ reply' = NoReply
      /\ wire' = {Orphaned(m, {p}) : m \in wire}
      /\ UNCHANGED <<phase, tok, saving, disk, accepted>>
  BY DEF Fail, Return, saver
<1>3. reply'.here = FALSE /\ reply'.refresh = 0
  BY <1>2 DEF NoReply
<1>4. ~lost' => ~lost /\ reply.refresh \in {0, tok.refresh}
  BY DEF Fail
<1>5. Alone'
  BY <1>1, <1>2, AloneReturn
<1>6. Owned'
  <2> SUFFICES ASSUME NEW m \in wire PROVE Orphaned(m, {p}).by = None
    BY <1>2 DEF Owned
  <2>1. Orphaned(m, {p}).by = IF m.by = p THEN None ELSE m.by
    BY OrphanedTypes
  <2>2. m.by # None => m.by = p
    BY <1>1, OwnedFacts
  <2>3. QED
    BY <2>1, <2>2
<1>7. Pending'
  BY <1>3 DEF Pending
<1>8. Linked'
  BY <1>1, <1>2, <1>3, <1>4 DEF Session, Linked
<1>9. QED
  BY <1>5, <1>6, <1>7, <1>8 DEF Session

\* After a crash nothing is under way that anybody waits for.
LEMMA CrashStep ==
    ASSUME TypeOK, Session, Crash
    PROVE  Session'
<1>1. /\ phase' = "down" /\ holder' = None
      /\ at' = [p \in Procs |-> "idle"]
      /\ reply' = NoReply /\ saving' = FALSE
      /\ wire' = {Orphaned(m, Procs) : m \in wire}
      /\ lost' = (disk.refresh # accepted)
      /\ UNCHANGED <<disk, accepted>>
  BY DEF Crash
<1>2. reply'.here = FALSE /\ reply'.refresh = 0
  BY <1>1 DEF NoReply
<1>3. Alone'
  BY <1>1, <1>2, AuthCodeAssumption DEF Alone
<1>4. Owned'
  <2> SUFFICES ASSUME NEW m \in wire PROVE Orphaned(m, Procs).by = None
    BY <1>1 DEF Owned
  <2>1. Orphaned(m, Procs).by = IF m.by \in Procs THEN None ELSE m.by
    BY OrphanedTypes
  <2>2. m.by \in Procs \cup {None}
    BY DEF TypeOK
  <2>3. QED
    BY <2>1, <2>2
<1>5. Pending'
  BY <1>2 DEF Pending
<1>6. Linked'
  BY <1>1 DEF Linked
<1>7. QED
  BY <1>3, <1>4, <1>5, <1>6 DEF Session

\* A request that is granted moves the session to the token in the reply, or, when
\* nobody waits for it, away from the source.
LEMMA GrantStep ==
    ASSUME TypeOK, Session, NEW m \in wire, NEW ttl \in TTLs, Grant(m, ttl)
    PROVE  Session'
<1>1. /\ wire' = wire \ {m} /\ m.token = accepted
      /\ UNCHANGED <<phase, holder, at, tok, saving, disk>>
  BY DEF Grant, saver
<1>2. PICK r \in {0, accepted, accepted + 1} \cap 0..MaxRefresh :
         /\ accepted' = IF r = 0 THEN accepted ELSE r
         /\ IF m.by = None
            THEN lost' = (lost \/ accepted' # accepted) /\ UNCHANGED reply
            ELSE /\ reply' = [here |-> TRUE, ttl |-> ttl,
                              life |-> Promised(ttl), refresh |-> r]
                 /\ UNCHANGED lost
  BY DEF Grant
<1>3. CASE m.by = None
  <2>1. /\ UNCHANGED reply
        /\ ~lost' => ~lost /\ accepted' = accepted
    BY <1>2, <1>3
  <2>2. Alone'
    BY <1>1, <2>1 DEF Session, Alone
  <2>3. Owned'
    BY <1>1, <2>1 DEF Session, Owned
  <2>4. Pending'
    BY <1>1, <2>1 DEF Session, Pending
  <2>5. Linked'
    BY <1>1, <2>1 DEF Session, Linked
  <2>6. QED
    BY <2>2, <2>3, <2>4, <2>5 DEF Session
<1>4. CASE m.by # None
  <2>1. /\ reply'.here /\ reply'.refresh = r /\ UNCHANGED lost
    BY <1>2, <1>4
  <2>2. /\ m.by \in Procs /\ holder = m.by /\ at[m.by] = "trip"
        /\ reply.refresh = 0 /\ m.token = tok.refresh /\ phase = "up"
    BY <1>4, OwnedFacts
  <2>3. Alone'
    BY <1>1, <2>2 DEF Session, Alone
  <2>4. \A q \in wire : q.by # None => q = m
    <3> SUFFICES ASSUME NEW q \in wire, q.by # None PROVE q = m
      OBVIOUS
    <3>1. q.by = m.by /\ q.token = m.token
      BY <2>2, OwnedFacts
    <3>2. /\ q \in [token : 1..MaxRefresh, by : Procs \cup {None}]
          /\ m \in [token : 1..MaxRefresh, by : Procs \cup {None}]
      BY DEF TypeOK
    <3>3. QED
      BY <3>1, <3>2
  <2>5. Owned'
    BY <1>1, <2>4 DEF Owned
  <2>6. Pending'
    BY <1>1, <2>1, <2>2 DEF Pending
  <2>7. Linked'
    BY <1>1, <1>2, <2>1, <2>2 DEF Session, Linked
  <2>8. QED
    BY <2>3, <2>5, <2>6, <2>7 DEF Session
<1>5. QED
  BY <1>3, <1>4

\* The other steps leave the session as it is.
LEMMA QuietStep ==
    ASSUME TypeOK, Session,
           \/ UNCHANGED vars \/ Snapshot \/ Write \/ Tick
           \/ \E p \in Procs : Call(p) \/ Lock(p)
           \/ \E m \in wire : Refuse(m)
    PROVE  Session'
<1>1. CASE UNCHANGED vars
  BY <1>1 DEF vars, Session, Alone, Owned, Pending, Linked
<1>2. CASE Snapshot
  BY <1>2 DEF Snapshot, server, Session, Alone, Owned, Pending, Linked
<1>3. CASE Write
  BY <1>3 DEF Write, server, Session, Alone, Owned, Pending, Linked
<1>4. CASE Tick
  <2>1. /\ tok'.refresh = tok.refresh /\ disk'.refresh = disk.refresh
        /\ UNCHANGED <<phase, holder, at, saving, wire, accepted, lost>>
    BY <1>4, OlderPair DEF Tick, server, TypeOK
  <2>2. reply'.here = reply.here /\ reply'.refresh = reply.refresh
    BY <1>4 DEF Tick, TypeOK
  <2>3. QED
    BY <2>1, <2>2 DEF Session, Alone, Owned, Pending, Linked
<1>5. ASSUME NEW p \in Procs, Call(p) PROVE Session'
  <2>1. /\ at[p] = "idle" /\ phase = "up" /\ at' = [at EXCEPT ![p] = "lock"]
        /\ UNCHANGED <<phase, holder, tok, reply, disk, saving, wire, accepted,
                       lost>>
    BY <1>5 DEF Call, saver, server
  <2>2. Alone'
    BY <2>1 DEF Session, Alone, TypeOK
  <2>3. Owned'
    BY <2>1, OwnedFacts DEF Owned, TypeOK
  <2>4. Pending'
    BY <2>1 DEF Session, Pending, TypeOK
  <2>5. Linked'
    BY <2>1 DEF Session, Linked
  <2>6. QED
    BY <2>2, <2>3, <2>4, <2>5 DEF Session
<1>6. ASSUME NEW p \in Procs, Lock(p) PROVE Session'
  <2>1. /\ at[p] = "lock" /\ holder = None /\ holder' = p
        /\ at' = [at EXCEPT ![p] = "check"]
        /\ UNCHANGED <<phase, tok, reply, disk, saving, wire, accepted, lost>>
    BY <1>6 DEF Lock, Free, saver, server
  <2>2. phase = "up" /\ ~reply.here
    BY <2>1, AuthCodeAssumption DEF Session, Alone, Pending
  <2>3. Alone'
    BY <2>1, <2>2, AuthCodeAssumption DEF Session, Alone, TypeOK
  <2>4. Owned'
    BY <2>1, OwnedFacts, AuthCodeAssumption DEF Owned
  <2>5. Pending'
    BY <2>1, <2>2 DEF Session, Pending
  <2>6. Linked'
    BY <2>1 DEF Session, Linked
  <2>7. QED
    BY <2>3, <2>4, <2>5, <2>6 DEF Session
<1>7. ASSUME NEW m \in wire, Refuse(m) PROVE Session'
  BY <1>7 DEF Refuse, saver, Session, Alone, Owned, Pending, Linked
<1>8. QED
  BY <1>1, <1>2, <1>3, <1>4, <1>5, <1>6, <1>7

\* The first exchange leaves the server's token on disk, and a start takes it over.
LEMMA StartStep ==
    ASSUME TypeOK, Session, ExchangeAuthCode \/ NewAuthCodeTokenSource
    PROVE  Session'
<1>1. CASE ExchangeAuthCode
  <2>1. /\ phase = "fresh" /\ phase' = "down"
        /\ disk'.refresh = accepted'
        /\ UNCHANGED <<holder, at, tok, reply, saving, wire, lost>>
    BY <1>1 DEF ExchangeAuthCode
  <2>2. QED
    BY <2>1 DEF Session, Alone, Owned, Pending, Linked
<1>2. CASE NewAuthCodeTokenSource
  <2>1. /\ phase = "down" /\ phase' = "up" /\ tok' = disk
        /\ UNCHANGED <<holder, at, reply, saving, disk, wire, accepted, lost>>
    BY <1>2 DEF NewAuthCodeTokenSource, saver, server
  <2>2. reply.refresh = 0
    BY <2>1 DEF Session, Alone, Pending
  <2>3. Owned'
    BY <2>1, OwnedFacts DEF Owned
  <2>4. QED
    BY <2>1, <2>2, <2>3 DEF Session, Alone, Pending, Linked
<1>3. QED
  BY <1>1, <1>2

\* The session's invariant is inductive.
LEMMA SessionInvariant == Spec => []Session
<1>1. Init => Session
  BY AuthCodeAssumption
  DEF Init, NoReply, Session, Alone, Owned, Pending, Linked
<1>2. TypeOK /\ Session /\ [Next]_vars => Session'
  BY StartStep, QuietStep, ReturnStep, MissStep, StoreStep, FailStep, CrashStep,
     GrantStep
  DEF Next
<1>3. QED
  BY <1>1, <1>2, Typing, PTL DEF Spec

\* For any number of goroutines, rotations, snapshots, crashes and abandoned
\* requests: a source that is up holds the refresh token that the server accepts,
\* unless the reply that carried it was lost.
THEOREM KeepsSession == Spec => []SessionKept
<1>1. Session => SessionKept
  BY DEF Session, Linked, SessionKept
<1>2. QED
  BY <1>1, SessionInvariant, PTL

\* Whoever waits for a renewal presented the source's current refresh token, for any
\* number of goroutines: none that the source had replaced, and one that the server
\* had replaced only after the reply with its successor was lost.
THEOREM PresentsLatest == Spec => []ReuseOnlyAfterLoss
<1>1. TypeOK /\ Session => ReuseOnlyAfterLoss
  BY OwnedFacts DEF Session, Linked, ReuseOnlyAfterLoss
<1>2. QED
  BY <1>1, Typing, SessionInvariant, PTL

----------------------------------------------------------------------------
(***************************************************************************)
(* The margin. A usable pair promises more than its life by no more than   *)
(* the round trip, once the early-refresh margin is counted in.            *)
(***************************************************************************)

\* The margin of a pair that still counts as usable.
Gap(pair) == pair.left > 0 => pair.left + SourceEarly - TripBound <= pair.life

\* A reply lost no more of its life than its round trip took.
Prompt == reply.here => Promised(reply.ttl) - elapsed <= reply.life

Margins == Gap(tok) /\ Gap(disk) /\ Gap(snap) /\ Prompt

\* Time takes as much from the promise as from the life.
LEMMA GapOlder == ASSUME NEW pair \in Pair, Gap(pair) PROVE Gap(Older(pair))
<1>1. pair.left \in Nat /\ pair.life \in Nat
  BY DEF Pair
<1>2. SourceEarly \in Nat /\ TripBound \in Nat
  BY EarlyNat, AuthCodeAssumption
<1>3. pair.left > 0 => pair.left + SourceEarly - TripBound <= pair.life
  BY DEF Gap
<1>4. Less(pair.left) > 0 =>
         Less(pair.left) + SourceEarly - TripBound <= Less(pair.life)
  BY <1>1, <1>2, <1>3 DEF Less
<1>5. QED
  BY <1>4, OlderPair DEF Gap

\* What is made of a promise that is at most TripBound old keeps the margin.
LEMMA GapRemaining ==
    ASSUME NEW ttl \in TTLs \cup {0}, NEW life \in Nat, NEW refresh,
           Promised(ttl) - TripBound <= life
    PROVE  Gap([refresh |-> refresh, left |-> Remaining(ttl, SourceEarly),
                life |-> life])
<1>1. SourceEarly \in Nat /\ TripBound \in Nat /\ Promised(ttl) \in Nat
  BY EarlyNat, RemainingNat, AuthCodeAssumption
<1>2. Remaining(ttl, SourceEarly) > 0 =>
         Remaining(ttl, SourceEarly) + SourceEarly = Promised(ttl)
  BY <1>1 DEF Remaining, AtLeast0
<1>3. Remaining(ttl, SourceEarly) \in Nat
  BY EarlyNat, RemainingNat
<1>4. QED
  BY <1>1, <1>2, <1>3 DEF Gap

\* The empty pair is not usable, and the missing reply promises nothing.
LEMMA GapNothing == Gap(NoPair) /\ ~NoReply.here
BY DEF Gap, NoPair, NoReply

\* Every step keeps the margins, if the configuration sets one.
LEMMA MarginStep ==
    ASSUME ConfigEarly # 0, TypeOK, Session, Margins, [Next]_vars
    PROVE  Margins'
<1>1. CASE UNCHANGED vars
  BY <1>1 DEF vars, Margins, Gap, Prompt
<1>2. CASE ExchangeAuthCode
  <2>1. PICK ttl \in TTLs, trip \in 0..TripBound, refresh \in {0, 1} :
          disk' = [refresh |-> refresh,
                   left |-> Remaining(ttl, ExchangeEarly),
                   life |-> AtLeast0(Promised(ttl) - trip)]
    BY <1>2 DEF ExchangeAuthCode
  <2>2. SourceEarly = ExchangeEarly
    BY DEF SourceEarly, ExchangeEarly
  <2>3. Promised(ttl) \in Nat
    BY RemainingNat, EarlyNat
  <2>4. /\ AtLeast0(Promised(ttl) - trip) \in Nat
        /\ Promised(ttl) - TripBound <= AtLeast0(Promised(ttl) - trip)
    BY <2>3, AuthCodeAssumption DEF AtLeast0
  <2>5. Gap(disk')
    BY <2>1, <2>2, <2>4, GapRemaining
  <2>6. UNCHANGED <<tok, snap, reply, elapsed>>
    BY <1>2 DEF ExchangeAuthCode
  <2>7. QED
    BY <2>5, <2>6 DEF Margins, Gap, Prompt
<1>3. CASE NewAuthCodeTokenSource
  BY <1>3 DEF NewAuthCodeTokenSource, saver, Margins, Gap, Prompt
<1>4. ASSUME NEW p \in Procs, Call(p) \/ Lock(p) \/ Hit(p) \/ NoRefresh(p)
      PROVE  Margins'
  <2>1. UNCHANGED <<tok, disk, snap, reply, elapsed>>
    BY <1>4 DEF Call, Lock, Hit, NoRefresh, saver
  <2>2. QED
    BY <2>1 DEF Margins, Gap, Prompt
<1>5. ASSUME NEW p \in Procs, Miss(p) \/ Fail(p) PROVE Margins'
  <2>1. reply' = NoReply /\ UNCHANGED <<tok, disk, snap>>
    BY <1>5 DEF Miss, Fail, saver
  <2>2. QED
    BY <2>1, GapNothing DEF Margins, Gap, Prompt
<1>6. ASSUME NEW p \in Procs, Store(p) PROVE Margins'
  <2>1. /\ tok' = [refresh |-> Renewed(reply.refresh),
                   left |-> Remaining(reply.ttl, SourceEarly),
                   life |-> reply.life]
        /\ reply.here /\ reply' = NoReply /\ UNCHANGED <<disk, snap>>
    BY <1>6 DEF Store, saver
  <2>2. /\ reply.ttl \in TTLs \cup {0} /\ reply.life \in Nat
        /\ elapsed \in 0..TripBound
    BY DEF TypeOK
  <2>3. Promised(reply.ttl) \in Nat
    BY <2>2, RemainingNat, EarlyNat
  <2>4. Promised(reply.ttl) - TripBound <= reply.life
    BY <2>1, <2>2, <2>3, AuthCodeAssumption DEF Margins, Prompt
  <2>5. Gap(tok')
    BY <2>1, <2>2, <2>4, GapRemaining
  <2>6. QED
    BY <2>1, <2>5, GapNothing DEF Margins, Gap, Prompt
<1>7. CASE Snapshot
  BY <1>7 DEF Snapshot, Margins, Gap, Prompt
<1>8. CASE Write
  BY <1>8, GapNothing DEF Write, Margins, Gap, Prompt
<1>9. CASE Crash
  BY <1>9, GapNothing DEF Crash, Margins, Gap, Prompt
<1>10. ASSUME NEW m \in wire, Refuse(m) PROVE Margins'
  BY <1>10 DEF Refuse, saver, Margins, Gap, Prompt
<1>11. ASSUME NEW m \in wire, NEW ttl \in TTLs, Grant(m, ttl) PROVE Margins'
  <2>1. UNCHANGED <<tok, disk, snap, elapsed>>
    BY <1>11 DEF Grant, saver
  <2>2. Prompt'
    <3>1. CASE UNCHANGED reply
      BY <2>1, <3>1 DEF Margins, Prompt
    <3>2. CASE reply'.ttl = ttl /\ reply'.life = Promised(ttl)
      <4>1. Promised(ttl) \in Nat /\ elapsed \in Nat
        BY RemainingNat, EarlyNat, AuthCodeAssumption DEF TypeOK
      <4>2. Promised(ttl) - elapsed <= Promised(ttl)
        BY <4>1
      <4>3. QED
        BY <2>1, <3>2, <4>2 DEF Prompt
    <3>3. \/ UNCHANGED reply
          \/ reply'.ttl = ttl /\ reply'.life = Promised(ttl)
      BY <1>11 DEF Grant
    <3>4. QED
      BY <3>1, <3>2, <3>3
  <2>3. QED
    BY <2>1, <2>2 DEF Margins, Gap
<1>12. CASE Tick
  <2>1. /\ tok' = Older(tok) /\ disk' = Older(disk) /\ snap' = Older(snap)
        /\ reply' = [reply EXCEPT !.life = Less(@)]
        /\ elapsed' = IF Tripping THEN elapsed + 1 ELSE 0
    BY <1>12 DEF Tick
  <2>2. Gap(tok') /\ Gap(disk') /\ Gap(snap')
    BY <2>1, GapOlder DEF Margins, TypeOK
  <2>3. Prompt'
    <3> SUFFICES ASSUME reply'.here
                 PROVE  Promised(reply'.ttl) - elapsed' <= reply'.life
      BY DEF Prompt
    <3>1. /\ reply.here /\ reply'.ttl = reply.ttl
          /\ reply'.life = Less(reply.life)
      BY <2>1 DEF TypeOK
    <3>2. Tripping
      BY <3>1 DEF Session, Pending, Tripping
    <3>3. /\ reply.ttl \in TTLs \cup {0} /\ reply.life \in Nat
          /\ elapsed \in Nat
      BY AuthCodeAssumption DEF TypeOK
    <3>4. Promised(reply.ttl) \in Nat
      BY <3>3, RemainingNat, EarlyNat
    <3>5. Promised(reply.ttl) - elapsed <= reply.life
      BY <3>1 DEF Margins, Prompt
    <3>6. Promised(reply.ttl) - (elapsed + 1) <= Less(reply.life)
      BY <3>3, <3>4, <3>5 DEF Less
    <3>7. QED
      BY <2>1, <3>1, <3>2, <3>6
  <2>4. QED
    BY <2>2, <2>3 DEF Margins
<1>13. QED
  BY <1>1, <1>2, <1>3, <1>4, <1>5, <1>6, <1>7, <1>8, <1>9, <1>10, <1>11, <1>12
  DEF Next

\* With EarlyRefresh set in the configuration, every token handed from the cache,
\* the bootstrap program's included, keeps the margin less one round trip.
THEOREM KeepsMargin ==
    ASSUME ConfigEarly # 0
    PROVE  Spec => []MarginKept
<1>1. Init => Margins
  BY GapNothing DEF Init, Margins, Prompt
<1>2. TypeOK /\ Session /\ Margins /\ [Next]_vars => Margins'
  BY MarginStep
<1>3. TypeOK /\ Margins => MarginKept
  <2> SUFFICES ASSUME TypeOK, Margins, Usable
               PROVE  tok.life > SourceEarly - TripBound
    BY DEF MarginKept
  <2>1. tok.left \in Nat /\ tok.life \in Nat
    BY DEF TypeOK, Pair
  <2>2. SourceEarly \in Nat /\ TripBound \in Nat
    BY EarlyNat, AuthCodeAssumption
  <2>3. QED
    BY <2>1, <2>2 DEF Margins, Gap, Usable
<1>4. QED
  BY <1>1, <1>2, <1>3, Typing, SessionInvariant, PTL DEF Spec
=============================================================================
