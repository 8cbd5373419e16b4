-------------------------- MODULE PaginationProofs --------------------------
(***************************************************************************)
(* Theorems about Pagination: the iterators are typed, and those that move *)
(* on implement Listing, for collections, pages and bounds of any size.    *)
(***************************************************************************)
EXTENDS Pagination, FiniteSetTheorems, TLAPS

\* A later item has a later time: all that tells items of a window apart.
Ascending == \A i, j \in DOMAIN at : i < j => at[i] < at[j]

\* The bound b separates the h oldest items from the others.
Marks(b, h) ==
    /\ b # 0
    /\ IF shape = "cursor" THEN b = h + 1
       ELSE h + 1 \in DOMAIN at /\ b = at[h + 1]

\* A page lies in the collection, and what is left of it is its older end.
PageFits ==
    page # NoPage =>
        /\ page.hi <= Len(at)
        /\ page.lo <= page.hi + 1
        /\ IF page.size = 0 THEN page.lo = 1 ELSE page.lo <= Len(at)

\* Between pages the bound of the next request marks where the last page ended.
Resumes ==
    pc \in {"check", "call"} =>
        IF page = NoPage THEN p.bound = opts.bound
        ELSE page.hi + 1 = page.lo /\ Marks(p.bound, page.hi)

\* On a page, its oldest item lies before the bound it was asked with, and a
\* cursor leads on from that item.
Descends ==
    pc = "page" =>
        /\ page # NoPage
        /\ p.bound # 0 /\ page.size > 0 => Before(page.lo, p.bound)
        /\ shape = "cursor" =>
              IF page.lo > 1 THEN page.next = page.lo ELSE page.next \in {0, 1}

IInv ==
    /\ TypeOK /\ PageFits
    /\ Burst = 1 => Ascending
    /\ Walks => Resumes /\ Descends

----------------------------------------------------------------------------
\* What a query reaches.

\* The fields of a page, and how the absent one is told.
LEMMA PageFields ==
    ASSUME TypeOK
    PROVE  /\ page.hi \in Int /\ page.lo \in Nat
           /\ page.size \in Nat /\ page.next \in Nat
           /\ page = NoPage <=> page.hi = -1
           /\ page # NoPage => page.hi \in Nat /\ page.lo \in Nat \ {0}
BY DEF TypeOK, NoPage

\* The first n numbers are n.
LEMMA FirstN ==
    ASSUME NEW n \in Nat
    PROVE  IsFiniteSet(1..n) /\ Cardinality(1..n) = n
<1>1. IsFiniteSet(1..n) /\ Cardinality(1..n) = IF 1 > n THEN 0 ELSE n - 1 + 1
  BY FS_Interval
<1> QED  BY <1>1

\* A query reaches as many items as there are, at most.
LEMMA ReachNat ==
    ASSUME TypeOK, NEW b \in Nat
    PROVE  Reach(b) \in 0..Len(at)
<1>1. Len(at) \in Nat /\ DOMAIN at = 1..Len(at)
  BY DEF TypeOK
<1>2. IsFiniteSet(1..Len(at)) /\ Cardinality(1..Len(at)) = Len(at)
  BY <1>1, FirstN
<1> DEFINE S == {i \in DOMAIN at : Before(i, b)}
<1>3. S \subseteq 1..Len(at)
  BY <1>1
<1> HIDE DEF S
<1>4. Cardinality(S) <= Len(at) /\ IsFiniteSet(S)
  BY <1>2, <1>3, FS_Subset
<1>5. Cardinality(S) \in Nat
  BY <1>4, FS_CardinalityType
<1>6. Reach(b) = IF b = 0 THEN Len(at) ELSE Cardinality(S)
  BY DEF Reach, S
<1> QED  BY <1>1, <1>4, <1>5, <1>6

\* The bound that marks h reaches h.
LEMMA ReachMarked ==
    ASSUME TypeOK, Walks, Burst = 1 => Ascending,
           NEW b \in Nat, NEW h \in 0..Len(at), Marks(b, h)
    PROVE  Reach(b) = h
<1>1. Len(at) \in Nat /\ DOMAIN at = 1..Len(at) /\ at \in [1..Len(at) -> Nat]
  BY DEF TypeOK
<1>2. {i \in DOMAIN at : Before(i, b)} = 1..h
  <2>1. CASE shape = "cursor"
    BY <1>1, <2>1 DEF Before, Marks
  <2>2. CASE shape = "window" /\ Burst = 1
    <3>1. \A i \in 1..Len(at) : at[i] < b <=> i <= h
      BY <1>1, <2>2 DEF Marks, Ascending
    <3>2. \A i \in 1..Len(at) : Before(i, b) <=> at[i] < b
      BY <2>2 DEF Before, Walks
    <3> QED  BY <1>1, <3>1, <3>2
  <2> QED  BY <2>1, <2>2 DEF Walks
<1>3. Cardinality(1..h) = h
  BY <1>1, FirstN
<1> QED  BY <1>2, <1>3 DEF Reach, Marks

\* Every item that a query counts in lies before its bound.
LEMMA ReachBefore ==
    ASSUME TypeOK, Walks, Burst = 1 => Ascending,
           NEW b \in Nat \ {0}, NEW i \in 1..Reach(b)
    PROVE  Before(i, b)
<1> SUFFICES ASSUME ~Before(i, b) PROVE FALSE
  OBVIOUS
<1>1. Len(at) \in Nat /\ DOMAIN at = 1..Len(at) /\ at \in [1..Len(at) -> Nat]
  BY DEF TypeOK
<1>2. i \in 1..Len(at) /\ Reach(b) \in Nat
  BY <1>1, ReachNat
<1> DEFINE S == {j \in DOMAIN at : Before(j, b)}
<1>3. S \subseteq 1..(i - 1)
  <2>1. CASE shape = "cursor"
    BY <1>1, <1>2, <2>1 DEF Before
  <2>2. CASE shape = "window" /\ Burst = 1
    <3>1. \A j \in 1..Len(at) : Before(j, b) <=> at[j] < b
      BY <2>2 DEF Before, Walks
    <3>2. at[i] >= b
      BY <1>1, <1>2, <3>1
    <3>3. \A j \in 1..Len(at) : j >= i => at[j] >= b
      BY <1>1, <1>2, <2>2, <3>2 DEF Ascending
    <3> QED  BY <1>1, <1>2, <3>1, <3>3
  <2> QED  BY <2>1, <2>2 DEF Walks
<1>4. Reach(b) = Cardinality(S)
  BY DEF Reach
<1> HIDE DEF S
<1>5. IsFiniteSet(1..(i - 1)) /\ Cardinality(1..(i - 1)) = i - 1
  <2>1. i - 1 \in Nat
    BY <1>1, <1>2
  <2> QED  BY <2>1, FirstN
<1>6. Cardinality(S) <= i - 1
  BY <1>3, <1>5, FS_Subset
<1> QED  BY <1>2, <1>4, <1>6

\* What Create does to the collection.
LEMMA Grown ==
    ASSUME TypeOK, Create
    PROVE  /\ at' \in Seq(Nat \ {0}) /\ Len(at') = Len(at) + 1
           /\ Len(at) \in Nat /\ Len(at') <= MaxItems
           /\ DOMAIN at = 1..Len(at) /\ DOMAIN at' = 1..Len(at')
           /\ \A i \in DOMAIN at : at'[i] = at[i]
           /\ Burst = 1 /\ Ascending => Ascending'
<1>1. /\ at \in Seq(Nat \ {0}) /\ Len(at) \in Nat /\ DOMAIN at = 1..Len(at)
      /\ MaxItems \in Nat /\ Len(at) < MaxItems
  BY PaginationAssumption DEF TypeOK, Create
<1>2. PICK t \in 1..(MaxItems + 1) :
        /\ \A i \in DOMAIN at : at[i] <= t
        /\ Cardinality({i \in DOMAIN at : at[i] = t}) < Burst
        /\ at' = Append(at, t)
  BY DEF Create
<1>3. t \in Nat \ {0}
  BY <1>1
<1>4. /\ at' \in Seq(Nat \ {0}) /\ Len(at') = Len(at) + 1
      /\ DOMAIN at' = 1..Len(at')
      /\ \A i \in DOMAIN at : at'[i] = at[i]
      /\ at'[Len(at) + 1] = t
  BY <1>1, <1>2, <1>3
<1>5. ASSUME Burst = 1, Ascending PROVE Ascending'
  <2> DEFINE S == {i \in DOMAIN at : at[i] = t}
  <2>1. IsFiniteSet(S)
    <3>1. IsFiniteSet(1..Len(at)) /\ S \subseteq 1..Len(at)
      BY <1>1, FS_Interval
    <3> HIDE DEF S
    <3> QED  BY <3>1, FS_Subset
  <2>2. Cardinality(S) < 1
    BY <1>2, <1>5
  <2> HIDE DEF S
  <2>3. S = {}
    BY <2>1, <2>2, FS_CardinalityType, FS_EmptySet
  <2>4. \A i \in DOMAIN at : at[i] < t
    BY <1>1, <1>2, <1>3, <2>3 DEF S
  <2>5. \A i, j \in 1..(Len(at) + 1) : i < j => at'[i] < at'[j]
    <3> SUFFICES ASSUME NEW i \in 1..(Len(at) + 1), NEW j \in 1..(Len(at) + 1), i < j
                 PROVE  at'[i] < at'[j]
      OBVIOUS
    <3>1. i \in DOMAIN at
      <4>1. Len(at) \in Nat /\ DOMAIN at = 1..Len(at)
        BY <1>1
      <4> QED  BY <4>1
    <3>2. at'[i] = at[i]
      BY <1>4, <3>1
    <3>3. CASE j = Len(at) + 1
      BY <1>4, <2>4, <3>1, <3>2, <3>3
    <3>4. CASE j \in DOMAIN at
      BY <1>4, <1>5, <3>1, <3>2, <3>4 DEF Ascending
    <3> QED  BY <1>1, <3>3, <3>4
  <2> QED  BY <1>4, <2>5 DEF Ascending
<1> QED  BY <1>1, <1>4, <1>5

\* No query reaches less of a larger collection.
LEMMA ReachGrows ==
    ASSUME TypeOK, Create, NEW b \in Nat
    PROVE  Reach(b)' \in Nat /\ Reach(b)' >= Reach(b)
<1>1. /\ Len(at') = Len(at) + 1 /\ Len(at) \in Nat
      /\ DOMAIN at = 1..Len(at) /\ DOMAIN at' = 1..Len(at')
      /\ \A i \in DOMAIN at : at'[i] = at[i]
  BY Grown
<1>2. shape' = shape /\ honest' = honest
  BY DEF Create, world
<1> DEFINE S == {i \in DOMAIN at : Before(i, b)}
           R == {i \in DOMAIN at' : Before(i, b)'}
<1>3. S \subseteq R
  BY <1>1, <1>2 DEF Before
<1>4. IsFiniteSet(R)
  <2>1. IsFiniteSet(1..Len(at')) /\ R \subseteq 1..Len(at')
    BY <1>1, FS_Interval
  <2> HIDE DEF R
  <2> QED  BY <2>1, FS_Subset
<1>5. /\ Reach(b) = IF b = 0 THEN Len(at) ELSE Cardinality(S)
      /\ Reach(b)' = IF b = 0 THEN Len(at') ELSE Cardinality(R)
  BY DEF Reach
<1> HIDE DEF S, R
<1>6. Cardinality(S) <= Cardinality(R) /\ IsFiniteSet(S)
  BY <1>3, <1>4, FS_Subset
<1>7. Cardinality(S) \in Nat /\ Cardinality(R) \in Nat
  BY <1>4, <1>6, FS_CardinalityType
<1> QED  BY <1>1, <1>5, <1>6, <1>7

----------------------------------------------------------------------------
\* The strengthening is inductive.

\* The strengthening holds at the start.
LEMMA InitIInv == Init => IInv
<1> SUFFICES ASSUME Init PROVE IInv
  OBVIOUS
<1>1. at = << >> /\ page = NoPage /\ pc = "idle"
  BY DEF Init
<1>2. TypeOK
  <2>1. opts \in Query /\ p \in Query
    BY PaginationAssumption DEF Init, Query
  <2>2. at \in Seq(Nat \ {0}) /\ Len(at) = 0 /\ 0 <= MaxItems
    BY <1>1, PaginationAssumption
  <2> QED  BY <1>1, <2>1, <2>2 DEF Init, TypeOK, Ends
<1>3. PageFits /\ Resumes /\ Descends /\ Ascending
  BY <1>1 DEF PageFits, Resumes, Descends, Ascending
<1> QED  BY <1>2, <1>3 DEF IInv

\* A new item lies beyond every bound in use, and every page.
LEMMA CreateIInv == ASSUME IInv, Create PROVE IInv'
<1>1. /\ TypeOK /\ UNCHANGED <<world, live, pc, p, page, given, ended>>
      /\ opts.bound \in Nat /\ p.bound \in Nat
  BY DEF IInv, Create, TypeOK, Query
<1>2. /\ at' \in Seq(Nat \ {0}) /\ Len(at') = Len(at) + 1
      /\ Len(at) \in Nat /\ Len(at') <= MaxItems
      /\ DOMAIN at = 1..Len(at) /\ DOMAIN at' = 1..Len(at')
      /\ \A i \in DOMAIN at : at'[i] = at[i]
      /\ Burst = 1 /\ Ascending => Ascending'
  BY <1>1, Grown
<1>3. TypeOK'
  BY <1>1, <1>2 DEF TypeOK, world
<1>4. PageFits'
  BY <1>1, <1>2, PageFields DEF IInv, PageFits
<1>5. Burst = 1 => Ascending'
  BY <1>2 DEF IInv
<1>6. Walks' <=> Walks
  BY <1>1 DEF Walks, world
<1>7. ASSUME Walks PROVE Resumes'
  BY <1>1, <1>2, <1>7 DEF IInv, Resumes, Marks, world
<1>8. ASSUME Walks PROVE Descends'
  <2>1. ASSUME pc = "page", page # NoPage, page.size > 0
        PROVE  page.lo \in DOMAIN at
    BY <1>1, <1>2, <2>1, PageFields DEF IInv, PageFits
  <2> QED  BY <1>1, <1>2, <1>8, <2>1 DEF IInv, Descends, Before, world
<1> QED  BY <1>3, <1>4, <1>5, <1>6, <1>7, <1>8 DEF IInv

\* A page begins at what its query reaches, and ends before its bound.
LEMMA AnswerIInv == ASSUME IInv, Answer PROVE IInv'
<1>1. /\ TypeOK /\ pc = "call" /\ pc' = "page"
      /\ UNCHANGED <<world, at, live, p, given, ended>>
  BY DEF IInv, Answer
<1>2. PICK n \in 0..Sent(p) :
        LET hi == Reach(p.bound)
            lo == hi - n + 1
        IN  /\ n <= hi /\ (hi > 0 => n > 0)
            /\ \E c \in Cursors(lo) :
                  page' = [hi |-> hi, lo |-> lo, size |-> n, next |-> c]
  BY DEF Answer
<1> DEFINE hi == Reach(p.bound)
           lo == hi - n + 1
<1>3. PICK c \in Cursors(lo) :
        page' = [hi |-> hi, lo |-> lo, size |-> n, next |-> c]
  BY <1>2
<1>4. /\ p.bound \in Nat /\ p.limit \in Nat /\ Sent(p) \in Nat
      /\ Len(at) \in Nat /\ DOMAIN at = 1..Len(at)
  <2>1. p.bound \in Nat /\ p.limit \in Limits
    BY <1>1 DEF TypeOK, Query
  <2>2. Limits \subseteq Nat /\ DefaultLimit \in Nat
    BY PaginationAssumption
  <2>3. at \in Seq(Nat \ {0})
    BY <1>1 DEF TypeOK
  <2>4. Len(at) \in Nat /\ DOMAIN at = 1..Len(at)
    BY <2>3
  <2> QED  BY <2>1, <2>2, <2>4 DEF Sent
<1>5. hi \in 0..Len(at)
  BY <1>1, <1>4, ReachNat
<1>6. n <= hi /\ (hi > 0 => n > 0) /\ n \in Nat
  BY <1>2, <1>4
<1> HIDE DEF hi
<1>7. lo \in Nat \ {0} /\ lo <= hi + 1 /\ (n > 0 => lo <= hi) /\ (n = 0 => lo = 1)
  BY <1>4, <1>5, <1>6
<1> HIDE DEF lo
<1>8. c \in Nat
  BY <1>3, <1>4, <1>7 DEF Cursors
<1>9. page' \in [hi : Nat, lo : Nat \ {0}, size : Nat, next : Nat]
  BY <1>3, <1>5, <1>6, <1>7, <1>8
<1>10. TypeOK'
  BY <1>1, <1>9 DEF TypeOK, world
<1>11. PageFits'
  BY <1>1, <1>3, <1>4, <1>5, <1>6, <1>7 DEF PageFits
<1>12. Burst = 1 => Ascending'
  BY <1>1 DEF IInv, Ascending
<1>13. Resumes'
  BY <1>1 DEF Resumes
<1>14. ASSUME Walks PROVE Descends'
  <2>1. page' # NoPage
    BY <1>3, <1>5, <1>4 DEF NoPage
  <2>2. ASSUME p.bound # 0, n > 0 PROVE Before(lo, p.bound)
    <3>1. lo \in 1..Reach(p.bound)
      BY <1>4, <1>5, <1>7, <2>2 DEF hi
    <3> QED  BY <1>1, <1>4, <1>14, <2>2, <3>1, ReachBefore DEF IInv
  <2>3. IF lo > 1 THEN c = lo ELSE c \in {0, 1}
    BY <1>3, <1>14 DEF Cursors, Walks
  <2> QED
    BY <1>1, <1>3, <2>1, <2>2, <2>3 DEF Descends, Before, world
<1>15. Walks' <=> Walks
  BY <1>1 DEF Walks, world
<1> QED  BY <1>10, <1>11, <1>12, <1>13, <1>14, <1>15 DEF IInv

\* A yielded item leaves the page at its young end.
LEMMA YieldIInv == ASSUME IInv, Yield PROVE IInv'
<1>1. /\ TypeOK /\ page.hi >= page.lo /\ given' = page.hi
      /\ page' = [page EXCEPT !.hi = @ - 1]
      /\ UNCHANGED <<world, at, live, p>>
      /\ (UNCHANGED <<pc, ended>>) \/ (pc' = "done" /\ ended' = "stopped")
      /\ pc = "page"
  BY DEF IInv, Yield, More, End
<1>2. page # NoPage
  BY <1>1 DEF NoPage
<1>3. page \in [hi : Nat, lo : Nat \ {0}, size : Nat, next : Nat]
  BY <1>1, <1>2 DEF TypeOK
<1>4. /\ page' \in [hi : Nat, lo : Nat \ {0}, size : Nat, next : Nat]
      /\ page'.hi = page.hi - 1 /\ page'.lo = page.lo
      /\ page'.size = page.size /\ page'.next = page.next
  BY <1>1, <1>3
<1>5. Len(at) \in Nat /\ page.hi <= Len(at)
  BY <1>1, <1>2 DEF TypeOK, IInv, PageFits
<1>6. TypeOK'
  BY <1>1, <1>3, <1>4, <1>5 DEF TypeOK, world, Ends
<1>7. PageFits'
  BY <1>1, <1>2, <1>3, <1>4, <1>5 DEF IInv, PageFits
<1>8. page' # NoPage
  BY <1>4 DEF NoPage
<1>9. Resumes'
  BY <1>1 DEF Resumes
<1>10. ASSUME Walks PROVE Descends'
  BY <1>1, <1>4, <1>8, <1>10 DEF IInv, Descends, Before, world
<1>11. (Walks' <=> Walks) /\ (Burst = 1 => Ascending')
  BY <1>1 DEF Walks, world, IInv, Ascending
<1> QED  BY <1>6, <1>7, <1>9, <1>10, <1>11 DEF IInv

\* Where a page ends, and where the next request goes on from.
LEMMA PageEnds ==
    ASSUME IInv, Advance, page # NoPage
    PROVE  /\ page.hi + 1 = page.lo /\ page.lo \in Nat \ {0} /\ page.hi \in Nat
           /\ page.size = 0 => page.hi = 0
           /\ page.size # 0 => page.lo \in DOMAIN at /\ at[page.lo] \in Nat \ {0}
<1>1. TypeOK /\ PageFits /\ ~(page.hi >= page.lo)
  BY DEF IInv, Advance, More
<1>2. page.hi \in Nat /\ page.lo \in Nat \ {0} /\ page.size \in Nat
  BY <1>1, PageFields
<1>3. Len(at) \in Nat /\ DOMAIN at = 1..Len(at) /\ \A i \in 1..Len(at) : at[i] \in Nat \ {0}
  BY <1>1 DEF TypeOK
<1> QED  BY <1>1, <1>2, <1>3 DEF PageFits

\* A walk that moves on does so below the bound of its last request; it ends
\* only where nothing older is left.
LEMMA AdvanceWalks ==
    ASSUME IInv, Walks, Advance
    PROVE  /\ page # NoPage
           /\ \/ pc' = "done" /\ ended' = "exhausted" /\ page.hi = 0 /\ p' = p
              \/ /\ pc' = "check" /\ ended' = ended
                 /\ p' = [p EXCEPT !.bound = p'.bound]
                 /\ p'.bound \in Nat /\ Marks(p'.bound, page.hi)
<1>1. /\ TypeOK /\ Descends /\ pc = "page"
  BY DEF IInv, Advance
<1>2. page # NoPage
  BY <1>1 DEF Descends
<1>3. /\ page.hi + 1 = page.lo /\ page.lo \in Nat \ {0} /\ page.hi \in Nat
      /\ page.size = 0 => page.hi = 0
      /\ page.size # 0 => page.lo \in DOMAIN at /\ at[page.lo] \in Nat \ {0}
  BY <1>2, PageEnds
<1>4. p \in Query /\ page.size \in Nat /\ page.next \in Nat /\ p.bound \in Nat
  BY <1>1, PageFields DEF TypeOK, Query
<1>5. \A b \in Nat : [p EXCEPT !.bound = b].bound = b
                    /\ [p EXCEPT !.bound = b] \in Query
  BY <1>4 DEF Query
<1>6. CASE shape = "cursor"
  <2>1. AdvanceCursor
    BY <1>6 DEF Advance
  <2>2. IF page.lo > 1 THEN page.next = page.lo ELSE page.next \in {0, 1}
    BY <1>1, <1>6 DEF Descends
  <2>3. ASSUME page.next = p.bound, page.next # 0 PROVE page.hi = 0
    <3>1. CASE page.size = 0
      BY <1>3, <3>1
    <3>2. CASE page.size > 0
      <4>1. page.lo < p.bound
        BY <1>1, <1>2, <1>6, <2>3, <3>2 DEF Descends, Before
      <4>2. page.lo = 1
        BY <1>3, <1>4, <2>2, <2>3, <4>1
      <4> QED  BY <1>3, <4>2
    <3> QED  BY <1>4, <3>1, <3>2
  <2>4. CASE page.next = 0
    BY <1>2, <1>3, <2>1, <2>2, <2>4 DEF AdvanceCursor, End
  <2>5. CASE page.next # 0 /\ page.next = p.bound
    BY <1>2, <2>1, <2>3, <2>5 DEF AdvanceCursor, MoveTo, Stalled, End
  <2>6. CASE page.next # 0 /\ page.next # p.bound
    <3>1. /\ p' = [p EXCEPT !.bound = page.next] /\ pc' = "check" /\ ended' = ended
      BY <2>1, <2>6 DEF AdvanceCursor, MoveTo, Stalled
    <3>2. p'.bound = page.next
      BY <1>4, <1>5, <3>1
    <3>3. page.next = page.hi + 1
      BY <1>3, <2>2, <2>6
    <3>4. Marks(page.next, page.hi)
      BY <1>6, <2>6, <3>3 DEF Marks
    <3> QED  BY <1>2, <1>4, <3>1, <3>2, <3>4
  <2> QED  BY <2>4, <2>5, <2>6
<1>7. CASE shape = "window"
  <2>1. AdvanceWindow
    BY <1>7 DEF Advance
  <2>2. CASE page.size = 0
    BY <1>2, <1>3, <2>1, <2>2 DEF AdvanceWindow, End
  <2>3. CASE page.size # 0
    <3>1. at[page.lo] # p.bound
      <4>1. SUFFICES ASSUME p.bound # 0 PROVE at[page.lo] < p.bound
        BY <1>3, <1>4, <2>3
      <4>2. Before(page.lo, p.bound)
        BY <1>1, <1>4, <2>3, <4>1 DEF Descends
      <4> QED  BY <1>7, <4>2 DEF Before, Walks
    <3>2. p' = [p EXCEPT !.bound = at[page.lo]] /\ pc' = "check" /\ ended' = ended
      BY <2>1, <2>3, <3>1 DEF AdvanceWindow, MoveTo, Stalled
    <3>3. p'.bound = at[page.lo]
      BY <1>3, <1>5, <2>3, <3>2
    <3>4. Marks(at[page.lo], page.hi)
      BY <1>3, <1>7, <2>3 DEF Marks
    <3> QED  BY <1>2, <1>3, <2>3, <3>2, <3>3, <3>4
  <2> QED  BY <2>2, <2>3
<1> QED  BY <1>6, <1>7 DEF Walks

\* A walk goes on from the page it has finished.
LEMMA AdvanceIInv == ASSUME IInv, Advance PROVE IInv'
<1>1. TypeOK /\ pc = "page" /\ UNCHANGED <<world, at, live, page, given>>
  BY DEF IInv, Advance
<1>2. /\ pc' \in {"check", "done"} /\ ended' \in Ends /\ p' \in Query
  <2>1. p \in Query /\ ended \in Ends /\ page.next \in Nat
    BY <1>1, PageFields DEF TypeOK
  <2>2. page.size # 0 => at[page.lo] \in Nat
    <3>1. page = NoPage => page.size = 0
      BY DEF NoPage
    <3> QED  BY <3>1, PageEnds
  <2>3. ASSUME NEW b \in Nat, MoveTo(b)
        PROVE  pc' \in {"check", "done"} /\ ended' \in Ends /\ p' \in Query
    BY <2>1, <2>3 DEF MoveTo, End, Ends, Query
  <2>4. CASE AdvanceCursor
    BY <2>1, <2>3, <2>4 DEF AdvanceCursor, End, Ends
  <2>5. CASE AdvanceWindow
    BY <2>1, <2>2, <2>3, <2>5 DEF AdvanceWindow, End, Ends
  <2>6. CASE AdvanceLimit
    BY <2>1, <2>6 DEF AdvanceLimit, End, Ends
  <2> QED  BY <2>4, <2>5, <2>6 DEF Advance
<1>3. TypeOK'
  BY <1>1, <1>2 DEF TypeOK, world
<1>4. PageFits' /\ (Burst = 1 => Ascending') /\ (Walks' <=> Walks)
  BY <1>1 DEF IInv, PageFits, Ascending, Walks, world
<1>5. Descends'
  BY <1>2 DEF Descends
<1>6. ASSUME Walks PROVE Resumes'
  <2>1. page # NoPage
    BY <1>6, AdvanceWalks
  <2>2. page.hi + 1 = page.lo
    BY <2>1, PageEnds
  <2>3. CASE pc' = "done"
    BY <2>3 DEF Resumes
  <2>4. CASE pc' = "check"
    <3>1. Marks(p'.bound, page.hi)
      BY <1>6, <2>4, AdvanceWalks
    <3> QED  BY <1>1, <2>1, <2>2, <3>1 DEF Resumes, Marks, world
  <2> QED  BY <1>2, <2>3, <2>4
<1> QED  BY <1>3, <1>4, <1>5, <1>6 DEF IInv

\* The strengthening is inductive.
LEMMA NextIInv == ASSUME IInv, [Next]_vars PROVE IInv'
<1>1. ASSUME Cancel \/ Check \/ Fail PROVE IInv'
  <2>1. TypeOK /\ UNCHANGED <<world, at, p, page, given>>
        /\ pc' \in {pc, "call", "done"} /\ (pc' = "call" => pc \in {"check", "call"})
    BY <1>1 DEF IInv, Cancel, Check, Fail, End
  <2>2. TypeOK'
    BY <1>1 DEF IInv, TypeOK, Cancel, Check, Fail, End, Ends, world
  <2>3. Walks => Resumes' /\ Descends'
    BY <2>1 DEF IInv, Resumes, Descends, Marks, Before, world
  <2> QED
    BY <2>1, <2>2, <2>3 DEF IInv, PageFits, Ascending, Walks, world
<1>2. ASSUME Iterate \/ Reject PROVE IInv'
  <2>1. /\ TypeOK /\ UNCHANGED <<world, at, live>> /\ p' = opts /\ page' = NoPage
        /\ given' = 0 /\ pc' \in {"check", "done"} /\ ended' \in Ends
    BY <1>2 DEF IInv, Iterate, Reject, Fresh, End, Ends
  <2>2. Len(at) \in Nat
    BY <2>1 DEF TypeOK
  <2>3. TypeOK'
    BY <2>1, <2>2 DEF TypeOK, world
  <2> QED
    BY <2>1, <2>3 DEF IInv, PageFits, Ascending, Walks, Resumes, Descends, world
<1>3. CASE UNCHANGED vars
  <2>1. IInv
    OBVIOUS
  <2> QED
    BY <1>3, <2>1
    DEF vars, world, IInv, TypeOK, PageFits, Ascending, Walks, Resumes, Descends,
        Marks, Before
<1> QED
  BY <1>1, <1>2, <1>3, CreateIInv, AnswerIInv, YieldIInv, AdvanceIInv DEF Next, Step

\* The strengthening, in every reachable state.
THEOREM Inductive == Safe => []IInv
BY InitIInv, NextIInv, PTL DEF Safe

\* The iterators keep their types, honest or not the server: nothing is yielded
\* that the collection does not hold.
THEOREM Typing == Safe => []TypeOK
<1>1. IInv => TypeOK  BY DEF IInv
<1> QED  BY <1>1, Inductive, PTL

----------------------------------------------------------------------------
(* Every step of an iterator is a step of the listing it promises, or none. *)

\* Nothing is opened at the start.
LEMMA RefineInit == Init => L!Init
<1> SUFFICES ASSUME Init PROVE L!Init
  OBVIOUS
<1>1. IInv /\ opts.bound \in Nat
  BY InitIInv DEF IInv, TypeOK, Query
<1>2. Reach(opts.bound) \in Nat
  <2>1. TypeOK /\ Len(at) \in Nat
    BY <1>1 DEF IInv, TypeOK
  <2>2. Reach(opts.bound) \in 0..Len(at)
    BY <1>1, <2>1, ReachNat
  <2> QED  BY <2>1, <2>2
<1> QED  BY <1>2 DEF Init, NoPage, L!Init, L!Unopened

\* Every step is one of the listing, or none.
LEMMA RefineStep == ASSUME IInv, [Next]_vars PROVE [L!Next]_(L!vars)
<1>1. /\ TypeOK /\ opts.bound \in Nat /\ p.bound \in Nat
      /\ Len(at) \in Nat /\ ended \in Ends
  BY DEF IInv, TypeOK, Query
<1>2. CASE UNCHANGED vars
  BY <1>2 DEF vars, world, L!vars, Walks, Reach, Before
<1>3. ASSUME Next PROVE Walks' = Walks
  BY <1>3 DEF Next, Step, Create, Cancel, Iterate, Reject, Check, Answer, Fail,
              Yield, Advance, world, Walks
<1>untrusted. ASSUME Next, ~Walks PROVE L!Next
  BY <1>untrusted, <1>3 DEF L!Next
<1> SUFFICES ASSUME Next, Walks PROVE [L!Next]_(L!vars)
  BY <1>untrusted, <1>2
<1>4. Resumes /\ Descends /\ (Burst = 1 => Ascending)
  BY DEF IInv
<1>5. UNCHANGED <<world, at>> => Reach(opts.bound)' = Reach(opts.bound)
  BY DEF world, Reach, Before
<1> USE DEF L!Unopened
<1>6. CASE Create
  <2>1. /\ Reach(opts.bound)' \in Nat /\ Reach(opts.bound)' >= Reach(opts.bound)
        /\ opts' = opts
    BY <1>1, <1>6, ReachGrows DEF Create, world
  <2>2. L!Grow
    BY <1>6, <2>1 DEF L!Grow, Create
  <2> QED  BY <1>3, <2>2 DEF L!Next
<1>7. CASE Cancel
  BY <1>3, <1>5, <1>7 DEF Cancel, L!vars
<1>8. CASE Iterate \/ Reject
  <2>1. L!Start
    BY <1>1, <1>5, <1>8 DEF L!Start, Iterate, Reject, End, NoPage, Ends
  <2> QED  BY <1>3, <2>1 DEF L!Next
<1>9. CASE Check
  <2>1. CASE live
    BY <1>3, <1>5, <1>9, <2>1 DEF Check, L!vars
  <2>2. CASE ~live
    <3>1. L!Stop
      BY <1>5, <1>9, <2>2 DEF Check, End, L!Stop
    <3> QED  BY <1>3, <3>1 DEF L!Next
  <2> QED  BY <2>1, <2>2
<1>10. CASE Answer
  <2>1. pc = "call" /\ pc' = "page" /\ page'.hi = Reach(p.bound)
        /\ UNCHANGED <<world, at, given, ended>>
    BY <1>10 DEF Answer
  <2>2. CASE page = NoPage
    <3>1. L!Open
      BY <1>4, <1>5, <2>1, <2>2 DEF Resumes, NoPage, L!Open
    <3> QED  BY <1>3, <3>1 DEF L!Next
  <2>3. CASE page # NoPage
    <3>1. Marks(p.bound, page.hi) /\ page.hi \in 0..Len(at)
      BY <1>1, <1>4, <2>1, <2>3, PageFields DEF Resumes, IInv, PageFits
    <3>2. Reach(p.bound) = page.hi
      BY <1>1, <1>4, <3>1, ReachMarked
    <3> QED  BY <1>3, <1>5, <2>1, <3>2 DEF L!vars
  <2> QED  BY <2>2, <2>3
<1>11. CASE Fail
  <2>1. L!Stop
    BY <1>5, <1>11 DEF Fail, End, L!Stop
  <2> QED  BY <1>3, <2>1 DEF L!Next
<1>12. CASE Yield
  <2>1. page # NoPage /\ page.hi >= page.lo
    BY <1>12 DEF Yield, More, NoPage
  <2>2. page \in [hi : Nat, lo : Nat \ {0}, size : Nat, next : Nat]
    BY <1>1, <2>1 DEF TypeOK
  <2>3. page'.hi = page.hi - 1 /\ page.hi > 0
    BY <1>12, <2>1, <2>2 DEF Yield
  <2>4. L!Yield
    BY <1>5, <1>12, <2>3 DEF Yield, End, L!Yield
  <2> QED  BY <1>3, <2>4 DEF L!Next
<1>13. CASE Advance
  <2>1. pc = "page" /\ UNCHANGED <<world, at, page, given>>
    BY <1>13 DEF Advance
  <2>2. CASE pc' = "done" /\ ended' = "exhausted" /\ page.hi = 0
    <3>1. L!Finish
      BY <1>5, <2>1, <2>2 DEF L!Finish
    <3> QED  BY <1>3, <3>1 DEF L!Next
  <2>3. CASE pc' = "check" /\ ended' = ended
    BY <1>3, <1>5, <2>1, <2>3 DEF L!vars
  <2> QED  BY <1>13, <2>2, <2>3, AdvanceWalks
<1> QED
  BY <1>6, <1>7, <1>8, <1>9, <1>10, <1>11, <1>12, <1>13 DEF Next, Step

\* For collections that grow to any length, pages of any size and any bound the
\* caller starts from: a walk that moves on yields every item once, newest
\* first, and ends without an error only after the oldest.
THEOREM Refinement == Safe => Implements
BY RefineInit, RefineStep, Inductive, PTL DEF Safe, Implements, L!Spec
=============================================================================
