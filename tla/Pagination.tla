----------------------------- MODULE Pagination -----------------------------
(***************************************************************************)
(* The <Method>All iterators that the generator emits for the list         *)
(* operations, in their three shapes: a cursor the server hands out, a     *)
(* time window whose upper end moves to the last item seen, and a bare     *)
(* limit. The collection grows at its young end while it is walked.        *)
(*                                                                         *)
(* Items are numbered as they are created and a page is an interval of     *)
(* numbers, walked downwards. A query bound is a cursor or a time; 0 is    *)
(* the empty token and the zero time, that is none.                        *)
(***************************************************************************)
EXTENDS Integers, Sequences, FiniteSets

CONSTANTS
    Shapes,       \* subset of {"cursor", "window", "limit"}
    Honesty,      \* subset of BOOLEAN: does the server keep to its documents
    Bounds,       \* bounds the caller may set to start from, 0 for none
    Limits,       \* page sizes the caller may set, 0 for none
    DefaultLimit, \* what encode() sends when the caller sets none
    Burst,        \* items that may be created at the same instant
    MaxItems      \* items ever created

ASSUME PaginationAssumption ==
    /\ Shapes \subseteq {"cursor", "window", "limit"}
    /\ Honesty \subseteq BOOLEAN
    /\ Bounds \subseteq Nat /\ Limits \subseteq Nat
    /\ DefaultLimit \in Nat \ {0}
    /\ Burst \in Nat \ {0} /\ MaxItems \in Nat

VARIABLES
    shape,    \* of the iterator
    honest,   \* FALSE: the server repeats a cursor, or includes the bound
    opts,     \* the caller's query parameters
    at,       \* creation time of every item
    live,     \* FALSE once the caller's context is done
    pc,       \* where the iterator is
    p,        \* its own copy of the parameters
    page,     \* what is left of the last page, its size and next cursor
    given,    \* the item yielded last, 0 before the first
    ended     \* how the last iteration ended

vars == <<shape, honest, opts, at, live, pc, p, page, given, ended>>
world == <<shape, honest, opts>>

NoPage == [hi |-> -1, lo |-> 0, size |-> 0, next |-> 0]

Query == [bound : Nat, limit : Limits]
Ends == {"none", "exhausted", "stopped"}

TypeOK ==
    /\ shape \in Shapes /\ honest \in Honesty
    /\ opts \in Query
    /\ at \in Seq(Nat \ {0}) /\ Len(at) <= MaxItems
    /\ live \in BOOLEAN
    /\ pc \in {"idle", "check", "call", "page", "done"}
    /\ p \in Query
    /\ page \in [hi : Nat, lo : Nat \ {0}, size : Nat, next : Nat] \cup {NoPage}
    /\ given \in 0..Len(at)
    /\ ended \in Ends

Init ==
    /\ shape \in Shapes /\ honest \in Honesty
    /\ opts \in [bound : Bounds, limit : Limits]
    /\ at = << >>
    /\ live = TRUE
    /\ pc = "idle"
    /\ p = opts
    /\ page = NoPage
    /\ given = 0
    /\ ended = "none"

End(how) == pc' = "done" /\ ended' = how

----------------------------------------------------------------------------
\* The caller and the server's collection.

\* Somebody creates an item, at a new instant or, in a burst, at the last one.
Create ==
    /\ Len(at) < MaxItems
    /\ \E t \in 1..(MaxItems + 1) :
          /\ \A i \in DOMAIN at : at[i] <= t
          /\ Cardinality({i \in DOMAIN at : at[i] = t}) < Burst
          /\ at' = Append(at, t)
    /\ UNCHANGED <<world, live, pc, p, page, given, ended>>

Cancel ==
    /\ live
    /\ live' = FALSE
    /\ UNCHANGED <<world, at, pc, p, page, given, ended>>

\* Fault: the parameters of the last iteration are used again.
Fresh_Kept == p

\* A copy of the caller's parameters, made anew by every range loop.
Fresh == opts

\* The consumer ranges over the iterator, for the first time or once more.
Iterate ==
    /\ pc \in {"idle", "done"}
    /\ p' = Fresh
    /\ page' = NoPage /\ given' = 0
    /\ pc' = "check" /\ ended' = "none"
    /\ UNCHANGED <<world, at, live>>

\* A path parameter is missing: an error is all the iterator yields.
Reject ==
    /\ pc \in {"idle", "done"}
    /\ p' = Fresh
    /\ page' = NoPage /\ given' = 0
    /\ End("stopped")
    /\ UNCHANGED <<world, at, live>>

----------------------------------------------------------------------------
\* One page.

Check ==
    /\ pc = "check"
    /\ IF live THEN pc' = "call" /\ UNCHANGED ended ELSE End("stopped")
    /\ UNCHANGED <<world, at, live, p, page, given>>

\* Item i lies beyond the bound b. The documents exclude the bound itself.
Before(i, b) ==
    IF shape = "cursor" THEN i < b ELSE at[i] < b \/ (~honest /\ at[i] = b)

\* The youngest item that a query with bound b admits.
Reach(b) ==
    IF b = 0 THEN Len(at)
    ELSE Cardinality({i \in DOMAIN at : Before(i, b)})

\* The page size that goes out.
Sent(q) == IF q.limit = 0 THEN DefaultLimit ELSE q.limit

\* The cursor after a page that ends at lo. After the oldest item there is none,
\* or one that leads to an empty page. A server that is stuck repeats itself.
Cursors(lo) ==
    IF ~honest /\ p.bound # 0 THEN {p.bound}
    ELSE IF lo > 1 THEN {lo} ELSE {0, 1}

\* The server answers with a page, short ones included, but none that is empty
\* while there are items.
Answer ==
    /\ pc = "call"
    /\ \E n \in 0..Sent(p) :
          LET hi == Reach(p.bound)
              lo == hi - n + 1
          IN  /\ n <= hi /\ (hi > 0 => n > 0)
              /\ \E c \in Cursors(lo) :
                    page' = [hi |-> hi, lo |-> lo, size |-> n, next |-> c]
    /\ pc' = "page"
    /\ UNCHANGED <<world, at, live, p, given, ended>>

\* The list operation fails: the iterator yields the error and returns.
Fail ==
    /\ pc = "call"
    /\ End("stopped")
    /\ UNCHANGED <<world, at, live, p, page, given>>

\* Fault: one item past the end of the page.
More_Past == page.hi >= page.lo - 1

More == page.hi >= page.lo

Yield ==
    /\ pc = "page" /\ More
    /\ given' = page.hi
    /\ page' = [page EXCEPT !.hi = @ - 1]
    /\ \/ UNCHANGED <<pc, ended>>
       \/ End("stopped")
    /\ UNCHANGED <<world, at, live, p>>

\* Fault: the bound to go on from is never compared with the last one.
Stalled_Never(b) == FALSE

\* The stall guard: going on from b would repeat the request.
Stalled(b) == b = p.bound

MoveTo(b) ==
    IF Stalled(b)
    THEN End("exhausted") /\ UNCHANGED p
    ELSE p' = [p EXCEPT !.bound = b] /\ pc' = "check" /\ UNCHANGED ended

AdvanceCursor ==
    IF page.next = 0
    THEN End("exhausted") /\ UNCHANGED p
    ELSE MoveTo(page.next)

AdvanceWindow ==
    IF page.size = 0
    THEN End("exhausted") /\ UNCHANGED p
    ELSE MoveTo(at[page.lo])

\* There is nothing to move: the next request is the same. (No operation has a
\* page number, for which the generator would emit an increment.)
AdvanceLimit ==
    /\ IF page.size = 0 \/ p.limit = 0 \/ page.size < p.limit
       THEN End("exhausted") ELSE pc' = "check" /\ UNCHANGED ended
    /\ UNCHANGED p

Advance ==
    /\ pc = "page" /\ ~More
    /\ \/ shape = "cursor" /\ AdvanceCursor
       \/ shape = "window" /\ AdvanceWindow
       \/ shape = "limit" /\ AdvanceLimit
    /\ UNCHANGED <<world, at, live, page, given>>

----------------------------------------------------------------------------

\* What the range loop does by itself, the list operation included.
Step == Check \/ Answer \/ Fail \/ Yield \/ Advance

Next == Create \/ Cancel \/ Iterate \/ Reject \/ Step

Safe == Init /\ [][Next]_vars

\* The loop runs, and every request is answered or fails.
Spec == Safe /\ WF_vars(Step)

----------------------------------------------------------------------------
(***************************************************************************)
(* Properties.                                                             *)
(***************************************************************************)

\* The iterators that move on, walking a server that keeps to its documents. A
\* time window tells items apart by their time only.
Walks == honest /\ (shape = "cursor" \/ (shape = "window" /\ Burst = 1))

L == INSTANCE Listing WITH
        trusted <- Walks,
        ceiling <- Reach(opts.bound),
        left <- page.hi,
        phase <- IF pc = "idle" THEN pc
                 ELSE IF pc = "done" THEN ended ELSE "running"

\* However the collection grows between pages and however short the pages are,
\* an iteration yields every item once, newest first, and ends without an error
\* only after the oldest one; a second iteration starts from the caller's own
\* parameters again.
Implements == L!Spec

\* An iteration ends although the server repeats its cursor or includes the
\* bound, and a cancelled one ends whatever the shape.
IterationEnds ==
    ((shape # "limit" \/ ~live) /\ pc = "check") ~> pc = "done"

\* What the emitted comment says: every page of the collection. A walk over one
\* that has an end comes to it.
EveryPageThenEnd == honest /\ pc = "check" ~> pc = "done"
=============================================================================
