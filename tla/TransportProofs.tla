-------------------------- MODULE TransportProofs --------------------------
(***************************************************************************)
(* Proofs about Transport: for any number of calls, any policy settings,   *)
(* any statuses and hints, what the run of MCTransport checks on one call. *)
(* One named part of the inductive invariant per subject.                  *)
(***************************************************************************)
EXTENDS Transport, TLAPS

----------------------------------------------------------------------------
(* The shipped policy, for any attempt count and any width of a duration.  *)

\* The settings the policy works with are positive, whatever was configured.
LEMMA Effective ==
    /\ Attempts \in Nat \ {0}
    /\ Base \in 1..MaxInt
    /\ Cap \in 1..MaxInt
BY DurationAssumption DEF Attempts, Base, Cap, Or

\* A wrapped product is an integer.
LEMMA WrapInt == ASSUME NEW x \in Int PROVE Wrap(x) \in Int
<1>1. MaxInt \in Nat
  BY DurationAssumption
<1>2. (x + MaxInt + 1) % (2 * (MaxInt + 1)) \in Int
  BY <1>1
<1>3. QED
  BY <1>1, <1>2 DEF Wrap

\* The clamp catches whatever the product wrapped to.
LEMMA ClampRange == ASSUME NEW d \in Int PROVE Clamp(d) \in 1..Cap
BY Effective DEF Clamp

\* However large the power is and however its product with the base delay wraps,
\* backoff() (retry.go) returns a positive delay of at most the cap.
THEOREM BackoffRange ==
    ASSUME NEW power \in Int
    PROVE  BackoffFrom(power) \subseteq 1..Cap
<1>1. ToDuration(power) \subseteq Int
  BY DurationAssumption DEF ToDuration
<1>2. ASSUME NEW p \in ToDuration(power)
      PROVE  Clamp(Wrap(p * Base)) \in 1..Cap
  <2>1. p \in Int /\ Base \in Int
    BY <1>1, <1>2, Effective
  <2>2. p * Base \in Int
    BY <2>1
  <2>3. QED
    BY <2>2, WrapInt, ClampRange
<1>3. QED
  BY <1>2 DEF BackoffFrom

\* After the n'th attempt.
LEMMA DelayRange ==
    ASSUME NEW n \in Nat \ {0}
    PROVE  BackoffDelays(n) \subseteq 1..Cap
<1>1. 2 ^ (n - 1) \in Int
  <2>1. n - 1 \in Nat
    OBVIOUS
  <2>2. \A k \in Nat : 2 ^ k \in Int
    BY SMT
  <2>3. QED
    BY <2>1, <2>2
<1>2. QED
  BY <1>1, BackoffRange DEF BackoffDelays

\* The policy never asks for a retry once the budget of attempts is used up, and
\* asks for one without a delay of its own just when the server gave a hint.
THEOREM PolicyDecides ==
    ASSUME NEW n \in Nat \ {0}, NEW out, NEW method,
           NEW d \in NextDecisions(n, out, method)
    PROVE  /\ d.retry \in BOOLEAN
           /\ d.delay \in 0..Cap
           /\ d.retry => /\ n < Attempts
                         /\ ShouldRetry(out, method)
                         /\ d.delay = 0 <=> HonorRetryAfter /\ out.hint # NoHeader
<1> USE Effective
<1>1. CASE n >= Attempts \/ ~ShouldRetry(out, method)
  <2>1. d = [retry |-> FALSE, delay |-> 0]
    BY <1>1, Zenon DEF NextDecisions
  <2>2. QED
    BY <2>1
<1>2. CASE ~(n >= Attempts \/ ~ShouldRetry(out, method))
  <2>1. CASE HonorRetryAfter /\ out.hint # NoHeader
    <3>1. d = [retry |-> TRUE, delay |-> 0]
      BY <1>2, <2>1, Zenon DEF NextDecisions
    <3>2. d.retry \in BOOLEAN
      BY <3>1
    <3>3. n < Attempts /\ ShouldRetry(out, method)
      BY <1>2
    <3>4. d.delay \in 0..Cap
      BY <3>1
    <3>5. d.delay = 0
      BY <3>1
    <3>6. QED
      BY <2>1, <3>2, <3>3, <3>4, <3>5, Zenon
  <2>2. CASE ~(HonorRetryAfter /\ out.hint # NoHeader)
    <3>1. PICK e \in BackoffDelays(n) : d = [retry |-> TRUE, delay |-> e]
      BY <1>2, <2>2 DEF NextDecisions
    <3>2. e \in 1..Cap
      BY DelayRange
    <3>3. d.retry \in BOOLEAN
      BY <3>1
    <3>4. d.delay \in 0..Cap /\ d.delay # 0
      BY <3>1, <3>2
    <3>5. n < Attempts /\ ShouldRetry(out, method)
      BY <1>2
    <3>6. QED
      BY <2>2, <3>3, <3>4, <3>5, Zenon
  <2>3. QED
    BY <2>1, <2>2
<1>3. QED
  BY <1>1, <1>2

----------------------------------------------------------------------------
(* The retry loop.                                                         *)

\* Every decision the policy may take is a decision.
LEMMA DecisionTypes ==
    ASSUME TypeOK, NEW c \in Calls, NEW d \in Decisions(c)
    PROVE  d.retry \in BOOLEAN /\ d.delay \in Nat
<1>1. CASE policy = "none" \/ policy = "eager"
  <2>1. d \in {[retry |-> FALSE, delay |-> 0], [retry |-> TRUE, delay |-> 0]}
    BY <1>1 DEF Decisions
  <2>2. CASE d = [retry |-> FALSE, delay |-> 0]
    BY <2>2
  <2>3. CASE d = [retry |-> TRUE, delay |-> 0]
    BY <2>3
  <2>4. QED
    BY <2>1, <2>2, <2>3
<1>2. CASE policy # "none" /\ policy # "eager"
  <2>1. attempt[c] + 1 \in Nat \ {0}
    BY DEF TypeOK
  <2>2. d \in NextDecisions(attempt[c] + 1, outcome[c], req[c].method)
    BY <1>2, Zenon DEF Decisions
  <2>3. d.retry \in BOOLEAN /\ d.delay \in 0..Cap
    BY <2>1, <2>2, PolicyDecides, Zenon
  <2>4. QED
    BY <2>3, Effective
<1>3. QED
  BY <1>1, <1>2

\* What a hint asks for is a length of time that a Duration holds, so that the
\* product the code computes is the one it means.
LEMMA HintComputed ==
    ASSUME NEW h \in Hints \cup {NoHeader}
    PROVE  /\ Asked(h) \in Nat
           /\ ParseRetryAfter(h) = Asked(h)
<1>1. Unit \in Nat
  BY TransportAssumption DEF Unit, Or
<1>2. Asked(h) \in Nat
  BY <1>1, TransportAssumption DEF Asked, NoHeader
<1>3. Asked(h) <= MaxInt /\ MaxInt \in Nat
  BY HintsFit, DurationAssumption DEF Asked
<1>4. ASSUME NEW x \in Nat, x <= MaxInt PROVE Wrap(x) = x
  <2>1. (x + MaxInt + 1) % (2 * (MaxInt + 1)) = x + MaxInt + 1
    BY <1>4, DurationAssumption
  <2>2. QED
    BY <2>1, <1>3 DEF Wrap
<1>5. QED
  BY <1>2, <1>3, <1>4 DEF ParseRetryAfter

\* The wait after an attempt is the policy's or, if it leaves it open, the one
\* the server asked for.
LEMMA DelayValue ==
    ASSUME NEW d \in Nat, NEW out \in Outcomes
    PROVE  /\ Delay(d, out) \in Nat
           /\ d > 0 => Delay(d, out) = d
           /\ d = 0 /\ out.kind = "resp" => Delay(d, out) = Asked(out.hint)
<1>1. out.hint \in Hints \cup {NoHeader}
  BY DEF Outcomes
<1>2. Asked(out.hint) \in Nat /\ ParseRetryAfter(out.hint) = Asked(out.hint)
  BY <1>1, HintComputed
<1>3. QED
  BY <1>2 DEF Delay

\* The counter steps by at most one.
LEMMA BumpNat == \A n \in Nat : Bump(n) \in Nat /\ Bump(n) <= n + 1
BY DEF Bump

----------------------------------------------------------------------------

\* The initial states are well typed.
LEMMA TypeInit == Init => TypeOK
BY DEF Init, TypeOK, Locations, Results, Outcomes, Replies, Pending, NoHeader

\* Every step keeps the types.
LEMMA TypeStep == TypeOK /\ [Next]_vars => TypeOK'
<1> SUFFICES ASSUME TypeOK, [Next]_vars PROVE TypeOK'
  OBVIOUS
<1> USE DEF TypeOK, Locations, Results, callVars, wireVars, Goto, Return
<1>1. CASE UNCHANGED vars
  BY <1>1 DEF vars
<1>2. ASSUME NEW c \in Calls, Start(c) \/ Reject(c) PROVE TypeOK'
  BY <1>2 DEF Start, Reject
<1>3. ASSUME NEW c \in Calls, Reuse(c) PROVE TypeOK'
  BY <1>3 DEF Reuse
<1>4. ASSUME NEW c \in Calls, Cancel(c) PROVE TypeOK'
  BY <1>4 DEF Cancel
<1>5. ASSUME NEW c \in Calls, CloseStream(c) PROVE TypeOK'
  BY <1>5 DEF CloseStream
<1>6. ASSUME NEW c \in Calls, ApplyOK(c) \/ ApplyFail(c) PROVE TypeOK'
  BY <1>6 DEF ApplyOK, ApplyFail
<1>7. ASSUME NEW c \in Calls, Send(c) PROVE TypeOK'
  <2>1. Built(c) \in Request
    BY DEF Built, Request, Methods
  <2>2. QED
    BY <1>7, <2>1 DEF Send
<1>8. ASSUME NEW c \in Calls, Receive(c) PROVE TypeOK'
  <2>1. inbox[c] \in Outcomes /\ inbox[c].kind = "resp"
    BY <1>8 DEF Receive, Replies
  <2>2. Asked(inbox[c].hint) \in Nat
    <3>1. inbox[c].hint \in Hints \cup {NoHeader}
      BY <2>1 DEF Outcomes
    <3>2. QED
      BY <3>1, HintComputed
  <2>3. QED
    BY <1>8, <2>1, <2>2 DEF Receive
<1>9. ASSUME NEW c \in Calls, Fail(c) PROVE TypeOK'
  <2>1. Failure \in Outcomes /\ Failure.kind = "err"
    BY DEF Failure, Outcomes, NoHeader
  <2>2. QED
    BY <1>9, <2>1 DEF Fail
<1>10. ASSUME NEW c \in Calls, GiveUp(c) PROVE TypeOK'
  <2>1. outcome[c].kind # "err" => outcome[c].kind = "resp"
    BY <1>10 DEF GiveUp, Outcomes
  <2>2. QED
    BY <1>10, <2>1 DEF GiveUp
<1>11. ASSUME NEW c \in Calls, RetryNow(c) PROVE TypeOK'
  BY <1>11, BumpNat DEF RetryNow, Discarded
<1>12. ASSUME NEW c \in Calls, RetryLater(c) PROVE TypeOK'
  <2>1. timer' \in [Calls -> Nat]
    <3>1. PICK d \in Decisions(c) :
            /\ Delay(d.delay, outcome[c]) > 0
            /\ timer' = [timer EXCEPT ![c] = Delay(d.delay, outcome[c])]
      BY <1>12 DEF RetryLater
    <3>2. Delay(d.delay, outcome[c]) \in Nat
      BY DecisionTypes, DelayValue
    <3>3. QED
      BY <3>1, <3>2
  <2>2. QED
    BY <1>12, <2>1 DEF RetryLater, Discarded
<1>13. ASSUME NEW c \in Calls, Wake(c) PROVE TypeOK'
  BY <1>13, BumpNat DEF Wake
<1>14. ASSUME NEW c \in Calls, CancelSleep(c) PROVE TypeOK'
  BY <1>14 DEF CancelSleep
<1>15. ASSUME NEW c \in Calls, Finish(c) PROVE TypeOK'
  BY <1>15 DEF Finish, ResultsOf
<1>16. ASSUME NEW m \in sent, NEW s \in ReplyStatuses, NEW h \in Hints,
              Serve(m, s, h)
       PROVE  TypeOK'
  <2>1. m.call \in Calls
    BY DEF Request
  <2>2. Reply(s, h) \in Replies
    BY TransportAssumption DEF Reply, Outcomes, Replies
  <2>3. QED
    BY <1>16, <2>1, <2>2 DEF Serve
<1>17. CASE Tick
  BY <1>17 DEF Tick, Elapse, Decrement
<1>18. QED
  BY <1>1, <1>2, <1>3, <1>4, <1>5, <1>6, <1>7, <1>8, <1>9, <1>10, <1>11,
     <1>12, <1>13, <1>14, <1>15, <1>16, <1>17 DEF Next, Environment, Step

\* Every state and every step is well typed.
THEOREM Typing == Safe => []TypeOK
BY TypeInit, TypeStep, PTL DEF Safe

----------------------------------------------------------------------------
(***************************************************************************)
(* The budget of attempts.                                                 *)
(***************************************************************************)

\* The counter stays below the budget, and a call that waits to go round again
\* still has an attempt left.
Budgeted ==
    policy # "eager" =>
        /\ \A c \in Calls :
              /\ attempt[c] < Budget
              /\ pc[c] = "sleep" => attempt[c] + 1 < Budget
        /\ \A m \in sent : m.n < Budget

\* A retry is decided on only while the budget lasts.
LEMMA RetryNeedsBudget ==
    ASSUME TypeOK, policy # "eager", NEW c \in Calls,
           NEW d \in Decisions(c), d.retry
    PROVE  /\ policy # "none"
           /\ attempt[c] + 1 < Budget
           /\ ShouldRetry(outcome[c], req[c].method)
           /\ d.delay = 0 <=> HonorRetryAfter /\ outcome[c].hint # NoHeader
<1>1. policy # "none"
  <2>1. SUFFICES ASSUME policy = "none" PROVE FALSE
    OBVIOUS
  <2>2. d = [retry |-> FALSE, delay |-> 0]
    BY <2>1 DEF Decisions
  <2>3. QED
    BY <2>2
<1>2. d \in NextDecisions(attempt[c] + 1, outcome[c], req[c].method)
  BY <1>1, Zenon DEF Decisions
<1>3. attempt[c] + 1 \in Nat \ {0}
  BY DEF TypeOK
<1>4. /\ attempt[c] + 1 < Attempts
      /\ ShouldRetry(outcome[c], req[c].method)
      /\ d.delay = 0 <=> HonorRetryAfter /\ outcome[c].hint # NoHeader
  BY <1>2, <1>3, PolicyDecides, Zenon
<1>5. Budget = Attempts
  BY <1>1 DEF Budget
<1>6. QED
  BY <1>1, <1>4, <1>5, Zenon

\* Every step keeps to the budget.
LEMMA BudgetedStep == TypeOK /\ Budgeted /\ [Next]_vars => Budgeted'
<1> SUFFICES ASSUME TypeOK, Budgeted, [Next]_vars, policy' # "eager"
             PROVE  Budgeted'
  BY DEF Budgeted
<1>1. policy' = policy
  BY DEF vars, callVars, Next, Environment, Step, Start, Reject, Reuse, Cancel,
     CloseStream, ApplyOK, ApplyFail, Send, Receive, Fail, GiveUp, RetryNow,
     RetryLater, Wake, CancelSleep, Finish, Serve, Tick, Elapse
<1>2. Budget' = Budget /\ Budget \in Nat
  BY <1>1, Effective DEF Budget
<1>3. /\ \A c \in Calls :
            /\ attempt[c] < Budget
            /\ pc[c] = "sleep" => attempt[c] + 1 < Budget
      /\ \A m \in sent : m.n < Budget
  BY <1>1 DEF Budgeted
<1> USE DEF TypeOK, Budgeted, callVars, wireVars, Goto, Return
<1>4. CASE UNCHANGED vars
  BY <1>2, <1>3, <1>4 DEF vars
<1>5. ASSUME NEW c \in Calls,
             \/ Start(c) \/ Reject(c) \/ Reuse(c) \/ Cancel(c) \/ CloseStream(c)
             \/ ApplyOK(c) \/ ApplyFail(c) \/ Receive(c) \/ Fail(c)
             \/ GiveUp(c) \/ CancelSleep(c) \/ Finish(c)
      PROVE  Budgeted'
  <2>1. /\ attempt' = attempt /\ sent' = sent
        /\ \A k \in Calls : pc'[k] = "sleep" => pc[k] = "sleep"
    BY <1>5 DEF Start, Reject, Reuse, Cancel, CloseStream, ApplyOK, ApplyFail,
       Receive, Fail, GiveUp, CancelSleep, Finish
  <2>2. QED
    BY <1>2, <1>3, <2>1
<1>6. ASSUME NEW c \in Calls, Send(c) PROVE Budgeted'
  BY <1>2, <1>3, <1>6 DEF Send, Built
<1>7. ASSUME NEW c \in Calls, RetryNow(c) PROVE Budgeted'
  <2>1. attempt[c] + 1 < Budget
    BY <1>1, <1>7, RetryNeedsBudget DEF RetryNow
  <2>2. Bump(attempt[c]) < Budget
    BY <1>2, <2>1, BumpNat
  <2>3. QED
    BY <1>2, <1>3, <1>7, <2>2 DEF RetryNow
<1>8. ASSUME NEW c \in Calls, RetryLater(c) PROVE Budgeted'
  <2>1. attempt[c] + 1 < Budget
    BY <1>1, <1>8, RetryNeedsBudget DEF RetryLater
  <2>2. QED
    BY <1>2, <1>3, <1>8, <2>1 DEF RetryLater
<1>9. ASSUME NEW c \in Calls, Wake(c) PROVE Budgeted'
  <2>1. Bump(attempt[c]) < Budget
    BY <1>2, <1>3, <1>9, BumpNat DEF Wake
  <2>2. QED
    BY <1>2, <1>3, <1>9, <2>1 DEF Wake
<1>10. ASSUME NEW m \in sent, NEW s \in ReplyStatuses, NEW h \in Hints,
              Serve(m, s, h)
       PROVE  Budgeted'
  BY <1>2, <1>3, <1>10 DEF Serve
<1>11. CASE Tick
  BY <1>2, <1>3, <1>11 DEF Tick, Elapse
<1>12. QED
  BY <1>4, <1>5, <1>6, <1>7, <1>8, <1>9, <1>10, <1>11
  DEF Next, Environment, Step

\* No call is attempted more often than the installed policy's budget allows.
THEOREM Budgets == Safe => []AttemptsWithinBudget
<1>1. Init => Budgeted
  BY Effective DEF Init, Budgeted, Budget
<1>2. TypeOK /\ Budgeted => AttemptsWithinBudget
  BY DEF Budgeted, AttemptsWithinBudget
<1>3. QED
  BY <1>1, <1>2, BudgetedStep, Typing, PTL DEF Safe

----------------------------------------------------------------------------
(***************************************************************************)
(* Where a request on the wire comes from.                                 *)
(***************************************************************************)

\* It was built from the copies made when the call began, at an attempt no later
\* than the present one.
Origin ==
    \A m \in sent :
        /\ pc[m.call] # "idle"
        /\ m.key = copied[m.call]
        /\ m.method = req[m.call].method
        /\ m.n <= attempt[m.call]

\* With an endless policy the counter would stop at its bound, but never fall.
LEMMA OriginStep == TypeOK /\ Origin /\ [Next]_vars => Origin'
<1> SUFFICES ASSUME TypeOK, Origin, [Next]_vars PROVE Origin'
  OBVIOUS
<1> USE DEF TypeOK, Origin, Request, callVars, wireVars, Goto, Return
<1>1. CASE UNCHANGED vars
  BY <1>1 DEF vars
<1>2. ASSUME NEW c \in Calls, Start(c) \/ Reject(c) PROVE Origin'
  BY <1>2 DEF Start, Reject
<1>3. ASSUME NEW c \in Calls,
             \/ Reuse(c) \/ Cancel(c) \/ CloseStream(c)
             \/ ApplyOK(c) \/ ApplyFail(c) \/ Receive(c) \/ Fail(c)
             \/ GiveUp(c) \/ CancelSleep(c) \/ Finish(c) \/ RetryLater(c)
      PROVE  Origin'
  <2>1. /\ attempt' = attempt /\ sent' = sent /\ copied' = copied /\ req' = req
        /\ \A k \in Calls : pc'[k] = "idle" => pc[k] = "idle"
    BY <1>3 DEF Reuse, Cancel, CloseStream, ApplyOK, ApplyFail, Receive,
       Fail, GiveUp, CancelSleep, Finish, RetryLater
  <2>2. QED
    BY <2>1
<1>4. ASSUME NEW c \in Calls, Send(c) PROVE Origin'
  BY <1>4 DEF Send, Built
<1>5. ASSUME NEW c \in Calls, RetryNow(c) \/ Wake(c) PROVE Origin'
  <2>1. \A n \in Nat : Bump(n) \in Nat /\ n <= Bump(n)
    BY DEF Bump
  <2>2. QED
    BY <1>5, <2>1 DEF RetryNow, Wake
<1>6. ASSUME NEW m \in sent, NEW s \in ReplyStatuses, NEW h \in Hints,
             Serve(m, s, h)
      PROVE  Origin'
  BY <1>6 DEF Serve
<1>7. CASE Tick
  BY <1>7 DEF Tick, Elapse
<1>8. QED
  BY <1>1, <1>2, <1>3, <1>4, <1>5, <1>6, <1>7 DEF Next, Environment, Step

\* Every request on the wire has such an origin.
THEOREM Origins == Safe => []Origin
<1>1. Init => Origin
  BY DEF Init, Origin
<1>2. QED
  BY <1>1, OriginStep, Typing, PTL DEF Safe

\* All requests of a call are the same, whatever the caller does to its map.
THEOREM Replay == Safe => []SameRequestReplayed
<1>1. TypeOK /\ Origin => SameRequestReplayed
  BY DEF TypeOK, Request, Origin, SameRequestReplayed
<1>2. QED
  BY <1>1, Origins, Typing, PTL

----------------------------------------------------------------------------
(***************************************************************************)
(* Response bodies.                                                        *)
(***************************************************************************)

\* What the program counter says of the last outcome and its body.
Bodies ==
    \A c \in Calls :
        /\ body[c] = "open" => pc[c] \in {"decide", "read"}
        /\ pc[c] = "decide" => \/ outcome[c].kind = "resp"
                               \/ outcome[c].kind = "err" /\ body[c] = "none"
        /\ pc[c] = "read" => outcome[c].kind = "resp"
        /\ inbox[c] # Pending => inbox[c].kind = "resp" /\ pc[c] = "wire"
        /\ pc[c] # "done" => result[c] = "none"
        /\ body[c] = "caller" => req[c].stream /\ result[c] = "ok"

\* Every step keeps program counter and body in line.
LEMMA BodiesStep == TypeOK /\ Bodies /\ [Next]_vars => Bodies'
<1> SUFFICES ASSUME TypeOK, Bodies, [Next]_vars PROVE Bodies'
  OBVIOUS
<1> USE DEF TypeOK, Bodies, callVars, wireVars, Goto, Return
<1>1. CASE UNCHANGED vars
  BY <1>1 DEF vars
<1>2. ASSUME NEW c \in Calls,
             Start(c) \/ Reject(c) \/ Reuse(c) \/ Cancel(c) \/ CloseStream(c)
      PROVE  Bodies'
  BY <1>2 DEF Start, Reject, Reuse, Cancel, CloseStream
<1>3. ASSUME NEW c \in Calls, ApplyOK(c) \/ ApplyFail(c) PROVE Bodies'
  BY <1>3 DEF ApplyOK, ApplyFail
<1>4. ASSUME NEW c \in Calls, Send(c) PROVE Bodies'
  BY <1>4 DEF Send
<1>5. ASSUME NEW c \in Calls, Receive(c) PROVE Bodies'
  BY <1>5 DEF Receive
<1>6. ASSUME NEW c \in Calls, Fail(c) PROVE Bodies'
  BY <1>6 DEF Fail, Failure
<1>7. ASSUME NEW c \in Calls, GiveUp(c) PROVE Bodies'
  BY <1>7 DEF GiveUp
<1>8. ASSUME NEW c \in Calls, RetryNow(c) PROVE Bodies'
  BY <1>8 DEF RetryNow, Discarded
<1>9. ASSUME NEW c \in Calls, RetryLater(c) PROVE Bodies'
  BY <1>9 DEF RetryLater, Discarded
<1>10. ASSUME NEW c \in Calls, Wake(c) \/ CancelSleep(c) PROVE Bodies'
  BY <1>10 DEF Wake, CancelSleep
<1>11. ASSUME NEW c \in Calls, Finish(c) PROVE Bodies'
  BY <1>11 DEF Finish
<1>12. ASSUME NEW m \in sent, NEW s \in ReplyStatuses, NEW h \in Hints,
              Serve(m, s, h)
       PROVE  Bodies'
  BY <1>12 DEF Serve, Reply, Request
<1>13. CASE Tick
  BY <1>13 DEF Tick, Elapse
<1>14. QED
  BY <1>1, <1>2, <1>3, <1>4, <1>5, <1>6, <1>7, <1>8, <1>9, <1>10, <1>11, <1>12,
     <1>13 DEF Next, Environment, Step

\* The program counter always tells what became of the body.
THEOREM BodiesHold == Safe => []Bodies
<1>1. Init => Bodies
  BY DEF Init, Bodies
<1>2. QED
  BY <1>1, BodiesStep, Typing, PTL DEF Safe

\* No path out of an attempt leaves a response body open behind it.
THEOREM NoLeak == Safe => []NoLeakedBody
<1>1. Bodies => NoLeakedBody
  BY DEF Bodies, NoLeakedBody
<1>2. QED
  BY <1>1, BodiesHold, PTL

----------------------------------------------------------------------------
(***************************************************************************)
(* Replies and what the server did for them.                               *)
(***************************************************************************)

\* The server processed the attempt that the call is at.
Answered(c) == \E m \in applied : m.call = c /\ m.n = attempt[c]

\* The client knows of a success exactly when the server said so.
Acknowledged(c) == Success(outcome[c].status) => won[c] = attempt[c] + 1

Answers ==
    \A c \in Calls :
        /\ inbox[c] # Pending => Answered(c)
        /\ pc[c] \in {"decide", "read"} /\ outcome[c].kind = "resp"
              => Answered(c) /\ Acknowledged(c)
        /\ result[c] \in {"ok", "read"}
              => Answered(c) /\ Acknowledged(c) /\ Success(outcome[c].status)
        /\ result[c] = "api"
              => outcome[c].kind = "resp" /\ ~Success(outcome[c].status)

\* Every step keeps replies tied to the attempts they answer.
LEMMA AnswersStep ==
    TypeOK /\ Bodies /\ Answers /\ [Next]_vars => Answers'
<1> SUFFICES ASSUME TypeOK, Bodies, Answers, [Next]_vars PROVE Answers'
  OBVIOUS
<1> USE DEF TypeOK, Bodies, Answers, Answered, Acknowledged, callVars, wireVars,
        Goto, Return
<1>1. CASE UNCHANGED vars
  BY <1>1 DEF vars
<1>2. ASSUME NEW c \in Calls,
             Start(c) \/ Reject(c) \/ Reuse(c) \/ Cancel(c) \/ CloseStream(c)
      PROVE  Answers'
  BY <1>2 DEF Start, Reject, Reuse, Cancel, CloseStream
<1>3. ASSUME NEW c \in Calls, ApplyOK(c) \/ ApplyFail(c) PROVE Answers'
  BY <1>3 DEF ApplyOK, ApplyFail
<1>4. ASSUME NEW c \in Calls, Send(c) PROVE Answers'
  BY <1>4 DEF Send
<1>5. ASSUME NEW c \in Calls, Receive(c) PROVE Answers'
  BY <1>5 DEF Receive
<1>6. ASSUME NEW c \in Calls, Fail(c) PROVE Answers'
  BY <1>6 DEF Fail, Failure
<1>7. ASSUME NEW c \in Calls, GiveUp(c) PROVE Answers'
  BY <1>7 DEF GiveUp
<1>8. ASSUME NEW c \in Calls, RetryNow(c) PROVE Answers'
  BY <1>8 DEF RetryNow
<1>9. ASSUME NEW c \in Calls, RetryLater(c) PROVE Answers'
  BY <1>9 DEF RetryLater
<1>10. ASSUME NEW c \in Calls, Wake(c) \/ CancelSleep(c) PROVE Answers'
  BY <1>10 DEF Wake, CancelSleep
<1>11. ASSUME NEW c \in Calls, Finish(c) PROVE Answers'
  BY <1>11 DEF Finish, ResultsOf
<1>12. ASSUME NEW m \in sent, NEW s \in ReplyStatuses, NEW h \in Hints,
              Serve(m, s, h)
       PROVE  Answers'
  BY <1>12 DEF Serve, Reply, Request
<1>13. CASE Tick
  BY <1>13 DEF Tick, Elapse
<1>14. QED
  BY <1>1, <1>2, <1>3, <1>4, <1>5, <1>6, <1>7, <1>8, <1>9, <1>10, <1>11, <1>12,
     <1>13 DEF Next, Environment, Step

\* A reply the client acts on is the server's answer to the present attempt.
THEOREM AnswersHold == Safe => []Answers
<1>1. Init => Answers
  BY DEF Init, Answers
<1>2. QED
  BY <1>1, AnswersStep, BodiesHold, Typing, PTL DEF Safe

\* A call reports a success only for work the server did and acknowledged, and
\* an APIError only for a reply that says so.
THEOREM ResultsMatch == Safe => []ResultMatchesWire
<1>1. TypeOK /\ Answers => ResultMatchesWire
  BY DEF TypeOK, Request, Answers, Answered, Acknowledged, ResultMatchesWire
<1>2. QED
  BY <1>1, AnswersHold, Typing, PTL

----------------------------------------------------------------------------
(***************************************************************************)
(* The end of a call that was answered.                                    *)
(***************************************************************************)

\* The acknowledged attempt is the last one.
Final ==
    policy # "eager" =>
        \A c \in Calls : won[c] # 0 =>
            /\ won[c] = attempt[c] + 1
            /\ pc[c] \in {"decide", "read", "done"}
            /\ outcome[c].kind = "resp" /\ Success(outcome[c].status)

\* Success is not retried: no status set may list one.
LEMMA SuccessNotRetried ==
    ASSUME TypeOK, policy # "eager", NEW c \in Calls,
           outcome[c].kind = "resp", Success(outcome[c].status),
           NEW d \in Decisions(c)
    PROVE  ~d.retry
<1>1. ~ShouldRetry(outcome[c], req[c].method)
  BY FailuresOnly DEF ShouldRetry
<1>2. QED
  BY <1>1, RetryNeedsBudget

\* No step goes past an acknowledged attempt.
LEMMA FinalStep == TypeOK /\ Bodies /\ Final /\ [Next]_vars => Final'
<1> SUFFICES ASSUME TypeOK, Bodies, Final, [Next]_vars, policy' # "eager"
             PROVE  Final'
  BY DEF Final
<1>1. policy # "eager"
  BY DEF vars, callVars, Next, Environment, Step, Start, Reject, Reuse, Cancel,
     CloseStream, ApplyOK, ApplyFail, Send, Receive, Fail, GiveUp, RetryNow,
     RetryLater, Wake, CancelSleep, Finish, Serve, Tick, Elapse
<1> USE <1>1 DEF TypeOK, Final, callVars, wireVars, Goto, Return
<1>2. CASE UNCHANGED vars
  BY <1>2 DEF vars
<1>3. ASSUME NEW c \in Calls,
             \/ Start(c) \/ Reject(c) \/ Reuse(c) \/ Cancel(c) \/ CloseStream(c)
             \/ ApplyOK(c) \/ ApplyFail(c) \/ Send(c)
      PROVE  Final'
  BY <1>3 DEF Start, Reject, Reuse, Cancel, CloseStream, ApplyOK, ApplyFail,
     Send
<1>4. ASSUME NEW c \in Calls, Receive(c) PROVE Final'
  <2>1. inbox[c].kind = "resp"
    BY <1>4 DEF Receive, Bodies
  <2>2. QED
    BY <1>4, <2>1 DEF Receive
<1>5. ASSUME NEW c \in Calls, Fail(c) PROVE Final'
  BY <1>5 DEF Fail
<1>6. ASSUME NEW c \in Calls, GiveUp(c) PROVE Final'
  BY <1>6 DEF GiveUp
<1>7. ASSUME NEW c \in Calls, RetryNow(c) \/ RetryLater(c) PROVE Final'
  <2>1. won[c] = 0
    BY <1>7, SuccessNotRetried DEF RetryNow, RetryLater
  <2>2. QED
    BY <1>7, <2>1 DEF RetryNow, RetryLater
<1>8. ASSUME NEW c \in Calls, Wake(c) \/ CancelSleep(c) PROVE Final'
  BY <1>8 DEF Wake, CancelSleep
<1>9. ASSUME NEW c \in Calls, Finish(c) PROVE Final'
  BY <1>9 DEF Finish
<1>10. ASSUME NEW m \in sent, NEW s \in ReplyStatuses, NEW h \in Hints,
              Serve(m, s, h)
       PROVE  Final'
  BY <1>10 DEF Serve
<1>11. CASE Tick
  BY <1>11 DEF Tick, Elapse
<1>12. QED
  BY <1>2, <1>3, <1>4, <1>5, <1>6, <1>7, <1>8, <1>9, <1>10, <1>11
  DEF Next, Environment, Step

\* A call whose success the client has seen sends nothing more.
THEOREM Finality == Safe => []SuccessIsFinal
<1>1. Init => Final
  BY DEF Init, Final
<1>2. TypeOK /\ Origin /\ Final => SuccessIsFinal
  BY DEF TypeOK, Request, Origin, Final, SuccessIsFinal
<1>3. QED
  BY <1>1, <1>2, FinalStep, BodiesHold, Origins, Typing, PTL DEF Safe

----------------------------------------------------------------------------
(***************************************************************************)
(* Waits.                                                                  *)
(***************************************************************************)

\* What is left of the time the server asked for is covered by the timer, or by
\* the hint that will set it.
Waits ==
    HonorRetryAfter =>
        \A c \in Calls :
            /\ pc[c] \in {"idle", "build", "send", "wire"} => quiet[c] = 0
            /\ pc[c] = "sleep" => quiet[c] <= timer[c]
            /\ pc[c] = "decide" =>
                 \/ quiet[c] = 0
                 \/ /\ outcome[c].kind = "resp"
                    /\ quiet[c] <= Asked(outcome[c].hint)

\* A retry waits at least as long as the server still asks for.
LEMMA DelayCoversQuiet ==
    ASSUME TypeOK, Waits, HonorRetryAfter,
           NEW c \in Calls, pc[c] = "decide",
           NEW d \in Decisions(c), d.retry
    PROVE  quiet[c] <= Delay(d.delay, outcome[c])
<1>1. d.delay \in Nat /\ outcome[c] \in Outcomes /\ quiet[c] \in Nat
  BY DecisionTypes DEF TypeOK
<1>2. Delay(d.delay, outcome[c]) \in Nat
  BY <1>1, DelayValue
<1>3. \/ quiet[c] = 0
      \/ outcome[c].kind = "resp" /\ quiet[c] <= Asked(outcome[c].hint)
  BY DEF Waits
<1>4. CASE quiet[c] = 0
  BY <1>2, <1>4
<1>5. CASE /\ outcome[c].kind = "resp"
           /\ quiet[c] <= Asked(outcome[c].hint)
  <2>1. CASE d.delay = 0
    BY <1>1, <1>5, <2>1, DelayValue
  <2>2. CASE d.delay # 0
    <3>1. policy # "eager"
      <4>1. SUFFICES ASSUME policy = "eager" PROVE FALSE
        OBVIOUS
      <4>2. d = [retry |-> TRUE, delay |-> 0]
        BY <4>1 DEF Decisions
      <4>3. QED
        BY <4>2, <2>2
    <3>2. outcome[c].hint = NoHeader
      BY <3>1, <2>2, RetryNeedsBudget, Zenon
    <3>3. Asked(outcome[c].hint) = 0
      BY <3>2 DEF Asked
    <3>4. QED
      BY <1>1, <1>2, <1>5, <3>3
  <2>3. QED
    BY <2>1, <2>2
<1>6. QED
  BY <1>3, <1>4, <1>5

\* Every step keeps the server's wait covered.
LEMMA WaitsStep == TypeOK /\ Bodies /\ Waits /\ [Next]_vars => Waits'
<1> SUFFICES ASSUME TypeOK, Bodies, Waits, [Next]_vars, HonorRetryAfter
             PROVE  Waits'
  BY DEF Waits
<1> USE DEF TypeOK, Waits, callVars, wireVars, Goto, Return
<1>1. CASE UNCHANGED vars
  BY <1>1 DEF vars
<1>2. ASSUME NEW c \in Calls,
             Start(c) \/ Reject(c) \/ Reuse(c) \/ Cancel(c) \/ CloseStream(c)
      PROVE  Waits'
  BY <1>2 DEF Start, Reject, Reuse, Cancel, CloseStream
<1>3. ASSUME NEW c \in Calls,
             ApplyOK(c) \/ ApplyFail(c) \/ Send(c) \/ GiveUp(c)
      PROVE  Waits'
  BY <1>3 DEF ApplyOK, ApplyFail, Send, GiveUp
<1>4. ASSUME NEW c \in Calls, Receive(c) PROVE Waits'
  <2>1. inbox[c].kind = "resp"
    BY <1>4 DEF Receive, Bodies
  <2>2. inbox[c].hint \in Hints \cup {NoHeader}
    BY <1>4 DEF Receive, Replies, Outcomes
  <2>3. Asked(inbox[c].hint) \in Nat
    BY <2>2, HintComputed
  <2>4. QED
    BY <1>4, <2>1, <2>3 DEF Receive
<1>5. ASSUME NEW c \in Calls, Fail(c) PROVE Waits'
  BY <1>5 DEF Fail
<1>6. ASSUME NEW c \in Calls, RetryNow(c) PROVE Waits'
  <2>1. PICK d \in Decisions(c) : d.retry /\ Delay(d.delay, outcome[c]) <= 0
    BY <1>6 DEF RetryNow
  <2>2. quiet[c] <= Delay(d.delay, outcome[c])
    BY <1>6, <2>1, DelayCoversQuiet DEF RetryNow
  <2>3. Delay(d.delay, outcome[c]) \in Nat
    BY <2>1, DecisionTypes, DelayValue
  <2>4. quiet[c] = 0
    BY <2>1, <2>2, <2>3
  <2>5. QED
    BY <1>6, <2>4 DEF RetryNow
<1>7. ASSUME NEW c \in Calls, RetryLater(c) PROVE Waits'
  <2>1. PICK d \in Decisions(c) :
          /\ d.retry
          /\ timer' = [timer EXCEPT ![c] = Delay(d.delay, outcome[c])]
    BY <1>7 DEF RetryLater
  <2>2. quiet[c] <= Delay(d.delay, outcome[c])
    BY <1>7, <2>1, DelayCoversQuiet DEF RetryLater
  <2>3. QED
    BY <1>7, <2>1, <2>2 DEF RetryLater
<1>8. ASSUME NEW c \in Calls, Wake(c) \/ CancelSleep(c) PROVE Waits'
  BY <1>8 DEF Wake, CancelSleep
<1>9. ASSUME NEW c \in Calls, Finish(c) PROVE Waits'
  BY <1>9 DEF Finish
<1>10. ASSUME NEW m \in sent, NEW s \in ReplyStatuses, NEW h \in Hints,
              Serve(m, s, h)
       PROVE  Waits'
  BY <1>10 DEF Serve
<1>11. CASE Tick
  <2>1. ASSUME NEW c \in Calls
        PROVE  Asked(outcome[c].hint) \in Nat
    <3>1. outcome[c].hint \in Hints \cup {NoHeader}
      BY DEF Outcomes
    <3>2. QED
      BY <3>1, HintComputed
  <2>2. QED
    BY <1>11, <2>1 DEF Tick, Elapse, Decrement
<1>12. QED
  BY <1>1, <1>2, <1>3, <1>4, <1>5, <1>6, <1>7, <1>8, <1>9, <1>10, <1>11
  DEF Next, Environment, Step

\* While a Retry-After wait lasts, nothing is built and nothing is sent.
THEOREM QuietPeriods == Safe => []QuietPeriodHonoured
<1>1. Init => Waits
  BY DEF Init, Waits
<1>2. TypeOK /\ Waits => QuietPeriodHonoured
  BY DEF TypeOK, Waits, QuietPeriodHonoured
<1>3. QED
  BY <1>1, <1>2, WaitsStep, BodiesHold, Typing, PTL DEF Safe

----------------------------------------------------------------------------
(***************************************************************************)
(* What a step may never do.                                               *)
(***************************************************************************)

\* Whatever the counter and the settings, an attempt that no Retry-After header
\* brought forward comes after a wait.
THEOREM RetriesWait == Safe => NoHotRetry
<1>1. ASSUME TypeOK, [Next]_vars, policy # "eager",
             NEW c \in Calls, pc[c] = "decide", pc'[c] = "build"
      PROVE  outcome[c].hint # NoHeader
  <2>1. RetryNow(c)
    <3> USE <1>1 DEF TypeOK, callVars, wireVars, Goto, Return
    <3>1. ASSUME NEW k \in Calls,
                 \/ Start(k) \/ Reject(k) \/ Reuse(k) \/ Cancel(k)
                 \/ CloseStream(k) \/ ApplyOK(k) \/ ApplyFail(k)
          PROVE  FALSE
      BY <3>1 DEF Start, Reject, Reuse, Cancel, CloseStream, ApplyOK, ApplyFail
    <3>2. ASSUME NEW k \in Calls,
                 \/ Send(k) \/ Receive(k) \/ Fail(k) \/ GiveUp(k)
                 \/ RetryLater(k) \/ Wake(k) \/ CancelSleep(k) \/ Finish(k)
          PROVE  FALSE
      BY <3>2 DEF Send, Receive, Fail, GiveUp, RetryLater, Wake, CancelSleep,
         Finish
    <3>3. ASSUME NEW k \in Calls, RetryNow(k) PROVE k = c
      BY <3>3 DEF RetryNow
    <3>4. ASSUME pc' = pc PROVE FALSE
      BY <3>4
    <3>5. QED
      BY <3>1, <3>2, <3>3, <3>4
      DEF vars, Next, Environment, Step, Serve, Tick, Elapse
  <2>2. PICK d \in Decisions(c) : d.retry /\ Delay(d.delay, outcome[c]) <= 0
    BY <2>1 DEF RetryNow
  <2>3. d.delay \in Nat /\ outcome[c] \in Outcomes
    BY <1>1, <2>2, DecisionTypes DEF TypeOK
  <2>4. d.delay = 0
    BY <2>2, <2>3, DelayValue
  <2>5. QED
    BY <1>1, <2>2, <2>4, RetryNeedsBudget
<1>2. TypeOK /\ [Next]_vars =>
        [policy # "eager" =>
           \A c \in Calls : pc[c] = "decide" /\ pc'[c] = "build"
                              => outcome[c].hint # NoHeader]_vars
  BY <1>1
<1>3. QED
  BY <1>2, Typing, PTL DEF Safe, NoHotRetry
=============================================================================
