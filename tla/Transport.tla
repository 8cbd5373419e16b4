----------------------------- MODULE Transport -----------------------------
(***************************************************************************)
(* One client's HTTP transport (internal/transport/transport.go): calls    *)
(* made concurrently by the program, each running dispatch's loop of       *)
(* build, send, ask the policy, close, wait, and build again.              *)
(*                                                                         *)
(* Around it stand the parts the code only calls: the caller, which may    *)
(* cancel its context and reuse its header map at any moment; the network  *)
(* and the API server, which may process a request long after the client   *)
(* has given up on it; the Authenticator; and the passage of time.         *)
(*                                                                         *)
(* Timers count down, so a behaviour has no horizon.                       *)
(***************************************************************************)
EXTENDS Backoff, FiniteSets

CONSTANTS
    Calls,         \* the calls the program makes, one goroutine each
    Shapes,        \* [method, stream] of the calls: DoRawStream or the others
    Keys,          \* values of the caller's idempotency-key header
    ReplyStatuses, \* statuses the server answers with
    Hints,         \* integers the server puts in Retry-After, or NoHeader
    Policies,      \* subset of {"none", "backoff", "eager"}
    RetryAfterUnit,\* Config.RetryAfterUnit, 0 means unset
    DefaultUnit,   \* one second
    AttemptBound   \* where the attempt counter of an endless policy stops

\* The wait a Retry-After header asks for. A value that does not parse, or a date
\* that has passed, is the hint 0.
Unit == Or(RetryAfterUnit, DefaultUnit)
Asked(hint) == IF hint = NoHeader THEN 0 ELSE hint * Unit

ASSUME TransportAssumption ==
    /\ ReplyStatuses \subseteq Nat
    /\ Hints \subseteq Nat \cup {NoHeader}
    /\ \A s \in Shapes : DOMAIN s = {"method", "stream"} /\ s.stream \in BOOLEAN
    /\ Policies \subseteq {"none", "backoff", "eager"}
    /\ RetryAfterUnit \in Nat /\ DefaultUnit \in Nat \ {0}
    /\ AttemptBound \in Nat /\ AttemptBound >= Attempts

\* A status set that lists a success as worth retrying asks for trouble.
ASSUME FailuresOnly == \A s \in Statuses : ~Success(s)

\* No header value is so large that its product with the unit overflows.
ASSUME HintsFit == \A h \in Hints : Asked(h) <= MaxInt

Methods == {s.method : s \in Shapes}

VARIABLES
    policy,   \* the installed RetryPolicy
    pc,       \* where each call is
    req,      \* the arguments of each call: method, whether it streams
    header,   \* the caller's header map, as the caller sees it now
    copied,   \* headersCopy and bodyBytes: the transport's own copy
    live,     \* FALSE once the call's context is done
    attempt,  \* the loop counter of dispatch
    outcome,  \* what the last attempt returned
    body,     \* the last response body: "none", "open", "closed", "caller"
    timer,    \* what is left of the inter-attempt wait
    result,   \* what the call returned
    sent,     \* every request put on the wire
    applied,  \* those the server has processed
    inbox,    \* the reply on its way to each call
    quiet,    \* how long the last reply still asks each call to stay away
    won       \* 1 + the attempt that a 2xx answered, or 0

callVars == <<policy, req, header, copied>>
wireVars == <<sent, applied, inbox>>
vars == <<policy, pc, req, header, copied, live, attempt, outcome, body,
          timer, result, sent, applied, inbox, quiet, won>>

Locations == {"idle", "build", "send", "wire", "decide", "sleep", "read",
              "done"}
Results == {"none", "ok", "api", "transport", "ctx", "auth", "read", "encode"}
Outcomes == [kind : {"none", "resp", "err"}, status : Nat,
             hint : Hints \cup {NoHeader}]
Replies == {out \in Outcomes : out.kind = "resp"}
Request == [call : Calls, n : Nat, method : Methods, key : Keys]

\* An outcome is looked at only where there is one, and its response only where
\* there is one: resp is nil beside an error.
TypeOK ==
    /\ policy \in Policies
    /\ pc \in [Calls -> Locations]
    /\ req \in [Calls -> Shapes]
    /\ header \in [Calls -> Keys]
    /\ copied \in [Calls -> Keys]
    /\ live \in [Calls -> BOOLEAN]
    /\ attempt \in [Calls -> Nat]
    /\ outcome \in [Calls -> Outcomes]
    /\ \A c \in Calls : pc[c] = "decide" => outcome[c].kind # "none"
    /\ \A c \in Calls : pc[c] = "read" => outcome[c].kind = "resp"
    /\ body \in [Calls -> {"none", "open", "closed", "caller"}]
    /\ timer \in [Calls -> Nat]
    /\ result \in [Calls -> Results]
    /\ sent \subseteq Request
    /\ applied \subseteq sent
    /\ inbox \in [Calls -> Replies \cup {Pending}]
    /\ quiet \in [Calls -> Nat]
    /\ won \in [Calls -> Nat]

Init ==
    /\ policy \in Policies
    /\ pc = [c \in Calls |-> "idle"]
    /\ req \in [Calls -> Shapes]
    /\ header \in [Calls -> Keys]
    /\ copied = header
    /\ live = [c \in Calls |-> TRUE]
    /\ attempt = [c \in Calls |-> 0]
    /\ outcome = [c \in Calls |-> Pending]
    /\ body = [c \in Calls |-> "none"]
    /\ timer = [c \in Calls |-> 0]
    /\ result = [c \in Calls |-> "none"]
    /\ sent = {} /\ applied = {}
    /\ inbox = [c \in Calls |-> Pending]
    /\ quiet = [c \in Calls |-> 0]
    /\ won = [c \in Calls |-> 0]

Goto(c, loc) == pc' = [pc EXCEPT ![c] = loc]
Return(c, r) == Goto(c, "done") /\ result' = [result EXCEPT ![c] = r]

----------------------------------------------------------------------------
\* The caller.

\* Do, DoRaw or DoRawStream is entered: the body is encoded and the headers are
\* copied once, before the first attempt.
Start(c) ==
    /\ pc[c] = "idle"
    /\ copied' = [copied EXCEPT ![c] = header[c]]
    /\ Goto(c, "build")
    /\ UNCHANGED <<policy, req, header, live, attempt, outcome, body, timer,
                   result, wireVars, quiet, won>>

\* The body cannot be encoded or read: the call ends before its first attempt.
Reject(c) ==
    /\ pc[c] = "idle"
    /\ Return(c, "encode")
    /\ UNCHANGED <<callVars, live, attempt, outcome, body, timer, wireVars,
                   quiet, won>>

\* The caller reuses its header map for something else.
Reuse(c) ==
    /\ \E k \in Keys : k # header[c] /\ header' = [header EXCEPT ![c] = k]
    /\ UNCHANGED <<policy, pc, req, copied, live, attempt, outcome, body,
                   timer, result, wireVars, quiet, won>>

\* The call's context is cancelled or passes its deadline.
Cancel(c) ==
    /\ live[c]
    /\ live' = [live EXCEPT ![c] = FALSE]
    /\ UNCHANGED <<callVars, pc, attempt, outcome, body, timer, result,
                   wireVars, quiet, won>>

\* The caller closes the stream it was given.
CloseStream(c) ==
    /\ body[c] = "caller"
    /\ body' = [body EXCEPT ![c] = "closed"]
    /\ UNCHANGED <<callVars, pc, live, attempt, outcome, timer, result,
                   wireVars, quiet, won>>

----------------------------------------------------------------------------
\* dispatch: build() rebuilds the request, which applies the credentials anew.

ApplyOK(c) ==
    /\ pc[c] = "build"
    /\ Goto(c, "send")
    /\ UNCHANGED <<callVars, live, attempt, outcome, body, timer, result,
                   wireVars, quiet, won>>

\* A failing Authenticator ends the call: the policy is not asked.
ApplyFail(c) ==
    /\ pc[c] = "build"
    /\ Return(c, "auth")
    /\ UNCHANGED <<callVars, live, attempt, outcome, body, timer, wireVars,
                   quiet, won>>

\* Fault: the headers are read from the caller's map on every attempt.
Built_LiveHeader(c) == [call |-> c, n |-> attempt[c],
                        method |-> req[c].method, key |-> header[c]]

\* The request that attempt number attempt[c] puts on the wire.
Built(c) == [call |-> c, n |-> attempt[c], method |-> req[c].method,
             key |-> copied[c]]

\* Every rebuilt request carries the caller's context: the HTTP client sends
\* nothing once that is done.
Send(c) ==
    /\ pc[c] = "send" /\ live[c]
    /\ sent' = sent \cup {Built(c)}
    /\ inbox' = [inbox EXCEPT ![c] = Pending]
    /\ Goto(c, "wire")
    /\ UNCHANGED <<callVars, live, attempt, outcome, body, timer, result,
                   applied, quiet, won>>

Receive(c) ==
    /\ pc[c] = "wire" /\ inbox[c] # Pending
    /\ outcome' = [outcome EXCEPT ![c] = inbox[c]]
    /\ inbox' = [inbox EXCEPT ![c] = Pending]
    /\ body' = [body EXCEPT ![c] = "open"]
    /\ won' = [won EXCEPT ![c] =
                  IF Success(inbox[c].status) THEN attempt[c] + 1 ELSE @]
    /\ quiet' = [quiet EXCEPT ![c] = Asked(inbox[c].hint)]
    /\ Goto(c, "decide")
    /\ UNCHANGED <<callVars, live, attempt, timer, result, sent, applied>>

\* A refused or dropped connection, the client's timeout, or a context that was
\* done before or while the request was out. Whatever was sent is not recalled.
Fail(c) ==
    /\ \/ pc[c] = "wire"
       \/ pc[c] = "send"
    /\ outcome' = [outcome EXCEPT ![c] = Failure]
    /\ inbox' = [inbox EXCEPT ![c] = Pending]
    /\ body' = [body EXCEPT ![c] = "none"]
    /\ Goto(c, "decide")
    /\ UNCHANGED <<callVars, live, attempt, timer, result, sent, applied,
                   quiet, won>>

\* RetryPolicy.Next(attempt+1, resp, err) of the installed policy.
Decisions(c) ==
    CASE policy = "none" -> {[retry |-> FALSE, delay |-> 0]}
      [] policy = "eager" -> {[retry |-> TRUE, delay |-> 0]}
      [] OTHER -> NextDecisions(attempt[c] + 1, outcome[c], req[c].method)

\* Fault: doJSON goes on to the response after dispatch returned an error.
GiveUp_ReadsOn(c) ==
    /\ pc[c] = "decide"
    /\ \E d \in Decisions(c) : ~d.retry
    /\ Goto(c, "read")
    /\ UNCHANGED <<callVars, live, attempt, outcome, body, timer, result, wireVars,
                   quiet, won>>

\* The policy declines: dispatch returns the outcome. An error goes straight to
\* the caller; a reply is left open for whoever reads it.
GiveUp(c) ==
    /\ pc[c] = "decide"
    /\ \E d \in Decisions(c) : ~d.retry
    /\ IF outcome[c].kind = "err"
       THEN Return(c, "transport")
       ELSE Goto(c, "read") /\ UNCHANGED result
    /\ UNCHANGED <<callVars, live, attempt, outcome, body, timer, wireVars,
                   quiet, won>>

\* The same, as the transport computes it: the product wraps.
ParseRetryAfter(hint) == Wrap(Asked(hint))

\* Fault: only the policy's own delay counts.
Delay_PolicyOnly(d, out) == d

\* The policy's own delay, or the server's hint when the policy leaves it open.
Delay(d, out) ==
    IF /\ out.kind = "resp"
       /\ d = 0
       /\ ParseRetryAfter(out.hint) > 0
    THEN ParseRetryAfter(out.hint) ELSE d

\* Fault: the response of a retried attempt is dropped unread.
Discarded_Dropped(c) == body[c]

\* The previous response is drained and closed before the next attempt.
Discarded(c) == IF outcome[c].kind = "resp" THEN "closed" ELSE body[c]

\* Fault: the counter is set back on every round.
Bump_Never(n) == n

Bump(n) == IF n < AttemptBound THEN n + 1 ELSE n

\* No delay: the loop goes round at once, without a look at the context.
RetryNow(c) ==
    /\ pc[c] = "decide"
    /\ \E d \in Decisions(c) : d.retry /\ Delay(d.delay, outcome[c]) <= 0
    /\ body' = [body EXCEPT ![c] = Discarded(c)]
    /\ attempt' = [attempt EXCEPT ![c] = Bump(@)]
    /\ Goto(c, "build")
    /\ UNCHANGED <<callVars, live, outcome, timer, result, wireVars, quiet,
                   won>>

RetryLater(c) ==
    /\ pc[c] = "decide"
    /\ \E d \in Decisions(c) :
          /\ d.retry /\ Delay(d.delay, outcome[c]) > 0
          /\ timer' = [timer EXCEPT ![c] = Delay(d.delay, outcome[c])]
    /\ body' = [body EXCEPT ![c] = Discarded(c)]
    /\ Goto(c, "sleep")
    /\ UNCHANGED <<callVars, live, attempt, outcome, result, wireVars, quiet,
                   won>>

\* The select of the wait. With both channels ready either branch may be taken.
Wake(c) ==
    /\ pc[c] = "sleep" /\ timer[c] = 0
    /\ attempt' = [attempt EXCEPT ![c] = Bump(@)]
    /\ Goto(c, "build")
    /\ UNCHANGED <<callVars, live, outcome, body, timer, result, wireVars,
                   quiet, won>>

\* Fault: the context is looked at only when the timer has fired.
Interrupted_AfterTimer(c) == ~live[c] /\ timer[c] = 0

Interrupted(c) == ~live[c]

CancelSleep(c) ==
    /\ pc[c] = "sleep" /\ Interrupted(c)
    /\ timer' = [timer EXCEPT ![c] = 0]
    /\ Return(c, "ctx")
    /\ UNCHANGED <<callVars, live, attempt, outcome, body, wireVars, quiet,
                   won>>

\* Fault: everything below 400 counts as success.
ResultsOf_Below400(c) ==
    IF outcome[c].status >= 400 THEN {"api"}
    ELSE IF req[c].stream THEN {"ok"} ELSE {"ok", "read"}

\* doJSON, DoRaw and DoRawStream with the response dispatch returned: a failure
\* is decoded, a stream handed to the caller, the rest read, which may fail.
ResultsOf(c) ==
    IF ~Success(outcome[c].status) THEN {"api"}
    ELSE IF req[c].stream THEN {"ok"} ELSE {"ok", "read"}

\* All but the stream that is handed on is closed on the way out.
Finish(c) ==
    /\ pc[c] = "read"
    /\ \E r \in ResultsOf(c) :
          /\ Return(c, r)
          /\ body' = [body EXCEPT ![c] =
                IF r = "ok" /\ req[c].stream THEN "caller" ELSE "closed"]
    /\ UNCHANGED <<callVars, live, attempt, outcome, timer, wireVars, quiet,
                   won>>

----------------------------------------------------------------------------
\* The API server and time.

\* The server processes a request, whether or not anyone still waits for it.
Serve(m, status, hint) ==
    /\ m \in sent \ applied
    /\ applied' = applied \cup {m}
    /\ IF pc[m.call] = "wire" /\ attempt[m.call] = m.n
       THEN inbox' = [inbox EXCEPT ![m.call] = Reply(status, hint)]
       ELSE UNCHANGED inbox
    /\ UNCHANGED <<callVars, pc, live, attempt, outcome, body, timer, result,
                   sent, quiet, won>>

Decrement(f) == [c \in Calls |-> IF f[c] > 0 THEN f[c] - 1 ELSE 0]

Elapse ==
    /\ timer' = Decrement(timer)
    /\ quiet' = Decrement(quiet)
    /\ UNCHANGED <<callVars, pc, live, attempt, outcome, body, result,
                   wireVars, won>>

Tick == (\E c \in Calls : timer[c] > 0 \/ quiet[c] > 0) /\ Elapse

----------------------------------------------------------------------------

\* What the call's own goroutine does, but for the Authenticator's answer.
Step(c) ==
    \/ Send(c) \/ Receive(c) \/ Fail(c)
    \/ GiveUp(c) \/ RetryNow(c) \/ RetryLater(c)
    \/ Wake(c) \/ CancelSleep(c) \/ Finish(c)

Environment ==
    \/ \E c \in Calls :
          Start(c) \/ Reject(c) \/ Reuse(c) \/ Cancel(c) \/ CloseStream(c)
    \/ \E m \in sent, s \in ReplyStatuses, h \in Hints : Serve(m, s, h)

Next ==
    \/ \E c \in Calls : ApplyOK(c) \/ ApplyFail(c) \/ Step(c)
    \/ Environment
    \/ Tick

\* Goroutines run and the Authenticator answers. Nothing is assumed of the
\* server, in whose stead the HTTP client's timeout makes Fail happen, nor of
\* time: a timer need not ever fire.
Fairness ==
    \A c \in Calls : WF_vars(ApplyOK(c) \/ ApplyFail(c)) /\ WF_vars(Step(c))

Safe == Init /\ [][Next]_vars
Spec == Safe /\ Fairness

----------------------------------------------------------------------------
(***************************************************************************)
(* Properties.                                                             *)
(***************************************************************************)

Budget == IF policy = "none" THEN 1 ELSE Attempts

\* However replies, losses and cancellations fall, a call never puts more
\* requests on the wire than the policy's budget of attempts (dispatch counts
\* from 0 and hands the policy attempt+1).
AttemptsWithinBudget ==
    policy # "eager" => \A m \in sent : m.n < Budget

\* Every replay of a call is the same request, idempotency key included, even
\* when the caller reuses its header map while the call is retrying.
SameRequestReplayed ==
    \A m1, m2 \in sent :
        m1.call = m2.call => m1.key = m2.key /\ m1.method = m2.method

\* A response body is open only between its arrival and the end of the read or
\* the decision to retry: no path out of dispatch leaks a connection. Only a
\* successful stream stays with the caller.
NoLeakedBody ==
    \A c \in Calls :
        /\ body[c] = "open" => pc[c] \in {"decide", "read"}
        /\ body[c] = "caller" => req[c].stream /\ result[c] = "ok"

\* No attempt is built or sent before the wait the last reply asked for in
\* Retry-After is over, whatever delay the policy would have picked.
QuietPeriodHonoured ==
    HonorRetryAfter =>
        \A c \in Calls : quiet[c] > 0 => pc[c] \notin {"build", "send", "wire"}

\* A retry that no Retry-After header called for waits: neither a refused
\* connection nor an overflow of the doubled delay makes the loop spin.
NoHotRetry ==
    [][policy # "eager" =>
         \A c \in Calls : pc[c] = "decide" /\ pc'[c] = "build"
                            => outcome[c].hint # NoHeader]_vars

\* Once a 2xx reply reached the client, that call sends nothing more: a payment
\* the server acknowledged is not made again.
SuccessIsFinal ==
    policy # "eager" =>
        \A m \in sent : won[m.call] # 0 => m.n < won[m.call]

\* What a call reports is what happened: success only if the server processed
\* the attempt it answers for and said 2xx, an APIError only for a reply.
ResultMatchesWire ==
    \A c \in Calls :
        /\ result[c] \in {"ok", "read"} =>
              /\ Success(outcome[c].status)
              /\ \E m \in applied : m.call = c /\ m.n + 1 = won[c]
        /\ result[c] = "api" =>
              outcome[c].kind = "resp" /\ ~Success(outcome[c].status)

\* A cancelled call returns although neither the server answers nor the timer
\* of the wait fires.
CancelEndsCall ==
    \A c \in Calls : (~live[c] /\ pc[c] # "idle") ~> (pc[c] = "done")

\* Where time passes every call returns: the waits end and the attempts run out.
CallReturns ==
    WF_vars(Tick) => \A c \in Calls : pc[c] = "build" ~> pc[c] = "done"
=============================================================================
