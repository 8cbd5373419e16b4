------------------------------ MODULE Bootstrap -----------------------------
(***************************************************************************)
(* The two one-time programs that turn a consent given in a browser into   *)
(* tokens on disk: cmd/auth-bootstrap for the Business API, called "auth"  *)
(* here, and cmd/ob-bootstrap for Open Banking, called "ob". Both host a   *)
(* callback server, whose handlers report to the main goroutine over two   *)
(* channels of capacity one; the main goroutine takes one report or a      *)
(* signal, shuts the server down, exchanges the code and writes the file.  *)
(*                                                                         *)
(* A request's code is the request itself. What net/http does is modelled  *)
(* from how it is used: Shutdown closes the listener and waits for the     *)
(* connections that have a request, a page reaches the browser when its    *)
(* handler returns.                                                        *)
(***************************************************************************)
EXTENDS Integers

CONSTANTS
    Programs,   \* which of the two programs may run
    Requests,   \* requests for /callback that browsers may send
    Contents,   \* what their queries may hold
    Server,     \* the goroutine that serves, as a sender of a report
    Nobody,     \* no sender
    MaxSignals  \* interrupts sent to the process

Queries == [code : BOOLEAN, error : BOOLEAN, own : BOOLEAN]

ASSUME BootstrapAssumption ==
    /\ Programs \subseteq {"auth", "ob"}
    /\ Contents \subseteq Queries
    /\ Server \notin Requests /\ Nobody \notin Requests /\ Server # Nobody
    /\ MaxSignals \in Nat

VARIABLES
    program,    \* which program this is
    pc,         \* where its main goroutine is
    shown,      \* the consent URL was given to the user
    listening,  \* the port accepts connections
    serve,      \* ServeTLS runs, or has failed, or its goroutine is over
    phase,      \* where each request is
    query,      \* what it holds
    report,     \* what its handler decided to report
    codeCh,     \* who sent the code in codeCh
    errCh,      \* who sent the error in errCh
    sigCh,      \* TRUE if a signal is in sigCh
    signals,    \* signals sent so far
    why,        \* the case that select took
    taken,      \* who sent what it received
    file        \* whose code the tokens in the file were exchanged for

vars == <<program, pc, shown, listening, serve, phase, query, report, codeCh,
          errCh, sigCh, signals, why, taken, file>>
handlers == <<phase, query, report>>
channels == <<codeCh, errCh>>
choice == <<why, taken>>

NoQuery == [code |-> FALSE, error |-> FALSE, own |-> FALSE]

TypeOK ==
    /\ program \in Programs
    /\ pc \in {"start", "consent", "ready", "waiting", "draining", "exchanging",
               "ok", "failed"}
    /\ shown \in BOOLEAN /\ listening \in BOOLEAN
    /\ serve \in {"up", "failing", "over"}
    /\ phase \in [Requests -> {"none", "connected", "sending", "answered",
                               "refused", "dropped"}]
    /\ query \in [Requests -> Queries]
    /\ report \in [Requests -> {"nothing", "code", "error"}]
    /\ codeCh \in Requests \cup {Nobody}
    /\ errCh \in Requests \cup {Server, Nobody}
    /\ sigCh \in BOOLEAN
    /\ signals \in 0..MaxSignals
    /\ why \in {"none", "code", "error", "signal"}
    /\ taken \in Requests \cup {Server, Nobody}
    /\ file \in Requests \cup {Nobody}

Init ==
    /\ program \in Programs
    /\ pc = "start"
    /\ shown = FALSE /\ listening = FALSE
    /\ serve = "up"
    /\ phase = [r \in Requests |-> "none"]
    /\ query = [r \in Requests |-> NoQuery]
    /\ report = [r \in Requests |-> "nothing"]
    /\ codeCh = Nobody /\ errCh = Nobody
    /\ sigCh = FALSE /\ signals = 0
    /\ why = "none" /\ taken = Nobody
    /\ file = Nobody

Over == pc \in {"ok", "failed"}

\* The server runs from the start of its goroutine to the end of the process.
Serving == pc \in {"waiting", "draining", "exchanging"}

----------------------------------------------------------------------------
\* Up to the callback server.

\* auth loads its key and certificates, and may fail to.
PrepareAuth ==
    /\ program = "auth" /\ pc = "start"
    /\ pc' \in {"ready", "failed"}
    /\ UNCHANGED <<program, shown, listening, serve, handlers, channels, sigCh,
                   signals, choice, file>>

\* ob loads credentials, key and certificates, gets a client-credentials token and
\* builds a signer.
PrepareOB ==
    /\ program = "ob" /\ pc = "start"
    /\ pc' \in {"consent", "failed"}
    /\ UNCHANGED <<program, shown, listening, serve, handlers, channels, sigCh,
                   signals, choice, file>>

\* The consent is posted, signed if it is for a payment: a status other than 2xx, or
\* a reply without its id, ends the program.
CreateConsent ==
    /\ pc = "consent"
    /\ pc' \in {"ready", "failed"}
    /\ UNCHANGED <<program, shown, listening, serve, handlers, channels, sigCh,
                   signals, choice, file>>

\* auth gives the URL to the user once its port is open, ob before.
MayShow == program = "auth" => listening

Show ==
    /\ pc = "ready" /\ ~shown /\ MayShow
    /\ shown' = TRUE
    /\ UNCHANGED <<program, pc, listening, serve, handlers, channels, sigCh,
                   signals, choice, file>>

Listen ==
    /\ pc = "ready" /\ ~listening
    /\ program = "ob" => shown
    /\ \/ listening' = TRUE /\ UNCHANGED pc
       \/ pc' = "failed" /\ UNCHANGED listening
    /\ UNCHANGED <<program, shown, serve, handlers, channels, sigCh, signals,
                   choice, file>>

\* The serving goroutine starts and signals are redirected to sigCh.
Serve ==
    /\ pc = "ready" /\ shown /\ listening
    /\ pc' = "waiting"
    /\ UNCHANGED <<program, shown, listening, serve, handlers, channels, sigCh,
                   signals, choice, file>>

----------------------------------------------------------------------------
\* The callback handlers.

\* A browser that was shown the URL sends a request; q is what its query holds.
Connect(r, q) ==
    /\ shown /\ ~Over /\ phase[r] = "none"
    /\ phase' = [phase EXCEPT ![r] = IF listening THEN "connected" ELSE "refused"]
    /\ query' = [query EXCEPT ![r] = q]
    /\ UNCHANGED <<program, pc, shown, listening, serve, report, channels, sigCh,
                   signals, choice, file>>

\* What auth's handler reports: an error without both a code and the own state.
VerdictAuth(q) == IF q.error \/ ~q.code \/ ~q.own THEN "error" ELSE "code"

\* Fault: the state parameter is not compared.
VerdictOB_AnyState(q) ==
    IF ~q.code /\ ~q.error THEN "nothing" ELSE IF q.error THEN "error" ELSE "code"

\* ob answers a query with neither code nor error with a page that sends the URL's
\* fragment back as a query, and reports nothing.
VerdictOB(q) ==
    IF ~q.code /\ ~q.error THEN "nothing"
    ELSE IF q.error \/ ~q.own THEN "error" ELSE "code"

Verdict(q) == IF program = "auth" THEN VerdictAuth(q) ELSE VerdictOB(q)

\* The handler reads the query and writes its page, which stays in the buffer.
Handle(r) ==
    /\ Serving /\ phase[r] = "connected"
    /\ report' = [report EXCEPT ![r] = Verdict(query[r])]
    /\ phase' = [phase EXCEPT ![r] = IF Verdict(query[r]) = "nothing"
                                     THEN "answered" ELSE "sending"]
    /\ UNCHANGED <<program, pc, shown, listening, serve, query, channels, sigCh,
                   signals, choice, file>>

\* Fault: the channels have no buffer.
Accepts_Unbuffered(kind) == pc = "waiting" /\ why = kind

\* A channel of capacity one takes a report when it is empty.
Accepts(kind) == IF kind = "code" THEN codeCh = Nobody ELSE errCh = Nobody

\* The handler sends its report and returns, which flushes the page.
Send(r) ==
    /\ phase[r] = "sending" /\ Serving /\ Accepts(report[r])
    /\ phase' = [phase EXCEPT ![r] = "answered"]
    /\ IF report[r] = "code" THEN codeCh' = r /\ UNCHANGED errCh
                             ELSE errCh' = r /\ UNCHANGED codeCh
    /\ UNCHANGED <<program, pc, shown, listening, serve, query, report, sigCh,
                   signals, choice, file>>

\* ServeTLS returns with an error, which closes the listener. Once Shutdown was
\* called it returns ErrServerClosed, which is none.
ServeFails ==
    /\ pc = "waiting" /\ serve = "up"
    /\ listening' = FALSE
    /\ serve' = "failing"
    /\ UNCHANGED <<program, pc, shown, handlers, channels, sigCh, signals,
                   choice, file>>

\* Its goroutine sends the error as soon as errCh takes it.
ReportFailure ==
    /\ serve = "failing" /\ Serving /\ Accepts("error")
    /\ errCh' = Server
    /\ serve' = "over"
    /\ UNCHANGED <<program, pc, shown, listening, handlers, codeCh, sigCh,
                   signals, choice, file>>

\* Shutdown gives up a connection on which no request was read yet.
Drop(r) ==
    /\ pc = "draining" /\ phase[r] = "connected"
    /\ phase' = [phase EXCEPT ![r] = "dropped"]
    /\ UNCHANGED <<program, pc, shown, listening, serve, query, report, channels,
                   sigCh, signals, choice, file>>

----------------------------------------------------------------------------
\* The main goroutine.

\* Before Notify a signal ends the process. Afterwards it is put into sigCh, or
\* forgotten if there is one, and nobody looks at sigCh but the select.
Signal ==
    /\ ~Over /\ signals < MaxSignals
    /\ signals' = signals + 1
    /\ IF Serving THEN sigCh' = TRUE /\ UNCHANGED pc
                  ELSE pc' = "failed" /\ UNCHANGED sigCh
    /\ UNCHANGED <<program, shown, listening, serve, handlers, channels, choice,
                   file>>

Take(kind, from) ==
    /\ pc = "waiting"
    /\ why' = kind /\ taken' = from
    /\ pc' = "draining" /\ listening' = FALSE

\* The select takes any case that is ready, and Shutdown closes the listener.
Select ==
    \/ /\ codeCh # Nobody /\ Take("code", codeCh)
       /\ codeCh' = Nobody
       /\ UNCHANGED <<program, shown, serve, handlers, errCh, sigCh, signals,
                      file>>
    \/ /\ errCh # Nobody /\ Take("error", errCh)
       /\ errCh' = Nobody
       /\ UNCHANGED <<program, shown, serve, handlers, codeCh, sigCh, signals,
                      file>>
    \/ /\ sigCh /\ Take("signal", Nobody)
       /\ sigCh' = FALSE
       /\ UNCHANGED <<program, shown, serve, handlers, channels, signals, file>>

\* Shutdown waits for every connection that may still have a request.
Quiet == \A r \in Requests : phase[r] \notin {"connected", "sending"}

\* Fault: the code path waits like the other two.
Patient_Always == TRUE

\* After a code, Shutdown has two seconds; after an error or a signal it has none.
Patient == why # "code"

\* Fault: the return after an error is missing.
AfterShutdown_NoReturn == "exchanging"

AfterShutdown == IF why = "code" THEN "exchanging" ELSE "failed"

Drained ==
    /\ pc = "draining" /\ (Patient => Quiet)
    /\ pc' = AfterShutdown
    /\ UNCHANGED <<program, shown, listening, serve, handlers, channels, sigCh,
                   signals, choice, file>>

Store ==
    \/ pc' = "ok" /\ file' = taken
    \/ pc' = "failed" /\ UNCHANGED file

\* auth exchanges the code within thirty seconds, insists on a refresh token and
\* writes the file, which may fail.
ExchangeAuth ==
    /\ program = "auth" /\ pc = "exchanging"
    /\ \E refresh \in BOOLEAN :
          IF refresh THEN Store ELSE pc' = "failed" /\ UNCHANGED file
    /\ UNCHANGED <<program, shown, listening, serve, handlers, channels, sigCh,
                   signals, choice>>

\* ob takes what it is given.
ExchangeOB ==
    /\ program = "ob" /\ pc = "exchanging"
    /\ Store
    /\ UNCHANGED <<program, shown, listening, serve, handlers, channels, sigCh,
                   signals, choice>>

\* The exchange fails, or auth's deadline passes. ob has none.
ExchangeFails ==
    /\ pc = "exchanging"
    /\ pc' = "failed"
    /\ UNCHANGED <<program, shown, listening, serve, handlers, channels, sigCh,
                   signals, choice, file>>

Next ==
    \/ PrepareAuth \/ PrepareOB \/ CreateConsent
    \/ Show \/ Listen \/ Serve
    \/ \E r \in Requests :
          \/ \E q \in Contents : Connect(r, q)
          \/ Handle(r) \/ Send(r) \/ Drop(r)
    \/ ServeFails \/ ReportFailure
    \/ Signal \/ Select \/ Drained
    \/ ExchangeAuth \/ ExchangeOB \/ ExchangeFails

\* Every goroutine of the program runs, Shutdown's and auth's deadlines pass. The
\* token endpoint owes ob no answer.
Fairness ==
    /\ WF_vars(Show) /\ WF_vars(Listen) /\ WF_vars(Serve)
    /\ \A r \in Requests :
          WF_vars(Handle(r)) /\ WF_vars(Send(r)) /\ WF_vars(Drop(r))
    /\ WF_vars(ReportFailure) /\ WF_vars(Select) /\ WF_vars(Drained)
    /\ WF_vars(program = "auth" /\ ExchangeFails)

Spec == Init /\ [][Next]_vars /\ Fairness

----------------------------------------------------------------------------
(***************************************************************************)
(* Properties.                                                             *)
(***************************************************************************)

\* The tokens in the file were exchanged for a code that came back with the state
\* this run generated and without an error, however many other callbacks, signals
\* and failures came before it or between.
FileFromOwnConsent ==
    file # Nobody => /\ file \in Requests
                     /\ query[file].own /\ query[file].code /\ ~query[file].error

\* s reported what r wants to report, and is not r: another callback that was
\* answered, or, for an error, the serving goroutine after ServeTLS failed.
Before(s, r) ==
    \/ s \in Requests \ {r} /\ phase[s] = "answered" /\ report[s] = report[r]
    \/ s = Server /\ report[r] = "error" /\ serve = "over"

\* A handler whose channel is full when the server shuts down stays where it is, and
\* a shutdown without a deadline waits for it for ever. That takes another report of
\* its kind, which nobody will read, and yet another one if such a report is what
\* ended the run: no handler gets stuck on its own report, and none behind only the
\* one that was taken. The others need not be callbacks: for an error each may be
\* the failure of the server itself, so that after a signal and such a failure one
\* callback is enough to keep the program from ending.
HangTakesOthers ==
    \A r \in Requests :
        pc = "draining" /\ phase[r] = "sending" /\ ~Accepts(report[r]) =>
            LET first == IF report[r] = "code" THEN codeCh ELSE errCh
            IN  /\ Before(first, r)
                /\ why = report[r] => Before(taken, r) /\ taken # first

\* Once a code is captured, nothing that browsers do or leave undone holds up the
\* exchange, and auth comes to an end whatever the token endpoint does.
CaptureIsExchanged ==
    /\ (pc = "draining" /\ why = "code") ~> pc \in {"exchanging", "ok", "failed"}
    /\ (program = "auth" /\ why = "code") ~> Over

\* successHTML tells the user that the code is being exchanged. With more than one
\* callback, or a signal, it may just as well be dropped.
AcknowledgedIsExchanged ==
    \A r \in Requests :
        phase[r] = "answered" /\ report[r] = "code" /\ Over => taken = r
=============================================================================
