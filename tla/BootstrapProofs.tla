-------------------------- MODULE BootstrapProofs --------------------------
(***************************************************************************)
(* Theorems about Bootstrap, for any number of requests and signals. What  *)
(* makes the properties inductive is who can be the sender of a report:    *)
(* its handler has returned, and the serving goroutine reports once, so    *)
(* that three senders of one kind, one whose report was taken, one whose   *)
(* report is in the channel and one that still waits, are three different  *)
(* ones.                                                                   *)
(***************************************************************************)
EXTENDS Bootstrap, TLAPS

\* A report in a channel, or one that was taken, is what its sender's handler
\* decided, and that handler has returned. The serving goroutine only ever reports
\* an error, and is over when it has.
SendersReturned ==
    /\ codeCh # Nobody => phase[codeCh] = "answered" /\ report[codeCh] = "code"
    /\ errCh \in Requests => phase[errCh] = "answered" /\ report[errCh] = "error"
    /\ taken \in Requests => phase[taken] = "answered" /\ report[taken] = why
    /\ errCh = Server => serve = "over"
    /\ taken = Server => serve = "over" /\ why = "error"

\* Handlers decide once, by the query of their request.
Decided ==
    \A r \in Requests :
        /\ phase[r] \in {"sending", "answered"} => report[r] = Verdict(query[r])
        /\ phase[r] = "sending" => report[r] # "nothing"

\* The main goroutine takes one report, and goes on only with a code.
TakenOnce ==
    /\ pc \in {"start", "consent", "ready", "waiting"} => why = "none" /\ taken = Nobody
    /\ pc = "exchanging" => why = "code"
    /\ pc = "draining" => why # "none"
    /\ why = "code" => taken \in Requests
    /\ why = "error" => taken # Nobody
    /\ taken # Nobody => taken # codeCh /\ taken # errCh
    /\ file # Nobody => file = taken /\ why = "code"

IInv == TypeOK /\ SendersReturned /\ Decided /\ TakenOnce

----------------------------------------------------------------------------

\* The strengthening holds at the start, where no report was sent.
LEMMA InitIInv == Init => IInv
<1> SUFFICES ASSUME Init PROVE IInv
  OBVIOUS
<1>1. TypeOK
  <2>1. NoQuery \in Queries  BY DEF NoQuery, Queries
  <2>2. signals \in 0..MaxSignals  BY BootstrapAssumption DEF Init
  <2> QED  BY <2>1, <2>2, Zenon DEF Init, TypeOK
<1>2. SendersReturned
  BY BootstrapAssumption DEF Init, SendersReturned
<1>3. Decided /\ TakenOnce
  BY DEF Init, Decided, TakenOnce
<1> QED  BY <1>1, <1>2, <1>3 DEF IInv

\* Up to the callback server nothing is reported.
LEMMA SetupStep ==
    ASSUME IInv, \/ PrepareAuth \/ PrepareOB \/ CreateConsent
                 \/ Show \/ Listen \/ Serve
    PROVE  IInv'
<1>1. CASE PrepareAuth \/ PrepareOB \/ CreateConsent
  BY <1>1, BootstrapAssumption
     DEF IInv, TypeOK, SendersReturned, Decided, TakenOnce, PrepareAuth,
         PrepareOB, CreateConsent, handlers, channels, choice, Verdict
<1>2. CASE Show \/ Listen \/ Serve
  BY <1>2, BootstrapAssumption
     DEF IInv, TypeOK, SendersReturned, Decided, TakenOnce, Show, Listen, Serve,
         handlers, channels, choice, Verdict
<1> QED  BY <1>1, <1>2

\* A new request was not a sender before.
LEMMA ConnectStep ==
    ASSUME IInv, NEW r \in Requests, NEW q \in Contents, Connect(r, q)
    PROVE  IInv'
BY BootstrapAssumption
   DEF IInv, TypeOK, SendersReturned, Decided, TakenOnce, Connect, channels,
       choice, Verdict

\* A handler decides by its query, once.
LEMMA HandleStep ==
    ASSUME IInv, NEW r \in Requests, Handle(r) PROVE IInv'
<1>1. Verdict(query[r]) \in {"nothing", "code", "error"}
  BY DEF Verdict, VerdictAuth, VerdictOB
<1> QED
  BY <1>1, BootstrapAssumption
     DEF IInv, TypeOK, SendersReturned, Decided, TakenOnce, Handle, channels,
         choice, Verdict

\* The sender of a report has returned when the report is in its channel.
LEMMA SendStep ==
    ASSUME IInv, NEW r \in Requests, Send(r) PROVE IInv'
BY BootstrapAssumption
   DEF IInv, TypeOK, SendersReturned, Decided, TakenOnce, Send, Accepts, choice,
       Verdict

\* The server and its connections report nothing but an error.
LEMMA ServerStep ==
    ASSUME IInv, ServeFails \/ ReportFailure \/ \E r \in Requests : Drop(r)
    PROVE  IInv'
<1>1. CASE ServeFails
  BY <1>1, BootstrapAssumption
     DEF IInv, TypeOK, SendersReturned, Decided, TakenOnce, ServeFails, handlers,
         channels, choice, Verdict
<1>3. CASE ReportFailure
  <2>1. TypeOK' /\ Decided'
    BY <1>3
       DEF IInv, TypeOK, Decided, ReportFailure, handlers, choice, Verdict
  <2>2. SendersReturned'
    BY <1>3, BootstrapAssumption
       DEF IInv, SendersReturned, ReportFailure, handlers, choice
  <2>3. taken # Server /\ errCh' = Server
    BY <1>3 DEF IInv, SendersReturned, ReportFailure
  <2>4. TakenOnce'
    BY <1>3, <2>3 DEF IInv, TakenOnce, ReportFailure, choice
  <2> QED  BY <2>1, <2>2, <2>4 DEF IInv
<1>2. ASSUME NEW r \in Requests, Drop(r) PROVE IInv'
  BY <1>2, BootstrapAssumption
     DEF IInv, TypeOK, SendersReturned, Decided, TakenOnce, Drop, channels, choice,
         Verdict
<1> QED  BY <1>1, <1>2, <1>3

\* A signal leaves channels and handlers alone.
LEMMA SignalStep == ASSUME IInv, Signal PROVE IInv'
<1>1. TypeOK'
  <2>1. signals' \in 0..MaxSignals
    BY BootstrapAssumption DEF IInv, TypeOK, Signal
  <2>2. sigCh' \in BOOLEAN /\ pc' \in {"start", "consent", "ready", "waiting",
                                       "draining", "exchanging", "ok", "failed"}
    BY DEF IInv, TypeOK, Signal
  <2> QED
    BY <2>1, <2>2 DEF IInv, TypeOK, Signal, handlers, channels, choice
<1>2. SendersReturned' /\ Decided' /\ TakenOnce'
  BY DEF IInv, SendersReturned, Decided, TakenOnce, Signal, Serving, handlers,
         channels, choice, Verdict
<1> QED  BY <1>1, <1>2 DEF IInv

\* What the select takes leaves its channel: its sender is in no other place.
LEMMA SelectStep == ASSUME IInv, Select PROVE IInv'
BY BootstrapAssumption
   DEF IInv, TypeOK, SendersReturned, Decided, TakenOnce, Select, Take, handlers,
       channels, Verdict

\* Nothing after the select takes another report.
LEMMA EndStep ==
    ASSUME IInv, Drained \/ ExchangeAuth \/ ExchangeOB \/ ExchangeFails PROVE IInv'
BY BootstrapAssumption
   DEF IInv, TypeOK, SendersReturned, Decided, TakenOnce, Drained, AfterShutdown,
       ExchangeAuth, ExchangeOB, Store, ExchangeFails, handlers, channels,
       choice, Verdict

\* The strengthening is inductive.
LEMMA NextIInv == ASSUME IInv, [Next]_vars PROVE IInv'
<1>1. CASE Next
  BY <1>1, SetupStep, ConnectStep, HandleStep, SendStep, ServerStep, SignalStep,
     SelectStep, EndStep DEF Next
<1>2. CASE UNCHANGED vars
  BY <1>2
     DEF IInv, TypeOK, SendersReturned, Decided, TakenOnce, vars, Verdict
<1> QED  BY <1>1, <1>2

\* The strengthening, in every reachable state.
THEOREM Inductive == Spec => []IInv
BY InitIInv, NextIInv, PTL DEF Spec

\* Every variable keeps its type, in particular the file only ever holds tokens
\* obtained for the code of a callback.
THEOREM Typing == Spec => []TypeOK
<1>1. IInv => TypeOK  BY DEF IInv
<1> QED  BY <1>1, Inductive, PTL

\* The tokens in the file belong to a callback with this run's own state, whatever
\* else was sent to the port.
THEOREM OwnConsent == Spec => []FileFromOwnConsent
<1>1. IInv => FileFromOwnConsent
  BY BootstrapAssumption
     DEF IInv, TypeOK, SendersReturned, Decided, TakenOnce, FileFromOwnConsent,
         Verdict, VerdictAuth, VerdictOB, Queries
<1> QED  BY <1>1, Inductive, PTL

\* For any number of requests, a handler that is stuck when the server shuts down
\* stands behind a report of its kind by somebody else, and behind two by two others
\* if one of them ended the run. The others are answered callbacks or, for an error,
\* the server's own failure.
THEOREM HangNeedsMore == Spec => []HangTakesOthers
<1>1. IInv => HangTakesOthers
  <2> SUFFICES ASSUME IInv, NEW r \in Requests,
                      pc = "draining", phase[r] = "sending", ~Accepts(report[r])
               PROVE  LET first == IF report[r] = "code" THEN codeCh ELSE errCh
                      IN  /\ Before(first, r)
                          /\ why = report[r] => Before(taken, r) /\ taken # first
    BY DEF HangTakesOthers
  <2>1. report[r] \in {"code", "error"}
    BY DEF IInv, TypeOK, Decided
  <2>2. CASE report[r] = "code"
    BY <2>2, BootstrapAssumption
       DEF IInv, TypeOK, SendersReturned, TakenOnce, Before, Accepts
  <2>3. CASE report[r] = "error"
    BY <2>3, BootstrapAssumption
       DEF IInv, TypeOK, SendersReturned, TakenOnce, Before, Accepts
  <2> QED  BY <2>1, <2>2, <2>3
<1> QED  BY <1>1, Inductive, PTL
=============================================================================
