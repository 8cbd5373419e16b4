# revolut-go in TLA+

Specifications of the Go client library in `src/` (module
`github.com/greatliontech/revolut-go`): the retrying HTTP transport, the token
sources that authorize each attempt, the client that puts them together, the
iterators over paginated lists, the programs that obtain the first consent, and the
generator the API packages come from; checked with TLC on small instances and, for
the safety properties, proved with TLAPS for every value of the constants. Paths
below are relative to `src/`.

* [The system](#the-system): the inventory of components
* [Plan](#plan): modules, in the order they are written
* [Modules and code](#modules-and-code): how state and actions correspond
* [Runs](#runs): what each shows, its bounds, and why they are enough
* [Fairness](#fairness)
* [Proofs](#proofs)
* [Disagreements](#disagreements-between-code-and-documentation)
* [Limits of the models](#limits-of-the-models)
* [Not modelled](#not-modelled)

## The system

A program creates one client per product (`openbanking.go`, `business.go`,
`merchant.go`, `revolutx.go`, `cryptoramp.go`; options in `revolut.go`) and calls
generated methods (`*/gen_*.go`) from as many goroutines as it likes. A method
validates its request and makes one call of the shared transport, which asks an
Authenticator for the credentials of each attempt, sends the request, and asks a
RetryPolicy what to do with the outcome.

| component | state | operations | hard behaviour | what makes it correct |
|---|---|---|---|---|
| HTTP transport `internal/transport/transport.go` | per call: attempt counter, last response and its body, timer; immutable configuration | `Do`, `DoRaw`, `DoRawStream`, `dispatch` | concurrent calls, lost and late replies, cancellation at any moment, a caller that reuses its header map, server waits | budget of attempts, identical replays, no leaked body, `Retry-After` honoured, success final, the report matches the wire, every call ends |
| Retry policy `retry.go` | none | `BackoffPolicy.Next` | overflow of the doubled delay, defaults, off-by-one of the attempt number | positive, capped delays; never past `MaxAttempts`; nothing that succeeded is retried |
| jwt token source `auth/jwt/source.go`, `exchange.go` | mutex, access token, its expiry | `Token` | check, round trip and store under one mutex; clock read after the trip; failed refreshes | one refresh in flight, tokens with life left, no deadlock |
| Client-credentials source `openbanking/tokensource.go` | the same | `Token`, `Apply` | clock read before the trip; missing `expires_in` | the same |
| Authorization-code source `openbanking/authcode.go` | the same and a refresh token that rotates | `ExchangeAuthCode`, `Token`, `Snapshot` | rotation, a crash between rotation and persistence | the persisted refresh token is one the server accepts |
| Bootstrap callback servers `cmd/ob-bootstrap`, `cmd/auth-bootstrap` | two channels of capacity one, a signal channel, the HTTP server and its listener, the file | the callback handlers, the select, `Shutdown`, the exchange | handlers against a main goroutine that has stopped reading; signals; stray callbacks | tokens come from the own consent; a captured code is exchanged; a handler gets stuck in the shutdown only behind the reports of others |
| Pagination iterators, emitted by `cmd/revogen` | the parameters of the next page | the `iter.Seq2` of each list operation | a collection that grows between pages, cursors that come back | every item once, in order; the iteration ends |
| Webhook verification `webhook.go` | none | `VerifyWebhook` | window arithmetic | accepts exactly the signed, fresh ones |
| JOSE `openbanking/jws_*.go`, `jwks.go`, `requestobject.go`, `clientassertion.go` | none | sign, verify, publish keys | key lookup | cryptographic |
| Generator `cmd/revogen` | the declarations being made and rewritten | load, build, lower, emit | unions nested in and shared with unions; passes that depend on each other's order | markers, tags, read-only and unset fields come out right; what is received is decoded whole; the passes end |
| Generated packages `*/gen_*.go` | none | validate, then one transport call | | as the generator emits them |

How they interact:

* **Calls.** A method calls `transport.Do*`; `dispatch` calls `build` on every
  attempt, which calls `Authenticator.Apply`; the token source calls its own
  HTTP client, not the transport, so a token request is never retried.
* **Shared state.** All calls of a client share the token source's mutex and
  cache, and the HTTP client's connections. A call's loop state is its own.
* **Callbacks.** The policy is called between attempts with the response still
  open; the caller's context reaches both the request and the wait.

The hazards this code is exposed to, each at its line and with the properties
that look at it, are in `PROJECT.json` under `hazards`.

## Plan

1. *Done.* `Backoff`, then `Transport`: every call goes through them.
   Abstract promise: the properties of `Transport` itself.
2. *Done.* `Credential`, the promise of a token source, and `TokenSource`, the
   two self-contained sources, shown to implement it.
3. *Done.* `Client` = one `Transport` whose credentials come from one
   `TokenSource`; each part is shown to keep to its own specification.
4. *Done.* `TransportProofs`, `TokenSourceProofs`.
5. *Done.* `Listing`, the promise of an iterator over a paginated list,
   `Pagination`, the three shapes of emitted iterators, and `PaginationProofs`.
6. *Done.* `AuthCode`: the authorization-code source with a rotating refresh
   token, its snapshots, crashes, and the bootstrap program's first exchange; and
   `AuthCodeProofs`.
7. *Done.* `Bootstrap`: handlers, channels, select and shutdown of the two
   bootstrap programs; and `BootstrapProofs`.
8. *Done.* `Schemas` and `Generator`: from component schemas through the
   declarations and the lowering passes to what the emitted code sends and
   receives; `GeneratorProofs`, and `PackageProofs` for what the package keeps of its
   document.
9. *Done.* `ClientProofs`: the composition keeps to both of its parts, so that
   their theorems hold of it.
10. *Dropped.* `Webhook`, and JOSE's key lookup: see [Not modelled](#not-modelled).

## Modules and code

A definition marked *Fault* in a comment is the definition after it with a bug
seeded in it. No specification uses it: each stands in for the original when a
property is tested, and `PROJECT.json` lists under `mutants` which property must
then fail. `map` in the same file gives the source lines of every definition.

### Backoff and Transport

`Backoff` is `BackoffPolicy.Next` as a function of the attempt number, the
outcome and the method. `NextDecisions` returns a set because Go leaves the
conversion of an oversized float to the architecture (`ToDuration`), and the
product of a power of two and a duration wraps like an int64 (`Wrap`). `MaxInt`
is the width.

`Transport` is `dispatch` with what surrounds it. `pc` is where a call's goroutine
is:

| `pc` | code | left by |
|---|---|---|
| `idle` | before `Do`, `DoRaw`, `DoRawStream` | `Start` (body encoded, headers copied), `Reject` (body cannot be encoded) |
| `build` | `build()`, with `Authenticator.Apply` | `ApplyOK`, `ApplyFail` |
| `send` | a request in hand, not yet written | `Send`, `Fail` |
| `wire` | in `http.Client.Do` | `Receive`, `Fail` |
| `decide` | `retry.Next` and what follows it | `GiveUp`, `RetryNow`, `RetryLater` |
| `sleep` | the `select` on timer and context | `Wake`, `CancelSleep` |
| `read` | decoding what `dispatch` returned | `Finish` |
| `done` | returned `result` | |

`sent` and `applied` are the server's side: a request that was sent can be
processed (`Serve`) at any later time, also after its call has given up, which is
how a replay repeats work. `body` is the response body of the last attempt,
`quiet` how long the server has still asked the call to stay away, `won` the
attempt that a 2xx answered. `Reuse` is a caller that changes the header map it
passed; the code reads it once (`copied`). The policy is one of `none` (no policy
installed), `backoff` and `eager`, a custom policy that always says
`(0, true)`. An answer's body, URL and headers other than the idempotency key
make no difference to a property and are left out.

### Credential and TokenSource

`Credential` is the promise: one credential, renewed by one user at a time and
only when it has at most `threshold` left, shared only while it has more than
`margin` left. `TokenSource` is both `jwt.Source` and
`ClientCredentialsTokenSource` (`kind`). They differ where `Promised`,
`Remaining` and `Store` say so: a missing `expires_in` (the client-credentials
source supposes five minutes), when the clock is read (after the round trip in
one, before it in the other), and a 2xx reply without a token (an error in one,
an empty token in the other). All times count down: `cache.left` is the time
to the source's own expiry, `cache.life` the time to the server's, and their
difference is what the margins are about. `Tripper` and the `INSTANCE` of
`Credential` map one to the other, with `Headroom` and `RefreshBelow` as the two
bounds; for `jwt.Source` the headroom is the 60 s skew less the longest round
trip, and may be negative.

### Client

`Client` puts a `Transport` and a `TokenSource` together on the same goroutines.
`Enter` is `Apply` calling `Token`; `Authorize` is the token's return and the
transport's `ApplyOK` in one step, and stamps `bearer`; `Refuse` the same for an
error. `Pass` lets time pass for both parts at once, and for the header of a request
that is not written yet: after `Apply`, `http.Client.Do` resolves, dials and
handshakes, which `dialed` counts and `DialBound` bounds. Its property `PartsHold`
says that every behaviour of the composition is one of each part.

### AuthCode

One authorization-code source through its life: `phase` is `fresh` before the
bootstrap program exchanged its code (`ExchangeAuthCode`), `down` while no
process runs, and `up` in between. `tok` is the pair in the source, `disk` the pair
as last written, `snap` a snapshot on its way there. `at` is where a goroutine is
in `Token`:

| `at` | code | left by |
|---|---|---|
| `idle` | before `Apply` calls `Token` | `Call` |
| `lock` | `s.mu.Lock()` | `Lock` |
| `check` | the comparison with `ExpiresAt`, then `RefreshToken` | `Hit`, `NoRefresh`, `Miss` |
| `trip` | `postAuthCodeToken` | `Store`, `Fail` |

A refresh token is the number of its issue. `accepted` is the one the server
takes, `wire` the requests it has not looked at; `by` is who waits for one, and
`None` after the request was given up or its process died, for the server may still
grant it (`Grant`) and move on to the next token. `lost` remembers that the reply
with the accepted token never reached the source, or a crash came before it was
written. The source then presents the replaced token again, for it knows no other;
`ReuseOnlyAfterLoss` says that it does so only then, and that no goroutine ever
presents a token that the source itself has had replaced. `Remaining` subtracts a
margin that is the source's own (`SourceEarly`) for a refresh and the bootstrap
program's (`ExchangeEarly`) for the first pair, which is where the two differ in the
code.

### Listing and Pagination

`Pagination` is the code that `writePaginationMethod` emits, as found in
`business/gen_*.go`, `merchant/gen_*.go`, `revolutx/gen_*.go` and
`cryptoramp/gen_*.go`: `Iterate` copies the caller's parameters, `Check` looks at
the context, `Answer` and `Fail` are the list operation, `Yield` the inner loop
with its `break`, and `Advance` what each shape does between two pages. Items are
numbered by age, so that a page is an interval, walked downwards. The server is
external: it excludes the bound, as the documentation of the API says, may answer
with short pages, and when not `honest` repeats its cursor or includes the bound.
`Listing` is the promise: the items there were when the first page was served,
newest first, each once, and no silent end before the oldest.

### Bootstrap

Both programs in one module, `program` telling which. `pc` is where the main
goroutine is:

| `pc` | code | left by |
|---|---|---|
| `start` | reading flags, keys, certificates, credentials | `PrepareAuth`, `PrepareOB` |
| `consent` | `postConsent`, Open Banking only | `CreateConsent` |
| `ready` | the URL is shown (`Show`) and the port opened (`Listen`): port first in `auth-bootstrap`, URL first in `ob-bootstrap` | `Serve` |
| `waiting` | the `select` on code, error and signal | `Select` |
| `draining` | `Shutdown`: two seconds after a code, no deadline otherwise | `Drained` |
| `exchanging` | the code exchange and the file | `ExchangeAuth`, `ExchangeOB`, `ExchangeFails` |
| `ok`, `failed` | the process has ended | |

A browser request is `connected` once its connection is accepted; `Handle` reads
its query and writes the page, and `Send` is the report on the channel, after
which the handler returns and the page is flushed (`answered`). A request before
the port is open is `refused`, and `Drop` is what `Shutdown` does to a connection
without a request. `codeCh` and `errCh` hold the sender of the report in them.
`serve` is the serving goroutine: `ServeTLS` may fail, which closes the port at once
whatever the channels hold (`ServeFails`), and its error is sent when `errCh` takes it
(`ReportFailure`).
`net/http` and `signal.Notify` are modelled from how the code uses them.

### Schemas and Generator

`Schemas` has no state: the document as the loader hands it over, the Go
declarations, and what `cmd/revogen/build` makes of one schema, given what it has
declared before it: a struct, an interface, or the merged struct of a union that
cannot be told apart. That a union of references becomes an interface only if its
branches are declared already is in `Disjoint`; that a merged struct looks its
members up by their Go names is in `Flatten`.

`Generator` is the whole run of revogen and the use of its output. `phase` is what
it does next:

| `phase` | code | actions |
|---|---|---|
| `declare` | `buildDecls`, then the operations | `Declare`, `BuildOperations` |
| `unions` | `lower.Unions` | `Seed`, and the recursion of `propagate` on an explicit `stack`: `Visit`, `Return`; then `DropTagFields` |
| `readOnly` | `lower.ReadOnly` | `CloneShared` |
| `promote` | `lower.PromoteOptionalStructs` | `PromoteOptionalStructs` |
| `generated` | the emitted package | `Send`, `Reply`, `Callback` |

`decls` are the declarations by Go name, `order` the order of their registration,
`body` the type of every operation's request. `exchange` is the last payload: its
keys and the values of its tags. `Send` writes what the emitted `MarshalJSON` and
`encoding/json` write for a value with any set of optional fields; `Reply` and
`Callback` receive any payload that the document describes and decode it as the
emitted method, or callback decoder, does.

## Runs

| run | instance | question |
|---|---|---|
| `transport` | one call, all four of GET/POST and streaming or not; statuses 200, 304, 503; no `Retry-After`, a zero one, one of 2; two values of the header; no policy, or 3 attempts with base 2, cap 3, `MaxInt` 3 | the retry loop keeps its budget, request, waits and connections, and ends |
| `token_source` | two goroutines; lifetimes 0, 1, 3, 6; skew 3, margin 1, supposed lifetime 4; round trips up to 2 | single refreshes, margins, no deadlock, `Credential` |
| `client` | two calls with two attempts, lifetimes of 3, margin 1, round trips and dials up to 1 | live tokens on every attempt as it is written, no hold and wait, parts behave |
| `auth_code` | two goroutines, three refresh tokens, lifetimes of 4 and a missing one of 3, margin 2, round trips up to 1 | the session survives rotation, snapshots and restarts; which refresh tokens are presented; margins |
| `pagination` | up to four items, page sizes 1, 2 and the default of 3, a caller's bound of 3 or none, honest and stuck servers | `Listing`; iterations end |
| `bootstrap` | both programs, three callbacks of four kinds (own code, foreign code, refusal, empty), one signal, a server that fails | tokens of the own consent only; a captured code is exchanged; behind whom a handler hangs in the shutdown |
| `generator` | 5,184 documents: four schemas (two objects and two that are a union, an object or an array, and may list each other), four properties, three orders, three namings, two operations and a callback | markers, tags, read-only and unset fields; callbacks find their variant; nothing is lost; the passes end |
| `slow_reply`, `first_token`, `limit_pages`, `acknowledged`, `union_reply` | as above, with one setting changed or another property | what a comment or a page says that the code does not do: see below |

Why these bounds are enough to be of interest:

* One call suffices in `transport` because calls share no variable there; they
  do in `client`, which has two. Three attempts are a first, one that follows a
  retry, and one at the budget. With `MaxInt` = 3 the second doubled delay
  wraps to -4, and both outcomes of `ToDuration` occur at the third. The hint of
  2 differs from the policy's own first delay of 2 only in where it comes from,
  and outlasts none, so a mutant that ignores it is caught by `quiet`.
* The lifetimes of `token_source` lie below, at and above both margins, and a
  lifetime of zero is a missing `expires_in`. A round trip is shorter than the
  skew here, which the code does not guarantee: `slow_reply` drops that.
* In `client` a dial may be as long as the margin, the longest that the margin
  covers: without the margin a token used up to its last moment is dead when it is
  written, which is one of the mutants of `BearerLiveOnWire`. A lifetime of 3 is the
  least that exceeds a round trip and a dial, without which not even a token just
  fetched is alive when it is written. With waits and dials of one a token is used,
  ages and is renewed between the attempts of a call.
* Three refresh tokens are the first, one rotation that is stored, and one that is
  lost or overtaken. The lifetimes of `auth_code` exceed the margin, so that a pair
  is used, expires, and is renewed; every run of time is a few units because a
  pair on disk and a pair in memory age together.
* Four items with pages of one and two give boundaries on every item, short last
  pages, and creations between any two requests. A bound of 3 splits the
  collection.
* Three callbacks in `bootstrap` are one whose report is taken, one whose report
  fills the channel, and one that waits. A signal, or a failing server, stands in for
  the first or the second: after a signal and a failure of the server one callback is
  enough to hang the shutdown. The theorem is for any number.
* The documents of `generator` are all combinations of: objects with a tag field of
  theirs, without one, with read-only fields, and with an object or a union inside;
  unions with tags, with tags of which one is listed twice, with tags without a
  property, and without any; a union in a union; two unions that share members,
  under different tags or properties. The orders put each union before and after
  its members, and the namings include a collision and a name that Go changes. Two
  unions may list each other; the walk over unions then never comes to them. None
  that it comes to lists itself, at whatever depth: the generator's recursion would
  not end, so that `GeneratorEnds` is about the other documents.

`CHECK_DEADLOCK FALSE` appears in the runs of `Client`, where all calls may have
returned; of `Bootstrap`, whose program ends, or hangs as `HangTakesOthers` says;
and of `Generator`, where a package without operations on declared types has
nothing to exchange.

## Fairness

* `Transport`: weak fairness of each call's own steps, as the Go scheduler and
  the HTTP client give it. `Fail` is among them, for the default HTTP client
  has a timeout of 30 s and the caller's context reaches the request. No
  fairness of the server or of time: `CancelEndsCall` must hold although no timer
  ever fires. `CallReturns` adds that time passes, in its statement.
* `TokenSource`: weak fairness of the steps inside `Token`, and strong fairness
  of `Lock`, since `sync.Mutex` hands itself over to a waiter that starves. That
  the authorization server answers is assumed in `TokenReturns` alone.
* `Client`: the same for the goroutines, but nothing of the authorization server:
  the HTTP client that `MTLSHTTPClient` builds has no timeout.
* `AuthCode` has none: its properties are all of safety. That `Token` returns is
  the question `TokenSource` answers, for the same lock around the same trip.
* `Pagination`: weak fairness of the range loop. Neither creations nor
  cancellation are fair.
* `Bootstrap`: weak fairness of each goroutine of the program, of the deadline of
  `Shutdown` after a code, and of the deadline of `auth-bootstrap`'s exchange.
  Browsers, signals and the token endpoint owe nothing.
* `Generator`: weak fairness of the generator, a sequential program. What the
  package is used for is not fair.

## Proofs

All are theorems of the specification without fairness (`Safe`; `Spec` in
`AuthCode` and `Bootstrap` and `GeneratorSpec`, whose fairness they do not use), for
every value of the constants that meets the assumptions of the modules: any number
of calls, budgets, delays, widths, lifetimes, margins, rotations, items, callbacks,
and any documents.

`TransportProofs` begins with the policy: whatever the conversion and the product do,
the delay lies in `1..Cap` (`BackoffRange`); a retry needs an unexhausted budget and a
retryable outcome, and has no delay just when the server gave a hint
(`PolicyDecides`). Of the safety properties of `Transport` none is inductive. The
strengthenings, each a conjunction over the calls:

* `Budgeted` (for `AttemptsWithinBudget`): the counter is below the budget, and by
  one more while the call sleeps, because the increment comes after the wait.
* `Origin` (for `SameRequestReplayed`): every request on the wire carries the
  copied header and the method of its call, and its number is at most the
  counter.
* `Bodies` (for `NoLeakedBody`): which outcomes and bodies go with which `pc`.
* `Answers` (for `ResultMatchesWire`): a reply in the inbox, at the decision, or
  behind a result answers the attempt that the counter names, and that request is
  among the applied ones.
* `Final` (for `SuccessIsFinal`): once `won` is set the call is past its last
  request. It needs `FailuresOnly`: a status set with a 2xx in it would retry
  a success.
* `Waits` (for `QuietPeriodHonoured`): while a call sleeps its timer covers the
  quiet time. It needs `HintsFit`: a header whose product with the unit overflows
  would turn into no wait.

`NoHotRetry` is an action property and follows from `Typing` and the lemmas on
delays.

`TokenSourceProofs`: `SingleFlight` is inductive together with the type
invariant. `CachedTokenLive` rests on `Margins`: `CacheGap`, which bounds the
distance between the two expiry times from both sides, and `ReplyAge`, which says
what a reply in flight has lost of its life since the trip began. From these,
`Refinement` shows that initial states and steps map to those of `Credential`.

`AuthCodeProofs`: `SessionKept` and `ReuseOnlyAfterLoss` follow from `Session`, of which
`Linked` says where the accepted refresh token is (in the reply on its way, else in
the source, else on disk). A grant keeps `Linked` only because the one request that
somebody waits for belongs to the holder of the mutex and carries the source's own
token (`Owned`), because the holder alone is past the lock (`Alone`), and because
replies reach only the holder (`Pending`). `KeepsMargin` rests on `Margins`: the
gap between promise and life of each of the three copies of the pair, and
of the reply. It assumes `ConfigEarly # 0`, without which `first_token` refutes it.

`ClientProofs` takes the theorems about the parts from instances of their modules.
`TransportAssumed`, `SameTransport` and their counterparts say that these instances
are Client's own `T` and `S`; `PartsStep` that every step of the client is a step of
each part or leaves it alone. Time passes for both at once (`Pass`): where no timer
of a part runs it changes nothing there, which for the token source needs that
nothing is left of the last round trip (`BetweenTrips`). `Composition` is the
property `PartsHold`, and by it `NoLeak` and `MarginsHold` hold of the client.
`NoDeadlockOfPools` follows from the former, because a call is inside `Token` only
while `build()` waits (`AtBuild`). `BearersLive` follows from the latter by
`BearerReady`: what is left of the life of a token on a request that is not written
yet exceeds what is left of the longest dial. A token from the cache starts with the
margin, one just fetched with all but its round trip, and the dial takes from both the
same. The theorem assumes that the margin covers the dial (`DialBound <= Early`) and
lifetimes longer than a round trip and a dial. With the defaults the first is so: the
client's timeout and `DefaultEarlyRefresh` are both 30 s. An HTTP client without a
timeout, such as the one that `MTLSHTTPClient` builds, gives no such bound.

`PaginationProofs`: `Refinement` maps steps to steps of `Listing`. Between two pages
the bound of the next request marks where the last page ended (`Resumes`), so that a
query with it reaches exactly what is left, however the collection has grown
(`ReachMarked`). On a page the oldest item lies before the bound it was asked with
(`Descends`, from `ReachBefore`), so that the stall guard stops a walk only where
nothing is left. Time windows need times that tell items apart (`Ascending`, with
`Burst = 1`). The counting rests on the library's facts about finite sets.

`BootstrapProofs`: what makes the properties inductive is who may be the sender of a
report (`SendersReturned`, `Decided`, `TakenOnce`): a callback that was answered or,
once it is over, the serving goroutine. From it the tokens' origin (`OwnConsent`) and
who stands before a handler that is stuck in the shutdown (`HangNeedsMore`).

`GeneratorProofs`: `MarkersReach` is the correctness of the recursion over unions.
Its invariant is `Closed`: where the walk has been, the markers of a union are on
its variants, or a call on the stack has still to come to the variant (`Pending`).
A call is replaced by its resumption and the calls below it, which keeps what is
pending; when the stack and the list are empty nothing is pending, and everything
has begun (`WalkOver`). `NothingUnset` rests on `Emitted`: once the package is there
no optional struct is left by value, clones included, because the pass that makes
them pointers comes last. The documents are arbitrary.

`PackageProofs` compares the package with the document. `DeclarationsMirrorSchemas` is
the invariant of the passes, `Provenance`: every declaration, whichever pass made or
rewrote it, is still what its schema says. Its parts:

* `Mirrored`: a declaration `Describes` its schema. The struct of an object has a
  field for every property, or stands for it with its tag (`Kept`, which the pass that
  drops tag fields keeps as it is), and the field has the property's type and flags.
  A merged struct has a place for every property of every member. An interface has
  the union's branches under the mapping's tags. The clones are left out, and are
  told apart by `Input`.
* `Declared`: every object that the builder has come to is declared, because there is
  an entry for each schema in the builder's list.
* `Stripped`: bodies go by the names of their schemas until the read-only pass; after
  it, a body whose schema is an object and also a reply is a struct without that
  schema's read-only properties. The pass walks to a fixed point. `Uses` is the least
  set closed under the fields of its members, about which one can reason without
  recursion; all that is needed of it is that the roots are in it.

What an exchange promises follows from that in the step that makes it (`Exchanged`):
`ReadOnlyStays` from `Stripped`; `VariantsAreFound` because a key that is required of
one branch and known to no other is in the probe of that branch alone, and because
the tags of a mapping are distinct; `DecodedWhole` from `Kept`. `TagsAreTrue` has an
invariant of its own, `Links`: a struct's link is one of the tags under which the
unions reached so far list it (`LinksListed`), and a struct listed by a tagged union
that the walk has left behind has a link (`ListedLinked`); the calls in progress are of
unions that the walk has begun (`Walking`). `UniqueNames`, `Unambiguous` and `SameNames` are
conditions in the properties themselves, and are about the document; the theorems
assume only what the modules do. Where they fail the code does what
[Disagreements](#disagreements-between-code-and-documentation) says.

Only model-checked: everything under fairness (`CancelEndsCall`, `CallReturns`,
`TokenReturns`, `IterationEnds`, `CaptureIsExchanged`, `GeneratorEnds`), which is
beyond the prover. Every invariant and every action property of a passing run has a
theorem. `HintsFit` and `FailuresOnly` are assumptions about configuration and server, not
facts of the code.

## Disagreements between code and documentation

Quotations are in `PROJECT.json` under `findings`. For five of them a run states
what the comment, or the page the program shows, says, and TLC finds a behaviour
that is against it:

* `slow_reply`: `jwt.Source` reads the clock after the round trip; a reply slower
  than the skew of 60 s leaves an expired token in the cache.
* `first_token`: `ExchangeAuthCode` does not default `EarlyRefresh`, so the first
  access token has no margin.
* `limit_pages`: the limit shape asks for the same page for ever.
* `acknowledged`: the browser is told that its code is being exchanged, and the
  program ends with the error of another callback.
* `union_reply`: a method that answers with a union, or with an object that has one
  inside, decodes into a bare interface and fails.

The others follow from a definition of the models and have no run of their own:

* A transport error is retried whatever `RetryableMethods` says (`NextDecisions`).
* A policy without delays spins on after its context was cancelled (`RetryNow`);
  the runs keep to policies that leave a delay.
* A goroutine that waits for the token mutex does not notice that its context was
  cancelled (`Lock` does not look at it).
* The time window skips items that share a timestamp across a page boundary
  (`Walks` requires `Burst = 1`).
* The clone of a tagged variant has the markers of the union and no tag
  (`StripReadOnly`).
* A probe is made of required keys and met by optional ones of another variant
  (`Probe`, excluded by `Telling`).
* Members of a merged untagged union are looked up by Go name (`Flatten`, excluded by
  `SameNames`).
* The generator would advance an `offset` by one item, not by one page
  (`AdvanceLimit`; no iterator in the repository has one).
* Of unions that list each other none is top-level, and their variants are left
  without markers (`Seed`; `Reached` leaves them out).
* Whether an untagged union becomes an interface depends on how its name sorts
  (`Disjoint`).

Met while reading and not modelled: `transport.go:80-82` and `retry.go:20-22`
describe the policy as consulted on failures, while `dispatch` asks it about
every outcome; `retry.go:33-34` speaks of jitter, of which there is none;
`MaxDelay` does not limit a `Retry-After`; `revolut.go:77-78` names
`http.DefaultClient` as the default where the code has a client of its own with a
timeout; a negative `MaxAge` in `webhook.go:107` also switches off the check of
future timestamps.

## Limits of the models

* Draining and closing a body is one step; the size limit of responses is left
  out, and so are redirects, which the HTTP client follows by itself.
* `BearerLiveOnWire` ends at the write: the way to the server is not counted.
* A token is not revoked before it expires. The code has no reaction to a 401.
* Signing the assertion or the request, which involves no state, is part of the
  step that sends it.
* `AuthCode`: a write of the snapshot is atomic, which `os.WriteFile` is not; a
  session that was lost stays so, as a second consent is not modelled; and the
  code has no caller of `Snapshot`, so who writes it and when is left open.
* `Credential` and `Listing` are promises and have no source lines of their own.
* Collections only grow: an item that is deleted, or leaves a filter, between two
  pages is not modelled. Times in `Pagination` are instants; the code compares
  `time.Time` values, which also carry a location.
* The shape of an iterator is given; how the generator detects it from the API
  description is not modelled.
* `Bootstrap`: a query is its code, error and state, right or wrong; TLS handshakes
  and the fragment page of `ob-bootstrap` are not told apart from other pages.
* `Generator`: a payload is its top-level keys and tags. Of the loader there is the
  sorted order of the schemas. `allOf`, inline schemas, enums, aliases and
  parameters are left out of the builder, `Validators`, `ResolveNames` and the imports
  out of the passes: names are taken not to collide with those of clones, and
  validators only refuse bodies before they are sent.

## Not modelled

* **Webhook verification** (`webhook.go`) and **JOSE** (`openbanking/jws_*.go`,
  `jwks.go`, `requestobject.go`, `clientassertion.go`, `auth/jwt/signer.go`) are
  functions of their arguments without state or interaction. A model would repeat
  their conditions as its properties; their tests go through them. A failing
  signature is an outcome of the request that needs it.
* **Consent URLs, mutual TLS** and the **small helpers** assemble values.
* **The generated packages**: about 25,000 of the repository's lines are the types,
  enums and methods in `*/gen_*.go`, one like the other. What they do is in the
  definitions that model the generator's output and in `Pagination`; no definition
  stands for the type of one endpoint, so that only a small share of the lines of
  the repository appears in `map`.
* **Rendering** (the rest of `cmd/revogen/emit`, naming, comments, formatting) has no
  behaviour beyond the text it produces.
