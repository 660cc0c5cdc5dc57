# A formal model of pkimetal

pkimetal is a PKI meta-linter: an HTTP server that takes a certificate, a CRL or
an OCSP response, has it checked by up to ten linters at once, and answers with
all their findings before a deadline.  This directory holds TLA+ modules of its
core logic, TLC configurations that check them on small instances, and TLAPS
proofs of what the runs show, for instances of any size.  All paths below are
relative to the repository.

## 1. The system and its parts

| Part | State | Operations | Talks to |
|---|---|---|---|
| HTTP handlers (`server/server.go`) | `fhctx.Response` of each request | route a request; answer a timeout | start a goroutine per request, wait for it in `health.CompleteRequest` |
| Validation (`request/post.go`, `input.go`, `certificate.go`, `crl.go`, `ocspResponse.go`, `endpoint.go`) | `RequestInfo`: endpoint, profile, severity, and the input as text, bytes and parsed certificate | an if-else chain of six checks | hands a `LintingRequest` to the dispatch, or an error message to the response |
| Profile detection (`request/autodetect.go`) | none | a cascade over policies, key usages, subject attributes, QC statements and CCADB | reads the parsed object |
| Profiles (`linter/profile.go`) | 105 profiles and 14 lists derived from their names, fixed at start | membership tests | read by the dispatch and by every linter |
| Request dispatch (`request/post.go`) | per request: `lresp`, `nlresp`, the context | submit loop, collect loop, sort, filter, response | sends on the linters' `ReqChannel`, receives on its own unbuffered `RespChannel` |
| Server loops (`linter/linter.go`) | per instance: the request in hand, `clientGone`, the deadline of the backend | take, lint, `sendResult`, stop | read `ReqChannel`, send on `RespChannel` |
| External backends (`linter/linter.go`; `badkeys`, `certlint`, `pkilint`) | a process, three pipes, `backendInitMutex` | start, warm up, write, scan, restart, stop | the server loop of the instance |
| Completion and health (`health/health.go`, `server/readyz.go`) | `doneChan`, the context, `latestBusyTimestamp` | `CompleteRequest`, `UpdateLatestTimestamps`, `IsReady` | the handler and its goroutine |
| ftfy, pwnedkeys (`linter/ftfy`, `linter/pwnedkeys`) | a process behind a mutex; `retryAfter` | `HandleRequest` | a pipe; an HTTP API |
| Start and shutdown (`main.go`) | `ShutdownWG`, the signal context | `StartLinters`, `StopLinters`, deferred calls | every server loop |
| Scripts of the external linters (`badkeys`, `certlint`, `pkilint`) | the profile and the text read so far | read a line; lint and print at the last line of an object | the pipes of their instance |
| Configuration, logging, web pages, metrics, version discovery | constants after start | formatting | - |

What is hard about it, part by part, and what makes it correct:

* **Dispatch and server loops.**  Goroutines meet on bounded request channels and
  an unbuffered response channel; every select races with a deadline, and one
  send (`post.go:103`) heeds none.  Correct means: an answer that no deadline cut
  short is complete; a counter of sentinels is never off by one; nobody waits for
  somebody who waits for him; a client that went away costs nothing but its own
  answer.
* **Backends.**  A process can die, hang or print something unexpected at any
  moment, while its client may be gone.  Correct means: a request is never
  answered with another one's findings, a process is killed only for a reason,
  its instance always serves again, and shutdown ends.
* **Completion.**  A handler that gives up and the goroutine it gave up on own
  the same response object.  Correct means that what a client gets was written
  by one of them, whole.
* **Health.**  Times are noted outside the lock.  Correct means that the latest
  timeout is remembered and readiness honours it.
* **ftfy and pwnedkeys.**  One line is written to a process and one is read, with
  nothing that ties them together; a time that an API asks for is tested and raised
  under a lock, but the API is called between the two.  Correct means that an answer
  rests on the line for its own text, and that every time asked for is kept to once recorded.
* **Start and shutdown.**  A signal reaches `main` and every server loop at once, at
  any moment of start-up or service.  Correct means that no client is told what was
  found after the cleanup, and that the process ends with nothing left behind.
* **Scripts.**  A program in another language counts lines.  Correct means that it has
  read, and answered, exactly one request when the server loop thinks so.
* **Validation, detection, profiles.**  Sequential, but the same facts are
  written in several places: two tables for precertificates and certificates,
  lists derived from names by the order of tests, and rules chosen by membership
  in each linter.  Correct means that these places agree.

`PROJECT.json` lists the hazards at their lines with the properties that cover
them, and the reason where none does yet.

## 2. The modules

| Module | What it models | How it corresponds to the code |
|---|---|---|
| `LintService` | What dispatch promises a handler, abstractly: a request is open until it is answered, hears each linter it uses at most once and never after its context is closed, and is answered when it heard all of them or its context is closed | abstract, has no code of its own |
| `ServerLoop` | What a linter's goroutines promise their clients, abstractly: a request is received by one instance and not after its deadline; a turn works, sends its findings and is closed, after a failure too; a result goes undelivered only after the deadline; a loop ends between turns | abstract: the places of `serverLoop` and `sendResult` without channels, processes and what `HandleRequest` does |
| `Dispatch` | POST goroutines, their handlers, request channels, server loops, response channels, deadlines, the stop signal | `post`, `next`, `nlresp`, `metas` are the locals of POST; `queue` the `ReqChannel`s; `pc`, `cur`, `left`, `gone` the locals of `serverLoop`; `blocked` says that a loop is parked in the select of `sendResult`; one action per arm of each select |
| `Backend` | External instances, their processes and pipes, `backendInitMutex`, warm-up, backend timeout, restart and stop | `stdin` and `stdout` hold requests and tokens marked with the request they answer; the loop never reads the mark |
| `Completion` | The race of `CompleteRequest` and the writes to `fhctx.Response` of goroutine and handler, field by field, for POSTs of known and of unrecognised response formats, `/readyz` and `/livez` | `resp` is the response object, `sent` the copy that fasthttp sends |
| `Health` | `UpdateLatestTimestamps`, `IsReady` and `IsAlive` under a clock | noting the time and taking the lock are two steps; copying and comparing too |
| `Monitoring` (on `Completion`, with an instance of `Health`) | The web server and the monitoring server together | `CompleteRequest` of a POST records the timeout before the handler answers it; what a probe sends is what `IsReady` or `IsAlive` returned |
| `InProcess` | The server loop around `HandleRequest`, its requests and their handlers | `pc` also says where in `HandleRequest` the loop stands; `found` is what it returned |
| `Ftfy` (on `InProcess`) | ftfy's `HandleRequest`, the script and its process | a text is what separators it holds and whether a `bufio.Scanner` holds it; a line of output remembers the texts it answers |
| `Pwnedkeys` (on `InProcess`) | `retryAfter`, its test, the API call, `respectRetryAfter` | the test, the call and the raising are three steps; a Duration wraps round |
| `Lifecycle` (on `Ftfy` and `Pwnedkeys`) | `main`, `StartLinters`, `Run`, `Shutdown`, `StopLinters`, `ShutdownWG`, around ftfy, pwnedkeys, dwklint and x509lint | `main` is where main stands, `running` the counter of `ShutdownWG` |
| `Profiles` | The profiles, the lists of `init`, each linter's `Unsupported` list, and its choice of parser and rules | a profile is its name, as the sequence of words that the code looks for |
| `Scripts` (on `Profiles`) | The lines that `serverLoop` writes for a request, what the three scripts do with them and print, and `parseResultToken` | a line is what it is and whose; a script is a recursive function over the lines |
| `Autodetect` (on `Profiles`) | Every function of `autodetect.go` | an object is the record of the features that the code reads |
| `Intake` (on `Autodetect` and `Scripts`) | The validation chain of POST, the input in its three forms, the linting request, the response | one action per link of the if-else chain, in its order |
| `SequenceLemmas` | Facts about sequences that the proofs share | - |
| `DispatchProofs`, `BackendProofs`, `CompletionProofs`, `MonitoringProofs`, `LifecycleProofs`, `IntakeProofs` | The inductive invariant of each module, its theorems and their proofs; `LifecycleProofs` covers `InProcess`, `Ftfy` and `Pwnedkeys`, `MonitoringProofs` covers `Health` | - |
| `AutodetectProofs` | What detection returns for an object with any features, the lists that a profile is in, and the twins of profiles, used by `IntakeProofs` | - |

`Dispatch` sees of a backend its tokens and errors, which is what `Backend`
explains; `Backend` sees of a client that its deadline passes, and of a request one
item in a pipe, whose lines are in `Scripts`.  `Intake` ends where `Dispatch`
begins: its `Lint` is one step with any severities as result, and `Dispatch` starts
with a request that passed validation.  `Completion` sees of all the work of a
goroutine that it ends, whole or cut by the deadline.  `Monitoring` synchronises
the actions of `Completion` and `Health`, which share `ready`: a step of one is a
step of the other, or leaves it alone.  `Lifecycle` is a family of behaviours, each
around one linter: how several linters answer one request is in `Dispatch`.
`Dispatch` refines `LintService` under the mapping at its end (`Service`).

Three modules model the server loop, each with another part of its surroundings in
detail.  `ServerLoop` is what they have in common, and each refines it under the mapping
`Loops` at its end, so that they cannot come to disagree about it:

* `Dispatch` hides channels and parked sends.  A request is due at a linter as long as it
  is to be submitted there, is queued, or was just taken: a loop that has taken a
  request and not yet looked at its context has not received it in the abstract.
* `Backend` hides the process, its pipes and tokens, the mutex, the warm-up and the two
  sends that close a turn.  What the process does only decides when a loop sends, fails
  and is mended.
* `Lifecycle` hides what `HandleRequest` of ftfy, pwnedkeys and the others does, and
  where main is: ftfy's start and the clean-up do not end a loop in its turn.

A Go select is modelled as it runs: a goroutine that reaches a select takes any
ready case; one that is parked is committed to the first event that makes a case
ready.  So closing a context is one step that releases everybody parked on it
(`CloseCtx`), and not a flag that they may come to look at later.  This is what
makes `AnswersComplete` true: had a goroutine, parked before its deadline, still
the choice afterwards, a finding could be dropped and its END delivered.

## 3. What the runs check

Every configuration sets `CHECK_DEADLOCK FALSE`, because each behaviour is about a
finite set of requests and stops when they are done, or when the process was told
to stop; that nothing stops early is what the liveness properties say.

**`dispatch`** (two requests, three linters: in-process, without instances,
external; queues of one; one finding in hand; deadlines at any moment).
`CountMatches`: while the goroutine relies on `nlresp`, it is the number of linters
whose end is still to come.  `AnswersComplete`: an answer not cut by the deadline
holds every finding and a META result of every linter.  `BlockedOnLiveRequest`:
a loop parked in `sendResult` waits for a goroutine that will come.
`NoCyclicWait`: since all requests submit in the sorted order, such a goroutine can
itself only be held up further along.  `NothingAfterDone`: nothing is added to a
closed request.  `ServiceSpec`: the refinement of `LintService`.  Two requests and
two loops are the smallest instance in which a loop of one request blocks the
other's submission; a queue of one fills at once; the unused linter exercises the
skipping arm.  Requests are symmetric: they differ in nothing.

**`dispatch_live`** (two requests, one external linter, the stop signal at any
moment).  `HandlerReturns`, `GoroutineEnds` and `LoopFreed`: the handler returns at
its deadline even while its goroutine stands in the submit loop, the goroutine
ends unless the loops stopped and left it at a full queue, and no loop is held by
a request for ever.  `LoopsSpec`: the refinement of `ServerLoop`, with a stop at any
moment: neither a full queue, nor a deadline between two sends, nor a restart makes a
loop leave a turn open, drop a result that was still wanted, or take a request late.

**`dispatch_untimed`** (no deadline, two requests, an in-process and an external
linter).  `AnsweredInTime`: nothing but the protocol ends a wait here, so a lost
sentinel or a cycle of waits would show as a request that stays open.  In the
timed runs deadlines would hide both.

**`backend`** (one instance with a ready signal under three requests; two instances,
one with a ready signal, that share the mutex and compete for one request; a pipe
of two tokens; a stop signal at any moment).  `InStep`: what is in the pipes belongs
to the request in hand.  Three requests let a turn follow a failed turn that
followed a good one; a pipe of two holds a finding behind an end.
`KilledOnlyAfterFailure`: only a dead, hung, misbehaving or late process is
restarted, never one whose client left.  `ServesAgain`: whatever a backend does, its
instance is free again.  `LoopsEnd`: after a stop signal, start-up included, every
loop and its process end, and with them `ShutdownWG.Wait`.  `LoopsSpec`: the refinement
of `ServerLoop`: no finding is sent after one that went undelivered, a failure is mended
before the turn is closed, and no request is received by both instances.

**`monitoring`** (a POST with a readiness probe; two POSTs that may both time out;
a POST of an unrecognised response format; a liveness probe; a clock of three values and a window of one; every interleaving of
the accesses to the response).  `AnswerIsWhole` and
`ProbeIsConsistent`: a handler that did not take the timeout sends what its
goroutine wrote, in full; for a POST of an unrecognised format, for which no send
function is called, that is the status 400 it began with and neither type nor body.
`BusyIsLatest` and `NotReadyWhileBusy`: two handlers can
get the lock in the other order than they noted their times, and the clock passes
the window's boundary between the probe's copy and its comparison.
`NotReadyAfterTimeout`: end to end, a client that was told of a timeout and asks
`/readyz` afterwards is not told that the server is ready before the window has
passed.

**`lifecycle`** (ftfy: one instance, two requests, texts with and without separators,
one that raises and one of more than 64 KiB, a process that may die or hang, a signal at any moment;
pwnedkeys: two instances, three requests, times that are short, wrap round, are
dates or nonsense; dwklint: one instance, two requests, a signal at any moment).
`LinesStayInStep`: as long as no text breaks the exchange of one line for one line,
every answer rests on the line for its own text, whoever gave up or died.
`SetsOutAfterLimits`: no request passes the test before a time that any instance
worked out of a Retry-After is over.  The exception is in the formula: a time that its
instance has worked out, and for which it still waits to take the lock, holds nobody
back, since `respectRetryAfter` reads the clock before it locks.  `OverrunBounded`: while such a time is to come, at most one
request of each other instance still calls.  `AnswersPredateCleanup`: `StopLinters`
runs while loops may be in `HandleRequest`, but no client is told what was found
after it, because the server was drained before.  `ExitIsClean`: main exits when
every loop has ended and every process is gone.  `Exits`: after the signal it does
exit, unless ftfy's process hangs or left out the end of a line, which nothing
bounds.

**`intake`** (slices of requests: endpoints and formats; endpoint, content type,
fields, encoding and shape of the bytes; all 105 profiles and all severities by
name; the features of roots; policies with all QC statements; key usages alone and
in pairs with what CCADB lists).  `SameInputForAll`: the three forms of the input
are one object, the one submitted, or it in a dummy signature.
`LintersReadTheirKind`: with a detected profile no linter parses another kind of
object than the endpoint took.  `CertTypeFits`: x509lint, zlint and ctlint treat a
certificate as what the code's own test for root, subordinate, leaf and
precertificate says.  `PrecertTwins`: a certificate and its precertificate get the
same profile but for the suffix.  `TlsLintersAgree`: the linters choose TLS rules
for the same profiles, ETSI site certificates excepted.  `LintedOrTold`: a request
is linted or told why not.  `ScriptsAnswer`: the script of every external linter that
a detected profile goes to reads the request to its last line, prints lines that
`parseResultToken` understands and one end, and is ready for the next request.
`PkilintLints`: pkilint has rules for every object under its detected profile.  A slice
varies the fields that one piece of code reads together; fields that
are never read together do not need their product.

Four hazards, stated from the repository's own words, are refuted:

* **`backend_serial`**: `OneWarmUpAtATime`, from the comment on `backendInitMutex`
  ("simultaneous (re)starts"): a restart does not take the mutex.
* **`completion_503`**: `TimedOutGets503`: the goroutine of a timed-out request can
  put status 200 back before the response is copied.
* **`intake_bad_request`**: `BadRequestGets400`: `doc/openapi.yaml` promises status 400
  for requests that fail validation; the send functions return 200.
* **`ftfy_one_line`**: `OneLineString`, from the comment in ftfy's `HandleRequest`
  ("Produce a one-line string"): only line feeds are replaced, and a text with
  another separator is answered by two lines, of which the second is compared with
  the next certificate's text.

and one condition of the code never takes effect:

* **`intake_etsi_web`**: `EtsiWebIsTbrTevg`: the test for ETSI site certificates at
  `profile.go:285` is in the else branch of a test that they all pass.

## 4. Fairness

Safety runs use `Spec`, which assumes nothing.

`Dispatch!Fairness`: weak fairness of the goroutine, handler and loop steps (the
Go scheduler runs what is runnable and hands a channel to a waiting sender), weak
fairness of `Expire` (a timer fires), and strong fairness of `EndToken \/
BackendError`: a backend could print findings for ever, but
`lin.backendDeadline` bounds the tokens of one request, so an end or an error
comes.  Nothing is assumed about which arm of a select is taken, about the arrival
of requests, or about the stop signal.

`Backend!Fairness`: weak fairness of the loop and of the backend timer, strong
fairness of `Start` (a Go mutex is handed on under starvation) and of the error
arm of the scan, which the expired timer keeps enabled between tokens.  Of a process only this is
assumed: its initialisation ends in readiness or death, because `warmUp` has no
deadline, and it reads its input and exits when STDIN closes, as the scripts do.
It may crash or hang at any time; a process that hangs before it is ready would
hold the instance, and the mutex, for ever, and no property claims otherwise.

`Lifecycle!Fairness`: weak fairness of main, of the loops, of the deadlines and the
handlers, and of ftfy's process as long as it neither hangs nor dies.  An API call
ends because the HTTP client of pwnedkeys has a timeout and the request's context.
Requests, the signal and failures of the process are left to chance.

## 5. What is proved

Every safety property and every action property that a passing run checks is also a
theorem.  The runs show them on small instances;
the theorems hold for all values of the constants that satisfy the named assumptions.

| Module | Theorem | States | Of |
|---|---|---|---|
| `DispatchProofs` | `TypeCorrect` | `Spec => []TypeOK` | every number of requests, linters and instances, every queue size, every number of findings |
| | `CountsEnds` | `Spec => []CountMatches` | |
| | `NothingMissing` | `Spec => []AnswersComplete` | |
| | `NeverBlockedForNobody` | `Spec => []BlockedOnLiveRequest` | |
| | `WaitsAreAcyclic` | `Spec => []NoCyclicWait` | |
| | `NoLateResults` | `Spec => NothingAfterDone` | |
| | `ImplementsService` | `Spec => ServiceSpec` | |
| | `DispatchImplementsLoop` | `Spec => LoopsSpec` | |
| `BackendProofs` | `BackendTypeCorrect` | `Spec => []TypeOK` | any instances and requests, any pipe size |
| | `PipesStayInStep` | `Spec => []InStep` | |
| | `RestartsHaveACause` | `Spec => KilledOnlyAfterFailure` | |
| | `BackendImplementsLoop` | `Spec => LoopsSpec` | |
| | `FirstWarmUpsAlone` | no two first starts warm up together | |
| `CompletionProofs` | `CompletionTypeCorrect` | `Spec => []TypeOK` | any POSTs and probes |
| | `PostAnsweredWhole` | `Spec => []AnswerIsWhole` | |
| | `ProbeAnsweredWhole` | `Spec => []ProbeIsConsistent` | |
| `MonitoringProofs` | `ImplementsCompletion` | `MonitoringSpec => Spec` of `Completion` | any POSTs and probes, any clock and window |
| | `MonitoringTypeCorrect` | `MonitoringSpec => []MonitoringTypeOK` | |
| | `MonitoringPostWhole`, `MonitoringProbeWhole` | the two promises of `Completion` | |
| | `BusyTimestampIsLatest` | `MonitoringSpec => []BusyIsLatest` | |
| | `ReadyMeansQuiet` | `MonitoringSpec => []NotReadyWhileBusy` | |
| | `TimeoutThenNotReady` | `MonitoringSpec => []NotReadyAfterTimeout` | |
| `LifecycleProofs` | `LifecycleTypeCorrect` | `LifecycleSpec => []LifecycleTypeOK` | any finite set of instances, any requests, texts, Retry-After values, width of a Duration and clock |
| | `LinesKeptInStep` | `LifecycleSpec => []LinesStayInStep` | |
| | `OverrunIsBounded` | `LifecycleSpec => []OverrunBounded` | |
| | `LimitsRespected` | `LifecycleSpec => SetsOutAfterLimits` | |
| | `NoAnswerAfterCleanup` | `LifecycleSpec => []AnswersPredateCleanup` | |
| | `CleanExit` | `LifecycleSpec => []ExitIsClean` | |
| | `LifecycleImplementsLoop` | `LifecycleSpec => LoopsSpec` | |
| `IntakeProofs` | `TypeCorrect` | `Spec => []TypeOK` | any requests, with objects of every combination of features and any sequence of policies |
| | `OneObjectForAll` | `Spec => []SameInputForAll` | |
| | `NeverSilent` | `Spec => []LintedOrTold` | |
| | `KindsFit` | `Spec => []LintersReadTheirKind` | |
| | `TypesFit` | `Spec => []CertTypeFits` | |
| | `TwinsAgree` | `Spec => []PrecertTwins` | |
| | `TlsRulesAgree` | `Spec => []TlsLintersAgree` | |
| | `PkilintHasRules` | `Spec => []PkilintLints` | |
| | `ScriptsAnswerAll` | `Spec => []ScriptsAnswer` | |

`SequenceLemmas` has the facts about `Append`, `Tail`, `Head` and concatenation that
these proofs share, and `AutodetectProofs` what detection returns.

**Assumptions.**  Only the named assumptions of the modules, which TLC evaluates on
every run: `DispatchAssumption` (finitely many instances, each of a linter; queues have
room for at least one), `BackendAssumption` (a pipe holds at least one token),
`CompletionAssumption` (a POST is no probe; those of a known format are POSTs), `MonitoringAssumption` with `Health`'s,
`InProcessAssumption` (finitely many instances: `num_instances` of the configuration is
a number), `FtfyAssumption`, `PwnedkeysAssumption` (`HalfRange` is positive) and
`IntakeAssumption` (what is submitted is one of `Submitted`: bytes of some shape with
some record of `Features`).  None of them bounds a number.  Where a module has a bound
that only keeps TLC's state space finite, the theorem holds for each of its values.

### Dispatch

None of the theorems is inductive alone.  The invariant `IInv` adds what they rest on:

* `RequestLocal`, `LoopLocal`: how the variables of one goroutine and of one loop fit
  together (a parked goroutine still expects somebody, a loop in mid-turn holds a
  request, `gone` is only set after the request's context closed);
* `QueueInv`, `HeldInv`: a request is at most once in a linter's queue or in the
  hands of one of its loops, only if it was already submitted there, and not after
  that linter's end was counted.  Without it a second end of the same linter could
  not be excluded and `CountMatches` would fail;
* `HeardInv`: a linter that was heard is one the request was sent to; one that lost a
  finding is not heard, because the request's context is closed;
* `MetaInv`: a linter that the submit loop has passed is used or has its META result,
  and so has one that was heard, or whose loop is about to send its end in time;
* `CountMatches`, `AnswersComplete`, `BlockedOnLiveRequest` themselves.

The argument for completeness is short: a finding is lost
only when the context is closed; a closed context releases a parked goroutine in
the same step; and one that was not parked either was cut off, which is
`abandoned`, or heard all ends before.  `WaitsAreAcyclic` needs only that a request
is never in the hands of a loop that its submit loop has not passed.
`ImplementsService` maps each action to a step of `LintService` or to a stutter,
from `IInv`.

`DispatchImplementsLoop` needs one more invariant, `FreeInv`: a loop without a turn holds no
request, and only a loop with a backend scans.  That a request is received by one instance of a linter
only comes from `HeldInv` and `QueueInv`: one that is in the hands of a loop is neither queued
there again nor still to be submitted there, so that it is due no more (`DueKept`, and
`LoopsSubmit`, `LoopsFetch` and `LoopsReceive` for the three steps at which it moves).
`LoopsClose` is the step that closes a context: it releases every loop parked on that
request at once, several of different linters maybe, and is one step of the abstract
specification too.

### Backend

`InStep` says what a loop that reads a token finds; it does not say why, and is not
inductive.  `LocalInv(i)` is, and speaks of one instance only, which no step of another
touches (`LocalUntouched`):

* `Mine`: whatever is in the pipes is the ready signal or of the request in hand;
* `Order`: a request is on STDIN, or in the process, or answered, and its end is the
  last line that it prints;
* `Quiet`: while no answer is read, no request is on its way, and outside a warm-up
  nothing is to be read either;
* `WarmUpInv`: before its first request a process prints its ready signal at most;
* `FailureSeen`: a loop is on its way to a restart only after a failure, which is still
  to be seen; `Turn`: a loop has a request in hand exactly while it serves one.

`MutexHeld` ties `backendInitMutex` to the first warm-up: it gives
`FirstWarmUpsAlone`, the part of the promise of `backendInitMutex` that the code does
keep; `OneWarmUpAtATime`, which speaks of restarts as well, is refuted by the run
`backend_serial`.

`BackendImplementsLoop` rests on the types alone, and `LifecycleImplementsLoop` on the types
and on `HoldInv` (a loop in its turn holds a request that came): what a process or
`HandleRequest` does shows in the abstract loop only through the step that the loop takes
next.  For `Lifecycle` the refinement is not a run of its own; TLC's part of the evidence
is that of `dispatch_live` and `backend`, and the theorem covers the rest.

### Completion and Monitoring

`WebInv(r)` and `ProbeInv(r)` say for each place of a goroutine which fields of the response
it has written, as long as the handler did not take the timeout (`ResultWritten` of a POST
with a result, `RefusalWritten` of one whose format is not recognised), and `Waits(r)` that a
handler which took `doneChan` finds a goroutine past its last write.  `ImplementsCompletion` shows that `Monitoring`
is a `Completion` whose probes have learnt what to answer, so the theorems of
`Completion` are theorems of `Monitoring` without a second proof.  `HealthInv` follows
a timeout from the handler to the probe: a handler that goes on to answer has recorded
its time (`PostHealth`), the timestamp is at least every recorded time, and what a
probe copies covers what was recorded before it came (`ProbeKnows`, `ProbeCovers`).
That a handler records before it answers is the order of two statements in
`CompleteRequest`; swapped, `NotReadyAfterTimeout` fails.

### Lifecycle

`IInv` has one part for each argument:

* `MainInv`: `running`, the counter of `ShutdownWG`, is the cardinality of the set of
  loops that run; no loop is left to be started once `StartLinters` returned; no
  handler is open once the web server is drained.  `ProcInv`: a Python process runs
  only under a loop.  `CleanExit` follows from the two;
* `ReliableInv`: what was found by a linter that was cleaned up under it is never in an
  answer, since cleaning up comes after the draining of the server;
* `PipesInv`: if no text is odd, the pipes of ftfy hold at most the request that its
  loop waits for, or the one line for it, and its Scanner reads on.  The condition is in
  the property, as `ftfy_one_line` shows that it has to be;
* `LimitInv`: while a limit is in force, the calls that overran it and the instances
  that still may, together, are fewer than the instances configured.  This is stronger
  than `OverrunBounded`: the bound alone says nothing of those that have passed the test
  and not called;
* `GivenInv`: a time that was worked out is at most `retryAfter`, or an instance is about
  to record it.  `SetsOutAfterLimits` follows, as the test compares `retryAfter` alone;
  that the times stay covered is what raising `retryAfter`, and never lowering it, is for.

### Intake and detection

`IInv` hands the input and the profile through the stages: `InputInv` (the three forms
are one object, made of what was submitted), `ProfileInv` (the profile is the
detected one, of the bytes that the linters get, or the client's), `KnownInv` (it is one
of the 105 at any time), `ToldInv` (one message at most, and none with a linting
request).  Six theorems then are facts about detection, for an object with any
features, in three steps of `AutodetectProofs`:

1. *Chains.*  Every function of `autodetect.go` is a chain of steps that may give a
   profile, and the first that does decides.  What holds of every step holds of the
   chain (`RootDetected`, `SubordinateDetected`, `LeafDetected`), also of the loop over
   any number of policies.  So detection returns a name of a small family
   for each kind of object.
2. *Names and lists.*  A profile's name is written out as a tuple of words and the
   derived lists are read off it, which is what `init` of `profile.go` does with
   `strings.Contains` and its relatives.  `EveryProfileFits` says which lists a profile
   can be in together; what each linter does with it follows from that.
3. *Twins.*  The twin of a profile is its name with the suffix, if that is a profile,
   and the profile itself if not.  For two certificates that differ in the poison only,
   every step gives twins (`TwinOfPolicy`, `TwinOfPerson`, `TwinOfIssuer`, `TwinOfLeaf`), and so
   does the chain: a step gives something for the one exactly if it does for the
   other, so that the chain stops at the same place.

`ScriptsAnswerAll` adds the scripts.  `Script` is recursive over the lines of one request,
and these are four, the base64 text counting as one (`WrittenLines`): a script only looks
for the last line of an object.  So the recursion is unrolled (`FourLines`) and needs no
induction.  It gives what each script does with a request whose last line it waits for
(`ScriptReads`); that it waits for the one of a detected profile follows from what detection
returns and what linters register (`DetectedKind`, `LintersRead`), and
`LinesAreFindings` says that `parseResultToken` understands whatever is printed for it.

### Only model-checked

* Liveness: `HandlerReturns`, `GoroutineEnds`, `LoopFreed`, `AnsweredInTime`,
  `ServesAgain`, `LoopsEnd`, `Exits`.  TLAPS 1.4.5 proves neither `ENABLED` nor liveness under
  fairness.
* The five properties that the code does not have (section 3) have counterexamples
  instead.

TLC was asked first each time.  A proof that a step preserves an invariant has a step
for each action, and lemmas that speak of all actions at once (`StepMoves` of
`DispatchProofs`, `StepKinds` and `StepCases` of `LifecycleProofs`) where several conjuncts
need the same fact.

## 6. Bounds

`MaxResults` (findings in hand at once), `PipeBound` (tokens in a pipe) and
`MaxTime` (the clocks of `Health` and `Pwnedkeys`) bound what would be infinite;
`Requests`, `Instances`, `NLinters` and `MaxQueueSize` are parameters.  The theorems
of section 5 hold for all of their values.  A loop sends its findings one after the
other and a finding is treated no differently from the one before, so one or two in
hand reach every arm.

`Loads` says which instances and requests take part in a behaviour: one run can so
explore a deep instance (one process, three requests) and a broad one (two
processes, one request) without their product.  An instance or a request that does
not take part has no loop, or never comes.  In `Lifecycle`, `Timed` names the
requests whose deadline may pass and `StopsWith` the linters around which the signal
is explored: the signal meets pwnedkeys in the same places of the loop as dwklint,
and a deadline that passes while the API is called ends the call, as its answer does.
`HalfRange` is the width of a Duration: with 4, a wait of 4 seconds is already
negative.

## 7. What is not modelled

* What a linter finds: the libraries are outside the repository.  Their answer is
  any set of findings.
* The text of findings, the format of pages and of the results, logging, metrics:
  formatting without state.  So is the configuration, which is read once.
* DER parsing: `Intake` has the shape of the bytes, `Autodetect` the features that
  the code reads.  The dummy signature is modelled by its effect: it parses, it
  verifies with no key, and the bytes have another hash.
* CCADB: what it lists for an issuer and for a certificate is a feature.
* The goroutine that logs STDERR, and the table of pkilint's finding descriptions.
* How many versions of which packages are installed (`pipx.go`, `GetPackageVersion`).

Assumed of what is outside: `fasthttp`'s `Shutdown` returns when no handler runs, a
handler that gave up counting as one that has returned; a server that is shut down
has begun to listen (`Run` starts its listeners in goroutines, and `Shutdown` before
they listen does nothing: `AnswersPredateCleanup` and `ExitIsClean` rest on this); a
process that is not said to hang reads its STDIN and exits when it closes.  A line of
output of more than the 64 KiB of a `bufio.Scanner` is one of the lines that `Backend`
rejects; ftfy's Scanner is never replaced, and `Ftfy` has what it does after such a
line.  The pipes of `Ftfy` have no bound: a process that stands at a full one is one
that hangs.  A finding that a script prints is one line, the text of an exception
included: one with a line feed would be read as more lines than `Scripts` has.  Starting
ftfy under `backendInitMutex` is in `Backend`, which starts every process.

Three observations made on the way are not runs, as the repository says nothing
that they contradict:

* A client may name a profile that is not of the kind of its object.  Then `badkeys`
  or `certlint` may be given a CRL, whose last line their scripts do not wait for;
  the backend timeout ends the turn, and costs the instance a restart.  This is why
  `ScriptsAnswer` and `LintersReadTheirKind` speak of detected profiles.
* The comment at `linter.go:409` says that `HandleRequest` is bounded by the request's
  deadline; ftfy's does not look at its context.  `Exits` names the exception.
* pkilint prints its report as one line.  One of more than 64 KiB is an error of the
  scan, and the process is restarted although nothing is wrong with it.

## 8. The plan

Done so far, most important behaviour first:

1. `LintService`, `Dispatch`, `MCDispatch`: the path of a request.
2. `DispatchProofs`: its invariant and the refinement.
3. `Backend`, `MCBackend`: the processes behind `Dispatch`'s tokens.
4. `Completion`, `Health`, `Monitoring`, `MCMonitoring`: what clients get, and what
   their timeouts do to readiness.
5. `Profiles`, `Autodetect`, `Intake`, `MCIntake`: what is linted, and as what.
6. `InProcess`, `Ftfy`, `Pwnedkeys`, `Lifecycle`, `MCLifecycle`: the linters with a
   state of their own, and the process from its start to its end.
7. `Scripts`: the wire between the server loops and the scripts.
8. `BackendProofs`, `CompletionProofs`, `MonitoringProofs`, `LifecycleProofs`,
   `AutodetectProofs`, `IntakeProofs`: all their safety and action properties.
9. `ServerLoop`: one statement about the server loop, refined by `Dispatch`, `Backend` and
   `Lifecycle`.

Left, in this order:

* An abstract specification for `Completion`: a response register that is written once;
  it follows from `WebInv` and `ProbeInv`.
* The liveness properties, when the prover knows `ENABLED`; what they need of safety is
  in the invariants above.

## 9. Running

    tlc -workers 2 -config MCDispatch.cfg MCDispatch
    tlapm DispatchProofs.tla      (and the other modules named ...Proofs, and SequenceLemmas)

The operators commented `Variant:` are mutations of a definition; `PROJECT.json`
pairs every checked property with a variant under which it fails.
