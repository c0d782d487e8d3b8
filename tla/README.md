# TLA+ models of the Advanced iMessage Go SDK

This directory holds TLA+ modules for the concurrent and failure-prone parts of
the SDK, the TLC configurations that check them on small instances, and proofs
for TLAPS that hold for every value of the constants. `PROJECT.json` maps every
definition to the lines it models and lists runs, mutants, hazards, findings and
theorems.

    tlc -workers 2 -config MCResumable_safety.cfg MCResumable
    tlapm ResumableProofs.tla

Paths below are relative to the repository root.

## 1. The system

| Component | Source | State | Operations | What is hard | What makes it correct | Modelled in |
|---|---|---|---|---|---|---|
| Resumable engine | `resumable.go`, `eventsvc.go` | cursor and back-off (locals of `run`), context, channel `out`, `done`, `consumed`, `err`; the caller's `SequenceStore` | `run`, `catchUp`, `live`, `saveCursor`, `trySend`, `Events`, `Err`, `Close` | a loop over failing streams, a save concurrent with the loop body, crashes between hand-off and save, two nested subscriptions | no event is skipped, across reconnects and restarts; it never gives up; `Close` returns with the cursor saved and nothing left behind | `Resumable`, `ResumableStream` |
| Transport subscription | `internal/transport/stream.go` | derived context, channel `out`, `done`, `consumed`, `closeOnce`, `err` | `pump`, `trySend`, `Events`, `setErr`, `Err`, `Close` | `select` on a ready consumer and a done context; `Close` from several goroutines and from the loop body | events in order, once; no goroutine or RPC left after `Close`; failures are visible | `Subscription` |
| Interceptor chain | `internal/transport/{interceptor,dial,transport}.go`, `token.go` | per call: context, header, attempt, timer; per client: the configuration | auth, timeout, idempotency, retry | lost replies, retried writes, deadlines against late answers, the order of the interceptors | a write is applied once, attempts are bounded and sequential, a call ends | `UnaryCall`; its options and delays in `Configuration` |
| Options, client | `options.go`, `client.go` | the resolved configuration | `New`, `With*`, `Close` | options given twice, in any order, with zero and negative values; overflowing delays | the chain is what the options ask for | `Configuration`, `Client` |
| Resource clients | `messages.go`, `chats.go`, `groups.go`, `polls.go`, `attachments.go`, `addresses.go`, `locations.go` | none | some forty methods: build a request, call, convert | zero against unset, nil results, the table of writes kept by hand | the server sees the program's input; every write carries a key | `Signatures`, `Requests`, `Client` |
| Errors | `errors.go` | none | `asError`, `Is`, `classOf`, `defaultCodeFor` | one classification of what a server, a context and a store may fail with | every failure falls into its documented class | `Errors`, `Client` |
| Event types, dispatch, conversion | `events.go`, `conv_*.go`, `types_*.go` | none | proto frame to event, or drop; proto message to value | unknown payloads, heartbeats, oneofs, ties in a sort | an event is the same live and replayed; nothing lost, oldest first | `Conversion`, `Client` |
| Public stream wrappers | `stream.go`, `subscription.go` | none of their own; fixed sequences keep an iterator | `Events`, `Err`, `Close`, constructors for tests | little: delegation | errors are translated | `Client` |
| Sample token source | `examples/internal/spectrumauth` | a token, its expiry and the selected instance under a mutex | `Connect`, `Token`, `exchange`, `selectInstance` | a token that expires between the cache and the last attempt; a slow exchange under the mutex | a presented token is valid | `TokenCache` |
| Sample programs | `examples/send-all`, `examples/echo` | send-all: results, counters; echo: its loop | the script of steps; the event loop | a bot that hears itself; a step that fails half-way; an interrupt | each step reported once; no feedback; it exits | `Programs` |

How they interact: a program ranges over `Events` of a public wrapper, which
delegates to an event source. A plain source is one transport subscription: a
goroutine (`pump`) that receives from a server stream and hands events over on an
unbuffered channel. The resumable source is a second goroutine (`run`) that opens
one transport subscription after the other and hands their events on over its
own unbuffered channel; it saves its cursor through the caller's
`SequenceStore`. Unary calls run on the caller's goroutine through the
interceptors and share only the token source and the connection.

The `hazards` of `PROJECT.json` list, line by line, what a test hardly reaches.

## 2. Modules

| Module | Role |
|---|---|
| `Resumable` | the engine, its consumer, the store, the server's log, crash and restart |
| `DurableDelivery` | what a resumable subscription promises: log, events handed over, a mark that covers only what was handed over |
| `ResumableStream` | the engine over `Subscription`s: what `Resumable` reads as a position in a log |
| `Subscription` | the pump of a transport subscription and the goroutines that share it |
| `EventStream` | what a subscription promises its consumer: in order, once, one event in flight, nothing after the end |
| `UnaryCall` | logical calls through the interceptor chain, the network and the server |
| `Configuration` | options, what they resolve to, which interceptors are installed, the delays of a retry |
| `Errors` | classes, sentinels, codes; what `asError` makes of each failure |
| `Signatures` | what a program can give to each method: the Go signatures and option types, their pointers, numbers and kinds |
| `Requests` | the methods: their procedure, the parameters they send or leave out, their checks |
| `Conversion` | answers and frames: fields, lists, events, and what is dropped |
| `Client` | one client that is built, called and read: composes the five above |
| `TokenCache` | the sample token source and the calls that present its tokens |
| `Programs` | send-all and echo on one line |
| `*Proofs` | theorems about the module of that name |
| `MC*` | values of the constants for TLC |

### Resumable

`pc` is where `run` is: `load` (`Store.Load`), `top` (the head of the loop,
before a catch-up), `recv`, `send` (`trySend`), `save` (between the rendezvous and
the end of `saveCursor`), `attach` (before `live` subscribes), `sleep`
(`sleepBackoff`), `done`. `phase` says which of the two streams is open. The
consumer is `idle`, `ranging` (blocked on `out`), in its loop `body`, `closing`
(in `Close`, waiting for `done`) or `ended`.

The rendezvous on `out` is one step (`Send`) of engine and consumer; after it the
engine's `Save` and the consumer's `BodyDone` or `Break` interleave, which is the
point of interest. `Cancel` is the caller's context or a `Close` from another
goroutine. `Restart` may happen at any state, keeps only the store (and the
server's log) and starts a new subscription; the history variables `handed` and
`processed` survive it, since they record what the program saw.

An event's sequence is its index in `log`. An entry is a record of its family,
its chat and whether its frame carries a sequence (`messageEventMeta` returns 0
when it does not). The transport subscription below the engine is a reading
position that delivers in order and may end or stall at any time; what that
component guarantees is `Subscription`'s subject, and that the two fit together
is `ResumableStream`'s. A `nil` store is the same as a
store whose saves all fail, and a store that keeps nothing loads nothing.

Two constants describe what the code relies on and does not control:

- `ContiguousAttach`: a live stream starts right after the head its catch-up
  reported. `events.go:140-141` says the server guarantees it. With `FALSE` a
  live stream starts anywhere from that head to the end of the log; every
  configuration says `TRUE`, and the theorems that need it name it.
- `SaveFails`: `"never"`, `"cancelled"` (a store that honours the context it is
  given), `"any"`.

`MaxLag` allows a catch-up to report a head behind the log, as a replica may.

### Subscription

`pump` follows the goroutine: `open`, `recv`, `map`, `send`, then the defers in
the order they run (`unwind` closes the stream, `outClosed`, `done`). Each of the
`Callers` may range, break, and call `Close` from outside or from the loop body;
`after` is where that `Close` returns to, `once` is the `sync.Once`. With a ready
consumer and an ended context both `TakeEvent`/`TakeError` and `GiveUp` are
enabled, as in Go's `select`.

### UnaryCall

A call passes `token` (auth), `send`, `wait`, `backoff` and `returned`. `Token`
takes the call through everything that runs between the token and the first
attempt: deadline, then key. `Send`/`Receive`/`NextAttempt` are the loop of
`retryInterceptor`. `AttemptFails` is every error that does not carry the server's
mark: no connection, a lost reply, an ended context. It returns the call while
its request may still be under way, and `Serve` may apply it later. `Serve` may
apply a write and still answer with a failure, retryable or not: that is why keys
exist. The server's de-duplication (`ServerDedups`) is external: it remembers the
header and the client message id of what it applied, and compares both.

Keys come from a counter: `uuid.NewString` never repeats. A call that reuses an
earlier call's client message id is the same write (`Write`).

### ResumableStream

`ResumableStream` extends `Resumable` and instantiates `Subscription` as `S`: one
caller (`run`, whose place is `loop`), whose parent context is the engine's
context. `sub` is the stream `run` holds; `Subscribe` starts a fresh pump,
`Return` is where the deferred `Close` of the iteration is over. The server's
frames (`Arrives`) run ahead of what `run` took by at most one (`read` against
`pos`); an entry of another kind reaches the loop body and is passed over there,
as in `catchUp`. `LoopEnds` looks at the context before the error, as `run` does,
so an error that the pump dropped does no harm. Steps that touch no stream are
`Resumable`'s own (`Alone`, `Outside`). `Complete`, `TakeFrame` and `LoopEnds`
restate what `RecvComplete`, `RecvLive` and `StreamEnds` do, at the place where
the code does it; that they add up to the same is `ImplementsResumable`, which is
checked and proved. A crash takes the subscription with it.

### Configuration, Errors, Signatures, Requests, Conversion, Client

`Client` has five variables: the options applied so far (history), the
configuration they resolved to, how far `New` has come, the current call and the
last frame read. `New` checks its arguments, each `ApplyOption` is one turn of
its loop, and `Dial` ends it; the options of a `WithRetry` follow it in the list
as items of their own, and a retry option may come in several `WithRetry`s.
`BackoffCap`'s shift is computed in words of `-Half..Half - 1`, where it wraps as
Go's does. A call is a method, the values of its parameters, and then the
failures its attempts meet, up to the answer.

`Signatures` and `Requests` are two independent accounts of the methods.
`Signatures` is read off the types: which parameters a method takes, which of
them are pointers, which are numbers, and what kinds the package names.
`Requests` is read off the methods' bodies: which fields each sets, and under which
condition (`always`, `nonzero`, `present`, `positive`). A parameter that a method
forgets, or sends under the wrong condition, is a difference between the two, and
`ServerSeesTheInput` sees it: the server reads of each parameter what the program
meant, a field that is not in the request being unset. A struct is flattened into
its fields; what is sent within a submessage (`Built`) goes only with it. Numbers
are numbers and pass through `Int32`, which wraps at `Half32`; of one that does not
fit the property says nothing, since nothing is documented. `Meant` names the
three values that are not taken literally: a text effect of a run of another kind,
a page size of zero or less, and a companion of no known kind.

An answer's lists hold items with their sort keys only. Frames are a payload and
its change; live and replayed frames go through the same tables. The classes of
errors, the procedures that write and the resolved options are stated in the
properties of `Client` and not taken from the tables that they check.

### TokenCache

Clocks are relative: what is left of a token's lifetime at the server, and of
its lifetime by the cache's account, which starts when the exchange returns.
`Lock`, `FromCache`, `Refresh` and `Refreshed` or `ExchangeFails` are `Token`
under its mutex; the exchange may take up to `HttpTimeout`. A call presents its
token until `CallEnds`, at most `CallTimeout` later, in every attempt. `Connect`
selects a line out of any response, and may pick one that has no token.

### Programs

`script` is send-all's place in `Steps`: each step has what it tests before it goes
ahead, and its calls, each with the things it names and the things its response
gives. The tests are the `if`s of the program and the names its arguments, so a
missing test shows: `OnlyGivenTargets` compares the names with what responses
gave. Two calls name what is tested for an error only, the throwaway message to
be unsent (`main.go:213`) and the poll (`main.go:263`, `266`), and may name an empty
id; the property asks of these that the call that gave them succeeded. `given`
keeps apart a response that came with its result from one that came without. `echo` reads a stream that carries the contact's posts and
the messages of the line itself, its own replies among them. A call is one
logical call: it succeeds, or fails after all its attempts, with or without
having had its effect.

## 3. Runs

States are distinct states found; no run takes more than two minutes on two
workers.

| Run | Instance | Shows |
|---|---|---|
| `resumable_safety` | 3 kinds of entry, log 3, 2 failures, 1 restart, lag 1, saves may fail; 1.4 million | `NoGap`, `AtMostOneLostPerCrash`, `CatchUpNeverRewinds`, `IInv`, refinement of `DurableDelivery` |
| `resumable_live` | 4 kinds, log 2, 2 failures, saves succeed; 35 thousand | `EventualDelivery`, `InOrderOnce`, `SavedOnClose`, `BackoffBounded` |
| `resumable_stream` | 2 kinds, log 1, 2 failures, 1 restart, saves fail once cancelled; 259 thousand | `StreamInv`, `NothingLeftBehind`, `EverythingExits`, refinement of `Resumable` |
| `resumable_processed` | saves succeed | a violation of `StoredIsProcessed` |
| `subscription` | 2 goroutines, 3 frames; 22 thousand | `CloseIsFinal`, `NoSilentFailure`, `PumpExits`, `CloseCompletes`, `LoopEnds`, `IInv`, refinement of `EventStream` |
| `subscription_err` | as above | a violation of `ErrTellsTheEnd` |
| `unary_call` | 2 calls, 1 client message id, 3 attempts; 157 thousand | `AtMostOnce`, `SuccessIsApplied`, `OneAttemptAtATime`, `AttemptsBounded`, `EveryCallReturns`, `IInv` |
| `unary_token` | a TokenSource that blocks | a violation of `EveryCallReturns` |
| `client` | up to 4 options, every method with up to 2 parameters changed, every status, words of -32..31, an int32 of -8..7, lists of up to 3 items; 535 thousand | `WritesCarryKeys`, `ServerSeesTheInput`, `FailuresAreTyped`, `RetryAsConfigured`, `AnswersFaithful`, `EventsFaithful` |
| `client_own_key` | as `client` | a violation of `OwnKeyKept` |
| `token_cache` | 2 callers, 2 lines, 1 number, lifetimes 3 and 5, skew 3, exchange 1, call 1; 104 thousand | `EveryAttemptAuthorized`, `TokenReturns`, `IInv` |
| `programs` | 2 posts of the contact, 1 failing call, backlog 2; 300 thousand | `NoFeedback`, `EveryStepReported`, `OnlyGivenTargets`, `BotExits`, `EveryTextTried` |

Every property of a passing run has a mutant: a plausible bug next to the
definition it replaces (section "Plausible bugs" of each module, named
`<Definition>_<Bug>`), under which TLC finds the property violated.

Why the bounds are enough.

- `Resumable`: three events are an event before the catch-up's head, one in the
  window between head and live stream, and one after it; two failures give a
  broken catch-up followed by a broken live stream, and one restart meets every
  state of the first session. Back-off 2 to 3 makes doubling, capping and the
  reset different.
- `ResumableStream`: one wanted and one foreign entry reach every place of the
  pump and of `run`, in both streams; two failures are a broken and a stalled
  stream. Longer logs are the theorems' part: the safety properties and the
  refinement are proved for every log, failure and crash. What only the run
  shows, `EverythingExits`, is about who waits on whom, which one event in flight
  decides.
- `Subscription`: two goroutines cover every pair of roles (one ranges, one closes;
  both range; both close), and nothing depends on the number of frames beyond
  the one in flight.
- `UnaryCall`: three attempts have a first, a middle and a last; two calls are
  what a shared key or a shared client message id needs.
- `Client`: four options are two `WithRetry`s with an option in each, the shortest
  list in which one may override, extend or be reset by another, or three retry
  options in one; two parameters are what a swap or a shared pointer needs, and
  what a call may meet is explored from calls with no parameter changed
  (`MaxExplored`), since its outcomes do not depend on them. In words of
  -32..31 an initial delay of 5 is negative at its fourth wait and positive
  again, but wrapped, at the fifth; an initial delay of zero stays zero: the three
  outcomes the 64-bit shift has. A maximum of zero leaves no delay to fall back
  on. Of the numbers -1, 0, 1, 7, 8 and 16, an int32 of -8..7 takes 7 as it is, makes
  -8 of 8 and 0 of 16. The methods are all called, and the frames
  read, under no option and under `WithAutoIdempotency`, with three of the methods
  (a write, a read, a stream) called under all other lists (`Surveys`,
  `Probes`), since neither a request nor an event depends on options. Lists of
  three items hold a tie and an item off it. The theorems hold without these
  bounds.
- `TokenCache`: the margins are tight (skew = exchange + call) and one lifetime is
  not above the skew, so that a token is never fresh.
- `Programs`: two posts may both be texts or one a text and one something to be
  ignored; a backlog of two queues one behind the other; one failing call meets
  every call of the script.

Deadlock is checked for the engine (`Closed` is its one resting place), for the
engine over its streams and for the subscription. It is off where the system may
stop: all calls have returned (`unary_*`), `New` rejected its options (`client`
and `client_own_key`), `Connect` failed (`token_cache`), both programs have exited
(`programs`).

### Fairness

- Engine (`WF_vars(Engine)`): its goroutine is scheduled, `Load` and `Save`
  return, timers fire, a stream that holds an event delivers it, and the
  keepalive of `dial.go:28-31` ends a half-open connection.
- Consumer (`WF_vars(Consumer)`): the program starts its loop and comes back to
  it. Without it a blocked consumer blocks the engine, by design.
- Failures are bounded by `MaxFailures`: a server that fails for ever is never
  caught up with. Append, break, cancel and restart carry no fairness.
- Engine over streams: weak fairness of `run`'s goroutine, of the pump's and of the
  consumer, and of the server for frames it holds, the keepalive included.
- Subscription: the pump's own steps and the returns of the goroutines; a
  receive returns once its context has ended. The server may stay silent.
- UnaryCall: the client's own steps, timers, and attempts whose context has
  ended. The server and the network may never answer. A token fetch returns by
  itself only when `TokenReturns`, else only with its context.
- TokenCache: time passes, the `http.Client` times out, a call ends by its
  deadline, a goroutine that holds the mutex goes on. Strong fairness of `Lock`:
  `sync.Mutex` hands itself to a waiter that starves. The server may stay silent.
- Programs: each program is scheduled and its calls return (`EveryCallReturns`),
  and the stream ends once its context is done (`LoopEnds`). The contact, the
  signal and failures carry none.

## 4. Proofs

All theorems hold for every value of the constants that satisfies the modules'
`ASSUME`s and the assumption named here.

| Theorem | States | Assumes |
|---|---|---|
| `ResumableProofs!TypeCorrect` | `TypeOK` | |
| `ResumableProofs!Invariance` | `IInv` | `ContiguousAttach` |
| `ResumableProofs!GapFree` | `NoGap` | `ContiguousAttach` |
| `ResumableProofs!Refinement` | `DurableDelivery` is implemented | `ContiguousAttach` |
| `ResumableProofs!LostPerCrash` | `AtMostOneLostPerCrash` | `ContiguousAttach` |
| `ResumableProofs!OrderKept` | `InOrderOnce` | `ContiguousAttach`, `MaxLag = 0` |
| `ResumableProofs!ReplayMovesForward` | `CatchUpNeverRewinds` | |
| `ResumableProofs!KeepsGoing` | `NeverGivesUp` | |
| `ResumableProofs!BackoffInBounds` | `BackoffBounded` | `MinBackoff <= MaxBackoff` |
| `ResumableProofs!CloseSaves` | `SavedOnClose` | `SaveFails = "never"` |
| `ResumableStreamProofs!StreamInvariance` | `StreamInv` | |
| `ResumableStreamProofs!Implementation` | `Resumable` is implemented | |
| `ResumableStreamProofs!StreamsAreSubscriptions`, `StreamsEndHonestly` | `SubscriptionSteps`; `NoSilentFailure` and `CloseIsFinal` of each stream | |
| `ResumableStreamProofs!LeavesNothing` | `NothingLeftBehind` | |
| `ResumableStreamProofs!StreamDurable` | `NoGap`, `AtMostOneLostPerCrash` and `DurableDelivery` over real subscriptions | `ContiguousAttach` |
| `SubscriptionProofs!TypeCorrect`, `Invariance`, `CloseLeavesNothing`, `FailuresAreSeen`, `Refinement` | `TypeOK`, `IInv`, `CloseIsFinal`, `NoSilentFailure`, `EventStream` | |
| `UnaryCallProofs!TypeCorrect`, `Invariance`, `AppliedOnce`, `SuccessMeansApplied`, `NoConcurrentAttempts`, `RetriesEnd` | `TypeOK`, `IInv`, `AtMostOnce`, `SuccessIsApplied`, `OneAttemptAtATime`, `AttemptsBounded` | |
| `TokenCacheProofs!Invariance`, `AttemptsAuthorized` | `IInv`, `EveryAttemptAuthorized` | `MarginAssumption`, stated in the module |
| `ClientProofs!Invariance` | `IInv` | |
| `ClientProofs!WritesCarryKeysHolds`, `ServerSeesTheInputHolds`, `FailuresAreTypedHolds`, `RetryAsConfiguredHolds`, `AnswersFaithfulHolds`, `EventsFaithfulHolds` | `WritesCarryKeys`, `ServerSeesTheInput`, `FailuresAreTyped`, `RetryAsConfigured`, `AnswersFaithful`, `EventsFaithful` | |
| `ProgramsProofs!StepsReported`, `TargetsGiven`, `NoEchoLoop` | `EveryStepReported`, `OnlyGivenTargets`, `NoFeedback` | |

The arguments:

- *No gap.* `NoGap` alone is not inductive: when `RecvComplete` moves the cursor
  to the head, one must know that all wanted events up to the head were handed
  over. `Coverage` says it of the reading position at each place of the loop, and
  `Reading` that a replay reads ahead of the cursor. A new live stream starts
  covered because it starts at the head; here and only here `ContiguousAttach` is
  used, and without it TLC finds a skipped event within a few steps (section 5).
  A crash keeps the store, which is covered, and the next session starts there.
- *Refinement.* The mark is the stored cursor; an append is an append, `Send` a
  hand-off, a save a commit, and everything else, a crash included, stutters.
- *Lost per crash.* `LostInv` counts: the events handed over, not processed and
  not in the loop body are at most as many as there were crashes. Only `Restart`
  turns the one event in the body into a lost one, and it raises the count.
- *Order.* `OrderInv` says that every sequenced event up to the last one handed over
  is covered by the engine's cursor, but for the one whose save is under way, and
  that the reading position is not behind the cursor. A new stream starts at the
  cursor or at a head, and without lag neither is behind an event handed over.
- *Close saves.* `SaveInv` says that the last sequenced event handed over is
  either in its `Save` or covered by the store. `run` closes `done` only outside
  that window and `Close` waits for `done`.
- *Subscription.* `OneLoop` (one goroutine is in the loop), `Teardown` (the order
  of the defers), `Flow` (at most one event in flight) and `Endings` (how receiving
  ended) are inductive together; each theorem follows from one or two of them.
- *Engine over streams.* The refinement mapping is the identity: `Resumable`'s
  variables are in the state, and the subscription's are beside them. Each step
  is a `Resumable` step, a `Subscription` step or both, and must be shown to be a
  `Resumable` step or a stutter. `StepSubscribes` shows the other half: below `run`
  every step is one of `Subscription` or starts a new stream. The invariant has five
  parts besides the types: `Lifecycle` (a
  stream `run` does not hold is finished; the derived context ends only from
  `run`'s `Close`), `Places` (where `run` is by both accounts), `Ahead` (the pump
  has at most the next frame that `run` will look at), `Reasons` (a stream that
  ended for no fault of its own context ended for one that counts as a failure) and
  `Inside` (the parts of `Subscription`'s invariant, for the stream `run` holds; they
  say nothing of a stream that a crash took). `StreamsEndHonestly` follows from it.
  `SubscriptionSteps` and `HonestEnds` are stated by theorems only, not by a run.
  `StreamDurable` then composes it with the theorems about `Resumable`.
- *Unary calls.* `Keyed` says that a header identifies its call, `Sent` that every
  request carries its call's key and that a call has at most one under way,
  `Remembered` ties the server's memory to what it applied. `AtMostOnce` follows at
  the one step that applies: a write applied before would be remembered under the
  key or the id of this very request.
- *Token cache.* `Margins` relates the two clocks: the server's started when the
  token was issued, the cache's when it arrived, so they differ by at most the
  exchange, and the skew covers that and a whole call. `Exclusive` is what makes
  the exchange's age belong to one caller. The sample's 60 s, 30 s and the 30 s of
  a call satisfy `MarginAssumption` exactly.
- *Programs.* `Counted` ties the counters to the step. `EchoInv` says that the
  stream holds the contact's posts in order, behind those already answered, mixed
  with the line's own messages, which are marked; the filters let only the first
  kind through. For `OnlyGivenTargets`, `Script` shows of each of the 16 steps that a
  call uses what its step tests, or the throwaway message after the call that gave
  it (`Safe`), and `Earlier` that what earlier calls of the step give is there.

- *Client.* The invariant has two parts of its own beside the six properties.
  `Configured` says that the configuration is what the options applied so far
  resolve to: each field of the retries holds what the last option of its name
  gave since a `WithRetry` last took the defaults, and the maximum of attempts is zero
  exactly if the next `WithRetry` would take them again (`Zeroed`). It is this that
  makes `RetryAsConfigured` inductive over the options instead of a fold over a list
  (`ApplyChanges`, `NextResets`, `NextGiven`).
  `Progress` says that the waits of a call so far are `BackoffCap` of 0, 1, 2, ...
  and fewer than its attempts. `CapBounded` then bounds each wait for every delay
  and every word: the cap is the shifted delay only if that is positive and at
  most the maximum, and a product that fits into a word is unchanged by wrapping.
  `ChainAsConfigured` ties the installed interceptors to the configuration, and
  `RowsOK` also compares the table of writes with each method, one lemma per
  resource client.
- *Requests.* `RowsOK` compares the code of each method with its signature, one
  lemma per resource client: every parameter of the signature is a field that the
  method sets, pointers only where they are present, numbers never where they are
  not zero. `ValuesTyped` gives each input the type of its parameter. Then a
  parameter that is left out is one the server takes for what was meant
  (`UnsentFaithful`), and one that is sent reads back as it (`SentFaithful`): the
  identity, a number that fits (`Int32InRange`), or one of two kinds, whose
  decoding inverts the encoding (`ReactionKindsInvert`).
- *Failures.* `CategoriesOfOwn` shows that an error matches at most the class of its
  own status, so two sentinels never match one error.
- *Answers.* `SortedRanks`: in a list without duplicates of which no later item
  comes before an earlier one, the i-th item has exactly i - 1 before it. The list
  is an injection between sets of one size, hence onto, and the items before the
  i-th are the image of 1..i - 1. Locations are sorted by one key only; that the
  server sends one location per address makes this key decide.
- *Events.* The names in each family's table are distinct (`TablesOK`), so equal
  events have equal changes, and each type carries the mark of a catch-up event.

Only model-checked: liveness (`EventualDelivery`, `PumpExits`, `CloseCompletes`,
`LoopEnds`, `EveryCallReturns`, `TokenReturns`, `BotExits`, `EveryTextTried`,
`EverythingExits`), which is outside the prover's reach. Every other property of
a passing run is a theorem.

## 5. Findings

Each is a run that is expected to be violated, with the text it contradicts.

1. `resumable_processed`: the cursor is saved while the loop body still runs, so
   the store may hold an event that was not fully processed (`resumable.go:12`). A
   crash then loses it; `AtMostOneLostPerCrash` bounds the damage to one.
2. `subscription_err`: when the caller's context ends, the terminal error can be
   dropped and `Err` is nil although the stream did not end cleanly
   (`stream.go:128`).
3. `unary_token`: the token is fetched before the default deadline is set, so the
   deadline does not bound "the whole logical call" (`dial.go:50-51`).
4. `client_own_key`: "Calls that already set a client message id keep their own key"
   (`options.go:77-78`), but the interceptor's check sees only a header that no method
   sets (`interceptor.go:84`), so such a call is sent with a generated key too.

`WritesCarryKeys` leaves the calls of 4 out, so that it states what the package
promises and the code keeps.

What else a reader of this code should know, from building the models:

- `live` subscribes without a position (`resumable.go:189`). That nothing is lost
  between a catch-up and the live stream rests on a server guarantee
  (`events.go:140-141`) for which no request carries the data.
- Nothing orders `MinBackoff` and `MaxBackoff`, and the first sleep is not capped
  (`resumable.go:53-58`, `119`): hence the assumption of `BackoffInBounds`.
- "Without any [RetryOption] it uses the package defaults" (`options.go:58-59`) is true
  of the first `WithRetry` only: a `WithRetry()` after another keeps what that one set,
  unless its maximum of attempts was zero, which brings the defaults back
  (`options.go:60-74`). `RetryAsConfigured` says nothing of the parameters of a
  configuration with such a `WithRetry()`.
- "WithInitialDelay sets the base backoff before the second attempt" (`options.go:113`),
  but a base of zero is taken for an overflow of the shift and replaced by the maximum
  (`interceptor.go:136-138`). `RetryAsConfigured` lets a wait double only from a
  positive base.
- A context that ends while the token is fetched is wrapped as an authentication
  failure (`interceptor.go:40`), so that the call does not match `ErrConnection`, which
  "matches transport / availability / deadline failures" (`errors.go:162`).
  `FailuresAreTyped` speaks of contexts that end later.
- A page size, a part index or a format range beyond 2^31 - 1 reaches the server as
  another number (`messages.go:384`, `conv_message.go:342`, `350-351`, `386`, `415`), a
  page size even as a negative one, which the check above it is there to drop.
- send-all unsends a message, votes and adds options with ids it did not test
  (`send-all/main.go:213`, `257`, `263`, `266`).
- A cancelled call has the code of an internal error when it ended in an attempt
  and of a network error when it ended in a back-off; both match `ErrConnection`.
- `Subscription.Err` passes "already consumed" and the errors of a store on as they
  are, while `README.md:108` says that every failure is an `*imessage.Error`.
- A poll call that succeeds without a poll in its answer returns the zero `Poll`
  and no error.

## 6. Not modelled

- The chat GUID helpers of `chatguid.go`: functions from string to string.
- TLS and the connection pool of `dial.go`, and `Client.Close`, which releases its
  idle connections.
- The static sources of `token.go` and the fixed-sequence source of
  `subscription.go`: one value each.
- The one-way name tables of `conv_common.go` (service, transfer state, item type,
  location type): a switch with a default, tested as they stand.
- `backoff *= 2` above half of the largest duration (`resumable.go:281`): a maximum of
  146 years.
- The token of a streaming call: its error is dropped and the server rejects the
  stream, which is a stream that fails to open.
- Flags, logging and wording; the generated protobuf code.

## 7. Plan

What is left, most useful first:

1. Two resumable subscriptions that are given one `SequenceStore`: its methods carry
   no name, so the cursors of both end up in one place.
2. A bounded rate of reopening a live stream that fails at once, should the
   package come to promise one.
