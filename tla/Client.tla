-------------------------------- MODULE Client --------------------------------
(***************************************************************************)
(* A program builds a client with options, calls its methods one at a time   *)
(* and reads frames of its streams.  The tables of what is sent, converted    *)
(* and classified are in the modules extended here; the order of the          *)
(* interceptors, concurrent calls and the server's writes are in UnaryCall,   *)
(* the goroutine of a stream in Subscription.                                *)
(***************************************************************************)
EXTENDS Configuration, Errors, Requests, Conversion

CONSTANTS
    Options,          \* the options a program may give to New
    MaxOptions,       \* bound: options given
    Surveys,          \* bound: option lists under which every method is called
                      \*        and every frame read,
    Probes,           \*        with the others only these methods are called
    MaxGiven,         \* bound: parameters of a call that differ from Base,
    MaxExplored,      \*        and of a call whose outcomes are explored
    AttemptFailures,  \* the failures an attempt may end with
    Keys,             \* sort keys of the items in an answer
    MaxItems          \* bound: items of a list in an answer

ASSUME BoundsAssumption ==
    /\ MaxOptions \in Nat /\ MaxGiven \in Nat /\ MaxExplored \in Nat /\ MaxItems \in Nat
    /\ Probes \subseteq Methods

ASSUME OptionsAssumption ==
    \A option \in Options :
        \/ option.name \in {"WithoutTLS", "WithRetry", "WithAutoIdempotency", "WithHTTPClient"}
        \/ option.name \in RetryOptions \cup {"WithTimeout"} /\ option.value \in Int

\* What an attempt ends with is an error of the Connect library, or an error of
\* the package's own streams.
ASSUME FailuresAssumption ==
    \A failure \in AttemptFailures :
        \/ failure = [kind |-> "plain"]
        \/ /\ failure.kind = "connect" /\ failure.status \in Statuses
           /\ failure.retryable \in BOOLEAN

ASSUME KeysAssumption == IsFiniteSet(Keys) /\ Keys \subseteq Int

VARIABLES
    options,   \* ghost: the options applied so far
    config,    \* what they resolved to
    stage,     \* of New: "new", "options", "ready", or "rejected"
    call,      \* the current call
    seen       \* the last frame and the event it became

vars == <<options, config, stage, call, seen>>

Nothing == [kind |-> "nothing"]
NoCall == [state |-> "none"]
NoFrame == [path |-> "none"]

-----------------------------------------------------------------------------
(* What the runs enumerate.                                                  *)

\* A settable kind, and the kind of run that has an effect.
Base(field) ==
    CASE field = "kind" -> <<"love">>
      [] field = "formatKind" -> <<"effect">>
      [] OTHER -> Unset(field)

BaseInput(m) == [f \in Parameters[m] |-> Base(f)]

Differing(m, input) == {f \in Parameters[m] : input[f] # Base(f)}

Inputs(m) ==
    IF options \notin Surveys THEN {BaseInput(m)} ELSE
    UNION {{[f \in Parameters[m] |-> IF f \in given THEN v[f] ELSE Base(f)] :
              v \in {w \in [given -> UNION {Values(f) : f \in given}] :
                        \A f \in given : w[f] \in Values(f)}} :
           given \in UNION {kSubset(n, Parameters[m]) : n \in 0..MaxGiven}}

\* The lists an answer may hold: distinct items, each a pair of sort keys.
Arrivals ==
    {s \in UNION {SetToSeqs(S) : S \in SUBSET (Keys \X Keys)} : Len(s) <= MaxItems}

EmptyAnswer(shape) ==
    [fields |-> [f \in shape.fields |-> "absent"], list |-> "none", items |-> <<>>]

\* No two locations have one address.
Lists(shape) ==
    {s \in Arrivals : shape = Locations =>
        \A i, j \in DOMAIN s : s[i][1] = s[j][1] => i = j}

ListAnswer(shape, list, items) ==
    [EmptyAnswer(shape) EXCEPT !.list = list, !.items = items]

\* Answers of the server: one field present, or one list.
FieldAnswers(shape) ==
    {[EmptyAnswer(shape) EXCEPT !.fields[f] = wire] :
        f \in shape.fields, wire \in {"absent", "zero", "value"}}

ListAnswers(shape) ==
    {ListAnswer(shape, list, items) :
        list \in shape.sorted \cup shape.kept, items \in Lists(shape)}

Answers(shape) ==
    IF options \notin Surveys THEN {EmptyAnswer(shape)}
    ELSE FieldAnswers(shape) \cup ListAnswers(shape)

\* The types that occur in the answer of a method.
Shapes(m) ==
    CASE m \in DOMAIN MessageSends
                 \cup {"Edit", "AddReaction", "RemoveReaction", "PlaceSticker", "GetMessage"} ->
            {Message, Content, MiniApp, Layout, AppliedReaction, PlacedSticker, Placement, Attachment}
      [] m \in {"ListRecent", "ListInChat"} -> {Page}
      [] m = "CreateChat" -> {CreatedChat, Chat}
      [] m \in {"GetChat", "SetDisplayName", "AddParticipants", "RemoveParticipants"} -> {Chat}
      [] m \in {"CreatePoll", "GetPoll", "Vote", "Unvote", "AddOption"} -> {Poll}
      [] m = "ListLocations" -> {Locations}
      [] m = "GetLocation" -> {Location}
      [] m = "GetAttachment" -> {Attachment}
      [] m = "Upload" -> {Uploaded, Attachment}
      [] m = "GetAddress" -> {Address}
      [] OTHER -> {Scalar}

Payloads == [
    message |-> {"message", "heartbeat", "unset"}, chat |-> {"chat", "unset"},
    group |-> {"group", "unset"}, poll |-> {"poll", "heartbeat", "unset"},
    catchUp |-> Families \cup {"complete", "unset"},
    location |-> {"location", "unset"}, download |-> DOMAIN Chunks \cup {"unset"}]

\* Only reactions and stickers have a target part.
Frames(payload) ==
    IF payload \in Families
    THEN {f \in [payload : {payload}, change : DOMAIN Changes[payload] \cup {"unrecognized"},
                 sequence : 0..1, actor : {"absent", "zero", "value"},
                 targetPartIndex : {"absent", "zero", "value"}] :
            f.targetPartIndex = "absent" \/
            f.change \in {"ReactionAdded", "ReactionRemoved", "StickerPlaced"}}
    ELSE [payload : {payload}, sequence : 0..1]

-----------------------------------------------------------------------------
Init ==
    /\ options = <<>> /\ config = DefaultConfig /\ stage = "new"
    /\ call = NoCall /\ seen = NoFrame

\* New checks the address and the token source.
New(address, source) ==
    /\ stage = "new"
    /\ stage' = IF address /\ source THEN "options" ELSE "rejected"
    /\ UNCHANGED <<options, config, call, seen>>

\* New applies one option; those of a WithRetry are inside it.
ApplyOption(option) ==
    /\ stage = "options" /\ Len(options) < MaxOptions
    /\ option.name \in RetryOptions =>
         options # <<>> /\ options[Len(options)].name \in RetryOptions \cup {"WithRetry"}
    /\ config' = Apply(config, option)
    /\ options' = Append(options, option)
    /\ UNCHANGED <<stage, call, seen>>

\* New has applied all options and sets the client up.
Dial ==
    /\ stage = "options" /\ stage' = "ready"
    /\ UNCHANGED <<options, config, call, seen>>

Free == stage = "ready" /\ call = NoCall /\ seen = NoFrame

Return(result, ended) ==
    call' = [call EXCEPT !.state = "returned", !.result = result, !.ended = ended]

\* The client's method: check, build, go to the chain's first interceptor.
Invoke(m, input) ==
    /\ Free
    /\ call' = [state |-> IF Rejects(m, input) THEN "returned" ELSE "token",
                method |-> m, input |-> input,
                request |-> IF Rejects(m, input) THEN Nothing ELSE Request(m, input),
                keyed |-> FALSE, authorized |-> FALSE, waits |-> <<>>, ended |-> "no",
                result |-> IF Rejects(m, input) THEN InvalidArgument ELSE Nothing]
    /\ UNCHANGED <<options, config, stage, seen>>

\* The chain below the token: the key of a unary call, then its first attempt.
Enter(authorized) ==
    call' = [call EXCEPT !.state = "sent", !.authorized = authorized,
        !.keyed = /\ Installed(config, "idempotency") /\ ~Method[call.method].stream
                  /\ Method[call.method].procedure \in MutatingProcedures]

Authorize ==
    /\ call.state = "token" /\ Enter(TRUE)
    /\ UNCHANGED <<options, config, stage, seen>>

\* The token source fails, with an imessage.Error of its own, with its context
\* ("token"), or otherwise; a streaming call goes on without a token.
TokenFails(failure, ended) ==
    /\ call.state = "token"
    /\ IF Method[call.method].stream THEN Enter(FALSE)
       ELSE Return(AsError(failure), ended)
    /\ UNCHANGED <<options, config, stage, seen>>

\* An attempt, or a stream, fails: a failure that the server marked is retried
\* while attempts are left.  Only a subscription has failures of its own.
AttemptFails(failure) ==
    /\ call.state = "sent" /\ (failure.kind = "plain" => Method[call.method].stream)
    /\ IF /\ Installed(config, "retry") /\ ~Method[call.method].stream
          /\ Len(call.waits) < Attempts(config) - 1
          /\ failure.kind = "connect" /\ failure.retryable
       THEN call' = [call EXCEPT !.state = "backoff",
                !.waits = Append(@, BackoffCap(config.retry, Len(@)))]
       ELSE Return(AsError(failure), "no")
    /\ UNCHANGED <<options, config, stage, seen>>

Retry ==
    /\ call.state = "backoff" /\ call' = [call EXCEPT !.state = "sent"]
    /\ UNCHANGED <<options, config, stage, seen>>

\* The context ends during an attempt, whose error Connect makes, or during a
\* wait, whose error is the context's own.
ContextEnds(reason) ==
    /\ \/ /\ call.state = "sent"
          /\ Return(AsError([kind |-> "connect", status |-> reason, header |-> None,
                             retryable |-> FALSE]), "sent")
       \/ /\ call.state = "backoff"
          /\ Return(AsError([kind |-> "context", reason |-> reason]), "backoff")
    /\ UNCHANGED <<options, config, stage, seen>>

\* A unary answer arrives and is converted, one type of it at a time.
Succeeds(shape, wire) ==
    /\ call.state = "sent" /\ ~Method[call.method].stream /\ shape \in Shapes(call.method)
    /\ \E value \in FromProto(shape, wire) :
         Return([kind |-> "value", shape |-> shape, wire |-> wire, value |-> value], "no")
    /\ UNCHANGED <<options, config, stage, seen>>

\* A stream delivers a frame, which becomes an event or is passed over.
Receive(path, frame) ==
    /\ Free
    /\ seen' = [path |-> path, frame |-> frame, event |->
          CASE path \in Families -> LiveFromProto(path, frame)
            [] path = "catchUp" -> CatchUpFromProto(frame)
            [] path = "location" -> LocationFromProto(frame)
            [] path = "download" -> ChunkFromProto(frame)]
    /\ UNCHANGED <<options, config, stage, call>>

\* The program goes on to its next call.
NextCall ==
    /\ call.state = "returned" \/ seen # NoFrame
    /\ call' = NoCall /\ seen' = NoFrame
    /\ UNCHANGED <<options, config, stage>>

TokenFailures ==
    {<<[kind |-> "own", code |-> "timeout", status |-> "unavailable", retryable |-> TRUE], "no">>}
    \cup {<<[kind |-> "connect", status |-> "unauthenticated", header |-> None,
             retryable |-> FALSE], ended>> : ended \in {"no", "token"}}

Explored ==
    call # NoCall /\ Cardinality(Differing(call.method, call.input)) <= MaxExplored

Next ==
    \/ \E address, source \in BOOLEAN : New(address, source)
    \/ \E option \in Options : ApplyOption(option)
    \/ Dial
    \/ Free /\ \E m \in IF options \in Surveys THEN Methods ELSE Probes :
         \E input \in Inputs(m) : Invoke(m, input)
    \/ Authorize
    \/ Explored /\ \E f \in TokenFailures : TokenFails(f[1], f[2])
    \/ Explored /\ \E f \in AttemptFailures : AttemptFails(f)
    \/ Retry
    \/ \E reason \in {"canceled", "deadline_exceeded"} : ContextEnds(reason)
    \/ Explored /\ \E shape \in Shapes(call.method) :
         \E wire \in Answers(shape) : Succeeds(shape, wire)
    \/ Free /\ options \in Surveys
       /\ \E path \in DOMAIN Payloads : \E payload \in Payloads[path] :
         \E frame \in Frames(payload) : Receive(path, frame)
    \/ NextCall

Spec == Init /\ [][Next]_vars

-----------------------------------------------------------------------------
(* Properties.                                                              *)

\* The server's procedures that change nothing.
ReadOnly == {"GetMessage", "ListRecentMessages", "ListChatMessages", "GetEmbeddedMedia",
    "GetChatCount", "GetChat", "HasBackground", "GetIcon", "GetPoll",
    "ListSharedFriendLocations", "GetSharedFriendLocation", "GetAttachmentInfo",
    "GetAddressInfo", "GetFocusStatus", "GetIMessageAvailability"}

Given(name) == \E i \in DOMAIN options : options[i].name = name

Writes(m) == ~Method[m].stream /\ Method[m].procedure \notin ReadOnly

\* The call has a client message id of its own.
OwnKey ==
    "clientMessageId" \in Parameters[call.method] /\ call.input["clientMessageId"] # Zero

\* WithAutoIdempotency: a generated key goes only with a method that changes
\* something, and with every one that has no key of its own, whether or not its
\* options have a place for one; the table interceptor.go:147-182 and the
\* clients' methods are kept by hand.
WritesCarryKeys ==
    call.state \in {"sent", "backoff"} =>
        /\ call.keyed => Given("WithAutoIdempotency") /\ Writes(call.method)
        /\ Given("WithAutoIdempotency") /\ Writes(call.method) /\ ~OwnKey => call.keyed

\* "Calls that already set a client message id keep their own key"
\* (options.go:77-78).
OwnKeyKept ==
    call.state \in {"sent", "backoff"} /\ OwnKey => ~call.keyed

\* What the server reads of a parameter.
Received(request, field) ==
    IF field \notin DOMAIN request THEN Unset(field)
    ELSE CASE field = "kind" -> <<ReactionKindFromProto(request[field][1])>>
           [] field = "companionKind" -> <<CompanionKindFromProto(request[field][1])>>
           [] OTHER -> request[field]

\* What a caller means: an effect belongs to a run of that kind, a page size is
\* positive or the server's choice, and a companion has one kind or none known.
Meant(input, field) ==
    CASE field = "textEffect" /\ input["formatKind"] # <<"effect">> -> Zero
      [] field = "pageSize" /\ input[field][2] <= 0 -> Number(0)
      [] field = "companionKind" /\ input[field] # <<"live-photo-video">> -> <<"unknown">>
      [] OTHER -> input[field]

\* A number beyond int32 has no place in a request.
Fits(input, field) ==
    field \in Ints \cup IntPointers /\ input[field] # Nil =>
        input[field][2] \in -Half32..Half32 - 1

\* "reaction.Kind must be a settable kind ...; when Kind is ReactionEmoji,
\* reaction.Emoji must be non-empty" (messages.go:214-217).
Invalid(input) ==
    \/ input["kind"] \in {<<"sticker">>, <<"unknown">>, <<"">>}
    \/ input["kind"] = <<"emoji">> /\ input["emoji"] = Zero

\* A request tells the server every parameter of the method's signature: none is
\* forgotten, an absent part index, filter or position never looks like a zero
\* one, a field of a struct goes with that struct, a kind reads back as itself,
\* and only an invalid reaction is refused.  AddReaction and RemoveReaction
\* differ on the wire (messages.go, chats.go and the other clients,
\* conv_message.go:333-418, conv_common.go:106-187).
ServerSeesTheInput ==
    call # NoCall =>
        LET m == call.method  input == call.input  request == call.request
        IN  IF m \in {"AddReaction", "RemoveReaction"} /\ Invalid(input)
            THEN request = Nothing
            ELSE /\ request # Nothing
                 /\ \A f \in Parameters[m] :
                       Fits(input, f)
                       /\ (f \in DOMAIN Within => input[Within[f]] # Unset(Within[f]))
                       => Received(request, f) = Meant(input, f)
                 /\ m \in {"AddReaction", "RemoveReaction"} =>
                       request["isSet"] = IF m = "AddReaction" THEN Some ELSE Zero

Failed == call.state = "returned" /\ call.result.kind # "value"

\* Every unary failure is an imessage.Error of at most one category and is
\* unchanged by another asError; a context that ends on the way to the server
\* is a connection failure and not retryable wherever it ended, in an attempt
\* or between two (errors.go:125-265, interceptor.go:112-115).
FailuresAreTyped ==
    Failed =>
        /\ ~Method[call.method].stream => call.result.kind = "own"
        /\ Cardinality(Categories(call.result)) <= 1
        /\ AsError(call.result) = call.result
        /\ call.ended \in {"sent", "backoff"} =>
              Categories(call.result) = {"connection"} /\ ~IsRetryable(call.result)

MaximumOptions == {"WithRetry", "WithMaxAttempts"}

\* Option i gives a maximum of zero attempts, and up to option k nothing else is
\* said of the maximum.
ZeroFrom(i, k) ==
    /\ options[i].name = "WithMaxAttempts" /\ options[i].value = 0
    /\ \A j \in i + 1..k : options[j].name \notin MaximumOptions

Zeroed == \E i \in DOMAIN options : ZeroFrom(i, Len(options))

\* A WithRetry that finds a maximum of zero starts from the defaults again.
Resets(j) ==
    options[j].name = "WithRetry" /\ \E i \in 1..j - 1 : ZeroFrom(i, j - 1)

\* The value of a retry parameter is the last one given for it by any WithRetry
\* since the defaults were last taken.
LastGiven(name, default, value) ==
    \/ /\ value = default
       /\ \A i \in DOMAIN options : options[i].name = name =>
             \E j \in i + 1..Len(options) : Resets(j)
    \/ \E i \in DOMAIN options :
          /\ options[i].name = name /\ options[i].value = value
          /\ \A j \in i + 1..Len(options) : options[j].name # name /\ ~Resets(j)

ResolvedRetry ==
    /\ LastGiven("WithMaxAttempts", DefaultMaxAttempts, config.retry.maxAttempts)
    /\ LastGiven("WithInitialDelay", DefaultInitialDelay, config.retry.initialDelay)
    /\ LastGiven("WithMaxDelay", DefaultMaxDelay, config.retry.maxDelay)

\* A WithRetry without retry options of its own.
Bare(i) ==
    /\ options[i].name = "WithRetry"
    /\ i + 1 \in DOMAIN options => options[i + 1].name \notin RetryOptions

BareAgain ==
    \E i \in DOMAIN options : Bare(i) /\ \E j \in 1..i - 1 : options[j].name \in RetryOptions

\* The delay the documentation promises before the jitter.
Capped(retry, attempt) ==
    IF retry.initialDelay * 2^attempt < retry.maxDelay
    THEN retry.initialDelay * 2^attempt ELSE retry.maxDelay

\* Retries happen only under WithRetry and with what it was last given; a bare
\* WithRetry keeps the options of an earlier one, where options.go:58-59 promises
\* the defaults, so that the parameters after one are left open (BareAgain).  A
\* wait is never above the maximum, is zero only if the maximum is not positive,
\* also when the shift overflows, and doubles up to the maximum while it does
\* not.  A retryable failure that an attempt left to the program has used up all
\* attempts (options.go:57-76, 110-122, interceptor.go:95-141).
RetryAsConfigured ==
    LET retry == config.retry
    IN  call # NoCall =>
          /\ ~BareAgain => ResolvedRetry
          /\ Len(call.waits) < IF Given("WithRetry") /\ retry.maxAttempts > 1
                               THEN retry.maxAttempts ELSE 1
          /\ \A n \in DOMAIN call.waits :
                /\ call.waits[n] <= retry.maxDelay
                /\ retry.maxDelay > 0 => call.waits[n] > 0
                /\ retry.initialDelay * 2^(n - 1) \in 1..Half - 1 =>
                      call.waits[n] = Capped(retry, n - 1)
          /\ Failed /\ IsRetryable(call.result) /\ call.authorized /\ Given("WithRetry")
                /\ ~Method[call.method].stream
                => Len(call.waits) + 1 >= retry.maxAttempts

\* What the server left out is nil, also where zero means something (an unread
\* count, a part index); what the client sorts has one order, whatever the
\* order of arrival, and what it does not sort keeps the server's
\* (conv_message.go:188-245, conv_poll.go:29-35, locations.go:39-41).
AnswersFaithful ==
    call.state = "returned" /\ call.result.kind = "value" =>
        LET wire == call.result.wire
            value == call.result.value
            Earlier(x) == {y \in ToSet(wire.items) :
                              y[1] < x[1] \/ (y[1] = x[1] /\ y[2] < x[2])}
        IN  /\ \A f \in DOMAIN value.fields :
                  /\ wire.fields[f] # "absent" => value.fields[f] = wire.fields[f]
                  /\ wire.fields[f] = "absent" /\ f # "plain" => value.fields[f] = "nil"
            /\ wire.list \in call.result.shape.kept => value.items = wire.items
            /\ wire.list \in call.result.shape.sorted =>
                  \A i \in DOMAIN value.items : Cardinality(Earlier(value.items[i])) = i - 1

\* A replayed frame becomes the event its live stream makes of it, with its
\* sequence, so that a program can tell a duplicate; two frames never become one
\* event; what is no change of a known kind is passed over (conv_event.go:9-42,
\* events.go:146-219, and the mapping of each family).
EventsFaithful ==
    seen # NoFrame /\ seen.frame.payload \in Families =>
        LET frame == seen.frame
            known == frame.change \in DOMAIN Changes[frame.payload]
        IN  /\ seen.event = LiveFromProto(frame.payload, frame)
            /\ seen.event # Dropped <=> known
            /\ known => /\ seen.event.sequence = frame.sequence
                        /\ \A other \in Frames(frame.payload) \ {frame} :
                              LiveFromProto(frame.payload, other) # seen.event

-----------------------------------------------------------------------------
(* The inductive invariant; see the proofs.                                 *)

\* config is what the options applied so far resolve to.
Configured ==
    /\ config \in [insecure : BOOLEAN, timeout : Int, retryEnabled : BOOLEAN,
                   retry : [maxAttempts : Int, initialDelay : Int, maxDelay : Int],
                   autoIdempotency : BOOLEAN, ownClient : BOOLEAN]
    /\ options \in Seq(Options)
    /\ config.autoIdempotency <=> Given("WithAutoIdempotency")
    /\ config.retryEnabled <=> Given("WithRetry")
    /\ ResolvedRetry /\ (config.retry.maxAttempts = 0 <=> Zeroed)
    /\ stage \in {"new", "options", "ready", "rejected"}
    /\ call # NoCall => stage = "ready"

CallFields == {"state", "method", "input", "request", "keyed", "authorized",
               "waits", "ended", "result"}

\* How far a call has come, and what it has kept of the way.
Progress ==
    call # NoCall =>
        /\ DOMAIN call = CallFields
        /\ call.state \in {"token", "sent", "backoff", "returned"}
        /\ call.method \in Methods
        /\ call.waits \in Seq(Int) /\ Len(call.waits) < Attempts(config)
        /\ \A n \in DOMAIN call.waits : call.waits[n] = BackoffCap(config.retry, n - 1)
        /\ call.state = "token" => ~call.authorized
        /\ call.state = "backoff" => ~Method[call.method].stream
        /\ call.state # "returned" => call.result = Nothing /\ call.ended = "no"

IInv == /\ Configured /\ Progress
        /\ WritesCarryKeys /\ ServerSeesTheInput /\ FailuresAreTyped
        /\ RetryAsConfigured /\ AnswersFaithful /\ EventsFaithful
===============================================================================
