------------------------------ MODULE UnaryCall ------------------------------
(***************************************************************************)
(* A unary call through the interceptor chain of internal/transport: auth,  *)
(* then the default deadline, then the idempotency key, then retry around   *)
(* the attempts, in the order dial.go builds them; with the server and a    *)
(* network that may delay or lose requests and replies on the other side.   *)
(***************************************************************************)
EXTENDS Integers, FiniteSets

CONSTANTS Calls,            \* logical calls
          Ids, NoId,        \* client message ids; none set
          Timeout,          \* cfg.Timeout > 0
          AutoIdempotency,  \* cfg.AutoIdempotency
          RetryEnabled,     \* cfg.RetryEnabled
          MaxAttempts,      \* cfg.Retry.MaxAttempts as configured
          ServerDedups,     \* the server applies a key or client id once
          TokenReturns      \* the TokenSource returns by itself

ASSUME CallAssumption ==
    /\ Calls \cap Ids = {} /\ NoId \notin Ids
    /\ {Timeout, AutoIdempotency, RetryEnabled} \subseteq BOOLEAN
    /\ {ServerDedups, TokenReturns} \subseteq BOOLEAN
    /\ MaxAttempts \in Int

VARIABLES
    pc,         \* where each call is
    mutates,    \* its procedure is in mutatingProcedures
    id,         \* the client message id of its request, or NoId
    deadline,   \* its context has a deadline
    ctxDone,    \* its context has ended
    attempt,    \* number of the attempt, from 0
    header,     \* its idempotency header; NoKey when empty
    minted,     \* keys generated so far
    reply,      \* the answer that has arrived for its attempt
    result,     \* what it returned
    requests,   \* requests the server has not handled, or never will
    seenKeys,   \* server: headers of the writes it applied
    seenIds,    \* server: client message ids of the writes it applied
    applied     \* server: how often each write was applied

request == <<mutates, id>>
context == <<deadline, ctxDone>>
keys == <<header, minted>>
server == <<seenKeys, seenIds, applied>>
vars == <<pc, request, context, attempt, keys, reply, result, requests, server>>

NoKey == 0
Outcomes == {"ok", "retryable", "final"}
Writes == Calls \cup Ids

\* Calls with the same client message id are one write.
Write(c) == IF id[c] = NoId THEN c ELSE id[c]

Attempts == IF MaxAttempts < 1 THEN 1 ELSE MaxAttempts

Active(c) == pc[c] \notin {"idle", "returned"}

Goto(c, s) == pc' = [pc EXCEPT ![c] = s]

Return(c, r) == Goto(c, "returned") /\ result' = [result EXCEPT ![c] = r]

-----------------------------------------------------------------------------
(* Plausible bugs, each in the place of the definition its name starts      *)
(* with, to show that the properties below notice them.  No specification   *)
(* of this module uses one.                                                 *)

KeyFor_Shared(c) ==
    IF AutoIdempotency /\ mutates[c] THEN 1 ELSE header[c]

WithDeadline_OnlyReads(c) == deadline[c] \/ (Timeout /\ ~mutates[c])

NextAttempt_NewKey(c) ==
    /\ pc[c] = "backoff"
    /\ attempt' = [attempt EXCEPT ![c] = @ + 1]
    /\ Goto(c, "send")
    /\ minted' = minted + 1
    /\ header' = [header EXCEPT ![c] = minted + 1]
    /\ UNCHANGED <<request, context, reply, result, requests, server>>

MayRetry_OneMore(c) == RetryEnabled /\ attempt[c] < Attempts

AttemptFails_Retries(c) ==
    /\ pc[c] \in {"send", "wait"}
    /\ IF RetryEnabled /\ attempt[c] < Attempts - 1
       THEN Goto(c, "backoff") /\ UNCHANGED result
       ELSE Return(c, "failed")
    /\ UNCHANGED <<request, context, attempt, keys, reply, requests, server>>

-----------------------------------------------------------------------------
Init ==
    /\ pc = [c \in Calls |-> "idle"]
    /\ mutates = [c \in Calls |-> FALSE] /\ id = [c \in Calls |-> NoId]
    /\ deadline = [c \in Calls |-> FALSE] /\ ctxDone = [c \in Calls |-> FALSE]
    /\ attempt = [c \in Calls |-> 0]
    /\ header = [c \in Calls |-> NoKey] /\ minted = 0
    /\ reply = [c \in Calls |-> "none"] /\ result = [c \in Calls |-> "none"]
    /\ requests = {}
    /\ seenKeys = {} /\ seenIds = {} /\ applied = [w \in Writes |-> 0]

-----------------------------------------------------------------------------
(* The client. *)

\* The program calls: a read, or a write with or without a client message id,
\* under a context with or without a deadline.
Start(c) ==
    /\ pc[c] = "idle" /\ Goto(c, "token")
    /\ \E m, d \in BOOLEAN, i \in Ids \cup {NoId} :
           /\ i # NoId => m
           /\ mutates' = [mutates EXCEPT ![c] = m]
           /\ id' = [id EXCEPT ![c] = i]
           /\ deadline' = [deadline EXCEPT ![c] = d]
    /\ UNCHANGED <<ctxDone, attempt, keys, reply, result, requests, server>>

\* timeoutInterceptor: the default only where the context has no deadline.
WithDeadline(c) == deadline[c] \/ Timeout

\* idempotencyInterceptor: a fresh key for a write whose header is empty.  It
\* does not look at the client message id.
NeedsKey(c) == AutoIdempotency /\ mutates[c] /\ header[c] = NoKey
KeyFor(c) == IF NeedsKey(c) THEN minted + 1 ELSE header[c]

\* The token is there, and with it everything up to the first attempt.
Token(c) ==
    /\ pc[c] = "token" /\ Goto(c, "send")
    /\ deadline' = [deadline EXCEPT ![c] = WithDeadline(c)]
    /\ header' = [header EXCEPT ![c] = KeyFor(c)]
    /\ minted' = IF NeedsKey(c) THEN minted + 1 ELSE minted
    /\ UNCHANGED <<request, ctxDone, attempt, reply, result, requests, server>>

\* The call fails before anything is sent.
TokenFails(c) ==
    /\ pc[c] = "token" /\ Return(c, "noToken")
    /\ UNCHANGED <<request, context, attempt, keys, reply, requests, server>>

Send(c) ==
    /\ pc[c] = "send" /\ Goto(c, "wait")
    /\ reply' = [reply EXCEPT ![c] = "none"]
    /\ requests' = requests \cup
           {[call |-> c, attempt |-> attempt[c], key |-> header[c], id |-> id[c]]}
    /\ UNCHANGED <<request, context, attempt, keys, result, server>>

\* No connection, a lost reply, or a context that has ended: an error without
\* the server's mark, which is not retried.
AttemptFails(c) ==
    /\ pc[c] \in {"send", "wait"} /\ Return(c, "failed")
    /\ UNCHANGED <<request, context, attempt, keys, reply, requests, server>>

MayRetry(c) == RetryEnabled /\ attempt[c] < Attempts - 1

Receive(c) ==
    /\ pc[c] = "wait" /\ reply[c] # "none"
    /\ \/ reply[c] = "ok" /\ Return(c, "ok")
       \/ /\ reply[c] = "retryable" /\ MayRetry(c)
          /\ Goto(c, "backoff") /\ UNCHANGED result
       \/ /\ reply[c] = "final" \/ (reply[c] = "retryable" /\ ~MayRetry(c))
          /\ Return(c, "failed")
    /\ UNCHANGED <<request, context, attempt, keys, reply, requests, server>>

\* The timer fires; the same request goes out again.
NextAttempt(c) ==
    /\ pc[c] = "backoff" /\ Goto(c, "send")
    /\ attempt' = [attempt EXCEPT ![c] = @ + 1]
    /\ UNCHANGED <<request, context, keys, reply, result, requests, server>>

BackoffCut(c) ==
    /\ pc[c] = "backoff" /\ ctxDone[c] /\ Return(c, "failed")
    /\ UNCHANGED <<request, context, attempt, keys, reply, requests, server>>

EndContext(c) ==
    /\ Active(c) /\ ~ctxDone[c]
    /\ ctxDone' = [ctxDone EXCEPT ![c] = TRUE]
    /\ UNCHANGED <<pc, request, deadline, attempt, keys, reply, result, requests,
                   server>>

DeadlineExpires(c) == deadline[c] /\ EndContext(c)
CallerCancels(c) == EndContext(c)

-----------------------------------------------------------------------------
(* The server, as far as the client relies on it. *)

Duplicate(r) == ServerDedups /\ \/ r.key # NoKey /\ r.key \in seenKeys
                                \/ r.id # NoId /\ r.id \in seenIds

\* The write takes effect, and its key and client message id are remembered.
Apply(r) ==
    /\ applied' = [applied EXCEPT ![Write(r.call)] = @ + 1]
    /\ seenKeys' = seenKeys \cup ({r.key} \ {NoKey})
    /\ seenIds' = seenIds \cup ({r.id} \ {NoId})

\* A request is handled, at any time after it was sent: it may be applied and
\* still answered with a failure, marked retryable or not.  The answer reaches
\* a call that waits for it.
Serve(r) ==
    /\ requests' = requests \ {r}
    /\ \E o \in Outcomes :
        /\ \/ mutates[r.call] /\ ~Duplicate(r) /\ Apply(r)
           \/ /\ o = "ok" => ~mutates[r.call] \/ Duplicate(r)
              /\ UNCHANGED server
        /\ reply' = IF pc[r.call] = "wait" /\ attempt[r.call] = r.attempt
                    THEN [reply EXCEPT ![r.call] = o] ELSE reply
    /\ UNCHANGED <<pc, request, context, attempt, keys, result>>

-----------------------------------------------------------------------------
Client(c) == Send(c) \/ Receive(c) \/ NextAttempt(c) \/ BackoffCut(c)

TokenSource(c) == Token(c) \/ TokenFails(c)

Environment(c) == Start(c) \/ CallerCancels(c) \/ AttemptFails(c)

Next == \/ \E c \in Calls : \/ Client(c) \/ TokenSource(c) \/ Environment(c)
                            \/ DeadlineExpires(c)
        \/ \E r \in requests : Serve(r)

Spec == Init /\ [][Next]_vars

\* Timers fire, the client's own steps happen, and an attempt or a token fetch
\* returns once its context has ended.  That the server or the network answers
\* is not assumed; that the TokenSource does, only if TokenReturns.
FairSpec ==
    /\ Spec
    /\ \A c \in Calls :
        /\ WF_vars(Client(c)) /\ WF_vars(DeadlineExpires(c))
        /\ WF_vars(AttemptFails(c) /\ ctxDone[c])
        /\ WF_vars(TokenSource(c) /\ (TokenReturns \/ ctxDone[c]))

-----------------------------------------------------------------------------
(* Properties. *)

Requests == [call : Calls, attempt : Nat, key : Nat, id : Ids \cup {NoId}]

TypeOK ==
    /\ pc \in [Calls -> {"idle", "token", "send", "wait", "backoff", "returned"}]
    /\ mutates \in [Calls -> BOOLEAN] /\ id \in [Calls -> Ids \cup {NoId}]
    /\ deadline \in [Calls -> BOOLEAN] /\ ctxDone \in [Calls -> BOOLEAN]
    /\ attempt \in [Calls -> Nat]
    /\ header \in [Calls -> Nat] /\ minted \in Nat
    /\ reply \in [Calls -> Outcomes \cup {"none"}]
    /\ result \in [Calls -> {"none", "ok", "failed", "noToken"}]
    /\ requests \subseteq Requests
    /\ seenKeys \subseteq Nat /\ seenIds \subseteq Ids
    /\ applied \in [Writes -> Nat]

\* The server can tell the attempts of w apart from other writes.
Protected(w) == ServerDedups /\ (AutoIdempotency \/ w \in Ids)

\* A write is applied at most once, however often it is retried or its client
\* message id used again (options.go:76-77, types_message.go:318).
AtMostOnce == \A w \in Writes : Protected(w) => applied[w] <= 1

\* A write that returned success was applied: no other call's key stood in for
\* it (interceptor.go:78-85).
SuccessIsApplied ==
    \A c \in Calls :
        result[c] = "ok" /\ mutates[c] => applied[Write(c)] > 0

\* An attempt is repeated only once the server has answered the one before, so
\* no two of a call's requests are ever under way (interceptor.go:93-94).
OneAttemptAtATime == \A r, s \in requests : r.call = s.call => r = s

\* options.go:108: the total number of attempts, including the first.
AttemptsBounded == \A c \in Calls : attempt[c] < Attempts

\* Why they hold; inductive together with the type invariant.
Keyed ==
    /\ \A c \in Calls :
        /\ header[c] <= minted
        /\ pc[c] \in {"idle", "token"} => header[c] = NoKey
        /\ pc[c] \in {"send", "wait", "backoff"} /\ mutates[c] /\ AutoIdempotency
               => header[c] # NoKey
        /\ pc[c] = "idle" => id[c] = NoId
    /\ \A c, d \in Calls : header[c] = header[d] /\ header[c] # NoKey => c = d

Sent ==
    /\ \A r \in requests :
        /\ r.key = header[r.call] /\ r.id = id[r.call]
        /\ mutates[r.call] /\ AutoIdempotency => r.key # NoKey
        /\ pc[r.call] \in {"wait", "returned"}
        /\ pc[r.call] = "wait" => reply[r.call] = "none"
    /\ OneAttemptAtATime

\* What the server remembers is what it applied.
Remembered ==
    /\ seenKeys \subseteq 1 .. minted
    /\ \A c \in Calls : header[c] \in seenKeys => applied[Write(c)] > 0
    /\ \A i \in Ids : (i \in seenIds) <=> (applied[i] > 0)
    /\ \A c \in Calls : AutoIdempotency /\ id[c] = NoId /\ applied[c] > 0
                            => header[c] # NoKey /\ header[c] \in seenKeys

Answered ==
    \A c \in Calls :
        /\ pc[c] = "wait" /\ reply[c] = "ok" /\ mutates[c] => applied[Write(c)] > 0
        /\ pc[c] \in {"idle", "token"} => attempt[c] = 0
        /\ pc[c] = "backoff" => MayRetry(c)
        /\ pc[c] # "returned" => result[c] = "none"

IInv == /\ TypeOK /\ Keyed /\ Sent /\ Remembered /\ Answered
        /\ AtMostOnce /\ SuccessIsApplied /\ AttemptsBounded

\* With a default deadline configured, every call returns, whatever the server
\* and the network do (dial.go:50-51).
EveryCallReturns ==
    \A c \in Calls : Timeout /\ Active(c) ~> pc[c] = "returned"
==============================================================================
