---------------------------- MODULE Subscription ----------------------------
(***************************************************************************)
(* A transport subscription, internal/transport/stream.go: a pump goroutine *)
(* that opens a server stream, maps its frames and hands the events over on *)
(* an unbuffered channel, and any number of goroutines that call Events and *)
(* Close on it.  The pump's context ends when a Close cancels it or when    *)
(* the caller's own context does.                                           *)
(***************************************************************************)
EXTENDS Integers, Sequences, FiniteSets

CONSTANTS Callers,      \* goroutines that share the subscription
          MaxFrames     \* bound of the model: frames the server sends

ASSUME CallersAssumption == IsFiniteSet(Callers) /\ MaxFrames \in Nat

VARIABLES
    pump,       \* where the pump goroutine is
    offer,      \* the result it is trying to send: "event" or an error
    rpc,        \* the server stream: "none", "open", "closed"
    frames,     \* frames received
    emitted,    \* of these, events
    terminal,   \* history: how receiving ended
    parentDone, \* the caller's context has ended
    cancelled,  \* Close has cancelled the derived context
    consumed,   \* the atomic flag of Events
    once,       \* the sync.Once of Close: "free", "running", "done"
    err,        \* what Err returns
    caller,     \* where each goroutine is
    after,      \* where its Close call returns to
    delivered,  \* history: the events yielded, in order
    verdict     \* history: how the consumer's loop ended

stream == <<offer, rpc, frames, emitted, terminal>>
context == <<parentDone, cancelled>>
guards == <<consumed, once>>
history == <<delivered, verdict>>
vars == <<pump, stream, context, guards, err, caller, after, history>>

Errors == {"stream", "context"}
PumpStates == {"open", "recv", "map", "send", "unwind", "outClosed", "done"}
CallerStates == {"idle", "ranging", "body", "close", "closeWait", "ended"}

CtxDone == parentDone \/ cancelled

Move(c, s) == caller' = [caller EXCEPT ![c] = s]

\* setErr keeps the first error.
SetErr(e) == err' = IF err = "none" THEN e ELSE err

\* Receiving (or opening) failed; the error is offered before the pump returns.
FailWith(e) ==
    /\ terminal' = e
    /\ offer' = e
    /\ pump' = "send"

-----------------------------------------------------------------------------
(* Plausible bugs, each in the place of the definition its name starts      *)
(* with, to show that the properties below notice them.  No specification   *)
(* of this module uses one.                                                 *)

OutClosed_Never == FALSE

GiveUp_NonBlocking ==
    /\ pump = "send" /\ pump' = "unwind"
    /\ UNCHANGED <<stream, context, guards, err, caller, after, history>>

GiveUp_Never == FALSE

Range_NoFlag(c) ==
    /\ caller[c] = "idle" /\ Move(c, "ranging")
    /\ UNCHANGED <<pump, stream, context, guards, err, after, history>>

CloseFirst_NoCancel(c) ==
    /\ caller[c] = "close" /\ once = "free"
    /\ once' = "running" /\ Move(c, "closeWait")
    /\ UNCHANGED <<pump, stream, context, consumed, err, after, history>>

CloseReturns_NoWait(c) ==
    /\ caller[c] \in {"close", "closeWait"}
    /\ once' = "done" /\ Move(c, after[c])
    /\ UNCHANGED <<pump, stream, context, consumed, err, after, history>>

-----------------------------------------------------------------------------
\* out is closed before done, in the order the defers run.
OutClosed == pump \in {"outClosed", "done"}

Init ==
    /\ pump = "open" /\ offer = "event" /\ rpc = "none"
    /\ frames = 0 /\ emitted = 0 /\ terminal = "none"
    /\ parentDone = FALSE /\ cancelled = FALSE
    /\ consumed = FALSE /\ once = "free" /\ err = "none"
    /\ caller = [c \in Callers |-> "idle"]
    /\ after = [c \in Callers |-> "idle"]
    /\ delivered = <<>> /\ verdict = "none"

-----------------------------------------------------------------------------
(* The pump. *)

OpenStream ==
    /\ pump = "open"
    /\ rpc' = "open" /\ pump' = "recv"
    /\ UNCHANGED <<offer, frames, emitted, terminal, context, guards, err, caller,
                   after, history>>

OpenFails ==
    /\ pump = "open"
    /\ \E e \in Errors : (e = "context" => CtxDone) /\ FailWith(e)
    /\ UNCHANGED <<rpc, frames, emitted, context, guards, err, caller, after,
                   history>>

ReceiveFrame ==
    /\ pump = "recv" /\ frames < MaxFrames
    /\ frames' = frames + 1 /\ pump' = "map"
    /\ UNCHANGED <<offer, rpc, emitted, terminal, context, guards, err, caller,
                   after, history>>

\* io.EOF: Err stays nil.
ReceiveEOF ==
    /\ pump = "recv"
    /\ terminal' = "eof" /\ pump' = "unwind"
    /\ UNCHANGED <<offer, rpc, frames, emitted, context, guards, err, caller,
                   after, history>>

ReceiveFails ==
    /\ pump = "recv"
    /\ FailWith("stream")
    /\ UNCHANGED <<rpc, frames, emitted, context, guards, err, caller, after,
                   history>>

\* Once its context ends, Receive returns false with the context's error.
ReceiveCancelled ==
    /\ pump = "recv" /\ CtxDone
    /\ FailWith("context")
    /\ UNCHANGED <<rpc, frames, emitted, context, guards, err, caller, after,
                   history>>

\* mapFn: an event, a frame to drop (heartbeats, unknown payloads), or an error.
MapFrame ==
    /\ pump = "map"
    /\ \/ /\ offer' = "event" /\ emitted' = emitted + 1
          /\ pump' = "send"
          /\ UNCHANGED terminal
       \/ /\ pump' = "recv"
          /\ UNCHANGED <<offer, emitted, terminal>>
       \/ /\ FailWith("stream")
          /\ UNCHANGED emitted
    /\ UNCHANGED <<rpc, frames, context, guards, err, caller, after, history>>

\* trySend takes the cancelled branch.
GiveUp ==
    /\ pump = "send" /\ CtxDone
    /\ pump' = "unwind"
    /\ UNCHANGED <<stream, context, guards, err, caller, after, history>>

\* The deferred stream.Close, close(out) and close(done), in that order.
Unwind ==
    /\ \/ pump = "unwind" /\ pump' = "outClosed"
          /\ rpc' = IF rpc = "open" THEN "closed" ELSE rpc
       \/ pump = "outClosed" /\ pump' = "done" /\ UNCHANGED rpc
    /\ UNCHANGED <<offer, frames, emitted, terminal, context, guards, err, caller,
                   after, history>>

-----------------------------------------------------------------------------
(* The goroutines that use the subscription. *)

\* Events: the first call ranges, any later one yields nothing and sets Err.
Range(c) ==
    /\ caller[c] = "idle"
    /\ \/ ~consumed /\ consumed' = TRUE /\ Move(c, "ranging") /\ UNCHANGED err
       \/ consumed /\ SetErr("alreadyConsumed") /\ UNCHANGED <<consumed, caller>>
    /\ UNCHANGED <<pump, stream, context, once, after, history>>

\* The pump's send meets the ranging goroutine: an event goes to its loop body.
TakeEvent(c) ==
    /\ pump = "send" /\ offer = "event" /\ caller[c] = "ranging"
    /\ delivered' = Append(delivered, emitted)
    /\ Move(c, "body")
    /\ pump' = "recv"
    /\ UNCHANGED <<stream, context, guards, err, after, verdict>>

\* The loop of c ends; the deferred Close runs next.
LeaveLoop(c, how) ==
    /\ verdict' = how
    /\ Move(c, "close")
    /\ after' = [after EXCEPT ![c] = "ended"]

\* An error ends the loop, and the pump returns.
TakeError(c) ==
    /\ pump = "send" /\ offer \in Errors /\ caller[c] = "ranging"
    /\ SetErr(offer)
    /\ LeaveLoop(c, "error")
    /\ pump' = "unwind"
    /\ UNCHANGED <<stream, context, guards, delivered>>

\* out is closed; "cut" when the context had ended by then.
SeeClosed(c) ==
    /\ caller[c] = "ranging" /\ OutClosed
    /\ LeaveLoop(c, IF CtxDone THEN "cut" ELSE "clean")
    /\ UNCHANGED <<pump, stream, context, guards, err, delivered>>

BodyDone(c) ==
    /\ caller[c] = "body" /\ Move(c, "ranging")
    /\ UNCHANGED <<pump, stream, context, guards, err, after, history>>

Break(c) ==
    /\ caller[c] = "body"
    /\ LeaveLoop(c, "left")
    /\ UNCHANGED <<pump, stream, context, guards, err, delivered>>

\* Close, from outside the loop or from its body.
CallClose(c) ==
    /\ caller[c] \in {"idle", "body"}
    /\ Move(c, "close")
    /\ after' = [after EXCEPT ![c] = caller[c]]
    /\ UNCHANGED <<pump, stream, context, guards, err, history>>

\* closeOnce: the first call cancels and waits for done, others wait for it.
CloseFirst(c) ==
    /\ caller[c] = "close" /\ once = "free"
    /\ once' = "running" /\ cancelled' = TRUE
    /\ Move(c, "closeWait")
    /\ UNCHANGED <<pump, stream, parentDone, consumed, err, after, history>>

CloseReturns(c) ==
    /\ \/ caller[c] = "closeWait" /\ pump = "done"
       \/ caller[c] = "close" /\ once = "done"
    /\ once' = "done"
    /\ Move(c, after[c])
    /\ UNCHANGED <<pump, stream, context, consumed, err, after, history>>

ParentEnds ==
    /\ ~parentDone /\ parentDone' = TRUE
    /\ UNCHANGED <<pump, stream, cancelled, guards, err, caller, after, history>>

-----------------------------------------------------------------------------
Server == OpenStream \/ OpenFails \/ ReceiveFrame \/ ReceiveEOF \/ ReceiveFails

Pump == MapFrame \/ GiveUp \/ Unwind \/ ReceiveCancelled
            \/ \E c \in Callers : TakeEvent(c) \/ TakeError(c)

User(c) == SeeClosed(c) \/ BodyDone(c) \/ CloseFirst(c) \/ CloseReturns(c)

Choice(c) == Range(c) \/ Break(c) \/ CallClose(c)

Next == \/ Server \/ Pump \/ ParentEnds
        \/ \E c \in Callers : User(c) \/ Choice(c)

Spec == Init /\ [][Next]_vars

\* The pump's own steps and the goroutines' returns happen; that the server
\* answers, or that anyone ranges or closes, is not assumed.  An open or a
\* receive returns once its context has ended.
FairSpec ==
    /\ Spec
    /\ WF_vars(Pump) /\ WF_vars(Server /\ CtxDone)
    /\ \A c \in Callers : WF_vars(User(c))

-----------------------------------------------------------------------------
(* Properties. *)

TypeOK ==
    /\ pump \in PumpStates /\ offer \in {"event"} \cup Errors
    /\ rpc \in {"none", "open", "closed"}
    /\ frames \in Nat /\ emitted \in Nat
    /\ terminal \in {"none", "eof"} \cup Errors
    /\ parentDone \in BOOLEAN /\ cancelled \in BOOLEAN /\ consumed \in BOOLEAN
    /\ once \in {"free", "running", "done"}
    /\ err \in {"none", "alreadyConsumed"} \cup Errors
    /\ caller \in [Callers -> CallerStates]
    /\ after \in [Callers -> {"idle", "body", "ended"}]
    /\ delivered \in Seq(Nat)
    /\ verdict \in {"none", "error", "clean", "cut", "left"}

\* A Close that returned, in any goroutine, and a loop that ended leave no
\* goroutine and no RPC behind (stream.go:43-46, 106-108, 144-146).
CloseIsFinal ==
    once = "done" \/ (\E c \in Callers : caller[c] = "ended")
        => pump = "done" /\ rpc # "open"

\* The subscription implements EventStream: every event once and in order, one
\* at a time, and none after the loop ended or a Close returned.
Over == verdict # "none" \/ once = "done"
ES == INSTANCE EventStream WITH over <- Over
ImplementsEventStream == ES!Spec

\* A loop that ends while the context is alive ended cleanly only if the stream
\* did, and otherwise took the error (stream.go:128-129).
NoSilentFailure ==
    /\ verdict = "clean" => terminal = "eof"
    /\ verdict = "error" => err # "none"

\* Who is in the loop: also the goroutine whose loop body is inside Close.
Active(c) == \/ caller[c] \in {"ranging", "body"}
             \/ caller[c] \in {"close", "closeWait"} /\ after[c] = "body"

\* Why the safety properties hold; inductive.
OneLoop ==
    /\ ~consumed => verdict = "none"
    /\ \A c \in Callers : Active(c) => consumed /\ verdict = "none"
    /\ \A c, d \in Callers : Active(c) /\ Active(d) => c = d

Teardown ==
    /\ OutClosed => rpc # "open"
    /\ once = "done" => pump = "done"
    /\ \A c \in Callers : caller[c] = "ended" => once = "done"

Flow ==
    /\ pump \in {"open", "recv", "map"} => emitted = Len(delivered)
    /\ pump = "send" /\ offer = "event" => emitted = Len(delivered) + 1
    /\ pump = "send" /\ offer # "event" => emitted = Len(delivered)

Endings ==
    /\ pump \in {"unwind", "outClosed", "done"} /\ verdict = "none" /\ ~CtxDone
           => terminal = "eof"
    /\ verdict = "clean" => OutClosed
    /\ NoSilentFailure

IInv == TypeOK /\ OneLoop /\ Teardown /\ Flow /\ Endings

\* stream.go:128 as written, for a subscription nobody closed early: Err is nil
\* only if the stream ended cleanly.
ErrTellsTheEnd ==
    verdict \in {"clean", "cut"} /\ ~cancelled /\ err = "none" => terminal = "eof"

\* The pump exits once its context ends, whatever it was doing and whether or
\* not anyone reads (stream.go:43-46, 95-96).
PumpExits == CtxDone ~> pump = "done"

\* Every Close returns, also from two goroutines or from the loop's body.
CloseCompletes ==
    \A c \in Callers : caller[c] \in {"close", "closeWait"}
                           ~> caller[c] \notin {"close", "closeWait"}

\* A consumer that waits for an event when the stream has ended is released.
LoopEnds ==
    \A c \in Callers : (pump = "done" /\ caller[c] = "ranging")
                           ~> caller[c] # "ranging"
==============================================================================
