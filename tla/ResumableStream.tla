---------------------------- MODULE ResumableStream ----------------------------
(***************************************************************************)
(* The resumable engine together with the transport subscriptions it opens: *)
(* the goroutine of run ranges over one subscription after the other, each   *)
(* with a pump goroutine, a channel and a context of its own below run's.    *)
(* Resumable's steps are taken as they are where no stream is involved,      *)
(* Subscription's for everything between the server and run; what Resumable  *)
(* says of reading a stream is what these have to add up to.                 *)
(***************************************************************************)
EXTENDS Resumable

VARIABLES
    pump, offer, rpc, frames, emitted, terminal, subCancelled, consumed, once,
    subErr, loop, after, delivered, verdict,   \* of Subscription; loop is run's
    sub,     \* the stream run holds a subscription to, "none" in between
    frame,   \* the last frame its pump received
    read,    \* how far its server has sent the log
    got      \* the frame the body of run's loop works on

Run == "run"

\* Bound: besides the log a stream carries its completion and one frame to drop.
S == INSTANCE Subscription
         WITH Callers <- {Run}, MaxFrames <- MaxLog + 2,
              parentDone <- cancelled, cancelled <- subCancelled, err <- subErr,
              caller <- loop

engine == <<log, stored, pc, phase, cursor, backoff, pos, head, stalled, consumer,
            held, err, handed, processed, failures, restarts>>
below == <<pump, offer, rpc, frames, emitted, terminal, subCancelled, consumed,
           once, subErr, loop, after, delivered, verdict>>
link == <<sub, frame, read, got>>
streamVars == <<engine, cancelled, below, link>>

InBody == loop[Run] = "body"
Failing == failures < MaxFailures \/ cancelled

-----------------------------------------------------------------------------
(* Plausible bugs; see the note in Resumable.                               *)

Leave_NoClose(next) ==
    /\ sub' = "none"
    /\ IF next \in {"sleep", "attach"} THEN UNCHANGED <<pc, stalled>>
       ELSE pc' = "done" /\ stalled' = FALSE
    /\ UNCHANGED <<log, stored, phase, cursor, backoff, pos, head, consumer, held,
                   err, handed, processed, failures, restarts, cancelled, below,
                   frame, read, got>>

GiveUpSend_Never == FALSE

LoopEnds_CountsAsComplete ==
    /\ S!SeeClosed(Run) \/ S!TakeError(Run)
    /\ stalled' = FALSE
    /\ pc' = IF cancelled THEN pc ELSE IF sub = "catchUp" THEN "attach" ELSE "sleep"
    /\ failures' = IF stalled \/ cancelled THEN failures ELSE failures + 1
    /\ UNCHANGED <<log, stored, phase, cursor, backoff, pos, head, consumer, held,
                   err, handed, processed, restarts, link>>

-----------------------------------------------------------------------------
(* run: the head of its loop and its waits between two streams are           *)
(* Resumable's.                                                              *)

StreamInit ==
    /\ Init
    /\ pump = "done" /\ offer = "event" /\ rpc = "none" /\ frames = 0 /\ emitted = 0
    /\ terminal = "none" /\ subCancelled = FALSE /\ consumed = TRUE /\ once = "done"
    /\ subErr = "none" /\ loop = [c \in {Run} |-> "ended"]
    /\ after = [c \in {Run} |-> "idle"] /\ delivered = <<>> /\ verdict = "none"
    /\ sub = "none" /\ frame = "dropped" /\ read = 0 /\ got = "dropped"

\* The last subscription is forgotten: for a new one, or with the process.
Renew(pumpAt, onceAt, runAt) ==
    /\ pump' = pumpAt /\ once' = onceAt /\ loop' = [c \in {Run} |-> runAt]
    /\ offer' = "event" /\ rpc' = "none" /\ frames' = 0 /\ emitted' = 0
    /\ terminal' = "none" /\ subCancelled' = FALSE /\ consumed' = TRUE
    /\ subErr' = "none" /\ after' = [c \in {Run} |-> "idle"]
    /\ delivered' = <<>> /\ verdict' = "none"
    /\ frame' = "dropped" /\ read' = 0 /\ got' = "dropped"

\* transport.Subscribe starts the pump, and run ranges over the events.  The
\* context is checked before a catch-up, not before the live stream.
Subscribe ==
    /\ sub = "none"
    /\ \/ pc = "top" /\ ~cancelled /\ sub' = "catchUp"
       \/ pc = "attach" /\ sub' = "live"
    /\ Renew("open", "free", "ranging")
    /\ UNCHANGED <<engine, cancelled>>

\* The pump hands run a frame: an entry, passed over if it is not a message of
\* the chat, or CatchupComplete.
TakeFrame ==
    /\ S!TakeEvent(Run) /\ got' = frame
    /\ IF frame = "complete" THEN UNCHANGED <<pos, pc>>
       ELSE pos' = read /\ pc' = IF Wanted(log[read]) THEN "send" ELSE "recv"
    /\ UNCHANGED <<log, stored, phase, cursor, backoff, head, stalled, consumer, held,
                   err, handed, processed, failures, restarts, sub, frame, read>>

\* The loop body is done with an entry.
Continue ==
    /\ InBody /\ pc = "recv" /\ got = "entry" /\ S!BodyDone(Run)
    /\ UNCHANGED <<engine, link>>

\* The loop body is left with CatchupComplete: cursor, save, return nil.
Complete ==
    /\ InBody /\ got = "complete" /\ pc = "recv" /\ S!Break(Run)
    /\ IF head > cursor THEN cursor' = head /\ stored' \in Persist(head)
       ELSE UNCHANGED <<cursor, stored>>
    /\ backoff' = MinBackoff /\ pc' = "attach"
    /\ UNCHANGED <<log, phase, pos, head, stalled, consumer, held, err, handed, processed,
                   failures, restarts, link>>

\* trySend to the consumer finds the context done: return from the loop body.
GiveUpSend ==
    /\ InBody /\ pc = "send" /\ cancelled /\ S!Break(Run)
    /\ UNCHANGED <<engine, link>>

\* The stream ended, with an error or without.  run looks at the context before
\* it looks at the error: it sleeps only if the context is alive.
LoopEnds ==
    /\ S!SeeClosed(Run) \/ S!TakeError(Run)
    /\ IF cancelled THEN UNCHANGED <<pc, stalled, failures>>
       ELSE /\ pc' = "sleep" /\ stalled' = FALSE
            /\ failures' = IF stalled THEN failures ELSE failures + 1
    /\ UNCHANGED <<log, stored, phase, cursor, backoff, pos, head, consumer, held,
                   err, handed, processed, restarts, link>>

\* The deferred Close of the iteration, and what run does once it is over (the
\* second deferred Close, of catchUp and live, then returns at once).
CloseSub == S!CloseFirst(Run) /\ UNCHANGED <<engine, link>>

Leave(next) ==
    /\ S!CloseReturns(Run) /\ sub' = "none"
    /\ IF next \in {"sleep", "attach"} THEN UNCHANGED <<pc, stalled>>
       ELSE pc' = "done" /\ stalled' = FALSE
    /\ UNCHANGED <<log, stored, phase, cursor, backoff, pos, head, consumer, held,
                   err, handed, processed, failures, restarts, frame, read, got>>

\* A live stream that its context ended before it was opened is not tried again.
Return ==
    /\ sub # "none" /\ loop[Run] \in {"close", "closeWait"}
    /\ Leave(IF pc = "attach" /\ sub = "live" THEN "return" ELSE pc)

\* The steps of run that do not touch a stream, in the body of its loop or outside.
Alone ==
    /\ \/ Load \/ LoadError \/ SendError
       \/ InBody /\ (Send \/ Save)
       \/ sub = "none" /\ Wake
       \/ sub = "none" /\ pc \in {"top", "sleep", "sendErr"} /\ Stop
    /\ UNCHANGED <<below, link>>

-----------------------------------------------------------------------------
(* The pump and its server.                                                  *)

\* The request reaches the server while the context lives; the server fixes
\* where the stream starts and, for a catch-up, its head (OpenCatchUp and
\* OpenLive).  Of a request that fails only the failure matters.
Open ==
    /\ sub # "none" /\ ~cancelled /\ (S!OpenStream \/ (Failing /\ S!OpenFails))
    /\ phase' = sub /\ pc' = "recv"
    /\ IF sub = "catchUp"
       THEN /\ head' \in {h \in 0..Len(log) : h + MaxLag >= Len(log)}
            /\ pos' = cursor
       ELSE /\ pos' \in IF ContiguousAttach THEN {head} ELSE head..Len(log)
            /\ UNCHANGED head
    /\ read' = pos'
    /\ UNCHANGED <<log, stored, cursor, backoff, stalled, consumer, held, err, handed,
                   processed, failures, restarts, sub, frame, got>>

OpenRefused ==
    /\ sub # "none" /\ cancelled /\ S!OpenFails
    /\ UNCHANGED <<engine, link>>

\* A replay sends every entry up to its head, then that it is complete; a live
\* stream the entries it wants.  Either may send frames that map to nothing.
Arrives ==
    /\ sub # "none" /\ ~stalled /\ frame # "complete" /\ S!ReceiveFrame
    /\ \/ frames = emitted /\ frame' = "dropped" /\ UNCHANGED read
       \/ sub = "catchUp" /\ read < head /\ frame' = "entry" /\ read' = read + 1
       \/ sub = "catchUp" /\ read >= head /\ frame' = "complete" /\ UNCHANGED read
       \/ /\ sub = "live" /\ frame' = "entry"
          /\ \E s \in read + 1..Len(log) :
               /\ Wanted(log[s]) /\ \A t \in read + 1..s - 1 : ~Wanted(log[t])
               /\ read' = s
    /\ UNCHANGED <<engine, sub, got>>

\* The peer goes away without closing the connection.  (With a frame still on
\* its way to run the stall begins a moment later.)
Stalls ==
    /\ sub # "none" /\ pump = "recv" /\ loop[Run] = "ranging" /\ StreamStalls
    /\ UNCHANGED <<below, link>>

\* The server ends the stream (after its completion it always may) or breaks it;
\* the keepalive breaks a half-open connection.
ServerEnds ==
    /\ sub # "none"
    /\ \/ ~stalled /\ (Failing \/ frame = "complete") /\ S!ReceiveEOF
       \/ (stalled \/ Failing) /\ S!ReceiveFails
    /\ UNCHANGED <<engine, link>>

MapFrame ==
    /\ sub # "none" /\ S!MapFrame
    /\ IF frame = "dropped" THEN pump' = "recv" ELSE offer' = "event" /\ pump' = "send"
    /\ UNCHANGED <<engine, link>>

PumpStops ==
    /\ sub # "none" /\ (S!ReceiveCancelled \/ S!GiveUp \/ S!Unwind)
    /\ UNCHANGED <<engine, link>>

-----------------------------------------------------------------------------
\* The consumer and its surroundings; a crash takes the subscription with it.
Outside ==
    /\ \/ StartRange \/ RangeAgain \/ BodyDone \/ Break \/ SeeClosed
       \/ CloseUnread \/ CloseReturns \/ Cancel \/ AppendEvent
    /\ UNCHANGED <<below, link>>

Crash == Restart /\ Renew("done", "done", "ended") /\ sub' = "none"

\* Nothing is left to do.
Finished == pc = "done" /\ consumer = "ended" /\ UNCHANGED streamVars

RunStep == \/ Subscribe \/ TakeFrame \/ Continue \/ Complete \/ GiveUpSend
           \/ LoopEnds \/ CloseSub \/ Return \/ Alone

Server == Open \/ Arrives \/ ServerEnds
Pump == OpenRefused \/ MapFrame \/ PumpStops

StreamNext == RunStep \/ Server \/ Pump \/ Stalls \/ Outside \/ Crash \/ Finished

StreamSpec == StreamInit /\ [][StreamNext]_streamVars

\* As in Resumable and Subscription: both goroutines run, the consumer comes
\* back, and a stream that holds a frame delivers it or breaks.
StreamFairSpec ==
    /\ StreamSpec /\ WF_streamVars(RunStep) /\ WF_streamVars(Server) /\ WF_streamVars(Pump)
    /\ WF_streamVars(Consumer /\ UNCHANGED <<below, link>>)

-----------------------------------------------------------------------------
(* Properties.                                                              *)

\* Every variable keeps its type.
StreamTypeOK ==
    /\ TypeOK /\ S!TypeOK
    /\ sub \in {"none", "catchUp", "live"}
    /\ frame \in {"dropped", "entry", "complete"} /\ got \in {"dropped", "entry", "complete"}
    /\ read \in 0..Len(log)

Looping == loop[Run] \in {"ranging", "body"}
Closing == loop[Run] \in {"close", "closeWait"}

\* The pump holds a frame for run, or has stopped and holds at most an error.
Holding == pump = "map" \/ (pump = "send" /\ offer = "event")
Stopped == pump \in {"unwind", "outClosed", "done"} \/ (pump = "send" /\ offer # "event")

\* A subscription lives from Subscribe to Return, and run holds one or none.
Lifecycle ==
    /\ S!OutClosed => rpc # "open"
    /\ once = "done" => pump = "done"
    /\ sub = "none" => pump = "done" /\ loop[Run] = "ended"
    /\ sub # "none" => Looping \/ Closing
    /\ pc \in {"load", "sendErr", "done"} => sub = "none"
    /\ consumer = "ended" => pc = "done"
    /\ Closing => after[Run] = "ended"
    /\ subCancelled => loop[Run] \in {"closeWait", "ended"}
    /\ Holding \/ pump = "recv" => rpc = "open"

\* Where run is, by Resumable's account and by Subscription's.
Places ==
    /\ pump = "open" =>
         loop[Run] = "ranging" /\ rpc = "none" /\ pc = IF sub = "catchUp" THEN "top" ELSE "attach"
    /\ loop[Run] = "ranging" =>
         /\ pc \in {"top", "attach", "recv"} /\ got # "complete"
         /\ pump # "open" /\ (~cancelled \/ rpc # "none") => pc = "recv" /\ phase = sub
    /\ InBody =>
         /\ pc \in {"recv", "send", "save"} /\ phase = sub /\ ~stalled /\ got # "dropped"
         /\ got = "complete" => pc = "recv" /\ sub = "catchUp" /\ pos >= head
    /\ Closing =>
         \/ pc = "sleep" \/ (pc = "attach" /\ sub = "catchUp")
         \/ cancelled /\ pc \in {"top", "attach", "recv", "send"}
    /\ stalled => pc = "recv" /\ ~InBody /\ sub # "none" /\ ~Holding

\* How far the pump is ahead of run.
Ahead ==
    /\ pump = "recv" => read = pos
    /\ Holding =>
         /\ frame = "entry" /\ sub = "catchUp" => read = pos + 1 /\ read <= head
         /\ frame = "entry" /\ sub = "live" =>
              /\ pos < read /\ Wanted(log[read])
              /\ \A t \in pos + 1..read - 1 : ~Wanted(log[t])
         /\ frame # "entry" => read = pos
         /\ frame = "complete" => sub = "catchUp" /\ pos >= head
    /\ pump = "send" /\ offer = "event" => frame # "dropped"

\* A stream that run still reads ended for a reason that counts.
Reasons ==
    Looping /\ got # "complete" /\ ~cancelled /\ ~stalled =>
        /\ Stopped => failures < MaxFailures
        /\ frame = "complete" => Holding

\* The subscription run holds is one, with what Subscription says of it.
Inside == sub # "none" => S!OneLoop /\ S!Teardown /\ S!Flow /\ S!Endings

\* Strengthened to be inductive; see the proofs.
StreamInv == StreamTypeOK /\ Lifecycle /\ Places /\ Ahead /\ Reasons /\ Inside

\* Between the server and the consumer stand two goroutines, two channels and two
\* contexts, of which either may hold an event when the other is cancelled or its
\* stream breaks.  Seen from outside, the engine reads a stream like a position
\* in the log: what Resumable and its theorems say holds of it as well.
ImplementsResumable == Spec

\* At most one stream is open at a time, and once run has returned, so once a
\* Close or the loop of the program has, no goroutine and no RPC of any stream is
\* left (resumable.go:152-153, 189-190, 258-266).
NothingLeftBehind ==
    sub = "none" \/ pc = "done" \/ consumer = "ended" => pump = "done" /\ rpc # "open"

\* The stream run holds ends the way Subscription promises.
HonestEnds == sub # "none" => S!NoSilentFailure /\ S!CloseIsFinal

\* Between the server and run nothing happens but what a Subscription may do; a
\* new one starts where Subscribe or a crash puts it.
SubscriptionSteps ==
    [][S!Next \/ Renew("open", "free", "ranging") \/ Renew("done", "done", "ended")]_(S!vars)

\* A cancelled engine gets out of its two nested waits, whichever goroutine was
\* blocked on which channel, and so a Close returns (resumable.go:104-105, 214-221,
\* 258-266).
EverythingExits ==
    /\ cancelled ~> ((pc = "done" /\ pump = "done") \/ ~cancelled)
    /\ consumer = "closing" ~> consumer # "closing"
==============================================================================
