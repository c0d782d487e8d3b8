------------------------------ MODULE Resumable ------------------------------
(***************************************************************************)
(* The resumable message subscription of resumable.go: one engine          *)
(* goroutine (run) that loops catch-up -> live -> back-off, a consumer that *)
(* ranges over Events and closes, a persistent SequenceStore, and the       *)
(* server's durable event log.  The process may crash and start again with  *)
(* the same store.                                                          *)
(*                                                                         *)
(* The transport subscription below each phase is reduced to a reading      *)
(* position in the log: it delivers in order and may end at any moment.     *)
(***************************************************************************)
EXTENDS Integers, Sequences, FiniteSets

CONSTANTS
    Entries,            \* what the log may hold: [family, chat, sequenced]
    Chat,               \* ResumableOptions.Chat, or NoChat for every chat
    NoChat,
    MinBackoff,         \* ResumableOptions.MinBackoff and MaxBackoff
    MaxBackoff,
    SaveFails,          \* when Store.Save may fail: "never", "cancelled", "any"
    ContiguousAttach,   \* the server's promise of events.go:140-141 (see OpenLive)
    MaxLag,             \* how far a catch-up's head may lag behind the log
    MaxLog,             \* bounds of the model: events appended,
    MaxFailures,        \*   streams that end or stall,
    MaxRestarts         \*   crashes of the process

ASSUME EntriesAssumption ==
    \A e \in Entries : e.family \in {"message", "other"} /\ e.sequenced \in BOOLEAN

\* Only positive options replace the defaults; nothing orders the two
\* (resumable.go:52-60).
ASSUME BackoffAssumption == MinBackoff \in Nat \ {0} /\ MaxBackoff \in Nat \ {0}

ASSUME StoreAssumption == SaveFails \in {"never", "cancelled", "any"}

ASSUME ServerAssumption == ContiguousAttach \in BOOLEAN /\ MaxLag \in Nat

ASSUME BoundsAssumption ==
    MaxLog \in Nat /\ MaxFailures \in Nat /\ MaxRestarts \in Nat

VARIABLES
    log,        \* the server's durable log; an event's sequence is its index
    stored,     \* the cursor in the SequenceStore, 0 when nothing is stored
    pc,         \* where the engine goroutine is
    phase,      \* the stream it has open, or had last
    cursor,     \* run's local cursor
    backoff,    \* run's local backoff
    pos,        \* how far the open stream was read
    head,       \* HeadSequence of the current (or last) catch-up
    stalled,    \* the open stream's connection is half-open
    cancelled,  \* the derived context is cancelled
    consumer,   \* where the goroutine that ranges over Events is
    held,       \* the event last handed over in this session, 0 if none
    err,        \* what Err returns
    handed,     \* history: events handed over, in any session
    processed,  \* history: events whose loop body finished, in any session
    failures,   \* history: streams that ended or stalled
    restarts    \* history: crashes

durable == <<log, stored>>
progress == <<cursor, backoff>>
reader == <<phase, pos, head, stalled>>
caller == <<consumer, held, err>>
history == <<handed, processed>>
bounds == <<failures, restarts>>
vars == <<durable, pc, progress, reader, cancelled, caller, history, bounds>>

EngineStates == {"load", "sendErr", "top", "recv", "send", "save", "attach",
                 "sleep", "done"}
ConsumerStates == {"idle", "ranging", "body", "closing", "ended"}

-----------------------------------------------------------------------------
(* The data the control depends on.                                        *)

\* A message event of the subscribed chat.  Catch-up filters in the client
\* (resumable.go:164-168), live by the request's chat_guid (messages.go:356).
Wanted(e) == e.family = "message" /\ (Chat = NoChat \/ e.chat = Chat)

\* messageEventMeta's sequence of the s-th entry; 0 when the frame carries none.
SeqOf(s) == IF log[s].sequenced THEN s ELSE 0

\* saveCursor: the values the store may hold after Save(seq).  The error is
\* dropped; without a store every Save is as if it failed.
Persist(seq) ==
    {seq} \cup IF SaveFails = "any" \/ (SaveFails = "cancelled" /\ cancelled)
               THEN {stored} ELSE {}

-----------------------------------------------------------------------------
(* Plausible bugs, each in the place of the definition its name starts      *)
(* with, to show that the properties below notice them.  No specification   *)
(* of this module uses one.                                                 *)

NextBackoff_Uncapped == 2 * backoff

KeepaliveTeardown_Off == FALSE

OpenCatchUp_FromZero ==
    /\ pc = "top" /\ ~cancelled
    /\ phase' = "catchUp" /\ pos' = 0 /\ pc' = "recv"
    /\ head' \in {h \in 0..Len(log) : h + MaxLag >= Len(log)}
    /\ UNCHANGED <<durable, progress, stalled, cancelled, caller, history, bounds>>

RecvCatchUp_CursorFirst ==
    /\ pc = "recv" /\ phase = "catchUp" /\ ~stalled /\ pos < head
    /\ pos' = pos + 1 /\ cursor' = pos + 1
    /\ pc' = IF Wanted(log[pos + 1]) THEN "send" ELSE "recv"
    /\ UNCHANGED <<durable, phase, backoff, head, stalled, cancelled, caller,
                   history, bounds>>

RecvCatchUp_Unfiltered ==
    /\ pc = "recv" /\ phase = "catchUp" /\ ~stalled /\ pos < head
    /\ pos' = pos + 1 /\ pc' = "send"
    /\ UNCHANGED <<durable, phase, progress, head, stalled, cancelled, caller,
                   history, bounds>>

RecvComplete_Early ==
    /\ pc = "recv" /\ phase = "catchUp" /\ ~stalled
    /\ cursor' = head /\ stored' \in Persist(head)
    /\ backoff' = MinBackoff /\ pc' = "attach"
    /\ UNCHANGED <<log, reader, cancelled, caller, history, bounds>>

RecvComplete_Rewinds ==
    /\ pc = "recv" /\ phase = "catchUp" /\ ~stalled /\ pos >= head
    /\ cursor' = head /\ stored' \in Persist(head)
    /\ backoff' = MinBackoff /\ pc' = "attach"
    /\ UNCHANGED <<log, reader, cancelled, caller, history, bounds>>

Send_Buffered ==
    /\ pc = "send" /\ consumer \in {"ranging", "body"}
    /\ handed' = handed \cup {pos} /\ held' = pos /\ consumer' = "body"
    /\ pc' = IF SeqOf(pos) > 0 THEN "save" ELSE "recv"
    /\ UNCHANGED <<durable, reader, progress, cancelled, err, processed, bounds>>

CloseReturns_NoWait ==
    /\ consumer = "closing" /\ consumer' = "ended"
    /\ UNCHANGED <<durable, pc, reader, progress, cancelled, held, err, history,
                   bounds>>

-----------------------------------------------------------------------------
\* sleepBackoff's doubled and capped backoff.
NextBackoff == IF 2 * backoff > MaxBackoff THEN MaxBackoff ELSE 2 * backoff

Init ==
    /\ log = <<>> /\ stored = 0
    /\ pc = "load" /\ phase = "catchUp"
    /\ cursor = 0 /\ backoff = MinBackoff
    /\ pos = 0 /\ head = 0 /\ stalled = FALSE
    /\ cancelled = FALSE /\ consumer = "idle" /\ held = 0 /\ err = "none"
    /\ handed = {} /\ processed = {}
    /\ failures = 0 /\ restarts = 0

(* The server. *)

AppendEvent ==
    /\ Len(log) < MaxLog
    /\ \E e \in Entries : log' = Append(log, e)
    /\ UNCHANGED <<stored, pc, reader, progress, cancelled, caller, history,
                   bounds>>

\* The open stream ends: it could not be opened, failed, or was ended by the
\* server (for a catch-up: before its CatchupComplete).
StreamEnds ==
    /\ pc = "recv" /\ ~cancelled
    /\ failures < MaxFailures
    /\ failures' = failures + 1
    /\ stalled' = FALSE
    /\ pc' = "sleep"
    /\ UNCHANGED <<durable, phase, progress, pos, head, cancelled, caller,
                   history, restarts>>

\* The peer goes away without closing the connection: nothing more arrives.
StreamStalls ==
    /\ pc = "recv" /\ ~stalled
    /\ failures < MaxFailures
    /\ failures' = failures + 1
    /\ stalled' = TRUE
    /\ UNCHANGED <<durable, pc, phase, progress, pos, head, cancelled, caller,
                   history, restarts>>

\* The HTTP/2 keepalive notices the stall and fails the stream.
KeepaliveTeardown ==
    /\ pc = "recv" /\ stalled /\ ~cancelled
    /\ stalled' = FALSE
    /\ pc' = "sleep"
    /\ UNCHANGED <<durable, phase, progress, pos, head, cancelled, caller,
                   history, bounds>>

(* The engine. *)

Load ==
    /\ pc = "load"
    /\ cursor' = stored
    /\ pc' = "top"
    /\ UNCHANGED <<durable, reader, backoff, cancelled, caller, history, bounds>>

LoadError ==
    /\ pc = "load"
    /\ pc' = "sendErr"
    /\ UNCHANGED <<durable, reader, progress, cancelled, caller, history,
                   bounds>>

\* The error meets a ranging consumer, whose loop ends: it records the error
\* and its deferred Close cancels.
SendError ==
    /\ pc = "sendErr" /\ consumer = "ranging"
    /\ err' = IF err = "none" THEN "load" ELSE err
    /\ consumer' = "closing"
    /\ cancelled' = TRUE
    /\ pc' = "done"
    /\ UNCHANGED <<durable, reader, progress, held, history, bounds>>

\* Ask for the events after the cursor; the server fixes the head it will
\* replay up to.
OpenCatchUp ==
    /\ pc = "top" /\ ~cancelled
    /\ phase' = "catchUp"
    /\ pos' = cursor
    /\ head' \in {h \in 0..Len(log) : h + MaxLag >= Len(log)}
    /\ pc' = "recv"
    /\ UNCHANGED <<durable, progress, stalled, cancelled, caller, history,
                   bounds>>

\* A catch-up frame: an event to deliver, or one of another family or chat,
\* which is passed over without moving the cursor.
RecvCatchUp ==
    /\ pc = "recv" /\ phase = "catchUp" /\ ~stalled
    /\ pos < head
    /\ pos' = pos + 1
    /\ pc' = IF Wanted(log[pos + 1]) THEN "send" ELSE "recv"
    /\ UNCHANGED <<durable, phase, progress, head, stalled, cancelled, caller,
                   history, bounds>>

\* CatchupComplete: the cursor moves up to the head (never down), and the
\* connection counts as healthy.
RecvComplete ==
    /\ pc = "recv" /\ phase = "catchUp" /\ ~stalled
    /\ pos >= head
    /\ \/ /\ head > cursor
          /\ cursor' = head
          /\ stored' \in Persist(head)
       \/ /\ head <= cursor
          /\ UNCHANGED <<cursor, stored>>
    /\ backoff' = MinBackoff
    /\ pc' = "attach"
    /\ UNCHANGED <<log, reader, cancelled, caller, history, bounds>>

\* live() subscribes without a position.  A server that keeps the promise of
\* events.go:140-141 starts right after the catch-up's head; one that starts at
\* whatever its log has reached may start anywhere from there on.
OpenLive ==
    /\ pc = "attach" /\ ~cancelled
    /\ phase' = "live"
    /\ pos' \in IF ContiguousAttach THEN {head} ELSE head..Len(log)
    /\ pc' = "recv"
    /\ UNCHANGED <<durable, progress, head, stalled, cancelled, caller,
                   history, bounds>>

\* A live frame: the next wanted entry, the server leaves out the others.
RecvLive ==
    /\ pc = "recv" /\ phase = "live" /\ ~stalled
    /\ \E s \in pos + 1..Len(log) :
         /\ Wanted(log[s]) /\ \A t \in pos + 1..s - 1 : ~Wanted(log[t])
         /\ pos' = s
    /\ pc' = "send"
    /\ UNCHANGED <<durable, phase, progress, head, stalled, cancelled, caller,
                   history, bounds>>

\* trySend meets a ranging consumer.  A frame without a sequence leaves the
\* cursor alone.
Send ==
    /\ pc = "send" /\ consumer = "ranging"
    /\ handed' = handed \cup {pos}
    /\ held' = pos
    /\ consumer' = "body"
    /\ pc' = IF SeqOf(pos) > 0 THEN "save" ELSE "recv"
    /\ UNCHANGED <<durable, reader, progress, cancelled, err, processed, bounds>>

\* The cursor moves and is saved while the consumer's loop body runs.
Save ==
    /\ pc = "save"
    /\ cursor' = SeqOf(pos)
    /\ stored' \in Persist(SeqOf(pos))
    /\ pc' = "recv"
    /\ UNCHANGED <<log, reader, backoff, cancelled, caller, history, bounds>>

\* The back-off timer fires.
Wake ==
    /\ pc = "sleep"
    /\ backoff' = NextBackoff
    /\ pc' = "top"
    /\ UNCHANGED <<durable, reader, cursor, cancelled, caller, history, bounds>>

\* Every wait and every check of the context: run returns, its defers close
\* out and then done.
Stop ==
    /\ cancelled
    /\ pc \in {"top", "sendErr", "send", "sleep", "recv", "attach"}
    /\ pc' = "done"
    /\ stalled' = FALSE
    /\ UNCHANGED <<durable, phase, progress, pos, head, cancelled, caller,
                   history, bounds>>

(* The consumer. *)

StartRange ==
    /\ consumer = "idle"
    /\ consumer' = "ranging"
    /\ UNCHANGED <<durable, pc, reader, progress, cancelled, held, err,
                   history, bounds>>

\* A second range over the same subscription, from this or another goroutine.
RangeAgain ==
    /\ consumer # "idle" /\ err = "none"
    /\ err' = "alreadyConsumed"
    /\ UNCHANGED <<durable, pc, reader, progress, cancelled, consumer, held,
                   history, bounds>>

BodyDone ==
    /\ consumer = "body"
    /\ processed' = processed \cup {held}
    /\ consumer' = "ranging"
    /\ UNCHANGED <<durable, pc, reader, progress, cancelled, held, err, handed,
                   bounds>>

\* The body finishes by leaving the loop: yield returns false, Events returns
\* and its deferred Close cancels.
Break ==
    /\ consumer = "body"
    /\ processed' = processed \cup {held}
    /\ consumer' = "closing"
    /\ cancelled' = TRUE
    /\ UNCHANGED <<durable, pc, reader, progress, held, err, handed, bounds>>

\* The loop ends because out was closed.
SeeClosed ==
    /\ consumer = "ranging" /\ pc = "done"
    /\ consumer' = "closing"
    /\ cancelled' = TRUE
    /\ UNCHANGED <<durable, pc, reader, progress, held, err, history, bounds>>

\* Close on a subscription that was never ranged over.
CloseUnread ==
    /\ consumer = "idle"
    /\ consumer' = "closing"
    /\ cancelled' = TRUE
    /\ UNCHANGED <<durable, pc, reader, progress, held, err, history, bounds>>

\* Close waits for done.
CloseReturns ==
    /\ consumer = "closing" /\ pc = "done"
    /\ consumer' = "ended"
    /\ UNCHANGED <<durable, pc, reader, progress, cancelled, held, err,
                   history, bounds>>

\* The caller's context ends, or another goroutine calls Close.
Cancel ==
    /\ ~cancelled
    /\ cancelled' = TRUE
    /\ UNCHANGED <<durable, pc, reader, progress, caller, history, bounds>>

\* The process dies anywhere and starts over with the same store; after a
\* regular end the same step is a second ResumableMessages call.
Restart ==
    /\ restarts < MaxRestarts
    /\ restarts' = restarts + 1
    /\ pc' = "load" /\ phase' = "catchUp"
    /\ cursor' = 0 /\ backoff' = MinBackoff
    /\ pos' = 0 /\ head' = 0 /\ stalled' = FALSE
    /\ cancelled' = FALSE /\ consumer' = "idle" /\ held' = 0 /\ err' = "none"
    /\ UNCHANGED <<durable, history, failures>>

\* Nothing is left to do: the subscription is closed.
Closed ==
    /\ pc = "done" /\ consumer = "ended"
    /\ UNCHANGED vars

Engine == \/ Load \/ LoadError \/ SendError
          \/ OpenCatchUp \/ RecvCatchUp \/ RecvComplete
          \/ OpenLive \/ RecvLive \/ Send \/ Save
          \/ KeepaliveTeardown \/ Wake \/ Stop

Consumer == StartRange \/ BodyDone \/ SeeClosed \/ CloseReturns

Environment == \/ AppendEvent \/ StreamEnds \/ StreamStalls
               \/ RangeAgain \/ Break \/ CloseUnread \/ Cancel
               \/ Restart \/ Closed

Next == Engine \/ Consumer \/ Environment

Spec == Init /\ [][Next]_vars

\* The engine's goroutine runs, store calls and rendezvous return, timers and
\* the keepalive fire; the consumer starts its loop and comes back to it.
FairSpec == Spec /\ WF_vars(Engine) /\ WF_vars(Consumer)
-----------------------------------------------------------------------------
(* Properties. *)

TypeOK ==
    /\ log \in Seq(Entries)
    /\ stored \in 0..Len(log) /\ cursor \in 0..Len(log)
    /\ pos \in 0..Len(log) /\ head \in 0..Len(log) /\ held \in 0..Len(log)
    /\ pc \in EngineStates /\ phase \in {"catchUp", "live"}
    /\ backoff \in Nat \ {0}
    /\ stalled \in BOOLEAN /\ cancelled \in BOOLEAN
    /\ consumer \in ConsumerStates
    /\ err \in {"none", "load", "alreadyConsumed"}
    /\ handed \subseteq 1..Len(log) /\ processed \subseteq 1..Len(log)
    /\ pc \in {"send", "save"} => pos > 0
    /\ consumer = "body" => held > 0
    /\ failures \in Nat /\ restarts \in Nat

\* Every wanted event up to n was handed to the consumer.
GapFreeTo(n) == \A s \in 1..n : Wanted(log[s]) => s \in handed

\* Neither the persisted cursor nor the engine's own ever covers a wanted event
\* that was not handed over: a catch-up from either loses nothing, whatever
\* streams broke and whenever the process died (resumable.go:11-13, 43-48).
NoGap == GapFreeTo(stored) /\ GapFreeTo(cursor)

\* A replay reads ahead of the cursor, and only sequenced events are saved.
Reading ==
    /\ phase = "catchUp" /\ pc \in {"recv", "send", "save"} => cursor <= pos
    /\ pc = "save" => log[pos].sequenced

\* What the reading position says about coverage at each place of the loop.
Coverage ==
    /\ pc \in {"recv", "save"} => GapFreeTo(pos)
    /\ pc = "send" => Wanted(log[pos]) /\ GapFreeTo(pos - 1)
    /\ pc = "attach" => GapFreeTo(head)

\* Inductive when the server keeps its promise about live streams.
IInv == TypeOK /\ NoGap /\ Reading /\ Coverage

\* The persisted cursor runs ahead of the consumer's work by at most the event
\* whose body is running, so a crash costs at most that one event: Save does
\* not wait for the loop body (resumable.go:169-175, 194-200).
AtMostOneLostPerCrash ==
    Cardinality({s \in 1..stored : Wanted(log[s]) /\ s \notin processed})
        <= restarts + IF consumer = "body" THEN 1 ELSE 0

\* What resumable.go:11 says of the store: it holds the last fully-processed
\* sequence.
StoredIsProcessed ==
    \A s \in 1..stored : Wanted(log[s]) => s \in processed

\* While history is replayed the cursor only moves forward, also when the
\* server reports a head behind it (resumable.go:158-162).
CatchUpNeverRewinds ==
    [][phase = "catchUp" /\ pc # "load" /\ pc' # "load" => cursor' >= cursor]_vars

\* Broken streams and failed catch-ups never end the engine: it returns only
\* once somebody cancelled or its one error was taken (resumable.go:120-147).
NeverGivesUp == pc = "done" => cancelled

\* Every sleep lies between the two configured bounds (resumable.go:28-31).
BackoffBounded == pc = "sleep" => backoff \in MinBackoff..MaxBackoff

\* When Close has returned, the store covers the last event handed over, as
\* resumable_test.go:108 expects: Close waits for the engine, which saves after
\* every hand-off.
SavedOnClose ==
    consumer = "ended" /\ held > 0 /\ SeqOf(held) > 0 => stored >= held

\* Within a session a sequenced event is handed over once and in order, across
\* any number of reconnects, when no catch-up reports a lagging head.
InOrderOnce ==
    [][consumer = "ranging" /\ consumer' = "body" /\ SeqOf(pos) > 0
       => pos > held]_vars

\* Every wanted event is handed over at last, unless the subscription is
\* cancelled (a failed Load ends it the same way) or nobody ranges over it.
EventualDelivery ==
    \A s \in 1..MaxLog :
        (s <= Len(log) /\ Wanted(log[s]))
            ~> (s \in handed \/ cancelled \/ pc = "sendErr")

\* The engine delivers durably: its log, the events handed over and the store's
\* cursor behave as DurableDelivery's.
DD == INSTANCE DurableDelivery
          WITH Relevant <- {e \in Entries : Wanted(e)}, mark <- stored
ImplementsDurableDelivery == DD!Spec
==============================================================================
