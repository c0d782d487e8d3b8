------------------------------- MODULE Programs -------------------------------
(***************************************************************************)
(* The two sample programs on one line: send-all walks a fixed script of    *)
(* calls that use each other's results and reports every step; echo answers *)
(* the contact's text messages and must not answer the messages send-all or *)
(* it sends itself, which reach its stream as well.  One call stands for    *)
(* the library's whole logical call (UnaryCall), the stream for Subscription.*)
(***************************************************************************)
EXTENDS Integers, Sequences, FiniteSets

CONSTANTS MaxPosts,      \* bound: messages and other changes by the contact
          MaxFailures,   \* bound: calls of send-all that fail or lack a result
          MaxBacklog     \* bound: events the server holds for the stream

ASSUME BoundAssumption ==
    MaxPosts \in Nat /\ MaxFailures \in Nat /\ MaxBacklog \in Nat \ {0}

VARIABLES
    script,    \* send-all: the step, the call within it, whether it was made
    given,     \* what earlier responses gave: "absent", "empty" or "given"
    tally,     \* recorder, and how send-all exited
    posts,     \* what the contact did, in order
    stream,    \* the events echo has not read yet
    bot,       \* echo: where it is, how it exited
    replies,   \* ghost: the events echo asked to reply to, in order
    interrupted  \* echo's context is cancelled by a signal

vars == <<script, given, tally, posts, stream, bot, replies, interrupted>>

-----------------------------------------------------------------------------
(* The script of send-all: each step is reported once, and skipped unless    *)
(* what it tests was given.  What a call names is apart from what its step     *)
(* tests: it uses some things in any case and includes others if it has them,  *)
(* a rich text its anchor and a multipart message its attachment.            *)

Thing == {"anchor", "attachment", "throwaway", "poll", "option", "config"}
None == {}

Call(name, uses, gives) == [name |-> name, uses |-> uses, includes |-> None, gives |-> gives]
Including(things, call) == [call EXCEPT !.includes = things]

\* A plausible bug; see the note in Resumable.
Do_NoAttachmentTest(tests, calls) == [tests |-> tests \ {"attachment"}, calls |-> calls]

Do(tests, calls) == [tests |-> tests, calls |-> calls]

React == Call("AddReaction", {"anchor"}, None)

\* The throwaway message is unsent without a test of its GUID.
Steps == <<
    Do(None, <<Call("SendText", None, {"anchor"})>>),
    Do(None, <<Including({"anchor"}, Call("SendText", None, None))>>),
    Do(None, <<Call("Upload", None, {"attachment"})>>),
    Do({"attachment"}, <<Call("SendAttachment", {"attachment"}, None)>>),
    Do(None, <<Including({"attachment"}, Call("SendMultipart", None, None))>>),
    Do({"anchor"}, <<Call("Edit", {"anchor"}, None)>>),
    Do({"anchor"}, <<React, React, React>>),
    Do({"anchor"}, <<Call("RemoveReaction", {"anchor"}, None)>>),
    Do({"anchor", "attachment"}, <<Call("PlaceSticker", {"anchor", "attachment"}, None)>>),
    Do(None, <<Call("SendText", None, {"throwaway"}), Call("Unsend", {"throwaway"}, None)>>),
    Do({"anchor"}, <<Call("NotifySilenced", {"anchor"}, None)>>),
    Do(None, <<Call("Create", None, {"poll", "option"})>>),
    Do({"poll", "option"}, <<Call("Vote", {"poll", "option"}, None)>>),
    Do({"poll"}, <<Call("AddOption", {"poll"}, None)>>),
    Do({"poll"}, <<Call("Unvote", {"poll"}, None)>>),
    Do({"config"}, <<Call("SendCustomizedMiniApp", {"config"}, None)>>)>>

Step == Steps[script.step]
Running == script.step <= Len(Steps)
Current == Step.calls[script.call]

\* The calls that put a message of the line's own into the chat.
Posting == {"SendText", "SendAttachment", "SendMultipart", "PlaceSticker",
            "Create", "SendCustomizedMiniApp"}

\* What a call of send-all may change on the line, as an event of its stream.
OwnEvent(name) ==
    [from |-> "me", form |-> IF name \in Posting THEN "text" ELSE "other", nr |-> 0]

\* echo holds a subscription from its start until it returns.
Deliver(evs) ==
    stream' = IF bot.pc \in {"off", "done"} THEN stream ELSE stream \o evs

Failures ==
    tally.failed + Cardinality({t \in Thing : given[t] = "empty"})
Room == Len(stream) < MaxBacklog

-----------------------------------------------------------------------------
(* Plausible bugs; see the note in Resumable.                               *)

Eligible_Own(ev) == ev.form \in {"text", "badchat"}

CallFails_GoesOn ==
    /\ script.sent
    /\ Failures < MaxFailures
    /\ script' = IF script.call = Len(Step.calls)
                 THEN [step |-> script.step + 1, call |-> 1, sent |-> FALSE]
                 ELSE [script EXCEPT !.call = @ + 1, !.sent = FALSE]
    /\ tally' = [tally EXCEPT !.failed = @ + 1]
    /\ UNCHANGED <<given, posts, stream, bot, replies, interrupted>>

StreamEnds_NotOnSignal(end) ==
    /\ bot.pc = "loop" /\ end = "failed"
    /\ bot' = [bot EXCEPT !.pc = "done", !.exit = "error"]
    /\ stream' = <<>>
    /\ UNCHANGED <<script, given, tally, posts, replies, interrupted>>

ReplyFails_SkipsAhead(limited) ==
    /\ bot.pc = "replying"
    /\ bot' = [bot EXCEPT !.pc = IF limited THEN "sleep" ELSE "loop"]
    /\ stream' = IF limited THEN <<>> ELSE stream
    /\ UNCHANGED <<script, given, tally, posts, replies, interrupted>>

-----------------------------------------------------------------------------
\* An anchor or attachment is tested for its GUID, a poll for its error only.
Have(t) == IF t = "poll" THEN given[t] # "absent" ELSE given[t] = "given"

\* The things that the current call names.
Named == Current.uses \cup {t \in Current.includes : Have(t)}

\* echo's tests of one event: a message, not ours, an ordinary bubble with text.
Eligible(ev) == ev.from # "me" /\ ev.form \in {"text", "badchat"}

Init ==
    /\ script = [step |-> 1, call |-> 1, sent |-> FALSE]
    /\ given \in [Thing -> {"absent", "given"}]
    /\ \A t \in Thing \ {"config"} : given[t] = "absent"
    /\ tally = [ok |-> 0, failed |-> 0, skipped |-> 0, exit |-> "none"]
    /\ posts = <<>> /\ stream = <<>> /\ replies = <<>> /\ interrupted = FALSE
    /\ bot = [pc |-> "off", exit |-> "none"]

\* Every step ends in exactly one record or skip.
NextStep == script' = [step |-> script.step + 1, call |-> 1, sent |-> FALSE]

\* skip: something the step tests is missing.
Skip ==
    /\ Running /\ ~script.sent /\ \E t \in Step.tests : ~Have(t)
    /\ NextStep /\ tally' = [tally EXCEPT !.skipped = @ + 1]
    /\ UNCHANGED <<given, posts, stream, bot, replies, interrupted>>

\* The program makes the call and waits for it; its effect may reach the
\* stream at any time from now on, also when the call fails in the end.
Ask ==
    /\ Running /\ ~script.sent /\ \A t \in Step.tests : Have(t)
    /\ script' = [script EXCEPT !.sent = TRUE]
    /\ Room /\ \E applied \in BOOLEAN :
         Deliver(IF applied THEN <<OwnEvent(Current.name)>> ELSE <<>>)
    /\ UNCHANGED <<given, tally, posts, bot, replies, interrupted>>

\* The call succeeds; a response may lack the message or a part of the poll.
\* The step is recorded when its last call did.
CallSucceeds ==
    /\ script.sent
    /\ \E results \in [Current.gives -> {"given", "empty"}] :
         /\ Failures + Cardinality({t \in Current.gives : results[t] = "empty"}) <= MaxFailures
         /\ given' = [t \in Thing |-> IF t \in Current.gives THEN results[t] ELSE given[t]]
    /\ IF script.call = Len(Step.calls)
       THEN NextStep /\ tally' = [tally EXCEPT !.ok = @ + 1]
       ELSE /\ script' = [script EXCEPT !.call = @ + 1, !.sent = FALSE]
            /\ UNCHANGED tally
    /\ UNCHANGED <<posts, stream, bot, replies, interrupted>>

\* The call fails, on its own or because the program was interrupted: the step
\* is recorded as failed and its other calls are not made.
CallFails ==
    /\ script.sent
    /\ Failures < MaxFailures
    /\ NextStep /\ tally' = [tally EXCEPT !.failed = @ + 1]
    /\ UNCHANGED <<given, posts, stream, bot, replies, interrupted>>

\* summary: run returns an error if a step failed.
Summary ==
    /\ ~Running /\ tally.exit = "none"
    /\ tally' = [tally EXCEPT !.exit = IF tally.failed > 0 THEN "error" ELSE "clean"]
    /\ UNCHANGED <<script, given, posts, stream, bot, replies, interrupted>>

-----------------------------------------------------------------------------
\* A text, one whose chat GUID does not parse, anything else the stream reports:
\* a blank text, a system row, a change of a message.
Forms == {"text", "badchat", "other"}

Post ==
    /\ Len(posts) < MaxPosts /\ Room
    /\ \E form \in Forms :
         /\ posts' = Append(posts, form)
         /\ Deliver(<<[from |-> "contact", form |-> form, nr |-> Len(posts) + 1]>>)
    /\ UNCHANGED <<script, given, tally, bot, replies, interrupted>>

\* Subscribe: the stream carries what happens from now on.
Subscribe ==
    /\ bot.pc = "off" /\ bot' = [bot EXCEPT !.pc = "loop"]
    /\ UNCHANGED <<script, given, tally, posts, stream, replies, interrupted>>

\* The loop takes the next event: it passes it over, or asks for the reply.
Ignore ==
    /\ bot.pc = "loop" /\ stream # <<>> /\ ~Eligible(Head(stream))
    /\ stream' = Tail(stream)
    /\ UNCHANGED <<script, given, tally, posts, bot, replies, interrupted>>

Reply ==
    /\ bot.pc = "loop" /\ stream # <<>> /\ Eligible(Head(stream))
    /\ bot' = [bot EXCEPT !.pc = IF Head(stream).form = "badchat" THEN "loop" ELSE "replying"]
    /\ replies' = IF Head(stream).form = "badchat" THEN replies
                  ELSE Append(replies, Head(stream).nr)
    /\ \E applied \in BOOLEAN :
         stream' = IF applied /\ Head(stream).form # "badchat"
                   THEN Append(Tail(stream), OwnEvent("SendText")) ELSE Tail(stream)
    /\ UNCHANGED <<script, given, tally, posts, interrupted>>

ReplySent ==
    /\ bot.pc = "replying"
    /\ bot' = [bot EXCEPT !.pc = "loop"]
    /\ UNCHANGED <<script, given, tally, posts, stream, replies, interrupted>>

\* A failed reply is given up; after a rate limit the loop sleeps first.
ReplyFails(limited) ==
    /\ bot.pc = "replying"
    /\ bot' = [bot EXCEPT !.pc = IF limited THEN "sleep" ELSE "loop"]
    /\ UNCHANGED <<script, given, tally, posts, stream, replies, interrupted>>

\* time.Sleep, which watches no context.
Wake ==
    /\ bot.pc = "sleep" /\ bot' = [bot EXCEPT !.pc = "loop"]
    /\ UNCHANGED <<script, given, tally, posts, stream, replies, interrupted>>

\* The stream stops: by itself, with its own error, or by the interrupt, whose
\* Err is nil or context.Canceled.  What it still held is dropped.
StreamEnds(end) ==
    /\ bot.pc = "loop" /\ (end = "interrupted" => interrupted)
    /\ bot' = [bot EXCEPT !.pc = "done", !.exit = IF end = "failed" THEN "error" ELSE "clean"]
    /\ stream' = <<>>
    /\ UNCHANGED <<script, given, tally, posts, replies, interrupted>>

Signal ==
    /\ bot.pc \notin {"off", "done"} /\ ~interrupted /\ interrupted' = TRUE
    /\ UNCHANGED <<script, given, tally, posts, stream, bot, replies>>

SendAll == Skip \/ Ask \/ CallSucceeds \/ CallFails \/ Summary
Echo == \/ Subscribe \/ Ignore \/ Reply \/ ReplySent \/ Wake
        \/ \E limited \in BOOLEAN : ReplyFails(limited)

Next ==
    \/ SendAll \/ Echo \/ Post
    \/ \E end \in {"ended", "failed", "interrupted"} : StreamEnds(end)
    \/ Signal

Spec == Init /\ [][Next]_vars

\* Each program runs, its calls return (UnaryCall's deadline), the sleep ends,
\* and the stream ends once its context is done (Subscription).
FairSpec ==
    /\ Spec /\ WF_vars(SendAll) /\ WF_vars(Echo)
    /\ WF_vars(StreamEnds("interrupted"))

-----------------------------------------------------------------------------
(* Properties.                                                              *)

\* echo answers only the contact's texts, each at most once and in order, and
\* never its own or send-all's messages, which its stream carries as well: the
\* filters of echo/main.go:93-108.
NoFeedback ==
    /\ \A i \in DOMAIN replies : replies[i] \in DOMAIN posts /\ posts[replies[i]] = "text"
    /\ \A i, j \in DOMAIN replies : i < j => replies[i] < replies[j]

\* Whatever calls fail or lack a result, every step of the script is reported
\* exactly once, as ok, failed or skipped, and run returns an error exactly if
\* one failed (send-all/main.go:98-298).
EveryStepReported ==
    /\ tally.ok + tally.failed + tally.skipped = script.step - 1
    /\ tally.exit = "clean" => tally.failed = 0 /\ script.step = Len(Steps) + 1
    /\ tally.exit = "error" => tally.failed > 0 /\ script.step = Len(Steps) + 1

\* A call names only what a response gave: no anchor, attachment or option of a
\* failed call, nor of a success that left it out.  The throwaway message and
\* the poll come from a call that succeeded, but their ids are not tested and may
\* be empty (send-all/main.go:101-242, 252-268).
OnlyGivenTargets ==
    script.sent => \A t \in Named :
        \/ given[t] = "given"
        \/ t \in {"throwaway", "poll"} /\ given[t] = "empty"

\* An interrupted echo returns: a reply under way fails with its context and
\* the sleep is short (echo/main.go:59-62, 110-127).
BotExits ==
    interrupted ~> bot.pc = "done"

\* The loop never gets stuck on one reply: a text in the stream is tried at last
\* unless the stream stops (echo/main.go:110-118).
EveryTextTried ==
    \A n \in 1..MaxPosts :
        (\E i \in DOMAIN stream : stream[i].nr = n /\ stream[i].form = "text")
            ~> (bot.pc = "done" \/ \E i \in DOMAIN replies : replies[i] = n)
==============================================================================
