--------------------------- MODULE ProgramsProofs ---------------------------
(***************************************************************************)
(* Theorems about Programs, for any number of posts, failures and events    *)
(* that wait.                                                               *)
(***************************************************************************)
EXTENDS Programs, TLAPS

-----------------------------------------------------------------------------
(* The reports of send-all.                                                 *)

Last == Len(Steps)

\* Every step up to the current one was counted once, and the program exits
\* after the last.
Counted ==
    /\ script \in [step : Nat, call : Nat, sent : BOOLEAN]
    /\ tally \in [ok : Nat, failed : Nat, skipped : Nat, exit : {"none", "clean", "error"}]
    /\ script.step <= Last + 1
    /\ script.sent => Running
    /\ tally.ok + tally.failed + tally.skipped = script.step - 1
    /\ tally.exit # "none" => script.step = Last + 1
    /\ tally.exit = "clean" => tally.failed = 0
    /\ tally.exit = "error" => tally.failed > 0

LEMMA LastStep == Last \in Nat
  BY DEF Last, Steps

LEMMA Sum ==
    ASSUME NEW a \in Nat, NEW b \in Nat, NEW c \in Nat, NEW n \in Nat,
           NEW x \in 0..1, NEW y \in 0..1, NEW z \in 0..1,
           a + b + c = n - 1, x + y + z = 1
    PROVE  (a + x) + (b + y) + (c + z) = (n + 1) - 1
  OBVIOUS

\* A report moves send-all to its next step.
LEMMA Report ==
    ASSUME Counted, Running, NEW field \in {"ok", "failed", "skipped"},
           script' = [step |-> script.step + 1, call |-> 1, sent |-> FALSE],
           tally' = [tally EXCEPT ![field] = @ + 1]
    PROVE  Counted'
<1> DEFINE add(f) == IF f = field THEN 1 ELSE 0
<1>1. script.step \in Nat /\ script.step <= Last
  BY DEF Counted, Running, Last
<1>2. /\ script' \in [step : Nat, call : Nat, sent : BOOLEAN]
      /\ script'.step = script.step + 1 /\ script'.sent = FALSE
  BY <1>1
<1>3. tally.exit = "none"
  BY <1>1, LastStep DEF Counted
<1>4. tally.ok \in Nat /\ tally.failed \in Nat /\ tally.skipped \in Nat
  BY DEF Counted
<1>5. /\ tally' \in [ok : Nat, failed : Nat, skipped : Nat, exit : {"none", "clean", "error"}]
      /\ tally'.exit = "none"
      /\ tally'.ok = tally.ok + add("ok") /\ tally'.failed = tally.failed + add("failed")
      /\ tally'.skipped = tally.skipped + add("skipped")
  <2>1. CASE field = "ok"
    BY <1>3, <1>4, <2>1 DEF Counted
  <2>2. CASE field = "failed"
    BY <1>3, <1>4, <2>2 DEF Counted
  <2>3. CASE field = "skipped"
    BY <1>3, <1>4, <2>3 DEF Counted
  <2> QED
    BY <2>1, <2>2, <2>3
<1>6. add("ok") + add("failed") + add("skipped") = 1
  OBVIOUS
<1>7. tally'.ok + tally'.failed + tally'.skipped = script'.step - 1
  <2>1. add("ok") \in 0..1 /\ add("failed") \in 0..1 /\ add("skipped") \in 0..1
    OBVIOUS
  <2>2. tally.ok + tally.failed + tally.skipped = script.step - 1
    BY DEF Counted
  <2> HIDE DEF add
  <2>3. (tally.ok + add("ok")) + (tally.failed + add("failed"))
          + (tally.skipped + add("skipped")) = (script.step + 1) - 1
    BY <1>1, <1>4, <1>6, <2>1, <2>2, Sum
  <2> QED
    BY <1>2, <1>5, <2>3
<1>8. script'.step <= Last + 1
  BY <1>1, <1>2, LastStep
<1> HIDE DEF add
<1> QED
  BY <1>2, <1>5, <1>7, <1>8 DEF Counted

\* Every step of send-all reports, stays within its step, or exits.
LEMMA CountedStep == Counted /\ [Next]_vars => Counted'
<1> SUFFICES ASSUME Counted, [Next]_vars PROVE Counted'
  OBVIOUS
<1>1. CASE UNCHANGED <<script, tally>>
  BY <1>1 DEF Counted, Running
<1>2. CASE Skip
  BY <1>2, Report DEF Skip, NextStep
<1>3. CASE Ask
  <2>1. script' = [script EXCEPT !.sent = TRUE] /\ tally' = tally /\ Running
    BY <1>3 DEF Ask
  <2>2. /\ script' \in [step : Nat, call : Nat, sent : BOOLEAN]
        /\ script'.step = script.step
    BY <2>1 DEF Counted
  <2>3. Running'
    BY <2>1, <2>2 DEF Running
  <2> QED
    BY <2>1, <2>2, <2>3 DEF Counted
<1>4. CASE CallSucceeds
  <2>1. Running
    BY <1>4 DEF CallSucceeds, Counted
  <2>2. CASE script.call = Len(Step.calls)
    BY <1>4, <2>1, <2>2, Report DEF CallSucceeds, NextStep
  <2>3. CASE script.call # Len(Step.calls)
    <3>1. script' = [script EXCEPT !.call = @ + 1, !.sent = FALSE] /\ tally' = tally
      BY <1>4, <2>3 DEF CallSucceeds
    <3>2. /\ script' \in [step : Nat, call : Nat, sent : BOOLEAN]
          /\ script'.step = script.step /\ script'.sent = FALSE
      <4> DEFINE next == [script EXCEPT !.call = @ + 1]
      <4>1. next \in [step : Nat, call : Nat, sent : BOOLEAN] /\ next.step = script.step
        BY DEF Counted
      <4>2. script' = [next EXCEPT !.sent = FALSE]
        BY <3>1
      <4> HIDE DEF next
      <4> QED
        BY <4>1, <4>2
    <3> QED
      BY <3>1, <3>2 DEF Counted
  <2> QED
    BY <2>2, <2>3
<1>5. CASE CallFails
  <2>1. Running
    BY <1>5 DEF CallFails, Counted
  <2> QED
    BY <1>5, <2>1, Report DEF CallFails, NextStep
<1>6. CASE Summary
  <2>1. script' = script /\ ~Running
        /\ tally' = [tally EXCEPT !.exit = IF tally.failed > 0 THEN "error" ELSE "clean"]
    BY <1>6 DEF Summary
  <2>2. script.step = Last + 1
    BY <2>1, LastStep DEF Counted, Running, Last
  <2> QED
    BY <2>1, <2>2 DEF Counted, Running
<1>7. CASE Echo \/ Post \/ Signal \/ \E end \in {"ended", "failed", "interrupted"} : StreamEnds(end)
  <2>1. UNCHANGED <<script, tally>>
    BY <1>7 DEF Echo, Subscribe, Ignore, Reply, ReplySent, ReplyFails, Wake, Post, Signal, StreamEnds
  <2> QED
    BY <2>1, <1>1
<1>8. CASE UNCHANGED vars
  BY <1>1, <1>8 DEF vars
<1> QED
  BY <1>2, <1>3, <1>4, <1>5, <1>6, <1>7, <1>8 DEF Next, SendAll

LEMMA CountedInit == Init => Counted
  BY LastStep DEF Init, Counted

\* Every step of the script is reported exactly once and the exit tells whether
\* one failed (send-all/main.go:98-298), whatever calls fail or lack a result.
THEOREM StepsReported == Spec => []EveryStepReported
<1>1. Counted => EveryStepReported
  BY DEF Counted, EveryStepReported, Last
<1> QED
  BY <1>1, CountedInit, CountedStep, PTL DEF Spec

-----------------------------------------------------------------------------
(* The replies of echo.                                                     *)

Events == [from : {"me", "contact"}, form : Forms, nr : Nat]

Types ==
    /\ posts \in Seq(Forms) /\ stream \in Seq(Events) /\ replies \in Seq(Nat)

\* The contact's events wait in order behind everything replied to.
Ordered ==
    /\ \A i \in DOMAIN stream : stream[i].from # "me" =>
         stream[i].nr \in DOMAIN posts /\ posts[stream[i].nr] = stream[i].form
    /\ \A i, j \in DOMAIN stream :
         i < j /\ stream[i].from # "me" /\ stream[j].from # "me" => stream[i].nr < stream[j].nr
    /\ \A r \in DOMAIN replies, i \in DOMAIN stream :
         stream[i].from # "me" => replies[r] < stream[i].nr

EchoInv == Types /\ Ordered /\ NoFeedback

\* Appending one item to a sequence.
LEMMA Extend ==
    ASSUME NEW S, NEW s \in Seq(S), NEW e \in S
    PROVE  /\ s \o <<e>> \in Seq(S) /\ Len(s \o <<e>>) = Len(s) + 1
           /\ DOMAIN (s \o <<e>>) = 1..Len(s) + 1
           /\ \A i \in 1..Len(s) : (s \o <<e>>)[i] = s[i]
           /\ (s \o <<e>>)[Len(s) + 1] = e
           /\ s \o <<e>> = Append(s, e)
  OBVIOUS

\* An event of the line's own, or none, does not disturb the order.
LEMMA DeliverKeeps ==
    ASSUME EchoInv, posts' = posts, replies' = replies, NEW call, NEW applied,
           Deliver(IF applied THEN <<OwnEvent(call)>> ELSE <<>>)
    PROVE  EchoInv'
<1>1. CASE stream' = stream
  BY <1>1 DEF EchoInv, Types, Ordered, NoFeedback
<1>2. CASE stream' = stream \o <<OwnEvent(call)>>
  <2>1. OwnEvent(call) \in Events /\ OwnEvent(call).from = "me"
    BY DEF OwnEvent, Events, Forms
  <2>2. stream \in Seq(Events)
    BY DEF EchoInv, Types
  <2>3. /\ stream' \in Seq(Events) /\ DOMAIN stream' = 1..Len(stream) + 1
        /\ \A i \in 1..Len(stream) : stream'[i] = stream[i]
        /\ stream'[Len(stream) + 1] = OwnEvent(call)
    BY <1>2, <2>1, <2>2, Extend
  <2>4. \A i \in DOMAIN stream' : stream'[i].from # "me" =>
          i \in DOMAIN stream /\ stream'[i] = stream[i]
    BY <2>1, <2>2, <2>3
  <2>5. Ordered'
    BY <2>4 DEF EchoInv, Ordered
  <2> QED
    BY <2>3, <2>5 DEF EchoInv, Types, NoFeedback
<1>3. stream \o <<>> = stream
  BY DEF EchoInv, Types
<1> QED
  BY <1>1, <1>2, <1>3 DEF Deliver

\* Taking the head off a sequence.
LEMMA DropHead ==
    ASSUME NEW S, NEW s \in Seq(S), s # <<>>
    PROVE  /\ Tail(s) \in Seq(S) /\ 1 \in DOMAIN s /\ Head(s) = s[1]
           /\ \A i \in DOMAIN Tail(s) : i \in Nat /\ i + 1 \in DOMAIN s /\ i + 1 > 1 /\ Tail(s)[i] = s[i + 1]
  OBVIOUS

\* What is left behind the head keeps the order, and the head comes before it.
LEMMA TailKeeps ==
    ASSUME EchoInv, stream # <<>>
    PROVE  /\ Tail(stream) \in Seq(Events)
           /\ \A i \in DOMAIN Tail(stream) : Tail(stream)[i].from # "me" =>
                /\ Tail(stream)[i].nr \in DOMAIN posts
                /\ posts[Tail(stream)[i].nr] = Tail(stream)[i].form
                /\ \A r \in DOMAIN replies : replies[r] < Tail(stream)[i].nr
                /\ Head(stream).from # "me" => Head(stream).nr < Tail(stream)[i].nr
           /\ \A i, j \in DOMAIN Tail(stream) :
                i < j /\ Tail(stream)[i].from # "me" /\ Tail(stream)[j].from # "me"
                  => Tail(stream)[i].nr < Tail(stream)[j].nr
<1> DEFINE t == Tail(stream)
<1>1. /\ t \in Seq(Events) /\ 1 \in DOMAIN stream /\ Head(stream) = stream[1]
      /\ \A i \in DOMAIN t : i \in Nat /\ i + 1 \in DOMAIN stream /\ i + 1 > 1 /\ t[i] = stream[i + 1]
  BY DropHead DEF EchoInv, Types
<1>2. \A i, j \in DOMAIN t : i < j => i + 1 < j + 1
  BY <1>1
<1> HIDE DEF t
<1>3. \A i \in DOMAIN t : t[i].from # "me" =>
        /\ t[i].nr \in DOMAIN posts /\ posts[t[i].nr] = t[i].form
        /\ \A r \in DOMAIN replies : replies[r] < t[i].nr
        /\ Head(stream).from # "me" => Head(stream).nr < t[i].nr
  BY <1>1 DEF EchoInv, Ordered
<1>4. \A i, j \in DOMAIN t :
        i < j /\ t[i].from # "me" /\ t[j].from # "me" => t[i].nr < t[j].nr
  BY <1>1, <1>2 DEF EchoInv, Ordered
<1> QED
  BY <1>1, <1>3, <1>4 DEF t

LEMMA EchoStep == EchoInv /\ [Next]_vars => EchoInv'
<1> SUFFICES ASSUME EchoInv, [Next]_vars PROVE EchoInv'
  OBVIOUS
<1>1. CASE UNCHANGED <<posts, stream, replies>>
  BY <1>1 DEF EchoInv, Types, Ordered, NoFeedback
<1>2. CASE Ask
  <2>1. PICK applied \in BOOLEAN :
          Deliver(IF applied THEN <<OwnEvent(Current.name)>> ELSE <<>>)
    BY <1>2 DEF Ask
  <2>2. posts' = posts /\ replies' = replies
    BY <1>2 DEF Ask
  <2> QED
    BY <2>1, <2>2, DeliverKeeps
<1>3. CASE Post
  <2>1. PICK form \in Forms :
           /\ posts' = Append(posts, form)
           /\ Deliver(<<[from |-> "contact", form |-> form, nr |-> Len(posts) + 1]>>)
           /\ replies' = replies
    BY <1>3 DEF Post
  <2> DEFINE e == [from |-> "contact", form |-> form, nr |-> Len(posts) + 1]
  <2>2. posts \in Seq(Forms) /\ stream \in Seq(Events) /\ replies \in Seq(Nat) /\ Len(posts) \in Nat
    BY DEF EchoInv, Types
  <2>3. /\ posts' \in Seq(Forms) /\ DOMAIN posts' = 1..Len(posts) + 1
        /\ \A n \in DOMAIN posts : n \in DOMAIN posts' /\ posts'[n] = posts[n]
        /\ posts'[Len(posts) + 1] = form
    BY <2>1, <2>2
  <2>4. e \in Events /\ e.from = "contact" /\ e.nr = Len(posts) + 1 /\ e.form = form
    BY <2>2 DEF Events
  <2>5. NoFeedback'
    BY <2>1, <2>3 DEF EchoInv, NoFeedback
  <2>6. CASE stream' = stream
    BY <2>1, <2>2, <2>3, <2>5, <2>6 DEF EchoInv, Types, Ordered
  <2>7. CASE stream' = stream \o <<e>>
    <3> HIDE DEF e
    <3>1. /\ stream' \in Seq(Events) /\ DOMAIN stream' = 1..Len(stream) + 1
          /\ \A i \in 1..Len(stream) : stream'[i] = stream[i]
          /\ stream'[Len(stream) + 1] = e
      BY <2>7, <2>2, <2>4, Extend
    <3>2. \A i \in DOMAIN stream' :
            (i \in DOMAIN stream /\ stream'[i] = stream[i]) \/ (i = Len(stream) + 1 /\ stream'[i] = e)
      <4>1. Len(stream) \in Nat /\ DOMAIN stream = 1..Len(stream)
        BY <2>2
      <4>2. \A i \in 1..Len(stream) + 1 : i \in 1..Len(stream) \/ i = Len(stream) + 1
        BY <4>1
      <4> QED
        BY <3>1, <4>1, <4>2
    <3>3. \A i \in DOMAIN stream : stream[i].from # "me" => stream[i].nr < e.nr
      BY <2>2, <2>4 DEF EchoInv, Ordered
    <3>4. \A r \in DOMAIN replies : replies[r] < e.nr
      BY <2>2, <2>4 DEF EchoInv, NoFeedback
    <3>5. \A i \in DOMAIN stream' : stream'[i].from # "me" =>
            stream'[i].nr \in DOMAIN posts' /\ posts'[stream'[i].nr] = stream'[i].form
      <4> TAKE i \in DOMAIN stream'
      <4>1. CASE i \in DOMAIN stream /\ stream'[i] = stream[i]
        BY <4>1, <2>3 DEF EchoInv, Ordered
      <4>2. CASE stream'[i] = e
        BY <4>2, <2>2, <2>3, <2>4
      <4> QED
        BY <4>1, <4>2, <3>2
    <3>6. \A i, j \in DOMAIN stream' :
            i < j /\ stream'[i].from # "me" /\ stream'[j].from # "me" => stream'[i].nr < stream'[j].nr
      <4> TAKE i, j \in DOMAIN stream'
      <4> HAVE i < j /\ stream'[i].from # "me" /\ stream'[j].from # "me"
      <4>1. i \in DOMAIN stream /\ stream'[i] = stream[i]
        BY <2>2, <3>1, <3>2
      <4>2. CASE j \in DOMAIN stream /\ stream'[j] = stream[j]
        BY <4>1, <4>2 DEF EchoInv, Ordered
      <4>3. CASE stream'[j] = e
        BY <4>1, <4>3, <3>3
      <4> QED
        BY <4>2, <4>3, <3>2
    <3>7. \A r \in DOMAIN replies', i \in DOMAIN stream' :
            stream'[i].from # "me" => replies'[r] < stream'[i].nr
      BY <2>1, <3>2, <3>4 DEF EchoInv, Ordered
    <3> QED
      BY <2>1, <2>2, <2>3, <2>5, <3>1, <3>5, <3>6, <3>7 DEF EchoInv, Types, Ordered
  <2> QED
    BY <2>1, <2>6, <2>7 DEF Deliver
<1>4. CASE Ignore
  <2>1. stream # <<>> /\ stream' = Tail(stream) /\ posts' = posts /\ replies' = replies
    BY <1>4 DEF Ignore
  <2>2. Types' /\ Ordered'
    BY <2>1, TailKeeps DEF EchoInv, Types, Ordered
  <2> QED
    BY <2>1, <2>2 DEF EchoInv, NoFeedback
<1>5. CASE Reply
  <2> DEFINE t == Tail(stream)
             h == Head(stream)
             own == OwnEvent("SendText")
  <2>1. /\ stream # <<>> /\ h.from # "me" /\ h.form \in {"text", "badchat"} /\ posts' = posts
        /\ stream' = t \/ stream' = Append(t, own)
        /\ replies' = IF h.form = "badchat" THEN replies ELSE Append(replies, h.nr)
    BY <1>5 DEF Reply, Eligible
  <2>2. own \in Events /\ own.from = "me"
    BY DEF OwnEvent, Events, Forms
  <2>3. /\ h \in Events /\ h.nr \in DOMAIN posts /\ posts[h.nr] = h.form
        /\ \A r \in DOMAIN replies : replies[r] < h.nr
    BY <2>1, DropHead DEF EchoInv, Types, Ordered
  <2> HIDE DEF t, h, own
  <2>4. t \in Seq(Events)
    BY <2>1, TailKeeps DEF t
  <2>5. /\ stream' \in Seq(Events)
        /\ \A i \in DOMAIN stream' : stream'[i].from # "me" => i \in DOMAIN t /\ stream'[i] = t[i]
    <3>1. CASE stream' = t
      BY <2>4, <3>1
    <3>2. CASE stream' = Append(t, own)
      <4>1. stream' \in Seq(Events) /\ DOMAIN stream' = 1..Len(t) + 1
            /\ \A i \in 1..Len(t) : stream'[i] = t[i]
        BY <3>2, <2>2, <2>4
      <4>2. stream'[Len(t) + 1] = own
        BY <3>2, <2>2, <2>4
      <4>3. DOMAIN t = 1..Len(t) /\ \A i \in 1..Len(t) + 1 : i \in 1..Len(t) \/ i = Len(t) + 1
        BY <2>4
      <4> QED
        BY <2>2, <4>1, <4>2, <4>3
    <3> QED
      BY <2>1, <3>1, <3>2
  <2>6. h.nr \in Nat
    BY <2>3 DEF Events
  <2>7. replies' \in Seq(Nat) /\ NoFeedback'
    <3>1. CASE replies' = replies
      BY <2>1, <3>1 DEF EchoInv, Types, NoFeedback
    <3>2. CASE replies' = Append(replies, h.nr) /\ h.form = "text"
      <4>1. replies \in Seq(Nat)
        BY DEF EchoInv, Types
      <4>2. /\ replies' \in Seq(Nat) /\ DOMAIN replies' = 1..Len(replies) + 1
            /\ DOMAIN replies = 1..Len(replies) /\ Len(replies) \in Nat
            /\ \A i \in 1..Len(replies) : replies'[i] = replies[i]
            /\ replies'[Len(replies) + 1] = h.nr
        BY <3>2, <2>6, <4>1
      <4>3. \A i \in DOMAIN replies' :
              (i \in DOMAIN replies /\ replies'[i] = replies[i]) \/ (i = Len(replies) + 1 /\ replies'[i] = h.nr)
        BY <4>2
      <4>4. \A i, j \in DOMAIN replies' : i < j => i \in DOMAIN replies /\ replies'[i] = replies[i]
        BY <4>2
      <4>5. \A i \in DOMAIN replies' : replies'[i] \in DOMAIN posts' /\ posts'[replies'[i]] = "text"
        BY <2>1, <2>3, <3>2, <4>3 DEF EchoInv, NoFeedback
      <4>6. \A i, j \in DOMAIN replies' : i < j => replies'[i] < replies'[j]
        BY <2>3, <4>3, <4>4 DEF EchoInv, NoFeedback
      <4> QED
        BY <4>2, <4>5, <4>6 DEF NoFeedback
    <3> QED
      BY <2>1, <3>1, <3>2
  <2>8. \A i \in DOMAIN t : t[i].from # "me" =>
          /\ t[i].nr \in DOMAIN posts /\ posts[t[i].nr] = t[i].form
          /\ \A r \in DOMAIN replies : replies[r] < t[i].nr
          /\ h.nr < t[i].nr
    BY <2>1, TailKeeps DEF t, h
  <2>9. \A r \in DOMAIN replies' :
          (r \in DOMAIN replies /\ replies'[r] = replies[r]) \/ replies'[r] = h.nr
    <3>1. CASE replies' = replies
      BY <3>1
    <3>2. CASE replies' = Append(replies, h.nr)
      <4>1. replies \in Seq(Nat)
        BY DEF EchoInv, Types
      <4> QED
        BY <3>2, <4>1, <2>6
    <3> QED
      BY <2>1, <3>1, <3>2
  <2>10. Ordered'
    <3>1. \A i, j \in DOMAIN t :
            i < j /\ t[i].from # "me" /\ t[j].from # "me" => t[i].nr < t[j].nr
      BY <2>1, TailKeeps DEF t
    <3>2. \A i \in DOMAIN stream' : stream'[i].from # "me" =>
            stream'[i].nr \in DOMAIN posts' /\ posts'[stream'[i].nr] = stream'[i].form
      BY <2>1, <2>5, <2>8
    <3>3. \A i, j \in DOMAIN stream' :
            i < j /\ stream'[i].from # "me" /\ stream'[j].from # "me" => stream'[i].nr < stream'[j].nr
      BY <2>5, <3>1
    <3>4. \A r \in DOMAIN replies', i \in DOMAIN stream' :
            stream'[i].from # "me" => replies'[r] < stream'[i].nr
      BY <2>5, <2>8, <2>9
    <3> QED
      BY <3>2, <3>3, <3>4 DEF Ordered
  <2> QED
    BY <2>1, <2>5, <2>7, <2>10 DEF EchoInv, Types
<1>6. CASE \E end \in {"ended", "failed", "interrupted"} : StreamEnds(end)
  BY <1>6 DEF StreamEnds, EchoInv, Types, Ordered, NoFeedback
<1>7. CASE \/ Skip \/ CallSucceeds \/ CallFails \/ Summary \/ Subscribe \/ ReplySent \/ Wake
           \/ Signal \/ \E limited \in BOOLEAN : ReplyFails(limited)
  BY <1>1, <1>7 DEF Skip, CallSucceeds, CallFails, Summary, Subscribe, ReplySent, Wake, Signal,
     ReplyFails
<1>8. CASE UNCHANGED vars
  BY <1>1, <1>8 DEF vars
<1> QED
  BY <1>2, <1>3, <1>4, <1>5, <1>6, <1>7, <1>8 DEF Next, SendAll, Echo

\* The loop of echo never feeds on its own or send-all's messages, for any bounds
\* and whatever the calls and the stream do (echo/main.go:93-118).
THEOREM NoEchoLoop == Spec => []NoFeedback
<1>1. Init => EchoInv
  BY DEF Init, EchoInv, Types, Ordered, NoFeedback
<1>2. EchoInv => NoFeedback
  BY DEF EchoInv
<1> QED
  BY <1>1, <1>2, EchoStep, PTL DEF Spec

-----------------------------------------------------------------------------
(* The results send-all uses.                                                *)

Results == {"absent", "empty", "given"}

\* A step's calls include what may be there or not, use what the step tests, and
\* use the throwaway message only after an earlier call of the step gave it.
Safe(step) ==
    \A c \in DOMAIN step.calls :
        /\ step.calls[c].gives \subseteq Thing
        /\ step.calls[c].includes \subseteq {"anchor", "attachment"}
        /\ \A t \in step.calls[c].uses :
             \/ t \in step.tests
             \/ t = "throwaway" /\ \E b \in 1..c - 1 : t \in step.calls[b].gives

\* Within a step, the calls before the current one succeeded, so what they give
\* is there, be it empty.
Earlier ==
    /\ given \in [Thing -> Results]
    /\ Running =>
         /\ script.call \in 1..Len(Step.calls)
         /\ \A c \in 1..script.call - 1 : \A t \in Step.calls[c].gives : given[t] # "absent"

LEMMA OneCall ==
    ASSUME NEW tests, NEW call, call.uses \subseteq tests, call.gives \subseteq Thing,
           call.includes \subseteq {"anchor", "attachment"}
    PROVE  Safe(Do(tests, <<call>>))
<1>1. DOMAIN <<call>> = {1} /\ <<call>>[1] = call
  OBVIOUS
<1> QED
  BY <1>1 DEF Safe, Do

LEMMA OneUse ==
    ASSUME NEW tests, NEW name, NEW uses, NEW gives, uses \subseteq tests,
           gives \subseteq Thing
    PROVE  Safe(Do(tests, <<Call(name, uses, gives)>>))
<1> DEFINE call == Call(name, uses, gives)
<1>1. call.uses \subseteq tests /\ call.gives \subseteq Thing
      /\ call.includes \subseteq {"anchor", "attachment"}
  BY DEF Call, None
<1> HIDE DEF call
<1>2. Safe(Do(tests, <<call>>))
  BY <1>1, OneCall
<1> QED
  BY <1>2 DEF call

LEMMA OneInclude ==
    ASSUME NEW tests, NEW name, NEW gives, NEW things,
           gives \subseteq Thing, things \subseteq {"anchor", "attachment"}
    PROVE  Safe(Do(tests, <<Including(things, Call(name, None, gives))>>))
<1> DEFINE call == Including(things, Call(name, None, gives))
<1>1. call.uses \subseteq tests /\ call.gives \subseteq Thing
      /\ call.includes \subseteq {"anchor", "attachment"}
  BY DEF Including, Call, None
<1> HIDE DEF call
<1>2. Safe(Do(tests, <<call>>))
  BY <1>1, OneCall
<1> QED
  BY <1>2 DEF call

LEMMA Script ==
    /\ Len(Steps) = 16
    /\ \A s \in 1..16 : Safe(Steps[s])
    /\ \A s \in 1..16 : Len(Steps[s].calls) \in Nat /\ Len(Steps[s].calls) >= 1
                        /\ DOMAIN Steps[s].calls = 1..Len(Steps[s].calls)
<1>1. Len(Steps) = 16
  BY DEF Steps
<1>2. \A s \in {1, 3, 4, 6, 8, 9} : Safe(Steps[s])
  BY OneUse DEF Steps, None, Thing
<1>3. \A s \in 11..16 : Safe(Steps[s])
  BY OneUse DEF Steps, None, Thing
<1>4. Safe(Steps[2]) /\ Safe(Steps[5])
  BY OneInclude DEF Steps, None
<1>5. Safe(Steps[7])
  <2>1. Steps[7] = Do({"anchor"}, <<React, React, React>>)
    BY DEF Steps
  <2>2. React.includes = {} /\ React.uses = {"anchor"} /\ React.gives = {}
    BY DEF React, Call, None
  <2>3. \A c \in DOMAIN <<React, React, React>> : <<React, React, React>>[c] = React
    OBVIOUS
  <2> QED
    BY <2>1, <2>2, <2>3 DEF Safe, Do, Thing
<1>6. Safe(Steps[10])
  <2> DEFINE first == Call("SendText", None, {"throwaway"})
             second == Call("Unsend", {"throwaway"}, None)
  <2>1. Steps[10] = Do(None, <<first, second>>)
    BY DEF Steps
  <2>2. first.includes = {} /\ first.uses = {} /\ first.gives = {"throwaway"}
        /\ second.includes = {} /\ second.uses = {"throwaway"} /\ second.gives = {}
    BY DEF Call, None
  <2>3. \A c \in DOMAIN <<first, second>> : c = 1 \/ c = 2
    OBVIOUS
  <2> HIDE DEF first, second
  <2> QED
    BY <2>1, <2>2, <2>3 DEF Safe, Do, Thing
<1>7. \A s \in 1..16 : Safe(Steps[s])
  <2> TAKE s \in 1..16
  <2>1. s \in {1, 3, 4, 6, 8, 9} \/ s \in 11..16 \/ s \in {2, 5, 7, 10}
    OBVIOUS
  <2> QED
    BY <1>2, <1>3, <1>4, <1>5, <1>6, <2>1
<1>8. \A s \in 1..16 : Len(Steps[s].calls) \in 1..3
                       /\ DOMAIN Steps[s].calls = 1..Len(Steps[s].calls)
  BY DEF Steps, Do
<1>9. \A n \in 1..3 : n \in Nat /\ n >= 1
  OBVIOUS
<1> QED
  BY <1>1, <1>7, <1>8, <1>9, Zenon

\* Where the script stands while it runs.
LEMMA Standing ==
    ASSUME Counted, Running
    PROVE  /\ script.step \in 1..16
           /\ Safe(Step)
           /\ Len(Step.calls) \in Nat /\ Len(Step.calls) >= 1 /\ DOMAIN Step.calls = 1..Len(Step.calls)
<1>1. script.step \in Nat /\ script.step <= 16
  BY Script DEF Counted, Running
<1>2. script.step >= 1
  BY <1>1 DEF Counted
<1>3. PICK s \in 1..16 : s = script.step
  BY <1>1, <1>2
<1>4. Step = Steps[s]
  BY <1>3 DEF Step
<1> QED
  BY <1>3, <1>4, Script

\* A later step begins with its first call.
LEMMA Begins ==
    ASSUME Counted', NextStep, given' \in [Thing -> Results]
    PROVE  Earlier'
<1>1. script'.call = 1
  BY DEF NextStep
<1>2. ASSUME Running' PROVE Len(Step'.calls) >= 1 /\ Len(Step'.calls) \in Nat
  <2>1. script'.step \in Nat /\ script'.step <= 16
    BY <1>2, Script DEF Counted, Running
  <2>2. script'.step >= 1
    BY <2>1 DEF Counted
  <2>3. PICK s \in 1..16 : s = script'.step
    BY <2>1, <2>2
  <2>4. Step' = Steps[s]
    BY <2>3 DEF Step
  <2>5. Len(Steps[s].calls) \in Nat /\ Len(Steps[s].calls) >= 1
    BY <2>3, Script
  <2> QED
    BY <2>4, <2>5, Zenon
<1> QED
  BY <1>1, <1>2 DEF Earlier

\* What a successful call gives is there afterwards, and the rest is kept.
LEMMA Gives ==
    ASSUME Earlier, CallSucceeds
    PROVE  /\ given' \in [Thing -> Results]
           /\ \A t \in Thing : (given[t] # "absent" \/ t \in Current.gives) => given'[t] # "absent"
<1>1. PICK results \in [Current.gives -> {"given", "empty"}] :
        given' = [t \in Thing |-> IF t \in Current.gives THEN results[t] ELSE given[t]]
  BY DEF CallSucceeds
<1> QED
  BY <1>1 DEF Earlier, Results

LEMMA EarlierStep == Counted /\ Counted' /\ Earlier /\ [Next]_vars => Earlier'
<1> SUFFICES ASSUME Counted, Counted', Earlier, [Next]_vars PROVE Earlier'
  OBVIOUS
<1>1. CASE UNCHANGED <<script, given>>
  BY <1>1 DEF Earlier, Running, Step
<1>2. CASE Ask
  <2>1. script'.step = script.step /\ script'.call = script.call /\ given' = given
    BY <1>2 DEF Ask, Counted
  <2> QED
    BY <2>1 DEF Earlier, Running, Step
<1>3. CASE Skip \/ CallFails
  BY <1>3, Begins DEF Skip, CallFails, Earlier
<1>4. CASE CallSucceeds
  <2>1. CASE script.call = Len(Step.calls)
    BY <1>4, <2>1, Begins, Gives DEF CallSucceeds
  <2>2. CASE script.call # Len(Step.calls)
    <3>1. script' = [script EXCEPT !.call = @ + 1, !.sent = FALSE]
      BY <1>4, <2>2 DEF CallSucceeds
    <3>2. script'.step = script.step /\ script'.call = script.call + 1
      <4> DEFINE next == [script EXCEPT !.call = @ + 1]
      <4>1. next.step = script.step /\ next.call = script.call + 1
            /\ next \in [step : Nat, call : Nat, sent : BOOLEAN]
        BY DEF Counted
      <4>2. script' = [next EXCEPT !.sent = FALSE]
        BY <3>1
      <4> HIDE DEF next
      <4> QED
        BY <4>1, <4>2
    <3>3. Step' = Step /\ (Running' <=> Running)
      BY <3>2 DEF Step, Running
    <3>4. ASSUME Running
          PROVE  /\ script'.call \in 1..Len(Step.calls)
                 /\ \A c \in 1..script'.call - 1 :
                      \A t \in Step.calls[c].gives : given'[t] # "absent"
      <4>1. /\ script.call \in Nat /\ Len(Step.calls) \in Nat
            /\ script.call \in 1..Len(Step.calls)
        BY <3>4, Standing DEF Earlier, Counted
      <4>2. \A c \in 1..script'.call - 1 : c \in 1..script.call - 1 \/ c = script.call
        BY <3>2, <4>1
      <4>3. \A c \in 1..script.call - 1 : \A t \in Step.calls[c].gives : given'[t] # "absent"
        <5>1. \A c \in 1..script.call - 1 : c \in DOMAIN Step.calls
          BY <3>4, <4>1, Standing
        <5> QED
          BY <1>4, <3>4, <5>1, Standing, Gives DEF Earlier, Safe
      <4>4. \A t \in Step.calls[script.call].gives : given'[t] # "absent"
        BY <1>4, <3>4, <4>1, Standing, Gives DEF Current, Safe
      <4> QED
        BY <2>2, <3>2, <4>1, <4>2, <4>3, <4>4
    <3> QED
      BY <1>4, <3>3, <3>4, Gives DEF Earlier
  <2> QED
    BY <2>1, <2>2
<1> QED
  BY <1>1, <1>2, <1>3, <1>4
     DEF Next, SendAll, Echo, Summary, Post, Subscribe, Ignore, Reply, ReplySent,
         ReplyFails, Wake, StreamEnds, Signal, vars

LEMMA TargetsStep == Counted /\ Earlier /\ OnlyGivenTargets /\ [Next]_vars => OnlyGivenTargets'
<1> SUFFICES ASSUME Counted, Earlier, OnlyGivenTargets, [Next]_vars, script'.sent
             PROVE  OnlyGivenTargets'
  BY DEF OnlyGivenTargets
<1>1. CASE UNCHANGED <<script, given>>
  BY <1>1 DEF OnlyGivenTargets, Named, Current, Step, Have
<1>2. CASE Ask
  <2>1. /\ script'.step = script.step /\ script'.call = script.call /\ given' = given
        /\ Running /\ \A t \in Step.tests : Have(t)
    BY <1>2 DEF Ask, Counted
  <2>2. Current' = Current /\ Named' = Named
    BY <2>1 DEF Named, Current, Step, Have
  <2>3. /\ script.call \in DOMAIN Step.calls
        /\ Current.includes \subseteq {"anchor", "attachment"}
        /\ \A t \in Current.uses :
             \/ t \in Step.tests
             \/ t = "throwaway" /\ \E b \in 1..script.call - 1 : t \in Step.calls[b].gives
    BY <2>1, Standing DEF Earlier, Safe, Current
  <2>4. ASSUME NEW t \in Named
        PROVE  given[t] = "given" \/ (t \in {"throwaway", "poll"} /\ given[t] = "empty")
    <3>1. \A u \in Thing : given[u] # "absent" => given[u] \in {"given", "empty"}
      BY DEF Earlier, Results
    <3>2. CASE Have(t)
      BY <3>1, <3>2 DEF Have, Thing
    <3>3. CASE t \in Current.uses /\ t \notin Step.tests
      <4>1. t = "throwaway" /\ given[t] # "absent"
        BY <2>1, <2>3, <3>3 DEF Earlier
      <4> QED
        BY <4>1, <3>1 DEF Thing
    <3> QED
      BY <2>1, <3>2, <3>3 DEF Named
  <2> QED
    BY <2>1, <2>2, <2>4 DEF OnlyGivenTargets
<1>3. CASE Skip \/ CallSucceeds \/ CallFails
  <2>1. CASE NextStep
    BY <2>1 DEF NextStep
  <2>2. CASE script' = [script EXCEPT !.call = @ + 1, !.sent = FALSE]
    <3>1. script \in [step : Nat, call : Nat, sent : BOOLEAN]
      BY DEF Counted
    <3> DEFINE next == [script EXCEPT !.call = @ + 1]
    <3>2. next \in [step : Nat, call : Nat, sent : BOOLEAN]
      BY <3>1
    <3>3. script' = [next EXCEPT !.sent = FALSE]
      BY <2>2
    <3> HIDE DEF next
    <3> QED
      BY <3>2, <3>3
  <2> QED
    BY <1>3, <2>1, <2>2 DEF Skip, CallSucceeds, CallFails
<1> QED
  BY <1>1, <1>2, <1>3
     DEF Next, SendAll, Echo, Summary, Post, Subscribe, Ignore, Reply, ReplySent,
         ReplyFails, Wake, StreamEnds, Signal, vars

\* Whichever calls fail or lack a result, a call of send-all names no anchor,
\* attachment or option that no response gave, and no throwaway message or poll
\* of a call that failed (send-all/main.go:101-242, 252-268).
THEOREM TargetsGiven == Spec => []OnlyGivenTargets
<1>1. Init => Earlier /\ OnlyGivenTargets
  <2> SUFFICES ASSUME Init PROVE Earlier /\ OnlyGivenTargets
    OBVIOUS
  <2>1. script.step = 1 /\ script.call = 1 /\ ~script.sent /\ given \in [Thing -> Results]
    BY DEF Init, Results
  <2>2. Len(Step.calls) \in Nat /\ Len(Step.calls) >= 1
    <3>1. Step = Steps[1] /\ 1 \in 1..16
      BY <2>1 DEF Step
    <3> QED
      BY <3>1, Script, Zenon
  <2>3. Earlier
    <3>1. \A c \in 1..script.call - 1 : FALSE
      BY <2>1
    <3> QED
      BY <2>1, <2>2, <3>1 DEF Earlier
  <2> QED
    BY <2>1, <2>3 DEF OnlyGivenTargets
<1> QED
  BY <1>1, EarlierStep, TargetsStep, CountedInit, CountedStep, PTL DEF Spec
=============================================================================
