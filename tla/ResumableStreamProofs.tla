------------------------- MODULE ResumableStreamProofs -------------------------
(***************************************************************************)
(* Theorems about ResumableStream: the engine over its subscriptions is     *)
(* Resumable, so that what ResumableProofs shows holds of both, for every   *)
(* log, number of failures and number of restarts.                          *)
(***************************************************************************)
EXTENDS ResumableStream, ResumableProofs

(* The step simulation.  A step of the pump alone stutters; a frame that run *)
(* takes is RecvCatchUp or RecvLive, the end of the loop KeepaliveTeardown   *)
(* or StreamEnds, the return from it Stop.                                   *)

\* Every step of the composition is a step of Resumable or changes none of its
\* variables.
LEMMA StepImplements == StreamInv /\ [StreamNext]_streamVars => [Next]_vars
<1> SUFFICES ASSUME StreamInv, [StreamNext]_streamVars PROVE [Next]_vars
  OBVIOUS
<1> USE DEF engine, link, vars, durable, progress, reader, caller, history, bounds
<1>1. CASE Subscribe
  BY <1>1 DEF Subscribe
<1>2. CASE TakeFrame
  <2>1. pump = "send" /\ offer = "event" /\ loop[Run] = "ranging" /\ UNCHANGED cancelled
    BY <1>2 DEF TakeFrame, S!TakeEvent, S!context
  <2>2. CASE frame = "complete"
    BY <2>1, <2>2, <1>2 DEF TakeFrame
  <2>3. CASE frame = "entry" /\ sub = "catchUp"
    <3>1. pc = "recv" /\ phase = "catchUp" /\ ~stalled /\ read = pos + 1 /\ read <= head
      BY <2>1, <2>3 DEF StreamInv, StreamTypeOK, TypeOK, Lifecycle, Places, Ahead,
         Holding, InBody
    <3>2. RecvCatchUp
      BY <3>1, <2>1, <2>3, <1>2 DEF TakeFrame, RecvCatchUp, StreamInv, StreamTypeOK,
         TypeOK
    <3> QED
      BY <3>2 DEF Next, Engine
  <2>4. CASE frame = "entry" /\ sub = "live"
    <3>1. /\ pc = "recv" /\ phase = "live" /\ ~stalled
          /\ pos < read /\ Wanted(log[read]) /\ read <= Len(log)
          /\ \A t \in pos + 1..read - 1 : ~Wanted(log[t])
      BY <2>1, <2>4 DEF StreamInv, StreamTypeOK, TypeOK, Lifecycle, Places, Ahead,
         Holding, InBody
    <3>2. RecvLive
      BY <3>1, <2>1, <2>4, <1>2 DEF TakeFrame, RecvLive, StreamInv, StreamTypeOK,
         TypeOK
    <3> QED
      BY <3>2 DEF Next, Engine
  <2> QED
    BY <2>1, <2>2, <2>3, <2>4 DEF StreamInv, StreamTypeOK, Ahead, Lifecycle
<1>3. CASE Continue
  BY <1>3 DEF Continue, S!BodyDone, S!context
<1>4. CASE Complete
  <2>1. RecvComplete
    BY <1>4 DEF Complete, S!Break, S!context, RecvComplete, StreamInv, StreamTypeOK,
       TypeOK, Places, InBody, Persist
  <2> QED
    BY <2>1 DEF Next, Engine
<1>5. CASE GiveUpSend
  BY <1>5 DEF GiveUpSend, S!Break, S!context
<1>6. CASE LoopEnds
  <2>1. loop[Run] = "ranging" /\ Stopped /\ UNCHANGED cancelled
    BY <1>6 DEF LoopEnds, S!SeeClosed, S!TakeError, S!OutClosed, S!context, Stopped,
       S!Errors
  <2>2. CASE cancelled
    BY <1>6, <2>1, <2>2 DEF LoopEnds
  <2>3. CASE ~cancelled /\ stalled
    <3>1. KeepaliveTeardown
      BY <1>6, <2>1, <2>3 DEF LoopEnds, KeepaliveTeardown, StreamInv, Places
    <3> QED
      BY <3>1 DEF Next, Engine
  <2>4. CASE ~cancelled /\ ~stalled
    <3>1. pc = "recv" /\ failures < MaxFailures
      BY <2>1, <2>4 DEF StreamInv, Places, Reasons, Looping, Stopped
    <3>2. StreamEnds
      BY <1>6, <2>1, <2>4, <3>1 DEF LoopEnds, StreamEnds
    <3> QED
      BY <3>2 DEF Next, Environment
  <2> QED
    BY <2>2, <2>3, <2>4
<1>7. CASE CloseSub
  BY <1>7 DEF CloseSub, S!CloseFirst
<1>8. CASE Return
  BY <1>8 DEF Return, Leave, S!CloseReturns, S!context, Stop, Next, Engine, StreamInv,
     StreamTypeOK, TypeOK, Places, Closing
<1>9. CASE Alone
  BY <1>9 DEF Alone, Next, Engine
<1>10. CASE Open
  <2>1. pump = "open" /\ UNCHANGED <<cancelled, stalled>>
    BY <1>10 DEF Open, S!OpenStream, S!OpenFails, S!context
  <2>2. CASE sub = "catchUp"
    <3>1. OpenCatchUp
      BY <1>10, <2>1, <2>2 DEF Open, OpenCatchUp, StreamInv, Places
    <3> QED
      BY <3>1 DEF Next, Engine
  <2>3. CASE sub = "live"
    <3>1. OpenLive
      BY <1>10, <2>1, <2>3 DEF Open, OpenLive, StreamInv, Places
    <3> QED
      BY <3>1 DEF Next, Engine
  <2> QED
    BY <1>10, <2>2, <2>3 DEF Open, StreamInv, StreamTypeOK
<1>11. CASE OpenRefused
  BY <1>11 DEF OpenRefused, S!OpenFails, S!context
<1>12. CASE Arrives
  BY <1>12 DEF Arrives, S!ReceiveFrame, S!context
<1>13. CASE Stalls
  BY <1>13 DEF Stalls, Next, Environment
<1>14. CASE ServerEnds
  BY <1>14 DEF ServerEnds, S!ReceiveEOF, S!ReceiveFails, S!context
<1>15. CASE MapFrame
  BY <1>15 DEF MapFrame, S!MapFrame, S!context
<1>16. CASE PumpStops
  BY <1>16 DEF PumpStops, S!ReceiveCancelled, S!GiveUp, S!Unwind, S!context
<1>17. CASE Outside
  BY <1>17 DEF Outside, Next, Consumer, Environment
<1>18. CASE Crash
  BY <1>18 DEF Crash, Next, Environment
<1>19. CASE UNCHANGED streamVars
  BY <1>19 DEF streamVars
<1>20. CASE RunStep
  BY <1>20, <1>1, <1>2, <1>3, <1>4, <1>5, <1>6, <1>7, <1>8, <1>9 DEF RunStep
<1>21. CASE Server \/ Pump
  BY <1>21, <1>10, <1>11, <1>12, <1>14, <1>15, <1>16 DEF Server, Pump
<1> QED
  BY <1>13, <1>17, <1>18, <1>19, <1>20, <1>21 DEF StreamNext, Finished

-----------------------------------------------------------------------------
(* StreamInv is inductive: types first, then its parts.                     *)

\* The variables of the subscription keep their types.
LEMMA SubTypeStep ==
    StreamTypeOK /\ TypeOK' /\ [StreamNext]_streamVars => S!TypeOK'
<1> SUFFICES ASSUME S!TypeOK, cancelled' \in BOOLEAN, [StreamNext]_streamVars
             PROVE S!TypeOK'
  BY DEF StreamTypeOK, TypeOK
<1> USE DEF below, S!TypeOK, S!PumpStates, S!CallerStates, S!Errors, S!stream,
            S!context, S!guards, S!history, S!Move, S!SetErr, S!FailWith, S!LeaveLoop
<1>1. CASE Subscribe \/ Crash
  <2>1. PICK pumpAt \in S!PumpStates, onceAt \in {"free", "done"},
              runAt \in S!CallerStates : Renew(pumpAt, onceAt, runAt)
    BY <1>1 DEF Subscribe, Crash
  <2>2. /\ loop' \in [{Run} -> S!CallerStates]
        /\ after' \in [{Run} -> {"idle", "body", "ended"}]
    BY <2>1 DEF Renew
  <2>3. delivered' \in Seq(Nat) /\ frames' \in Nat /\ emitted' \in Nat
    BY <2>1 DEF Renew
  <2> QED
    BY <2>1, <2>2, <2>3 DEF Renew
<1>2. CASE TakeFrame
  BY <1>2 DEF TakeFrame, S!TakeEvent
<1>3. CASE Continue
  BY <1>3 DEF Continue, S!BodyDone
<1>4. CASE Complete \/ GiveUpSend
  BY <1>4 DEF Complete, GiveUpSend, S!Break
<1>5. CASE LoopEnds
  BY <1>5 DEF LoopEnds, S!SeeClosed, S!TakeError
<1>6. CASE CloseSub
  BY <1>6 DEF CloseSub, S!CloseFirst
<1>7. CASE Return
  BY <1>7 DEF Return, Leave, S!CloseReturns
<1>8. CASE Alone \/ Stalls \/ Outside
  BY <1>8 DEF Alone, Stalls, Outside
<1>9. CASE Open \/ OpenRefused
  BY <1>9 DEF Open, OpenRefused, S!OpenStream, S!OpenFails
<1>10. CASE Arrives
  BY <1>10 DEF Arrives, S!ReceiveFrame
<1>11. CASE ServerEnds
  BY <1>11 DEF ServerEnds, S!ReceiveEOF, S!ReceiveFails
<1>12. CASE MapFrame
  BY <1>12 DEF MapFrame, S!MapFrame
<1>13. CASE PumpStops
  BY <1>13 DEF PumpStops, S!ReceiveCancelled, S!GiveUp, S!Unwind
<1>14. CASE UNCHANGED streamVars
  BY <1>14 DEF streamVars
<1> HIDE DEF S!TypeOK
<1> QED
  BY <1>1, <1>2, <1>3, <1>4, <1>5, <1>6, <1>7, <1>8, <1>9, <1>10, <1>11, <1>12,
     <1>13, <1>14 DEF StreamNext, RunStep, Server, Pump, Finished

-----------------------------------------------------------------------------
\* Every step keeps where run and its pump are relative to each other.
LEMMA PartsStep ==
    StreamInv /\ StreamTypeOK' /\ [StreamNext]_streamVars
        => Lifecycle' /\ Places' /\ Ahead' /\ Reasons'
<1> SUFFICES ASSUME StreamInv, StreamTypeOK', [StreamNext]_streamVars
             PROVE Lifecycle' /\ Places' /\ Ahead' /\ Reasons'
  OBVIOUS
<1>0. /\ loop \in [{Run} -> S!CallerStates]
      /\ after \in [{Run} -> {"idle", "body", "ended"}]
  BY DEF StreamInv, StreamTypeOK, S!TypeOK
<1> USE <1>0
    DEF StreamInv, StreamTypeOK, engine, below, link, durable, progress, reader, caller,
        history, bounds, S!stream, S!context, S!guards, S!history, S!Move, S!SetErr,
        S!FailWith, S!LeaveLoop, S!Errors, S!CtxDone, Failing,
        Looping, Closing, InBody, Holding, Stopped, S!OutClosed
<1>1. CASE Subscribe
  BY <1>1 DEF Subscribe, Renew, Lifecycle, Places, Ahead, Reasons
<1>2. CASE TakeFrame
  <2>1. Lifecycle'
    BY <1>2 DEF TakeFrame, S!TakeEvent, Lifecycle
  <2>2. Places'
    BY <1>2 DEF TakeFrame, S!TakeEvent, Lifecycle, Places, Ahead
  <2>3. Ahead'
    BY <1>2 DEF TakeFrame, S!TakeEvent, Ahead
  <2>4. Reasons'
    BY <1>2 DEF TakeFrame, S!TakeEvent, Reasons
  <2> QED
    BY <2>1, <2>2, <2>3, <2>4
<1>3. CASE Continue
  BY <1>3 DEF Continue, S!BodyDone, Lifecycle, Places, Ahead, Reasons
<1>4. CASE Complete
  BY <1>4 DEF Complete, S!Break, Lifecycle, Places, Ahead, Reasons
<1>5. CASE GiveUpSend
  BY <1>5 DEF GiveUpSend, S!Break, Lifecycle, Places, Ahead, Reasons
<1>6. CASE LoopEnds
  BY <1>6 DEF LoopEnds, S!SeeClosed, S!TakeError, Lifecycle, Places, Ahead, Reasons
<1>7. CASE CloseSub
  BY <1>7 DEF CloseSub, S!CloseFirst, Lifecycle, Places, Ahead, Reasons
<1>8. CASE Return
  <2>1. Lifecycle'
    BY <1>8 DEF Return, Leave, S!CloseReturns, Lifecycle
  <2>2. Places'
    BY <1>8 DEF Return, Leave, S!CloseReturns, Lifecycle, Places
  <2>3. Ahead'
    BY <1>8 DEF Return, Leave, S!CloseReturns, Lifecycle, Ahead
  <2>4. Reasons'
    BY <1>8 DEF Return, Leave, S!CloseReturns, Lifecycle, Reasons
  <2> QED
    BY <2>1, <2>2, <2>3, <2>4
<1>9. CASE Open
  <2>1. Lifecycle'
    BY <1>9 DEF Open, S!OpenStream, S!OpenFails, Lifecycle
  <2>2. Places'
    BY <1>9 DEF Open, S!OpenStream, S!OpenFails, Places
  <2>3. Ahead'
    BY <1>9 DEF Open, S!OpenStream, S!OpenFails, Ahead
  <2>4. Reasons'
    BY <1>9 DEF Open, S!OpenStream, S!OpenFails, Reasons
  <2> QED
    BY <2>1, <2>2, <2>3, <2>4
<1>10. CASE OpenRefused
  BY <1>10 DEF OpenRefused, S!OpenFails, Lifecycle, Places, Ahead, Reasons
<1>11. CASE Arrives
  <2>1. Lifecycle'
    BY <1>11 DEF Arrives, S!ReceiveFrame, Lifecycle
  <2>2. Places'
    BY <1>11 DEF Arrives, S!ReceiveFrame, Places
  <2>3. Ahead'
    <3>1. /\ pump = "recv" /\ pump' = "map" /\ read = pos
          /\ UNCHANGED <<pos, head, log, sub, offer>>
      BY <1>11 DEF Arrives, S!ReceiveFrame, Ahead
    <3>2. /\ read \in Int /\ head \in Int /\ sub \in {"catchUp", "live"}
      BY <1>11 DEF TypeOK, Arrives
    <3>3. CASE frame' = "dropped" /\ UNCHANGED read
      BY <3>1, <3>3 DEF Ahead, Holding
    <3>4. CASE sub = "catchUp" /\ read < head /\ frame' = "entry" /\ read' = read + 1
      BY <3>1, <3>2, <3>4 DEF Ahead, Holding
    <3>5. CASE sub = "catchUp" /\ read >= head /\ frame' = "complete" /\ UNCHANGED read
      BY <3>1, <3>2, <3>5 DEF Ahead, Holding
    <3>6. CASE /\ sub = "live" /\ frame' = "entry"
               /\ \E s \in read + 1..Len(log) :
                    /\ Wanted(log[s]) /\ \A t \in read + 1..s - 1 : ~Wanted(log[t])
                    /\ read' = s
      <4>1. /\ read' > pos /\ Wanted(log[read'])
            /\ \A t \in pos + 1..read' - 1 : ~Wanted(log[t])
        BY <3>1, <3>2, <3>6
      <4> QED
        BY <3>1, <3>2, <3>6, <4>1 DEF Ahead, Holding
    <3> QED
      BY <1>11, <3>1, <3>2, <3>3, <3>4, <3>5, <3>6 DEF Arrives
  <2>4. Reasons'
    BY <1>11 DEF Arrives, S!ReceiveFrame, Reasons
  <2> QED
    BY <2>1, <2>2, <2>3, <2>4
<1>12. CASE Stalls
  BY <1>12 DEF Stalls, StreamStalls, Lifecycle, Places, Ahead, Reasons
<1>13. CASE ServerEnds
  BY <1>13 DEF ServerEnds, S!ReceiveEOF, S!ReceiveFails, Lifecycle, Places, Ahead,
     Reasons
<1>14. CASE MapFrame
  BY <1>14 DEF MapFrame, S!MapFrame, Lifecycle, Places, Ahead, Reasons
<1>15. CASE PumpStops
  <2>1. Lifecycle'
    BY <1>15 DEF PumpStops, S!ReceiveCancelled, S!GiveUp, S!Unwind, Lifecycle
  <2>2. Places'
    BY <1>15 DEF PumpStops, S!ReceiveCancelled, S!GiveUp, S!Unwind, Places
  <2>3. Ahead'
    BY <1>15 DEF PumpStops, S!ReceiveCancelled, S!GiveUp, S!Unwind, Ahead
  <2>4. Reasons'
    BY <1>15 DEF PumpStops, S!ReceiveCancelled, S!GiveUp, S!Unwind, Lifecycle, Reasons
  <2> QED
    BY <2>1, <2>2, <2>3, <2>4
<1>16. CASE Crash
  BY <1>16 DEF Crash, Renew, Restart, Lifecycle, Places, Ahead, Reasons
<1>17. CASE Alone
  <2>0. UNCHANGED <<below, link>>
    BY <1>17 DEF Alone
  <2>1. CASE Load
    BY <2>0, <2>1 DEF Load, Lifecycle, Places, Ahead, Reasons
  <2>2. CASE LoadError
    BY <2>0, <2>2 DEF LoadError, Lifecycle, Places, Ahead, Reasons
  <2>3. CASE SendError
    BY <2>0, <2>3 DEF SendError, Lifecycle, Places, Ahead, Reasons
  <2>4. CASE InBody /\ Send
    BY <2>0, <2>4 DEF Send, Lifecycle, Places, Ahead, Reasons
  <2>5. CASE InBody /\ Save
    BY <2>0, <2>5 DEF Save, SeqOf, Lifecycle, Places, Ahead, Reasons
  <2>6. CASE sub = "none" /\ Wake
    BY <2>0, <2>6 DEF Wake, Lifecycle, Places, Ahead, Reasons
  <2>7. CASE sub = "none" /\ pc \in {"top", "sleep", "sendErr"} /\ Stop
    BY <2>0, <2>7 DEF Stop, Lifecycle, Places, Ahead, Reasons
  <2> QED
    BY <1>17, <2>1, <2>2, <2>3, <2>4, <2>5, <2>6, <2>7 DEF Alone
<1>18. CASE Outside
  <2>0. UNCHANGED <<below, link>>
    BY <1>18 DEF Outside
  <2>1. CASE StartRange
    BY <2>0, <2>1 DEF StartRange, Lifecycle, Places, Ahead, Reasons
  <2>2. CASE RangeAgain
    BY <2>0, <2>2 DEF RangeAgain, Lifecycle, Places, Ahead, Reasons
  <2>3. CASE BodyDone
    BY <2>0, <2>3 DEF BodyDone, Lifecycle, Places, Ahead, Reasons
  <2>4. CASE Break
    BY <2>0, <2>4 DEF Break, Lifecycle, Places, Ahead, Reasons
  <2>5. CASE SeeClosed
    BY <2>0, <2>5 DEF SeeClosed, Lifecycle, Places, Ahead, Reasons
  <2>6. CASE CloseUnread
    BY <2>0, <2>6 DEF CloseUnread, Lifecycle, Places, Ahead, Reasons
  <2>7. CASE CloseReturns
    BY <2>0, <2>7 DEF CloseReturns, Lifecycle, Places, Ahead, Reasons
  <2>8. CASE Cancel
    BY <2>0, <2>8 DEF Cancel, Lifecycle, Places, Ahead, Reasons
  <2>9. CASE AppendEvent
    <3>1. UNCHANGED <<pc, reader, cancelled, consumer, failures>>
      BY <2>9 DEF AppendEvent
    <3>2. Lifecycle' /\ Places' /\ Reasons'
      BY <2>0, <3>1 DEF Lifecycle, Places, Reasons
    <3>3. /\ \A s \in 1..Len(log) : log'[s] = log[s]
          /\ pos \in Nat /\ read \in 0..Len(log)
      BY <2>9 DEF AppendEvent, TypeOK
    <3>4. ASSUME pos < read, Wanted(log[read]), \A t \in pos + 1..read - 1 : ~Wanted(log[t])
          PROVE  Wanted(log'[read]) /\ \A t \in pos + 1..read - 1 : ~Wanted(log'[t])
      <4>1. Len(log) \in Nat
        BY DEF TypeOK
      <4>2. \A t \in pos + 1..read : Wanted(log'[t]) = Wanted(log[t])
        BY <3>3, <4>1 DEF Wanted
      <4> QED
        BY <3>3, <3>4, <4>1, <4>2
    <3> QED
      BY <2>0, <3>1, <3>2, <3>4 DEF Ahead, Holding
  <2> QED
    BY <1>18, <2>1, <2>2, <2>3, <2>4, <2>5, <2>6, <2>7, <2>8, <2>9 DEF Outside
<1>19. CASE UNCHANGED streamVars
  BY <1>19 DEF streamVars, Lifecycle, Places, Ahead, Reasons
<1>20. CASE RunStep
  BY <1>20, <1>1, <1>2, <1>3, <1>4, <1>5, <1>6, <1>7, <1>8, <1>17 DEF RunStep
<1>21. CASE Server \/ Pump
  BY <1>21, <1>9, <1>10, <1>11, <1>13, <1>14, <1>15 DEF Server, Pump
<1> QED
  BY <1>12, <1>16, <1>18, <1>19, <1>20, <1>21 DEF StreamNext, Finished

\* The variables between the two keep their types.
LEMMA LinkTypeStep ==
    StreamTypeOK /\ TypeOK' /\ [StreamNext]_streamVars
        => /\ sub' \in {"none", "catchUp", "live"}
           /\ frame' \in {"dropped", "entry", "complete"}
           /\ got' \in {"dropped", "entry", "complete"}
           /\ read' \in 0..Len(log')
<1> SUFFICES ASSUME StreamTypeOK, TypeOK', [StreamNext]_streamVars
             PROVE  /\ sub' \in {"none", "catchUp", "live"}
                    /\ frame' \in {"dropped", "entry", "complete"}
                    /\ got' \in {"dropped", "entry", "complete"}
                    /\ read' \in 0..Len(log')
  OBVIOUS
<1>0. /\ log \in Seq(Entries) /\ log' \in Seq(Entries) /\ pos' \in 0..Len(log')
      /\ Len(log) \in Nat /\ Len(log') \in Nat
  <2>1. log \in Seq(Entries) /\ log' \in Seq(Entries) /\ pos' \in 0..Len(log')
    BY DEF StreamTypeOK, TypeOK
  <2> QED
    BY <2>1
<1> USE DEF StreamTypeOK, engine, link
<1>1. CASE Subscribe \/ Crash
  BY <1>0, <1>1 DEF Subscribe, Crash, Renew
<1>2. CASE TakeFrame \/ Continue \/ Complete \/ GiveUpSend \/ LoopEnds \/ CloseSub \/ Return
  BY <1>2 DEF TakeFrame, Continue, Complete, GiveUpSend, LoopEnds, CloseSub, Return,
     Leave
<1>3. CASE Open
  BY <1>3 DEF Open, TypeOK
<1>4. CASE Arrives
  <2>1. log' = log /\ read \in 0..Len(log) /\ head \in 0..Len(log)
    BY <1>4 DEF Arrives, TypeOK
  <2> QED
    BY <1>4, <2>1 DEF Arrives
<1>5. CASE OpenRefused \/ ServerEnds \/ MapFrame \/ PumpStops
  BY <1>5 DEF OpenRefused, ServerEnds, MapFrame, PumpStops
<1>6. CASE Alone \/ Outside \/ Stalls
  <2>1. UNCHANGED link
    BY <1>6 DEF Alone, Outside, Stalls
  <2>3. Len(log') >= Len(log)
    <3>1. CASE AppendEvent
      BY <1>0, <3>1 DEF AppendEvent
    <3>2. CASE UNCHANGED log
      BY <1>0, <3>2
    <3> QED
      BY <1>6, <3>1, <3>2
         DEF Alone, Load, LoadError, SendError, Send, Save, Wake, Stop,
             Outside, StartRange, RangeAgain, BodyDone, Break, SeeClosed, CloseUnread,
             CloseReturns, Cancel, Stalls, StreamStalls, durable
  <2> QED
    BY <1>0, <2>1, <2>3
<1>7. CASE UNCHANGED streamVars
  BY <1>7 DEF streamVars
<1> QED
  BY <1>1, <1>2, <1>3, <1>4, <1>5, <1>6, <1>7
     DEF StreamNext, RunStep, Server, Pump, Finished

\* What Subscription says of a subscription holds of the one run ranges over.
LEMMA InsideStep == StreamInv /\ [StreamNext]_streamVars => Inside'
<1> SUFFICES ASSUME StreamInv, [StreamNext]_streamVars, sub' # "none"
             PROVE  S!OneLoop' /\ S!Teardown' /\ S!Flow' /\ S!Endings'
  BY DEF Inside
<1>0. /\ loop \in [{Run} -> S!CallerStates]
      /\ after \in [{Run} -> {"idle", "body", "ended"}]
      /\ emitted \in Nat /\ delivered \in Seq(Nat)
      /\ offer \in {"event", "stream", "context"}
  BY DEF StreamInv, StreamTypeOK, S!TypeOK, S!Errors
<1> USE <1>0
    DEF link, S!stream, S!context, S!guards, S!history, S!Move, S!SetErr,
        S!FailWith, S!LeaveLoop, S!Errors, S!CtxDone, S!OutClosed, S!Active,
        S!NoSilentFailure, S!OneLoop, S!Teardown, S!Flow, S!Endings
<1>1. CASE Subscribe
  BY <1>1 DEF Subscribe, Renew
<1>2. CASE Crash
  BY <1>2 DEF Crash
<1>3. ASSUME sub # "none", loop[Run] # "ended", S!OneLoop, S!Teardown, S!Flow, S!Endings,
             ~Subscribe, ~Crash
      PROVE  S!OneLoop' /\ S!Teardown' /\ S!Flow' /\ S!Endings'
  <2> USE <1>3
  <2>1. CASE TakeFrame
    BY <2>1 DEF TakeFrame, S!TakeEvent
  <2>2. CASE Continue
    BY <2>2 DEF Continue, S!BodyDone
  <2>3. CASE Complete \/ GiveUpSend
    BY <2>3 DEF Complete, GiveUpSend, S!Break
  <2>4. CASE LoopEnds
    BY <2>4 DEF LoopEnds, S!SeeClosed, S!TakeError
  <2>5. CASE CloseSub
    BY <2>5 DEF CloseSub, S!CloseFirst
  <2>6. CASE Return
    BY <2>6 DEF Return, Leave
  <2>7. CASE Open \/ OpenRefused
    BY <2>7 DEF Open, OpenRefused, S!OpenStream, S!OpenFails
  <2>8. CASE Arrives
    BY <2>8 DEF Arrives, S!ReceiveFrame
  <2>9. CASE ServerEnds
    BY <2>9 DEF ServerEnds, S!ReceiveEOF, S!ReceiveFails
  <2>10. CASE MapFrame
    BY <2>10 DEF MapFrame, S!MapFrame
  <2>11. CASE PumpStops
    BY <2>11 DEF PumpStops, S!ReceiveCancelled, S!GiveUp, S!Unwind
  <2>12. ASSUME UNCHANGED below, cancelled => cancelled'
         PROVE  S!OneLoop' /\ S!Teardown' /\ S!Flow' /\ S!Endings'
    BY <2>12 DEF below
  <2>13. CASE Alone
    BY <2>12, <2>13 DEF Alone, Load, LoadError, SendError, Send, Save, Wake, Stop,
       durable, progress, reader, caller, history, bounds
  <2>14. CASE Stalls
    BY <2>12, <2>14 DEF Stalls, StreamStalls
  <2>15. CASE Outside
    BY <2>12, <2>15 DEF Outside, StartRange, RangeAgain, BodyDone, Break, SeeClosed, CloseUnread,
       CloseReturns, Cancel, AppendEvent, durable, progress, reader, caller, history, bounds
  <2>16. CASE UNCHANGED streamVars
    BY <2>12, <2>16 DEF streamVars
  <2> QED
    BY <2>1, <2>2, <2>3, <2>4, <2>5, <2>6, <2>7, <2>8, <2>9, <2>10, <2>11,
       <2>13, <2>14, <2>15, <2>16 DEF StreamNext, RunStep, Server, Pump, Finished
<1>4. CASE sub = "none" /\ ~Subscribe /\ ~Crash
  <2>1. pump = "done" /\ loop[Run] = "ended"
    BY <1>4 DEF StreamInv, Lifecycle
  <2>2. sub' = sub
    BY <1>4, <2>1 DEF StreamNext, RunStep, Server, Pump, Finished, TakeFrame, Continue,
       Complete, GiveUpSend, LoopEnds, CloseSub, Return, Alone, Open, OpenRefused,
       Arrives, ServerEnds, MapFrame, PumpStops, Stalls, Outside, streamVars,
       S!TakeEvent, S!BodyDone, S!Break, S!SeeClosed, S!TakeError, S!CloseFirst
  <2> QED
    BY <1>4, <2>2
<1> QED
  BY <1>1, <1>2, <1>3, <1>4 DEF StreamInv, Lifecycle, Inside, Looping, Closing

\* Every step is one of Subscription below run, or renews the subscription.
LEMMA StepSubscribes ==
    StreamInv /\ [StreamNext]_streamVars
        => [S!Next \/ Renew("open", "free", "ranging") \/ Renew("done", "done", "ended")]_(S!vars)
<1> DEFINE Step == [S!Next \/ Renew("open", "free", "ranging") \/ Renew("done", "done", "ended")]_(S!vars)
<1> SUFFICES ASSUME StreamInv, [StreamNext]_streamVars PROVE Step
  OBVIOUS
<1>0. Run \in {Run}
  OBVIOUS
<1>1. CASE Subscribe \/ Crash
  BY <1>1 DEF Subscribe, Crash
<1>2. ASSUME S!Server \/ S!Pump \/ S!ParentEnds \/ S!User(Run) \/ S!Choice(Run) PROVE Step
  BY <1>2, <1>0 DEF S!Next
<1>3. CASE TakeFrame
  BY <1>0, <1>2, <1>3 DEF TakeFrame, S!Pump
<1>4. CASE Continue
  BY <1>2, <1>4 DEF Continue, S!User
<1>5. CASE Complete \/ GiveUpSend
  BY <1>2, <1>5 DEF Complete, GiveUpSend, S!Choice
<1>6. CASE LoopEnds
  BY <1>0, <1>2, <1>6 DEF LoopEnds, S!User, S!Pump
<1>7. CASE CloseSub \/ Return
  BY <1>2, <1>7 DEF CloseSub, Return, Leave, S!User
<1>8. CASE Open \/ OpenRefused \/ Arrives \/ ServerEnds
  BY <1>2, <1>8 DEF Open, OpenRefused, Arrives, ServerEnds, S!Server
<1>9. CASE MapFrame \/ PumpStops
  BY <1>2, <1>9 DEF MapFrame, PumpStops, S!Pump, S!Server
<1>10. ASSUME UNCHANGED below, UNCHANGED cancelled \/ cancelled' = TRUE PROVE Step
  <2>1. cancelled \in BOOLEAN
    BY DEF StreamInv, StreamTypeOK, TypeOK
  <2>2. CASE ~cancelled /\ cancelled' = TRUE
    <3>1. S!ParentEnds
      BY <1>10, <2>2 DEF below, S!ParentEnds, S!stream, S!guards, S!history
    <3> QED
      BY <1>2, <3>1
  <2> QED
    BY <1>10, <2>1, <2>2 DEF below, S!vars, S!stream, S!context, S!guards, S!history
<1>11. CASE Alone
  BY <1>10, <1>11 DEF Alone, Load, LoadError, SendError, Send, Save, Wake, Stop
<1>12. CASE Outside \/ Stalls
  BY <1>10, <1>12 DEF Outside, StartRange, RangeAgain, BodyDone, Break, SeeClosed,
     CloseUnread, CloseReturns, Cancel, AppendEvent, Stalls, StreamStalls
<1>13. CASE UNCHANGED streamVars
  BY <1>10, <1>13 DEF streamVars
<1> QED
  BY <1>1, <1>3, <1>4, <1>5, <1>6, <1>7, <1>8, <1>9, <1>11, <1>12, <1>13
     DEF StreamNext, RunStep, Server, Pump, Finished

\* TypeOK comes from Resumable, whose step this is.
LEMMA StreamInvStep == StreamInv /\ [StreamNext]_streamVars => StreamInv'
<1> SUFFICES ASSUME StreamInv, [StreamNext]_streamVars PROVE StreamInv'
  OBVIOUS
<1>1. TypeOK'
  BY StepImplements, TypeStep DEF StreamInv, StreamTypeOK
<1>2. StreamTypeOK'
  BY <1>1, SubTypeStep, LinkTypeStep DEF StreamInv, StreamTypeOK
<1> QED
  BY <1>2, PartsStep, InsideStep DEF StreamInv

\* StreamInv holds at the start.
LEMMA StreamInitInv == StreamInit => StreamInv
<1> SUFFICES ASSUME StreamInit PROVE StreamInv
  OBVIOUS
<1>1. TypeOK /\ pc = "load" /\ consumer = "idle" /\ ~stalled
  BY InitTypeOK DEF StreamInit, Init
<1>2. loop[Run] = "ended"
  BY DEF StreamInit
<1>3. S!TypeOK
  <2>1. delivered \in Seq(Nat)
    BY DEF StreamInit
  <2> QED
    BY <1>1, <2>1
       DEF StreamInit, TypeOK, S!TypeOK, S!PumpStates, S!CallerStates, S!Errors
<1>4. Len(log) \in Nat
  BY <1>1 DEF TypeOK
<1> QED
  BY <1>1, <1>2, <1>3, <1>4
     DEF StreamInit, StreamInv, StreamTypeOK, Lifecycle, Places, Ahead, Reasons, Inside,
         Looping, Closing, InBody, Holding, Stopped, S!OutClosed

-----------------------------------------------------------------------------
(* The theorems.                                                           *)

\* Where run, the pump and the open stream may be at once (resumable.go:103-203,
\* stream.go:59-104).
THEOREM StreamInvariance == StreamSpec => []StreamInv
  BY StreamInitInv, StreamInvStep, PTL DEF StreamSpec

\* The engine over real subscriptions implements the engine that reads a stream
\* as a position in the log (resumable.go:151-203 over stream.go:47-152).
THEOREM Implementation == StreamSpec => ImplementsResumable
<1>1. StreamInit => Init
  BY DEF StreamInit
<1> QED
  BY <1>1, StepImplements, StreamInvariance, PTL DEF StreamSpec, ImplementsResumable,
     Spec

\* One stream at a time, and none once run, a Close or the loop has returned
\* (resumable.go:152-153, 189-190, 258-266).
THEOREM LeavesNothing == StreamSpec => []NothingLeftBehind
<1>1. StreamInv => NothingLeftBehind
  BY DEF StreamInv, Lifecycle, NothingLeftBehind, S!OutClosed
<1> QED
  BY <1>1, StreamInvariance, PTL

\* Below run every stream is a Subscription: no step of the two goroutines together
\* leaves it (resumable.go:152-203 over stream.go:47-152).
THEOREM StreamsAreSubscriptions == StreamSpec => SubscriptionSteps
  BY StepSubscribes, StreamInvariance, PTL DEF StreamSpec, SubscriptionSteps

\* A stream that ended under run while its context lived ended cleanly only if the
\* server ended it, and otherwise left its error; its Close leaves no pump and no
\* RPC (stream.go:73-104, 109-152; resumable.go:152-153, 176-190, 202).
THEOREM StreamsEndHonestly == StreamSpec => []HonestEnds
<1>1. StreamInv => HonestEnds
  BY DEF StreamInv, Inside, HonestEnds, S!Endings, S!Teardown, S!CloseIsFinal,
     S!OutClosed
<1> QED
  BY <1>1, StreamInvariance, PTL

\* Through pumps, channels and contexts no cursor passes a wanted event that was
\* not handed over, and a crash loses at most the event in the loop body, if live
\* streams start where the server promises (resumable.go:11-13, 43-48).
THEOREM StreamDurable ==
    ASSUME ContiguousAttach
    PROVE  StreamSpec =>
               /\ []NoGap /\ []AtMostOneLostPerCrash /\ ImplementsDurableDelivery
<1>1. Spec => []NoGap /\ []AtMostOneLostPerCrash /\ ImplementsDurableDelivery
  BY GapFree, LostPerCrash, Refinement
<1> QED
  BY <1>1, Implementation DEF ImplementsResumable

==============================================================================
