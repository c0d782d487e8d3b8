-------------------------- MODULE SubscriptionProofs --------------------------
(***************************************************************************)
(* Theorems about Subscription, for any number of goroutines and frames.   *)
(***************************************************************************)
EXTENDS Subscription, TLAPS

LEMMA InitTypeOK == Init => TypeOK
<1> SUFFICES ASSUME Init PROVE TypeOK
  OBVIOUS
<1>1. delivered \in Seq(Nat)
  BY DEF Init
<1>2. caller \in [Callers -> CallerStates] /\ after \in [Callers -> {"idle", "body", "ended"}]
  BY DEF Init, CallerStates
<1>3. /\ parentDone \in BOOLEAN /\ cancelled \in BOOLEAN /\ consumed \in BOOLEAN
      /\ pump \in PumpStates
  BY DEF Init, PumpStates
<1> QED
  BY <1>1, <1>2, <1>3 DEF Init, TypeOK

\* TypeOK is inductive.
LEMMA TypeStep == TypeOK /\ [Next]_vars => TypeOK'
<1> SUFFICES ASSUME TypeOK, [Next]_vars PROVE TypeOK'
  OBVIOUS
<1> USE DEF TypeOK, PumpStates, CallerStates, Errors,
            stream, context, guards, history
<1>1. CASE OpenStream
  BY <1>1 DEF OpenStream
<1>2. CASE OpenFails
  BY <1>2 DEF OpenFails, FailWith
<1>3. CASE ReceiveFrame
  BY <1>3 DEF ReceiveFrame
<1>4. CASE ReceiveEOF
  BY <1>4 DEF ReceiveEOF
<1>5. CASE ReceiveFails
  BY <1>5 DEF ReceiveFails, FailWith
<1>6. CASE MapFrame
  BY <1>6 DEF MapFrame, FailWith
<1>7. CASE GiveUp
  BY <1>7 DEF GiveUp
<1>8. CASE Unwind
  BY <1>8 DEF Unwind
<1>9. CASE ReceiveCancelled
  BY <1>9 DEF ReceiveCancelled, FailWith
<1>10. CASE ParentEnds
  BY <1>10 DEF ParentEnds
<1>11. ASSUME NEW c \in Callers, TakeEvent(c) PROVE TypeOK'
  BY <1>11 DEF TakeEvent, Move
<1>12. ASSUME NEW c \in Callers, TakeError(c) PROVE TypeOK'
  BY <1>12 DEF TakeError, SetErr, LeaveLoop, Move
<1>13. ASSUME NEW c \in Callers, SeeClosed(c) PROVE TypeOK'
  BY <1>13 DEF SeeClosed, LeaveLoop, Move
<1>14. ASSUME NEW c \in Callers, BodyDone(c) PROVE TypeOK'
  BY <1>14 DEF BodyDone, Move
<1>15. ASSUME NEW c \in Callers, CloseFirst(c) PROVE TypeOK'
  BY <1>15 DEF CloseFirst, Move
<1>16. ASSUME NEW c \in Callers, CloseReturns(c) PROVE TypeOK'
  BY <1>16 DEF CloseReturns, Move
<1>17. ASSUME NEW c \in Callers, Range(c) PROVE TypeOK'
  <2>1. consumed' \in BOOLEAN
    BY <1>17 DEF Range
  <2>2. err' \in {"none", "alreadyConsumed"} \cup Errors
    BY <1>17 DEF Range, SetErr
  <2>3. caller' \in [Callers -> CallerStates]
    BY <1>17 DEF Range, Move
  <2>4. UNCHANGED <<pump, stream, context, once, after, history>>
    BY <1>17 DEF Range
  <2> QED
    BY <2>1, <2>2, <2>3, <2>4
<1>18. ASSUME NEW c \in Callers, Break(c) PROVE TypeOK'
  BY <1>18 DEF Break, LeaveLoop, Move
<1>19. ASSUME NEW c \in Callers, CallClose(c) PROVE TypeOK'
  BY <1>19 DEF CallClose, Move
<1>20. CASE UNCHANGED vars
  BY <1>20 DEF vars
<1> HIDE DEF TypeOK
<1>21. CASE Server
  BY <1>21, <1>1, <1>2, <1>3, <1>4, <1>5 DEF Server
<1>22. CASE Pump
  BY <1>22, <1>6, <1>7, <1>8, <1>9, <1>11, <1>12 DEF Pump
<1>23. ASSUME NEW c \in Callers, User(c) \/ Choice(c) PROVE TypeOK'
  BY <1>23, <1>13, <1>14, <1>15, <1>16, <1>17, <1>18, <1>19 DEF User, Choice
<1> QED
  BY <1>10, <1>20, <1>21, <1>22, <1>23 DEF Next

\* The variables keep their types (stream.go:27-36, 59-104, 109-152).
THEOREM TypeCorrect == Spec => []TypeOK
  BY InitTypeOK, TypeStep, PTL DEF Spec

LEMMA Callings == TypeOK => caller \in [Callers -> CallerStates] /\ after \in [Callers -> {"idle", "body", "ended"}]
  BY DEF TypeOK

\* The atomic flag lets one goroutine into the loop, and it leaves once.
LEMMA OneLoopStep == TypeOK /\ OneLoop /\ [Next]_vars => OneLoop'
<1> SUFFICES ASSUME TypeOK, OneLoop, [Next]_vars PROVE OneLoop'
  OBVIOUS
<1> USE Callings DEF OneLoop, Active,
            stream, context, guards, history
<1>1. CASE OpenStream
  BY <1>1 DEF OpenStream
<1>2. CASE OpenFails
  BY <1>2 DEF OpenFails, FailWith
<1>3. CASE ReceiveFrame
  BY <1>3 DEF ReceiveFrame
<1>4. CASE ReceiveEOF
  BY <1>4 DEF ReceiveEOF
<1>5. CASE ReceiveFails
  BY <1>5 DEF ReceiveFails, FailWith
<1>6. CASE MapFrame
  BY <1>6 DEF MapFrame, FailWith
<1>7. CASE GiveUp
  BY <1>7 DEF GiveUp
<1>8. CASE Unwind
  BY <1>8 DEF Unwind
<1>9. CASE ReceiveCancelled
  BY <1>9 DEF ReceiveCancelled, FailWith
<1>10. CASE ParentEnds
  BY <1>10 DEF ParentEnds
<1>11. ASSUME NEW c \in Callers, TakeEvent(c) PROVE OneLoop'
  BY <1>11 DEF TakeEvent, Move
<1>12. ASSUME NEW c \in Callers, TakeError(c) PROVE OneLoop'
  BY <1>12 DEF TakeError, SetErr, LeaveLoop, Move
<1>13. ASSUME NEW c \in Callers, SeeClosed(c) PROVE OneLoop'
  BY <1>13 DEF SeeClosed, LeaveLoop, Move
<1>14. ASSUME NEW c \in Callers, BodyDone(c) PROVE OneLoop'
  BY <1>14 DEF BodyDone, Move
<1>15. ASSUME NEW c \in Callers, CloseFirst(c) PROVE OneLoop'
  BY <1>15 DEF CloseFirst, Move
<1>16. ASSUME NEW c \in Callers, CloseReturns(c) PROVE OneLoop'
  BY <1>16 DEF CloseReturns, Move
<1>17. ASSUME NEW c \in Callers, Range(c) PROVE OneLoop'
  <2>1. CASE consumed
    BY <1>17, <2>1 DEF Range
  <2>2. CASE ~consumed
    <3>1. /\ consumed' = TRUE /\ verdict' = "none" /\ after' = after
          /\ caller' = [caller EXCEPT ![c] = "ranging"]
      BY <1>17, <2>2 DEF Range, Move
    <3>2. \A d \in Callers : Active(d)' => d = c
      BY <2>2, <3>1
    <3> QED
      BY <3>1, <3>2
  <2> QED
    BY <2>1, <2>2
<1>18. ASSUME NEW c \in Callers, Break(c) PROVE OneLoop'
  BY <1>18 DEF Break, LeaveLoop, Move
<1>19. ASSUME NEW c \in Callers, CallClose(c) PROVE OneLoop'
  BY <1>19 DEF CallClose, Move
<1>20. CASE UNCHANGED vars
  BY <1>20 DEF vars
<1> HIDE DEF OneLoop
<1>21. CASE Server
  BY <1>21, <1>1, <1>2, <1>3, <1>4, <1>5 DEF Server
<1>22. CASE Pump
  BY <1>22, <1>6, <1>7, <1>8, <1>9, <1>11, <1>12 DEF Pump
<1>23. ASSUME NEW c \in Callers, User(c) \/ Choice(c) PROVE OneLoop'
  BY <1>23, <1>13, <1>14, <1>15, <1>16, <1>17, <1>18, <1>19 DEF User, Choice
<1> QED
  BY <1>10, <1>20, <1>21, <1>22, <1>23 DEF Next

\* Nothing passes closeOnce before done is closed.
LEMMA TeardownStep == TypeOK /\ Teardown /\ [Next]_vars => Teardown'
<1> SUFFICES ASSUME TypeOK, Teardown, [Next]_vars PROVE Teardown'
  OBVIOUS
<1> USE Callings DEF Teardown, OutClosed,
            stream, context, guards, history
<1>1. CASE OpenStream
  BY <1>1 DEF OpenStream
<1>2. CASE OpenFails
  BY <1>2 DEF OpenFails, FailWith
<1>3. CASE ReceiveFrame
  BY <1>3 DEF ReceiveFrame
<1>4. CASE ReceiveEOF
  BY <1>4 DEF ReceiveEOF
<1>5. CASE ReceiveFails
  BY <1>5 DEF ReceiveFails, FailWith
<1>6. CASE MapFrame
  BY <1>6 DEF MapFrame, FailWith
<1>7. CASE GiveUp
  BY <1>7 DEF GiveUp
<1>8. CASE Unwind
  BY <1>8 DEF Unwind
<1>9. CASE ReceiveCancelled
  BY <1>9 DEF ReceiveCancelled, FailWith
<1>10. CASE ParentEnds
  BY <1>10 DEF ParentEnds
<1>11. ASSUME NEW c \in Callers, TakeEvent(c) PROVE Teardown'
  BY <1>11 DEF TakeEvent, Move
<1>12. ASSUME NEW c \in Callers, TakeError(c) PROVE Teardown'
  BY <1>12 DEF TakeError, SetErr, LeaveLoop, Move
<1>13. ASSUME NEW c \in Callers, SeeClosed(c) PROVE Teardown'
  BY <1>13 DEF SeeClosed, LeaveLoop, Move
<1>14. ASSUME NEW c \in Callers, BodyDone(c) PROVE Teardown'
  BY <1>14 DEF BodyDone, Move
<1>15. ASSUME NEW c \in Callers, CloseFirst(c) PROVE Teardown'
  BY <1>15 DEF CloseFirst, Move
<1>16. ASSUME NEW c \in Callers, CloseReturns(c) PROVE Teardown'
  BY <1>16 DEF CloseReturns, Move
<1>17. ASSUME NEW c \in Callers, Range(c) PROVE Teardown'
  BY <1>17 DEF Range, SetErr, Move
<1>18. ASSUME NEW c \in Callers, Break(c) PROVE Teardown'
  BY <1>18 DEF Break, LeaveLoop, Move
<1>19. ASSUME NEW c \in Callers, CallClose(c) PROVE Teardown'
  BY <1>19 DEF CallClose, Move
<1>20. CASE UNCHANGED vars
  BY <1>20 DEF vars
<1> HIDE DEF Teardown
<1>21. CASE Server
  BY <1>21, <1>1, <1>2, <1>3, <1>4, <1>5 DEF Server
<1>22. CASE Pump
  BY <1>22, <1>6, <1>7, <1>8, <1>9, <1>11, <1>12 DEF Pump
<1>23. ASSUME NEW c \in Callers, User(c) \/ Choice(c) PROVE Teardown'
  BY <1>23, <1>13, <1>14, <1>15, <1>16, <1>17, <1>18, <1>19 DEF User, Choice
<1> QED
  BY <1>10, <1>20, <1>21, <1>22, <1>23 DEF Next

\* When a Close returned, in any goroutine, or the loop is over, the pump has
\* exited and no RPC is open (stream.go:43-46, 106-108, 144-146).
THEOREM CloseLeavesNothing == Spec => []CloseIsFinal
<1>1. Init => TypeOK /\ Teardown
  BY InitTypeOK DEF Init, Teardown, OutClosed
<1>2. TypeOK /\ Teardown /\ [Next]_vars => (TypeOK /\ Teardown)'
  BY TypeStep, TeardownStep
<1>3. Teardown => CloseIsFinal
  BY DEF Teardown, CloseIsFinal, OutClosed
<1> QED
  BY <1>1, <1>2, <1>3, PTL DEF Spec

\* At most one event is between the pump and the loop.
LEMMA FlowStep == TypeOK /\ Flow /\ [Next]_vars => Flow'
<1> SUFFICES ASSUME TypeOK, Flow, [Next]_vars PROVE Flow'
  OBVIOUS
<1> USE DEF TypeOK, Flow, Errors,
            stream, context, guards, history
<1>1. CASE OpenStream
  BY <1>1 DEF OpenStream
<1>2. CASE OpenFails
  BY <1>2 DEF OpenFails, FailWith
<1>3. CASE ReceiveFrame
  BY <1>3 DEF ReceiveFrame
<1>4. CASE ReceiveEOF
  BY <1>4 DEF ReceiveEOF
<1>5. CASE ReceiveFails
  BY <1>5 DEF ReceiveFails, FailWith
<1>6. CASE MapFrame
  BY <1>6 DEF MapFrame, FailWith
<1>7. CASE GiveUp
  BY <1>7 DEF GiveUp
<1>8. CASE Unwind
  BY <1>8 DEF Unwind
<1>9. CASE ReceiveCancelled
  BY <1>9 DEF ReceiveCancelled, FailWith
<1>10. CASE ParentEnds
  BY <1>10 DEF ParentEnds
<1>11. ASSUME NEW c \in Callers, TakeEvent(c) PROVE Flow'
  BY <1>11 DEF TakeEvent, Move
<1>12. ASSUME NEW c \in Callers, TakeError(c) PROVE Flow'
  BY <1>12 DEF TakeError, SetErr, LeaveLoop, Move
<1>13. ASSUME NEW c \in Callers, SeeClosed(c) PROVE Flow'
  BY <1>13 DEF SeeClosed, LeaveLoop, Move
<1>14. ASSUME NEW c \in Callers, BodyDone(c) PROVE Flow'
  BY <1>14 DEF BodyDone, Move
<1>15. ASSUME NEW c \in Callers, CloseFirst(c) PROVE Flow'
  BY <1>15 DEF CloseFirst, Move
<1>16. ASSUME NEW c \in Callers, CloseReturns(c) PROVE Flow'
  BY <1>16 DEF CloseReturns, Move
<1>17. ASSUME NEW c \in Callers, Range(c) PROVE Flow'
  BY <1>17 DEF Range, SetErr, Move
<1>18. ASSUME NEW c \in Callers, Break(c) PROVE Flow'
  BY <1>18 DEF Break, LeaveLoop, Move
<1>19. ASSUME NEW c \in Callers, CallClose(c) PROVE Flow'
  BY <1>19 DEF CallClose, Move
<1>20. CASE UNCHANGED vars
  BY <1>20 DEF vars
<1> HIDE DEF TypeOK, Flow
<1>21. CASE Server
  BY <1>21, <1>1, <1>2, <1>3, <1>4, <1>5 DEF Server
<1>22. CASE Pump
  BY <1>22, <1>6, <1>7, <1>8, <1>9, <1>11, <1>12 DEF Pump
<1>23. ASSUME NEW c \in Callers, User(c) \/ Choice(c) PROVE Flow'
  BY <1>23, <1>13, <1>14, <1>15, <1>16, <1>17, <1>18, <1>19 DEF User, Choice
<1> QED
  BY <1>10, <1>20, <1>21, <1>22, <1>23 DEF Next

\* Without a cancelled context the pump returns on EOF or after its error.
LEMMA EndingsStep == TypeOK /\ OneLoop /\ Endings /\ [Next]_vars => Endings'
<1> SUFFICES ASSUME TypeOK, OneLoop, Endings, [Next]_vars PROVE Endings'
  OBVIOUS
<1> USE Callings DEF OneLoop, Active, Errors, Endings, NoSilentFailure, CtxDone, OutClosed,
            stream, context, guards, history
<1>1. CASE OpenStream
  BY <1>1 DEF OpenStream
<1>2. CASE OpenFails
  BY <1>2 DEF OpenFails, FailWith
<1>3. CASE ReceiveFrame
  BY <1>3 DEF ReceiveFrame
<1>4. CASE ReceiveEOF
  BY <1>4 DEF ReceiveEOF
<1>5. CASE ReceiveFails
  BY <1>5 DEF ReceiveFails, FailWith
<1>6. CASE MapFrame
  BY <1>6 DEF MapFrame, FailWith
<1>7. CASE GiveUp
  BY <1>7 DEF GiveUp
<1>8. CASE Unwind
  BY <1>8 DEF Unwind
<1>9. CASE ReceiveCancelled
  BY <1>9 DEF ReceiveCancelled, FailWith
<1>10. CASE ParentEnds
  BY <1>10 DEF ParentEnds
<1>11. ASSUME NEW c \in Callers, TakeEvent(c) PROVE Endings'
  BY <1>11 DEF TakeEvent, Move
<1>12. ASSUME NEW c \in Callers, TakeError(c) PROVE Endings'
  BY <1>12 DEF TakeError, SetErr, LeaveLoop, Move
<1>13. ASSUME NEW c \in Callers, SeeClosed(c) PROVE Endings'
  BY <1>13 DEF SeeClosed, LeaveLoop, Move
<1>14. ASSUME NEW c \in Callers, BodyDone(c) PROVE Endings'
  BY <1>14 DEF BodyDone, Move
<1>15. ASSUME NEW c \in Callers, CloseFirst(c) PROVE Endings'
  BY <1>15 DEF CloseFirst, Move
<1>16. ASSUME NEW c \in Callers, CloseReturns(c) PROVE Endings'
  BY <1>16 DEF CloseReturns, Move
<1>17. ASSUME NEW c \in Callers, Range(c) PROVE Endings'
  BY <1>17 DEF Range, SetErr, Move
<1>18. ASSUME NEW c \in Callers, Break(c) PROVE Endings'
  BY <1>18 DEF Break, LeaveLoop, Move
<1>19. ASSUME NEW c \in Callers, CallClose(c) PROVE Endings'
  BY <1>19 DEF CallClose, Move
<1>20. CASE UNCHANGED vars
  BY <1>20 DEF vars
<1> HIDE DEF OneLoop, Endings
<1>21. CASE Server
  BY <1>21, <1>1, <1>2, <1>3, <1>4, <1>5 DEF Server
<1>22. CASE Pump
  BY <1>22, <1>6, <1>7, <1>8, <1>9, <1>11, <1>12 DEF Pump
<1>23. ASSUME NEW c \in Callers, User(c) \/ Choice(c) PROVE Endings'
  BY <1>23, <1>13, <1>14, <1>15, <1>16, <1>17, <1>18, <1>19 DEF User, Choice
<1> QED
  BY <1>10, <1>20, <1>21, <1>22, <1>23 DEF Next

\* The inductive invariant: one goroutine in the loop, the order of the defers,
\* one event in flight and how receiving ended (stream.go:60-152).
THEOREM Invariance == Spec => []IInv
<1>1. Init => IInv
  BY InitTypeOK DEF Init, IInv, OneLoop, Active, Teardown, OutClosed, Flow,
     Endings, NoSilentFailure
<1>2. IInv /\ [Next]_vars => IInv'
  BY TypeStep, OneLoopStep, TeardownStep, FlowStep, EndingsStep DEF IInv
<1> QED
  BY <1>1, <1>2, PTL DEF Spec

\* A loop that ends while the context lives ended cleanly only if the stream did,
\* and otherwise recorded an error (stream.go:73-79, 95-104, 117-120).
THEOREM FailuresAreSeen == Spec => []NoSilentFailure
<1>1. IInv => NoSilentFailure
  BY DEF IInv, Endings
<1> QED
  BY <1>1, Invariance, PTL

\* The subscription implements EventStream: mapping a frame to an event is Emit,
\* the rendezvous is Deliver, the end of the loop or of the first Close is End
\* (stream.go:59-104, 109-126).
LEMMA RefinementStep == IInv /\ [Next]_vars => [ES!Next]_(ES!vars)
<1> SUFFICES ASSUME IInv, [Next]_vars PROVE [ES!Next]_(ES!vars)
  OBVIOUS
<1> USE DEF ES!vars, stream, context, guards, history
<1>1. ASSUME UNCHANGED <<emitted, delivered>>, Over => Over'
      PROVE  [ES!Next]_(ES!vars)
  <2>1. CASE Over
    BY <1>1, <2>1 DEF Over
  <2>2. CASE ~Over /\ Over'
    BY <1>1, <2>2 DEF ES!Next, ES!End
  <2>3. CASE ~Over /\ ~Over'
    <3>1. Over' = Over
      BY <2>3 DEF Over
    <3> QED
      BY <1>1, <3>1
  <2> QED
    BY <2>1, <2>2, <2>3
<1>2. ASSUME UNCHANGED <<emitted, delivered, once, verdict>>
      PROVE  [ES!Next]_(ES!vars)
  BY <1>1, <1>2 DEF Over
<1>3. CASE MapFrame
  <2>1. CASE emitted' = emitted
    BY <1>2, <1>3, <2>1 DEF MapFrame
  <2>2. CASE emitted' # emitted
    <3>1. /\ emitted = Len(delivered) /\ emitted' = emitted + 1
          /\ UNCHANGED <<delivered, once, verdict>>
      BY <1>3, <2>2 DEF MapFrame, IInv, Flow
    <3>2. UNCHANGED Over
      BY <3>1 DEF Over
    <3> QED
      BY <3>1, <3>2 DEF ES!Next, ES!Emit
  <2> QED
    BY <2>1, <2>2
<1>4. ASSUME NEW c \in Callers, TakeEvent(c) PROVE [ES!Next]_(ES!vars)
  <2>1. /\ emitted = Len(delivered) + 1 /\ delivered' = Append(delivered, emitted)
        /\ UNCHANGED <<emitted, once, verdict>>
    BY <1>4 DEF TakeEvent, IInv, Flow
  <2>2. verdict = "none" /\ once # "done"
    BY <1>4 DEF TakeEvent, IInv, OneLoop, Active, Teardown
  <2>3. ~Over /\ UNCHANGED Over
    BY <2>1, <2>2 DEF Over
  <2>4. Len(delivered) \in Nat
    BY DEF IInv, TypeOK
  <2> QED
    BY <2>1, <2>3, <2>4 DEF ES!Next, ES!Deliver
<1>5. ASSUME NEW c \in Callers, TakeError(c) \/ SeeClosed(c) \/ Break(c)
      PROVE  [ES!Next]_(ES!vars)
  <2>1. UNCHANGED <<emitted, delivered>> /\ verdict' # "none"
    BY <1>5 DEF TakeError, SeeClosed, Break, LeaveLoop
  <2> QED
    BY <1>1, <2>1 DEF Over
<1>6. ASSUME NEW c \in Callers, CloseFirst(c) \/ CloseReturns(c)
      PROVE  [ES!Next]_(ES!vars)
  <2>1. /\ UNCHANGED <<emitted, delivered, verdict>>
        /\ once = "done" => once' = "done"
    BY <1>6 DEF CloseFirst, CloseReturns
  <2> QED
    BY <1>1, <2>1 DEF Over
<1>7. ASSUME NEW c \in Callers, BodyDone(c) \/ Range(c) \/ CallClose(c)
      PROVE  [ES!Next]_(ES!vars)
  BY <1>2, <1>7 DEF BodyDone, Range, CallClose
<1>8. CASE Server \/ ReceiveCancelled \/ GiveUp \/ Unwind \/ ParentEnds
  BY <1>2, <1>8 DEF Server, OpenStream, OpenFails, ReceiveFrame, ReceiveEOF,
     ReceiveFails, ReceiveCancelled, FailWith, GiveUp, Unwind, ParentEnds
<1>9. CASE UNCHANGED vars
  BY <1>2, <1>9 DEF vars
<1> QED
  BY <1>3, <1>4, <1>5, <1>6, <1>7, <1>8, <1>9 DEF Next, Pump, User, Choice

THEOREM Refinement == Spec => ImplementsEventStream
<1>1. Init => ES!Init
  BY DEF Init, ES!Init, Over
<1> QED
  BY <1>1, RefinementStep, Invariance, PTL DEF Spec, ImplementsEventStream, ES!Spec
==============================================================================
