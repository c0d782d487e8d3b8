--------------------------- MODULE ResumableProofs ---------------------------
(***************************************************************************)
(* Theorems about Resumable, for every log, chat, back-off, number of      *)
(* failures and number of restarts.                                         *)
(***************************************************************************)
EXTENDS Resumable, FiniteSetTheorems, TLAPS


\* TypeOK is inductive.
LEMMA TypeStep == TypeOK /\ [Next]_vars => TypeOK'
<1> SUFFICES ASSUME TypeOK, [Next]_vars PROVE TypeOK'
  OBVIOUS
<1> USE DEF TypeOK, EngineStates, ConsumerStates, durable, progress, reader,
            caller, history, bounds
<1>1. CASE AppendEvent
  BY <1>1, BackoffAssumption DEF AppendEvent
<1>2. CASE StreamEnds
  <2>1. failures' \in Nat /\ pc' = "sleep"
    BY <1>2 DEF StreamEnds
  <2>2. stalled' \in BOOLEAN /\ UNCHANGED <<durable, phase, progress, pos, head,
                      cancelled, caller, history, restarts>>
    BY <1>2 DEF StreamEnds
  <2> QED
    BY <2>1, <2>2
<1>3. CASE StreamStalls
  BY <1>3, BackoffAssumption DEF StreamStalls
<1>4. CASE KeepaliveTeardown
  BY <1>4, BackoffAssumption DEF KeepaliveTeardown
<1>5. CASE Load
  BY <1>5, BackoffAssumption DEF Load
<1>6. CASE LoadError
  BY <1>6, BackoffAssumption DEF LoadError
<1>7. CASE SendError
  BY <1>7, BackoffAssumption DEF SendError
<1>8. CASE OpenCatchUp
  BY <1>8, BackoffAssumption DEF OpenCatchUp
<1>9. CASE RecvCatchUp
  BY <1>9, BackoffAssumption DEF RecvCatchUp
<1>10. CASE RecvComplete
  BY <1>10, BackoffAssumption DEF RecvComplete, Persist
<1>11. CASE OpenLive
  BY <1>11, BackoffAssumption DEF OpenLive
<1>12. CASE RecvLive
  BY <1>12, BackoffAssumption DEF RecvLive
<1>13. CASE Send
  BY <1>13, BackoffAssumption DEF Send, SeqOf
<1>14. CASE Save
  BY <1>14, BackoffAssumption DEF Save, Persist, SeqOf
<1>15. CASE Wake
  BY <1>15, BackoffAssumption DEF Wake, NextBackoff
<1>16. CASE Stop
  BY <1>16, BackoffAssumption DEF Stop
<1>17. CASE StartRange
  BY <1>17, BackoffAssumption DEF StartRange
<1>18. CASE RangeAgain
  BY <1>18, BackoffAssumption DEF RangeAgain
<1>19. CASE BodyDone
  BY <1>19, BackoffAssumption DEF BodyDone
<1>20. CASE Break
  BY <1>20, BackoffAssumption DEF Break
<1>21. CASE SeeClosed
  BY <1>21, BackoffAssumption DEF SeeClosed
<1>22. CASE CloseUnread
  BY <1>22, BackoffAssumption DEF CloseUnread
<1>23. CASE CloseReturns
  BY <1>23, BackoffAssumption DEF CloseReturns
<1>24. CASE Cancel
  BY <1>24, BackoffAssumption DEF Cancel
<1>25. CASE Restart
  <2>1. restarts' \in Nat /\ backoff' \in Nat \ {0}
    BY <1>25, BackoffAssumption DEF Restart
  <2>2. /\ pc' = "load" /\ phase' = "catchUp" /\ consumer' = "idle"
        /\ cursor' = 0 /\ pos' = 0 /\ head' = 0 /\ held' = 0 /\ err' = "none"
        /\ stalled' \in BOOLEAN /\ cancelled' \in BOOLEAN
        /\ UNCHANGED <<log, stored, handed, processed, failures>>
    BY <1>25 DEF Restart
  <2> QED
    BY <2>1, <2>2
<1>26. CASE UNCHANGED vars
  BY <1>26 DEF vars
<1> HIDE DEF TypeOK
<1>27. CASE Engine
  BY <1>27, <1>4, <1>5, <1>6, <1>7, <1>8, <1>9, <1>10, <1>11, <1>12, <1>13,
     <1>14, <1>15, <1>16 DEF Engine
<1>28. CASE Consumer
  BY <1>28, <1>17, <1>19, <1>21, <1>23 DEF Consumer
<1>29. CASE Environment
  BY <1>29, <1>1, <1>2, <1>3, <1>18, <1>20, <1>22, <1>24, <1>25, <1>26
     DEF Environment, Closed
<1> QED
  BY <1>26, <1>27, <1>28, <1>29 DEF Next

LEMMA InitTypeOK == Init => TypeOK
<1> SUFFICES ASSUME Init PROVE TypeOK
  OBVIOUS
<1>1. log \in Seq(Entries) /\ Len(log) = 0
  BY DEF Init
<1>2. handed \subseteq 1..Len(log) /\ processed \subseteq 1..Len(log)
  BY DEF Init
<1>3. stalled \in BOOLEAN /\ cancelled \in BOOLEAN
  BY DEF Init
<1> QED
  BY <1>1, <1>2, <1>3, BackoffAssumption
     DEF Init, TypeOK, EngineStates, ConsumerStates

\* The variables keep their types: every position stays inside the log
\* (resumable.go:103-221).
THEOREM TypeCorrect == Spec => []TypeOK
  BY InitTypeOK, TypeStep, PTL DEF Spec

\* The part of TypeOK the arguments below need: positions inside the log.
LEMMA Positions ==
    TypeOK => /\ Len(log) \in Nat
              /\ stored \in 0..Len(log) /\ cursor \in 0..Len(log)
              /\ pos \in 0..Len(log) /\ head \in 0..Len(log)
              /\ held \in 0..Len(log)
              /\ pc \in {"send", "save"} => pos > 0
  BY DEF TypeOK

-----------------------------------------------------------------------------
(* Replay never rewinds the cursor, whatever the server does.              *)

LEMMA ReadingStep == TypeOK /\ Reading /\ [Next]_vars => Reading'
<1> SUFFICES ASSUME TypeOK, Reading, [Next]_vars PROVE Reading'
  OBVIOUS
<1> USE Positions DEF Reading, durable, progress, reader, caller, history, bounds
<1>1. CASE AppendEvent
  BY <1>1 DEF AppendEvent
<1>2. CASE StreamEnds
  BY <1>2 DEF StreamEnds
<1>3. CASE StreamStalls
  BY <1>3 DEF StreamStalls
<1>4. CASE KeepaliveTeardown
  BY <1>4 DEF KeepaliveTeardown
<1>5. CASE Load
  BY <1>5 DEF Load
<1>6. CASE LoadError
  BY <1>6 DEF LoadError
<1>7. CASE SendError
  BY <1>7 DEF SendError
<1>8. CASE OpenCatchUp
  BY <1>8 DEF OpenCatchUp
<1>9. CASE RecvCatchUp
  BY <1>9 DEF RecvCatchUp
<1>10. CASE RecvComplete
  BY <1>10 DEF RecvComplete, Persist
<1>11. CASE OpenLive
  BY <1>11 DEF OpenLive
<1>12. CASE RecvLive
  BY <1>12 DEF RecvLive
<1>13. CASE Send
  BY <1>13 DEF Send, SeqOf
<1>14. CASE Save
  BY <1>14 DEF Save, Persist, SeqOf
<1>15. CASE Wake
  BY <1>15 DEF Wake, NextBackoff
<1>16. CASE Stop
  BY <1>16 DEF Stop
<1>17. CASE StartRange
  BY <1>17 DEF StartRange
<1>18. CASE RangeAgain
  BY <1>18 DEF RangeAgain
<1>19. CASE BodyDone
  BY <1>19 DEF BodyDone
<1>20. CASE Break
  BY <1>20 DEF Break
<1>21. CASE SeeClosed
  BY <1>21 DEF SeeClosed
<1>22. CASE CloseUnread
  BY <1>22 DEF CloseUnread
<1>23. CASE CloseReturns
  BY <1>23 DEF CloseReturns
<1>24. CASE Cancel
  BY <1>24 DEF Cancel
<1>25. CASE Restart
  BY <1>25 DEF Restart
<1>26. CASE UNCHANGED vars
  BY <1>26 DEF vars
<1> HIDE DEF Reading
<1>27. CASE Engine
  BY <1>27, <1>4, <1>5, <1>6, <1>7, <1>8, <1>9, <1>10, <1>11, <1>12, <1>13,
     <1>14, <1>15, <1>16 DEF Engine
<1>28. CASE Consumer
  BY <1>28, <1>17, <1>19, <1>21, <1>23 DEF Consumer
<1>29. CASE Environment
  BY <1>29, <1>1, <1>2, <1>3, <1>18, <1>20, <1>22, <1>24, <1>25, <1>26
     DEF Environment, Closed
<1> QED
  BY <1>26, <1>27, <1>28, <1>29 DEF Next

\* Only RecvComplete and Save move the cursor of a replay; the first compares
\* with the head, the second saves a position read after the cursor.
LEMMA RewindStep ==
    TypeOK /\ Reading /\ [Next]_vars
        => (phase = "catchUp" /\ pc # "load" /\ pc' # "load" => cursor' >= cursor)
<1> SUFFICES ASSUME TypeOK, Reading, [Next]_vars, phase = "catchUp",
                    pc # "load", pc' # "load"
             PROVE  cursor' >= cursor
  OBVIOUS
<1> USE Positions DEF durable, progress, reader, caller, history, bounds
<1>1. CASE AppendEvent
  BY <1>1 DEF AppendEvent
<1>2. CASE StreamEnds
  BY <1>2 DEF StreamEnds
<1>3. CASE StreamStalls
  BY <1>3 DEF StreamStalls
<1>4. CASE KeepaliveTeardown
  BY <1>4 DEF KeepaliveTeardown
<1>5. CASE Load
  BY <1>5 DEF Load
<1>6. CASE LoadError
  BY <1>6 DEF LoadError
<1>7. CASE SendError
  BY <1>7 DEF SendError
<1>8. CASE OpenCatchUp
  BY <1>8 DEF OpenCatchUp
<1>9. CASE RecvCatchUp
  BY <1>9 DEF RecvCatchUp
<1>10. CASE RecvComplete
  BY <1>10 DEF RecvComplete, Persist
<1>11. CASE OpenLive
  BY <1>11 DEF OpenLive
<1>12. CASE RecvLive
  BY <1>12 DEF RecvLive
<1>13. CASE Send
  BY <1>13 DEF Send, SeqOf
<1>14. CASE Save
  BY <1>14 DEF Save, Reading, SeqOf
<1>15. CASE Wake
  BY <1>15 DEF Wake, NextBackoff
<1>16. CASE Stop
  BY <1>16 DEF Stop
<1>17. CASE StartRange
  BY <1>17 DEF StartRange
<1>18. CASE RangeAgain
  BY <1>18 DEF RangeAgain
<1>19. CASE BodyDone
  BY <1>19 DEF BodyDone
<1>20. CASE Break
  BY <1>20 DEF Break
<1>21. CASE SeeClosed
  BY <1>21 DEF SeeClosed
<1>22. CASE CloseUnread
  BY <1>22 DEF CloseUnread
<1>23. CASE CloseReturns
  BY <1>23 DEF CloseReturns
<1>24. CASE Cancel
  BY <1>24 DEF Cancel
<1>25. CASE Restart
  BY <1>25 DEF Restart
<1>26. CASE UNCHANGED vars
  BY <1>26 DEF vars
<1>27. CASE Engine
  BY <1>27, <1>4, <1>5, <1>6, <1>7, <1>8, <1>9, <1>10, <1>11, <1>12, <1>13,
     <1>14, <1>15, <1>16 DEF Engine
<1>28. CASE Consumer
  BY <1>28, <1>17, <1>19, <1>21, <1>23 DEF Consumer
<1>29. CASE Environment
  BY <1>29, <1>1, <1>2, <1>3, <1>18, <1>20, <1>22, <1>24, <1>25, <1>26
     DEF Environment, Closed
<1> QED
  BY <1>26, <1>27, <1>28, <1>29 DEF Next

\* While history is replayed the cursor never moves back (resumable.go:158-175),
\* for every server, store and number of failures.
THEOREM ReplayMovesForward == Spec => CatchUpNeverRewinds
<1>1. Init => TypeOK /\ Reading
  BY InitTypeOK DEF Init, Reading
<1>2. TypeOK /\ Reading /\ [Next]_vars => (TypeOK /\ Reading)'
  BY TypeStep, ReadingStep
<1>3. TypeOK /\ Reading /\ [Next]_vars
        => [phase = "catchUp" /\ pc # "load" /\ pc' # "load" => cursor' >= cursor]_vars
  BY RewindStep
<1> QED
  BY <1>1, <1>2, <1>3, PTL DEF Spec, CatchUpNeverRewinds

-----------------------------------------------------------------------------
(* No gap, when live streams start where the server promises.              *)

\* Send extends handed by the one event it reads; every other step moves a
\* cursor or the reading position only over what is covered or unwanted.
LEMMA InvStep == ContiguousAttach /\ IInv /\ [Next]_vars => IInv'
<1> SUFFICES ASSUME ContiguousAttach, IInv, [Next]_vars PROVE IInv'
  OBVIOUS
<1>a. TypeOK' /\ Reading'
  BY TypeStep, ReadingStep DEF IInv
<1> SUFFICES NoGap' /\ Coverage'
  BY <1>a DEF IInv
<1> USE Positions DEF IInv, NoGap, Coverage, Reading, GapFreeTo, Wanted,
                      durable, progress, reader, caller, history, bounds
<1>1. CASE AppendEvent
  BY <1>1 DEF AppendEvent
<1>2. CASE StreamEnds
  BY <1>2 DEF StreamEnds
<1>3. CASE StreamStalls
  BY <1>3 DEF StreamStalls
<1>4. CASE KeepaliveTeardown
  BY <1>4 DEF KeepaliveTeardown
<1>5. CASE Load
  BY <1>5 DEF Load
<1>6. CASE LoadError
  BY <1>6 DEF LoadError
<1>7. CASE SendError
  BY <1>7 DEF SendError
<1>8. CASE OpenCatchUp
  BY <1>8 DEF OpenCatchUp
<1>9. CASE RecvCatchUp
  BY <1>9 DEF RecvCatchUp
<1>10. CASE RecvComplete
  BY <1>10 DEF RecvComplete, Persist
<1>11. CASE OpenLive
  BY <1>11 DEF OpenLive
<1>12. CASE RecvLive
  BY <1>12 DEF RecvLive
<1>13. CASE Send
  BY <1>13 DEF Send, SeqOf
<1>14. CASE Save
  BY <1>14 DEF Save, Persist, SeqOf
<1>15. CASE Wake
  BY <1>15 DEF Wake, NextBackoff
<1>16. CASE Stop
  BY <1>16 DEF Stop
<1>17. CASE StartRange
  BY <1>17 DEF StartRange
<1>18. CASE RangeAgain
  BY <1>18 DEF RangeAgain
<1>19. CASE BodyDone
  BY <1>19 DEF BodyDone
<1>20. CASE Break
  BY <1>20 DEF Break
<1>21. CASE SeeClosed
  BY <1>21 DEF SeeClosed
<1>22. CASE CloseUnread
  BY <1>22 DEF CloseUnread
<1>23. CASE CloseReturns
  BY <1>23 DEF CloseReturns
<1>24. CASE Cancel
  BY <1>24 DEF Cancel
<1>25. CASE Restart
  BY <1>25 DEF Restart
<1>26. CASE UNCHANGED vars
  BY <1>26 DEF vars
<1> HIDE DEF NoGap, Coverage
<1>27. CASE Engine
  BY <1>27, <1>4, <1>5, <1>6, <1>7, <1>8, <1>9, <1>10, <1>11, <1>12, <1>13,
     <1>14, <1>15, <1>16 DEF Engine
<1>28. CASE Consumer
  BY <1>28, <1>17, <1>19, <1>21, <1>23 DEF Consumer
<1>29. CASE Environment
  BY <1>29, <1>1, <1>2, <1>3, <1>18, <1>20, <1>22, <1>24, <1>25, <1>26
     DEF Environment, Closed
<1> QED
  BY <1>26, <1>27, <1>28, <1>29 DEF Next

\* The inductive invariant: what the reading position covers at each place of the
\* engine's loop (resumable.go:119-203), for every log, failure and crash.
THEOREM Invariance == ASSUME ContiguousAttach PROVE Spec => []IInv
<1>1. Init => IInv
  BY InitTypeOK DEF Init, IInv, NoGap, Reading, Coverage, GapFreeTo
<1> QED
  BY <1>1, InvStep, PTL DEF Spec

\* No cursor ever passes a wanted event that was not handed over
\* (resumable.go:11-13), for every log, crash and failure.
THEOREM GapFree == ASSUME ContiguousAttach PROVE Spec => []NoGap
<1>1. IInv => NoGap
  BY DEF IInv
<1> QED
  BY <1>1, Invariance, PTL

\* The engine implements DurableDelivery (resumable.go:43-48): an append is an
\* append, a hand-off a hand-off, a save or a crossed head a commit.
LEMMA RefinementStep ==
    IInv /\ IInv' /\ [Next]_vars => [DD!Next]_(DD!vars)
<1> SUFFICES ASSUME IInv, IInv', [Next]_vars PROVE [DD!Next]_(DD!vars)
  OBVIOUS
<1> USE DEF DD!vars, durable, progress, reader, caller, history, bounds
<1>1. CASE AppendEvent
  BY <1>1 DEF AppendEvent, DD!Next, DD!Append1
<1>13. CASE Send
  <2>1. pos \in 1..Len(log) /\ log[pos] \in {e \in Entries : Wanted(e)}
    BY <1>13, Positions DEF IInv, TypeOK, Coverage, Send
  <2> QED
    BY <1>13, <2>1 DEF Send, DD!Next, DD!Hand
<1>a. ASSUME log' = log, handed' = handed PROVE DD!Next \/ UNCHANGED DD!vars
  <2>1. stored' \in 0..Len(log) /\ GapFreeTo(stored)'
    BY <1>a, Positions DEF IInv, NoGap, TypeOK
  <2>2. DD!CoveredTo(stored')
    BY <2>1, <1>a DEF DD!CoveredTo, GapFreeTo
  <2> QED
    BY <1>a, <2>1, <2>2 DEF DD!Next, DD!Commit
<1>b. CASE Engine /\ ~Send
  BY <1>a, <1>b DEF Engine, Load, LoadError, SendError, OpenCatchUp, RecvCatchUp,
     RecvComplete, OpenLive, RecvLive, Save, KeepaliveTeardown, Wake, Stop
<1>c. CASE Consumer
  BY <1>a, <1>c DEF Consumer, StartRange, BodyDone, SeeClosed, CloseReturns
<1>d. CASE Environment /\ ~AppendEvent
  BY <1>a, <1>d DEF Environment, StreamEnds, StreamStalls, RangeAgain, Break,
     CloseUnread, Cancel, Restart, Closed, vars
<1>e. CASE UNCHANGED vars
  BY <1>e DEF vars
<1> QED
  BY <1>1, <1>13, <1>b, <1>c, <1>d, <1>e DEF Next

THEOREM Refinement == ASSUME ContiguousAttach PROVE Spec => ImplementsDurableDelivery
<1>1. Init => DD!Init
  BY DEF Init, DD!Init
<1> QED
  BY <1>1, RefinementStep, Invariance, PTL DEF Spec, ImplementsDurableDelivery, DD!Spec

-----------------------------------------------------------------------------
(* Endings and back-off.                                                   *)

\* The engine returns only once the context is cancelled: no sequence of broken
\* streams ends it (resumable.go:120-147).
THEOREM KeepsGoing == Spec => []NeverGivesUp
<1>1. Init => NeverGivesUp
  BY DEF Init, NeverGivesUp
<1>2. NeverGivesUp /\ [Next]_vars => NeverGivesUp'
  <2> SUFFICES ASSUME NeverGivesUp, [Next]_vars PROVE NeverGivesUp'
    OBVIOUS
  <2> USE DEF NeverGivesUp
  <2>1. CASE Engine
    BY <2>1 DEF Engine, Load, LoadError, SendError, OpenCatchUp, RecvCatchUp,
       RecvComplete, OpenLive, RecvLive, Send, Save, KeepaliveTeardown, Wake, Stop
  <2>2. CASE Consumer
    BY <2>2 DEF Consumer, StartRange, BodyDone, SeeClosed, CloseReturns
  <2>3. CASE Environment
    BY <2>3 DEF Environment, AppendEvent, StreamEnds, StreamStalls, RangeAgain,
       Break, CloseUnread, Cancel, Restart, Closed, vars
  <2>4. CASE UNCHANGED vars
    BY <2>4 DEF vars
  <2> QED
    BY <2>1, <2>2, <2>3, <2>4 DEF Next
<1> QED
  BY <1>1, <1>2, PTL DEF Spec

\* Every sleep lies between the bounds when the bounds are in order
\* (resumable.go:271-286); nothing in the code puts them in order.
THEOREM BackoffInBounds ==
    ASSUME MinBackoff <= MaxBackoff PROVE Spec => []BackoffBounded
<1> DEFINE B == backoff \in MinBackoff..MaxBackoff
<1>1. Init => B
  BY BackoffAssumption DEF Init
<1>2. B /\ [Next]_vars => B'
  <2> SUFFICES ASSUME B, [Next]_vars PROVE B'
    OBVIOUS
  <2>1. backoff' \in {backoff, MinBackoff, NextBackoff}
    <3> USE DEF progress
    <3>1. CASE Engine
      BY <3>1 DEF Engine, Load, LoadError, SendError, OpenCatchUp, RecvCatchUp,
         RecvComplete, OpenLive, RecvLive, Send, Save, KeepaliveTeardown, Wake,
         Stop
    <3>2. CASE Consumer
      BY <3>2 DEF Consumer, StartRange, BodyDone, SeeClosed, CloseReturns
    <3>3. CASE Environment
      BY <3>3 DEF Environment, AppendEvent, StreamEnds, StreamStalls, RangeAgain,
         Break, CloseUnread, Cancel, Restart, Closed, vars
    <3>4. CASE UNCHANGED vars
      BY <3>4 DEF vars
    <3> QED
      BY <3>1, <3>2, <3>3, <3>4 DEF Next
  <2> QED
    BY <2>1, BackoffAssumption DEF NextBackoff
<1>3. B => BackoffBounded
  BY DEF BackoffBounded
<1> QED
  BY <1>1, <1>2, <1>3, PTL DEF Spec

-----------------------------------------------------------------------------
(* Close leaves nothing unsaved when saves succeed.                        *)

\* The engine's cursor is the stored one, and the event handed over last is
\* saved or about to be.
SaveInv ==
    /\ pc \notin {"load", "sendErr", "done"} => stored = cursor
    /\ pc = "save" => pos = held
    /\ pc \in {"load", "sendErr"} => held = 0
    /\ held > 0 /\ SeqOf(held) > 0 => pc = "save" \/ stored >= held
    /\ consumer = "ended" => pc = "done"

LEMMA SaveStep ==
    SaveFails = "never" /\ TypeOK /\ Reading /\ SaveInv /\ [Next]_vars => SaveInv'
<1> SUFFICES ASSUME SaveFails = "never", TypeOK, Reading, SaveInv, [Next]_vars
             PROVE  SaveInv'
  OBVIOUS
<1> USE Positions DEF SaveInv, Reading, SeqOf, durable, progress, reader, caller, history, bounds
<1>1. CASE AppendEvent
  BY <1>1 DEF AppendEvent
<1>2. CASE StreamEnds
  BY <1>2 DEF StreamEnds
<1>3. CASE StreamStalls
  BY <1>3 DEF StreamStalls
<1>4. CASE KeepaliveTeardown
  BY <1>4 DEF KeepaliveTeardown
<1>5. CASE Load
  BY <1>5 DEF Load
<1>6. CASE LoadError
  BY <1>6 DEF LoadError
<1>7. CASE SendError
  BY <1>7 DEF SendError
<1>8. CASE OpenCatchUp
  BY <1>8 DEF OpenCatchUp
<1>9. CASE RecvCatchUp
  BY <1>9 DEF RecvCatchUp
<1>10. CASE RecvComplete
  BY <1>10 DEF RecvComplete, Persist
<1>11. CASE OpenLive
  BY <1>11 DEF OpenLive
<1>12. CASE RecvLive
  BY <1>12 DEF RecvLive
<1>13. CASE Send
  BY <1>13 DEF Send
<1>14. CASE Save
  BY <1>14 DEF Save, Persist
<1>15. CASE Wake
  BY <1>15 DEF Wake
<1>16. CASE Stop
  BY <1>16 DEF Stop
<1>17. CASE StartRange
  BY <1>17 DEF StartRange
<1>18. CASE RangeAgain
  BY <1>18 DEF RangeAgain
<1>19. CASE BodyDone
  BY <1>19 DEF BodyDone
<1>20. CASE Break
  BY <1>20 DEF Break
<1>21. CASE SeeClosed
  BY <1>21 DEF SeeClosed
<1>22. CASE CloseUnread
  BY <1>22 DEF CloseUnread
<1>23. CASE CloseReturns
  BY <1>23 DEF CloseReturns
<1>24. CASE Cancel
  BY <1>24 DEF Cancel
<1>25. CASE Restart
  BY <1>25 DEF Restart
<1>26. CASE UNCHANGED vars
  BY <1>26 DEF vars
<1> HIDE DEF SaveInv
<1>27. CASE Engine
  BY <1>27, <1>4, <1>5, <1>6, <1>7, <1>8, <1>9, <1>10, <1>11, <1>12, <1>13,
     <1>14, <1>15, <1>16 DEF Engine
<1>28. CASE Consumer
  BY <1>28, <1>17, <1>19, <1>21, <1>23 DEF Consumer
<1>29. CASE Environment
  BY <1>29, <1>1, <1>2, <1>3, <1>18, <1>20, <1>22, <1>24, <1>25, <1>26
     DEF Environment, Closed
<1> QED
  BY <1>26, <1>27, <1>28, <1>29 DEF Next

\* When Close has returned, the store covers the last sequenced event handed
\* over (resumable.go:258-265), also with lagging heads, crashes and any attach
\* position: what matters is that Save precedes done and Close waits for done.
THEOREM CloseSaves == ASSUME SaveFails = "never" PROVE Spec => []SavedOnClose
<1>1. Init => TypeOK /\ Reading /\ SaveInv
  BY InitTypeOK DEF Init, Reading, SaveInv
<1>2. TypeOK /\ Reading /\ SaveInv /\ [Next]_vars => (TypeOK /\ Reading /\ SaveInv)'
  BY TypeStep, ReadingStep, SaveStep
<1>3. SaveInv => SavedOnClose
  BY DEF SaveInv, SavedOnClose
<1> QED
  BY <1>1, <1>2, <1>3, PTL DEF Spec

-----------------------------------------------------------------------------
(* A crash costs at most the event whose body is running.                  *)

\* The event whose loop body is running, and the other events that were handed
\* over and whose bodies never finished.
Running == IF consumer = "body" THEN {held} ELSE {}
Unfinished == (handed \ processed) \ Running
LostInv == Cardinality(Unfinished) <= restarts

\* The sets that are counted are finite.
LEMMA FiniteHanded == TypeOK => IsFiniteSet(handed) /\ restarts \in Nat
<1> SUFFICES ASSUME TypeOK PROVE IsFiniteSet(handed)
  BY DEF TypeOK
<1>1. handed \in SUBSET (1..Len(log)) /\ 1 \in Int /\ Len(log) \in Int
  BY Positions DEF TypeOK
<1>2. IsFiniteSet(1..Len(log))
  BY <1>1, FS_Interval
<1> QED
  BY <1>1, <1>2, FS_Subset

\* Only a crash leaves an unfinished event behind: a hand-off, a finished body
\* and a break change handed, processed and the running body together.
LEMMA UnfinishedStep ==
    ASSUME TypeOK, [Next]_vars
    PROVE  \/ Unfinished' \subseteq Unfinished /\ restarts' = restarts
           \/ Unfinished' \subseteq Unfinished \cup {held} /\ restarts' = restarts + 1
<1> USE DEF Unfinished, Running, durable, progress, reader, caller, history, bounds
<1>1. CASE Engine
  <2>1. CASE Send
    BY <2>1 DEF Send
  <2>2. CASE Load \/ LoadError \/ SendError \/ OpenCatchUp \/ RecvCatchUp \/ RecvComplete
    BY <2>2 DEF Load, LoadError, SendError, OpenCatchUp, RecvCatchUp, RecvComplete
  <2>3. CASE OpenLive \/ RecvLive \/ Save \/ KeepaliveTeardown \/ Wake \/ Stop
    BY <2>3 DEF OpenLive, RecvLive, Save, KeepaliveTeardown, Wake, Stop
  <2> QED
    BY <1>1, <2>1, <2>2, <2>3 DEF Engine
<1>2. CASE Consumer
  BY <1>2 DEF Consumer, StartRange, BodyDone, SeeClosed, CloseReturns
<1>3. CASE Environment
  BY <1>3 DEF Environment, AppendEvent, StreamEnds, StreamStalls, RangeAgain,
     Break, CloseUnread, Cancel, Restart, Closed, vars
<1>4. CASE UNCHANGED vars
  BY <1>4 DEF vars
<1> QED
  BY <1>1, <1>2, <1>3, <1>4 DEF Next

LEMMA AddOne ==
    ASSUME NEW S, NEW x, IsFiniteSet(S)
    PROVE  /\ IsFiniteSet(S \cup {x})
           /\ Cardinality(S \cup {x}) <= Cardinality(S) + 1
<1>1. Cardinality(S) \in Nat
  BY FS_CardinalityType
<1>2. /\ IsFiniteSet(S \cup {x})
      /\ Cardinality(S \cup {x}) = IF x \in S THEN Cardinality(S) ELSE Cardinality(S) + 1
  BY FS_AddElement
<1>3. CASE x \in S
  BY <1>1, <1>2, <1>3
<1>4. CASE x \notin S
  BY <1>1, <1>2, <1>4
<1> QED
  BY <1>3, <1>4

LEMMA LostStep == TypeOK /\ LostInv /\ [Next]_vars => LostInv'
<1> SUFFICES ASSUME TypeOK, LostInv, [Next]_vars PROVE LostInv'
  OBVIOUS
<1>1. IsFiniteSet(Unfinished) /\ Cardinality(Unfinished) \in Nat
  <2>1. Unfinished \in SUBSET handed
    BY DEF Unfinished
  <2> QED
    BY <2>1, FiniteHanded, FS_Subset, FS_CardinalityType
<1>2. restarts \in Nat /\ Cardinality(Unfinished) <= restarts
  BY FiniteHanded DEF LostInv
<1>3. CASE Unfinished' \subseteq Unfinished /\ restarts' = restarts
  <2>1. Unfinished' \in SUBSET Unfinished
    BY <1>3
  <2>2. IsFiniteSet(Unfinished') /\ Cardinality(Unfinished') <= Cardinality(Unfinished)
    BY <1>1, <2>1, FS_Subset
  <2>3. Cardinality(Unfinished') \in Nat
    BY <2>2, FS_CardinalityType
  <2> QED
    BY <1>1, <1>2, <1>3, <2>2, <2>3 DEF LostInv
<1>4. CASE Unfinished' \subseteq Unfinished \cup {held} /\ restarts' = restarts + 1
  <2>1. /\ IsFiniteSet(Unfinished \cup {held})
        /\ Cardinality(Unfinished \cup {held}) <= Cardinality(Unfinished) + 1
    BY <1>1, AddOne
  <2>2. Unfinished' \in SUBSET (Unfinished \cup {held})
    BY <1>4
  <2>3. /\ IsFiniteSet(Unfinished')
        /\ Cardinality(Unfinished') <= Cardinality(Unfinished \cup {held})
    BY <2>1, <2>2, FS_Subset
  <2>4. Cardinality(Unfinished') \in Nat /\ Cardinality(Unfinished \cup {held}) \in Nat
    BY <2>1, <2>3, FS_CardinalityType
  <2> QED
    BY <1>1, <1>2, <1>4, <2>1, <2>3, <2>4 DEF LostInv
<1> QED
  BY <1>3, <1>4, UnfinishedStep

\* Under the server's promise the store covers at most one unfinished event per
\* crash, and the one whose loop body is running: Save does not wait for the
\* body (resumable.go:169-175, 194-200).
THEOREM LostPerCrash ==
    ASSUME ContiguousAttach PROVE Spec => []AtMostOneLostPerCrash
<1>1. Init => LostInv
  BY FS_EmptySet DEF Init, LostInv, Unfinished, Running
<1>2. IInv /\ LostInv => AtMostOneLostPerCrash
  <2> SUFFICES ASSUME IInv, LostInv PROVE AtMostOneLostPerCrash
    OBVIOUS
  <2> DEFINE L == {s \in 1..stored : Wanted(log[s]) /\ s \notin processed}
  <2>1. L \in SUBSET (handed \ processed)
    BY DEF IInv, NoGap, GapFreeTo
  <2>2. IsFiniteSet(handed \ processed) /\ restarts \in Nat
    BY FiniteHanded, FS_Subset DEF IInv
  <2>3. Cardinality(L) \in Nat /\ Cardinality(L) <= Cardinality(handed \ processed)
    BY <2>1, <2>2, FS_Subset, FS_CardinalityType
  <2>4. IsFiniteSet(Unfinished) /\ Cardinality(Unfinished) \in Nat
    BY <2>2, FS_Subset, FS_CardinalityType DEF Unfinished
  <2>5. CASE consumer = "body"
    <3>1. handed \ processed \in SUBSET (Unfinished \cup {held})
      BY <2>5 DEF Unfinished, Running
    <3>2. /\ IsFiniteSet(Unfinished \cup {held})
          /\ Cardinality(Unfinished \cup {held}) <= Cardinality(Unfinished) + 1
      BY <2>4, AddOne
    <3>3. Cardinality(handed \ processed) <= Cardinality(Unfinished \cup {held})
      BY <3>1, <3>2, FS_Subset
    <3>4. Cardinality(handed \ processed) \in Nat /\ Cardinality(Unfinished \cup {held}) \in Nat
      BY <2>2, <3>2, FS_CardinalityType
    <3> QED
      BY <2>2, <2>3, <2>4, <2>5, <3>2, <3>3, <3>4 DEF AtMostOneLostPerCrash, LostInv
  <2>6. CASE consumer # "body"
    <3>1. Unfinished = handed \ processed
      BY <2>6 DEF Unfinished, Running
    <3> QED
      BY <2>2, <2>3, <2>4, <2>6, <3>1 DEF AtMostOneLostPerCrash, LostInv
  <2> QED
    BY <2>5, <2>6
<1> QED
  BY <1>1, <1>2, TypeCorrect, Invariance, LostStep, PTL DEF Spec

-----------------------------------------------------------------------------
(* Order within a session, when no catch-up reports a lagging head.        *)

Sequenced(s) == Wanted(log[s]) /\ log[s].sequenced

\* Every sequenced event handed over is covered by the engine's cursor or about
\* to be, and the open stream has passed none beyond it.
OrderInv ==
    /\ pc \in {"load", "sendErr"} => held = 0
    /\ \A s \in 1..held : Sequenced(s) => s <= cursor \/ (pc = "save" /\ s = pos)
    /\ pc \in {"recv", "send", "save"} =>
         /\ cursor <= pos
         /\ phase = "catchUp" => pos <= head
    /\ pc = "recv" => \A s \in cursor + 1..pos : ~Sequenced(s)
    /\ pc \in {"send", "save"} => \A s \in cursor + 1..pos - 1 : ~Sequenced(s)
    /\ pc = "send" => cursor < pos /\ Wanted(log[pos])
    /\ pc = "attach" => head = cursor

LEMMA OrderStep ==
    ContiguousAttach /\ MaxLag = 0 /\ TypeOK /\ Reading /\ OrderInv /\ [Next]_vars
        => OrderInv'
<1> SUFFICES ASSUME ContiguousAttach, MaxLag = 0, TypeOK, Reading, OrderInv, [Next]_vars
             PROVE OrderInv'
  OBVIOUS
<1> USE Positions DEF OrderInv, Reading, Sequenced, Wanted,
                      durable, progress, reader, caller, history, bounds
<1>1. CASE AppendEvent
  BY <1>1 DEF AppendEvent
<1>2. CASE StreamEnds
  BY <1>2 DEF StreamEnds
<1>3. CASE StreamStalls
  BY <1>3 DEF StreamStalls
<1>4. CASE KeepaliveTeardown
  BY <1>4 DEF KeepaliveTeardown
<1>5. CASE Load
  BY <1>5 DEF Load
<1>6. CASE LoadError
  BY <1>6 DEF LoadError
<1>7. CASE SendError
  BY <1>7 DEF SendError
<1>8. CASE OpenCatchUp
  BY <1>8 DEF OpenCatchUp
<1>9. CASE RecvCatchUp
  BY <1>9 DEF RecvCatchUp
<1>10. CASE RecvComplete
  BY <1>10 DEF RecvComplete, Persist
<1>11. CASE OpenLive
  BY <1>11 DEF OpenLive
<1>12. CASE RecvLive
  <2>1. PICK s \in pos + 1..Len(log) :
          /\ Wanted(log[s]) /\ pos' = s
          /\ \A t \in pos + 1..s - 1 : ~Wanted(log[t])
    BY <1>12 DEF RecvLive
  <2>2. /\ pc = "recv" /\ phase = "live" /\ pc' = "send" /\ cursor \in Nat /\ pos \in Nat
        /\ UNCHANGED <<log, phase, cursor, head, held>>
    BY <1>12 DEF RecvLive
  <2>3. \A t \in cursor + 1..s - 1 : ~Sequenced(t)
    <3> TAKE t \in cursor + 1..s - 1
    <3>1. CASE t <= pos
      BY <2>2, <3>1
    <3>2. CASE t > pos
      BY <2>1, <2>2, <3>2
    <3> QED
      BY <2>2, <3>1, <3>2
  <2>4. \A t \in 1..held : Sequenced(t) => t <= cursor
    BY <2>2
  <2>5. cursor < s /\ pos' = s /\ Wanted(log'[s])
    BY <2>1, <2>2
  <2>6. \A t \in cursor' + 1..pos' - 1 : ~Sequenced(t)'
    BY <2>2, <2>3, <2>5
  <2>7. \A t \in 1..held' : Sequenced(t)' => t <= cursor'
    BY <2>2, <2>4
  <2> HIDE DEF Sequenced
  <2> QED
    BY <2>2, <2>5, <2>6, <2>7
<1>13. CASE Send
  BY <1>13 DEF Send, SeqOf
<1>14. CASE Save
  BY <1>14 DEF Save, Persist, SeqOf
<1>15. CASE Wake
  BY <1>15 DEF Wake, NextBackoff
<1>16. CASE Stop
  BY <1>16 DEF Stop
<1>17. CASE StartRange
  BY <1>17 DEF StartRange
<1>18. CASE RangeAgain
  BY <1>18 DEF RangeAgain
<1>19. CASE BodyDone
  BY <1>19 DEF BodyDone
<1>20. CASE Break
  BY <1>20 DEF Break
<1>21. CASE SeeClosed
  BY <1>21 DEF SeeClosed
<1>22. CASE CloseUnread
  BY <1>22 DEF CloseUnread
<1>23. CASE CloseReturns
  BY <1>23 DEF CloseReturns
<1>24. CASE Cancel
  BY <1>24 DEF Cancel
<1>25. CASE Restart
  BY <1>25 DEF Restart
<1>26. CASE UNCHANGED vars
  BY <1>26 DEF vars
<1> HIDE DEF OrderInv
<1>27. CASE Engine
  BY <1>27, <1>4, <1>5, <1>6, <1>7, <1>8, <1>9, <1>10, <1>11, <1>12, <1>13,
     <1>14, <1>15, <1>16 DEF Engine
<1>28. CASE Consumer
  BY <1>28, <1>17, <1>19, <1>21, <1>23 DEF Consumer
<1>29. CASE Environment
  BY <1>29, <1>1, <1>2, <1>3, <1>18, <1>20, <1>22, <1>24, <1>25, <1>26
     DEF Environment, Closed
<1> QED
  BY <1>26, <1>27, <1>28, <1>29 DEF Next

\* Within a session a sequenced event is handed over once and in order, across
\* any number of reconnects (resumable.go:119-203), if live streams start at the
\* head and no catch-up is answered by a server that lags behind.
THEOREM OrderKept ==
    ASSUME ContiguousAttach, MaxLag = 0 PROVE Spec => InOrderOnce
<1>1. Init => TypeOK /\ Reading /\ OrderInv
  BY InitTypeOK DEF Init, Reading, OrderInv
<1>2. TypeOK /\ Reading /\ OrderInv /\ [Next]_vars => (TypeOK /\ Reading /\ OrderInv)'
  BY TypeStep, ReadingStep, OrderStep
<1>3. /\ TypeOK /\ OrderInv /\ [Next]_vars
      => [consumer = "ranging" /\ consumer' = "body" /\ SeqOf(pos) > 0 => pos > held]_vars
  <2> SUFFICES ASSUME TypeOK, OrderInv, [Next]_vars, consumer = "ranging",
                      consumer' = "body", SeqOf(pos) > 0
               PROVE pos > held
    OBVIOUS
  <2>1. pc = "send"
    <3> USE DEF durable, progress, reader, caller, history, bounds
    <3>1. CASE Engine
      BY <3>1 DEF Engine, Load, LoadError, SendError, OpenCatchUp, RecvCatchUp,
         RecvComplete, OpenLive, RecvLive, Send, Save, KeepaliveTeardown, Wake, Stop
    <3>2. CASE Consumer
      BY <3>2 DEF Consumer, StartRange, BodyDone, SeeClosed, CloseReturns
    <3>3. CASE Environment
      BY <3>3 DEF Environment, AppendEvent, StreamEnds, StreamStalls, RangeAgain,
         Break, CloseUnread, Cancel, Restart, Closed, vars
    <3>4. CASE UNCHANGED vars
      BY <3>4 DEF vars
    <3> QED
      BY <3>1, <3>2, <3>3, <3>4 DEF Next
  <2>2. pos \in Nat /\ held \in Nat /\ cursor \in Nat /\ pos > 0
    BY <2>1 DEF TypeOK
  <2>3. Sequenced(pos) /\ cursor < pos
    BY <2>1 DEF OrderInv, Sequenced, SeqOf
  <2>4. ~(pos \in 1..held)
    BY <2>1, <2>2, <2>3 DEF OrderInv
  <2> QED
    BY <2>2, <2>4
<1> QED
  BY <1>1, <1>2, <1>3, PTL DEF Spec, InOrderOnce
==============================================================================
