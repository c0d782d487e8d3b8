----------------------------- MODULE EventStream -----------------------------
(***************************************************************************)
(* What a subscription promises its one consumer: the events the stream    *)
(* produced, in order, none left out and none twice, at most one of them    *)
(* in flight, and nothing once the consumer is finished with it.            *)
(***************************************************************************)
EXTENDS Integers, Sequences

VARIABLES emitted,      \* number of events produced; the n-th event is n
          delivered,    \* the events yielded to the consumer, in order
          over          \* the loop has ended or Close has returned

vars == <<emitted, delivered, over>>

Init == emitted = 0 /\ delivered = <<>> /\ over = FALSE

\* Back-pressure: nothing is produced while an event waits for its consumer.
Emit == /\ emitted = Len(delivered)
        /\ emitted' = emitted + 1
        /\ UNCHANGED <<delivered, over>>

Deliver == /\ ~over
           /\ Len(delivered) < emitted
           /\ delivered' = Append(delivered, Len(delivered) + 1)
           /\ UNCHANGED <<emitted, over>>

End == /\ ~over
       /\ over' = TRUE
       /\ UNCHANGED <<emitted, delivered>>

Next == Emit \/ Deliver \/ End

Spec == Init /\ [][Next]_vars
==============================================================================
