--------------------------- MODULE DurableDelivery ---------------------------
(***************************************************************************)
(* What a resumable subscription promises (resumable.go:11-13 and 43-48):  *)
(* a durable log of events, a consumer that is handed the relevant ones at *)
(* least once, and a persistent mark that never moves past a relevant      *)
(* event that was not handed over.  A restart of the program changes none  *)
(* of the three variables.                                                 *)
(***************************************************************************)
EXTENDS Integers, Sequences

CONSTANTS Entries,      \* what an entry of the log may be
          Relevant      \* the entries the consumer asked for

VARIABLES log,          \* the durable log; sequence number = index
          handed,       \* sequence numbers handed to the consumer so far
          mark          \* the persisted cursor, 0 before the first one

vars == <<log, handed, mark>>

\* Every relevant entry up to n was handed over.
CoveredTo(n) == \A s \in 1..n : log[s] \in Relevant => s \in handed

Init == log = <<>> /\ handed = {} /\ mark = 0

Append1 == /\ \E e \in Entries : log' = Append(log, e)
           /\ UNCHANGED <<handed, mark>>

\* Repeats are allowed: delivery is at-least-once.
Hand == /\ \E s \in 1..Len(log) : /\ log[s] \in Relevant
                                  /\ handed' = handed \cup {s}
        /\ UNCHANGED <<log, mark>>

\* The mark may also move back: that costs a redelivery, never an event.
Commit == /\ mark' \in 0..Len(log)
          /\ CoveredTo(mark')
          /\ UNCHANGED <<log, handed>>

Next == Append1 \/ Hand \/ Commit

Spec == Init /\ [][Next]_vars
==============================================================================
