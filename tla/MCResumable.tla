----------------------------- MODULE MCResumable -----------------------------
(* Values for Resumable's constants.                                       *)
EXTENDS Resumable

CONSTANTS here, there      \* two chats

Event(family, chat, sequenced) ==
    [family |-> family, chat |-> chat, sequenced |-> sequenced]

\* A wanted event, and one that the client's type switch passes over.
TwoKinds == {Event("message", here, TRUE), Event("other", here, TRUE)}

\* A wanted event, one that carries no sequence, and one of another chat.
ThreeKinds == {Event("message", here, TRUE), Event("message", here, FALSE),
               Event("message", there, TRUE)}

FourKinds == TwoKinds \cup ThreeKinds
==============================================================================
