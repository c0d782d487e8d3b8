-------------------------- MODULE MCResumableStream --------------------------
(* Values for ResumableStream's constants.                                 *)
EXTENDS ResumableStream

CONSTANTS here

\* A wanted event, and one that only a replay carries and passes over.
TwoKinds == {[family |-> f, chat |-> here, sequenced |-> TRUE] : f \in {"message", "other"}}
==============================================================================
