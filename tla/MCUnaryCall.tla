---------------------------- MODULE MCUnaryCall ----------------------------
(* Values for UnaryCall's constants.                                       *)
EXTENDS UnaryCall
==============================================================================
