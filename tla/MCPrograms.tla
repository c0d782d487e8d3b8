------------------------------ MODULE MCPrograms ------------------------------
(* Values for Programs' bounds.                                            *)
EXTENDS Programs
==============================================================================
