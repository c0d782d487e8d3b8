----------------------------- MODULE MCTokenCache -----------------------------
(* Values for TokenCache's constants.                                      *)
EXTENDS TokenCache
==============================================================================
