--------------------------- MODULE MCSubscription ---------------------------
(* Values for Subscription's constants.                                    *)
EXTENDS Subscription
==============================================================================
