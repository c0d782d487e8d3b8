------------------------------- MODULE MCClient -------------------------------
(* Options, methods and failures for Client.  With words of 6 bits an initial *)
(* delay of 5 overflows at its fourth wait, where the sum of the shift is      *)
(* negative, and comes back positive at the fifth.  An int32 has 4 bits: 7 fits, *)
(* 8 and 16 do not.                                                          *)
EXTENDS Client

MCOptions ==
    {[name |-> n] : n \in {"WithoutTLS", "WithRetry", "WithAutoIdempotency", "WithHTTPClient"}}
    \cup {[name |-> "WithTimeout", value |-> 1]}
    \cup {[name |-> "WithMaxAttempts", value |-> n] : n \in {-1, 0, 6}}
    \cup {[name |-> "WithInitialDelay", value |-> d] : d \in {0, 5}}
    \cup {[name |-> "WithMaxDelay", value |-> d] : d \in {0, 20}}

MCSurveys == {<<>>, <<[name |-> "WithAutoIdempotency"]>>}

MCNumbers == {-1, 0, 1, 7, 8, 16}

MCKeys == 0..1

MCProbes == {"SendText", "ListRecent", "SubscribeMessages"}

MCAttemptFailures ==
    {[kind |-> "connect", status |-> s, header |-> h, retryable |-> r] :
        s \in Statuses, h \in {""}, r \in {FALSE}}
    \cup {[kind |-> "connect", status |-> "unavailable", header |-> "", retryable |-> TRUE],
          [kind |-> "connect", status |-> "not_found", header |-> "chatNotFound", retryable |-> FALSE],
          [kind |-> "plain"]}
==============================================================================
