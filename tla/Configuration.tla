----------------------------- MODULE Configuration -----------------------------
(***************************************************************************)
(* What New makes of a client's options, which interceptors Dial installs,  *)
(* and how long the retry interceptor may wait.  Delays are Go integers: a   *)
(* word in two's complement.                                                *)
(***************************************************************************)
EXTENDS Integers, Sequences

CONSTANTS Half,   \* a time.Duration is one of -Half..Half - 1 (2^63 in Go)
          DefaultMaxAttempts, DefaultInitialDelay, DefaultMaxDelay

ASSUME WordAssumption == Half \in Nat \ {0}

ASSUME DefaultsAssumption ==
    /\ DefaultMaxAttempts \in Nat \ {0}
    /\ DefaultInitialDelay \in Nat \ {0} /\ DefaultMaxDelay \in Nat \ {0}

-----------------------------------------------------------------------------
(* Options, applied in the order given.  The options of a WithRetry follow it *)
(* as items of their own.                                                   *)

Defaults == [maxAttempts |-> DefaultMaxAttempts,
             initialDelay |-> DefaultInitialDelay, maxDelay |-> DefaultMaxDelay]

DefaultConfig == [insecure |-> FALSE, timeout |-> 0, retryEnabled |-> FALSE,
                  retry |-> Defaults, autoIdempotency |-> FALSE, ownClient |-> FALSE]

RetryOptions == {"WithMaxAttempts", "WithInitialDelay", "WithMaxDelay"}

\* A maximum of zero attempts stands for "not configured yet".
WithRetry(c) ==
    [c EXCEPT !.retryEnabled = TRUE,
              !.retry = IF c.retry.maxAttempts = 0 THEN Defaults ELSE c.retry]

Apply(c, option) ==
    CASE option.name = "WithoutTLS" -> [c EXCEPT !.insecure = TRUE]
      [] option.name = "WithTimeout" -> [c EXCEPT !.timeout = option.value]
      [] option.name = "WithRetry" -> WithRetry(c)
      [] option.name = "WithMaxAttempts" -> [c EXCEPT !.retry.maxAttempts = option.value]
      [] option.name = "WithInitialDelay" -> [c EXCEPT !.retry.initialDelay = option.value]
      [] option.name = "WithMaxDelay" -> [c EXCEPT !.retry.maxDelay = option.value]
      [] option.name = "WithAutoIdempotency" -> [c EXCEPT !.autoIdempotency = TRUE]
      [] option.name = "WithHTTPClient" -> [c EXCEPT !.ownClient = TRUE]

-----------------------------------------------------------------------------
(* The chain that Dial builds, outermost first, and its retry loop.         *)

Interceptors(c) ==
    <<"auth">> \o (IF c.timeout > 0 THEN <<"timeout">> ELSE <<>>)
               \o (IF c.autoIdempotency THEN <<"idempotency">> ELSE <<>>)
               \o (IF c.retryEnabled THEN <<"retry">> ELSE <<>>)

Installed(c, name) == \E i \in DOMAIN Interceptors(c) : Interceptors(c)[i] = name

Attempts(c) ==
    IF ~Installed(c, "retry") \/ c.retry.maxAttempts < 1 THEN 1 ELSE c.retry.maxAttempts

Wrap(x) == ((x + Half) % (2 * Half)) - Half


\* The cap of the wait after an attempt (the first is 0); the wait itself is
\* drawn from [0, cap).
BackoffCap(retry, attempt) ==
    LET d == Wrap(retry.initialDelay * 2^attempt)
    IN  IF d <= 0 \/ d > retry.maxDelay THEN retry.maxDelay ELSE d

=============================================================================
