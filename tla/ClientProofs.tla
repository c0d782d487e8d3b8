----------------------------- MODULE ClientProofs -----------------------------
(* Theorems about Client, for every list of options, every delay and word     *)
(* size, every method, and answers with lists of any length.                 *)
EXTENDS Client, FiniteSetTheorems, TLAPS

-----------------------------------------------------------------------------
(* Delays.                                                                  *)

\* A value that a word holds is unchanged by wrapping.
LEMMA WrapInRange ==
    ASSUME NEW x \in 0..Half - 1 PROVE Wrap(x) = x
<1>1. Half \in Nat /\ Half > 0 /\ x + Half \in Nat /\ x + Half < 2 * Half
  BY WordAssumption
<1> DEFINE h == 2 * Half
           y == x + Half
<1>2. h \in Nat /\ h > 0 /\ y \in Nat /\ y < h
  BY <1>1
<1> HIDE DEF h, y
<1>3. y % h = y
  BY <1>2
<1> QED
  BY <1>1, <1>3 DEF Wrap, h, y

LEMMA BackoffCapType ==
    ASSUME NEW retry, retry.initialDelay \in Int, retry.maxDelay \in Int, NEW n \in Nat
    PROVE  /\ retry.initialDelay * 2^n \in Int
           /\ Wrap(retry.initialDelay * 2^n) \in Int
           /\ BackoffCap(retry, n) \in Int
<1> DEFINE x == retry.initialDelay * 2^n
           d == Wrap(x)
<1>1. x \in Int
  <2>1. 2^n \in Int
    BY SMT
  <2> QED
    BY <2>1
<1>2. d \in Int
  <2> DEFINE h == 2 * Half
             y == x + Half
  <2>1. h \in Nat /\ h > 0 /\ y \in Int /\ Half \in Int
    BY <1>1, WordAssumption
  <2> HIDE DEF h, y
  <2>2. y % h \in Int
    BY <2>1
  <2>3. d = (y % h) - Half
    BY DEF d, Wrap, h, y
  <2> QED
    BY <2>1, <2>2, <2>3
<1> QED
  BY <1>1, <1>2 DEF BackoffCap

\* The cap of a wait is within the maximum, and positive if the maximum is, also
\* when the shift overflows; it is the doubled delay while that fits into a word.
LEMMA CapBounded ==
    ASSUME NEW retry, retry.initialDelay \in Int, retry.maxDelay \in Int, NEW n \in Nat
    PROVE  /\ BackoffCap(retry, n) \in Int
           /\ BackoffCap(retry, n) <= retry.maxDelay
           /\ retry.maxDelay > 0 => BackoffCap(retry, n) > 0
           /\ retry.initialDelay * 2^n \in 1..Half - 1 =>
                BackoffCap(retry, n) = Capped(retry, n)
<1> DEFINE x == retry.initialDelay * 2^n
           d == Wrap(x)
<1>1. x \in Int /\ d \in Int
  BY BackoffCapType
<1>3. BackoffCap(retry, n) = IF d <= 0 \/ d > retry.maxDelay THEN retry.maxDelay ELSE d
  BY DEF BackoffCap
<1>4. x \in 1..Half - 1 => d = x
  BY WrapInRange, WordAssumption
<1>5. Capped(retry, n) = IF x < retry.maxDelay THEN x ELSE retry.maxDelay
  BY DEF Capped
<1> HIDE DEF x, d
<1>6. x \in 1..Half - 1 => BackoffCap(retry, n) = Capped(retry, n)
  BY <1>1, <1>3, <1>4, <1>5, WordAssumption
<1> QED
  BY <1>1, <1>3, <1>6 DEF x, d

-----------------------------------------------------------------------------
(* Options.                                                                 *)

Configs ==
    [insecure : BOOLEAN, timeout : Int, retryEnabled : BOOLEAN,
     retry : [maxAttempts : Int, initialDelay : Int, maxDelay : Int],
     autoIdempotency : BOOLEAN, ownClient : BOOLEAN]

\* What one option changes.
LEMMA ApplyChanges ==
    ASSUME NEW c \in Configs, NEW option \in Options
    PROVE  LET d == Apply(c, option) IN
           /\ d \in Configs
           /\ d.autoIdempotency <=> c.autoIdempotency \/ option.name = "WithAutoIdempotency"
           /\ d.retryEnabled <=> c.retryEnabled \/ option.name = "WithRetry"
           /\ c.retry.maxAttempts = 0 /\ option.name = "WithRetry" => d.retry = Defaults
           /\ c.retry.maxAttempts # 0 \/ option.name # "WithRetry" =>
                /\ d.retry.maxAttempts =
                     IF option.name = "WithMaxAttempts" THEN option.value ELSE c.retry.maxAttempts
                /\ d.retry.initialDelay =
                     IF option.name = "WithInitialDelay" THEN option.value ELSE c.retry.initialDelay
                /\ d.retry.maxDelay =
                     IF option.name = "WithMaxDelay" THEN option.value ELSE c.retry.maxDelay
<1> USE DEF Configs
<1>1. CASE option.name = "WithoutTLS"
  BY <1>1 DEF Apply
<1>2. CASE option.name = "WithTimeout"
  <2>1. option.value \in Int
    BY <1>2, OptionsAssumption
  <2> QED
    BY <1>2, <2>1 DEF Apply
<1>3. CASE option.name = "WithRetry"
  <2>1. Defaults \in [maxAttempts : Int, initialDelay : Int, maxDelay : Int]
    BY DefaultsAssumption DEF Defaults
  <2>2. Apply(c, option) = WithRetry(c)
    BY <1>3 DEF Apply
  <2> QED
    BY <1>3, <2>1, <2>2 DEF WithRetry
<1>4. CASE option.name = "WithMaxAttempts"
  <2>1. option.value \in Int
    BY <1>4, OptionsAssumption DEF RetryOptions
  <2> QED
    BY <1>4, <2>1 DEF Apply
<1>5. CASE option.name = "WithInitialDelay"
  <2>1. option.value \in Int
    BY <1>5, OptionsAssumption DEF RetryOptions
  <2> QED
    BY <1>5, <2>1 DEF Apply
<1>6. CASE option.name = "WithMaxDelay"
  <2>1. option.value \in Int
    BY <1>6, OptionsAssumption DEF RetryOptions
  <2> QED
    BY <1>6, <2>1 DEF Apply
<1>7. CASE option.name = "WithAutoIdempotency"
  BY <1>7 DEF Apply
<1>8. CASE option.name = "WithHTTPClient"
  BY <1>8 DEF Apply
<1> QED
  BY <1>1, <1>2, <1>3, <1>4, <1>5, <1>6, <1>7, <1>8, OptionsAssumption DEF RetryOptions

\* One more option.
Grows(option, n) ==
    /\ n \in Nat /\ Len(options) = n /\ DOMAIN options = 1..n
    /\ options' \in Seq(Options) /\ Len(options') = n + 1 /\ DOMAIN options' = 1..n + 1
    /\ \A i \in 1..n : options'[i] = options[i]
    /\ options'[n + 1] = option

\* Only a maximum of zero makes the next WithRetry a reset, and nothing changes
\* what earlier options were.
LEMMA NextResets ==
    ASSUME NEW option, NEW n, Grows(option, n)
    PROVE  /\ \A j \in 1..n : Resets(j)' <=> Resets(j)
           /\ Resets(n + 1)' <=> (option.name = "WithRetry" /\ Zeroed)
           /\ Zeroed' <=> ((option.name = "WithMaxAttempts" /\ option.value = 0)
                    \/ (Zeroed /\ option.name \notin MaximumOptions))
<1>1. n \in Nat /\ DOMAIN options = 1..n /\ DOMAIN options' = 1..n + 1 /\ Len(options') = n + 1
      /\ Len(options) = n
  BY DEF Grows
<1>2. \A i \in 1..n : options'[i] = options[i]
  BY DEF Grows
<1>3. options'[n + 1] = option
  BY DEF Grows
<1>4. ASSUME NEW i \in 1..n, NEW k \in 0..n PROVE ZeroFrom(i, k)' <=> ZeroFrom(i, k)
  <2>1. \A j \in i + 1..k : j \in 1..n
    BY <1>1
  <2> QED
    BY <1>2, <2>1 DEF ZeroFrom
<1>5. ASSUME NEW j \in 1..n PROVE Resets(j)' <=> Resets(j)
  <2>1. j - 1 \in 0..n /\ \A i \in 1..j - 1 : i \in 1..n
    BY <1>1
  <2> QED
    BY <1>2, <1>4, <2>1 DEF Resets
<1>6. Resets(n + 1)' <=> (option.name = "WithRetry" /\ Zeroed)
  <2>1. (n + 1) - 1 = n /\ n \in 0..n
    BY <1>1
  <2>2. Resets(n + 1)' <=> (option.name = "WithRetry" /\ \E i \in 1..n : ZeroFrom(i, n)')
    BY <1>3, <2>1 DEF Resets
  <2>3. Zeroed <=> \E i \in 1..n : ZeroFrom(i, n)
    BY <1>1 DEF Zeroed
  <2> QED
    BY <1>4, <2>1, <2>2, <2>3
<1>7. ASSUME NEW i \in 1..n
      PROVE  ZeroFrom(i, n + 1)' <=> (ZeroFrom(i, n) /\ option.name \notin MaximumOptions)
  <2>1. \A j \in i + 1..n : j \in 1..n
    BY <1>1
  <2>2. \A j \in i + 1..n + 1 : j \in i + 1..n \/ j = n + 1
    BY <1>1
  <2>3. n + 1 \in i + 1..n + 1 /\ \A j \in i + 1..n : j \in i + 1..n + 1
    BY <1>1
  <2> QED
    BY <1>2, <1>3, <2>1, <2>2, <2>3 DEF ZeroFrom, MaximumOptions
<1>8. ZeroFrom(n + 1, n + 1)' <=> (option.name = "WithMaxAttempts" /\ option.value = 0)
  <2>1. \A j : j \notin (n + 1) + 1..n + 1
    BY <1>1
  <2> QED
    BY <1>3, <2>1 DEF ZeroFrom
<1>9. Zeroed' <=> ((option.name = "WithMaxAttempts" /\ option.value = 0)
                    \/ (Zeroed /\ option.name \notin MaximumOptions))
  <2>1. Zeroed <=> \E i \in 1..n : ZeroFrom(i, n)
    BY <1>1 DEF Zeroed
  <2>2. Zeroed' <=> \E i \in 1..n + 1 : ZeroFrom(i, n + 1)'
    BY <1>1 DEF Zeroed
  <2>3. \A i \in 1..n + 1 : i \in 1..n \/ i = n + 1
    BY <1>1
  <2>4. n + 1 \in 1..n + 1 /\ \A i \in 1..n : i \in 1..n + 1
    BY <1>1
  <2> QED
    BY <1>7, <1>8, <2>1, <2>2, <2>3, <2>4
<1> QED
  BY <1>5, <1>6, <1>9

\* An option of another name leaves the last given value, one of this name
\* gives the next, a reset goes back to the default.
LEMMA NextGiven ==
    ASSUME NEW option, NEW n, Grows(option, n), NEW name \in RetryOptions, NEW default, NEW value,
           LastGiven(name, default, value), NEW next,
           next = IF option.name = "WithRetry" /\ Zeroed THEN default
                  ELSE IF option.name = name THEN option.value ELSE value
    PROVE  LastGiven(name, default, next)'
<1>1. n \in Nat /\ DOMAIN options = 1..n /\ DOMAIN options' = 1..n + 1 /\ Len(options') = n + 1
      /\ Len(options) = n /\ (\A i \in 1..n : options'[i] = options[i]) /\ options'[n + 1] = option
  BY DEF Grows
<1>2. /\ \A j \in 1..n : Resets(j)' <=> Resets(j)
      /\ Resets(n + 1)' <=> (option.name = "WithRetry" /\ Zeroed)
  BY NextResets
<1>3. CASE option.name = "WithRetry" /\ Zeroed
  <2>1. option.name # name
    BY <1>3 DEF RetryOptions
  <2>2. ASSUME NEW i \in DOMAIN options', options'[i].name = name
        PROVE  \E j \in i + 1..Len(options') : Resets(j)'
    <3>1. i \in 1..n
      BY <1>1, <2>1, <2>2
    <3>2. n + 1 \in i + 1..Len(options')
      BY <1>1, <3>1
    <3> QED
      BY <1>2, <1>3, <3>2
  <2> QED
    BY <1>3, <2>2 DEF LastGiven
<1>4. CASE ~(option.name = "WithRetry" /\ Zeroed) /\ option.name = name
  <2>1. n + 1 \in DOMAIN options' /\ \A j : j \notin (n + 1) + 1..Len(options')
    BY <1>1
  <2> QED
    BY <1>1, <1>4, <2>1 DEF LastGiven
<1>5. CASE ~(option.name = "WithRetry" /\ Zeroed) /\ option.name # name
  <2>1. ASSUME value = default,
               \A i \in DOMAIN options : options[i].name = name =>
                  \E j \in i + 1..Len(options) : Resets(j)
        PROVE  LastGiven(name, default, value)'
    <3>1. ASSUME NEW i \in DOMAIN options', options'[i].name = name
          PROVE  \E j \in i + 1..Len(options') : Resets(j)'
      <4>1. i \in 1..n /\ options[i].name = name
        BY <1>1, <1>5, <3>1
      <4>2. PICK j \in i + 1..n : Resets(j)
        BY <1>1, <2>1, <4>1
      <4>3. j \in 1..n /\ j \in i + 1..Len(options')
        BY <1>1, <4>1
      <4> QED
        BY <1>2, <4>2, <4>3
    <3> QED
      BY <2>1, <3>1 DEF LastGiven
  <2>2. ASSUME NEW i \in DOMAIN options, options[i].name = name, options[i].value = value,
               \A j \in i + 1..Len(options) : options[j].name # name /\ ~Resets(j)
        PROVE  LastGiven(name, default, value)'
    <3>1. i \in DOMAIN options' /\ options'[i].name = name /\ options'[i].value = value
      BY <1>1, <2>2
    <3>2. ASSUME NEW j \in i + 1..Len(options') PROVE options'[j].name # name /\ ~Resets(j)'
      <4>1. CASE j = n + 1
        BY <1>1, <1>2, <1>5, <4>1
      <4>2. CASE j # n + 1
        <5>1. j \in 1..n /\ j \in i + 1..Len(options)
          BY <1>1, <3>2, <4>2
        <5> QED
          BY <1>1, <1>2, <2>2, <5>1
      <4> QED
        BY <4>1, <4>2
    <3> QED
      BY <3>1, <3>2 DEF LastGiven
  <2>3. LastGiven(name, default, value)'
    BY <2>1, <2>2 DEF LastGiven
  <2> QED
    BY <1>5, <2>3
<1> QED
  BY <1>3, <1>4, <1>5

LEMMA ConfiguredInit == Init => Configured
<1> SUFFICES ASSUME Init PROVE Configured
  OBVIOUS
<1>1. config \in Configs /\ options = <<>> /\ options \in Seq(Options) /\ DOMAIN options = {}
  BY DefaultsAssumption DEF Init, Configs, DefaultConfig, Defaults
<1>2. config.retry = Defaults /\ Defaults.maxAttempts # 0
  BY DefaultsAssumption DEF Init, DefaultConfig, Defaults
<1> QED
  BY <1>1, <1>2 DEF Init, Configured, Configs, ResolvedRetry, LastGiven, Zeroed, Given,
     DefaultConfig, Defaults

\* Applying an option keeps config what the options resolve to: a WithRetry
\* starts from the defaults exactly after a maximum of zero.
LEMMA ApplyOptionStep ==
    ASSUME Configured, NEW option \in Options, ApplyOption(option)
    PROVE  Configured'
<1>1. /\ config \in Configs /\ options \in Seq(Options) /\ stage = "options" /\ call = NoCall
      /\ config' = Apply(config, option) /\ options' = Append(options, option)
      /\ stage' = stage /\ call' = call
  BY DEF Configured, ApplyOption, Configs
<1>2. PICK n : Grows(option, n)
  <2>1. PICK n : n = Len(options)
    OBVIOUS
  <2> QED
    BY <1>1, <2>1 DEF Grows
<1>3. \A name : Given(name)' <=> Given(name) \/ option.name = name
  BY <1>2 DEF Given, Grows
<1>4. /\ config'.autoIdempotency <=> Given("WithAutoIdempotency")'
      /\ config'.retryEnabled <=> Given("WithRetry")'
      /\ config' \in Configs
  BY <1>1, <1>3, ApplyChanges DEF Configured
<1>5. ResolvedRetry /\ (config.retry.maxAttempts = 0 <=> Zeroed)
  BY DEF Configured
<1> DEFINE Next1(name, default, value) ==
      IF option.name = "WithRetry" /\ Zeroed THEN default
      ELSE IF option.name = name THEN option.value ELSE value
<1>6. /\ config'.retry.maxAttempts =
           Next1("WithMaxAttempts", DefaultMaxAttempts, config.retry.maxAttempts)
      /\ config'.retry.initialDelay =
           Next1("WithInitialDelay", DefaultInitialDelay, config.retry.initialDelay)
      /\ config'.retry.maxDelay = Next1("WithMaxDelay", DefaultMaxDelay, config.retry.maxDelay)
  <2>1. CASE option.name = "WithRetry" /\ Zeroed
    <3>1. config'.retry = Defaults
      BY <1>1, <1>5, <2>1, ApplyChanges
    <3> QED
      BY <2>1, <3>1 DEF Defaults
  <2>2. CASE ~(option.name = "WithRetry" /\ Zeroed)
    <3>1. config.retry.maxAttempts # 0 \/ option.name # "WithRetry"
      BY <1>5, <2>2
    <3> QED
      BY <1>1, <2>2, <3>1, ApplyChanges
  <2> QED
    BY <2>1, <2>2
<1>7. ResolvedRetry'
  <2>1. RetryOptions = {"WithMaxAttempts", "WithInitialDelay", "WithMaxDelay"}
    BY DEF RetryOptions
  <2>2. PICK a : a = config'.retry.maxAttempts
    OBVIOUS
  <2>3. LastGiven("WithMaxAttempts", DefaultMaxAttempts, a)'
    <3>1. PICK v : v = config.retry.maxAttempts
      OBVIOUS
    <3> QED
      BY <1>2, <1>5, <1>6, <2>1, <2>2, <3>1, NextGiven DEF ResolvedRetry
  <2>4. PICK d : d = config'.retry.initialDelay
    OBVIOUS
  <2>5. LastGiven("WithInitialDelay", DefaultInitialDelay, d)'
    <3>1. PICK v : v = config.retry.initialDelay
      OBVIOUS
    <3> QED
      BY <1>2, <1>5, <1>6, <2>1, <2>4, <3>1, NextGiven DEF ResolvedRetry
  <2>6. PICK m : m = config'.retry.maxDelay
    OBVIOUS
  <2>7. LastGiven("WithMaxDelay", DefaultMaxDelay, m)'
    <3>1. PICK v : v = config.retry.maxDelay
      OBVIOUS
    <3> QED
      BY <1>2, <1>5, <1>6, <2>1, <2>6, <3>1, NextGiven DEF ResolvedRetry
  <2> QED
    BY <2>2, <2>3, <2>4, <2>5, <2>6, <2>7 DEF ResolvedRetry, LastGiven
<1>8. config'.retry.maxAttempts = 0 <=> Zeroed'
  BY <1>2, <1>5, <1>6, NextResets, DefaultsAssumption DEF MaximumOptions
<1> QED
  BY <1>1, <1>2, <1>4, <1>7, <1>8 DEF Configured, Configs, Grows

-----------------------------------------------------------------------------
(* The chain.                                                               *)

Has(s, e) == \E i \in DOMAIN s : s[i] = e

\* What is in a concatenation of two lists.
LEMMA ConcatHas ==
    ASSUME NEW S, NEW s \in Seq(S), NEW t \in Seq(S)
    PROVE  /\ s \o t \in Seq(S)
           /\ \A e : Has(s \o t, e) <=> Has(s, e) \/ Has(t, e)
<1>1. /\ s \o t \in Seq(S) /\ Len(s \o t) = Len(s) + Len(t)
      /\ DOMAIN (s \o t) = 1..Len(s) + Len(t) /\ DOMAIN s = 1..Len(s) /\ DOMAIN t = 1..Len(t)
      /\ Len(s) \in Nat /\ Len(t) \in Nat
      /\ \A i \in 1..Len(s) : (s \o t)[i] = s[i]
      /\ \A i \in Len(s) + 1..Len(s) + Len(t) : (s \o t)[i] = t[i - Len(s)]
  OBVIOUS
<1> DEFINE u == s \o t
<1> HIDE DEF u
<1>2. ASSUME NEW i \in DOMAIN t PROVE i + Len(s) \in DOMAIN u /\ u[i + Len(s)] = t[i]
  BY <1>1, <1>2 DEF u
<1>3. ASSUME NEW i \in DOMAIN u
      PROVE  \/ i \in DOMAIN s /\ u[i] = s[i]
             \/ i - Len(s) \in DOMAIN t /\ u[i] = t[i - Len(s)]
  BY <1>1, <1>3 DEF u
<1>4. ASSUME NEW i \in DOMAIN s PROVE i \in DOMAIN u /\ u[i] = s[i]
  BY <1>1, <1>4 DEF u
<1>5. ASSUME NEW e PROVE Has(u, e) <=> Has(s, e) \/ Has(t, e)
  <2>1. ASSUME Has(u, e) PROVE Has(s, e) \/ Has(t, e)
    BY <1>3, <2>1 DEF Has
  <2>2. ASSUME Has(s, e) PROVE Has(u, e)
    BY <1>4, <2>2 DEF Has
  <2>3. ASSUME Has(t, e) PROVE Has(u, e)
    BY <1>2, <2>3 DEF Has
  <2> QED
    BY <2>1, <2>2, <2>3
<1> QED
  BY <1>1, <1>5 DEF u

LEMMA SingletonHas ==
    ASSUME NEW x
    PROVE  \A e : Has(<<x>>, e) <=> e = x
<1>1. DOMAIN <<x>> = {1} /\ <<x>>[1] = x
  OBVIOUS
<1> QED
  BY <1>1 DEF Has

LEMMA EmptyHas == \A e : ~Has(<<>>, e)
<1>1. DOMAIN <<>> = {}
  OBVIOUS
<1> QED
  BY <1>1 DEF Has

LEMMA OneHas ==
    ASSUME NEW S, NEW x \in S, NEW s, s = <<x>>
    PROVE  s \in Seq(S) /\ \A e : Has(s, e) <=> e = x
<1>1. s \in Seq(S)
  OBVIOUS
<1>2. \A e : Has(s, e) <=> e = x
  BY SingletonHas
<1> QED
  BY <1>1, <1>2

LEMMA NoneHas ==
    ASSUME NEW S, NEW s, s = <<>>
    PROVE  s \in Seq(S) /\ \A e : ~Has(s, e)
<1>1. s \in Seq(S)
  OBVIOUS
<1>2. \A e : ~Has(s, e)
  BY EmptyHas
<1> QED
  BY <1>1, <1>2

\* Dial installs an interceptor exactly if its option asks for it.
LEMMA ChainAsConfigured ==
    ASSUME NEW c \in Configs
    PROVE  /\ Installed(c, "retry") <=> c.retryEnabled
           /\ Installed(c, "idempotency") <=> c.autoIdempotency
           /\ Attempts(c) = IF c.retryEnabled /\ c.retry.maxAttempts > 1
                            THEN c.retry.maxAttempts ELSE 1
<1> DEFINE s1 == <<"auth">>
           s2 == IF c.timeout > 0 THEN <<"timeout">> ELSE <<>>
           s3 == IF c.autoIdempotency THEN <<"idempotency">> ELSE <<>>
           s4 == IF c.retryEnabled THEN <<"retry">> ELSE <<>>
<1> DEFINE Names == {"auth", "timeout", "idempotency", "retry"}
<1> HIDE DEF Names
<1>0. "auth" \in Names /\ "timeout" \in Names /\ "idempotency" \in Names /\ "retry" \in Names
  BY DEF Names
<1>1. s1 = <<"auth">>
  OBVIOUS
<1>2. (c.timeout > 0 => s2 = <<"timeout">>) /\ (~(c.timeout > 0) => s2 = <<>>)
  OBVIOUS
<1>3. (c.autoIdempotency => s3 = <<"idempotency">>) /\ (~(c.autoIdempotency) => s3 = <<>>)
  OBVIOUS
<1>4. (c.retryEnabled => s4 = <<"retry">>) /\ (~(c.retryEnabled) => s4 = <<>>)
  OBVIOUS
<1>5. Interceptors(c) = ((s1 \o s2) \o s3) \o s4
  BY DEF Interceptors
<1> HIDE DEF s1, s2, s3, s4
<1>21. s1 \in Seq(Names) /\ \A e : Has(s1, e) <=> e = "auth"
  BY <1>0, <1>1, OneHas
<1>22. s2 \in Seq(Names) /\ \A e : Has(s2, e) <=> c.timeout > 0 /\ e = "timeout"
  <2>1. CASE c.timeout > 0
    <3>1. s2 = <<"timeout">>
      BY <2>1, <1>2
    <3>2. s2 \in Seq(Names) /\ \A e : Has(s2, e) <=> e = "timeout"
      BY <3>1, <1>0, OneHas
    <3> QED
      BY <2>1, <3>2
  <2>2. CASE ~(c.timeout > 0)
    <3>1. s2 = <<>>
      BY <2>2, <1>2
    <3>2. s2 \in Seq(Names) /\ \A e : ~Has(s2, e)
      BY <3>1, NoneHas
    <3> QED
      BY <2>2, <3>2
  <2> QED
    BY <2>1, <2>2
<1>23. s3 \in Seq(Names) /\ \A e : Has(s3, e) <=> c.autoIdempotency /\ e = "idempotency"
  <2>1. CASE c.autoIdempotency
    <3>1. s3 = <<"idempotency">>
      BY <2>1, <1>3
    <3>2. s3 \in Seq(Names) /\ \A e : Has(s3, e) <=> e = "idempotency"
      BY <3>1, <1>0, OneHas
    <3> QED
      BY <2>1, <3>2
  <2>2. CASE ~(c.autoIdempotency)
    <3>1. s3 = <<>>
      BY <2>2, <1>3
    <3>2. s3 \in Seq(Names) /\ \A e : ~Has(s3, e)
      BY <3>1, NoneHas
    <3> QED
      BY <2>2, <3>2
  <2> QED
    BY <2>1, <2>2
<1>24. s4 \in Seq(Names) /\ \A e : Has(s4, e) <=> c.retryEnabled /\ e = "retry"
  <2>1. CASE c.retryEnabled
    <3>1. s4 = <<"retry">>
      BY <2>1, <1>4
    <3>2. s4 \in Seq(Names) /\ \A e : Has(s4, e) <=> e = "retry"
      BY <3>1, <1>0, OneHas
    <3> QED
      BY <2>1, <3>2
  <2>2. CASE ~(c.retryEnabled)
    <3>1. s4 = <<>>
      BY <2>2, <1>4
    <3>2. s4 \in Seq(Names) /\ \A e : ~Has(s4, e)
      BY <3>1, NoneHas
    <3> QED
      BY <2>2, <3>2
  <2> QED
    BY <2>1, <2>2
<1>6. s1 \o s2 \in Seq(Names) /\ \A e : Has(s1 \o s2, e) <=> Has(s1, e) \/ Has(s2, e)
  BY <1>21, <1>22, ConcatHas
<1>7. /\ (s1 \o s2) \o s3 \in Seq(Names)
      /\ \A e : Has((s1 \o s2) \o s3, e) <=> Has(s1 \o s2, e) \/ Has(s3, e)
  BY <1>23, <1>6, ConcatHas
<1> DEFINE s123 == (s1 \o s2) \o s3
<1>8. \A e : Has(Interceptors(c), e) <=> Has(s123, e) \/ Has(s4, e)
  <2> HIDE DEF s123
  <2>1. s123 \in Seq(Names) /\ Interceptors(c) = s123 \o s4
    BY <1>5, <1>7 DEF s123
  <2> QED
    BY <1>24, <2>1, ConcatHas
<1>9. \A e : Installed(c, e) <=> Has(s1, e) \/ Has(s2, e) \/ Has(s3, e) \/ Has(s4, e)
  BY <1>6, <1>7, <1>8 DEF Installed, Has
<1>10. Installed(c, "retry") <=> c.retryEnabled
  BY <1>21, <1>22, <1>23, <1>24, <1>9
<1>11. Installed(c, "idempotency") <=> c.autoIdempotency
  BY <1>21, <1>22, <1>23, <1>24, <1>9
<1>12. c.retry.maxAttempts \in Int
  BY DEF Configs
<1> QED
  BY <1>10, <1>11, <1>12 DEF Attempts

-----------------------------------------------------------------------------
(* The tables of methods.                                                   *)

\* A write has a key, a read has none; every parameter of the signature is set
\* under a test that loses nothing for its type; only the methods of SetReaction
\* set a kind, and both of them say which they are.
SetsAll(row, parameters) ==
    \A f \in parameters :
        /\ f \notin {"isSet", "service"}
        /\ f \in Pointers \cup IntPointers => f \notin row.always \cup row.nonzero \cup row.positive
        /\ \/ f \in row.always /\ f \notin {"textEffect", "pageSize"}
           \/ f \in row.nonzero
                /\ f \notin Pointers \cup IntPointers \cup Ints \cup {"companionKind", "kind"}
           \/ f \in row.present /\ f \in Pointers \cup IntPointers
           \/ f \in row.positive /\ f = "pageSize"

RowOK(m, row) ==
    /\ ~row.stream => (row.procedure \in MutatingProcedures <=> row.procedure \notin ReadOnly)
    /\ "kind" \in row.always \cup row.nonzero \cup row.present \cup row.positive
         => m \in {"AddReaction", "RemoveReaction"}
    /\ m \in {"AddReaction", "RemoveReaction"} => {"isSet", "kind"} \subseteq row.always
    /\ "textEffect" \notin row.always \cup row.present \cup row.positive
    /\ "pageSize" \notin row.always \cup row.nonzero \cup row.present

\* The methods of a table are those of one list of signatures.
TableSigned(table, signatures) ==
    \A m \in DOMAIN table :
        /\ \A other \in Signatures : m \in DOMAIN other <=> other = signatures
        /\ RowOK(m, table[m]) /\ SetsAll(table[m], signatures[m])

LEMMA SignaturesDiffer ==
    /\ MessageSignatures # ChatSignatures /\ MessageSignatures # OtherSignatures
    /\ ChatSignatures # OtherSignatures
<1>1. "Edit" \in DOMAIN MessageSignatures /\ "Edit" \notin DOMAIN ChatSignatures
      /\ "Edit" \notin DOMAIN OtherSignatures
  BY DEF MessageSignatures, ChatSignatures, OtherSignatures
<1>2. "Leave" \in DOMAIN ChatSignatures /\ "Leave" \notin DOMAIN OtherSignatures
  BY DEF ChatSignatures, OtherSignatures
<1> QED
  BY <1>1, <1>2

LEMMA MessageSendsOK == TableSigned(MessageSends, MessageSignatures)
<1>1. \A m \in DOMAIN MessageSends :
        m \in DOMAIN MessageSignatures /\ m \notin DOMAIN ChatSignatures /\ m \notin DOMAIN OtherSignatures
  BY DEF MessageSends, MessageSignatures, ChatSignatures, OtherSignatures
<1>2. \A m \in DOMAIN MessageSends : RowOK(m, MessageSends[m])
  BY DEF MessageSends, RowOK, MutatingProcedures, ReadOnly, Row, Id, Reply, Format, IdempotencyOptions, ReplyTarget, TextFormatInput, SendAttachmentOptions, SendMultipartOptions, SendTextOptions, MessagePart, MiniAppLayout, CustomizedMiniAppMessage
<1>3. \A m \in DOMAIN MessageSends : SetsAll(MessageSends[m], MessageSignatures[m])
  BY DEF MessageSends, MessageSignatures, SetsAll, Pointers, IntPointers, Ints, Row, Id, Reply, Format, IdempotencyOptions, ReplyTarget, TextFormatInput, SendAttachmentOptions, SendMultipartOptions, SendTextOptions, MessagePart, MiniAppLayout, CustomizedMiniAppMessage
<1> QED
  BY <1>1, <1>2, <1>3, SignaturesDiffer DEF TableSigned, Signatures

LEMMA MessageChangesOK == TableSigned(MessageChanges, MessageSignatures)
<1>1. \A m \in DOMAIN MessageChanges :
        m \in DOMAIN MessageSignatures /\ m \notin DOMAIN ChatSignatures /\ m \notin DOMAIN OtherSignatures
  BY DEF MessageChanges, MessageSignatures, ChatSignatures, OtherSignatures
<1>2. \A m \in DOMAIN MessageChanges : RowOK(m, MessageChanges[m])
  BY DEF MessageChanges, RowOK, MutatingProcedures, ReadOnly, Row, Id, Target, Part, IdempotencyOptions, PartOptions, EditOptions, Reaction, StickerInput
<1>3. \A m \in DOMAIN MessageChanges : SetsAll(MessageChanges[m], MessageSignatures[m])
  BY DEF MessageChanges, MessageSignatures, SetsAll, Pointers, IntPointers, Ints, Row, Id, Target, Part, IdempotencyOptions, PartOptions, EditOptions, Reaction, StickerInput
<1> QED
  BY <1>1, <1>2, <1>3, SignaturesDiffer DEF TableSigned, Signatures

LEMMA MessageReadsOK == TableSigned(MessageReads, MessageSignatures)
<1>1. \A m \in DOMAIN MessageReads :
        m \in DOMAIN MessageSignatures /\ m \notin DOMAIN ChatSignatures /\ m \notin DOMAIN OtherSignatures
  BY DEF MessageReads, MessageSignatures, ChatSignatures, OtherSignatures
<1>2. \A m \in DOMAIN MessageReads : RowOK(m, MessageReads[m])
  BY DEF MessageReads, RowOK, MutatingProcedures, ReadOnly, Row, Target, Listing, Stream, MessageListFilter
<1>3. \A m \in DOMAIN MessageReads : SetsAll(MessageReads[m], MessageSignatures[m])
  BY DEF MessageReads, MessageSignatures, SetsAll, Pointers, IntPointers, Ints, Row, Target, Listing, Stream, MessageListFilter
<1> QED
  BY <1>1, <1>2, <1>3, SignaturesDiffer DEF TableSigned, Signatures

LEMMA ChatMethodsOK == TableSigned(ChatMethods, ChatSignatures)
<1>1. \A m \in DOMAIN ChatMethods :
        m \in DOMAIN ChatSignatures /\ m \notin DOMAIN MessageSignatures /\ m \notin DOMAIN OtherSignatures
  BY DEF ChatMethods, MessageSignatures, ChatSignatures, OtherSignatures
<1>2. \A m \in DOMAIN ChatMethods : RowOK(m, ChatMethods[m])
  BY DEF ChatMethods, RowOK, MutatingProcedures, ReadOnly, Row, Id, Stream, CreateChatOptions, IdempotencyOptions
<1>3. \A m \in DOMAIN ChatMethods : SetsAll(ChatMethods[m], ChatSignatures[m])
  BY DEF ChatMethods, ChatSignatures, SetsAll, Pointers, IntPointers, Ints, Row, Id, Stream, CreateChatOptions, IdempotencyOptions
<1> QED
  BY <1>1, <1>2, <1>3, SignaturesDiffer DEF TableSigned, Signatures

LEMMA GroupMethodsOK == TableSigned(GroupMethods, ChatSignatures)
<1>1. \A m \in DOMAIN GroupMethods :
        m \in DOMAIN ChatSignatures /\ m \notin DOMAIN MessageSignatures /\ m \notin DOMAIN OtherSignatures
  BY DEF GroupMethods, MessageSignatures, ChatSignatures, OtherSignatures
<1>2. \A m \in DOMAIN GroupMethods : RowOK(m, GroupMethods[m])
  BY DEF GroupMethods, RowOK, MutatingProcedures, ReadOnly, Row, Id, Stream, IdempotencyOptions
<1>3. \A m \in DOMAIN GroupMethods : SetsAll(GroupMethods[m], ChatSignatures[m])
  BY DEF GroupMethods, ChatSignatures, SetsAll, Pointers, IntPointers, Ints, Row, Id, Stream, IdempotencyOptions
<1> QED
  BY <1>1, <1>2, <1>3, SignaturesDiffer DEF TableSigned, Signatures

LEMMA PollMethodsOK == TableSigned(PollMethods, OtherSignatures)
<1>1. \A m \in DOMAIN PollMethods :
        m \in DOMAIN OtherSignatures /\ m \notin DOMAIN MessageSignatures /\ m \notin DOMAIN ChatSignatures
  BY DEF PollMethods, MessageSignatures, ChatSignatures, OtherSignatures
<1>2. \A m \in DOMAIN PollMethods : RowOK(m, PollMethods[m])
  BY DEF PollMethods, RowOK, MutatingProcedures, ReadOnly, Row, Id, Stream, IdempotencyOptions
<1>3. \A m \in DOMAIN PollMethods : SetsAll(PollMethods[m], OtherSignatures[m])
  BY DEF PollMethods, OtherSignatures, SetsAll, Pointers, IntPointers, Ints, Row, Id, Stream, IdempotencyOptions
<1> QED
  BY <1>1, <1>2, <1>3, SignaturesDiffer DEF TableSigned, Signatures

LEMMA LocationMethodsOK == TableSigned(LocationMethods, OtherSignatures)
<1>1. \A m \in DOMAIN LocationMethods :
        m \in DOMAIN OtherSignatures /\ m \notin DOMAIN MessageSignatures /\ m \notin DOMAIN ChatSignatures
  BY DEF LocationMethods, MessageSignatures, ChatSignatures, OtherSignatures
<1>2. \A m \in DOMAIN LocationMethods : RowOK(m, LocationMethods[m])
  BY DEF LocationMethods, RowOK, MutatingProcedures, ReadOnly, Row, Id, Stream, IdempotencyOptions
<1>3. \A m \in DOMAIN LocationMethods : SetsAll(LocationMethods[m], OtherSignatures[m])
  BY DEF LocationMethods, OtherSignatures, SetsAll, Pointers, IntPointers, Ints, Row, Id, Stream, IdempotencyOptions
<1> QED
  BY <1>1, <1>2, <1>3, SignaturesDiffer DEF TableSigned, Signatures

LEMMA AttachmentMethodsOK == TableSigned(AttachmentMethods, OtherSignatures)
<1>1. \A m \in DOMAIN AttachmentMethods :
        m \in DOMAIN OtherSignatures /\ m \notin DOMAIN MessageSignatures /\ m \notin DOMAIN ChatSignatures
  BY DEF AttachmentMethods, MessageSignatures, ChatSignatures, OtherSignatures
<1>2. \A m \in DOMAIN AttachmentMethods : RowOK(m, AttachmentMethods[m])
  BY DEF AttachmentMethods, RowOK, MutatingProcedures, ReadOnly, Row, Stream, AttachmentInput
<1>3. \A m \in DOMAIN AttachmentMethods : SetsAll(AttachmentMethods[m], OtherSignatures[m])
  BY DEF AttachmentMethods, OtherSignatures, SetsAll, Pointers, IntPointers, Ints, Row, Stream, AttachmentInput
<1> QED
  BY <1>1, <1>2, <1>3, SignaturesDiffer DEF TableSigned, Signatures

LEMMA AddressMethodsOK == TableSigned(AddressMethods, OtherSignatures)
<1>1. \A m \in DOMAIN AddressMethods :
        m \in DOMAIN OtherSignatures /\ m \notin DOMAIN MessageSignatures /\ m \notin DOMAIN ChatSignatures
  BY DEF AddressMethods, MessageSignatures, ChatSignatures, OtherSignatures
<1>2. \A m \in DOMAIN AddressMethods : RowOK(m, AddressMethods[m])
  BY DEF AddressMethods, RowOK, MutatingProcedures, ReadOnly, Row
<1>3. \A m \in DOMAIN AddressMethods : SetsAll(AddressMethods[m], OtherSignatures[m])
  BY DEF AddressMethods, OtherSignatures, SetsAll, Pointers, IntPointers, Ints, Row
<1> QED
  BY <1>1, <1>2, <1>3, SignaturesDiffer DEF TableSigned, Signatures

LEMMA EventMethodsOK == TableSigned(EventMethods, OtherSignatures)
<1>1. \A m \in DOMAIN EventMethods :
        m \in DOMAIN OtherSignatures /\ m \notin DOMAIN MessageSignatures /\ m \notin DOMAIN ChatSignatures
  BY DEF EventMethods, MessageSignatures, ChatSignatures, OtherSignatures
<1>2. \A m \in DOMAIN EventMethods : RowOK(m, EventMethods[m])
  BY DEF EventMethods, RowOK, MutatingProcedures, ReadOnly, Stream
<1>3. \A m \in DOMAIN EventMethods : SetsAll(EventMethods[m], OtherSignatures[m])
  BY DEF EventMethods, OtherSignatures, SetsAll, Pointers, IntPointers, Ints, Stream
<1> QED
  BY <1>1, <1>2, <1>3, SignaturesDiffer DEF TableSigned, Signatures

\* Every signature has a row.
LEMMA MethodsHaveRows == \A m \in Methods : \E table \in Tables : m \in DOMAIN table
<1>1. DOMAIN MessageSignatures \subseteq
        DOMAIN MessageSends \cup DOMAIN MessageChanges \cup DOMAIN MessageReads
  BY DEF MessageSignatures, MessageSends, MessageChanges, MessageReads
<1>2. DOMAIN ChatSignatures \subseteq DOMAIN ChatMethods \cup DOMAIN GroupMethods
  BY DEF ChatSignatures, ChatMethods, GroupMethods
<1>3. DOMAIN OtherSignatures \subseteq
        DOMAIN PollMethods \cup DOMAIN LocationMethods \cup DOMAIN AttachmentMethods
        \cup DOMAIN AddressMethods \cup DOMAIN EventMethods
  BY DEF OtherSignatures, PollMethods, LocationMethods, AttachmentMethods, AddressMethods,
     EventMethods
<1> QED
  BY <1>1, <1>2, <1>3 DEF Methods, Signatures, Tables

LEMMA RowsOK ==
    ASSUME NEW m \in Methods PROVE RowOK(m, Method[m]) /\ SetsAll(Method[m], Parameters[m])
<1>1. PICK table \in Tables : m \in DOMAIN table /\ Method[m] = table[m]
  BY MethodsHaveRows DEF Method
<1>2. PICK signatures \in Signatures : m \in DOMAIN signatures /\ Parameters[m] = signatures[m]
  BY DEF Methods, Parameters
<1>3. \E s \in Signatures : TableSigned(table, s)
  BY <1>1, MessageSendsOK, MessageChangesOK, MessageReadsOK, ChatMethodsOK, GroupMethodsOK,
     PollMethodsOK, LocationMethodsOK, AttachmentMethodsOK, AddressMethodsOK, EventMethodsOK
     DEF Tables, Signatures
<1> QED
  BY <1>1, <1>2, <1>3 DEF TableSigned

-----------------------------------------------------------------------------
(* The state of a call.                                                     *)

\* What an action leaves of a call.
Kept == /\ call' # NoCall /\ DOMAIN call' = CallFields
        /\ call'.method = call.method /\ call'.input = call.input
        /\ call'.request = call.request

LEMMA EnterStep ==
    ASSUME Progress, call # NoCall, NEW authorized, Enter(authorized)
    PROVE  /\ Kept
           /\ call'.state = "sent" /\ call'.authorized = authorized
           /\ call'.keyed = (/\ Installed(config, "idempotency") /\ ~Method[call.method].stream
                             /\ Method[call.method].procedure \in MutatingProcedures)
           /\ call'.waits = call.waits /\ call'.ended = call.ended
           /\ call'.result = call.result
  BY DEF Progress, Enter, Kept, CallFields, NoCall

LEMMA ReturnStep ==
    ASSUME Progress, call # NoCall, NEW result, NEW ended, Return(result, ended)
    PROVE  /\ Kept
           /\ call'.state = "returned" /\ call'.result = result /\ call'.ended = ended
           /\ call'.authorized = call.authorized /\ call'.keyed = call.keyed
           /\ call'.waits = call.waits
  BY DEF Progress, Return, Kept, CallFields, NoCall

LEMMA WaitStep ==
    ASSUME Progress, call # NoCall, NEW cap,
           call' = [call EXCEPT !.state = "backoff", !.waits = Append(@, cap)]
    PROVE  /\ Kept
           /\ call'.state = "backoff" /\ call'.waits = Append(call.waits, cap)
           /\ call'.authorized = call.authorized /\ call'.keyed = call.keyed
           /\ call'.result = call.result /\ call'.ended = call.ended
  BY DEF Progress, Kept, CallFields, NoCall

LEMMA RetryStep ==
    ASSUME Progress, call # NoCall, call' = [call EXCEPT !.state = "sent"]
    PROVE  /\ Kept
           /\ call'.state = "sent" /\ call'.waits = call.waits
           /\ call'.authorized = call.authorized /\ call'.keyed = call.keyed
           /\ call'.result = call.result /\ call'.ended = call.ended
  BY DEF Progress, Kept, CallFields, NoCall

LEMMA InvokeStep ==
    ASSUME NEW m \in Methods, NEW input, Invoke(m, input)
    PROVE  /\ call' # NoCall /\ DOMAIN call' = CallFields
           /\ call'.state = (IF Rejects(m, input) THEN "returned" ELSE "token")
           /\ call'.method = m /\ call'.input = input
           /\ call'.request = (IF Rejects(m, input) THEN Nothing ELSE Request(m, input))
           /\ call'.keyed = FALSE /\ call'.authorized = FALSE
           /\ call'.waits = <<>> /\ call'.ended = "no"
           /\ call'.result = (IF Rejects(m, input) THEN InvalidArgument ELSE Nothing)
  BY DEF Invoke, CallFields, NoCall

LEMMA AtLeastOneAttempt ==
    ASSUME Configured
    PROVE  Attempts(config) \in Nat /\ Attempts(config) >= 1
<1>1. config \in Configs /\ config.retry.maxAttempts \in Int
  BY DEF Configured, Configs
<1> QED
  BY <1>1 DEF Attempts

\* An action of a call leaves the options and the configuration alone.
CallAction ==
    /\ call # NoCall /\ UNCHANGED <<options, config, stage, seen>>
    /\ \/ Authorize
       \/ \E f \in TokenFailures : TokenFails(f[1], f[2])
       \/ \E f \in AttemptFailures : AttemptFails(f)
       \/ Retry
       \/ \E reason \in {"canceled", "deadline_exceeded"} : ContextEnds(reason)
       \/ \E shape \in Shapes(call.method) : \E wire \in Answers(shape) : Succeeds(shape, wire)

Setup ==
    \/ \E address, source \in BOOLEAN : New(address, source)
    \/ \E option \in Options : ApplyOption(option)
    \/ Dial

OtherAction ==
    \/ Setup /\ call = NoCall /\ call' = NoCall /\ UNCHANGED seen
    \/ call = NoCall /\ UNCHANGED call /\ UNCHANGED <<options, config, stage>>
       /\ \E path \in DOMAIN Payloads : \E payload \in Payloads[path] :
             \E frame \in Frames(payload) : Receive(path, frame)
    \/ NextCall
    \/ UNCHANGED vars

\* Every step is one of these.
LEMMA Steps ==
    ASSUME Configured, [Next]_vars
    PROVE  \/ CallAction
           \/ \E m \in Methods : \E input \in Inputs(m) : Invoke(m, input)
           \/ OtherAction
<1> USE DEF CallAction, OtherAction
<1>1. ASSUME NEW address \in BOOLEAN, NEW source \in BOOLEAN, New(address, source) PROVE OtherAction
  BY <1>1 DEF Setup, New, Configured
<1>2. ASSUME NEW option \in Options, ApplyOption(option) PROVE OtherAction
  BY <1>2 DEF Setup, ApplyOption, Configured
<1>3. ASSUME Dial PROVE OtherAction
  BY <1>3 DEF Setup, Dial, Configured
<1>4. call.state \in {"token", "sent", "backoff"} => call # NoCall
  BY DEF NoCall
<1>5. Authorize => CallAction
  BY <1>4 DEF Authorize
<1>6. ASSUME NEW f \in TokenFailures, TokenFails(f[1], f[2]) PROVE CallAction
  BY <1>4, <1>6 DEF TokenFails
<1>7. ASSUME NEW f \in AttemptFailures, AttemptFails(f) PROVE CallAction
  BY <1>4, <1>7 DEF AttemptFails
<1>8. Retry => CallAction
  BY <1>4 DEF Retry
<1>9. ASSUME NEW reason \in {"canceled", "deadline_exceeded"}, ContextEnds(reason) PROVE CallAction
  BY <1>4, <1>9 DEF ContextEnds
<1>10. ASSUME NEW shape \in Shapes(call.method), NEW wire \in Answers(shape), Succeeds(shape, wire)
       PROVE  CallAction
  BY <1>4, <1>10 DEF Succeeds
<1>11. ASSUME NEW path \in DOMAIN Payloads, NEW payload \in Payloads[path],
              NEW frame \in Frames(payload), Receive(path, frame)
       PROVE  OtherAction
  BY <1>11 DEF Receive, Free
<1>12. Probes \subseteq Methods
  BY BoundsAssumption
<1> QED
  BY <1>1, <1>2, <1>3, <1>5, <1>6, <1>7, <1>8, <1>9, <1>10, <1>11, <1>12 DEF Next

\* Between an Invoke and its return the options stay what they were.
LEMMA CallActionKeeps ==
    ASSUME CallAction
    PROVE  /\ options' = options /\ config' = config /\ stage' = stage /\ seen' = seen
           /\ \A name : Given(name)' <=> Given(name)
  BY DEF CallAction, Given

LEMMA ConfiguredStep ==
    ASSUME Configured, [Next]_vars
    PROVE  Configured'
<1>1. ASSUME UNCHANGED <<options, config>>,
             stage' \in {"new", "options", "ready", "rejected"},
             call' # NoCall => stage' = "ready"
      PROVE  Configured'
  <2>1. /\ Zeroed' <=> Zeroed
        /\ \A j : Resets(j)' <=> Resets(j)
    BY <1>1 DEF Zeroed, Resets, ZeroFrom
  <2>2. ResolvedRetry' <=> ResolvedRetry
    BY <1>1, <2>1 DEF ResolvedRetry, LastGiven
  <2> QED
    BY <1>1, <2>1, <2>2 DEF Configured, Given
<1>2. ASSUME NEW address, NEW source, New(address, source) PROVE Configured'
  BY <1>1, <1>2 DEF New, Configured
<1>3. ASSUME NEW option \in Options, ApplyOption(option) PROVE Configured'
  BY <1>3, ApplyOptionStep
<1>4. ASSUME Dial PROVE Configured'
  BY <1>1, <1>4 DEF Dial, Configured
<1>5. ASSUME CallAction PROVE Configured'
  BY <1>1, <1>5 DEF CallAction, Configured
<1>6. ASSUME NEW m, NEW input, Invoke(m, input) PROVE Configured'
  BY <1>1, <1>6 DEF Invoke, Free, Configured
<1>7. ASSUME NEW path, NEW frame, Receive(path, frame) PROVE Configured'
  BY <1>1, <1>7 DEF Receive, Configured
<1>8. ASSUME NextCall PROVE Configured'
  BY <1>1, <1>8 DEF NextCall, Configured
<1>9. ASSUME UNCHANGED vars PROVE Configured'
  BY <1>1, <1>9 DEF vars, Configured
<1> QED
  BY <1>2, <1>3, <1>4, <1>5, <1>6, <1>7, <1>8, <1>9, Steps DEF Setup, OtherAction

LEMMA ProgressStep ==
    ASSUME Configured, Progress, [Next]_vars
    PROVE  Progress'
<1>1. ASSUME CallAction PROVE Progress'
  <2>1. call # NoCall /\ config' = config
    BY <1>1 DEF CallAction
  <2>2. /\ DOMAIN call = CallFields /\ call.method \in Methods
        /\ call.waits \in Seq(Int) /\ Len(call.waits) < Attempts(config)
        /\ \A n \in DOMAIN call.waits : call.waits[n] = BackoffCap(config.retry, n - 1)
        /\ call.state = "backoff" => ~Method[call.method].stream
        /\ call.state # "returned" => call.result = Nothing /\ call.ended = "no"
    BY <2>1 DEF Progress
  <2>3. ASSUME NEW authorized, Enter(authorized), call.state = "token" PROVE Progress'
    BY <2>1, <2>2, <2>3, EnterStep DEF Progress, Kept
  <2>4. ASSUME NEW result, NEW ended, Return(result, ended) PROVE Progress'
    BY <2>1, <2>2, <2>4, ReturnStep DEF Progress, Kept
  <2>5. CASE Authorize
    BY <2>3, <2>5 DEF Authorize
  <2>6. ASSUME NEW f, TokenFails(f[1], f[2]) PROVE Progress'
    BY <2>3, <2>4, <2>6 DEF TokenFails
  <2>7. ASSUME NEW f \in AttemptFailures, AttemptFails(f) PROVE Progress'
    <3> DEFINE cap == BackoffCap(config.retry, Len(call.waits))
    <3>1. CASE call' = [call EXCEPT !.state = "backoff", !.waits = Append(@, cap)]
               /\ ~Method[call.method].stream /\ Len(call.waits) < Attempts(config) - 1
               /\ call.state = "sent"
      <4>1. cap \in Int
        BY <2>2, BackoffCapType DEF Configured
      <4> HIDE DEF cap
      <4>2. /\ Kept /\ call'.state = "backoff" /\ call'.waits = Append(call.waits, cap)
            /\ call'.result = call.result /\ call'.ended = call.ended
        BY <2>1, <3>1, WaitStep
      <4>3. /\ call'.waits \in Seq(Int) /\ Len(call'.waits) = Len(call.waits) + 1
            /\ Len(call.waits) \in Nat /\ DOMAIN call'.waits = 1..Len(call.waits) + 1
            /\ DOMAIN call.waits = 1..Len(call.waits)
            /\ \A n \in 1..Len(call.waits) : call'.waits[n] = call.waits[n]
            /\ call'.waits[Len(call.waits) + 1] = cap
        BY <2>2, <4>1, <4>2
      <4>4. ASSUME NEW n \in DOMAIN call'.waits
            PROVE  call'.waits[n] = BackoffCap(config.retry, n - 1)
        <5>1. CASE n \in 1..Len(call.waits)
          BY <2>2, <4>3, <5>1
        <5>2. CASE n = Len(call.waits) + 1
          <6>1. n - 1 = Len(call.waits)
            BY <4>3, <5>2
          <6> QED
            BY <4>3, <5>2, <6>1 DEF cap
        <5> QED
          BY <4>3, <5>1, <5>2
      <4>5. Len(call'.waits) < Attempts(config)
        BY <3>1, <4>3, AtLeastOneAttempt
      <4> QED
        BY <2>1, <2>2, <3>1, <4>2, <4>3, <4>4, <4>5 DEF Progress, Kept
    <3>2. CASE Return(AsError(f), "no")
      BY <2>4, <3>2
    <3> QED
      BY <2>7, <3>1, <3>2 DEF AttemptFails
  <2>8. CASE Retry
    BY <2>1, <2>2, <2>8, RetryStep DEF Retry, Progress, Kept
  <2>9. ASSUME NEW reason, ContextEnds(reason) PROVE Progress'
    BY <2>4, <2>9 DEF ContextEnds
  <2>10. ASSUME NEW shape, NEW wire, Succeeds(shape, wire) PROVE Progress'
    BY <2>4, <2>10 DEF Succeeds
  <2> QED
    BY <1>1, <2>5, <2>6, <2>7, <2>8, <2>9, <2>10 DEF CallAction
<1>2. ASSUME NEW m \in Methods, NEW input, Invoke(m, input) PROVE Progress'
  <2>1. config' = config
    BY <1>2 DEF Invoke
  <2>2. <<>> \in Seq(Int) /\ Len(<<>>) = 0 /\ DOMAIN <<>> = {}
    OBVIOUS
  <2>3. /\ DOMAIN call' = CallFields /\ call'.method = m /\ call'.waits = <<>>
        /\ call'.state \in {"token", "returned"} /\ ~call'.authorized /\ call'.ended = "no"
        /\ call'.state # "returned" => call'.result = Nothing
    BY <1>2, InvokeStep
  <2>4. call'.waits \in Seq(Int) /\ Len(call'.waits) < Attempts(config') /\ DOMAIN call'.waits = {}
    BY <2>1, <2>2, <2>3, AtLeastOneAttempt
  <2> QED
    BY <2>3, <2>4 DEF Progress
<1>3. ASSUME OtherAction PROVE Progress'
  BY <1>3 DEF OtherAction, Progress, NextCall, vars
<1> QED
  BY <1>1, <1>2, <1>3, Steps

\* An idempotency key.
LEMMA WritesCarryKeysStep ==
    ASSUME Configured, Progress, WritesCarryKeys, [Next]_vars
    PROVE  WritesCarryKeys'
<1>1. ASSUME CallAction PROVE WritesCarryKeys'
  <2>1. call # NoCall /\ \A name : Given(name)' <=> Given(name)
    BY <1>1, CallActionKeeps DEF CallAction
  <2>2. ASSUME NEW authorized, Enter(authorized) PROVE WritesCarryKeys'
    <3>1. /\ call'.method = call.method
          /\ call'.keyed <=> /\ Installed(config, "idempotency") /\ ~Method[call.method].stream
                             /\ Method[call.method].procedure \in MutatingProcedures
      BY <2>1, <2>2, EnterStep DEF Kept
    <3>2. Installed(config, "idempotency") <=> Given("WithAutoIdempotency")
      BY ChainAsConfigured DEF Configured, Configs
    <3>3. ~Method[call.method].stream =>
            (Method[call.method].procedure \in MutatingProcedures
               <=> Method[call.method].procedure \notin ReadOnly)
      BY <2>1, RowsOK DEF Progress, RowOK
    <3> QED
      BY <2>1, <3>1, <3>2, <3>3 DEF WritesCarryKeys, Writes
  <2>3. ASSUME NEW result, NEW ended, Return(result, ended) PROVE WritesCarryKeys'
    BY <2>1, <2>3, ReturnStep DEF WritesCarryKeys
  <2>4. ASSUME call'.method = call.method, call'.input = call.input,
               call'.keyed = call.keyed, call.state \in {"sent", "backoff"}
        PROVE  WritesCarryKeys'
    BY <2>1, <2>4 DEF WritesCarryKeys, Writes, OwnKey
  <2>5. CASE Authorize
    BY <2>2, <2>5 DEF Authorize
  <2>6. ASSUME NEW f, TokenFails(f[1], f[2]) PROVE WritesCarryKeys'
    BY <2>2, <2>3, <2>6 DEF TokenFails
  <2>7. ASSUME NEW f, AttemptFails(f) PROVE WritesCarryKeys'
    BY <2>1, <2>3, <2>4, <2>7, WaitStep DEF AttemptFails, Kept
  <2>8. CASE Retry
    BY <2>1, <2>4, <2>8, RetryStep DEF Retry, Kept
  <2>9. ASSUME NEW reason, ContextEnds(reason) PROVE WritesCarryKeys'
    BY <2>3, <2>9 DEF ContextEnds
  <2>10. ASSUME NEW shape, NEW wire, Succeeds(shape, wire) PROVE WritesCarryKeys'
    BY <2>3, <2>10 DEF Succeeds
  <2> QED
    BY <1>1, <2>5, <2>6, <2>7, <2>8, <2>9, <2>10 DEF CallAction
<1>2. ASSUME NEW m \in Methods, NEW input, Invoke(m, input) PROVE WritesCarryKeys'
  BY <1>2, InvokeStep DEF WritesCarryKeys
<1>3. ASSUME OtherAction PROVE WritesCarryKeys'
  BY <1>3 DEF OtherAction, WritesCarryKeys, Writes, OwnKey, NextCall, NoCall, vars, Given
<1> QED
  BY <1>1, <1>2, <1>3, Steps

-----------------------------------------------------------------------------
(* Requests.                                                                *)

\* A kind that setReaction sends reads back as itself.
LEMMA ReactionKindsInvert ==
    ASSUME NEW k \in DOMAIN SettableReactions
    PROVE  ReactionKindFromProto(SettableReactions[k]) = k
<1>1. SettableReactions[k] # "STICKER"
  BY DEF SettableReactions
<1>2. \A j \in DOMAIN SettableReactions : SettableReactions[j] = SettableReactions[k] => j = k
  BY DEF SettableReactions
<1>3. (CHOOSE j \in DOMAIN SettableReactions : SettableReactions[j] = SettableReactions[k]) = k
  BY <1>2
<1> QED
  BY <1>1, <1>3 DEF ReactionKindFromProto

\* The input of a call has the types of the signature.
TypedValue(field, value) ==
    /\ field = "kind" => \E k \in ReactionKinds : value = <<k>>
    /\ field = "companionKind" => \E k \in CompanionKinds : value = <<k>>
    /\ field \in Ints => \E n \in Int : value = Number(n)
    /\ field \in IntPointers => value = Nil \/ \E n \in Int : value = Number(n)

LEMMA PointersUnset ==
    ASSUME NEW f \in Pointers \cup IntPointers PROVE Unset(f) = Nil
<1>1. f \notin Ints
  BY DEF Pointers, IntPointers, Ints
<1> QED
  BY <1>1 DEF Unset

LEMMA ValuesTyped ==
    ASSUME NEW f, NEW value, value = Base(f) \/ value \in Values(f)
    PROVE  TypedValue(f, value)
<1>1. CASE f = "kind"
  <2>1. "love" \in ReactionKinds
    BY DEF ReactionKinds
  <2>2. Base(f) = <<"love">>
    BY <1>1 DEF Base
  <2>3. f \notin Ints /\ f \notin IntPointers /\ f \notin Pointers
        /\ f # "companionKind" /\ f # "formatKind"
    BY <1>1 DEF Ints, IntPointers, Pointers
  <2>5. Values(f) = {<<k>> : k \in ReactionKinds}
    BY <1>1, <2>3 DEF Values
  <2>4. \E k \in ReactionKinds : value = <<k>>
    <3>1. CASE value = Base(f)
      BY <2>1, <2>2, <3>1
    <3>2. CASE value \in Values(f)
      BY <2>5, <3>2
    <3> QED
      BY <3>1, <3>2
  <2> QED
    BY <2>3, <2>4 DEF TypedValue
<1>2. CASE f = "companionKind"
  BY <1>2 DEF TypedValue, Base, Unset, Zero, Values, CompanionKinds, Ints, IntPointers, Pointers
<1>3. CASE f \in Ints
  <2>1. f \notin Pointers \cup IntPointers \cup {"kind", "companionKind", "formatKind"}
    BY <1>3 DEF Ints, IntPointers, Pointers
  <2>2. Base(f) = Number(0) /\ Values(f) = {Number(n) : n \in Numbers}
    BY <1>3, <2>1 DEF Base, Unset, Values
  <2> QED
    BY <1>3, <2>1, <2>2, NumbersAssumption DEF TypedValue
<1>4. CASE f \in IntPointers
  <2>1. f \notin Ints /\ f # "kind" /\ f # "companionKind" /\ f # "formatKind"
        /\ f \notin Pointers
    BY <1>4 DEF Ints, IntPointers, Pointers
  <2>2. Base(f) = Nil
    BY <2>1, <1>4, PointersUnset DEF Base
  <2>3. Values(f) = {Nil} \cup {Number(n) : n \in Numbers}
    BY <1>4, <2>1 DEF Values
  <2>4. value = Nil \/ \E n \in Int : value = Number(n)
    BY <2>2, <2>3, NumbersAssumption
  <2> QED
    BY <2>1, <2>4 DEF TypedValue
<1>5. CASE f \notin Ints \cup IntPointers \cup {"kind", "companionKind"}
  BY <1>5 DEF TypedValue
<1> QED
  BY <1>1, <1>2, <1>3, <1>4, <1>5

LEMMA InputsTyped ==
    ASSUME NEW m \in Methods, NEW input \in Inputs(m), NEW f \in Parameters[m]
    PROVE  TypedValue(f, input[f])
<1>1. CASE options \notin Surveys
  BY <1>1, ValuesTyped DEF Inputs, BaseInput
<1>2. CASE options \in Surveys
  <2>1. PICK given \in SUBSET Parameters[m] :
          \E v \in [given -> UNION {Values(g) : g \in given}] :
            /\ \A g \in given : v[g] \in Values(g)
            /\ input = [g \in Parameters[m] |-> IF g \in given THEN v[g] ELSE Base(g)]
    BY <1>2 DEF Inputs, kSubset
  <2> QED
    BY <2>1, ValuesTyped
<1> QED
  BY <1>1, <1>2

\* A number that fits survives the conversion.
LEMMA Int32InRange ==
    ASSUME NEW n \in Int, n \in -Half32..Half32 - 1 PROVE Int32(n) = n
<1>1. Half32 \in Nat /\ Half32 > 0 /\ n + Half32 \in Nat /\ n + Half32 < 2 * Half32
  BY NumbersAssumption
<1> DEFINE h == 2 * Half32
           y == n + Half32
<1>2. h \in Nat /\ h > 0 /\ y \in Nat /\ y < h
  BY <1>1
<1> HIDE DEF h, y
<1>3. y % h = y
  BY <1>2
<1> QED
  BY <1>1, <1>3 DEF Int32, h, y

LEMMA NumberOf ==
    ASSUME NEW n PROVE Number(n)[2] = n
  BY DEF Number

LEMMA ReactionParameters ==
    ASSUME NEW m \in {"AddReaction", "RemoveReaction"}
    PROVE  m \in Methods /\ "kind" \in Parameters[m]
<1>1. m \in DOMAIN MessageChanges /\ m \in DOMAIN MessageSignatures
      /\ "kind" \in MessageSignatures[m]
  BY DEF MessageChanges, MessageSignatures, Reaction
<1>2. m \in Methods
  BY <1>1 DEF Methods, Signatures
<1>3. PICK signatures \in Signatures : m \in DOMAIN signatures /\ Parameters[m] = signatures[m]
  BY <1>2 DEF Methods, Parameters
<1>4. signatures = MessageSignatures
  BY <1>1, <1>3, MessageChangesOK DEF TableSigned
<1> QED
  BY <1>1, <1>2, <1>3, <1>4

\* The code refuses exactly what the documentation calls invalid.
LEMMA RejectsInvalid ==
    ASSUME NEW m \in {"AddReaction", "RemoveReaction"}, NEW input,
           NEW k \in ReactionKinds, input["kind"] = <<k>>
    PROVE  Rejects(m, input) <=> Invalid(input)
<1>1. input["kind"][1] = k
  OBVIOUS
<1>2. \A j : (<<k>> = <<j>>) <=> k = j
  OBVIOUS
<1>3. k \notin DOMAIN SettableReactions <=> k \in {"sticker", "unknown", ""}
  BY DEF ReactionKinds, SettableReactions
<1> QED
  BY <1>1, <1>2, <1>3 DEF Rejects, Invalid

\* A parameter that is left out is one that the server takes for what was meant.
LEMMA UnsentFaithful ==
    ASSUME NEW m \in Methods, NEW input, NEW f \in Parameters[m],
           TypedValue(f, input[f]),
           f \in DOMAIN Within => input[Within[f]] # Unset(Within[f]),
           ~IsSent(m, input, f)
    PROVE  Unset(f) = Meant(input, f)
<1>1. SetsAll(Method[m], Parameters[m]) /\ RowOK(m, Method[m])
  BY RowsOK
<1>2. CASE ~Built(m, input, f)
  <2>1. m = "CreateChat" /\ f \in InitialMessage /\ input[f] = Unset(f)
    <3>1. f \in DOMAIN Within /\ ~(m = "CreateChat" /\ f \in InitialMessage)
          => Holders(m, f) = {Within[f]}
      BY DEF Holders
    <3>2. f \notin DOMAIN Within /\ ~(m = "CreateChat" /\ f \in InitialMessage)
          => Holders(m, f) = {}
      BY DEF Holders
    <3>3. m = "CreateChat" /\ f \in InitialMessage => Holders(m, f) = InitialMessage
      BY DEF Holders, InitialMessage, Within
    <3> QED
      BY <1>2, <3>1, <3>2, <3>3 DEF Built
  <2> QED
    BY <2>1 DEF Meant, InitialMessage
<1>3. CASE ~Sets(m, input, f)
  <2>1. CASE f \in Method[m].nonzero
             /\ f \notin Pointers \cup IntPointers \cup Ints \cup {"companionKind", "kind"}
    <3>1. Unset(f) = Zero /\ f # "pageSize" /\ f # "companionKind"
      BY <2>1 DEF Unset, Ints
    <3>2. CASE input[f] = Zero
      BY <3>1, <3>2 DEF Meant
    <3>3. CASE f = "textEffect" /\ input["formatKind"] # <<"effect">>
      BY <3>1, <3>3 DEF Meant
    <3> QED
      BY <1>3, <2>1, <3>2, <3>3 DEF Sets
  <2>2. CASE f \in Method[m].present /\ f \in Pointers \cup IntPointers
    <3>1. f \notin {"textEffect", "pageSize", "companionKind"}
      BY <2>2 DEF Pointers, IntPointers
    <3>2. input[f] = Nil /\ Unset(f) = Nil
      <4>1. input[f] = Nil
        BY <1>3, <2>2 DEF Sets
      <4>2. f \in Pointers \cup IntPointers
        BY <2>2
      <4> QED
        BY <4>1, <4>2, PointersUnset
    <3> QED
      BY <3>1, <3>2 DEF Meant
  <2>3. CASE f \in Method[m].positive /\ f = "pageSize"
    <3>1. PICK n \in Int : input[f] = Number(n)
      BY <2>3 DEF TypedValue, Ints
    <3>2. input[f][2] = n
      BY <3>1, NumberOf
    <3>3. n <= 0
      BY <1>3, <2>3, <3>2 DEF Sets
    <3>4. Unset(f) = Number(0)
      BY <2>3 DEF Unset, Pointers, IntPointers, Ints
    <3> QED
      BY <2>3, <3>2, <3>3, <3>4 DEF Meant
  <2> QED
    BY <1>1, <1>3, <2>1, <2>2, <2>3 DEF SetsAll, Sets
<1> QED
  BY <1>2, <1>3 DEF IsSent

\* A parameter that is sent reads back as what was meant.
LEMMA SentFaithful ==
    ASSUME NEW m \in Methods, NEW input, ~Rejects(m, input), NEW f \in Parameters[m],
           TypedValue(f, input[f]), Fits(input, f), IsSent(m, input, f)
    PROVE  Received(Request(m, input), f) = Meant(input, f)
<1>1. SetsAll(Method[m], Parameters[m]) /\ RowOK(m, Method[m])
  BY RowsOK
<1>2. f \in Fields(m)
  BY DEF IsSent, Sets, Fields
<1>3. f \in DOMAIN Request(m, input) /\ Request(m, input)[f] = Encode(m, input, f)
  BY <1>2 DEF Request
<1>4. f # "isSet" /\ f # "service"
  BY <1>1 DEF SetsAll
<1>5. CASE f = "kind"
  <2>1. m \in {"AddReaction", "RemoveReaction"}
    BY <1>1, <1>2, <1>5 DEF RowOK, Fields
  <2>2. PICK k \in ReactionKinds : input[f] = <<k>>
    BY <1>5 DEF TypedValue
  <2>3. input[f][1] = k /\ k \in DOMAIN SettableReactions
    BY <1>5, <2>1, <2>2 DEF Rejects
  <2>4. Request(m, input)[f] = <<SettableReactions[k]>>
    <3>1. f \notin Ints \cup IntPointers \cup {"isSet", "service", "companionKind"}
      BY <1>5 DEF Ints, IntPointers
    <3> QED
      BY <1>3, <1>5, <2>3, <3>1 DEF Encode
  <2>5. Received(Request(m, input), f) = <<k>>
    BY <1>3, <1>5, <2>3, <2>4, ReactionKindsInvert DEF Received
  <2> QED
    BY <1>5, <2>2, <2>5 DEF Meant
<1>6. CASE f = "companionKind"
  <2>1. PICK k \in CompanionKinds : input[f] = <<k>>
    BY <1>6 DEF TypedValue
  <2>2. Request(m, input)[f] = <<CompanionKindToProto(k)>>
    <3>1. f \notin Ints \cup IntPointers \cup {"isSet", "service", "kind"}
      BY <1>6 DEF Ints, IntPointers
    <3>2. input[f][1] = k
      BY <2>1
    <3> QED
      BY <1>3, <1>6, <3>1, <3>2 DEF Encode
  <2>3. Received(Request(m, input), f) = <<CompanionKindFromProto(CompanionKindToProto(k))>>
    BY <1>3, <1>6, <2>2 DEF Received
  <2>4. (<<k>> = <<"live-photo-video">>) <=> k = "live-photo-video"
    OBVIOUS
  <2>5. Meant(input, f) = IF k # "live-photo-video" THEN <<"unknown">> ELSE <<k>>
    BY <1>6, <2>1, <2>4 DEF Meant
  <2> QED
    BY <2>3, <2>5 DEF CompanionKindFromProto, CompanionKindToProto
<1>7. CASE f \in Ints \cup IntPointers
  <2>1. f \notin {"kind", "companionKind", "textEffect"}
    BY <1>7 DEF Ints, IntPointers
  <2>2. input[f] # Nil
    <3>1. CASE f \in Ints
      <4>1. PICK n \in Int : input[f] = Number(n)
        BY <3>1 DEF TypedValue
      <4>2. Len(Number(n)) = 2 /\ Len(Nil) = 1
        BY DEF Number, Nil
      <4> QED
        BY <4>1, <4>2
    <3>2. CASE f \in IntPointers
      <4>1. f \notin Ints \cup {"textEffect", "pageSize", "isSet", "service"}
        BY <3>2 DEF Ints, IntPointers
      <4>2. f \notin Method[m].always \cup Method[m].nonzero \cup Method[m].positive
        BY <1>1, <3>2 DEF SetsAll
      <4> QED
        BY <4>2 DEF IsSent, Sets
    <3> QED
      BY <1>7, <3>1, <3>2
  <2>3. PICK n \in Int : input[f] = Number(n)
    BY <1>7, <2>2 DEF TypedValue
  <2>4. input[f][2] = n /\ n \in -Half32..Half32 - 1
    BY <1>7, <2>2, <2>3, NumberOf DEF Fits
  <2>5. Received(Request(m, input), f) = Number(n)
    BY <1>3, <1>4, <1>7, <2>1, <2>4, Int32InRange DEF Encode, Received
  <2>6. f = "pageSize" => n > 0
    BY <1>1, <2>4 DEF IsSent, Sets, RowOK
  <2> QED
    BY <2>1, <2>3, <2>4, <2>5, <2>6 DEF Meant
<1>8. CASE f \notin Ints \cup IntPointers \cup {"kind", "companionKind"}
  <2>1. Received(Request(m, input), f) = input[f]
    BY <1>3, <1>4, <1>8 DEF Encode, Received
  <2>2. f # "pageSize" /\ (f = "textEffect" => input["formatKind"] = <<"effect">>)
    BY <1>1, <1>8 DEF IsSent, Sets, RowOK, Ints
  <2> QED
    BY <1>8, <2>1, <2>2 DEF Meant
<1> QED
  BY <1>5, <1>6, <1>7, <1>8

LEMMA CallActionKept ==
    ASSUME Progress, CallAction
    PROVE  Kept
<1>1. call # NoCall
  BY DEF CallAction
<1>2. ASSUME NEW authorized, Enter(authorized) PROVE Kept
  BY <1>1, <1>2, EnterStep
<1>3. ASSUME NEW result, NEW ended, Return(result, ended) PROVE Kept
  BY <1>1, <1>3, ReturnStep
<1>4. ASSUME NEW f, AttemptFails(f) PROVE Kept
  BY <1>1, <1>3, <1>4, WaitStep DEF AttemptFails
<1>5. Retry => Kept
  BY <1>1, RetryStep DEF Retry
<1> QED
  BY <1>2, <1>3, <1>4, <1>5
     DEF CallAction, Authorize, TokenFails, ContextEnds, Succeeds

LEMMA InvokeFaithful ==
    ASSUME NEW m \in Methods, NEW input \in Inputs(m), Invoke(m, input)
    PROVE  ServerSeesTheInput'
<1> DEFINE reacts == m \in {"AddReaction", "RemoveReaction"}
<1>1. /\ call'.method = m /\ call'.input = input
      /\ call'.request = (IF Rejects(m, input) THEN Nothing ELSE Request(m, input))
  BY InvokeStep
<1>2. Rejects(m, input) <=> (reacts /\ Invalid(input))
  <2>1. CASE reacts
    <3>1. "kind" \in Parameters[m]
      BY <2>1, ReactionParameters
    <3>2. PICK k \in ReactionKinds : input["kind"] = <<k>>
      BY <3>1, InputsTyped DEF TypedValue
    <3> QED
      BY <2>1, <3>2, RejectsInvalid
  <2>2. CASE ~reacts
    BY <2>2 DEF Rejects
  <2> QED
    BY <2>1, <2>2
<1>3. CASE Rejects(m, input)
  BY <1>1, <1>2, <1>3 DEF ServerSeesTheInput
<1>4. CASE ~Rejects(m, input)
  <2> DEFINE request == Request(m, input)
  <2>1. DOMAIN request = {g \in Fields(m) : IsSent(m, input, g)}
    BY DEF Request
  <2>2. RowOK(m, Method[m])
    BY RowsOK
  <2>3. reacts => "isSet" \in DOMAIN request
                  /\ request["isSet"] = IF m = "AddReaction" THEN Some ELSE Zero
    <3>1. ASSUME reacts PROVE "isSet" \in Fields(m) /\ IsSent(m, input, "isSet")
      <4>1. "isSet" \in Method[m].always /\ m # "CreateChat"
        BY <2>2, <3>1 DEF RowOK
      <4>2. "isSet" \notin DOMAIN Within
        BY DEF Within
      <4>3. Holders(m, "isSet") = {}
        BY <4>1, <4>2 DEF Holders
      <4> QED
        BY <4>1, <4>3 DEF Fields, IsSent, Sets, Built
    <3>2. "isSet" \notin Ints \cup IntPointers
      BY DEF Ints, IntPointers
    <3>3. Encode(m, input, "isSet") = IF m = "AddReaction" THEN Some ELSE Zero
      BY <3>2 DEF Encode
    <3> QED
      BY <3>1, <3>3 DEF Request
  <2>4. request # Nothing
    <3>1. DOMAIN Nothing = {"kind"}
      BY DEF Nothing
    <3>2. CASE reacts
      BY <2>3, <3>1, <3>2
    <3>3. CASE ~reacts
      <4>1. "kind" \notin Fields(m)
        BY <2>2, <3>3 DEF RowOK, Fields
      <4> QED
        BY <2>1, <3>1, <4>1
    <3> QED
      BY <3>2, <3>3
  <2>5. ASSUME NEW f \in Parameters[m], Fits(input, f),
               f \in DOMAIN Within => input[Within[f]] # Unset(Within[f])
        PROVE  Received(request, f) = Meant(input, f)
    <3>1. TypedValue(f, input[f])
      BY InputsTyped
    <3>2. CASE IsSent(m, input, f)
      BY <1>4, <2>5, <3>1, <3>2, SentFaithful
    <3>3. CASE ~IsSent(m, input, f)
      <4>1. Received(request, f) = Unset(f)
        BY <2>1, <3>3 DEF Received
      <4> QED
        BY <2>5, <3>1, <3>3, <4>1, UnsentFaithful
    <3> QED
      BY <3>2, <3>3
  <2> HIDE DEF request
  <2>6. call'.request = request
    BY <1>1, <1>4 DEF request
  <2> QED
    BY <1>1, <1>2, <1>4, <2>3, <2>4, <2>5, <2>6 DEF ServerSeesTheInput
<1> QED
  BY <1>3, <1>4

LEMMA ServerSeesTheInputStep ==
    ASSUME Configured, Progress, ServerSeesTheInput, [Next]_vars
    PROVE  ServerSeesTheInput'
<1>1. ASSUME CallAction PROVE ServerSeesTheInput'
  <2>1. Kept /\ call # NoCall
    BY <1>1, CallActionKept DEF CallAction
  <2> QED
    BY <2>1 DEF Kept, ServerSeesTheInput
<1>2. ASSUME NEW m \in Methods, NEW input \in Inputs(m), Invoke(m, input)
      PROVE  ServerSeesTheInput'
  BY <1>2, InvokeFaithful
<1>3. ASSUME OtherAction PROVE ServerSeesTheInput'
  BY <1>3 DEF OtherAction, ServerSeesTheInput, NextCall, vars
<1> QED
  BY <1>1, <1>2, <1>3, Steps

-----------------------------------------------------------------------------
(* Errors.                                                                  *)

\* The class an imessage.Error matches is that of its status, if any.
LEMMA CategoriesOfOwn ==
    ASSUME NEW e
    PROVE  /\ e.kind = "own" =>
                Categories(e) = {c \in {"authentication", "notFound", "rateLimited",
                                        "validation", "connection"} : c = ClassOf(e.status)}
           /\ e.kind # "own" => Categories(e) = {}
<1> DEFINE Stati == {"unauthenticated", "not_found", "resource_exhausted",
                     "invalid_argument", "unavailable"}
<1>1. /\ \A t \in Sentinels : \E status \in Stati : t.code = None /\ t.status = status
      /\ \A status \in Stati : \E t \in Sentinels : t.code = None /\ t.status = status
  <2>1. Sentinels = {Error(None, status, FALSE) : status \in Stati}
    BY DEF Sentinels
  <2>2. \A status : Error(None, status, FALSE).code = None
                   /\ Error(None, status, FALSE).status = status
    BY DEF Error
  <2> HIDE DEF Stati
  <2> QED
    BY <2>1, <2>2
<1>2. \A t \in Sentinels : Is(e, t) <=> ClassOf(e.status) = ClassOf(t.status)
  BY <1>1 DEF Is
<1>3. {ClassOf(status) : status \in Stati} =
        {"authentication", "notFound", "rateLimited", "validation", "connection"}
  BY DEF ClassOf
<1> HIDE DEF Stati
<1>4. ASSUME e.kind = "own", NEW c
      PROVE  c \in Categories(e) <=> c = ClassOf(e.status) /\ \E status \in Stati : ClassOf(status) = c
  BY <1>1, <1>2, <1>4 DEF Categories
<1>5. e.kind # "own" => Categories(e) = {}
  BY DEF Categories
<1> QED
  BY <1>3, <1>4, <1>5

LEMMA Typed ==
    ASSUME NEW e, e.kind \in {"own", "plain"}
    PROVE  Cardinality(Categories(e)) <= 1 /\ AsError(e) = e
<1>1. AsError(e) = e
  BY DEF AsError
<1>2. Categories(e) \subseteq {ClassOf(e.status)}
  BY CategoriesOfOwn
<1>3. IsFiniteSet({ClassOf(e.status)}) /\ Cardinality({ClassOf(e.status)}) = 1
  BY FS_Singleton
<1>4. Cardinality(Categories(e)) <= 1
  BY <1>2, <1>3, FS_Subset
<1> QED
  BY <1>1, <1>4

\* What asError makes of a failure.
LEMMA AsErrorKinds ==
    ASSUME NEW failure
    PROVE  /\ failure.kind \in {"own", "plain"} => AsError(failure) = failure
           /\ failure.kind = "connect" =>
                /\ AsError(failure).kind = "own"
                /\ AsError(failure).status = failure.status
                /\ AsError(failure).retryable = failure.retryable
           /\ failure.kind = "context" /\ failure.reason \in {"canceled", "deadline_exceeded"} =>
                /\ AsError(failure).kind = "own"
                /\ AsError(failure).status = failure.reason
                /\ AsError(failure).retryable = FALSE
  BY DEF AsError, Error

\* A context that ended is a connection failure.
LEMMA ContextError ==
    ASSUME NEW e, e.kind = "own", e.status \in {"canceled", "deadline_exceeded"}
    PROVE  Categories(e) = {"connection"}
<1>1. ClassOf(e.status) = "connection"
  BY DEF ClassOf
<1> QED
  BY <1>1, CategoriesOfOwn

LEMMA FailuresAreTypedStep ==
    ASSUME Configured, Progress, FailuresAreTyped, [Next]_vars
    PROVE  FailuresAreTyped'
<1>1. ASSUME CallAction PROVE FailuresAreTyped'
  <2>1. call # NoCall
    BY <1>1 DEF CallAction
  <2>2. ASSUME NEW result, NEW ended, Return(result, ended),
               result.kind \in {"own", "plain"},
               ~Method[call.method].stream => result.kind = "own",
               ended \in {"sent", "backoff"} =>
                  /\ result.kind = "own" /\ ~result.retryable
                  /\ result.status \in {"canceled", "deadline_exceeded"}
        PROVE  FailuresAreTyped'
    <3>1. call'.result = result /\ call'.ended = ended /\ call'.method = call.method
      BY <2>1, <2>2, ReturnStep DEF Kept
    <3>2. Cardinality(Categories(result)) <= 1 /\ AsError(result) = result
      BY <2>2, Typed
    <3>3. ended \in {"sent", "backoff"} =>
             Categories(result) = {"connection"} /\ ~IsRetryable(result)
      BY <2>2, ContextError DEF IsRetryable
    <3> QED
      BY <2>2, <3>1, <3>2, <3>3 DEF FailuresAreTyped
  <2>3. ASSUME call'.state # "returned" PROVE FailuresAreTyped'
    BY <2>3 DEF FailuresAreTyped, Failed
  <2>4. ASSUME NEW authorized, Enter(authorized) PROVE FailuresAreTyped'
    BY <2>1, <2>3, <2>4, EnterStep
  <2>5. CASE Authorize
    BY <2>4, <2>5 DEF Authorize
  <2>6. ASSUME NEW f \in TokenFailures, TokenFails(f[1], f[2]) PROVE FailuresAreTyped'
    <3>1. f[1].kind \in {"own", "connect"} /\ f[2] \in {"no", "token"}
      BY DEF TokenFailures
    <3>2. AsError(f[1]).kind = "own"
      BY <3>1, AsErrorKinds
    <3> QED
      BY <2>2, <2>4, <2>6, <3>1, <3>2 DEF TokenFails
  <2>7. ASSUME NEW f \in AttemptFailures, AttemptFails(f) PROVE FailuresAreTyped'
    <3>1. CASE Return(AsError(f), "no")
      <4>1. f.kind \in {"plain", "connect"} /\ (f.kind = "plain" => Method[call.method].stream)
        BY <2>7, FailuresAssumption DEF AttemptFails
      <4>2. /\ AsError(f).kind \in {"own", "plain"}
            /\ ~Method[call.method].stream => AsError(f).kind = "own"
        BY <4>1, AsErrorKinds
      <4> QED
        BY <2>2, <3>1, <4>2
    <3>2. CASE call' = [call EXCEPT !.state = "backoff",
                          !.waits = Append(@, BackoffCap(config.retry, Len(@)))]
      BY <2>1, <2>3, <3>2, WaitStep
    <3> QED
      BY <2>7, <3>1, <3>2 DEF AttemptFails
  <2>8. CASE Retry
    BY <2>1, <2>3, <2>8, RetryStep DEF Retry
  <2>9. ASSUME NEW reason \in {"canceled", "deadline_exceeded"}, ContextEnds(reason)
        PROVE  FailuresAreTyped'
    <3> DEFINE failure1 == [kind |-> "connect", status |-> reason, header |-> None,
                            retryable |-> FALSE]
               failure2 == [kind |-> "context", reason |-> reason]
    <3>1. /\ AsError(failure1).kind = "own" /\ AsError(failure1).status = reason
          /\ AsError(failure1).retryable = FALSE
      BY AsErrorKinds
    <3>2. /\ AsError(failure2).kind = "own" /\ AsError(failure2).status = reason
          /\ AsError(failure2).retryable = FALSE
      BY AsErrorKinds
    <3>3. \/ Return(AsError(failure1), "sent") \/ Return(AsError(failure2), "backoff")
      BY <2>9 DEF ContextEnds
    <3> HIDE DEF failure1, failure2
    <3> QED
      BY <2>2, <3>1, <3>2, <3>3
  <2>10. ASSUME NEW shape, NEW wire, Succeeds(shape, wire) PROVE FailuresAreTyped'
    <3>1. PICK value : Return([kind |-> "value", shape |-> shape, wire |-> wire, value |-> value], "no")
      BY <2>10 DEF Succeeds
    <3>2. call'.result.kind = "value"
      BY <2>1, <3>1, ReturnStep
    <3> QED
      BY <3>2 DEF FailuresAreTyped, Failed
  <2> QED
    BY <1>1, <2>5, <2>6, <2>7, <2>8, <2>9, <2>10 DEF CallAction
<1>2. ASSUME NEW m \in Methods, NEW input, Invoke(m, input) PROVE FailuresAreTyped'
  <2>1. InvalidArgument.kind = "own"
    BY DEF InvalidArgument, Error
  <2>2. Cardinality(Categories(InvalidArgument)) <= 1 /\ AsError(InvalidArgument) = InvalidArgument
    BY <2>1, Typed
  <2> QED
    BY <1>2, <2>1, <2>2, InvokeStep DEF FailuresAreTyped, Failed
<1>3. ASSUME OtherAction PROVE FailuresAreTyped'
  BY <1>3 DEF OtherAction, FailuresAreTyped, Failed, NextCall, NoCall, vars
<1> QED
  BY <1>1, <1>2, <1>3, Steps

-----------------------------------------------------------------------------
(* Retries.                                                                 *)

\* A retryable failure of an authorized unary call used up the attempts.
Exhausted ==
    Failed /\ IsRetryable(call.result) /\ call.authorized /\ Given("WithRetry")
        /\ ~Method[call.method].stream
        => Len(call.waits) + 1 >= config.retry.maxAttempts

\* What a call has kept of its waits bounds and sizes them.
LEMMA WaitsAsConfigured ==
    Configured /\ Progress /\ (call # NoCall => Exhausted) => RetryAsConfigured
<1> SUFFICES ASSUME Configured, Progress, call # NoCall, Exhausted
             PROVE  LET retry == config.retry IN
                /\ ~BareAgain => ResolvedRetry
                /\ Len(call.waits) < IF Given("WithRetry") /\ retry.maxAttempts > 1
                                     THEN retry.maxAttempts ELSE 1
                /\ \A n \in DOMAIN call.waits :
                      /\ call.waits[n] <= retry.maxDelay
                      /\ retry.maxDelay > 0 => call.waits[n] > 0
                      /\ retry.initialDelay * 2^(n - 1) \in 1..Half - 1 =>
                            call.waits[n] = Capped(retry, n - 1)
                /\ Exhausted
  BY DEF RetryAsConfigured, Exhausted
<1> DEFINE retry == config.retry
<1>1. /\ config \in Configs /\ ResolvedRetry
      /\ config.retryEnabled <=> Given("WithRetry")
      /\ retry.maxAttempts \in Int /\ retry.initialDelay \in Int /\ retry.maxDelay \in Int
  BY DEF Configured, Configs
<1>2. Len(call.waits) < IF Given("WithRetry") /\ retry.maxAttempts > 1
                        THEN retry.maxAttempts ELSE 1
  BY <1>1, ChainAsConfigured DEF Progress
<1>3. ASSUME NEW n \in DOMAIN call.waits
      PROVE  /\ call.waits[n] <= retry.maxDelay
             /\ retry.maxDelay > 0 => call.waits[n] > 0
             /\ retry.initialDelay * 2^(n - 1) \in 1..Half - 1 =>
                  call.waits[n] = Capped(retry, n - 1)
  <2>1. n - 1 \in Nat
    BY DEF Progress
  <2>2. call.waits[n] = BackoffCap(retry, n - 1)
    BY DEF Progress
  <2> HIDE DEF retry
  <2> QED
    BY <1>1, <1>3, <2>1, <2>2, CapBounded
<1> QED
  BY <1>1, <1>2, <1>3

LEMMA RetryAsConfiguredStep ==
    ASSUME Configured, Progress, RetryAsConfigured, [Next]_vars
    PROVE  RetryAsConfigured'
<1>1. Configured' /\ Progress'
  BY ConfiguredStep, ProgressStep
<1>2. ASSUME CallAction PROVE Exhausted'
  <2>1. call # NoCall /\ config' = config /\ \A name : Given(name)' <=> Given(name)
    BY <1>2, CallActionKeeps DEF CallAction
  <2>2. ASSUME NEW result, NEW ended, Return(result, ended),
               result.kind = "own" => ~result.retryable \/ ~call.authorized
                                      \/ Method[call.method].stream
        PROVE  Exhausted'
    <3>1. /\ call'.result = result /\ call'.method = call.method
          /\ call'.authorized = call.authorized
      BY <2>1, <2>2, ReturnStep DEF Kept
    <3> QED
      BY <2>2, <3>1 DEF Exhausted, Failed, IsRetryable
  <2>3. ASSUME call'.state # "returned" PROVE Exhausted'
    BY <2>3 DEF Exhausted, Failed
  <2>4. ASSUME NEW authorized, Enter(authorized) PROVE Exhausted'
    BY <2>1, <2>3, <2>4, EnterStep
  <2>5. CASE Authorize
    BY <2>4, <2>5 DEF Authorize
  <2>6. ASSUME NEW f, TokenFails(f[1], f[2]) PROVE Exhausted'
    BY <2>1, <2>2, <2>4, <2>6 DEF TokenFails, Progress
  <2>7. ASSUME NEW f \in AttemptFailures, AttemptFails(f) PROVE Exhausted'
    <3>1. CASE Return(AsError(f), "no")
               /\ ~(/\ Installed(config, "retry") /\ ~Method[call.method].stream
                    /\ Len(call.waits) < Attempts(config) - 1
                    /\ f.kind = "connect" /\ f.retryable)
      <4>1. CASE Method[call.method].stream \/ ~(f.kind = "connect" /\ f.retryable)
        <5>1. f.kind \in {"plain", "connect"} /\ (f.kind = "plain" => Method[call.method].stream)
          BY <2>7, FailuresAssumption DEF AttemptFails
        <5> QED
          BY <2>2, <3>1, <4>1, <5>1, AsErrorKinds
      <4>2. CASE ~Installed(config, "retry")
        <5>1. ~Given("WithRetry")'
          BY <2>1, <4>2, ChainAsConfigured DEF Configured, Configs
        <5> QED
          BY <5>1 DEF Exhausted
      <4>3. CASE Installed(config, "retry") /\ ~(Len(call.waits) < Attempts(config) - 1)
        <5>1. call'.waits = call.waits /\ Len(call.waits) \in Nat
          BY <2>1, <3>1, ReturnStep DEF Progress
        <5>2. /\ config \in Configs /\ config.retryEnabled /\ config.retry.maxAttempts \in Int
          BY <4>3, ChainAsConfigured DEF Configured, Configs
        <5>3. Attempts(config) \in Nat /\ Attempts(config) >= config.retry.maxAttempts
          BY <5>2, ChainAsConfigured
        <5>4. Len(call.waits) + 1 >= config.retry.maxAttempts
          BY <4>3, <5>1, <5>2, <5>3
        <5> QED
          BY <2>1, <5>1, <5>4 DEF Exhausted
      <4> QED
        BY <3>1, <4>1, <4>2, <4>3
    <3>2. CASE call' = [call EXCEPT !.state = "backoff",
                          !.waits = Append(@, BackoffCap(config.retry, Len(@)))]
      BY <2>1, <2>3, <3>2, WaitStep
    <3> QED
      BY <2>7, <3>1, <3>2 DEF AttemptFails
  <2>8. CASE Retry
    BY <2>1, <2>3, <2>8, RetryStep DEF Retry
  <2>9. ASSUME NEW reason \in {"canceled", "deadline_exceeded"}, ContextEnds(reason)
        PROVE  Exhausted'
    <3> DEFINE failure1 == [kind |-> "connect", status |-> reason, header |-> None,
                            retryable |-> FALSE]
               failure2 == [kind |-> "context", reason |-> reason]
    <3>1. AsError(failure1).retryable = FALSE /\ AsError(failure2).retryable = FALSE
      BY AsErrorKinds
    <3>2. Return(AsError(failure1), "sent") \/ Return(AsError(failure2), "backoff")
      BY <2>9 DEF ContextEnds
    <3> HIDE DEF failure1, failure2
    <3> QED
      BY <2>2, <3>1, <3>2
  <2>10. ASSUME NEW shape, NEW wire, Succeeds(shape, wire) PROVE Exhausted'
    <3>1. PICK value : Return([kind |-> "value", shape |-> shape, wire |-> wire, value |-> value], "no")
      BY <2>10 DEF Succeeds
    <3> QED
      BY <2>2, <3>1
  <2> QED
    BY <1>2, <2>5, <2>6, <2>7, <2>8, <2>9, <2>10 DEF CallAction
<1>3. ASSUME NEW m \in Methods, NEW input, Invoke(m, input) PROVE Exhausted'
  BY <1>3, InvokeStep DEF Exhausted
<1>4. ASSUME OtherAction PROVE (call # NoCall => Exhausted)'
  <2>1. CASE UNCHANGED vars
    BY <2>1 DEF vars, RetryAsConfigured, Exhausted, Failed, Given
  <2>2. CASE call' = NoCall
    BY <2>2
  <2> QED
    BY <1>4, <2>1, <2>2 DEF OtherAction, NextCall
<1>5. (call # NoCall => Exhausted)'
  BY <1>2, <1>3, <1>4, Steps
<1> QED
  BY <1>1, <1>5, WaitsAsConfigured, PTL

-----------------------------------------------------------------------------
(* Events.                                                                  *)

\* The names of the changes are distinct, and catch-up has a mark for each type.
TableOK(family, table) ==
    /\ \A c, d \in DOMAIN table : table[c] = table[d] => c = d
    /\ \A c \in DOMAIN table : TypeOf(family, c) \in CatchUpEvents

LEMMA MessageChangeOK == TableOK("message", MessageChange)
  BY DEF TableOK, MessageChange, TypeOf, Changes, CatchUpEvents

LEMMA ChatChangeOK == TableOK("chat", ChatChange)
  BY DEF TableOK, ChatChange, TypeOf, Changes, CatchUpEvents

LEMMA GroupChangeOK == TableOK("group", GroupChange)
  BY DEF TableOK, GroupChange, TypeOf, Changes, CatchUpEvents

LEMMA PollChangeOK == TableOK("poll", PollChange)
  BY DEF TableOK, PollChange, TypeOf, Changes, CatchUpEvents

LEMMA TablesOK ==
    /\ Families = {"message", "chat", "group", "poll"}
    /\ \A family \in Families : TableOK(family, Changes[family])
<1>1. /\ Families = {"message", "chat", "group", "poll"}
      /\ Changes["message"] = MessageChange /\ Changes["chat"] = ChatChange
      /\ Changes["group"] = GroupChange /\ Changes["poll"] = PollChange
  BY DEF Families, Changes
<1> QED
  BY <1>1, MessageChangeOK, ChatChangeOK, GroupChangeOK, PollChangeOK

LEMMA NoneUnmarked == "none" \notin CatchUpEvents
  BY DEF CatchUpEvents

\* A frame of a family and its live event.
LEMMA LiveEvents ==
    ASSUME NEW family \in Families, NEW frame \in Frames(family)
    PROVE  LET event == LiveFromProto(family, frame)
               known == frame.change \in DOMAIN Changes[family]
           IN  /\ frame.payload = family
               /\ ~known => event = Dropped
               /\ known => /\ event # Dropped /\ event.sequence = frame.sequence
                           /\ event.type \in CatchUpEvents
                           /\ event.change = Changes[family][frame.change]
                           /\ event.actor = FieldFromProto("actor", frame.actor)
                           /\ event.targetPartIndex =
                                FieldFromProto("targetPartIndex", frame.targetPartIndex)
<1> DEFINE event == LiveFromProto(family, frame)
<1>1. frame.payload = family
  BY DEF Frames
<1>2. event = EventFromChange(family, frame)
  BY <1>1 DEF LiveFromProto
<1>3. ASSUME frame.change \in DOMAIN Changes[family]
      PROVE  TypeOf(family, frame.change) \in CatchUpEvents
  BY <1>3, TablesOK DEF TableOK
<1>4. Dropped.type = "none"
  BY DEF Dropped
<1> HIDE DEF event
<1> QED
  BY <1>1, <1>2, <1>3, <1>4, NoneUnmarked DEF EventFromChange, event

\* Two frames of a family that become one event are one.
LEMMA EventsDistinct ==
    ASSUME NEW family \in Families, NEW f \in Frames(family), NEW g \in Frames(family),
           f.change \in DOMAIN Changes[family], LiveFromProto(family, g) = LiveFromProto(family, f)
    PROVE  f = g
<1> DEFINE Wire == {"absent", "zero", "value"}
           All == [payload : {family}, change : DOMAIN Changes[family] \cup {"unrecognized"},
                   sequence : 0..1, actor : Wire, targetPartIndex : Wire]
<1>1. f \in All /\ g \in All
  BY DEF Frames
<1>2. g.change \in DOMAIN Changes[family]
  BY LiveEvents
<1>3. /\ Changes[family][f.change] = Changes[family][g.change] /\ f.sequence = g.sequence
      /\ FieldFromProto("actor", f.actor) = FieldFromProto("actor", g.actor)
      /\ FieldFromProto("targetPartIndex", f.targetPartIndex)
            = FieldFromProto("targetPartIndex", g.targetPartIndex)
  BY <1>2, LiveEvents
<1>4. f.change = g.change
  BY <1>2, <1>3, TablesOK DEF TableOK
<1>5. f.actor = g.actor /\ f.targetPartIndex = g.targetPartIndex
  BY <1>1, <1>3 DEF FieldFromProto
<1> QED
  BY <1>1, <1>3, <1>4, <1>5

LEMMA EventsFaithfulStep ==
    ASSUME Configured, EventsFaithful, [Next]_vars
    PROVE  EventsFaithful'
<1>1. ASSUME NEW path \in DOMAIN Payloads, NEW payload \in Payloads[path],
             NEW frame \in Frames(payload), Receive(path, frame)
      PROVE  EventsFaithful'
  <2>1. CASE payload \in Families
    <3>1. frame.payload = payload /\ (path = payload \/ path = "catchUp")
      BY <2>1, LiveEvents, TablesOK DEF Payloads, Chunks
    <3> DEFINE live == LiveFromProto(payload, frame)
               event == seen'.event
    <3>2. CatchUpFromProto(frame) = live
      <4>1. LiveFromProto(payload, frame) = EventFromChange(payload, frame)
        BY <3>1 DEF LiveFromProto
      <4>2. CatchUpFromProto(frame) = AsCatchUp(live)
        BY <2>1, <3>1, <4>1, TablesOK DEF CatchUpFromProto
      <4>3. live = Dropped \/ live.type \in CatchUpEvents
        BY <2>1, LiveEvents
      <4> HIDE DEF live
      <4> QED
        BY <4>2, <4>3 DEF AsCatchUp, Dropped
    <3>3. seen'.frame = frame /\ event = live
      <4>1. "catchUp" \notin Families
        BY TablesOK
      <4> DEFINE result == CASE path \in Families -> LiveFromProto(path, frame)
                             [] path = "catchUp" -> CatchUpFromProto(frame)
                             [] path = "location" -> LocationFromProto(frame)
                             [] path = "download" -> ChunkFromProto(frame)
      <4>2. seen'.frame = frame /\ event = result
        BY <1>1 DEF Receive
      <4>3. result = live
        BY <2>1, <3>1, <3>2, <4>1, TablesOK
      <4> QED
        BY <4>2, <4>3
    <3> HIDE DEF live, event
    <3>4. ASSUME frame.change \in DOMAIN Changes[payload],
                 NEW other \in Frames(payload) \ {frame}
          PROVE  LiveFromProto(payload, other) # event
      BY <2>1, <3>3, <3>4, EventsDistinct DEF live
    <3>5. /\ event # Dropped <=> frame.change \in DOMAIN Changes[payload]
          /\ frame.change \in DOMAIN Changes[payload] => event.sequence = frame.sequence
      BY <2>1, <3>3, LiveEvents DEF live
    <3> QED
      BY <3>1, <3>3, <3>4, <3>5 DEF EventsFaithful, live, event
  <2>2. CASE payload \notin Families
    <3>1. frame.payload = payload
      BY <2>2 DEF Frames
    <3> QED
      BY <1>1, <2>2, <3>1 DEF EventsFaithful, Receive
  <2> QED
    BY <2>1, <2>2
<1>2. ASSUME seen' = seen \/ seen' = NoFrame PROVE EventsFaithful'
  BY <1>2 DEF EventsFaithful
<1> QED
  BY <1>1, <1>2, Steps DEF CallAction, OtherAction, Invoke, NextCall, vars

-----------------------------------------------------------------------------
(* Answers.                                                                 *)

Before(x, y) == x[1] < y[1] \/ (x[1] = y[1] /\ x[2] < y[2])

LEMMA BeforeTotal ==
    ASSUME NEW x \in Keys \X Keys, NEW y \in Keys \X Keys
    PROVE  /\ Before(x, y) => ~Before(y, x)
           /\ x # y => Before(x, y) \/ Before(y, x)
<1>1. x[1] \in Int /\ x[2] \in Int /\ y[1] \in Int /\ y[2] \in Int
  BY KeysAssumption
<1>2. x[1] = y[1] /\ x[2] = y[2] => x = y
  OBVIOUS
<1> QED
  BY <1>1, <1>2 DEF Before

\* A list without duplicates in which no later item comes before an earlier
\* one holds each item at its rank.
LEMMA SortedRanks ==
    ASSUME NEW S \in SUBSET (Keys \X Keys), NEW s \in SetToSeqs(S),
           \A i, j \in DOMAIN s : i < j => ~Before(s[j], s[i])
    PROVE  \A i \in DOMAIN s : Cardinality({y \in S : Before(y, s[i])}) = i - 1
<1> DEFINE n == Cardinality(S)
<1>1. IsFiniteSet(S)
  BY KeysAssumption, FS_Product, FS_Subset
<1>2. n \in Nat
  BY <1>1, FS_CardinalityType
<1>3. /\ DOMAIN s = 1..n /\ s \in [1..n -> S]
      /\ \A i, j \in 1..n : i # j => s[i] # s[j]
  BY DEF SetToSeqs
<1> HIDE DEF n
<1>4. \A y \in S : \E j \in 1..n : s[j] = y
  <2>1. s \in Injection(1..n, S)
    BY <1>3 DEF Injection, IsInjective
  <2>2. IsFiniteSet(1..n) /\ Cardinality(1..n) = n
    BY <1>2, FS_Interval
  <2>3. s \in Surjection(1..n, S)
    BY <1>1, <2>1, <2>2, FS_Injection DEF n
  <2> QED
    BY <2>3 DEF Surjection
<1>5. SUFFICES ASSUME NEW i \in 1..n
               PROVE  Cardinality({y \in S : Before(y, s[i])}) = i - 1
  BY <1>3
<1> DEFINE T == {y \in S : Before(y, s[i])}
           f == [j \in 1..i - 1 |-> s[j]]
<1>6. ASSUME NEW j \in 1..n
      PROVE  Before(s[j], s[i]) <=> j < i
  <2>1. s[i] \in Keys \X Keys /\ s[j] \in Keys \X Keys
    BY <1>3
  <2>2. i < j => ~Before(s[j], s[i])
    BY <1>3
  <2>3. j < i => ~Before(s[i], s[j]) /\ s[i] # s[j]
    BY <1>3
  <2>4. i \in Int /\ j \in Int
    OBVIOUS
  <2>5. CASE i = j
    BY <2>1, <2>4, <2>5, BeforeTotal
  <2> QED
    BY <2>1, <2>2, <2>3, <2>4, <2>5, BeforeTotal
<1>7. f \in Bijection(1..i - 1, T)
  <2>1. \A j \in 1..i - 1 : j \in 1..n /\ j < i
    BY <1>2
  <2>2. f \in [1..i - 1 -> T]
    BY <1>3, <1>6, <2>1
  <2>3. \A j, k \in 1..i - 1 : f[j] = f[k] => j = k
    BY <1>3, <2>1
  <2>4. \A y \in T : \E j \in 1..i - 1 : f[j] = y
    <3>1. SUFFICES ASSUME NEW y \in T PROVE \E j \in 1..i - 1 : f[j] = y
      OBVIOUS
    <3>2. PICK j \in 1..n : s[j] = y
      BY <1>4
    <3>3. j < i
      BY <1>6, <3>2
    <3> QED
      BY <1>2, <3>2, <3>3
  <2> QED
    BY <2>2, <2>3, <2>4 DEF Bijection, Injection, Surjection, IsInjective
<1>8. i - 1 \in Nat
  BY <1>2
<1> HIDE DEF f, T
<1>9. ExistsBijection(1..i - 1, T)
  BY <1>7 DEF ExistsBijection
<1>10. Cardinality(T) = i - 1
  BY <1>8, <1>9, FS_CountingElements
<1> QED
  BY <1>10 DEF T

\* The lists of a type are either sorted or kept, and the locations are alone
\* in being sorted by one key.
LEMMA ShapesOK ==
    ASSUME NEW m, NEW shape \in Shapes(m)
    PROVE  /\ "none" \notin shape.sorted \cup shape.kept
           /\ shape.sorted \cap shape.kept = {}
           /\ "locations" \in shape.sorted => shape = Locations
<1> DEFINE All == {Message, Content, MiniApp, Layout, AppliedReaction, PlacedSticker, Placement,
                   Attachment, Page, CreatedChat, Chat, Poll, Locations, Location, Uploaded,
                   Address, Scalar}
<1>1. shape \in All
  BY DEF Shapes
<1> QED
  BY <1>1 DEF Shape, Message, Content, MiniApp, Layout, AppliedReaction, PlacedSticker,
     Placement, Attachment, Page, CreatedChat, Chat, Poll, Locations, Location, Uploaded,
     Address, Scalar

\* What an answer may hold.
LEMMA AnswersOK ==
    ASSUME NEW m, NEW shape \in Shapes(m), NEW wire \in Answers(shape),
           wire.list \in shape.sorted
    PROVE  /\ ToSet(wire.items) \in SUBSET (Keys \X Keys)
           /\ wire.list = "locations" =>
                \A x, y \in ToSet(wire.items) : x[1] = y[1] => x = y
<1>1. EmptyAnswer(shape).list \notin shape.sorted
  BY ShapesOK DEF EmptyAnswer
<1>2. PICK list \in shape.sorted \cup shape.kept,
           items \in Lists(shape) :
         wire = ListAnswer(shape, list, items)
  <2>1. ASSUME wire \in FieldAnswers(shape) PROVE FALSE
    BY <1>1, <2>1 DEF EmptyAnswer, FieldAnswers
  <2>2. wire \in ListAnswers(shape)
    BY <1>1, <2>1 DEF Answers
  <2> QED
    BY <2>2 DEF ListAnswers
<1>3. wire.list = list /\ wire.items = items
  BY <1>2 DEF ListAnswer, EmptyAnswer
<1>4. PICK S \in SUBSET (Keys \X Keys) : items \in SetToSeqs(S)
  BY DEF Lists, Arrivals
<1>5. ToSet(items) \subseteq S
  BY <1>4 DEF SetToSeqs, ToSet
<1>6. wire.list = "locations" => \A i, j \in DOMAIN items : items[i][1] = items[j][1] => i = j
  BY <1>2, <1>3, ShapesOK DEF Lists
<1> QED
  BY <1>3, <1>5, <1>6 DEF ToSet

\* What becomes of an answer: nil for what is absent, ranks for what is sorted.
LEMMA FromProtoFaithful ==
    ASSUME NEW m, NEW shape \in Shapes(m), NEW wire \in Answers(shape),
           NEW value \in FromProto(shape, wire)
    PROVE  /\ \A f \in DOMAIN value.fields :
                /\ wire.fields[f] # "absent" => value.fields[f] = wire.fields[f]
                /\ wire.fields[f] = "absent" /\ f # "plain" => value.fields[f] = "nil"
           /\ wire.list \in shape.kept => value.items = wire.items
           /\ wire.list \in shape.sorted =>
                \A i \in DOMAIN value.items :
                   Cardinality({y \in ToSet(wire.items) : Before(y, value.items[i])}) = i - 1
<1>1. PICK items \in IF wire.list \in shape.sorted THEN SortFunc(wire.list, wire.items)
                     ELSE {wire.items} :
         value = [fields |-> [f \in shape.fields |-> FieldFromProto(f, wire.fields[f])],
                  items |-> items]
  BY DEF FromProto
<1>2. /\ value.fields = [f \in shape.fields |-> FieldFromProto(f, wire.fields[f])]
      /\ value.items = items
  BY <1>1
<1>3. \A f \in DOMAIN value.fields :
         /\ wire.fields[f] # "absent" => value.fields[f] = wire.fields[f]
         /\ wire.fields[f] = "absent" /\ f # "plain" => value.fields[f] = "nil"
  BY <1>2 DEF FieldFromProto
<1>4. wire.list \in shape.kept => value.items = wire.items
  <2>1. wire.list \in shape.kept => wire.list \notin shape.sorted
    BY ShapesOK
  <2> QED
    BY <1>1, <1>2, <2>1
<1>5. ASSUME wire.list \in shape.sorted
      PROVE  \A i \in DOMAIN value.items :
                Cardinality({y \in ToSet(wire.items) : Before(y, value.items[i])}) = i - 1
  <2> DEFINE S == ToSet(wire.items)
  <2>1. /\ S \in SUBSET (Keys \X Keys)
        /\ wire.list = "locations" => \A x, y \in S : x[1] = y[1] => x = y
    BY <1>5, AnswersOK
  <2>2. /\ items \in SetToSeqs(S)
        /\ \A i, j \in DOMAIN items : i < j => ~Precedes(wire.list, items[j], items[i])
    BY <1>1, <1>5 DEF SortFunc
  <2> HIDE DEF S
  <2>3. \A i \in DOMAIN items : items[i] \in S
    BY <2>2 DEF SetToSeqs
  <2>4. ASSUME NEW x \in S, NEW y \in S, Before(x, y) PROVE Precedes(wire.list, x, y)
    <3>1. x \in Keys \X Keys /\ y \in Keys \X Keys
      BY <2>1
    <3>2. CASE x[1] = y[1]
      <4>1. CASE wire.list = "locations"
        <5>1. x = y
          BY <2>1, <3>2, <4>1
        <5> QED
          BY <2>4, <3>1, <5>1, BeforeTotal
      <4>2. CASE wire.list # "locations"
        BY <2>4, <4>2 DEF Before, Precedes
      <4> QED
        BY <4>1, <4>2
    <3>3. CASE x[1] # y[1]
      BY <2>4, <3>3 DEF Before, Precedes
    <3> QED
      BY <3>2, <3>3
  <2>5. \A i, j \in DOMAIN items : i < j => ~Before(items[j], items[i])
    BY <2>2, <2>3, <2>4
  <2>6. \A i \in DOMAIN items : Cardinality({y \in S : Before(y, items[i])}) = i - 1
    BY <2>1, <2>2, <2>5, SortedRanks
  <2> QED
    BY <1>2, <2>6 DEF S
<1> QED
  BY <1>3, <1>4, <1>5

LEMMA AnswersFaithfulStep ==
    ASSUME Configured, Progress, AnswersFaithful, [Next]_vars
    PROVE  AnswersFaithful'
<1>1. ASSUME call'.state # "returned" \/ call'.result.kind # "value" PROVE AnswersFaithful'
  BY <1>1 DEF AnswersFaithful
<1>2. ASSUME CallAction PROVE AnswersFaithful'
  <2>1. call # NoCall
    BY <1>2 DEF CallAction
  <2>2. ASSUME NEW f, NEW ended, Return(AsError(f), ended),
               \/ f.kind \in {"own", "plain", "connect"}
               \/ f.kind = "context" /\ f.reason \in {"canceled", "deadline_exceeded"}
        PROVE  AnswersFaithful'
    <3>1. AsError(f).kind # "value"
      BY <2>2, AsErrorKinds
    <3> QED
      BY <1>1, <2>1, <2>2, <3>1, ReturnStep
  <2>3. ASSUME NEW authorized, Enter(authorized) PROVE AnswersFaithful'
    BY <1>1, <2>1, <2>3, EnterStep
  <2>4. CASE Authorize
    BY <2>3, <2>4 DEF Authorize
  <2>5. ASSUME NEW f \in TokenFailures, TokenFails(f[1], f[2]) PROVE AnswersFaithful'
    <3>1. f[1].kind \in {"own", "connect"}
      BY DEF TokenFailures
    <3> QED
      BY <2>2, <2>3, <2>5, <3>1 DEF TokenFails
  <2>6. ASSUME NEW f \in AttemptFailures, AttemptFails(f) PROVE AnswersFaithful'
    <3>1. f.kind \in {"plain", "connect"}
      BY FailuresAssumption
    <3> QED
      BY <1>1, <2>1, <2>2, <2>6, <3>1, WaitStep DEF AttemptFails
  <2>7. CASE Retry
    BY <1>1, <2>1, <2>7, RetryStep DEF Retry
  <2>8. ASSUME NEW reason \in {"canceled", "deadline_exceeded"}, ContextEnds(reason)
        PROVE  AnswersFaithful'
    <3> DEFINE failure1 == [kind |-> "connect", status |-> reason, header |-> None,
                            retryable |-> FALSE]
               failure2 == [kind |-> "context", reason |-> reason]
    <3>1. failure1.kind = "connect" /\ failure2.kind = "context" /\ failure2.reason = reason
      OBVIOUS
    <3>2. Return(AsError(failure1), "sent") \/ Return(AsError(failure2), "backoff")
      BY <2>8 DEF ContextEnds
    <3> HIDE DEF failure1, failure2
    <3> QED
      BY <2>2, <3>1, <3>2
  <2>9. ASSUME NEW shape \in Shapes(call.method), NEW wire \in Answers(shape),
               Succeeds(shape, wire)
        PROVE  AnswersFaithful'
    <3>1. PICK value \in FromProto(shape, wire) :
             Return([kind |-> "value", shape |-> shape, wire |-> wire, value |-> value], "no")
      BY <2>9 DEF Succeeds
    <3>2. call'.result.wire = wire /\ call'.result.value = value /\ call'.result.shape = shape
      BY <2>1, <3>1, ReturnStep
    <3>3. /\ \A f \in DOMAIN value.fields :
                /\ wire.fields[f] # "absent" => value.fields[f] = wire.fields[f]
                /\ wire.fields[f] = "absent" /\ f # "plain" => value.fields[f] = "nil"
          /\ wire.list \in shape.kept => value.items = wire.items
          /\ wire.list \in shape.sorted =>
                \A i \in DOMAIN value.items :
                   Cardinality({y \in ToSet(wire.items) : Before(y, value.items[i])}) = i - 1
      BY FromProtoFaithful
    <3> QED
      BY <3>2, <3>3 DEF AnswersFaithful, Before
  <2> QED
    BY <1>2, <2>4, <2>5, <2>6, <2>7, <2>8, <2>9 DEF CallAction
<1>3. ASSUME NEW m \in Methods, NEW input, Invoke(m, input) PROVE AnswersFaithful'
  <2>1. InvalidArgument.kind = "own"
    BY DEF InvalidArgument, Error
  <2> QED
    BY <1>1, <1>3, <2>1, InvokeStep
<1>4. ASSUME OtherAction PROVE AnswersFaithful'
  <2>1. call' = call \/ call' = NoCall
    BY <1>4 DEF OtherAction, NextCall, vars
  <2> QED
    BY <1>1, <2>1 DEF AnswersFaithful, NoCall
<1> QED
  BY <1>2, <1>3, <1>4, Steps

-----------------------------------------------------------------------------
(* The invariant and what it contains.                                      *)

LEMMA InitIInv == Init => IInv
<1> SUFFICES ASSUME Init PROVE IInv
  OBVIOUS
<1>1. call = NoCall /\ seen = NoFrame
  BY DEF Init
<1>2. call.state = "none" /\ NoFrame.path = "none"
  BY <1>1 DEF NoCall, NoFrame
<1>3. Configured
  BY ConfiguredInit
<1> QED
  BY <1>1, <1>2, <1>3 DEF IInv, Progress, WritesCarryKeys, ServerSeesTheInput,
     FailuresAreTyped, Failed, RetryAsConfigured, AnswersFaithful, EventsFaithful

\* The configuration, the progress of the current call and the six properties
\* together are an inductive invariant of the client.
THEOREM Invariance == Spec => []IInv
<1>1. IInv /\ [Next]_vars => IInv'
  BY ConfiguredStep, ProgressStep, WritesCarryKeysStep, ServerSeesTheInputStep,
     FailuresAreTypedStep, RetryAsConfiguredStep, AnswersFaithfulStep, EventsFaithfulStep
     DEF IInv
<1> QED
  BY InitIInv, <1>1, PTL DEF Spec

\* Whatever the options, a generated key goes only with a method that changes
\* something, and under WithAutoIdempotency with every one that has no client
\* message id of its own (interceptor.go:78-91, 145-182).
THEOREM WritesCarryKeysHolds == Spec => []WritesCarryKeys
<1>1. IInv => WritesCarryKeys
  BY DEF IInv
<1> QED
  BY Invariance, <1>1, PTL

\* However many parameters a caller gives and whatever the numbers and the width
\* of an int32, the request of every method tells the server each parameter of
\* the method's signature as it was meant, numbers beyond int32 apart, and only
\* an invalid reaction is refused (messages.go, chats.go and the other clients,
\* conv_message.go:333-418, conv_common.go:106-187).
THEOREM ServerSeesTheInputHolds == Spec => []ServerSeesTheInput
<1>1. IInv => ServerSeesTheInput
  BY DEF IInv
<1> QED
  BY Invariance, <1>1, PTL

\* A failure of a call is an imessage.Error of at most one category, whatever
\* the failures of the attempts (errors.go:125-265, interceptor.go:112-115).
THEOREM FailuresAreTypedHolds == Spec => []FailuresAreTyped
<1>1. IInv => FailuresAreTyped
  BY DEF IInv
<1> QED
  BY Invariance, <1>1, PTL

\* For every list of options, every delay and every size of a word, the retries
\* of a call are those that its options ask for, a bare WithRetry after another
\* one apart, and a wait is at most the maximum and zero only if the maximum is
\* not positive, also when the shift overflows (options.go:57-76, 110-122,
\* interceptor.go:95-141).
THEOREM RetryAsConfiguredHolds == Spec => []RetryAsConfigured
<1>1. IInv => RetryAsConfigured
  BY DEF IInv
<1> QED
  BY Invariance, <1>1, PTL

\* Answers with lists of any length become values with nil for what is absent
\* and with one order of what is sorted (conv_message.go:188-245,
\* conv_poll.go:29-35, locations.go:39-41).
THEOREM AnswersFaithfulHolds == Spec => []AnswersFaithful
<1>1. IInv => AnswersFaithful
  BY DEF IInv
<1> QED
  BY Invariance, <1>1, PTL

\* A frame becomes the same event live and replayed, and two frames never
\* become one event (conv_event.go:9-42, events.go:146-219).
THEOREM EventsFaithfulHolds == Spec => []EventsFaithful
<1>1. IInv => EventsFaithful
  BY DEF IInv
<1> QED
  BY Invariance, <1>1, PTL
===============================================================================
