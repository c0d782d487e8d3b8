--------------------------- MODULE TokenCacheProofs ---------------------------
(***************************************************************************)
(* The token of a call is valid for all of its attempts, for any callers,   *)
(* instances and lifetimes that satisfy MarginAssumption.                   *)
(***************************************************************************)
EXTENDS TokenCache, TLAPS

USE CacheAssumption, MarginAssumption

\* The actions, split for the proofs below.
LEMMA StepCases ==
    ASSUME [Next]_vars
    PROVE  \/ Issue \/ ConnectReply \/ ConnectFails \/ Tick \/ UNCHANGED vars
           \/ \E c \in Callers :
                \/ Call(c) \/ Lock(c) \/ FromCache(c) \/ Refresh(c) \/ Refreshed(c)
                \/ ExchangeFails(c) \/ TimesOut(c) \/ CallEnds(c)
BY DEF Next

LEMMA Initially == Init => IInv
BY DEF Init, IInv, TypeOK, Exclusive, Margins, Requested, Remaining

\* A cached token has a remaining validity and freshness.
LEMMA CachedType ==
    ASSUME TypeOK, NEW present \in BOOLEAN
    PROVE  Cached(present) \in [token : BOOLEAN, valid : Remaining, fresh : Remaining]
<1>1. exch.valid \in Nat /\ exch.life \in Nat
  <2>1. exch.valid \in Nat /\ (exch.life \in Lifetimes \/ exch.life = 0)
    BY DEF TypeOK, Remaining
  <2>2. CASE exch.life \in Lifetimes
    BY <2>1, <2>2
  <2>3. CASE exch.life = 0
    BY <2>1, <2>3
  <2> QED
    BY <2>1, <2>2, <2>3
<1>2. MaxOf(exch.life - RefreshSkew, 0) \in Nat
    BY <1>1 DEF MaxOf
<1> QED
    BY <1>1, <1>2 DEF Cached, Remaining

LEMMA LessType == ASSUME NEW n \in Nat PROVE Less(n) \in Nat /\ Less(n) >= n - 1
BY DEF Less, MaxOf

\* An exchange's age, which a tick moves on within the http timeout.
LEMMA AgeType ==
    ASSUME TypeOK, Tick, exch.by # Nobody
    PROVE  exch.age + 1 \in 0..HttpTimeout
BY DEF TypeOK, Tick

\* What an answer caches covers the call that uses it and the refresh skew.
LEMMA CachedMargin ==
    ASSUME IInv, exch.by # Nobody, exch.life > 0, NEW present \in BOOLEAN
    PROVE  /\ Cached(present).token /\ Cached(present).fresh > 0 =>
                Cached(present).valid >= Cached(present).fresh + RefreshSkew - HttpTimeout
           /\ exch.valid > CallTimeout
<1>1. /\ exch.valid \in Nat /\ exch.life \in Nat /\ exch.age \in 0..HttpTimeout
      /\ exch.life \in Lifetimes /\ exch.valid >= exch.life - exch.age
  <2>1. exch.life \in Lifetimes /\ exch.valid \in Nat /\ exch.age \in 0..HttpTimeout
    BY DEF IInv, TypeOK, Remaining
  <2>2. exch.valid >= exch.life - exch.age
    BY DEF IInv, Margins
  <2>3. exch.life \in Nat
    BY <2>1
  <2> QED
    BY <2>1, <2>2, <2>3
<1>2. exch.valid > CallTimeout
    BY <1>1
<1>3. /\ Cached(present).token = present
      /\ present => Cached(present).valid = exch.valid
      /\ Cached(present).fresh = MaxOf(exch.life - RefreshSkew, 0)
    BY DEF Cached
<1>4. MaxOf(exch.life - RefreshSkew, 0) > 0 =>
        exch.valid >= MaxOf(exch.life - RefreshSkew, 0) + RefreshSkew - HttpTimeout
    BY <1>1 DEF MaxOf
<1> QED
    BY <1>2, <1>3, <1>4

\* No step leaves the types: the http timeout bounds an exchange's age.
LEMMA TypeStep == IInv /\ [Next]_vars => TypeOK'
<1> SUFFICES ASSUME IInv, [Next]_vars PROVE TypeOK'
    OBVIOUS
<1>1. ASSUME Issue PROVE TypeOK'
  <2>1. PICK l \in Lifetimes : exch' = [exch EXCEPT !.life = l, !.valid = l]
    BY <1>1 DEF Issue
  <2>2. exch' \in [by : Callers \cup {Main, Nobody}, age : 0..HttpTimeout,
                  life : Lifetimes \cup {0}, valid : Remaining]
    <3>1. l \in Nat
        OBVIOUS
    <3> QED
        BY <2>1, <3>1 DEF IInv, TypeOK, Remaining
  <2> QED
    BY <1>1, <2>2 DEF IInv, TypeOK, Issue
<1>2. ASSUME ConnectReply PROVE TypeOK'
  <2>1. exch' \in [by : Callers \cup {Main, Nobody}, age : 0..HttpTimeout,
                  life : Lifetimes \cup {0}, valid : Remaining]
    BY <1>2 DEF ConnectReply, Quiet, Remaining
  <2>2. PICK r \in Responses :
          IF r.dedicated /\ SelectInstance(r) # {}
          THEN \E i \in SelectInstance(r) :
                 boot' = "ready" /\ instance' = i /\ cache' = Cached(i \in r.auth)
          ELSE boot' = "failed" /\ UNCHANGED <<instance, cache>>
    BY <1>2 DEF ConnectReply
  <2>3. SelectInstance(r) \subseteq Instances
    BY DEF SelectInstance, Responses
  <2>4. ASSUME NEW i \in Instances
        PROVE  Cached(i \in r.auth) \in [token : BOOLEAN, valid : Remaining, fresh : Remaining]
    <3>1. CASE i \in r.auth
        <4>1. (i \in r.auth) = TRUE
            BY <3>1
        <4> QED
            BY <4>1, CachedType DEF IInv
    <3>2. CASE i \notin r.auth
        <4>1. (i \in r.auth) = FALSE
            BY <3>2
        <4> QED
            BY <4>1, CachedType DEF IInv
    <3> QED
        BY <3>1, <3>2
  <2>5. /\ boot' \in {"new", "ready", "failed"} /\ instance' \in Instances \cup {Any}
        /\ cache' \in [token : BOOLEAN, valid : Remaining, fresh : Remaining]
    BY <2>2, <2>3, <2>4 DEF IInv, TypeOK
  <2> QED
    BY <1>2, <2>1, <2>5 DEF IInv, TypeOK, ConnectReply
<1>3. ASSUME ConnectFails PROVE TypeOK'
    BY <1>3 DEF IInv, TypeOK, Exclusive, Remaining, ConnectFails, Quiet
<1>4. ASSUME Tick PROVE TypeOK'
  <2>1. cache' \in [token : BOOLEAN, valid : Remaining, fresh : Remaining]
    BY <1>4, LessType DEF IInv, TypeOK, Remaining, Tick
  <2>2. exch' \in [by : Callers \cup {Main, Nobody}, age : 0..HttpTimeout,
                  life : Lifetimes \cup {0}, valid : Remaining]
    <3>1. CASE exch.by = Nobody
        BY <1>4, <3>1 DEF IInv, TypeOK, Tick
    <3>2. CASE exch.by # Nobody
        BY <1>4, <3>2, AgeType, LessType DEF IInv, TypeOK, Remaining, Tick
    <3> QED
        BY <3>1, <3>2
  <2>3. held' \in [Callers -> [valid : Remaining, age : Remaining]]
    <3>1. \A c \in Callers : held[c].age + 1 \in Nat /\ Less(held[c].valid) \in Nat
        BY LessType DEF IInv, TypeOK, Remaining
    <3> QED
        BY <1>4, <3>1 DEF IInv, TypeOK, Remaining, Tick
  <2> QED
    BY <1>4, <2>1, <2>2, <2>3 DEF IInv, TypeOK, Tick
<1>5. ASSUME NEW c \in Callers, Call(c) PROVE TypeOK'
    BY <1>5 DEF IInv, TypeOK, Exclusive, Remaining, Call, Goto
<1>6. ASSUME NEW c \in Callers, Lock(c) PROVE TypeOK'
    BY <1>6 DEF IInv, TypeOK, Exclusive, Remaining, Lock, Goto, MutexFree
<1>7. ASSUME NEW c \in Callers, FromCache(c) PROVE TypeOK'
    BY <1>7 DEF IInv, TypeOK, Exclusive, Remaining, FromCache, Goto, Present
<1>8. ASSUME NEW c \in Callers, Refresh(c) PROVE TypeOK'
    BY <1>8 DEF IInv, TypeOK, Exclusive, Remaining, Refresh, Goto, Requested
<1>9. ASSUME NEW c \in Callers, Refreshed(c) PROVE TypeOK'
  <2>1. cache' \in [token : BOOLEAN, valid : Remaining, fresh : Remaining]
    BY <1>9, CachedType DEF IInv, Refreshed
  <2>2. exch' \in [by : Callers \cup {Main, Nobody}, age : 0..HttpTimeout,
                  life : Lifetimes \cup {0}, valid : Remaining]
    BY <1>9 DEF Refreshed, Quiet, Remaining
  <2> QED
    BY <1>9, <2>1, <2>2 DEF IInv, TypeOK, Remaining, Refreshed, Goto, Present
<1>10. ASSUME NEW c \in Callers, ExchangeFails(c) PROVE TypeOK'
    BY <1>10 DEF IInv, TypeOK, Exclusive, Remaining, ExchangeFails, Goto, Quiet
<1>11. ASSUME NEW c \in Callers, TimesOut(c) PROVE TypeOK'
    BY <1>11 DEF IInv, TypeOK, Exclusive, Remaining, TimesOut, ExchangeFails, Goto, Quiet
<1>12. ASSUME NEW c \in Callers, CallEnds(c) PROVE TypeOK'
    BY <1>12 DEF IInv, TypeOK, Exclusive, Remaining, CallEnds, Goto
<1>13. CASE UNCHANGED vars
    BY <1>13 DEF vars, IInv, TypeOK, Exclusive, Remaining
<1> QED
    BY StepCases, <1>1, <1>2, <1>3, <1>4, <1>5, <1>6, <1>7, <1>8, <1>9, <1>10, <1>11, <1>12, <1>13

\* The mutex is held from Lock to the return, and only its holder exchanges.
LEMMA ExclusiveStep == IInv /\ [Next]_vars => Exclusive'
<1> SUFFICES ASSUME IInv, [Next]_vars PROVE Exclusive'
    OBVIOUS
<1>1. ASSUME Issue PROVE Exclusive'
    BY <1>1 DEF IInv, TypeOK, Exclusive, Issue
<1>2. ASSUME ConnectReply PROVE Exclusive'
    BY <1>2 DEF IInv, TypeOK, Exclusive, ConnectReply, Cached, Quiet, MaxOf, SelectInstance, Responses
<1>3. ASSUME ConnectFails PROVE Exclusive'
    BY <1>3 DEF IInv, TypeOK, Exclusive, ConnectFails, Quiet
<1>4. ASSUME Tick PROVE Exclusive'
    BY <1>4 DEF IInv, TypeOK, Exclusive, Tick, Less, MaxOf
<1>5. ASSUME NEW c \in Callers, Call(c) PROVE Exclusive'
    BY <1>5 DEF IInv, TypeOK, Exclusive, Call, Goto
<1>6. ASSUME NEW c \in Callers, Lock(c) PROVE Exclusive'
    BY <1>6 DEF IInv, TypeOK, Exclusive, Lock, Goto, MutexFree
<1>7. ASSUME NEW c \in Callers, FromCache(c) PROVE Exclusive'
    BY <1>7 DEF IInv, TypeOK, Exclusive, FromCache, Goto, Present
<1>8. ASSUME NEW c \in Callers, Refresh(c) PROVE Exclusive'
    BY <1>8 DEF IInv, TypeOK, Exclusive, Refresh, Goto, Requested
<1>9. ASSUME NEW c \in Callers, Refreshed(c) PROVE Exclusive'
    BY <1>9 DEF IInv, TypeOK, Exclusive, Refreshed, Goto, Present, Cached, Quiet, MaxOf
<1>10. ASSUME NEW c \in Callers, ExchangeFails(c) PROVE Exclusive'
    BY <1>10 DEF IInv, TypeOK, Exclusive, ExchangeFails, Goto, Quiet
<1>11. ASSUME NEW c \in Callers, TimesOut(c) PROVE Exclusive'
    BY <1>11 DEF IInv, TypeOK, Exclusive, TimesOut, ExchangeFails, Goto, Quiet
<1>12. ASSUME NEW c \in Callers, CallEnds(c) PROVE Exclusive'
    BY <1>12 DEF IInv, TypeOK, Exclusive, CallEnds, Goto
<1>13. CASE UNCHANGED vars
    BY <1>13 DEF vars, IInv, TypeOK, Exclusive
<1> QED
    BY StepCases, <1>1, <1>2, <1>3, <1>4, <1>5, <1>6, <1>7, <1>8, <1>9, <1>10, <1>11, <1>12, <1>13

\* The margins survive a tick, an answer and a use of the cache.
LEMMA MarginsStep == IInv /\ [Next]_vars => Margins'
<1> SUFFICES ASSUME IInv, [Next]_vars PROVE Margins'
    OBVIOUS
<1>1. ASSUME Issue PROVE Margins'
  <2>1. PICK l \in Lifetimes : exch' = [exch EXCEPT !.life = l, !.valid = l]
    BY <1>1 DEF Issue
  <2>2. l \in Nat /\ exch.age \in Nat
    BY DEF IInv, TypeOK
  <2>3. exch'.valid = l /\ exch'.life = l /\ exch'.age = exch.age
    BY <2>1 DEF IInv, TypeOK
  <2>4. exch'.valid >= exch'.life - exch'.age
    BY <2>2, <2>3
  <2> QED
    BY <1>1, <2>4 DEF IInv, Margins, Issue
<1>2. ASSUME ConnectReply PROVE Margins'
  <2>1. cache' = cache \/ cache' = Cached(TRUE) \/ cache' = Cached(FALSE)
    <3>1. cache' = cache \/ \E r \in Responses, i \in Instances : cache' = Cached(i \in r.auth)
        BY <1>2 DEF ConnectReply, SelectInstance, Responses
    <3>2. CASE \E r \in Responses, i \in Instances : cache' = Cached(i \in r.auth)
        <4>1. PICK r \in Responses, i \in Instances : cache' = Cached(i \in r.auth)
            BY <3>2
        <4>2. (i \in r.auth) = TRUE \/ (i \in r.auth) = FALSE
            OBVIOUS
        <4> QED
            BY <4>1, <4>2
    <3> QED
        BY <3>1, <3>2
  <2>2. cache'.token /\ cache'.fresh > 0 =>
          cache'.valid >= cache'.fresh + RefreshSkew - HttpTimeout
    BY <1>2, <2>1, CachedMargin DEF IInv, Margins, ConnectReply
  <2> QED
    BY <1>2, <2>2 DEF IInv, Margins, ConnectReply, Quiet
<1>3. ASSUME ConnectFails PROVE Margins'
    BY <1>3 DEF IInv, TypeOK, Exclusive, Margins, Remaining, ConnectFails, Quiet
<1>4. ASSUME Tick PROVE Margins'
    BY <1>4 DEF IInv, TypeOK, Exclusive, Margins, Remaining, Tick, Less, MaxOf
<1>5. ASSUME NEW c \in Callers, Call(c) PROVE Margins'
    BY <1>5 DEF IInv, TypeOK, Exclusive, Margins, Remaining, Call, Goto
<1>6. ASSUME NEW c \in Callers, Lock(c) PROVE Margins'
    BY <1>6 DEF IInv, TypeOK, Exclusive, Margins, Remaining, Lock, Goto, MutexFree
<1>7. ASSUME NEW c \in Callers, FromCache(c) PROVE Margins'
    BY <1>7 DEF IInv, TypeOK, Exclusive, Margins, Remaining, FromCache, Goto, Present
<1>8. ASSUME NEW c \in Callers, Refresh(c) PROVE Margins'
    BY <1>8 DEF IInv, TypeOK, Exclusive, Margins, Remaining, Refresh, Goto, Requested
<1>9. ASSUME NEW c \in Callers, Refreshed(c) PROVE Margins'
  <2>1. exch.by # Nobody /\ exch.life > 0
    BY <1>9 DEF Refreshed
  <2>2. cache'.token /\ cache'.fresh > 0 =>
          cache'.valid >= cache'.fresh + RefreshSkew - HttpTimeout
    BY <1>9, <2>1, CachedMargin DEF Refreshed
  <2>3. held'[c].age = 0 /\ held'[c].valid > CallTimeout /\ exch'.by = Nobody
    BY <1>9, <2>1, CachedMargin DEF IInv, TypeOK, Refreshed, Present, Quiet
  <2>4. \A d \in Callers : d # c => held'[d] = held[d] /\ pc'[d] = pc[d]
    BY <1>9 DEF IInv, TypeOK, Refreshed, Present, Goto
  <2> QED
    BY <2>2, <2>3, <2>4 DEF IInv, Margins
<1>10. ASSUME NEW c \in Callers, ExchangeFails(c) PROVE Margins'
    BY <1>10 DEF IInv, TypeOK, Exclusive, Margins, Remaining, ExchangeFails, Goto, Quiet
<1>11. ASSUME NEW c \in Callers, TimesOut(c) PROVE Margins'
    BY <1>11 DEF IInv, TypeOK, Exclusive, Margins, Remaining, TimesOut, ExchangeFails, Goto, Quiet
<1>12. ASSUME NEW c \in Callers, CallEnds(c) PROVE Margins'
    BY <1>12 DEF IInv, TypeOK, Exclusive, Margins, Remaining, CallEnds, Goto
<1>13. CASE UNCHANGED vars
    BY <1>13 DEF vars, IInv, TypeOK, Exclusive, Margins, Remaining
<1> QED
    BY StepCases, <1>1, <1>2, <1>3, <1>4, <1>5, <1>6, <1>7, <1>8, <1>9, <1>10, <1>11, <1>12, <1>13

\* The inductive invariant: types, one exchange at a time, and the margins.
THEOREM Invariance == Spec => []IInv
<1>1. IInv /\ [Next]_vars => IInv'
    BY TypeStep, ExclusiveStep, MarginsStep DEF IInv
<1> QED
    BY Initially, <1>1, PTL DEF Spec

\* No attempt of a call presents an expired or empty token
\* (spectrumauth.go:142-156, interceptor.go:36-45).
THEOREM AttemptsAuthorized == Spec => []EveryAttemptAuthorized
<1>1. IInv => EveryAttemptAuthorized
    BY DEF IInv, TypeOK, Margins, EveryAttemptAuthorized, Remaining
<1> QED
    BY Invariance, <1>1, PTL
==============================================================================
