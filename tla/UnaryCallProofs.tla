--------------------------- MODULE UnaryCallProofs ---------------------------
(***************************************************************************)
(* UnaryCall's type invariant and safety invariants, for every set of calls *)
(* and client message ids and every configuration of the chain.             *)
(***************************************************************************)
EXTENDS UnaryCall, TLAPS

USE CallAssumption

\* Attempts is at least one, whatever was configured (interceptor.go:96-98).
LEMMA AttemptsPositive == Attempts \in Nat /\ Attempts >= 1
BY DEF Attempts

\* A call's write is one of the writes, and belongs to its id if it has one.
LEMMA WriteOf ==
    ASSUME TypeOK, NEW c \in Calls
    PROVE  /\ Write(c) \in Writes
           /\ id[c] = NoId => Write(c) = c
           /\ id[c] # NoId => Write(c) = id[c] /\ Write(c) \in Ids
BY DEF TypeOK, Write, Writes

\* The actions of the client, one per disjunct of Next.
Step(c) == \/ Start(c) \/ Token(c) \/ TokenFails(c) \/ Send(c)
           \/ AttemptFails(c) \/ Receive(c) \/ NextAttempt(c) \/ BackoffCut(c)
           \/ EndContext(c)

LEMMA StepCases ==
    ASSUME [Next]_vars
    PROVE  \/ \E c \in Calls : Step(c)
           \/ \E r \in requests : Serve(r)
           \/ UNCHANGED vars
BY DEF Next, Client, TokenSource, Environment, DeadlineExpires, CallerCancels, Step

LEMMA TypeInit == Init => TypeOK
BY DEF Init, TypeOK, NoKey, Outcomes

LEMMA TypeStep == TypeOK /\ [Next]_vars => TypeOK'
<1> SUFFICES ASSUME TypeOK, [Next]_vars PROVE TypeOK'
    OBVIOUS
<1>1. ASSUME NEW c \in Calls, Start(c) PROVE TypeOK'
    BY <1>1 DEF TypeOK, Start, Goto, Return, Requests, Outcomes, NoKey, request, context,
              keys, server
<1>2. ASSUME NEW c \in Calls, Token(c) PROVE TypeOK'
    BY <1>2 DEF TypeOK, Token, Goto, Return, Requests, Outcomes, NoKey, request, context,
              keys, server, WithDeadline, KeyFor, NeedsKey
<1>3. ASSUME NEW c \in Calls, TokenFails(c) PROVE TypeOK'
    BY <1>3 DEF TypeOK, TokenFails, Goto, Return, Requests, Outcomes, NoKey, request, context,
              keys, server
<1>4. ASSUME NEW c \in Calls, Send(c) PROVE TypeOK'
    BY <1>4 DEF TypeOK, Send, Goto, Return, Requests, Outcomes, NoKey, request, context,
              keys, server
<1>5. ASSUME NEW c \in Calls, AttemptFails(c) PROVE TypeOK'
    BY <1>5 DEF TypeOK, AttemptFails, Goto, Return, Requests, Outcomes, NoKey, request, context,
              keys, server
<1>6. ASSUME NEW c \in Calls, Receive(c) PROVE TypeOK'
    BY <1>6 DEF TypeOK, Receive, Goto, Return, Requests, Outcomes, NoKey, request, context,
              keys, server
<1>7. ASSUME NEW c \in Calls, NextAttempt(c) PROVE TypeOK'
    BY <1>7 DEF TypeOK, NextAttempt, Goto, Return, Requests, Outcomes, NoKey, request, context,
              keys, server
<1>8. ASSUME NEW c \in Calls, BackoffCut(c) PROVE TypeOK'
    BY <1>8 DEF TypeOK, BackoffCut, Goto, Return, Requests, Outcomes, NoKey, request, context,
              keys, server
<1>9. ASSUME NEW c \in Calls, EndContext(c) PROVE TypeOK'
    BY <1>9 DEF TypeOK, EndContext, Goto, Return, Requests, Outcomes, NoKey, request, context,
              keys, server
<1>10. ASSUME NEW r \in requests, Serve(r) PROVE TypeOK'
  <2>1. r.call \in Calls /\ r.key \in Nat /\ r.id \in Ids \cup {NoId}
    BY DEF TypeOK, Requests
  <2>2. CASE Apply(r)
    <3>1. applied' \in [Writes -> Nat]
      BY <2>1, <2>2, WriteOf DEF TypeOK, Apply
    <3> QED BY <1>10, <2>1, <2>2, <3>1 DEF TypeOK, Serve, Apply, Outcomes, Requests, NoKey, request,
                             context, keys
  <2>3. CASE UNCHANGED server
    BY <1>10, <2>1, <2>3 DEF TypeOK, Serve, Outcomes, Requests, request, context, keys, server
  <2> QED BY <1>10, <2>2, <2>3 DEF Serve
<1>11. CASE UNCHANGED vars
    BY <1>11 DEF TypeOK, vars, request, context, keys, server
<1> QED BY StepCases, <1>1, <1>2, <1>3, <1>4, <1>5, <1>6, <1>7, <1>8, <1>9, <1>10, <1>11 DEF Step

\* Every variable keeps its type.
THEOREM TypeCorrect == Spec => []TypeOK
BY TypeInit, TypeStep, PTL DEF Spec

-----------------------------------------------------------------------------
(* The inductive invariant. *)

Inv == /\ Keyed /\ Sent /\ Remembered /\ Answered
       /\ AtMostOnce /\ SuccessIsApplied /\ AttemptsBounded

LEMMA InvInit == Init => Inv
<1> SUFFICES ASSUME Init PROVE Inv
    OBVIOUS
<1>1. Keyed /\ Sent /\ Remembered /\ Answered
    BY DEF Init, Keyed, Sent, OneAttemptAtATime, Remembered, Answered, NoKey, Writes,
           Outcomes
<1>2. AtMostOnce /\ SuccessIsApplied
    BY DEF Init, AtMostOnce, SuccessIsApplied, Writes
<1>3. AttemptsBounded
    BY AttemptsPositive DEF Init, AttemptsBounded
<1> QED BY <1>1, <1>2, <1>3 DEF Inv

LEMMA StartKeeps ==
    ASSUME TypeOK, TypeOK', Inv, NEW c \in Calls, Start(c)
    PROVE  Inv'
<1>1. Keyed'
    BY DEF TypeOK, Inv, Keyed, NoKey, Start, Goto, Return, request, context,
           keys, server
<1>2. Sent'
    BY DEF TypeOK, Inv, Sent, Keyed, OneAttemptAtATime, NoKey, Requests,
           Start, Goto, Return, request, context, keys, server
<1>3. Remembered'
  \* The call that starts has no header yet; nothing else changes.
  <2>1. header[c] = NoKey /\ NoKey \notin seenKeys
    BY DEF Inv, Keyed, Remembered, Start, NoKey
  <2>2. UNCHANGED <<keys, server>> /\ \A d \in Calls : d # c => id'[d] = id[d]
    BY DEF Start, TypeOK
  <2>3. \A d \in Calls : header'[d] \in seenKeys' => applied'[Write(d)'] > 0
    BY <2>1, <2>2 DEF Inv, Remembered, Write, keys, server
  <2>4. \A d \in Calls : AutoIdempotency /\ id'[d] = NoId /\ applied'[d] > 0
                             => header'[d] # NoKey /\ header'[d] \in seenKeys'
    <3> SUFFICES ASSUME NEW d \in Calls, AutoIdempotency, id'[d] = NoId, applied'[d] > 0
                 PROVE  header'[d] # NoKey /\ header'[d] \in seenKeys'
        OBVIOUS
    <3>1. CASE d # c
      BY <2>2, <3>1 DEF Inv, Remembered, keys, server
    <3>2. CASE d = c
      BY <2>1, <2>2, <3>2 DEF Inv, Remembered, Keyed, Start, keys, server
    <3> QED BY <3>1, <3>2
  <2> QED BY <2>2, <2>3, <2>4 DEF Inv, Remembered, keys, server
<1>4. Answered'
    BY DEF TypeOK, Inv, Answered, Write, MayRetry, Outcomes, Start, Goto,
           Return, request, context, keys, server
<1>5. AtMostOnce'
    BY DEF Inv, AtMostOnce, Protected, Start, Goto, Return, request, context,
           keys, server
<1>6. SuccessIsApplied'
    BY DEF TypeOK, Inv, SuccessIsApplied, Answered, Write, Start, Goto,
           Return, request, context, keys, server
<1>7. AttemptsBounded'
    BY AttemptsPositive DEF TypeOK, Inv, AttemptsBounded, Answered, MayRetry,
           Start, Goto, Return, request, context, keys, server
<1> QED BY <1>1, <1>2, <1>3, <1>4, <1>5, <1>6, <1>7 DEF Inv

LEMMA TokenKeeps ==
    ASSUME TypeOK, TypeOK', Inv, NEW c \in Calls, Token(c)
    PROVE  Inv'
<1>1. Keyed'
    BY DEF TypeOK, Inv, Keyed, NoKey, Token, Goto, Return, request, context,
           keys, server, KeyFor, NeedsKey
<1>2. Sent'
    BY DEF TypeOK, Inv, Sent, Keyed, OneAttemptAtATime, NoKey, Requests,
           Token, Goto, Return, request, context, keys, server, KeyFor,
           NeedsKey
<1>3. Remembered'
    BY DEF TypeOK, Inv, Remembered, Keyed, Write, NoKey, Writes, Token, Goto,
           Return, request, context, keys, server, KeyFor, NeedsKey
<1>4. Answered'
    BY DEF TypeOK, Inv, Answered, Write, MayRetry, Outcomes, Token, Goto,
           Return, request, context, keys, server, KeyFor, NeedsKey
<1>5. AtMostOnce'
    BY DEF Inv, AtMostOnce, Protected, Token, Goto, Return, request, context,
           keys, server, KeyFor, NeedsKey
<1>6. SuccessIsApplied'
    BY DEF TypeOK, Inv, SuccessIsApplied, Answered, Write, Token, Goto,
           Return, request, context, keys, server, KeyFor, NeedsKey
<1>7. AttemptsBounded'
    BY AttemptsPositive DEF TypeOK, Inv, AttemptsBounded, Answered, MayRetry,
           Token, Goto, Return, request, context, keys, server, KeyFor,
           NeedsKey
<1> QED BY <1>1, <1>2, <1>3, <1>4, <1>5, <1>6, <1>7 DEF Inv

LEMMA TokenFailsKeeps ==
    ASSUME TypeOK, TypeOK', Inv, NEW c \in Calls, TokenFails(c)
    PROVE  Inv'
<1>1. Keyed'
    BY DEF TypeOK, Inv, Keyed, NoKey, TokenFails, Goto, Return, request,
           context, keys, server
<1>2. Sent'
    BY DEF TypeOK, Inv, Sent, Keyed, OneAttemptAtATime, NoKey, Requests,
           TokenFails, Goto, Return, request, context, keys, server
<1>3. Remembered'
    BY DEF TypeOK, Inv, Remembered, Keyed, Write, NoKey, Writes, TokenFails,
           Goto, Return, request, context, keys, server
<1>4. Answered'
    BY DEF TypeOK, Inv, Answered, Write, MayRetry, Outcomes, TokenFails, Goto,
           Return, request, context, keys, server
<1>5. AtMostOnce'
    BY DEF Inv, AtMostOnce, Protected, TokenFails, Goto, Return, request,
           context, keys, server
<1>6. SuccessIsApplied'
    BY DEF TypeOK, Inv, SuccessIsApplied, Answered, Write, TokenFails, Goto,
           Return, request, context, keys, server
<1>7. AttemptsBounded'
    BY AttemptsPositive DEF TypeOK, Inv, AttemptsBounded, Answered, MayRetry,
           TokenFails, Goto, Return, request, context, keys, server
<1> QED BY <1>1, <1>2, <1>3, <1>4, <1>5, <1>6, <1>7 DEF Inv

LEMMA SendKeeps ==
    ASSUME TypeOK, TypeOK', Inv, NEW c \in Calls, Send(c)
    PROVE  Inv'
<1>1. Keyed'
    BY DEF TypeOK, Inv, Keyed, NoKey, Send, Goto, Return, request, context,
           keys, server
<1>2. Sent'
    BY DEF TypeOK, Inv, Sent, Keyed, OneAttemptAtATime, NoKey, Requests, Send,
           Goto, Return, request, context, keys, server
<1>3. Remembered'
    BY DEF TypeOK, Inv, Remembered, Keyed, Write, NoKey, Writes, Send, Goto,
           Return, request, context, keys, server
<1>4. Answered'
    BY DEF TypeOK, Inv, Answered, Write, MayRetry, Outcomes, Send, Goto,
           Return, request, context, keys, server
<1>5. AtMostOnce'
    BY DEF Inv, AtMostOnce, Protected, Send, Goto, Return, request, context,
           keys, server
<1>6. SuccessIsApplied'
    BY DEF TypeOK, Inv, SuccessIsApplied, Answered, Write, Send, Goto, Return,
           request, context, keys, server
<1>7. AttemptsBounded'
    BY AttemptsPositive DEF TypeOK, Inv, AttemptsBounded, Answered, MayRetry,
           Send, Goto, Return, request, context, keys, server
<1> QED BY <1>1, <1>2, <1>3, <1>4, <1>5, <1>6, <1>7 DEF Inv

LEMMA AttemptFailsKeeps ==
    ASSUME TypeOK, TypeOK', Inv, NEW c \in Calls, AttemptFails(c)
    PROVE  Inv'
<1>1. Keyed'
    BY DEF TypeOK, Inv, Keyed, NoKey, AttemptFails, Goto, Return, request,
           context, keys, server
<1>2. Sent'
    BY DEF TypeOK, Inv, Sent, Keyed, OneAttemptAtATime, NoKey, Requests,
           AttemptFails, Goto, Return, request, context, keys, server
<1>3. Remembered'
    BY DEF TypeOK, Inv, Remembered, Keyed, Write, NoKey, Writes, AttemptFails,
           Goto, Return, request, context, keys, server
<1>4. Answered'
    BY DEF TypeOK, Inv, Answered, Write, MayRetry, Outcomes, AttemptFails,
           Goto, Return, request, context, keys, server
<1>5. AtMostOnce'
    BY DEF Inv, AtMostOnce, Protected, AttemptFails, Goto, Return, request,
           context, keys, server
<1>6. SuccessIsApplied'
    BY DEF TypeOK, Inv, SuccessIsApplied, Answered, Write, AttemptFails, Goto,
           Return, request, context, keys, server
<1>7. AttemptsBounded'
    BY AttemptsPositive DEF TypeOK, Inv, AttemptsBounded, Answered, MayRetry,
           AttemptFails, Goto, Return, request, context, keys, server
<1> QED BY <1>1, <1>2, <1>3, <1>4, <1>5, <1>6, <1>7 DEF Inv

LEMMA ReceiveKeeps ==
    ASSUME TypeOK, TypeOK', Inv, NEW c \in Calls, Receive(c)
    PROVE  Inv'
<1>1. Keyed'
    BY DEF TypeOK, Inv, Keyed, NoKey, Receive, Goto, Return, request, context,
           keys, server, MayRetry
<1>2. Sent'
    BY DEF TypeOK, Inv, Sent, Keyed, OneAttemptAtATime, NoKey, Requests,
           Receive, Goto, Return, request, context, keys, server, MayRetry
<1>3. Remembered'
    BY DEF TypeOK, Inv, Remembered, Keyed, Write, NoKey, Writes, Receive,
           Goto, Return, request, context, keys, server, MayRetry
<1>4. Answered'
    BY DEF TypeOK, Inv, Answered, Write, MayRetry, Outcomes, Receive, Goto,
           Return, request, context, keys, server
<1>5. AtMostOnce'
    BY DEF Inv, AtMostOnce, Protected, Receive, Goto, Return, request,
           context, keys, server, MayRetry
<1>6. SuccessIsApplied'
    BY DEF TypeOK, Inv, SuccessIsApplied, Answered, Write, Receive, Goto,
           Return, request, context, keys, server, MayRetry
<1>7. AttemptsBounded'
    BY AttemptsPositive DEF TypeOK, Inv, AttemptsBounded, Answered, MayRetry,
           Receive, Goto, Return, request, context, keys, server
<1> QED BY <1>1, <1>2, <1>3, <1>4, <1>5, <1>6, <1>7 DEF Inv

LEMMA NextAttemptKeeps ==
    ASSUME TypeOK, TypeOK', Inv, NEW c \in Calls, NextAttempt(c)
    PROVE  Inv'
<1>1. Keyed'
    BY DEF TypeOK, Inv, Keyed, NoKey, NextAttempt, Goto, Return, request,
           context, keys, server
<1>2. Sent'
    BY DEF TypeOK, Inv, Sent, Keyed, OneAttemptAtATime, NoKey, Requests,
           NextAttempt, Goto, Return, request, context, keys, server
<1>3. Remembered'
    BY DEF TypeOK, Inv, Remembered, Keyed, Write, NoKey, Writes, NextAttempt,
           Goto, Return, request, context, keys, server
<1>4. Answered'
    BY DEF TypeOK, Inv, Answered, Write, MayRetry, Outcomes, NextAttempt,
           Goto, Return, request, context, keys, server
<1>5. AtMostOnce'
    BY DEF Inv, AtMostOnce, Protected, NextAttempt, Goto, Return, request,
           context, keys, server
<1>6. SuccessIsApplied'
    BY DEF TypeOK, Inv, SuccessIsApplied, Answered, Write, NextAttempt, Goto,
           Return, request, context, keys, server
<1>7. AttemptsBounded'
    BY AttemptsPositive DEF TypeOK, Inv, AttemptsBounded, Answered, MayRetry,
           NextAttempt, Goto, Return, request, context, keys, server
<1> QED BY <1>1, <1>2, <1>3, <1>4, <1>5, <1>6, <1>7 DEF Inv

LEMMA BackoffCutKeeps ==
    ASSUME TypeOK, TypeOK', Inv, NEW c \in Calls, BackoffCut(c)
    PROVE  Inv'
<1>1. Keyed'
    BY DEF TypeOK, Inv, Keyed, NoKey, BackoffCut, Goto, Return, request,
           context, keys, server
<1>2. Sent'
    BY DEF TypeOK, Inv, Sent, Keyed, OneAttemptAtATime, NoKey, Requests,
           BackoffCut, Goto, Return, request, context, keys, server
<1>3. Remembered'
    BY DEF TypeOK, Inv, Remembered, Keyed, Write, NoKey, Writes, BackoffCut,
           Goto, Return, request, context, keys, server
<1>4. Answered'
    BY DEF TypeOK, Inv, Answered, Write, MayRetry, Outcomes, BackoffCut, Goto,
           Return, request, context, keys, server
<1>5. AtMostOnce'
    BY DEF Inv, AtMostOnce, Protected, BackoffCut, Goto, Return, request,
           context, keys, server
<1>6. SuccessIsApplied'
    BY DEF TypeOK, Inv, SuccessIsApplied, Answered, Write, BackoffCut, Goto,
           Return, request, context, keys, server
<1>7. AttemptsBounded'
    BY AttemptsPositive DEF TypeOK, Inv, AttemptsBounded, Answered, MayRetry,
           BackoffCut, Goto, Return, request, context, keys, server
<1> QED BY <1>1, <1>2, <1>3, <1>4, <1>5, <1>6, <1>7 DEF Inv

LEMMA EndContextKeeps ==
    ASSUME TypeOK, TypeOK', Inv, NEW c \in Calls, EndContext(c)
    PROVE  Inv'
<1>1. Keyed'
    BY DEF TypeOK, Inv, Keyed, NoKey, EndContext, Goto, Return, request,
           context, keys, server
<1>2. Sent'
    BY DEF TypeOK, Inv, Sent, Keyed, OneAttemptAtATime, NoKey, Requests,
           EndContext, Goto, Return, request, context, keys, server
<1>3. Remembered'
    BY DEF TypeOK, Inv, Remembered, Keyed, Write, NoKey, Writes, EndContext,
           Goto, Return, request, context, keys, server
<1>4. Answered'
    BY DEF TypeOK, Inv, Answered, Write, MayRetry, Outcomes, EndContext, Goto,
           Return, request, context, keys, server
<1>5. AtMostOnce'
    BY DEF Inv, AtMostOnce, Protected, EndContext, Goto, Return, request,
           context, keys, server
<1>6. SuccessIsApplied'
    BY DEF TypeOK, Inv, SuccessIsApplied, Answered, Write, EndContext, Goto,
           Return, request, context, keys, server
<1>7. AttemptsBounded'
    BY AttemptsPositive DEF TypeOK, Inv, AttemptsBounded, Answered, MayRetry,
           EndContext, Goto, Return, request, context, keys, server
<1> QED BY <1>1, <1>2, <1>3, <1>4, <1>5, <1>6, <1>7 DEF Inv

LEMMA ServeKeeps ==
    ASSUME TypeOK, TypeOK', Inv, NEW r \in requests, Serve(r)
    PROVE  Inv'
<1> DEFINE c == r.call
<1>1. /\ c \in Calls /\ r.key = header[c] /\ r.id = id[c]
      /\ mutates[c] /\ AutoIdempotency => r.key # NoKey
    BY DEF TypeOK, Requests, Inv, Sent
<1>2. UNCHANGED <<pc, request, context, attempt, keys, result>>
    BY DEF Serve
<1>3. Keyed' /\ AttemptsBounded'
    BY <1>2 DEF Inv, Keyed, AttemptsBounded, request, keys
<1>4. Sent'
    BY <1>1, <1>2 DEF TypeOK, Requests, Inv, Sent, OneAttemptAtATime, Serve, request, keys
<1>5. PICK o \in Outcomes :
        /\ \/ mutates[c] /\ ~Duplicate(r) /\ Apply(r)
           \/ /\ o = "ok" => ~mutates[c] \/ Duplicate(r)
              /\ UNCHANGED server
        /\ reply' = IF pc[c] = "wait" /\ attempt[c] = r.attempt
                    THEN [reply EXCEPT ![c] = o] ELSE reply
    BY DEF Serve
<1> HIDE DEF c
\* Applying only adds to what is applied; nothing is unapplied.
<1>6. CASE mutates[c] /\ ~Duplicate(r) /\ Apply(r)
  <2>1. /\ Write(c) \in Writes
        /\ applied'[Write(c)] = applied[Write(c)] + 1
        /\ \A w \in Writes : w # Write(c) => applied'[w] = applied[w]
    BY <1>1, <1>6, WriteOf DEF Apply, TypeOK, c
  <2>2. \A w \in Writes : applied'[w] >= applied[w]
    BY <2>1 DEF TypeOK
  <2>3. \A d \in Calls : Write(d)' = Write(d) /\ Write(d) \in Writes
    BY <1>2, WriteOf DEF Write, request
  <2>4. seenKeys' = seenKeys \cup ({header[c]} \ {NoKey})
        /\ seenIds' = seenIds \cup ({id[c]} \ {NoId})
    BY <1>1, <1>6 DEF Apply
  <2>5. Remembered'
    <3>1. (seenKeys \subseteq 1 .. minted)'
      BY <1>1, <1>2, <2>4 DEF TypeOK, Inv, Remembered, Keyed, keys, NoKey
    <3>2. \A d \in Calls : header'[d] \in seenKeys' => applied'[Write(d)'] > 0
      BY <1>1, <1>2, <2>1, <2>2, <2>3, <2>4 DEF TypeOK, Inv, Remembered, Keyed, keys
    <3>3. \A i \in Ids : (i \in seenIds') <=> (applied'[i] > 0)
      BY <1>1, <2>1, <2>2, <2>4, WriteOf DEF TypeOK, Inv, Remembered, Writes
    <3>4. \A d \in Calls : AutoIdempotency /\ id'[d] = NoId /\ applied'[d] > 0
                               => header'[d] # NoKey /\ header'[d] \in seenKeys'
      <4> SUFFICES ASSUME NEW d \in Calls, AutoIdempotency, id'[d] = NoId,
                          applied'[d] > 0
                   PROVE  header'[d] # NoKey /\ header'[d] \in seenKeys'
          OBVIOUS
      <4>1. CASE d = Write(c)
        BY <1>1, <1>2, <1>6, <2>4, <4>1, WriteOf DEF keys, Writes
      <4>2. CASE d # Write(c)
        BY <1>2, <2>1, <2>4, <4>2 DEF Inv, Remembered, keys, request, Writes
      <4> QED BY <4>1, <4>2
    <3> QED BY <3>1, <3>2, <3>3, <3>4 DEF Remembered
  <2>6. Answered'
    BY <1>2, <1>5, <2>1, <2>2, <2>3 DEF TypeOK, Inv, Answered, MayRetry, request
  <2>7. AtMostOnce'
    <3> SUFFICES ASSUME NEW w \in Writes, Protected(w) PROVE applied'[w] <= 1
        BY DEF AtMostOnce, Protected
    <3>1. CASE w # Write(c)
      BY <2>1, <3>1 DEF Inv, AtMostOnce
    <3>2. CASE w = Write(c) /\ id[c] # NoId
      <4>1. w \in Ids /\ w = id[c] /\ w \notin seenIds
        BY <1>1, <1>6, <3>2, WriteOf DEF Duplicate, Protected
      <4>2. applied[w] = 0
        BY <4>1 DEF TypeOK, Inv, Remembered, Writes
      <4> QED BY <2>1, <3>2, <4>2
    <3>3. CASE w = Write(c) /\ id[c] = NoId
      <4>1. w = c /\ AutoIdempotency /\ header[c] # NoKey /\ header[c] \notin seenKeys
        BY <1>1, <1>6, <3>3, WriteOf DEF Duplicate, Protected
      <4>2. applied[w] = 0
        BY <1>1, <3>3, <4>1 DEF TypeOK, Inv, Remembered, Writes
      <4> QED BY <2>1, <3>3, <4>2
    <3> QED BY <3>1, <3>2, <3>3
  <2>8. SuccessIsApplied'
    BY <1>2, <2>2, <2>3 DEF TypeOK, Inv, SuccessIsApplied, request
  <2> QED BY <1>3, <1>4, <2>5, <2>6, <2>7, <2>8 DEF Inv
<1>7. CASE (o = "ok" => ~mutates[c] \/ Duplicate(r)) /\ UNCHANGED server
  <2>1. Remembered' /\ AtMostOnce' /\ SuccessIsApplied'
    BY <1>2, <1>7 DEF Inv, Remembered, AtMostOnce, SuccessIsApplied, Protected, Write,
                      server, request, keys
  \* A duplicate answered with success was applied before.
  <2>2. Duplicate(r) => applied[Write(c)] > 0
    BY <1>1, WriteOf DEF Duplicate, Inv, Remembered, TypeOK
  <2>3. Answered'
    BY <1>2, <1>5, <1>7, <2>2 DEF TypeOK, Inv, Answered, MayRetry, Write, request, server
  <2> QED BY <1>3, <1>4, <2>1, <2>3 DEF Inv
<1> QED BY <1>5, <1>6, <1>7

LEMMA InvStep == TypeOK /\ TypeOK' /\ Inv /\ [Next]_vars => Inv'
<1> SUFFICES ASSUME TypeOK, TypeOK', Inv, [Next]_vars PROVE Inv'
    OBVIOUS
<1>1. CASE \E c \in Calls : Step(c)
    BY <1>1, StartKeeps, TokenKeeps, TokenFailsKeeps, SendKeeps, AttemptFailsKeeps,
       ReceiveKeeps, NextAttemptKeeps, BackoffCutKeeps, EndContextKeeps DEF Step
<1>2. CASE \E r \in requests : Serve(r)
    BY <1>2, ServeKeeps
<1>3. CASE UNCHANGED vars
    BY <1>3 DEF Inv, Keyed, Sent, OneAttemptAtATime, Remembered, Answered, AtMostOnce,
                SuccessIsApplied, AttemptsBounded, Write, Protected, MayRetry, vars,
                request, context, keys, server
<1> QED BY StepCases, <1>1, <1>2, <1>3

\* The inductive invariant, for every configuration of the chain.
THEOREM Invariance == Spec => []IInv
<1>1. Init => TypeOK /\ Inv
    BY TypeInit, InvInit
<1>2. (TypeOK /\ Inv) /\ [Next]_vars => (TypeOK /\ Inv)'
    BY TypeStep, InvStep
<1>3. TypeOK /\ Inv => IInv
    BY DEF IInv, Inv
<1> QED BY <1>1, <1>2, <1>3, PTL DEF Spec

\* However often a write is retried, a server that de-duplicates applies it once.
THEOREM AppliedOnce == Spec => []AtMostOnce
<1>1. IInv => AtMostOnce
    BY DEF IInv
<1> QED BY <1>1, Invariance, PTL

\* A write that returned success took effect.
THEOREM SuccessMeansApplied == Spec => []SuccessIsApplied
<1>1. IInv => SuccessIsApplied
    BY DEF IInv
<1> QED BY <1>1, Invariance, PTL

\* A call never has two requests under way.
THEOREM NoConcurrentAttempts == Spec => []OneAttemptAtATime
<1>1. IInv => OneAttemptAtATime
    BY DEF IInv, Sent
<1> QED BY <1>1, Invariance, PTL

\* No call makes more attempts than configured, also for a maximum below one.
THEOREM RetriesEnd == Spec => []AttemptsBounded
<1>1. IInv => AttemptsBounded
    BY DEF IInv
<1> QED BY <1>1, Invariance, PTL
==============================================================================
