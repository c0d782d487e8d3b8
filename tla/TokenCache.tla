------------------------------ MODULE TokenCache ------------------------------
(***************************************************************************)
(* The caching TokenSource of examples/internal/spectrumauth and the calls  *)
(* that use its tokens: Connect exchanges the project's credentials and     *)
(* selects a line, Token refreshes shortly before expiry under a mutex, and *)
(* the chain resolves a token once per call and sends it with every attempt.*)
(* Clocks are relative: what is left of a lifetime, how old an exchange is. *)
(***************************************************************************)
EXTENDS Integers

CONSTANTS Callers,       \* goroutines that make calls with one token source
          Instances,     \* ids of dedicated lines
          Numbers,       \* phone numbers
          Any,           \* cfg.Line or cfg.Instance left empty; no instance
          Main,          \* the goroutine in Connect
          Nobody,        \* no exchange is under way
          Lifetimes,     \* values of ExpiresIn
          RefreshSkew,   \* refreshSkew
          HttpTimeout,   \* httpTimeout of the exchange
          CallTimeout    \* the default deadline of a call (WithTimeout)

ASSUME CacheAssumption ==
    /\ Any \notin Instances \cup Numbers
    /\ {Main, Nobody} \cap Callers = {} /\ Main # Nobody
    /\ RefreshSkew \in Nat /\ HttpTimeout \in Nat /\ CallTimeout \in Nat
    /\ Lifetimes \subseteq Nat

\* What keeps a token valid for the whole of a call: the example's 60 s, 30 s
\* and 30 s just satisfy it.
ASSUME MarginAssumption ==
    /\ HttpTimeout + CallTimeout <= RefreshSkew
    /\ \A l \in Lifetimes : l > HttpTimeout + CallTimeout

VARIABLES
    boot,      \* Connect: "new", "ready" or "failed"
    want,      \* cfg.Instance and cfg.Line
    instance,  \* the selected instance id
    cache,     \* s.token (held or ""), its validity at the server, s.expiry
    exch,      \* the exchange under way
    pc,        \* where each caller is
    held       \* the token a call presents: what is left of it, time since

vars == <<boot, want, instance, cache, exch, pc, held>>

MaxOf(a, b) == IF a > b THEN a ELSE b
Less(n) == MaxOf(n - 1, 0)

Quiet == [by |-> Nobody, age |-> 0, life |-> 0, valid |-> 0]
Requested(c) == [by |-> c, age |-> 0, life |-> 0, valid |-> 0]

\* What the server may answer an exchange with.
Responses == [dedicated : BOOLEAN, auth : SUBSET Instances,
              numbers : [Instances -> Numbers \cup {Any}]]

\* selectInstance: the ids the response allows, {} for its errors.  Ranging over
\* the map of numbers takes any entry that matches, in auth or not.
SelectInstance(r) ==
    IF r.auth = {} THEN {}
    ELSE IF want.instance # Any THEN {want.instance} \cap r.auth
    ELSE IF want.line # Any THEN {i \in Instances : r.numbers[i] = want.line}
    ELSE IF \E i \in Instances : r.auth = {i} THEN r.auth
    ELSE {}

MutexFree == \A c \in Callers : pc[c] \notin {"locked", "exchange"}

Goto(c, s) == pc' = [pc EXCEPT ![c] = s]

\* Token returns the cached token: the call presents it from now on.
Present(c, valid) ==
    Goto(c, "calling") /\ held' = [held EXCEPT ![c] = [valid |-> valid, age |-> 0]]

-----------------------------------------------------------------------------
(* Plausible bugs; see the note in Resumable.                               *)

Cached_NoSkew(present) ==
    [token |-> present, valid |-> IF present THEN exch.valid ELSE 0, fresh |-> exch.life]

FromCache_NoEmptyCheck(c) ==
    /\ pc[c] = "locked" /\ cache.fresh > 0
    /\ Present(c, cache.valid)
    /\ UNCHANGED <<boot, want, instance, cache, exch>>

TimesOut_Never(c) == FALSE /\ UNCHANGED <<vars, c>>

-----------------------------------------------------------------------------
\* The cache after an exchange that arrived now: expiry = now + ExpiresIn - skew.
Cached(present) ==
    [token |-> present, valid |-> IF present THEN exch.valid ELSE 0,
     fresh |-> MaxOf(exch.life - RefreshSkew, 0)]

Init ==
    /\ boot = "new"
    /\ want \in [instance : Instances \cup {Any}, line : Numbers \cup {Any}]
    /\ instance = Any
    /\ cache = [token |-> FALSE, valid |-> 0, fresh |-> 0]
    /\ exch = Requested(Main)
    /\ pc = [c \in Callers |-> "idle"]
    /\ held = [c \in Callers |-> [valid |-> 0, age |-> 0]]

\* The server issues a token and answers; the answer is on its way.
Issue ==
    /\ exch.by # Nobody /\ exch.life = 0
    /\ \E l \in Lifetimes : exch' = [exch EXCEPT !.life = l, !.valid = l]
    /\ UNCHANGED <<boot, want, instance, cache, pc, held>>

\* Connect receives the answer.  A line picked by number need not be in auth:
\* the token is then the empty string, with an expiry.
ConnectReply ==
    /\ exch.by = Main /\ exch.life > 0
    /\ \E r \in Responses :
         IF r.dedicated /\ SelectInstance(r) # {}
         THEN \E i \in SelectInstance(r) :
                /\ boot' = "ready" /\ instance' = i
                /\ cache' = Cached(i \in r.auth)
         ELSE boot' = "failed" /\ UNCHANGED <<instance, cache>>
    /\ exch' = Quiet
    /\ UNCHANGED <<want, pc, held>>

\* The exchange fails: no connection, a status other than 200, a body that is
\* not the expected JSON, the context of this call ends, the client times out.
ConnectFails ==
    /\ exch.by = Main
    /\ boot' = "failed" /\ exch' = Quiet
    /\ UNCHANGED <<want, instance, cache, pc, held>>

\* A call starts and its auth interceptor asks for the token.
Call(c) ==
    /\ boot = "ready" /\ pc[c] = "idle"
    /\ Goto(c, "lock")
    /\ UNCHANGED <<boot, want, instance, cache, exch, held>>

\* The mutex is acquired, whatever the call's context says by now.
Lock(c) ==
    /\ pc[c] = "lock" /\ MutexFree
    /\ Goto(c, "locked")
    /\ UNCHANGED <<boot, want, instance, cache, exch, held>>

FromCache(c) ==
    /\ pc[c] = "locked" /\ cache.token /\ cache.fresh > 0
    /\ Present(c, cache.valid)
    /\ UNCHANGED <<boot, want, instance, cache, exch>>

Refresh(c) ==
    /\ pc[c] = "locked" /\ ~(cache.token /\ cache.fresh > 0)
    /\ Goto(c, "exchange") /\ exch' = Requested(c)
    /\ UNCHANGED <<boot, want, instance, cache, held>>

\* The answer lists the instance: cache its token and return it.
Refreshed(c) ==
    /\ exch.by = c /\ exch.life > 0
    /\ cache' = Cached(TRUE) /\ Present(c, exch.valid)
    /\ exch' = Quiet
    /\ UNCHANGED <<boot, want, instance>>

\* An error leaves the cache as it is and fails the call before it is sent: the
\* exchange failed as in ConnectFails, or the answer does not list the instance.
ExchangeFails(c) ==
    /\ exch.by = c
    /\ Goto(c, "idle") /\ exch' = Quiet
    /\ UNCHANGED <<boot, want, instance, cache, held>>

\* The http client's own timeout.
TimesOut(c) == exch.age = HttpTimeout /\ ExchangeFails(c)

\* The call returns, at the latest when its deadline passes.
CallEnds(c) ==
    /\ pc[c] = "calling" /\ Goto(c, "idle")
    /\ UNCHANGED <<boot, want, instance, cache, exch, held>>

\* Time passes, not past a timeout that is due.
Tick ==
    /\ exch.by # Nobody => exch.age < HttpTimeout
    /\ \A c \in Callers : pc[c] = "calling" => held[c].age < CallTimeout
    /\ cache' = [cache EXCEPT !.valid = Less(@), !.fresh = Less(@)]
    /\ exch' = IF exch.by = Nobody THEN exch
               ELSE [exch EXCEPT !.age = @ + 1, !.valid = Less(@)]
    /\ held' = [c \in Callers |-> IF pc[c] = "calling"
                 THEN [valid |-> Less(held[c].valid), age |-> held[c].age + 1]
                 ELSE held[c]]
    /\ UNCHANGED <<boot, want, instance, pc>>

Next ==
    \/ Issue \/ ConnectReply \/ ConnectFails \/ Tick
    \/ \E c \in Callers :
         \/ Call(c) \/ Lock(c) \/ FromCache(c) \/ Refresh(c) \/ Refreshed(c)
         \/ ExchangeFails(c) \/ TimesOut(c) \/ CallEnds(c)

Spec == Init /\ [][Next]_vars

\* Callers are scheduled, time passes, the http client times out, a call ends
\* by its deadline.  sync.Mutex starves no one (its starvation mode is first in,
\* first out): strong fairness.  The server may stay silent.
FairSpec ==
    /\ Spec /\ WF_vars(Tick)
    /\ \A c \in Callers :
         /\ SF_vars(Lock(c))
         /\ WF_vars(FromCache(c) \/ Refresh(c))
         /\ WF_vars(TimesOut(c))
         /\ WF_vars(CallEnds(c) /\ held[c].age = CallTimeout)

-----------------------------------------------------------------------------
(* Properties.                                                              *)

Remaining == Nat

\* Every variable keeps its type.
TypeOK ==
    /\ boot \in {"new", "ready", "failed"}
    /\ want \in [instance : Instances \cup {Any}, line : Numbers \cup {Any}]
    /\ instance \in Instances \cup {Any}
    /\ cache \in [token : BOOLEAN, valid : Remaining, fresh : Remaining]
    /\ exch \in [by : Callers \cup {Main, Nobody}, age : 0..HttpTimeout,
                 life : Lifetimes \cup {0}, valid : Remaining]
    /\ pc \in [Callers -> {"idle", "lock", "locked", "exchange", "calling"}]
    /\ held \in [Callers -> [valid : Remaining, age : Remaining]]

\* One exchange at a time, run by the caller that holds the mutex.
Exclusive ==
    /\ \A c \in Callers : pc[c] = "exchange" <=> exch.by = c
    /\ \A c, d \in Callers :
         pc[c] \in {"locked", "exchange"} /\ pc[d] \in {"locked", "exchange"} => c = d
    /\ boot = "new" <=> exch.by = Main
    /\ \A c \in Callers : pc[c] # "idle" => boot = "ready"

\* The server's clock started when the token was issued, the cache's when it
\* arrived: they differ by at most the exchange.
Margins ==
    /\ exch.by # Nobody /\ exch.life > 0 => exch.valid >= exch.life - exch.age
    /\ cache.token /\ cache.fresh > 0 =>
         cache.valid >= cache.fresh + RefreshSkew - HttpTimeout
    /\ \A c \in Callers : pc[c] = "calling" =>
         held[c].age <= CallTimeout /\ held[c].valid > CallTimeout - held[c].age

\* Strengthened to be inductive; see the proofs.
IInv == TypeOK /\ Exclusive /\ Margins

\* A call resolves its token once and every attempt until its deadline presents
\* it (interceptor.go:36-45, outside the retries): it is valid throughout, also
\* when it came from the cache a moment before s.expiry, or was issued a whole
\* exchange before it arrived (spectrumauth.go:142-156).
EveryAttemptAuthorized ==
    \A c \in Callers : pc[c] = "calling" => held[c].valid > 0

\* A caller that waits for the mutex ignores its context (spectrumauth.go:139),
\* but the token or an error reaches it: each exchange ahead of it is bounded by
\* the http client's timeout.
TokenReturns ==
    \A c \in Callers : pc[c] = "lock" ~> pc[c] \in {"idle", "calling"}
==============================================================================
