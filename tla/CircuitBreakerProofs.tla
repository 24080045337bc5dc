------------------------ MODULE CircuitBreakerProofs ------------------------
(***************************************************************************)
(* Proofs about CircuitBreaker and TokenCache, for any threads, lives of   *)
(* tokens, latencies, thresholds and cool-downs.                           *)
(*                                                                         *)
(* Why no thread is handed an old bearer although the provider neither     *)
(* locks nor knows when a token was issued: what it stores as the expiry   *)
(* is at most MaxLatency too late, also when the expiry is stored by       *)
(* another thread than the token, since both assign in the same instant.   *)
(*                                                                         *)
(* Why a cool-down stands although no thread holds a lock: to leave "open" *)
(* a thread must have read a deadline that was over by a clock that it had *)
(* read before, and every deadline that is assigned in the cool-down was   *)
(* computed from a later clock than the one it was begun with.             *)
(***************************************************************************)
EXTENDS CircuitBreaker, TLAPS

\* The cached expiry is late by at most the way of an answer, and so will be the
\* one that a thread is about to store.
CacheIsHonest ==
    /\ until <= now + TTL
    /\ cached # 0 => until <= cached + MaxLatency
    /\ \A c \in Callers : fetch[c] = "storing" =>
          /\ now + TTL <= bearer[c] + MaxLatency
          /\ now + TTL <= cached + MaxLatency

\* The steps of a request that has its headers, up to the end of its attempts.
HasHeaders(c) == fetch[c] = "ready" \/ step[c] \in {"checking", "waiting", "trial", "sending"}

\* Headers were built with a bearer that had the skew to go, but for that.
HeadersAreHonest ==
    \A c \in Callers :
        /\ step[c] # "idle" => fetch[c] = "none"
        /\ try[c] > 0 <=> step[c] = "sending"
        /\ HasHeaders(c) => since[c] + Skew <= bearer[c] + MaxLatency

\* The count is never ahead of the failures, although it may fall behind; who has
\* seen the breaker trip or open is right that there were enough of them.
CountIsReal ==
    /\ failCount <= failures
    /\ \A c \in Callers :
          /\ step[c] = "counting" => local[c] + 1 <= failures
          /\ step[c] \in {"waiting", "trial", "tripped", "opened"} => failures >= Threshold

\* Until the end of a cool-down in which some request came: the breaker is open,
\* its deadline and those about to be assigned are no earlier, and nobody has
\* seen an elapsed one.
CooldownStands ==
    \A c \in Callers :
        /\ barred[c] <= now + Cooldown
        /\ now < barred[c] =>
              /\ state = "open" /\ openUntil >= barred[c]
              /\ \A d \in Callers : /\ step[d] # "trial"
                                    /\ step[d] = "closing" => local[d] >= barred[c]

\* The clock that the pre-check read is not ahead.
ClockWasRead ==
    \A c \in Callers : step[c] \in {"checking", "waiting", "trial"} => local[c] <= now

IInv ==
    /\ TypeOK
    /\ CacheIsHonest
    /\ HeadersAreHonest
    /\ OpenIsEarned
    /\ CountIsReal
    /\ CooldownStands
    /\ ClockWasRead

\* The skew is never longer than the life of a token.
LEMMA SkewFits == Skew \in Nat /\ Skew <= TTL
  BY TokenAssumption DEF Skew, Greatest, Least

LEMMA InitInv == Init => IInv
  BY TokenAssumption, ConstantsAssumption
     DEF Init, TokenInit, IInv, TypeOK, TokenTypeOK, Fetching, Steps, OpenIsEarned, CacheIsHonest,
         HasHeaders, HeadersAreHonest, CountIsReal, CooldownStands, ClockWasRead

-----------------------------------------------------------------------------
(* The steps of the token cache.                                           *)

LEMMA TokenStepType == ASSUME IInv, NEW c \in Callers, TokenStep(c) PROVE TokenTypeOK'
<1> USE DEF IInv, TypeOK, TokenTypeOK, Fetching, At
<1>1. TTL \in Nat
    BY TokenAssumption
<1>2. CASE UseCached(c)
    BY <1>2 DEF UseCached
<1>3. CASE Ask(c)
    BY <1>3 DEF Ask
<1>4. CASE Issue(c)
    BY <1>1, <1>4 DEF Issue
<1>5. CASE StoreToken(c)
    BY <1>5 DEF StoreToken
<1>6. CASE StoreExpiry(c)
    BY <1>1, <1>6 DEF StoreExpiry
<1>7. CASE FetchFails(c)
    BY <1>7 DEF FetchFails, Forget
<1> QED BY <1>2, <1>3, <1>4, <1>5, <1>6, <1>7 DEF TokenStep

LEMMA TokenStepCache == ASSUME IInv, NEW c \in Callers, TokenStep(c) PROVE CacheIsHonest'
<1> USE DEF IInv, TypeOK, TokenTypeOK, Fetching, At, CacheIsHonest
<1>1. TTL \in Nat /\ MaxLatency \in Nat
    BY TokenAssumption
<1>2. CASE UseCached(c)
    BY <1>1, <1>2 DEF UseCached
<1>3. CASE Ask(c)
    BY <1>1, <1>3 DEF Ask
<1>4. CASE Issue(c)
    BY <1>1, <1>4 DEF Issue
<1>5. CASE StoreToken(c)
    BY <1>1, <1>5 DEF StoreToken
<1>6. CASE StoreExpiry(c)
    BY <1>1, <1>6 DEF StoreExpiry
<1>7. CASE FetchFails(c)
    BY <1>1, <1>7 DEF FetchFails, Forget
<1> QED BY <1>2, <1>3, <1>4, <1>5, <1>6, <1>7 DEF TokenStep

LEMMA TokenStepHeaders ==
    ASSUME IInv, NEW c \in Callers, TokenStep(c), step[c] = "idle", UNCHANGED <<step, try>>
    PROVE  HeadersAreHonest'
<1> USE SkewFits DEF IInv, TypeOK, TokenTypeOK, Fetching, At, HasHeaders, HeadersAreHonest
<1>1. TTL \in Nat /\ MaxLatency \in Nat
    BY TokenAssumption
<1>2. CASE UseCached(c)
    BY <1>1, <1>2 DEF UseCached, Expired, CacheIsHonest
<1>3. CASE Ask(c)
    BY <1>1, <1>3 DEF Ask
<1>4. CASE Issue(c)
    BY <1>1, <1>4 DEF Issue
<1>5. CASE StoreToken(c)
    BY <1>1, <1>5 DEF StoreToken
<1>6. CASE StoreExpiry(c)
    BY <1>1, <1>6 DEF StoreExpiry, CacheIsHonest
<1>7. CASE FetchFails(c)
    BY <1>1, <1>7 DEF FetchFails, Forget
<1> QED BY <1>2, <1>3, <1>4, <1>5, <1>6, <1>7 DEF TokenStep

LEMMA BuildHeadersInv == ASSUME IInv, NEW c \in Callers, BuildHeaders(c) PROVE IInv'
<1>1. TokenTypeOK' /\ CacheIsHonest' /\ HeadersAreHonest'
    BY TokenStepType, TokenStepCache, TokenStepHeaders DEF BuildHeaders
<1>2. now' = now
    BY DEF BuildHeaders, TokenStep, UseCached, Ask, Issue, StoreToken, StoreExpiry, FetchFails, Forget
<1>3. TypeOK' /\ OpenIsEarned' /\ CountIsReal' /\ CooldownStands' /\ ClockWasRead'
    BY <1>1, <1>2
       DEF IInv, TypeOK, BuildHeaders, breaker, OpenIsEarned, CountIsReal, CooldownStands, ClockWasRead
<1> QED BY <1>1, <1>3 DEF IInv

-----------------------------------------------------------------------------
(* The steps of a request with its headers, one lemma per conjunct.        *)

RequestStep(c) ==
    \/ Check(c) \/ Pass(c) \/ SeeOpen(c) \/ Refuse(c) \/ SeeElapsed(c) \/ GoHalf(c)
    \/ Succeed(c) \/ Retry(c) \/ FailTerminally(c)
    \/ StoreCount(c) \/ TestCount(c) \/ Open(c) \/ ReadClock(c) \/ StoreDeadline(c)

LEMMA RequestType == ASSUME IInv, NEW c \in Callers, RequestStep(c) PROVE TypeOK'
<1> USE ConstantsAssumption, TokenAssumption DEF IInv, TypeOK, TokenTypeOK, Fetching, Steps
<1>1. CASE Check(c)
    BY <1>1 DEF Check, At, Reads, Goes, breaker, EndOfCooldown
<1>2. CASE Pass(c)
    BY <1>2 DEF Pass, Send, Reads, Goes, tokens, breaker
<1>3. CASE SeeOpen(c)
    BY <1>3 DEF SeeOpen, Goes, tokens, breaker
<1>4. CASE Refuse(c)
    BY <1>4 DEF Refuse, Forget, Reads, Goes, breaker
<1>5. CASE SeeElapsed(c)
    BY <1>5 DEF SeeElapsed, Goes, tokens, breaker
<1>6. CASE GoHalf(c)
    BY <1>6 DEF GoHalf, Send, Reads, Goes, tokens
<1>7. CASE Succeed(c)
    BY <1>7 DEF Succeed, Forget, Goes, breaker
<1>8. CASE Retry(c)
    BY <1>8 DEF Retry, tokens, breaker
<1>9. CASE FailTerminally(c)
    BY <1>9 DEF FailTerminally, Forget, Reads, Goes, breaker
<1>10. CASE StoreCount(c)
    BY <1>10 DEF StoreCount, Reads, Goes, tokens
<1>11. CASE TestCount(c)
    BY <1>11 DEF TestCount, Goes, tokens, breaker
<1>12. CASE Open(c)
    BY <1>12 DEF Open, Goes, tokens
<1>13. CASE ReadClock(c)
    BY <1>13 DEF ReadClock, Reads, Goes, tokens, breaker
<1>14. CASE StoreDeadline(c)
    BY <1>14 DEF StoreDeadline, Reads, Goes, tokens
<1> QED
    BY <1>1, <1>2, <1>3, <1>4, <1>5, <1>6, <1>7, <1>8, <1>9, <1>10, <1>11, <1>12, <1>13, <1>14
       DEF RequestStep

LEMMA RequestCache == ASSUME IInv, NEW c \in Callers, RequestStep(c) PROVE CacheIsHonest'
<1> USE DEF IInv, TypeOK, TokenTypeOK, Fetching, CacheIsHonest, HeadersAreHonest
<1>1. CASE Check(c)
    BY <1>1 DEF Check, At, Reads, Goes, breaker
<1>2. CASE Pass(c)
    BY <1>2 DEF Pass, Send, Reads, Goes, tokens, breaker
<1>3. CASE SeeOpen(c)
    BY <1>3 DEF SeeOpen, Goes, tokens, breaker
<1>4. CASE Refuse(c)
    BY <1>4 DEF Refuse, Forget, Reads, Goes, breaker
<1>5. CASE SeeElapsed(c)
    BY <1>5 DEF SeeElapsed, Goes, tokens, breaker
<1>6. CASE GoHalf(c)
    BY <1>6 DEF GoHalf, Send, Reads, Goes, tokens
<1>7. CASE Succeed(c)
    BY <1>7 DEF Succeed, Forget, Goes, breaker
<1>8. CASE Retry(c)
    BY <1>8 DEF Retry, tokens, breaker
<1>9. CASE FailTerminally(c)
    BY <1>9 DEF FailTerminally, Forget, Reads, Goes, breaker
<1>10. CASE StoreCount(c)
    BY <1>10 DEF StoreCount, Reads, Goes, tokens
<1>11. CASE TestCount(c)
    BY <1>11 DEF TestCount, Goes, tokens, breaker
<1>12. CASE Open(c)
    BY <1>12 DEF Open, Goes, tokens
<1>13. CASE ReadClock(c)
    BY <1>13 DEF ReadClock, Reads, Goes, tokens, breaker
<1>14. CASE StoreDeadline(c)
    BY <1>14 DEF StoreDeadline, Reads, Goes, tokens
<1> QED
    BY <1>1, <1>2, <1>3, <1>4, <1>5, <1>6, <1>7, <1>8, <1>9, <1>10, <1>11, <1>12, <1>13, <1>14
       DEF RequestStep

LEMMA RequestHeaders == ASSUME IInv, NEW c \in Callers, RequestStep(c) PROVE HeadersAreHonest'
<1> USE TokenAssumption, SkewFits
    DEF IInv, TypeOK, TokenTypeOK, Fetching, Steps, HasHeaders, HeadersAreHonest
<1>1. CASE Check(c)
    BY <1>1 DEF Check, At, Reads, Goes, breaker
<1>2. CASE Pass(c)
    BY <1>2 DEF Pass, Send, Reads, Goes, tokens, breaker
<1>3. CASE SeeOpen(c)
    BY <1>3 DEF SeeOpen, Goes, tokens, breaker
<1>4. CASE Refuse(c)
    BY <1>4 DEF Refuse, Forget, Reads, Goes, breaker
<1>5. CASE SeeElapsed(c)
    BY <1>5 DEF SeeElapsed, Goes, tokens, breaker
<1>6. CASE GoHalf(c)
    BY <1>6 DEF GoHalf, Send, Reads, Goes, tokens
<1>7. CASE Succeed(c)
    BY <1>7 DEF Succeed, Forget, Goes, breaker
<1>8. CASE Retry(c)
    BY <1>8 DEF Retry, tokens, breaker
<1>9. CASE FailTerminally(c)
    BY <1>9 DEF FailTerminally, Forget, Reads, Goes, breaker
<1>10. CASE StoreCount(c)
    BY <1>10 DEF StoreCount, Reads, Goes, tokens
<1>11. CASE TestCount(c)
    BY <1>11 DEF TestCount, Goes, tokens, breaker
<1>12. CASE Open(c)
    BY <1>12 DEF Open, Goes, tokens
<1>13. CASE ReadClock(c)
    BY <1>13 DEF ReadClock, Reads, Goes, tokens, breaker
<1>14. CASE StoreDeadline(c)
    BY <1>14 DEF StoreDeadline, Reads, Goes, tokens
<1> QED
    BY <1>1, <1>2, <1>3, <1>4, <1>5, <1>6, <1>7, <1>8, <1>9, <1>10, <1>11, <1>12, <1>13, <1>14
       DEF RequestStep

LEMMA RequestEarned == ASSUME IInv, NEW c \in Callers, RequestStep(c) PROVE OpenIsEarned' /\ CountIsReal'
<1> USE ConstantsAssumption DEF IInv, TypeOK, TokenTypeOK, OpenIsEarned, CountIsReal
<1>1. CASE Check(c)
    BY <1>1 DEF Check, At, Reads, Goes, breaker
<1>2. CASE Pass(c)
    BY <1>2 DEF Pass, Send, Reads, Goes, tokens, breaker
<1>3. CASE SeeOpen(c)
    BY <1>3 DEF SeeOpen, Goes, tokens, breaker
<1>4. CASE Refuse(c)
    BY <1>4 DEF Refuse, Forget, Reads, Goes, breaker
<1>5. CASE SeeElapsed(c)
    BY <1>5 DEF SeeElapsed, Goes, tokens, breaker
<1>6. CASE GoHalf(c)
    BY <1>6 DEF GoHalf, Send, Reads, Goes, tokens
<1>7. CASE Succeed(c)
    BY <1>7 DEF Succeed, Forget, Goes, breaker
<1>8. CASE Retry(c)
    BY <1>8 DEF Retry, tokens, breaker
<1>9. CASE FailTerminally(c)
    BY <1>9 DEF FailTerminally, Forget, Reads, Goes, breaker
<1>10. CASE StoreCount(c)
    BY <1>10 DEF StoreCount, Reads, Goes, tokens
<1>11. CASE TestCount(c)
    BY <1>11 DEF TestCount, Goes, tokens, breaker, Tripped
<1>12. CASE Open(c)
    BY <1>12 DEF Open, Goes, tokens
<1>13. CASE ReadClock(c)
    BY <1>13 DEF ReadClock, Reads, Goes, tokens, breaker
<1>14. CASE StoreDeadline(c)
    BY <1>14 DEF StoreDeadline, Reads, Goes, tokens
<1> QED
    BY <1>1, <1>2, <1>3, <1>4, <1>5, <1>6, <1>7, <1>8, <1>9, <1>10, <1>11, <1>12, <1>13, <1>14
       DEF RequestStep

LEMMA RequestCooldown ==
    ASSUME IInv, NEW c \in Callers, RequestStep(c) PROVE CooldownStands' /\ ClockWasRead'
<1> USE ConstantsAssumption
    DEF IInv, TypeOK, TokenTypeOK, OpenIsEarned, CooldownStands, ClockWasRead
<1>1. CASE Check(c)
    BY <1>1 DEF Check, At, Reads, Goes, breaker, EndOfCooldown, FailsFast
<1>2. CASE Pass(c)
    BY <1>2 DEF Pass, Send, Reads, Goes, tokens, breaker
<1>3. CASE SeeOpen(c)
    BY <1>3 DEF SeeOpen, Goes, tokens, breaker
<1>4. CASE Refuse(c)
    BY <1>4 DEF Refuse, Forget, Reads, Goes, breaker
<1>5. CASE SeeElapsed(c)
    BY <1>5 DEF SeeElapsed, Goes, tokens, breaker
<1>6. CASE GoHalf(c)
    BY <1>6 DEF GoHalf, Send, Reads, Goes, tokens
<1>7. CASE Succeed(c)
    BY <1>7 DEF Succeed, Forget, Goes, breaker
<1>8. CASE Retry(c)
    BY <1>8 DEF Retry, tokens, breaker
<1>9. CASE FailTerminally(c)
    BY <1>9 DEF FailTerminally, Forget, Reads, Goes, breaker
<1>10. CASE StoreCount(c)
    BY <1>10 DEF StoreCount, Reads, Goes, tokens
<1>11. CASE TestCount(c)
    BY <1>11 DEF TestCount, Goes, tokens, breaker
<1>12. CASE Open(c)
    BY <1>12 DEF Open, Goes, tokens
<1>13. CASE ReadClock(c)
    BY <1>13 DEF ReadClock, Reads, Goes, tokens, breaker
<1>14. CASE StoreDeadline(c)
    BY <1>14 DEF StoreDeadline, Reads, Goes, tokens
<1> QED
    BY <1>1, <1>2, <1>3, <1>4, <1>5, <1>6, <1>7, <1>8, <1>9, <1>10, <1>11, <1>12, <1>13, <1>14
       DEF RequestStep

LEMMA TimeInv == ASSUME IInv, TimePasses PROVE IInv'
<1> USE TokenAssumption, ConstantsAssumption, SkewFits
    DEF IInv, TypeOK, TokenTypeOK, Fetching, TimePasses, Tick, tokens, breaker
<1>1. TypeOK'
    OBVIOUS
<1>2. CacheIsHonest'
    BY DEF CacheIsHonest
<1>3. HeadersAreHonest'
    BY DEF HasHeaders, HeadersAreHonest
<1>4. OpenIsEarned' /\ CountIsReal'
    BY DEF OpenIsEarned, CountIsReal
<1>5. CooldownStands' /\ ClockWasRead'
    BY DEF CooldownStands, ClockWasRead
<1> QED BY <1>1, <1>2, <1>3, <1>4, <1>5

LEMMA NextInv == IInv /\ [Next]_vars => IInv'
<1> SUFFICES ASSUME IInv, [Next]_vars PROVE IInv'
    OBVIOUS
<1>1. ASSUME NEW c \in Callers, RequestStep(c) PROVE IInv'
    BY <1>1, RequestType, RequestCache, RequestHeaders, RequestEarned, RequestCooldown DEF IInv
<1>2. CASE Next
    BY <1>1, <1>2, BuildHeadersInv, TimeInv DEF Next, RequestStep
<1>3. CASE UNCHANGED vars
    BY <1>3 DEF vars, tokens, breaker, IInv, TypeOK, TokenTypeOK, OpenIsEarned, CacheIsHonest,
                HasHeaders, HeadersAreHonest, CountIsReal, CooldownStands, ClockWasRead
<1> QED BY <1>2, <1>3

-----------------------------------------------------------------------------
(* The theorems.                                                           *)

\* The inductive invariant holds of every reachable state.
THEOREM Invariance == Spec => []IInv
  BY InitInv, NextInv, PTL DEF Spec

\* Every variable of the client keeps its type.
THEOREM TypeCorrect == Spec => []TypeOK
<1>1. IInv => TypeOK
    BY DEF IInv
<1> QED BY <1>1, Invariance, PTL

\* The breaker opens only after Threshold terminal failures, and for one
\* cool-down, however many threads fail at a time and lose each other's counts.
THEOREM OpeningIsEarned == Spec => []OpenIsEarned
<1>1. IInv => OpenIsEarned
    BY DEF IInv
<1> QED BY <1>1, Invariance, PTL

\* No thread is handed an old bearer: one that the server no longer takes has
\* grown old in the request's own pre-check and retries.
THEOREM BearersAreFresh == Spec => []BearerAgesInRetries
<1>1. IInv => BearerAgesInRetries
  <2> SUFFICES ASSUME IInv, NEW c \in Callers, try[c] > 0, now >= bearer[c]
               PROVE  now + MaxLatency >= since[c] + Skew
      BY DEF BearerAgesInRetries
  <2>1. since[c] + Skew <= bearer[c] + MaxLatency
      BY DEF IInv, HeadersAreHonest, HasHeaders
  <2> QED BY <2>1, TokenAssumption, SkewFits DEF IInv, TypeOK, TokenTypeOK
<1> QED BY <1>1, Invariance, PTL

\* A request that comes in a cool-down is not let in before it ends, unless a
\* thread had seen the end of an earlier one or computed an earlier deadline when
\* it came (docs/finastra.md:30).
THEOREM CooldownIsKept == Spec => CooldownHolds
<1>1. IInv /\ [Next]_vars =>
        [\A c \in Callers : (try[c] = 0 /\ try'[c] > 0) => now >= barred[c]]_vars
  <2> SUFFICES ASSUME IInv, Next, NEW c \in Callers, try[c] = 0, try'[c] > 0
               PROVE  now >= barred[c]
      OBVIOUS
  <2>1. Pass(c) \/ GoHalf(c)
    <3> USE DEF IInv, TypeOK, Goes
    <3>1. \A d \in Callers : step[d] = "sending" => try[d] > 0
        BY DEF HeadersAreHonest
    <3>2. ASSUME NEW d \in Callers, Pass(d) \/ GoHalf(d) PROVE d = c
        BY <3>2 DEF Pass, GoHalf, Send
    <3>3. ASSUME NEW d \in Callers, Retry(d) PROVE FALSE
        BY <3>3 DEF Retry
    <3>4. ASSUME NEW d \in Callers, Succeed(d) \/ FailTerminally(d) PROVE FALSE
        BY <3>4 DEF Succeed, FailTerminally
    <3>5. ASSUME NEW d \in Callers,
                 \/ BuildHeaders(d) \/ Check(d) \/ SeeOpen(d) \/ Refuse(d) \/ SeeElapsed(d)
                 \/ StoreCount(d) \/ TestCount(d) \/ Open(d) \/ ReadClock(d) \/ StoreDeadline(d)
          PROVE  FALSE
        BY <3>5 DEF BuildHeaders, Check, SeeOpen, Refuse, SeeElapsed, StoreCount, TestCount, Open,
                    ReadClock, StoreDeadline
    <3> QED BY <3>2, <3>3, <3>4, <3>5 DEF Next, TimePasses
  <2>2. (state # "open" \/ step[c] = "trial") /\ now \in Nat /\ barred[c] \in Nat
      BY <2>1, TokenAssumption DEF Pass, GoHalf, Goes, IInv, TypeOK, TokenTypeOK
  <2> QED BY <2>2 DEF IInv, CooldownStands
<1> QED BY <1>1, Invariance, PTL DEF Spec, CooldownHolds

-----------------------------------------------------------------------------
(* One thread.                                                             *)

OneThread == \A c, d \in Callers : c = d

\* docs/finastra.md:33, "transition back to open", of a thread that has the client
\* for itself: a terminal failure of the trial trips the breaker again.
TrialFailureReopens ==
    [][\A c \in Callers :
          (state = "half" /\ step[c] = "testing" /\ step'[c] # "testing")
              => step'[c] = "tripped"]_vars

\* Without another thread no update of the count is lost.
CountIsExact ==
    \A c \in Callers :
        IF step[c] = "counting" THEN local[c] = failCount /\ failures = failCount + 1
                                ELSE failures = failCount

LEMMA OneThreadCounts == ASSUME OneThread PROVE Spec => []CountIsExact
<1>1. Init => CountIsExact
    BY DEF Init, CountIsExact
<1>2. IInv /\ CountIsExact /\ [Next]_vars => CountIsExact'
  <2> SUFFICES ASSUME IInv, CountIsExact, [Next]_vars PROVE CountIsExact'
      OBVIOUS
  <2> USE DEF IInv, TypeOK, CountIsExact, OneThread
  <2>1. ASSUME NEW c \in Callers, RequestStep(c) PROVE CountIsExact'
    <3>1. CASE Check(c)
        BY <3>1 DEF Check, At, Reads, Goes, breaker
    <3>2. CASE Pass(c)
        BY <3>2 DEF Pass, Send, Reads, Goes, tokens, breaker
    <3>3. CASE SeeOpen(c)
        BY <3>3 DEF SeeOpen, Goes, tokens, breaker
    <3>4. CASE Refuse(c)
        BY <3>4 DEF Refuse, Forget, Reads, Goes, breaker
    <3>5. CASE SeeElapsed(c)
        BY <3>5 DEF SeeElapsed, Goes, tokens, breaker
    <3>6. CASE GoHalf(c)
        BY <3>6 DEF GoHalf, Send, Reads, Goes, tokens
    <3>7. CASE Succeed(c)
        BY <3>7 DEF Succeed, Forget, Goes, breaker
    <3>8. CASE Retry(c)
        BY <3>8 DEF Retry, tokens, breaker
    <3>9. CASE FailTerminally(c)
        BY <3>9 DEF FailTerminally, Forget, Reads, Goes, breaker
    <3>10. CASE StoreCount(c)
        BY <3>10 DEF StoreCount, Reads, Goes, tokens
    <3>11. CASE TestCount(c)
        BY <3>11 DEF TestCount, Goes, tokens, breaker
    <3>12. CASE Open(c)
        BY <3>12 DEF Open, Goes, tokens
    <3>13. CASE ReadClock(c)
        BY <3>13 DEF ReadClock, Reads, Goes, tokens, breaker
    <3>14. CASE StoreDeadline(c)
        BY <3>14 DEF StoreDeadline, Reads, Goes, tokens
    <3> QED BY <3>1, <3>2, <3>3, <3>4, <3>5, <3>6, <3>7, <3>8, <3>9,
               <3>10, <3>11, <3>12, <3>13, <3>14, <2>1 DEF RequestStep
  <2>2. ASSUME NEW c \in Callers, BuildHeaders(c) PROVE CountIsExact'
      BY <2>2 DEF BuildHeaders, breaker
  <2>3. CASE TimePasses \/ UNCHANGED vars
      BY <2>3 DEF TimePasses, vars, breaker
  <2> QED BY <2>1, <2>2, <2>3 DEF Next, RequestStep
<1> QED BY <1>1, <1>2, Invariance, PTL DEF Spec

\* A failed trial trips the breaker again where one thread has the client for
\* itself (docs/finastra.md:33); another thread's update may hide the failure.
THEOREM FailedTrialReopens == ASSUME OneThread PROVE Spec => TrialFailureReopens
<1>1. IInv /\ CountIsExact /\ [Next]_vars =>
        [\A c \in Callers : (state = "half" /\ step[c] = "testing" /\ step'[c] # "testing")
                                => step'[c] = "tripped"]_vars
  <2> SUFFICES ASSUME IInv, CountIsExact, Next, NEW c \in Callers,
                      state = "half", step[c] = "testing", step'[c] # "testing"
               PROVE  step'[c] = "tripped"
      OBVIOUS
  <2>1. Tripped(failCount)
      BY ConstantsAssumption DEF IInv, TypeOK, OpenIsEarned, CountIsExact, Tripped
  <2>2. TestCount(c)
    <3> USE DEF Goes, OneThread
    <3>1. ASSUME NEW d \in Callers, RequestStep(d) PROVE TestCount(d)
        BY <3>1 DEF RequestStep, Check, Pass, SeeOpen, Refuse, SeeElapsed, GoHalf, Succeed, Retry,
                    FailTerminally, StoreCount, Open, ReadClock, StoreDeadline
    <3> QED BY <3>1 DEF Next, RequestStep, BuildHeaders, TimePasses
  <2> QED BY <2>1, <2>2 DEF TestCount, Goes, IInv, TypeOK
<1> QED BY <1>1, OneThreadCounts, Invariance, PTL DEF Spec, TrialFailureReopens
=============================================================================
