--------------------------- MODULE CircuitBreaker ---------------------------
(***************************************************************************)
(* FinastraAPIClient.request (bankersbank/finastra.py): the retry loop and *)
(* the circuit breaker around it, enabled, over the headers of TokenCache, *)
(* which are built once per request and before the breaker is asked.  One  *)
(* client object is used by one or several threads; it has no lock.  Each  *)
(* action therefore reads or writes one attribute of the breaker, and what *)
(* a thread has read may be old when it acts on it.                        *)
(***************************************************************************)
EXTENDS TokenCache

CONSTANTS Attempts,    \* HTTP sends per request (3)
          Threshold,   \* FINASTRA_BREAKER_FAIL_THRESHOLD
          Cooldown,    \* FINASTRA_BREAKER_COOLDOWN_SEC
          MaxCalls     \* bound on the requests started

ASSUME ConstantsAssumption ==
    /\ Attempts \in Nat \ {0}
    /\ Threshold \in Nat \ {0}
    /\ Cooldown \in Nat \ {0}
    /\ MaxCalls \in Nat

VARIABLES state,      \* _cb_state
          failCount,  \* _cb_fail_count
          openUntil,  \* _cb_open_until
          step,       \* where each caller stands in request
          local,      \* what each caller has read or computed and not used yet
          try,        \* number of the attempt each caller has in flight, or 0
          calls,      \* requests sent so far
          failures,   \* auxiliary: terminal failures so far
          barred      \* auxiliary: until when each caller in the pre-check is to stay out

breaker == <<state, failCount, openUntil>>
vars == <<now, tokens, breaker, step, local, try, calls, failures, barred>>

\* In the pre-check, sending, and in the lines after a terminal failure.
Steps == {"idle", "checking", "waiting", "trial",
          "sending", "counting", "testing", "tripped", "opened", "closing"}

TypeOK ==
    /\ TokenTypeOK
    /\ state \in {"closed", "open", "half"}
    /\ failCount \in Nat
    /\ openUntil \in Nat
    /\ step \in [Callers -> Steps]
    /\ local \in [Callers -> Nat]
    /\ try \in [Callers -> 0 .. Attempts]
    /\ calls \in Nat
    /\ failures \in Nat
    /\ barred \in [Callers -> Nat]

Init ==
    /\ TokenInit
    /\ state = "closed"
    /\ failCount = 0
    /\ openUntil = 0
    /\ step = [c \in Callers |-> "idle"]
    /\ local = [c \in Callers |-> 0]
    /\ try = [c \in Callers |-> 0]
    /\ calls = 0
    /\ failures = 0
    /\ barred = [c \in Callers |-> 0]

Goes(c, from, to) == step[c] = from /\ step' = [step EXCEPT ![c] = to]

Reads(c, value) == local' = [local EXCEPT ![c] = value]

\* The headers of a request, with a bearer from the cache or a new one.
BuildHeaders(c) ==
    /\ step[c] = "idle" /\ calls < MaxCalls
    /\ TokenStep(c)
    /\ UNCHANGED <<breaker, step, local, try, calls, failures, barred>>

-----------------------------------------------------------------------------
(* The pre-check (finastra.py:393-403).                                    *)

FailsFast == state = "open" /\ now < openUntil

\* Auxiliary: the end of the cool-down that a request comes in, unless a thread
\* has seen before that an earlier one was over, or has computed an earlier
\* deadline and is about to assign it.
EndOfCooldown ==
    IF FailsFast /\ \A d \in Callers : /\ step[d] # "trial"
                                       /\ step[d] = "closing" => local[d] >= openUntil
    THEN openUntil
    ELSE 0

\* now = time.time()
Check(c) ==
    /\ fetch[c] = "ready" /\ Goes(c, "idle", "checking")
    /\ At(c, "none")
    /\ Reads(c, now)
    /\ barred' = [barred EXCEPT ![c] = EndOfCooldown]
    /\ UNCHANGED <<now, cached, until, bearer, since, breaker, try, calls, failures>>

\* The first attempt leaves.
Send(c) ==
    /\ try' = [try EXCEPT ![c] = 1]
    /\ calls' = calls + 1
    /\ barred' = [barred EXCEPT ![c] = 0]
    /\ Reads(c, 0)

\* The state is read and is not "open".
Pass(c) ==
    /\ state # "open" /\ Goes(c, "checking", "sending")
    /\ Send(c)
    /\ UNCHANGED <<now, tokens, breaker, failures>>

\* The state is read and is "open"; the deadline is read after it.
SeeOpen(c) ==
    /\ state = "open" /\ Goes(c, "checking", "waiting")
    /\ UNCHANGED <<now, tokens, breaker, local, try, calls, failures, barred>>

\* "circuit_open" is raised.
Refuse(c) ==
    /\ local[c] < openUntil /\ Goes(c, "waiting", "idle")
    /\ Forget(c) /\ Reads(c, 0)
    /\ barred' = [barred EXCEPT ![c] = 0]
    /\ UNCHANGED <<fetch, breaker, try, calls, failures>>

\* The deadline is over ...
SeeElapsed(c) ==
    /\ local[c] >= openUntil /\ Goes(c, "waiting", "trial")
    /\ UNCHANGED <<now, tokens, breaker, local, try, calls, failures, barred>>

\* ... and the state becomes "half", whatever it is by now.
GoHalf(c) ==
    /\ Goes(c, "trial", "sending")
    /\ state' = "half"
    /\ Send(c)
    /\ UNCHANGED <<now, tokens, failCount, openUntil, failures>>

-----------------------------------------------------------------------------
(* Attempts.                                                               *)

\* Mutant: the "else" branch is reached.
SucceedResets(c) ==
    /\ now < bearer[c] /\ Goes(c, "sending", "idle")
    /\ try' = [try EXCEPT ![c] = 0] /\ Forget(c)
    /\ failCount' = 0 /\ state' = "closed"
    /\ UNCHANGED <<fetch, openUntil, local, calls, failures, barred>>

\* The server takes the bearer and answers.  The response is returned from
\* inside the "try", so the "else" branch that would reset the breaker is
\* never reached.
Succeed(c) ==
    /\ now < bearer[c] /\ Goes(c, "sending", "idle")
    /\ try' = [try EXCEPT ![c] = 0] /\ Forget(c)
    /\ UNCHANGED <<fetch, breaker, local, calls, failures, barred>>

\* A transient failure before the last attempt is retried after a back-off,
\* with the same headers.
Retry(c) ==
    /\ try[c] \in 1 .. Attempts - 1
    /\ try' = [try EXCEPT ![c] = @ + 1]
    /\ UNCHANGED <<now, tokens, breaker, step, local, calls, failures, barred>>

-----------------------------------------------------------------------------
(* After a terminal failure (finastra.py:439-446).                         *)

\* The last attempt fails, or any attempt fails with a code that is not
\* transient, a 401 for an old bearer among them.  The count is read ...
FailTerminally(c) ==
    /\ Goes(c, "sending", "counting")
    /\ try' = [try EXCEPT ![c] = 0] /\ Forget(c)
    /\ Reads(c, failCount)
    /\ failures' = failures + 1
    /\ UNCHANGED <<fetch, breaker, calls, barred>>

\* ... and written: += is two operations, and another thread's may be lost.
StoreCount(c) ==
    /\ Goes(c, "counting", "testing")
    /\ failCount' = local[c] + 1
    /\ Reads(c, 0)
    /\ UNCHANGED <<now, tokens, state, openUntil, try, calls, failures, barred>>

\* Mutant: one failure too early.
TrippedEarly(n) == n >= Threshold - 1

Tripped(n) == n >= Threshold

TestCount(c) ==
    /\ Goes(c, "testing", IF Tripped(failCount) THEN "tripped" ELSE "idle")
    /\ UNCHANGED <<now, tokens, breaker, local, try, calls, failures, barred>>

\* The state is "open" now, with the deadline of the last cool-down.
Open(c) ==
    /\ Goes(c, "tripped", "opened")
    /\ state' = "open"
    /\ UNCHANGED <<now, tokens, failCount, openUntil, local, try, calls, failures, barred>>

\* time.time() + cooldown ...
ReadClock(c) ==
    /\ Goes(c, "opened", "closing")
    /\ Reads(c, now + Cooldown)
    /\ UNCHANGED <<now, tokens, breaker, try, calls, failures, barred>>

\* ... is assigned, over a later one if another thread was faster.
StoreDeadline(c) ==
    /\ Goes(c, "closing", "idle")
    /\ openUntil' = local[c]
    /\ Reads(c, 0)
    /\ UNCHANGED <<now, tokens, state, failCount, try, calls, failures, barred>>

TimePasses == Tick /\ UNCHANGED <<breaker, step, local, try, calls, failures, barred>>

Next ==
    \/ \E c \in Callers :
          \/ BuildHeaders(c)
          \/ Check(c) \/ Pass(c) \/ SeeOpen(c) \/ Refuse(c) \/ SeeElapsed(c) \/ GoHalf(c)
          \/ Succeed(c) \/ Retry(c) \/ FailTerminally(c)
          \/ StoreCount(c) \/ TestCount(c) \/ Open(c) \/ ReadClock(c) \/ StoreDeadline(c)
    \/ TimePasses

Spec == Init /\ [][Next]_vars

-----------------------------------------------------------------------------
(* Properties.                                                             *)

\* The breaker leaves "closed" only after Threshold terminal failures, although
\* updates of the count are lost between threads (finastra.py:440), and no
\* deadline, set or about to be, has more than one cool-down to go.
OpenIsEarned ==
    /\ state # "closed" => failures >= Threshold
    /\ openUntil <= now + Cooldown
    /\ \A c \in Callers : step[c] = "closing" => local[c] <= now + Cooldown

\* A request whose bearer the server no longer takes has itself spent, in its
\* pre-check and its retries, what the skew leaves of the longest way of an
\* answer: no thread is handed a token that is old already, although two of
\* them may store different tokens at a time (finastra.py:232-263, 347-356).
BearerAgesInRetries ==
    \A c \in Callers :
        (try[c] > 0 /\ now >= bearer[c]) => now + MaxLatency >= since[c] + Skew

\* docs/finastra.md:30, "calls fast-fail ... until cooldown elapses", of threads
\* that share the breaker without a lock: a request that comes in a cool-down is
\* not let in before it ends, whatever requests let in before it come back with
\* and in whatever order threads read and write state, count and deadline.  Two
\* races are excepted, in the code as here: a thread that had read an elapsed
\* deadline sets "half" in the new cool-down (398-402), and of two deadlines
\* that are about to be assigned (444) the earlier one may be the last.
CooldownHolds ==
    [][\A c \in Callers : (try[c] = 0 /\ try'[c] > 0) => now >= barred[c]]_vars

-----------------------------------------------------------------------------
(* What the documentation says and the code does not do.                   *)

\* docs/finastra.md:32, "Success -> reset fail count, transition to closed": the
\* success of a half-open trial closes the breaker.
SuccessCloses ==
    [][(state = "half" /\ \E c \in Callers : Succeed(c)) => state' = "closed"]_vars
=============================================================================
