----------------------------- MODULE TokenCache -----------------------------
(***************************************************************************)
(* ClientCredentialsTokenProvider and the headers of FinastraAPIClient     *)
(* (bankersbank/finastra.py): a cached bearer, renewed a little before its *)
(* end, shared by threads without a lock.                                  *)
(*                                                                         *)
(* A token is the time at which the server stops taking it.  The provider  *)
(* does not know that time: it counts the life of a token from the moment  *)
(* the answer arrived, and Skew must make up for the way the answer took.  *)
(* What callers do with their headers is in CircuitBreaker.                *)
(***************************************************************************)
EXTENDS Naturals

CONSTANTS Callers,     \* threads sharing the client
          TTL,         \* expires_in, the same in every answer
          MaxLatency,  \* a token request takes at most its timeout
          MaxTime      \* bound on the clock

ASSUME TokenAssumption ==
    /\ TTL \in Nat \ {0}
    /\ MaxLatency \in Nat
    /\ MaxTime \in Nat

VARIABLES now,     \* time.time()
          cached,  \* _access_token, or 0
          until,   \* _expires_at
          fetch,   \* where each caller's token request stands
          bearer,  \* the token each caller is given or has in its headers
          since    \* when each caller's headers were built

tokens == <<cached, until, fetch, bearer, since>>

Fetching == {"none", "asked", "issued", "storing", "ready"}

TokenTypeOK ==
    /\ now \in 0 .. MaxTime
    /\ cached \in Nat
    /\ until \in Nat
    /\ fetch \in [Callers -> Fetching]
    /\ bearer \in [Callers -> Nat]
    /\ since \in [Callers -> Nat]

TokenInit ==
    /\ now = 0
    /\ cached = 0
    /\ until = 0
    /\ fetch = [c \in Callers |-> "none"]
    /\ bearer = [c \in Callers |-> 0]
    /\ since = [c \in Callers |-> 0]

Least(a, b) == IF a <= b THEN a ELSE b
Greatest(a, b) == IF a >= b THEN a ELSE b

\* _refresh_skew, once a token was fetched.
Skew == Greatest(1, Least(60, TTL \div 3))

\* Mutant: a token is used to its last second.
ExpiredLate == cached = 0 \/ now >= until

Expired == cached = 0 \/ now + Skew >= until

At(c, step) == fetch' = [fetch EXCEPT ![c] = step]

\* fetch() returns the cached token.
UseCached(c) ==
    /\ fetch[c] = "none" /\ ~Expired
    /\ At(c, "ready")
    /\ bearer' = [bearer EXCEPT ![c] = cached]
    /\ since' = [since EXCEPT ![c] = now]
    /\ UNCHANGED <<now, cached, until>>

\* fetch() posts to the token endpoint, whatever other callers are doing.
Ask(c) ==
    /\ fetch[c] = "none" /\ Expired
    /\ At(c, "asked")
    /\ UNCHANGED <<now, cached, until, bearer, since>>

\* The server issues a token; its life begins and the answer travels.
Issue(c) ==
    /\ fetch[c] = "asked"
    /\ At(c, "issued")
    /\ bearer' = [bearer EXCEPT ![c] = now + TTL]
    /\ UNCHANGED <<now, cached, until, since>>

\* The answer arrives in time; _access_token is assigned first ...
StoreToken(c) ==
    /\ fetch[c] = "issued" /\ now + TTL <= bearer[c] + MaxLatency
    /\ At(c, "storing")
    /\ cached' = bearer[c]
    /\ UNCHANGED <<now, until, bearer, since>>

\* ... and _expires_at after it; another thread may have come in between.
StoreExpiry(c) ==
    /\ fetch[c] = "storing"
    /\ At(c, "ready")
    /\ until' = now + TTL
    /\ since' = [since EXCEPT ![c] = now]
    /\ UNCHANGED <<now, cached, bearer>>

\* The headers are locals of a call and go with it.
Forget(c) ==
    /\ bearer' = [bearer EXCEPT ![c] = 0]
    /\ since' = [since EXCEPT ![c] = 0]
    /\ UNCHANGED <<now, cached, until>>

\* The token request fails: the call raises before it began.
FetchFails(c) ==
    /\ fetch[c] \in {"asked", "issued"}
    /\ At(c, "none")
    /\ Forget(c)

TokenStep(c) ==
    UseCached(c) \/ Ask(c) \/ Issue(c) \/ StoreToken(c) \/ StoreExpiry(c) \/ FetchFails(c)

\* Time passes, but not between two assignments.
Tick ==
    /\ now < MaxTime
    /\ \A c \in Callers : fetch[c] # "storing"
    /\ now' = now + 1
    /\ UNCHANGED tokens
=============================================================================
