---------------------------- MODULE FinastraHttp ----------------------------
(***************************************************************************)
(* The request loop of the integration client (integrations/finastra/      *)
(* http.py) and its token providers (auth.py), for a set of clients that   *)
(* each own a provider.  A request that was answered or raised hands       *)
(* control back to the caller, which is another module (Syncers).          *)
(***************************************************************************)
EXTENDS Naturals

CONSTANTS
  Clients,    \* FinastraHTTP instances
  MaxHiccups  \* bound: answers 429, 502, 503, 504, connection errors, failed grants

ASSUME HiccupsAreBounded == MaxHiccups \in Nat

VARIABLES
  flow,      \* the token flow all clients are configured for
  token,     \* per client: no token cached, a good one, or a stale one
  secret,    \* the refresh token in the environment: "live" or "spent"
  phase,     \* per client: where its request stands
  attempt,   \* requests sent for the current call
  refreshed, \* the 401 path has been taken for the current call
  cause,     \* what a raised call was raised by
  hiccups

http == <<flow, token, secret, phase, attempt, refreshed, cause, hiccups>>

Flows == {"static", "client_credentials", "authcode"}

\* A static provider holds its bearer from the start, the live ones nothing.
FirstToken(f) == IF f = "static" THEN "good" ELSE "none"

\* All clients choose the provider their environment names.
HttpInit(f) ==
  /\ flow = f
  /\ token = [c \in Clients |-> FirstToken(f)]
  /\ secret = "live"
  /\ phase = [c \in Clients |-> "idle"]
  /\ attempt = [c \in Clients |-> 0]
  /\ refreshed = [c \in Clients |-> FALSE]
  /\ cause = [c \in Clients |-> "none"]
  /\ hiccups = 0

Raise(c, why) ==
  /\ phase' = [phase EXCEPT ![c] = "raised"]
  /\ cause' = [cause EXCEPT ![c] = why]

\* get(url): a new call of the request loop.
Call(c) ==
  /\ phase' = [phase EXCEPT ![c] = "token"]
  /\ attempt' = [attempt EXCEPT ![c] = 0]
  /\ refreshed' = [refreshed EXCEPT ![c] = FALSE]
  /\ UNCHANGED <<flow, token, secret, cause, hiccups>>

Send(c) ==
  /\ phase' = [phase EXCEPT ![c] = "sent"]
  /\ attempt' = [attempt EXCEPT ![c] = @ + 1]

\* token() with a cached token: it is returned whatever its age.
UseCached(c) ==
  /\ phase[c] = "token" /\ token[c] # "none"
  /\ Send(c)
  /\ UNCHANGED <<flow, token, secret, refreshed, cause, hiccups>>

Obtain(c) ==
  /\ phase[c] = "token" /\ token[c] = "none"
  /\ token' = [token EXCEPT ![c] = "good"]
  /\ Send(c)
  /\ UNCHANGED <<flow, refreshed, cause, hiccups>>

\* token() with nothing cached: the client-credentials grant.
GrantClientCredentials(c) ==
  /\ flow = "client_credentials"
  /\ Obtain(c)
  /\ UNCHANGED secret

\* The auth-code grant: every client starts from the same refresh token of the
\* environment; a server that rotates it hands its successor to this one only.
GrantAuthCode(c) ==
  /\ flow = "authcode" /\ secret = "live"
  /\ Obtain(c)
  /\ secret' \in {"live", "spent"}

\* The token endpoint refuses the secret, or fails: nothing retries it.
GrantRefused(c) ==
  /\ phase[c] = "token" /\ token[c] = "none"
  /\ \/ flow = "authcode" /\ secret = "spent" /\ UNCHANGED hiccups
     \/ hiccups < MaxHiccups /\ hiccups' = hiccups + 1
  /\ Raise(c, "grant")
  /\ UNCHANGED <<flow, token, secret, attempt, refreshed>>

\* The server takes the token and answers.
Answer(c) ==
  /\ phase[c] = "sent" /\ token[c] = "good"
  /\ phase' = [phase EXCEPT ![c] = "answered"]
  /\ UNCHANGED <<flow, token, secret, attempt, refreshed, cause, hiccups>>

\* Mutant: two requests instead of three.
HiccupOneLess(c) ==
  /\ phase[c] = "sent" /\ hiccups < MaxHiccups
  /\ hiccups' = hiccups + 1
  /\ \/ attempt[c] < 2 /\ UNCHANGED cause /\ phase' = [phase EXCEPT ![c] = "token"]
     \/ attempt[c] >= 2 /\ Raise(c, "transport")
  /\ UNCHANGED <<flow, token, secret, attempt, refreshed>>

\* 429, 502, 503, 504 or a connection error: again from the top, unless this
\* was the third request, whose status or error is raised.
Hiccup(c) ==
  /\ phase[c] = "sent" /\ hiccups < MaxHiccups
  /\ hiccups' = hiccups + 1
  /\ \/ attempt[c] < 3 /\ UNCHANGED cause /\ phase' = [phase EXCEPT ![c] = "token"]
     \/ attempt[c] >= 3 /\ Raise(c, "transport")
  /\ UNCHANGED <<flow, token, secret, attempt, refreshed>>

\* Any other error status, 400, 403, 404 or 500 as well: it is raised at once.
Rejected(c) ==
  /\ phase[c] = "sent"
  /\ Raise(c, "status")
  /\ UNCHANGED <<flow, token, secret, attempt, refreshed, hiccups>>

\* 401, whatever the number of requests so far.  refresh() of the static
\* provider returns the same bearer; the live providers have no refresh(),
\* and the AttributeError ends in raise_for_status.
Unauthorized(c) ==
  /\ phase[c] = "sent" /\ token[c] = "stale"
  /\ \/ /\ flow = "static" /\ ~refreshed[c]
        /\ refreshed' = [refreshed EXCEPT ![c] = TRUE]
        /\ phase' = [phase EXCEPT ![c] = "token"]
        /\ UNCHANGED cause
     \/ /\ flow # "static" \/ refreshed[c]
        /\ Raise(c, "unauthorized")
        /\ UNCHANGED refreshed
  /\ UNCHANGED <<flow, token, secret, attempt, hiccups>>

\* Time passes: the server no longer takes the token.
Expire(c) ==
  /\ token[c] = "good"
  /\ token' = [token EXCEPT ![c] = "stale"]
  /\ UNCHANGED <<flow, secret, phase, attempt, refreshed, cause, hiccups>>

\* The client is closed and dropped; the next one has a provider of its own.
Drop(c) ==
  /\ token' = [token EXCEPT ![c] = FirstToken(flow)]
  /\ phase' = [phase EXCEPT ![c] = "idle"]
  /\ attempt' = [attempt EXCEPT ![c] = 0]
  /\ refreshed' = [refreshed EXCEPT ![c] = FALSE]
  /\ cause' = [cause EXCEPT ![c] = "none"]
  /\ UNCHANGED <<flow, secret, hiccups>>

\* What the request loop does between the caller's steps.
Request(c) ==
  \/ UseCached(c) \/ GrantClientCredentials(c) \/ GrantAuthCode(c)
  \/ GrantRefused(c)
  \/ Hiccup(c) \/ Rejected(c) \/ Unauthorized(c)

-----------------------------------------------------------------------------
HttpTypeOK ==
  /\ flow \in Flows
  /\ token \in [Clients -> {"none", "good", "stale"}]
  /\ secret \in {"live", "spent"}
  /\ phase \in [Clients -> {"idle", "token", "sent", "answered", "raised"}]
  /\ attempt \in [Clients -> Nat]
  /\ refreshed \in [Clients -> BOOLEAN]
  /\ cause \in [Clients -> {"none", "grant", "transport", "status", "unauthorized"}]
  /\ hiccups \in 0 .. MaxHiccups

\* When a call is given up.  For a transient error, not before its third request,
\* so that three of them, or two and a 401, struck it; the 401 path shares the
\* counter and does not look at it, so a call sends four requests at most.  With
\* the static bearer a 401 ends a call only after a request with the bearer that
\* refresh() returned.  A grant is refused only before the first request: a
\* cached token is never given up within a call (http.py:87-121, auth.py:98-174).
RaisesAreExplained ==
  \A c \in Clients : phase[c] = "raised" =>
    /\ attempt[c] <= IF refreshed[c] THEN 4 ELSE 3
    /\ cause[c] = "transport" => hiccups >= (IF refreshed[c] THEN 2 ELSE 3)
    /\ cause[c] = "unauthorized" /\ flow = "static" => attempt[c] >= 2
    /\ cause[c] = "grant" => attempt[c] = 0 /\ flow # "static"
=============================================================================
