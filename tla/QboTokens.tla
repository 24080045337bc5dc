------------------------------ MODULE QboTokens ------------------------------
(***************************************************************************)
(* The QuickBooks tokens of services/svc_qbo.  One file holds the access   *)
(* token and the refresh token; Intuit rotates the refresh token on every  *)
(* refresh and the old one becomes invalid.  The routes are synchronous    *)
(* functions, which FastAPI runs in a thread pool, and client.py does the  *)
(* same on the same file from other processes.  Nothing locks the file.    *)
(*                                                                         *)
(* A generation is a number: the n-th rotation yields access token n and   *)
(* refresh token n, which stand in the file together.                      *)
(***************************************************************************)
EXTENDS Naturals

CONSTANTS Threads,       \* threads that serve requests and probes
          Processes,     \* the sets of threads that die together
          Torn,          \* content of the file between open("w") and the end of the write
          MaxRotations,  \* bound on the rotations after which new work starts
          MaxFaults      \* bound on dying processes and lost answers

ASSUME ConstantsAssumption ==
    /\ Processes \subseteq SUBSET Threads
    /\ Torn \notin Nat
    /\ MaxRotations \in Nat
    /\ MaxFaults \in Nat

VARIABLES file,     \* generation in secrets/qbo_token.json, or Torn
          current,  \* generation of the refresh token that Intuit accepts
          pc,       \* where each thread is
          tok,      \* the generation each thread works with
          probes,   \* threads that serve /readyz: they only refresh
          lost,     \* generations that a fault took from the thread that held them
          faults    \* faults so far

vars == <<file, current, pc, tok, probes, lost, faults>>

\* "get": the GET with the loaded token is under way; "reload": it came back 401
\* (or a probe starts); "post": the POST with the refresh token leaves; "hold":
\* the new tokens are in memory; "write": the file is open and empty; "retry":
\* the second GET is under way.
Places == {"idle", "get", "reload", "post", "hold", "write", "retry"}

TypeOK ==
    /\ file \in Nat \cup {Torn}
    /\ current \in Nat
    /\ pc \in [Threads -> Places]
    /\ tok \in [Threads -> Nat]
    /\ probes \subseteq Threads
    /\ lost \subseteq 0 .. current
    /\ faults \in 0 .. MaxFaults

\* qbo_auth_test.py has written the first pair.
Init ==
    /\ file = 0
    /\ current = 0
    /\ pc = [t \in Threads |-> "idle"]
    /\ tok = [t \in Threads |-> 0]
    /\ probes = {}
    /\ lost = {}
    /\ faults = 0

\* The tokens that t got and nobody else has.
Holds(t) == pc[t] \in {"hold", "write"}

-----------------------------------------------------------------------------
(* The threads.                                                            *)

Goto(t, place) == pc' = [pc EXCEPT ![t] = place]

\* qbo_request and _get load the access token and send the first GET; of a torn
\* file json.load raises, the request ends with a 500.
LoadAccess(t) ==
    /\ pc[t] = "idle" /\ current < MaxRotations
    /\ file # Torn
    /\ Goto(t, "get")
    /\ tok' = [tok EXCEPT ![t] = file]
    /\ probes' = probes \ {t}
    /\ UNCHANGED <<file, current, lost, faults>>

\* Every probe of /readyz refreshes, whether the access token works or not.
Readyz(t) ==
    /\ pc[t] = "idle" /\ current < MaxRotations
    /\ Goto(t, "reload")
    /\ probes' = probes \cup {t}
    /\ UNCHANGED <<file, current, tok, lost, faults>>

\* The request is answered: a 200, or any error other than 401 (a 401 to the
\* second GET is final).
Answered(t) ==
    /\ pc[t] \in {"get", "retry"}
    /\ Goto(t, "idle")
    /\ UNCHANGED <<file, current, tok, probes, lost, faults>>

\* The first GET comes back 401: an access token ends with its hour.
Unauthorized(t) ==
    /\ pc[t] = "get"
    /\ Goto(t, "reload")
    /\ UNCHANGED <<file, current, tok, probes, lost, faults>>

\* refresh_access_token and refresh load the file again; a torn one raises.
LoadRefresh(t) ==
    /\ pc[t] = "reload"
    /\ IF file = Torn
       THEN Goto(t, "idle") /\ UNCHANGED tok
       ELSE Goto(t, "post") /\ tok' = [tok EXCEPT ![t] = file]
    /\ UNCHANGED <<file, current, probes, lost, faults>>

\* The POST is answered with a new pair.
Rotated(t) ==
    /\ pc[t] = "post"
    /\ tok[t] = current
    /\ current' = current + 1
    /\ tok' = [tok EXCEPT ![t] = current + 1]
    /\ Goto(t, "hold")
    /\ UNCHANGED <<file, probes, lost, faults>>

\* Mutant: the status of the answer is not looked at.
RefusedSaves(t) ==
    /\ pc[t] = "post"
    /\ Goto(t, "hold")
    /\ UNCHANGED <<file, current, tok, probes, lost, faults>>

\* The POST is refused, because the token was rotated in between, or fails
\* without effect; the exception ends the request.
Refused(t) ==
    /\ pc[t] = "post"
    /\ Goto(t, "idle")
    /\ UNCHANGED <<file, current, tok, probes, lost, faults>>

\* Mutant: the answer is used and not saved.
TruncateSkipped(t) ==
    /\ pc[t] = "hold"
    /\ Goto(t, "retry")
    /\ UNCHANGED <<file, current, tok, probes, lost, faults>>

\* save_tokens opens the file for writing, which empties it ...
Truncate(t) ==
    /\ pc[t] = "hold"
    /\ file' = Torn
    /\ Goto(t, "write")
    /\ UNCHANGED <<current, tok, probes, lost, faults>>

\* ... and writes and closes it.  A request sends its GET again, a probe is done.
Write(t) ==
    /\ pc[t] = "write"
    /\ file' = tok[t]
    /\ Goto(t, IF t \in probes THEN "idle" ELSE "retry")
    /\ UNCHANGED <<current, tok, probes, lost, faults>>

-----------------------------------------------------------------------------
(* The environment.                                                        *)

\* Mutant: the timeout is caught, and the pair that was posted is saved again.
AnswerLostSavesOld(t) ==
    /\ pc[t] = "post" /\ faults < MaxFaults
    /\ tok[t] = current
    /\ current' = current + 1
    /\ lost' = lost \cup {current + 1}
    /\ Goto(t, "hold")
    /\ faults' = faults + 1
    /\ UNCHANGED <<file, tok, probes>>

\* Intuit rotates, and the answer runs into the timeout or breaks off.
AnswerLost(t) ==
    /\ pc[t] = "post" /\ faults < MaxFaults
    /\ tok[t] = current
    /\ current' = current + 1
    /\ lost' = lost \cup {current + 1}
    /\ Goto(t, "idle")
    /\ faults' = faults + 1
    /\ UNCHANGED <<file, tok, probes>>

\* A process is killed; the file stays as it is.
Die(p) ==
    /\ faults < MaxFaults
    /\ pc' = [t \in Threads |-> IF t \in p THEN "idle" ELSE pc[t]]
    /\ lost' = lost \cup {tok[t] : t \in {u \in p : Holds(u)}}
    /\ faults' = faults + 1
    /\ UNCHANGED <<file, current, tok, probes>>

-----------------------------------------------------------------------------
Step(t) ==
    \/ Answered(t) \/ Unauthorized(t) \/ LoadRefresh(t)
    \/ Rotated(t) \/ Refused(t) \/ Truncate(t) \/ Write(t)

Next ==
    \/ \E t \in Threads : LoadAccess(t) \/ Readyz(t) \/ Step(t) \/ AnswerLost(t)
    \/ \E p \in Processes : Die(p)

Spec == Init /\ [][Next]_vars

\* A thread that runs goes on running, and every call of requests has a timeout;
\* nobody is obliged to send a request, to probe, or to fail.
Fairness == \A t \in Threads : WF_vars(Step(t))

FairSpec == Spec /\ Fairness

-----------------------------------------------------------------------------
(* Properties.                                                             *)

\* The refresh token that Intuit accepts is in the file, or in the memory of one
\* thread on its way there, or a fault struck while it was in such a memory or in
\* the answer: no interleaving of requests and probes loses it.
TokenNotLost ==
    file = current \/ current \in lost \/ \E t \in Threads : Holds(t) /\ tok[t] = current

\* Nobody writes the file but the holder of the newest tokens, although nothing
\* locks it: there is never a second thread between its answer and the end of its write.
OneWriter == \A t, u \in Threads : Holds(t) /\ Holds(u) => t = u

\* The file is unreadable only while a thread is writing it, or after one died there.
TornOnlyInWrite ==
    file = Torn => current \in lost \/ \E t \in Threads : pc[t] = "write"

\* What is written over the file is always the pair that Intuit accepts now: no
\* thread, however slow, and after no fault, puts back a pair already replaced
\* (token_refresher.py:37-41, 57-75).
NoStaleOverwrite == [][file' # file /\ file' # Torn => file' = current]_vars

\* New tokens reach the file, unless a fault takes them away first.
HeldIsSaved ==
    \A t \in Threads : Holds(t) ~> (file = current \/ current \in lost)
=============================================================================
