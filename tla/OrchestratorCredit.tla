------------------------- MODULE OrchestratorCredit -------------------------
(***************************************************************************)
(* CreditFacilityService of treasury_orchestrator/credit.py: draws and     *)
(* repayments of one facility as tasks of one event loop.  The post to the *)
(* bank is a task's only await (the token request in front of it is part   *)
(* of it); what follows the answer runs to the task's end in one piece.    *)
(***************************************************************************)
EXTENDS Integers, FiniteSets, FiniteSetsExt, Sequences

CONSTANTS Amounts,      \* amounts clients ask for
          Limit,        \* facility.limit
          Valuations,   \* values of the collateral, times facility.ltv_limit
          MaxCalls,     \* bound on the calls
          MaxFaults     \* bound on crashes, lost answers and failing commits

ASSUME ConstantsAssumption ==
    /\ Amounts \subseteq Nat \ {0}
    /\ Limit \in Nat
    /\ Valuations \subseteq Nat
    /\ MaxCalls \in Nat
    /\ MaxFaults \in Nat

VARIABLES collateral,   \* what the Finastra API values the collateral at
          available,    \* self.available
          basis,        \* the drawn from which available was computed (auxiliary)
          drawn,        \* facility.drawn
          broken,       \* the session awaits a rollback that nobody calls
          calls,        \* the calls of draw and repay that passed their guard
          faults        \* faults so far

vars == <<collateral, available, basis, drawn, broken, calls, faults>>

\* "sent": awaiting the bank.  "done": executed, the answer is under way.
\* "adrift": on its way, but nobody awaits it any more.  "refused": raised and
\* not executed.  "booked": committed with its CreditTxn.  "unbooked": executed,
\* and in no CreditTxn.
Progress == {"sent", "done", "adrift", "refused", "booked", "unbooked"}

Call == [kind : {"DRAW", "REPAY"}, amount : Amounts, basis : Nat, st : Progress]

TypeOK ==
    /\ collateral \in Valuations
    /\ available \in 0 .. Limit
    /\ basis \in Nat
    /\ drawn \in Nat
    /\ broken \in BOOLEAN
    /\ calls \in Seq(Call)
    /\ Len(calls) <= MaxCalls
    /\ faults \in 0 .. MaxFaults

Least(m, n) == IF m < n THEN m ELSE n
Greatest(m, n) == IF m > n THEN m ELSE n

\* A facility of which nothing is drawn; no capacity until the first refresh.
Init ==
    /\ collateral \in Valuations
    /\ available = 0 /\ basis = 0 /\ drawn = 0
    /\ broken = FALSE
    /\ calls = << >>
    /\ faults = 0

Moved(i, st) == [calls EXCEPT ![i].st = st]
Fault == faults < MaxFaults /\ faults' = faults + 1

-----------------------------------------------------------------------------
(* refresh_capacity.                                                       *)

\* Mutant: the collateral alone decides.
CapacityWithoutLimit(d) == Greatest(0, collateral - d)

Capacity(d) == Greatest(0, Least(Limit, collateral) - d)

Refreshed(d) == available' = Capacity(d) /\ basis' = d

\* It is called on its own (start_scheduler's job never gets to call it: the
\* lambda runs in a worker thread, where create_task finds no loop).
Refresh ==
    /\ ~broken
    /\ Refreshed(drawn)
    /\ UNCHANGED <<collateral, drawn, broken, calls, faults>>

-----------------------------------------------------------------------------
(* draw and repay up to the await.                                         *)

Admitted(n) == n <= available

Draw(n) ==
    /\ Len(calls) < MaxCalls
    /\ Admitted(n)
    /\ calls' = Append(calls, [kind |-> "DRAW", amount |-> n, basis |-> basis, st |-> "sent"])
    /\ UNCHANGED <<collateral, available, basis, drawn, broken, faults>>

Repay(n) ==
    /\ Len(calls) < MaxCalls
    /\ calls' = Append(calls, [kind |-> "REPAY", amount |-> n, basis |-> 0, st |-> "sent"])
    /\ UNCHANGED <<collateral, available, basis, drawn, broken, faults>>

-----------------------------------------------------------------------------
(* The bank.                                                               *)

Execute(i) ==
    /\ calls[i].st \in {"sent", "adrift"}
    /\ calls' = Moved(i, IF calls[i].st = "sent" THEN "done" ELSE "unbooked")
    /\ UNCHANGED <<collateral, available, basis, drawn, broken, faults>>

\* An error status or no connection: raise_for_status or the client raises.
Refuse(i) ==
    /\ calls[i].st \in {"sent", "adrift"}
    /\ calls' = Moved(i, "refused")
    /\ UNCHANGED <<collateral, available, basis, drawn, broken, faults>>

\* The answer is too late or lost; the call raises and nothing is undone.
TimeOut(i) ==
    /\ Fault
    /\ \/ calls[i].st = "sent" /\ calls' = Moved(i, "adrift")
       \/ calls[i].st = "done" /\ calls' = Moved(i, "unbooked")
    /\ UNCHANGED <<collateral, available, basis, drawn, broken>>

Revalue ==
    /\ collateral' \in Valuations \ {collateral}
    /\ UNCHANGED <<available, basis, drawn, broken, calls, faults>>

-----------------------------------------------------------------------------
(* After the answer: the new balance, its CreditTxn, the commit, the       *)
(* refresh.                                                                *)

\* Mutant: the balance that the call's check had seen.
SettledFromCheck(c) == IF c.kind = "DRAW" THEN c.basis + c.amount
                                          ELSE Greatest(0, drawn - c.amount)

Settled(c) == IF c.kind = "DRAW" THEN drawn + c.amount
                                 ELSE Greatest(0, drawn - c.amount)

\* Mutant: the refresh comes before the commit, and takes it down when it fails.
BookAfterRefresh(i) ==
    /\ calls[i].st = "done" /\ ~broken
    /\ \/ Refreshed(Settled(calls[i])) /\ drawn' = Settled(calls[i]) /\ calls' = Moved(i, "booked")
       \/ UNCHANGED <<available, basis, drawn>> /\ calls' = Moved(i, "unbooked")
    /\ UNCHANGED <<collateral, broken, faults>>

\* When the collateral cannot be read, the call raises after its commit and
\* available keeps a figure of an older balance.
Book(i) ==
    /\ calls[i].st = "done" /\ ~broken
    /\ drawn' = Settled(calls[i])
    /\ calls' = Moved(i, "booked")
    /\ Refreshed(Settled(calls[i])) \/ UNCHANGED <<available, basis>>
    /\ UNCHANGED <<collateral, broken, faults>>

\* The flush of the commit fails: the session is unusable from here on.
CommitRaises(i) ==
    /\ calls[i].st = "done" /\ ~broken
    /\ Fault
    /\ broken' = TRUE
    /\ calls' = Moved(i, "unbooked")
    /\ UNCHANGED <<collateral, available, basis, drawn>>

\* The first access to the facility raises.
SessionRaises(i) ==
    /\ calls[i].st = "done" /\ broken
    /\ calls' = Moved(i, "unbooked")
    /\ UNCHANGED <<collateral, available, basis, drawn, broken, faults>>

-----------------------------------------------------------------------------
\* Cut off by a crash: what the bank executed stays executed.
Orphaned(c) == CASE c.st = "sent" -> "adrift"
                 [] c.st = "done" -> "unbooked"
                 [] OTHER -> c.st

\* A new process loads the facility and starts without capacity.
Crash ==
    /\ Fault
    /\ calls' = [i \in DOMAIN calls |-> [calls[i] EXCEPT !.st = Orphaned(calls[i])]]
    /\ available' = 0 /\ basis' = drawn
    /\ broken' = FALSE
    /\ UNCHANGED <<collateral, drawn>>

Resume(i) == Book(i) \/ CommitRaises(i) \/ SessionRaises(i)

Next ==
    \/ \E n \in Amounts : Draw(n) \/ Repay(n)
    \/ \E i \in DOMAIN calls : Execute(i) \/ Refuse(i) \/ TimeOut(i) \/ Resume(i)
    \/ Refresh \/ Revalue \/ Crash

Spec == Init /\ [][Next]_vars

-----------------------------------------------------------------------------
(* Properties.                                                             *)

Booked(kind) == {i \in DOMAIN calls : calls[i].kind = kind /\ calls[i].st = "booked"}
Total(kind) == MapThenSumSet(LAMBDA i : calls[i].amount, Booked(kind))

\* No booking is lost to another call's: in whatever order answers come back,
\* drawn is the booked draws less the booked repayments, or more where a
\* repayment was cut at 0, and never more than the draws.
DrawnIsTheBook == drawn \in Total("DRAW") - Total("REPAY") .. Total("DRAW")

\* A call that the bank executed and answered is booked unless a fault hit: an
\* outage of the collateral API, which makes calls raise, costs no CreditTxn.
OnlyFaultsLoseCalls ==
    (\E i \in DOMAIN calls : calls[i].st = "unbooked") => faults > 0

\* A draw takes drawn beyond the limit by no more than what was booked after the
\* figure its check had used was computed: by nothing when draws come one at a time
\* and each refresh succeeds, by more when draws overlap or a refresh failed.
OverdraftIsWhatTheCheckMissed ==
    [][\A i \in DOMAIN calls :
          /\ calls[i].kind = "DRAW"
          /\ calls[i].st = "done" /\ calls'[i].st = "booked"
          => drawn' <= Limit + (drawn - calls[i].basis)]_vars
=============================================================================
