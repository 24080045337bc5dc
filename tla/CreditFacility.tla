--------------------------- MODULE CreditFacility ---------------------------
(***************************************************************************)
(* The draw / repay protocol of the credit facility service                *)
(* (credit_facility/api.py and service.py).                                *)
(*                                                                         *)
(* A request carries an operation, a bank, an Idempotency-Key and an       *)
(* amount.  A handler looks the key up, checks the capacity (draws only),  *)
(* commits a PENDING row, awaits the provider, commits POSTED or FAILED    *)
(* and writes an audit row to another database.  The service is one        *)
(* asyncio process: a handler runs without interruption from one await to  *)
(* the next, the only await is the provider call, and a crash can stop it  *)
(* between any two commits.                                                *)
(***************************************************************************)
EXTENDS Integers

CONSTANTS Banks,       \* bank ids
          Keys,        \* idempotency keys
          Amounts,     \* amounts a request may ask for
          Handlers,    \* concurrently served HTTP requests
          Cap,         \* policy cap of each bank
          Buffer,      \* policy buffer of each bank
          MaxFaults,   \* bound on crashes and database errors
          NoId,        \* work of an idle handler
          Free         \* nobody holds the event loop

Ops == {"draw", "repay"}

\* A row is identified by its table, its bank and its idempotency key.
Ids == Ops \X Banks \X Keys
OpOf(id) == id[1]
BankOf(id) == id[2]

ASSUME ConstantsAssumption ==
    /\ Amounts \subseteq Nat \ {0}
    /\ Cap \in [Banks -> Nat]
    /\ Buffer \in [Banks -> Nat]
    /\ MaxFaults \in Nat
    /\ NoId \notin Ids
    /\ Free \notin Handlers

VARIABLES status,    \* status column of every row, "NONE" when there is no row
          amount,    \* amount column of every row, 0 when there is no row
          drawn,     \* sum of the amounts of a bank's CreditDraw rows
          repaid,    \* sum of the amounts of a bank's CreditRepayment rows
          audited,   \* the statuses the audit journal holds of every row
          pc,        \* where each handler stands
          work,      \* the row each handler works on
          wire,      \* the provider call of each handler
          loop,      \* the handler running on the event loop between awaits
          faults,    \* crashes and database errors so far
          orphans,   \* calls on their way to the provider whose caller is dead
          executed,  \* external: how often the provider moved the money of a row
          exposure,  \* external: what each bank owes according to the provider
          told       \* history: the definite outcomes clients were told

db == <<status, amount, drawn, repaid>>
process == <<pc, work, wire, loop>>
provider == <<orphans, executed, exposure>>
vars == <<db, audited, process, faults, provider, told>>

Terminal == {"POSTED", "FAILED"}
Outcomes == {"created", "provider_error"}   \* the HTTP replies 201 and 502

TypeOK ==
    /\ status \in [Ids -> {"NONE", "PENDING"} \cup Terminal]
    /\ amount \in [Ids -> Amounts \cup {0}]
    /\ drawn \in [Banks -> Nat]
    /\ repaid \in [Banks -> Nat]
    /\ audited \in [Ids -> SUBSET Terminal]
    /\ pc \in [Handlers -> {"idle", "call", "audit"}]
    /\ work \in [Handlers -> Ids \cup {NoId}]
    /\ wire \in [Handlers -> {"none", "sent", "ok", "error"}]
    /\ loop \in Handlers \cup {Free}
    /\ faults \in 0 .. MaxFaults
    /\ orphans \in SUBSET Ids
    /\ executed \in [Ids -> Nat]
    /\ exposure \in [Banks -> Int]
    /\ told \in [Ids -> SUBSET Outcomes]

Init ==
    /\ status = [id \in Ids |-> "NONE"]
    /\ amount = [id \in Ids |-> 0]
    /\ drawn = [b \in Banks |-> 0]
    /\ repaid = [b \in Banks |-> 0]
    /\ audited = [id \in Ids |-> {}]
    /\ pc = [h \in Handlers |-> "idle"]
    /\ work = [h \in Handlers |-> NoId]
    /\ wire = [h \in Handlers |-> "none"]
    /\ loop = Free
    /\ faults = 0
    /\ orphans = {}
    /\ executed = [id \in Ids |-> 0]
    /\ exposure = [b \in Banks |-> 0]
    /\ told = [id \in Ids |-> {}]

-----------------------------------------------------------------------------
(* Capacity, as service.py computes it.                                    *)

NonNegative(n) == IF n > 0 THEN n ELSE 0

\* Every row counts, whatever its status.
Outstanding(b) == drawn[b] - repaid[b]

\* Mutant: the buffer is forgotten.
CapacityNoBuffer(b) == NonNegative(Cap[b] - Outstanding(b))

\* The snapshot's collateral is read but does not enter the result, so it
\* is no part of the model.
Capacity(b) == NonNegative(Cap[b] - Outstanding(b) - Buffer[b])

-----------------------------------------------------------------------------
(* Handlers.                                                               *)

\* Mutant: a FAILED key may be used again.
PriorNotFailed(id) == status[id] \notin {"NONE", "FAILED"}

\* What the idempotency lookup finds.
Prior(id) == status[id] # "NONE"

Finish(h) ==
    /\ pc' = [pc EXCEPT ![h] = "idle"]
    /\ work' = [work EXCEPT ![h] = NoId]
    /\ wire' = [wire EXCEPT ![h] = "none"]
    /\ loop' = Free

Tell(id, outcome) == told' = [told EXCEPT ![id] = @ \cup {outcome}]

\* A request whose key was POSTED before is journalled again and gets the
\* first reply again; if the audit database raises the client gets a 500.
Replay(id) ==
    /\ loop = Free
    /\ Prior(id) /\ status[id] = "POSTED"
    /\ audited' = [audited EXCEPT ![id] = @ \cup {status[id]}]
    /\ Tell(id, "created")
    /\ UNCHANGED <<db, process, faults, provider>>

\* Mutant: draws are not guarded either.
AdmissibleAlways(id, a) == TRUE

\* A draw above the capacity is refused (400) before anything is written; a
\* repayment has no such guard.  A request whose key is PENDING or FAILED is
\* refused too (409): neither changes any state, so neither is an action.
Admissible(id, a) == OpOf(id) = "draw" => a <= Capacity(BankOf(id))

\* The row enters its table, and so the sums over the table.
Insert(id, a, s) ==
    /\ status' = [status EXCEPT ![id] = s]
    /\ amount' = [amount EXCEPT ![id] = a]
    /\ IF OpOf(id) = "draw"
       THEN /\ drawn' = [drawn EXCEPT ![BankOf(id)] = @ + a]
            /\ UNCHANGED repaid
       ELSE /\ repaid' = [repaid EXCEPT ![BankOf(id)] = @ + a]
            /\ UNCHANGED drawn

\* The PENDING row is committed and the provider call leaves in one turn of
\* the event loop.
Begin(h, id, a) ==
    /\ pc[h] = "idle" /\ loop = Free
    /\ ~Prior(id)
    /\ Admissible(id, a)
    /\ Insert(id, a, "PENDING")
    /\ pc' = [pc EXCEPT ![h] = "call"]
    /\ work' = [work EXCEPT ![h] = id]
    /\ wire' = [wire EXCEPT ![h] = "sent"]
    /\ UNCHANGED <<audited, loop, faults, provider, told>>

\* The row is decided, and the handler goes on to the audit journal without
\* giving up the event loop.
Settle(h, s) ==
    /\ status' = [status EXCEPT ![work[h]] = s]
    /\ pc' = [pc EXCEPT ![h] = "audit"]
    /\ loop' = h
    /\ UNCHANGED <<amount, drawn, repaid, audited, work, wire, faults, provider, told>>

\* The await returns.
CommitPosted(h) ==
    /\ pc[h] = "call" /\ wire[h] = "ok" /\ loop = Free
    /\ Settle(h, "POSTED")

\* Mutants: the handler asks the provider again; an answer that is no answer
\* counts as success; the row is left alone.
CommitFailedRetries(h) ==
    /\ pc[h] = "call" /\ wire[h] = "error" /\ loop = Free
    /\ wire' = [wire EXCEPT ![h] = "sent"]
    /\ UNCHANGED <<db, audited, pc, work, loop, faults, provider, told>>
CommitFailedForgets(h) ==
    /\ pc[h] = "call" /\ wire[h] = "error" /\ loop = Free
    /\ Finish(h)
    /\ UNCHANGED <<db, audited, faults, provider, told>>

\* The await raises, whatever the provider did.
CommitFailed(h) ==
    /\ pc[h] = "call" /\ wire[h] = "error" /\ loop = Free
    /\ Settle(h, "FAILED")

\* The commit after the await raises.  On the success path the handler's own
\* "except" tries to commit FAILED on a session that needs a rollback, which
\* raises again: the row stays PENDING and the client gets a 500.
CommitRaises(h) ==
    /\ pc[h] = "call" /\ wire[h] \in {"ok", "error"} /\ loop = Free
    /\ faults < MaxFaults
    /\ faults' = faults + 1
    /\ Finish(h)
    /\ UNCHANGED <<db, audited, provider, told>>

\* The audit row is committed to its own database, then the client is told.
Audit(h) ==
    /\ pc[h] = "audit"
    /\ audited' = [audited EXCEPT ![work[h]] = @ \cup {status[work[h]]}]
    /\ Tell(work[h], IF status[work[h]] = "POSTED" THEN "created" ELSE "provider_error")
    /\ Finish(h)
    /\ UNCHANGED <<db, faults, provider>>

\* Mutant: the audit error is swallowed and the client is told the outcome.
AuditRaisesSwallowed(h) ==
    /\ pc[h] = "audit"
    /\ Tell(work[h], IF status[work[h]] = "POSTED" THEN "created" ELSE "provider_error")
    /\ Finish(h)
    /\ UNCHANGED <<db, audited, faults, provider>>

\* The audit database raises: the row is final but not journalled, and the
\* client gets a 500.
AuditRaises(h) ==
    /\ pc[h] = "audit"
    /\ faults < MaxFaults
    /\ faults' = faults + 1
    /\ Finish(h)
    /\ UNCHANGED <<db, audited, provider, told>>

\* The container dies and is restarted with an empty process; calls that left
\* it are still on their way.
Crash ==
    /\ faults < MaxFaults
    /\ faults' = faults + 1
    /\ orphans' = orphans \cup {work[h] : h \in {g \in Handlers : wire[g] = "sent"}}
    /\ pc' = [h \in Handlers |-> "idle"]
    /\ work' = [h \in Handlers |-> NoId]
    /\ wire' = [h \in Handlers |-> "none"]
    /\ loop' = Free
    /\ UNCHANGED <<db, audited, executed, exposure, told>>

-----------------------------------------------------------------------------
(* The provider, external: it may refuse, or move the money and answer, or *)
(* move the money and fail to say so.  It promises no deduplication.       *)

Signed(id) == IF OpOf(id) = "draw" THEN amount[id] ELSE -amount[id]

Execute(id) ==
    /\ executed' = [executed EXCEPT ![id] = @ + 1]
    /\ exposure' = [exposure EXCEPT ![BankOf(id)] = @ + Signed(id)]

ProviderExecutes(h) ==
    /\ wire[h] = "sent"
    /\ Execute(work[h])
    /\ \E answer \in {"ok", "error"} : wire' = [wire EXCEPT ![h] = answer]
    /\ UNCHANGED <<db, audited, pc, work, loop, faults, orphans, told>>

ProviderRefuses(h) ==
    /\ wire[h] = "sent"
    /\ wire' = [wire EXCEPT ![h] = "error"]
    /\ UNCHANGED <<db, audited, pc, work, loop, faults, provider, told>>

\* A call whose caller died reaches the provider.
OrphanExecutes(id) ==
    /\ id \in orphans
    /\ orphans' = orphans \ {id}
    /\ Execute(id)
    /\ UNCHANGED <<db, audited, process, faults, told>>

OrphanLost(id) ==
    /\ id \in orphans
    /\ orphans' = orphans \ {id}
    /\ UNCHANGED <<db, audited, process, faults, executed, exposure, told>>

-----------------------------------------------------------------------------
ProviderAnswers(h) == ProviderExecutes(h) \/ ProviderRefuses(h)

Resume(h) == CommitPosted(h) \/ CommitFailed(h) \/ Audit(h)

Next ==
    \/ \E id \in Ids : Replay(id) \/ OrphanExecutes(id) \/ OrphanLost(id)
    \/ \E h \in Handlers, id \in Ids, a \in Amounts : Begin(h, id, a)
    \/ \E h \in Handlers :
          \/ Resume(h)
          \/ CommitRaises(h)
          \/ AuditRaises(h)
          \/ ProviderAnswers(h)
    \/ Crash

Spec == Init /\ [][Next]_vars

\* asyncio runs every ready callback in turn, and a provider adapter answers
\* or raises; nothing obliges a client to send a request or a fault to happen.
Fairness == \A h \in Handlers : WF_vars(Resume(h)) /\ WF_vars(ProviderAnswers(h))

FairSpec == Spec /\ Fairness
-----------------------------------------------------------------------------
(* Properties.                                                             *)

\* The provider moves the money of a request at most once, however often the
\* client retries the key, whoever crashes, and whether or not the provider
\* told the truth (idempotency of draw_funds and repay_funds).
AtMostOneExecution == \A id \in Ids : executed[id] <= 1

\* A handler awaiting the provider works on a PENDING row that nobody else works
\* on, with the money moved exactly if the provider says so; the call of a dead
\* handler belongs to a row that stays PENDING and that nobody takes up again.
CallsMatchRows ==
    /\ \A h \in Handlers :
          /\ pc[h] = "idle" <=> work[h] = NoId
          /\ pc[h] = "idle" <=> wire[h] = "none"
          /\ pc[h] = "call" => status[work[h]] = "PENDING"
          /\ pc[h] = "audit" => status[work[h]] \in Terminal /\ loop = h /\ wire[h] # "sent"
          /\ wire[h] = "sent" => executed[work[h]] = 0
          /\ wire[h] = "ok" => executed[work[h]] = 1
    /\ \A h, g \in Handlers : work[h] = work[g] /\ work[h] # NoId => h = g
    /\ \A id \in orphans :
          /\ status[id] = "PENDING" /\ executed[id] = 0
          /\ \A h \in Handlers : work[h] # id
    /\ \A id \in Ids : ~Prior(id) => executed[id] = 0

\* A row is POSTED only when the provider moved its money exactly once, and a
\* client is told 201 only for a POSTED row.
PostedIsExecuted ==
    \A id \in Ids :
        /\ status[id] = "POSTED" => executed[id] = 1
        /\ "created" \in told[id] => status[id] = "POSTED"

\* Concurrent draws never take the book beyond cap - buffer: the capacity read
\* and the PENDING insert cannot be separated (capacity, draw_funds).
BookWithinLimit ==
    \A b \in Banks : Outstanding(b) <= NonNegative(Cap[b] - Buffer[b])

\* What a bank really owes stays within cap - buffer as long as each of its
\* repayment rows is money the provider received.
ExposureWithinLimit ==
    \A b \in Banks :
        (\A id \in Ids : OpOf(id) = "repay" /\ BankOf(id) = b /\ Prior(id) => executed[id] > 0)
            => exposure[b] <= NonNegative(Cap[b] - Buffer[b])

\* No retry of a key contradicts an earlier definite answer: a client is never
\* told both 201 and 502 for one key.
NoContradictoryReplies == \A id \in Ids : told[id] # Outcomes

\* Nobody is told an outcome that the audit journal does not hold, and the
\* journal never disagrees with the row (log_event before every reply).
AuditMatchesBook ==
    \A id \in Ids :
        /\ "created" \in told[id] => "POSTED" \in audited[id]
        /\ "provider_error" \in told[id] => "FAILED" \in audited[id]
        /\ audited[id] \subseteq {status[id]}

\* A decided row is never decided again, and no retry with another amount
\* changes what was recorded.
RowsAreFinal ==
    [][\A id \in Ids :
          /\ status[id] \in Terminal => status'[id] = status[id]
          /\ Prior(id) => amount'[id] = amount[id]]_db

\* Without a crash or a database error every PENDING row is decided.
PendingIsDecided ==
    []<>(faults > 0 \/ \A id \in Ids : status[id] # "PENDING")
=============================================================================
