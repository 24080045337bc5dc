---------------------------- MODULE SweepOrders ----------------------------
(***************************************************************************)
(* The bank connector (bank_connector/main.py): POST /sweep-order, the     *)
(* in-process dead-letter queue with its worker, and POST /payment-status. *)
(*                                                                         *)
(* One asyncio process serves requests and runs the worker.  A request     *)
(* handler awaits once, for the rails; the worker awaits the rails and its *)
(* back-off.  Orders are rows of a database, the queue is memory only.     *)
(***************************************************************************)
EXTENDS Naturals, Sequences

CONSTANTS Orders,      \* order ids
          IdemKeys,    \* idempotency keys, from the header or a fresh uuid
          Handlers,    \* concurrently served POST /sweep-order requests
          RailsModes,  \* the values BANK_RAILS_ENABLED takes
          FloatLimit,  \* first attempt whose 2**attempt is no float (1024)
          MaxErrors,   \* bound on the posts the rails fail to answer with 2xx
          FaultKinds,  \* the faults that may happen: "crash", "db"
          MaxFaults,   \* bound on crashes and database errors
          NoItem       \* work of an idle handler, item of an idle worker

ASSUME ConstantsAssumption ==
    /\ RailsModes \subseteq BOOLEAN
    /\ FloatLimit \in Nat \ {0}
    /\ MaxErrors \in Nat
    /\ FaultKinds \subseteq {"crash", "db"}
    /\ MaxFaults \in Nat
    /\ NoItem \notin Orders \X IdemKeys

\* A pain.001 message: its order and the Idempotency-Key it is posted with.
Messages == Orders \X IdemKeys

VARIABLES status,    \* status column of every order, "NONE" when there is no row
          wire,      \* the rails call of each handler
          work,      \* the message each handler posts
          dlq,       \* the dead-letter queue, items of a message and an attempt
          worker,    \* where the DLQ worker stands
          held,      \* the message the worker peeked at the front of the queue
          depth,     \* the rails_dlq_depth gauge
          faults,    \* crashes and database errors so far
          dry,       \* history: orders marked SENT with the rails disabled
          orphans,   \* posts on their way to the rails whose sender is dead
          accepted,  \* external: messages the rails took in
          verdict,   \* external: the bank's final report of each order
          errors     \* posts the rails failed to answer with 2xx so far

queue == <<dlq, worker, held, depth>>
rails == <<orphans, accepted, verdict, errors>>
vars == <<status, wire, work, queue, faults, dry, rails>>

Final == {"ACSC", "RJCT"}
Statuses == {"NONE", "PENDING", "SENT", "QUEUED", "ACCEPTED", "SETTLED", "REJECTED", "UNKNOWN"}

TypeOK ==
    /\ status \in [Orders -> Statuses]
    /\ wire \in [Handlers -> {"idle", "sent", "ok", "err"}]
    /\ work \in [Handlers -> Messages \cup {NoItem}]
    /\ dlq \in Seq([msg : Messages, attempt : 0 .. FloatLimit])
    /\ worker \in {"idle", "sent", "ok", "err", "dead"}
    /\ held \in Messages \cup {NoItem}
    /\ depth \in Nat
    /\ faults \in 0 .. MaxFaults
    /\ dry \in SUBSET Orders
    /\ orphans \in SUBSET Messages
    /\ accepted \in SUBSET Messages
    /\ verdict \in [Orders -> {"none"} \cup Final]
    /\ errors \in 0 .. MaxErrors

Init ==
    /\ status = [o \in Orders |-> "NONE"]
    /\ wire = [h \in Handlers |-> "idle"]
    /\ work = [h \in Handlers |-> NoItem]
    /\ dlq = <<>>
    /\ worker = "idle"
    /\ held = NoItem
    /\ depth = 0
    /\ faults = 0
    /\ dry = {}
    /\ orphans = {}
    /\ accepted = {}
    /\ verdict = [o \in Orders |-> "none"]
    /\ errors = 0

SetStatus(o, s) == status' = [status EXCEPT ![o] = s]

Fault(kind) ==
    /\ kind \in FaultKinds /\ faults < MaxFaults
    /\ faults' = faults + 1

-----------------------------------------------------------------------------
(* POST /sweep-order.                                                      *)

\* Mutant: an order that was not sent may be submitted again.
KnownSent(o) == status[o] \notin {"NONE", "PENDING", "QUEUED"}

\* An order id that is already stored is answered "queued": False at once,
\* whatever became of the order.
Known(o) == status[o] # "NONE"

\* The PENDING row and the audit row are committed and the post leaves.
Begin(h, o, k) ==
    /\ TRUE \in RailsModes
    /\ wire[h] = "idle" /\ ~Known(o)
    /\ SetStatus(o, "PENDING")
    /\ wire' = [wire EXCEPT ![h] = "sent"]
    /\ work' = [work EXCEPT ![h] = <<o, k>>]
    /\ UNCHANGED <<queue, faults, dry, rails>>

\* The audit database raises after the PENDING row is committed: a 500, and
\* nothing is ever posted.
BeginAuditRaises(o) ==
    /\ ~Known(o)
    /\ Fault("db")
    /\ SetStatus(o, "PENDING")
    /\ UNCHANGED <<wire, work, queue, dry, rails>>

\* With the rails disabled the order is marked SENT without being posted.
BeginDisabled(o) ==
    /\ FALSE \in RailsModes
    /\ ~Known(o)
    /\ SetStatus(o, "SENT")
    /\ dry' = dry \cup {o}
    /\ UNCHANGED <<wire, work, queue, faults, rails>>

Release(h) ==
    /\ wire' = [wire EXCEPT ![h] = "idle"]
    /\ work' = [work EXCEPT ![h] = NoItem]

\* The row is written as the handler knows it, not as it is by now.
MarkSent(h) ==
    /\ wire[h] = "ok"
    /\ SetStatus(work[h][1], "SENT")
    /\ Release(h)
    /\ UNCHANGED <<queue, faults, dry, rails>>

\* Mutant: a bounded queue drops the message.
PutBackBounded(msg) ==
    /\ dlq' = IF dlq = <<>> THEN <<[msg |-> msg, attempt |-> 0]>> ELSE dlq
    /\ depth' = Len(dlq')
PutBack(msg) ==
    /\ dlq' = Append(dlq, [msg |-> msg, attempt |-> 0])
    /\ depth' = Len(dlq')

\* Any other answer, a timeout or an exception: the message is queued with the
\* key of the first post, then the row becomes QUEUED.
Enqueue(h) ==
    /\ wire[h] = "err"
    /\ PutBack(work[h])
    /\ SetStatus(work[h][1], "QUEUED")
    /\ Release(h)
    /\ UNCHANGED <<worker, held, faults, dry, rails>>

\* The commit of SENT or of QUEUED raises.  A failing SENT commit is caught by
\* the handler that queues the message, whose own commit raises in turn: in
\* both cases the message is queued and the row keeps its status.
EnqueueRaises(h) ==
    /\ wire[h] \in {"ok", "err"}
    /\ Fault("db")
    /\ PutBack(work[h])
    /\ Release(h)
    /\ UNCHANGED <<status, worker, held, dry, rails>>

-----------------------------------------------------------------------------
(* The DLQ worker.                                                         *)

\* The gauge is set here and where a handler appends, and nowhere else.
Peek ==
    /\ worker = "idle" /\ dlq # <<>>
    /\ depth' = Len(dlq)
    /\ held' = Head(dlq).msg
    /\ worker' = "sent"
    /\ UNCHANGED <<status, wire, work, dlq, faults, dry, rails>>

PopLeft ==
    /\ worker = "ok"
    /\ dlq' = Tail(dlq)
    /\ held' = NoItem
    /\ worker' = "idle"
    /\ UNCHANGED <<status, wire, work, depth, faults, dry, rails>>

\* Mutants: off by one; the worker gives up at the first failure.
BackoffOverflowsLate(attempt) == attempt > FloatLimit
BackoffOverflowsAtOnce(attempt) == attempt >= 1

\* min(5.0, 0.1 * 2**attempt) raises OverflowError in the "except" block once
\* 2**attempt is too large for a float, which ends the worker's task.
BackoffOverflows(attempt) == attempt >= FloatLimit

\* Mutant: a message the rails refuse is dropped.
BackoffDrops ==
    /\ worker = "err"
    /\ dlq' = Tail(dlq)
    /\ worker' = "idle"
    /\ held' = NoItem
    /\ UNCHANGED <<status, wire, work, depth, faults, dry, rails>>

\* The item stays at the front; the back-off is over when the worker is idle.
Backoff ==
    /\ worker = "err"
    /\ dlq' = [dlq EXCEPT ![1].attempt = @ + 1]
    /\ worker' = IF BackoffOverflows(Head(dlq').attempt) THEN "dead" ELSE "idle"
    /\ held' = NoItem
    /\ UNCHANGED <<status, wire, work, depth, faults, dry, rails>>

\* The container dies and restarts: the queue, the handlers and the worker are
\* new, posts that left are still on their way.
Crash ==
    /\ Fault("crash")
    /\ orphans' = orphans \cup {work[h] : h \in {g \in Handlers : wire[g] = "sent"}}
                          \cup (IF worker = "sent" THEN {held} ELSE {})
    /\ wire' = [h \in Handlers |-> "idle"]
    /\ work' = [h \in Handlers |-> NoItem]
    /\ dlq' = <<>>
    /\ worker' = "idle"
    /\ held' = NoItem
    /\ depth' = 0
    /\ UNCHANGED <<status, dry, accepted, verdict, errors>>

-----------------------------------------------------------------------------
(* The rails and the bank behind them, external.  They may take a message  *)
(* in and answer 2xx, take it in and fail to say so, or refuse it.         *)

Answers == {"ok", "err"}

Answer(msg, answer) ==
    /\ \/ accepted' = accepted \cup {msg}
       \/ answer = "err" /\ UNCHANGED accepted
    /\ answer = "err" => errors < MaxErrors
    /\ errors' = IF answer = "err" THEN errors + 1 ELSE errors
    /\ UNCHANGED <<orphans, verdict>>

RailsAnswerHandler(h) ==
    /\ wire[h] = "sent"
    /\ \E answer \in Answers :
          /\ Answer(work[h], answer)
          /\ wire' = [wire EXCEPT ![h] = answer]
    /\ UNCHANGED <<status, work, queue, faults, dry>>

RailsAnswerWorker ==
    /\ worker = "sent"
    /\ \E answer \in Answers :
          /\ Answer(held, answer)
          /\ worker' = answer
    /\ UNCHANGED <<status, wire, work, dlq, held, depth, faults, dry>>

OrphanArrives(msg) ==
    /\ msg \in orphans
    /\ orphans' = orphans \ {msg}
    /\ \/ accepted' = accepted \cup {msg}
       \/ UNCHANGED accepted
    /\ UNCHANGED <<status, wire, work, queue, faults, dry, verdict, errors>>

Accepted(o) == \E k \in IdemKeys : <<o, k>> \in accepted

BankDecides(o) ==
    /\ Accepted(o) /\ verdict[o] = "none"
    /\ \E code \in Final : verdict' = [verdict EXCEPT ![o] = code]
    /\ UNCHANGED <<status, wire, work, queue, faults, dry, orphans, accepted, errors>>

-----------------------------------------------------------------------------
(* POST /payment-status.                                                   *)

\* The codes the pain.002 parser knows; every other one becomes UNKNOWN.
Parse(code) == IF code \in {"ACCP", "ACSC", "RJCT"} THEN code ELSE "UNKNOWN"

\* Mutant: acceptance is taken for settlement.
StatusOfAccepted(code) == IF code \in {"ACCP", "ACSC"} THEN "SETTLED" ELSE "REJECTED"

\* iso_map: it knows ACTC, which the parser never returns, and not ACCP.
StatusOf(code) ==
    CASE Parse(code) = "ACSC" -> "SETTLED"
      [] Parse(code) = "ACTC" -> "ACCEPTED"
      [] Parse(code) = "RJCT" -> "REJECTED"
      [] OTHER -> "UNKNOWN"

\* The bank reports acceptance once it has the order and its verdict once it
\* decided; reports are delivered late, twice or out of order, and each one
\* overwrites the row.
Report(o, code) ==
    /\ Accepted(o)
    /\ code \in {"ACCP", "ACTC", verdict[o]} \ {"none"}
    /\ Known(o)
    /\ SetStatus(o, StatusOf(code))
    /\ UNCHANGED <<wire, work, queue, faults, dry, rails>>

-----------------------------------------------------------------------------
Resume(h) == MarkSent(h) \/ Enqueue(h)
WorkerStep == Peek \/ PopLeft \/ Backoff

Next ==
    \/ \E h \in Handlers, o \in Orders, k \in IdemKeys : Begin(h, o, k)
    \/ \E o \in Orders : BeginAuditRaises(o) \/ BeginDisabled(o) \/ BankDecides(o)
    \/ \E h \in Handlers : Resume(h) \/ EnqueueRaises(h) \/ RailsAnswerHandler(h)
    \/ WorkerStep
    \/ RailsAnswerWorker
    \/ \E msg \in Messages : OrphanArrives(msg)
    \/ \E o \in Orders, code \in {"ACCP", "ACTC"} \cup Final : Report(o, code)
    \/ Crash

Spec == Init /\ [][Next]_vars

\* asyncio runs every ready task; httpx answers or times out after 5 s.  No
\* fairness for clients, the bank's reports, orphans or faults.
Fairness ==
    /\ \A h \in Handlers : WF_vars(Resume(h)) /\ WF_vars(RailsAnswerHandler(h))
    /\ WF_vars(WorkerStep) /\ WF_vars(RailsAnswerWorker)

FairSpec == Spec /\ Fairness
-----------------------------------------------------------------------------
(* Properties.                                                             *)

\* The rails see every order under one Idempotency-Key only, whatever is
\* retried, queued or lost, so that their deduplication makes the worker's
\* second post of a timed-out message harmless (create_sweep_order, _dlq_worker).
OneKeyPerOrder ==
    \A m1, m2 \in accepted \cup orphans : m1[1] = m2[1] => m1 = m2

\* An order is shown SENT, SETTLED or REJECTED only when the rails took it in
\* (or the rails were disabled), and SETTLED only if the bank settled it.
StatusIsTrue ==
    \A o \in Orders :
        /\ status[o] = "SENT" => Accepted(o) \/ o \in dry
        /\ status[o] = "SETTLED" => verdict[o] = "ACSC"
        /\ status[o] = "REJECTED" => verdict[o] = "RJCT"

\* Without a crash or a database error no order is forgotten: until the rails
\* have it, a handler works on it or the queue holds it.
NoOrderForgotten ==
    faults = 0 =>
        \A o \in Orders :
            Known(o) => \/ Accepted(o) \/ o \in dry
                        \/ \E h \in Handlers : work[h] # NoItem /\ work[h][1] = o
                        \/ \E i \in 1 .. Len(dlq) : dlq[i].msg[1] = o

\* While the process lives, only an item the rails took in leaves the queue.
OnlyAcceptedLeaves ==
    [][faults' = faults =>
          \A i \in 1 .. Len(dlq) :
              \/ dlq[i].msg \in accepted
              \/ \E j \in 1 .. Len(dlq') : dlq'[j].msg = dlq[i].msg]_vars

\* Every order reaches the rails, through the queue and the back-off if need be,
\* unless a fault hits the process or the rails fail more than
\* FloatLimit posts.
EveryOrderArrives ==
    \A o \in Orders :
        Known(o) ~> (Accepted(o) \/ o \in dry \/ faults > 0 \/ errors > FloatLimit)

-----------------------------------------------------------------------------
(* What the documentation says and the code does not do.                   *)

\* docs/treasury-orchestrator.md:187, pod kill: "No order loss, retry < 2 min".
NoOrderLoss == \A o \in Orders : Known(o) ~> (Accepted(o) \/ o \in dry)
=============================================================================
