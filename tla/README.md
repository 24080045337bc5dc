# bankers-bank: a TLA+ model of its payment, credit and audit services

The repository is a set of small Python services that move money between banks:
a credit facility, a connector to the payment rails, an audit journal with its
backup, clients of the Finastra and QuickBooks APIs, and a pipeline of balance
and collateral snapshots. Each service is one process over a SQL database,
restarted when it dies (`docker-compose.yml`, `restart: unless-stopped`). This
directory models the parts where interleavings, crashes and lying peers decide
whether money and records agree.

## Inventory

| Component | State | Operations | Hard behaviour | What makes it correct |
|---|---|---|---|---|
| Credit facility (`credit_facility/api.py`, `service.py`, `models.py`) | draw and repayment rows, unique per bank and idempotency key | draw, repay, status | concurrent draws, retries, an await of the provider between two commits, two databases, crashes | money moves at most once per key; the book stays within cap - buffer; rows, replies and journal agree; every row is decided |
| Credit providers (`credit_facility/providers`) | none in the repository (a mock) | send_draw, send_repay | executes and raises, refuses, answers after its caller died | external |
| Bank connector (`bank_connector/main.py`) | order rows, in-memory dead-letter queue, depth gauge | submit order, worker cycle, status report | the worker awaits while handlers append; timeouts after acceptance; restarts empty the queue; reports out of order | one idempotency key per order; truthful statuses; no order forgotten; every order reaches the rails |
| ISO 20022 (`bank_connector/iso20022`) | none | build pain.001, parse pain.002 | status codes | codes map to the statuses clients know |
| Audit exporter (`credit_facility/audit_exporter.py`, `bin/audit-export`) | `exported_at` marks, export files | export a batch, sweep | overlapping runs, a run that dies between file and commit, late commits, retention, a volume that goes with its pod | a row is in a file before it is marked or deleted; no row is skipped; nothing but a pod's volume loses rows |
| Restore script (`scripts/restore_audit_from_ndjson.py`) | the journal table | ingest a file | keys of the lines against bound parameters | what was exported comes back (it does not, see below) |
| Service audit journal (`common/audit.py`) | journal rows of a separate database | log_event | fails after the service's own commit | agrees with the rows |
| Finastra API client (`bankersbank/finastra.py`) | breaker state, failure count, cool-down; cached bearer and its expiry | request, token fetch | retries, threads that share one client and its breaker without a lock, trials, answers of the token endpoint that travel | opens when earned; whoever comes in a cool-down waits for its end; no request starts with an old bearer |
| Orchestrator credit (`treasury_orchestrator/credit.py`) | available, drawn, token | draw, repay, refresh | check, await, update | every answered call is booked; a draw within the limit it was checked against |
| Integration client (`integrations/finastra`) | cached token, its refresh token | request, grant, 401 path | expiry, retries, a refresh path that the live providers lack | a call is not given up early; requests end |
| QuickBooks service (`services/svc_qbo`) | token file | read, refresh, probe | rotating refresh tokens, concurrent refreshes, a crash while writing, several processes | the only valid refresh token is never lost to an interleaving |
| Asset aggregator (`asset_aggregator`) | snapshot rows, journal, schema | snapshot run, publish, `POST /snapshot`, summary, syncs | overlapping runs, two databases, schema created by two programs | the table is an append-only ledger; messages say what it says |
| Quant consumer (`quantengine/kafka_consumer.py`) | group offset, schema | join, poll, upsert, commit | redelivery, failing upserts, SIGTERM, kills | no message is passed over but by a failing consumer |
| Syncers (`asset_aggregator/syncers`) | record tables | run_once of four feeds | overlapping runs, pages that shift, items without a date or with a garbled one | a complete run mirrors the provider; runs undo each other only where their requests overlap; runs end |
| Liquidity policy (`quantengine/liquidity`, `bridge`) | counters, a gauge, switches | evaluate, publish | rounding before or after a comparison, one event counted in two places | an allowed draw leaves the buffer |

Services meet in three ways: HTTP calls (handlers to providers, rails,
QuickBooks and Finastra), shared storage (the journal that services append to
and the exporter marks and purges; the table `assetsnapshot` that aggregator and
consumer both write; the token file), and Kafka (snapshots).

## Modules

| Module | Models | With |
|---|---|---|
| `CreditFacility` | draw and repay handlers, provider, journal | `MCCreditFacility`, `CreditFacilityProofs` |
| `SweepOrders` | sweep orders, queue worker, status reports | `MCSweepOrders`, `SweepOrdersProofs` |
| `AuditExport` | exporter, sweep, pods, restore | implements `AuditArchive`; `MCAuditExport`, `AuditExportProofs` |
| `OrchestratorCredit` | the orchestrator's facility | `MCOrchestratorCredit`, `OrchestratorCreditProofs` |
| `TokenCache`, `CircuitBreaker` | token provider and headers; the request loop with its breaker, which EXTENDS it | `MCCircuitBreaker`, `CircuitBreakerProofs` |
| `QboTokens` | the QuickBooks token file | `MCQboTokens`, `QboTokensProofs` |
| `Snapshots` | aggregator, topic and consumer composed | implements `SnapshotLedger`; `MCSnapshots`, `QuantEngineProofs` |
| `FinastraHttp`, `Syncers` | request loop and token flows; the four syncers, which EXTEND it | `MCSyncers`, `SyncersProofs` |
| `LiquidityPolicy` | evaluation, endpoints, bridge | `QuantEngineProofs` |

`CreditFacility` has one row for every operation, bank and key (`status`,
`amount`), because both tables have that unique constraint. A handler runs
uninterrupted from one await to the next, and the provider call is its only
await: `Begin` is everything up to the await (lookup, capacity guard, PENDING
commit, call leaves), `CommitPosted` and `CommitFailed` are the commit after it,
`Audit` is the journal commit with the reply. Between those two commits the
handler does not give up the event loop (`loop`), but a crash can strike.
`CommitRaises` and `AuditRaises` are failing commits, `Crash` is the restart: the
calls that were on the wire become `orphans`, which the provider may still
execute. The provider (external) executes and answers, executes and lets the
adapter raise, or refuses, and deduplicates nothing. `Replay` is the answer to
the key of a POSTED row. Requests that are refused (400, 409) change nothing and
are no actions. `told` and `audited` are what clients and the journal saw;
`executed` and `exposure` are the provider's own record. Amounts are integers;
currencies and payloads are left out.

`SweepOrders` keeps the order rows, the queue as a sequence of messages with
their attempts, the worker and its peeked message, and the gauge. `Begin` is
everything up to the post; `MarkSent`, `Enqueue` and `EnqueueRaises` are what
follows; `Peek`, `PopLeft` and `Backoff` are a cycle of the worker, whose task
ends when `2**attempt` is no longer a float (`FloatLimit`, 1024 in the code).
`Report` is a pain.002 report: `Parse` and `StatusOf` are the parser and the
map after it. The rails (external) accept and answer, accept and time out, or refuse.

`AuditExport` has rows numbered by `event_ts` that may be committed out of that
order, overlapping export runs (`SelectRows` with SKIP LOCKED, `WriteFile`,
`MarkExported`), `Abort` (any failure: locks are free, a renamed file stays), the
sweep, the deletion of a Job's pod with its emptyDir, and the restore script,
whose insert raises on every line the exporter writes.
A file records the run that wrote it. Runs in `Pods` are those of the CronJob, whose
export directory is an emptyDir; `PodDeleted` takes the files of one pod. Other runs (an
operator's, or the CronJob with the persistent volume that the runbook has) write to storage
that lasts. `AuditArchive` is what the backup can promise then: rows leave the journal
only after they were archived; storage that lasts never loses a row; a pod's volume may lose
any, purged ones too. `AuditExport` implements it with journal = rows present, lasting and
passing = rows of the files that are there, on either kind of storage.

`OrchestratorCredit` keeps the facility's `drawn`, the cached `available` with the
`drawn` it was computed from (`basis`, auxiliary), and every call that passed its
guard with its progress. `Draw` and `Repay` go up to the post, `Book` is everything
after the answer: balance, `CreditTxn`, commit, refresh (which may fail and leave
`available` old). `CommitRaises` is a flush that fails: nobody calls `rollback`, so
SQLAlchemy refuses the session from there on and `SessionRaises` is the fate of
every later answer until `Crash` restarts the process. The bank and the collateral's
value are external; fetching the bank's token is part of the post. `Refresh` is
called on its own by the owner of the object only: the job of `start_scheduler` is
a lambda that APScheduler runs in a worker thread, where `create_task` raises.

`TokenCache` is `ClientCredentialsTokenProvider`. A token is the time at which the
server stops taking it. `Ask`, `Issue`, `StoreToken` and `StoreExpiry` follow an
answer from the endpoint (external) to the two assignments, between which another
thread may run; the provider counts the life of a token from the arrival of the
answer, so its expiry is late by the way the answer took (`MaxLatency`, the 30 s
timeout), and `Skew` must make up for it. `CircuitBreaker` is `FinastraAPIClient.request`
over it: headers, pre-check, attempts with the same headers, terminal failures. The
client has no lock and the aggregator's synchronous routes run in a thread pool, so every
action reads or writes one attribute of the breaker: `Check` reads the clock, `Pass` or `SeeOpen`
the state, `Refuse` or `SeeElapsed` the deadline, `GoHalf` sets "half"; after a terminal
failure `FailTerminally` reads the count, `StoreCount` writes it, `TestCount` compares it,
`Open` writes the state, `ReadClock` computes the deadline and `StoreDeadline` assigns it. Counts
can be lost and deadlines overwritten in between. The token is fetched before the
breaker is asked, and a failing token request never counts. The reset after success is
unreachable code and therefore absent. `CooldownHolds` is about requests, not about the state:
one that comes in a cool-down is not sent before its end. It excepts two races of the code by
name, a thread at `GoHalf` and one at `StoreDeadline` with an earlier deadline, when the
request comes. One thing the model shows that a reader of the deployment should know: `_fin_client()`
(`asset_aggregator/api.py:183`) makes a client per request, whose breaker never
sees enough failures to open; the module is about clients that are kept.

`QboTokens` numbers the pairs of tokens: the n-th refresh yields access and refresh
token n, and makes n - 1 invalid. A thread loads the file, sends its GET, and after a
401 loads the file again, posts its refresh token, holds the new pair in memory
(`Rotated`), empties the file (`Truncate`) and fills it (`Write`); `/readyz` does the
refresh on every probe. `Processes` are the sets of threads that die together: the
pool of the service, and `client.py` elsewhere. `AnswerLost` and `Die` are the faults.

`Snapshots` composes three actors. A run pulls (`Pull`, zeros for an exception),
stamps and inserts (`Insert`), and publishes (`Publish`, twice if the producer
retried; `PublishFails`). `POST /snapshot` reads, upserts, journals and then fails in
`PostLtv`, always. The consumer creates the table without an id column if it comes
first (`EnsureSchema`), joins at the committed offset, upserts message after message,
commits in the background, and goes down in three ways. Whichever program starts first
decides the `shape` of the table. `SnapshotLedger` is what readers are promised: an
append-only ledger with one entry per stamp.

`FinastraHttp` is the request loop of `integrations/finastra/http.py` (three
requests, one 401 path) over the three token providers. A request is answered
(`Answer`), struck by a transient error (`Hiccup`: 429, 502, 503, 504 or no connection), answered
with 401 (`Unauthorized`) or with any other error status, which is raised at once (`Rejected`).
`Syncers` adds the pages of four feeds, the four `_upsert_batch` functions and the runs; a page
becomes rows in one commit between two awaits, or raises and fails the run. A page holds
one item. An item's date can be read, missing or garbled: a garbled date raises for accounts and
transactions and leaves a balance out; a transaction without one gets `now_utc`, and
its INSERT violates the unique constraint where the clock stood still. A balances run asks for
any set of accounts, those of the request or those stored, and ends at once when there are none. The
provider (external) may revise, list and drop items meanwhile. `overtaken` says of an answer that
another run committed while it travelled, `steady` of a run that no such answer was committed
since it began; both are auxiliary. `RefusedByClient`: three of the four endpoints build their client
without a base URL, so only collateral syncs from the API; the syncers themselves are modelled all the same.

`LiquidityPolicy` counts cash in tenths of a cent, so that a rounding to cents shows
(`Rounded` is the set of nearest cents: which of two equally near ones Python takes
depends on the binary representation). `Evaluate` is the one endpoint with what it counts. A
publish is counted by the bridge (`Bridge`) and again by the endpoint (`PublishPosition`), in two
steps between which other requests of the thread pool run. Whether a date is a holiday is an input.

`MC*` modules instantiate these for TLC. Next to a definition there may be
variants whose comment starts with "Mutant": plausible bugs, unused by the
specifications, that show each property able to fail.

## Runs

| Run | Instance | Shows |
|---|---|---|
| `CreditFacility` | 1 bank, 2 keys per table, amounts 1 and 2, limit 2 (cap 3, buffer 1), 2 handlers, 1 fault, fairness | money moves once per key, the book and the provider's exposure stay within what concurrent draws may reach, replies, rows and journal agree, PENDING rows are decided unless a fault hit |
| `SweepOrders` | 2 orders, 2 keys, 2 handlers, `FloatLimit` 2, 3 failing posts, 1 fault, fairness | one key per order, truthful statuses, nothing forgotten, only accepted items leave the queue, every order arrives |
| `AuditExport` | 3 rows, 2 runs of which 1 on a pod, batches of 2, 2 failures, fairness | nothing marked or deleted before a file held it, copies only after failures, only the pod loses rows, no row skipped, `AuditArchive` implemented |
| `OrchestratorCredit` | 3 calls, amounts 1 and 2, limit 3, collateral 1 or 4, 2 faults | no booking lost to another, calls lost only by faults, overdraft bounded by what the check missed |
| `CircuitBreaker` | 2 threads (symmetric), tokens of 6 ticks, answers of up to 1, 2 attempts, threshold 2, cool-down 2, 7 ticks, 4 requests | opens when earned, whoever comes in a cool-down waits but for two races, and no request starts with an old bearer |
| `QboTokens` | 2 threads of the service and 1 other process, 2 rotations, 2 faults, fairness | the refresh token is lost to faults only, one writer at a time, what is written is the newest pair, new tokens reach the file |
| `Snapshots` | 2 runs, 1 POST, 2 versions of the figures, 2 faults, fairness | messages are rows, offsets pass handled messages only, summaries are fresh, `SnapshotLedger` implemented, every message is handled |
| `Syncers` | 4 feeds with the 3 token flows between them (5 setups), 2 runs, 2 items, dated, undated or garbled, of which 1 or 2 are listed at first, 3 hiccups, 1 change, fairness | calls not given up early, complete runs mirror the provider, rows go back only where an answer was overtaken, runs end |
| `LiquidityPolicy` | 5 amounts of cash, 5 draws, 5 policies, 2 requests | allowed draws leave the buffer and the cap to half a cent |
| `SweepOrdersKill` | 1 crash, fairness | *violated*: a pod kill loses orders |
| `AuditExportDry` | one run with `--dry-run` | *violated*: rows are marked without a file |
| `CircuitBreakerCloses` | 1 thread | *violated*: a successful trial leaves the breaker half-open |

The bounds. Two handlers, threads or runs are enough for most races here, which are
between two requests for one key, limit, row or file; `QboTokens` has a third in a
process of its own, so that one can die while two go on. Two keys per table let a
second draw meet a limit that the first one filled. One fault in the credit facility and
the connector can strike at any step, and a second one adds nothing that the first does
not leave behind; `AuditExport`, `OrchestratorCredit`, `QboTokens` and `Snapshots` have two, for a failure of
what the first one left. Three rows and batches of two give a full batch, a rest,
and a row committed behind exported ones. Three calls let two draws pass one check
while a repayment is booked between them. A token of 6 ticks has a skew of 2, so that
there is a time in which it is good and not used any more; 7 ticks see it expire during retries
and be renewed, and a cool-down end; of 4 requests two fail and open the breaker while the other two are
in the pre-check, or come back and open it again. The threads are symmetric: nothing tells them apart. Two versions of the figures tell a stale
snapshot from a fresh one. Three hiccups are what one call gives up after; one
change of the provider can fall between any two pages, and before or after an answer that is
overtaken. The setups of `Syncers` pair every feed with a token flow and every kind of date with a
feed that treats it in its own way. One run of `AuditExport` is on a pod and one is not, so that a
copy can be lost while the other stays. The amounts of `LiquidityPolicy` lie around
half a cent. `FloatLimit` scales 1024 down: what counts is that one message can fail
that often. Deadlock is not checked: each system may go quiet.

Fairness: weak fairness of the handlers and of the worker, because asyncio runs
every ready task; of providers and rails, because `httpx` times out after 5 s and
a provider adapter returns or raises; of the exporter's steps and of time,
because the CronJob starts a run every five minutes; of a QuickBooks thread that
runs, because its calls have timeouts; of the consumer's start, join, poll and
commit, because the container runtime restarts it; of the event loop of the syncers as a whole,
which does not rest while some run can go on, whichever it resumes. Clients, probes,
faults, crashes, reports and orphaned calls are never obliged to happen.

## Proofs

Eight modules hold proofs. Each has an inductive invariant (`IInv`; for
the liquidity policy the property itself is inductive), one lemma per action or group of actions, and the properties as
corollaries. With them every safety property that a passing run checks is a theorem, for
every value of the constants that satisfies the assumptions named below.

`CreditFacilityProofs`: `TypeOK`, `AtMostOneExecution`, `PostedIsExecuted`,
`BookWithinLimit`, `AuditMatchesBook`, `NoContradictoryReplies`, `ExposureWithinLimit`
and the action property `RowsAreFinal`. The assumptions are `ConstantsAssumption`: amounts are
positive (`ActionRequest.amount` has `gt=0`), caps and buffers are natural numbers,
and the two placeholder values are distinct from the things they stand in for.
Alone, `AtMostOneExecution` says nothing about a call on its way; `CallsMatchRows`
ties every such call, of a live or a dead handler, to a PENDING row that nobody
else works on and that the provider has not executed, so an execution always
takes a row from 0 to 1. It also gives the handlers exclusive rows, without which a
second handler could decide a row again. `NoContradictoryReplies` follows because
what was told is in the journal and the journal holds at most the row's own status.
`ExposureWithinLimit` rests on an exact account, `PendingIsTheDifference`: the provider's
exposure differs from the book by the sum of the amounts of the rows that the two disagree
about. The sum over rows is characterised without a recursion (`IsSum`: the least relation between
sets and numbers that has the empty sum and is closed under adding a row), and lemmas say what
adding a row or changing one does to it.

`SweepOrdersProofs`: `TypeOK`, `OneKeyPerOrder`, `StatusIsTrue`, `NoOrderForgotten` and the
action property `OnlyAcceptedLeaves`. No column holds the key an order was given; its messages are the only
trace of it. `TracesAgree` says of all traces (at the rails, orphaned, queued, with a
handler) that their order's row exists, so that no second handler makes a message for
it, and that they agree on the key. `WorkerIsTrue` says that the front of the queue is the
message the worker posted until it answers, so that the pop takes the right one; and
that no attempt is beyond `FloatLimit` while the worker lives.

`AuditExportProofs`, under the assumption that nobody asked for a dry run (`NoDryRun`):
`AtLeastOnce`, `BatchesAreDisjoint`, `CopiesNeedFailures`, `OnlyPodsLoseRows`, and the whole refinement of
`AuditArchive`; `StorageKeepsAll` says that without pods every marked or deleted row is in a file that is there. Copies are counted by `CopiesArePaid`: every copy of a row but one is paid for by
the failure that freed its lock, and that one is the copy of a run that has yet to mark
it, or is marked.

`OrchestratorCreditProofs`: `TypeOK`, `OverdraftIsWhatTheCheckMissed`, `DrawnIsTheBook` and
`OnlyFaultsLoseCalls`. A draw is
bounded when it is booked, but it was checked before the await; `IInv` carries the
check across: `CapacityFits` (what is available fitted the limit when it was
computed) and `ChecksFit` (amount and basis of every draw fit the limit together).
`DrawnIsTheBook` compares `drawn` with a fold over all calls. `FoldIsSum` says that the
community modules' `MapThenSumSet` computes the sum, by induction over the subsets of a
finite set; since an induction theorem with an operator as parameter cannot be used,
`SubsetInduction` states it for a set of sets, from the library's well-founded subset order.
`OnlyFaultsLoseCalls` follows from `NothingLostBefore`: the session is sound until the first fault.

`CircuitBreakerProofs`, about `CircuitBreaker` and `TokenCache`: `TypeOK`, `OpenIsEarned`,
`BearerAgesInRetries`, and the action property `CooldownHolds`, for any number of threads.
`CacheIsHonest` is the heart of the cache: the stored expiry is late by at most `MaxLatency`,
even if one thread stored the token and another the expiry, because both
assign at the time of their answers. `CountIsReal` says that the count, stored or on its way, never
exceeds the failures there were. `CooldownStands` is the heart of the breaker: while a request
that came in a cool-down is in the pre-check, the state is "open", the deadline is not before the
one it met, and no thread is about to change either for the worse; it rests on
`ClockWasRead`, that what a thread has read of the clock is not in the future. With one
thread only (`OneThread`), `FailedTrialReopens`: the count is exact then, and a failed trial
always trips the breaker.

`QboTokensProofs`: `TypeOK`, `TokenNotLost`, `OneWriter`,
`TornOnlyInWrite` and the action property `NoStaleOverwrite`. Nothing locks the file; `HolderIsAlone`
shows that the server does, since only the post of the current refresh token is
answered with a pair, and that pair is newer than anything another thread can read.

`QuantEngineProofs`, about `Snapshots`: `TypeOK`, `MessagesAreRows`, `CommittedIsHandled`,
`NothingWithoutId`, `JournalIsTrue`, `SummaryIsFresh`, and the whole refinement of
`SnapshotLedger`. A stamp is given once, so an insert adds a row and never replaces one
(`StampsAreUnique`); a message is a copy of a row that was committed before, so upserting it,
again or late, changes nothing. `SummaryIsFresh` compares a finished run with every row its
readers may be shown; `Timeline` carries the comparison from the run's start, over its pull and
its stamp, to its insert. That stamps are distinct is an assumption of the model
(`datetime.now` has microseconds); that there are finitely many runs and requests
(`CallersAreFinite`) is one of the proof, which counts them to bound the stamps, for `TypeOK`.

About `LiquidityPolicy`: `PolicyTypeOK` and `AllowedKeepsBuffer`, with the lemma
that a nearest cent always exists and is off by half a cent at most.

`SyncersProofs`, about `FinastraHttp` and `Syncers`: `TypeOK`, `RaisesAreExplained` and the
action properties `CompleteRunsMirror` and `OlderOnlyIfOvertaken`, for all four feeds and
three token flows, with any finite set of items and any number of runs. `HttpInv` pays for the requests of
a call: each but the first, and but the one after a 401, follows a transient error. `ReplyInv`
says what an answer that nobody overtook knows: its items are at least as recent as the rows of
their keys. `MirrorInv` follows a run: each item it found at its start, as long as none went,
is in the table, in the answer on its way, or on a page that is yet to come, and may have been
revised in between; when the loop does not go on, no page is yet to come. `RowsInv` gives the
upsert one row to replace. It counts a transaction without a date as a new item whenever it is
dated anew, as the code does.

Only model-checked are the liveness properties: `PendingIsDecided`, `EveryOrderArrives`,
`EveryRowIsExported`, `HeldIsSaved`, `EveryMessageIsHandled`, `EveryRunEnds`. Fairness and
ENABLED are out of this prover's reach. The three violated properties are of course not
provable. The proofs are about the model's pages of one item and the bounds it names
(changes, faults, hiccups), whatever their values.

## Where documentation and code part

Besides the violated runs, reading and modelling showed these; they are part of
the models, and the property named would fail:

* A refused repayment counts as repaid, so draws can exceed the cap at the provider:
  `credit_facility/models.py:15` has "Static limits for a bank's revolving credit facility",
  `service.py:100` sums rows whatever their status. `ExposureWithinLimit` is what does hold.
* `_outstanding` counts FAILED draws as well (`credit_facility/service.py:97`), so a
  refused draw holds capacity for ever, while its docstring says "net outstanding amount".
* `capacity` ignores the snapshot's collateral (`service.py:85`); its docstring has
  `min(policy_cap, ltv * eligible) - outstanding`.
* A report or a handler's own SENT overwrites SETTLED (`bank_connector/main.py:286`, `:237`);
  ACCP is shown as UNKNOWN because `iso_map` knows ACTC instead (`main.py:274`).
* "item stays at front for next cycle" (`bank_connector/main.py:118`), but there is no next
  cycle once `2**attempt` overflows (`:76`): a long outage ends the worker.
* The gauge is not set after a pop (`main.py:112`), so it stays above 0 on an empty
  queue, against `tests/test_bank_rails_wireup.py:108`.
* The sweep counts the rows past the retention and deletes all exported ones
  (`audit_exporter.py:196-200`).
* "a deterministic, idempotent restore path" (`docs/runbooks/audit_backup_and_restore.md:4`),
  but the script binds `id`, `created_at` and `event_ts`
  (`scripts/restore_audit_from_ndjson.py:65`), which no exported line has: it raises on every line.
* The CronJob's export directory is an emptyDir (`k8s/cronjob-audit-exporter.yaml:55`)
  while the runbook calls it a persistent volume (`docs/runbooks/audit_backup_and_restore.md:11`), so
  exported and swept rows are gone with the pod: `OnlyPodsLoseRows`, and `StorageKeepsAll` for the runbook.
* Terminal failures add up across successes (`bankersbank/finastra.py:440`), while
  `docs/finastra.md:29` says "consecutive"; and `+=` of two threads may count one failure for two.
* "calls fast-fail ... until cooldown elapses" (`docs/finastra.md:30`), but a thread that had
  seen the end of the last cool-down sets "half" in the new one (`bankersbank/finastra.py:402`), and
  between state and deadline (`:443`, `:444`) the breaker is open with the deadline of the last
  cool-down. `CooldownHolds` excepts the races.
* "half-open allows one trial request" (`docs/finastra.md:31`): "half" lets everyone in
  (`bankersbank/finastra.py:396`).
* "token likely expired; refresh provider and retry once"
  (`integrations/finastra/http.py:113`): the live providers have no `refresh`, so the 401
  is raised, and again on every later call of that client.
* "retry on 429 / 5xx (max 3 retries)" (`integrations/finastra/http.py:6`): of the 5xx only 502, 503
  and 504 are retried, 500 is raised at once, and there are three requests, so two retries
  (`:99`, `:106`). `RaisesAreExplained` is about the code's third request, not a fourth.
* "detects 404 path if unavailable" (`integrations/finastra/balances_client.py:4`): a 404 is raised
  like any other status and fails the run.
* "Upsert AssetSnapshot row and derived LTVHistory" (`asset_aggregator/service.py:97`): the
  second insert is a plain string with a positional dict, which `session.exec` refuses, so
  `POST /snapshot` stores the snapshot and answers 500.
* "idempotent (source_hash)" (`asset_aggregator/syncers/finastra_transactions.py:4`):
  a transaction without a date is inserted again by every run, under the time of that run. A
  date that cannot be parsed raises there (`:50`, `:91`) and for accounts (`finastra_accounts.py:76`, `:96`),
  and fails the run at that page every time.

## Not modelled

The gateway API forwards requests and keeps no state. The decision engine is a
stub. In `bankersbank/finastra.py` the LTV arithmetic, the one-line wrappers of
`request` and the mock switches; in `asset_aggregator/api.py` the routes that only
read; in `kafka_consumer.py` the two functions only tests call. Metrics, logging,
dashboards, infrastructure, OpenAPI files, SDK shims, mocks and one-off scripts
carry no logic of their own. Building and reading ISO 20022 XML, sanitizing audit
payloads, comparing tokens, finding secrets and parsing dates is formatting or
lookup. The bank connector's second definitions of its two routes
(`main.py:297-348`) are never reached. In `CreditFacility`, an exception that is
not an `Exception` (a cancelled task) counts as a crash.

What is left to do: the clauses of the code that no property states yet, which the hazards
without a property name (the table that two programs create, the journal entry after a snapshot,
transactions without a date).
