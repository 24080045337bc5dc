------------------------------ MODULE Snapshots ------------------------------
(***************************************************************************)
(* The snapshot pipeline of one bank: the asset aggregator stores          *)
(* snapshots in Postgres and publishes them to a topic                     *)
(* (asset_aggregator/service.py, db.py, api.py); the quant consumer        *)
(* upserts every message into the same table                               *)
(* (quantengine/kafka_consumer.py).  Each process creates what it needs of *)
(* the schema when it starts, in whichever order they start, and each may  *)
(* die at any step and is restarted by the container runtime.              *)
(*                                                                         *)
(* The figures of the bank are a version that grows; a pull takes the      *)
(* current version, or Zeros when the pull failed.  Time stamps are        *)
(* distinct (datetime.now() has microseconds).                             *)
(***************************************************************************)
EXTENDS Naturals, Sequences, FiniteSets

CONSTANTS
  Runs,        \* calls of snapshot_bank_assets
  Posts,       \* POST /snapshot requests
  MaxVersion,  \* bound: versions of the bank's figures
  MaxFaults    \* bound: faults of the database, the broker and the processes

ASSUME SizesAreNaturals == MaxVersion \in Nat \ {0} /\ MaxFaults \in Nat
ASSUME CallersDiffer == Runs \cap Posts = {}
ASSUME CallersAreFinite == IsFiniteSet(Runs \cup Posts)

VARIABLES
  version,    \* the bank's figures at the services the pullers ask
  now,        \* the last time stamp given
  shape,      \* table assetsnapshot: absent, or as the ORM or the SQL made it
  unique,     \* it has the constraint assetsnapshot_uniq (bank_id, ts)
  table,      \* its rows
  journal,    \* the stamps in the audit journal
  aggregator, \* its process
  pc,         \* where each run and each POST stands
  got,        \* what each run pulled so far
  stamp,      \* the time stamp of each run and POST, 0 before it has one
  began,      \* the clock when a run began
  topic,      \* the messages of the topic asset_snapshots
  consumer,   \* the consumer's process
  position,   \* how many messages it has taken since it joined
  committed,  \* the offset its group has committed
  handled,    \* the offsets it has upserted
  skipped,    \* the offsets a failing consumer committed on its way out
  faults

store    == <<shape, unique, table>>
callers  == <<pc, got, stamp, began>>
reader   == <<consumer, position, committed, handled, skipped>>
vars     == <<version, now, store, journal, aggregator, callers, topic, reader, faults>>

Zeros == 0
Mock  == MaxVersion + 1
NotYet == MaxVersion + 2

Row == [ts : 1 .. Cardinality(Runs \cup Posts), usd : 0 .. Mock]

Init ==
  /\ version = 1 /\ now = 0 /\ faults = 0
  /\ shape = "absent" /\ unique = FALSE /\ table = {}
  /\ journal = {}
  /\ aggregator = "down"
  /\ pc = [c \in Runs \cup Posts |-> "idle"]
  /\ got = [r \in Runs |-> NotYet]
  /\ stamp = [c \in Runs \cup Posts |-> 0]
  /\ began = [r \in Runs |-> 0]
  /\ topic = <<>>
  /\ consumer = "down" /\ position = 0 /\ committed = 0
  /\ handled = {} /\ skipped = {}

Fault == faults < MaxFaults /\ faults' = faults + 1

\* ON CONFLICT (bank_id, ts) DO UPDATE: the row of this stamp, new or replaced.
Upsert(row) == table' = {r \in table : r.ts # row.ts} \cup {row}

-----------------------------------------------------------------------------
(* The world outside: the bank's figures change. *)

FiguresChange ==
  /\ version < MaxVersion
  /\ version' = version + 1
  /\ UNCHANGED <<now, store, journal, aggregator, callers, topic, reader, faults>>

-----------------------------------------------------------------------------
(* The aggregator. *)

\* init_db creates the tables that are missing; one that is there stays as it is.
StartAggregator ==
  /\ aggregator = "down"
  /\ aggregator' = "up"
  /\ shape' = IF shape = "absent" THEN "orm" ELSE shape
  /\ UNCHANGED <<version, now, unique, table, journal, callers, topic, reader, faults>>

AggregatorDies ==
  /\ aggregator = "up" /\ Fault
  /\ aggregator' = "down"
  /\ pc' = [c \in Runs \cup Posts |->
              IF pc[c] \in {"idle", "done", "failed", "error"} THEN pc[c] ELSE "failed"]
  /\ UNCHANGED <<version, now, store, journal, got, stamp, began, topic, reader>>

Moves(c, from, to) ==
  /\ aggregator = "up"
  /\ pc[c] = from
  /\ pc' = [pc EXCEPT ![c] = to]

Begin(r) ==
  /\ Moves(r, "idle", "pull")
  /\ began' = [began EXCEPT ![r] = now]
  /\ UNCHANGED <<version, now, store, journal, aggregator, got, stamp, topic, reader, faults>>

\* Mutant: a pull answers from a cache of any age.
PullCached(r) ==
  /\ aggregator = "up" /\ pc[r] = "pull"
  /\ got[r] = NotYet
  /\ \E v \in 0 .. version : got' = [got EXCEPT ![r] = v]
  /\ UNCHANGED <<version, now, store, journal, aggregator, pc, stamp, began, topic, reader, faults>>

\* The pulls return (both at once here; two readings of the same source); any
\* exception becomes zeros.
Pull(r) ==
  /\ aggregator = "up" /\ pc[r] = "pull"
  /\ got[r] = NotYet
  /\ \E v \in {version, Zeros} : got' = [got EXCEPT ![r] = v]
  /\ UNCHANGED <<version, now, store, journal, aggregator, pc, stamp, began, topic, reader, faults>>

RowOf(r) == [ts |-> stamp[r], usd |-> got[r]]

\* Mutant: an insert that fails is taken for stored.
InsertUnlessAnswered(r) ==
  /\ got[r] # NotYet
  /\ now' = now + 1
  /\ stamp' = [stamp EXCEPT ![r] = now + 1]
  /\ Moves(r, "pull", "stored")
  /\ \/ /\ shape = "orm"
        /\ table' = table \cup {[ts |-> now + 1, usd |-> got[r]]}
        /\ UNCHANGED faults
     \/ /\ \/ shape # "orm" /\ UNCHANGED faults
           \/ Fault
        /\ UNCHANGED table
  /\ UNCHANGED <<version, shape, unique, journal, aggregator, got, began, topic, reader>>

\* The snapshot is stamped after both pulls and inserted by the ORM, which
\* returns the id: it needs the column that only its own CREATE TABLE has.
Insert(r) ==
  /\ got[r] # NotYet
  /\ now' = now + 1
  /\ stamp' = [stamp EXCEPT ![r] = now + 1]
  /\ \/ /\ shape = "orm"
        /\ Moves(r, "pull", "stored")
        /\ table' = table \cup {[ts |-> now + 1, usd |-> got[r]]}
        /\ UNCHANGED faults
     \/ /\ \/ shape # "orm" /\ UNCHANGED faults
           \/ Fault
        /\ Moves(r, "pull", "failed")
        /\ UNCHANGED table
  /\ UNCHANGED <<version, shape, unique, journal, aggregator, got, began, topic, reader>>

\* send_and_wait returns; a producer that retried may have appended twice.
Publish(r) ==
  /\ Moves(r, "stored", "done")
  /\ \/ topic' = Append(topic, RowOf(r)) /\ UNCHANGED faults
     \/ topic' = topic \o <<RowOf(r), RowOf(r)>> /\ Fault
  /\ UNCHANGED <<version, now, store, journal, aggregator, got, stamp, began, reader>>

\* The broker cannot be reached, or its answer is lost: the call raises.
PublishFails(r) ==
  /\ Moves(r, "stored", "failed") /\ Fault
  /\ topic' \in {topic, Append(topic, RowOf(r))}
  /\ UNCHANGED <<version, now, store, journal, aggregator, got, stamp, began, reader>>

\* POST /snapshot first selects the previous snapshot, id included.
PostRead(p) ==
  /\ \/ shape = "orm" /\ Moves(p, "idle", "read")
     \/ shape # "orm" /\ Moves(p, "idle", "error")
  /\ UNCHANGED <<version, now, store, journal, aggregator, got, stamp, began, topic, reader, faults>>

\* upsert_assetsnapshot: ON CONFLICT needs the constraint, which only the
\* consumer adds.
PostUpsert(p) ==
  /\ now' = now + 1
  /\ stamp' = [stamp EXCEPT ![p] = now + 1]
  /\ \/ /\ unique
        /\ Moves(p, "read", "stored")
        /\ Upsert([ts |-> now + 1, usd |-> Mock])
        /\ UNCHANGED faults
     \/ /\ \/ ~unique /\ UNCHANGED faults
           \/ Fault
        /\ Moves(p, "read", "error")
        /\ UNCHANGED table
  /\ UNCHANGED <<version, shape, unique, journal, aggregator, got, began, topic, reader>>

\* The audit row is written after the snapshot is committed, in another database.
PostAudit(p) ==
  /\ \/ /\ Moves(p, "stored", "audited")
        /\ journal' = journal \cup {stamp[p]}
        /\ UNCHANGED faults
     \/ /\ Moves(p, "stored", "error") /\ Fault
        /\ UNCHANGED journal
  /\ UNCHANGED <<version, now, store, aggregator, got, stamp, began, topic, reader>>

\* session.exec is given a plain string and a positional dict, which it
\* refuses: the row of ltvhistory is never written, and the answer is 500.
PostLtv(p) ==
  /\ Moves(p, "audited", "error")
  /\ UNCHANGED <<version, now, store, journal, aggregator, got, stamp, began, topic, reader, faults>>

\* GET /assets/summary: the row with the newest stamp.
Summary == CHOOSE r \in table : \A s \in table : s.ts <= r.ts

-----------------------------------------------------------------------------
(* The consumer. *)

\* CREATE TABLE without an id column, if there is no table.
CreateTable == shape' = IF shape = "absent" THEN "sql" ELSE shape

\* ADD CONSTRAINT assetsnapshot_uniq UNIQUE (bank_id, ts), if it is not there.
AddUnique == unique' = TRUE

\* _ensure_schema, both statements in one transaction.
EnsureSchema ==
  /\ consumer = "down"
  /\ consumer' = "joining"
  /\ CreateTable
  /\ AddUnique
  /\ UNCHANGED <<version, now, table, journal, aggregator, callers, topic,
                 position, committed, handled, skipped, faults>>

\* Mutant: auto_offset_reset="latest", and no offset kept.
StartAtTheEnd == Len(topic)

\* The offset a member starts from: what its group committed, else the earliest.
StartOffset == committed

\* The client joins the group; twelve failed attempts end the process.
Join ==
  /\ consumer = "joining"
  /\ consumer' = "polling"
  /\ position' = StartOffset
  /\ UNCHANGED <<version, now, store, journal, aggregator, callers, topic,
                 committed, handled, skipped, faults>>

\* Mutant: the table keeps one row.
KeepNewestOnly == table' = {topic[position + 1]}

\* _upsert_snapshot of the message at the position.
UpsertMessage == Upsert(topic[position + 1])

Consume ==
  /\ consumer = "polling"
  /\ position < Len(topic)
  /\ position' = position + 1
  /\ UpsertMessage
  /\ handled' = handled \cup {position + 1}
  /\ UNCHANGED <<version, now, shape, unique, journal, aggregator, callers, topic,
                 consumer, committed, skipped, faults>>

\* Mutant: the offset is committed before the message is handled.
AutoCommitNext ==
  /\ consumer = "polling" /\ committed # position + 1
  /\ committed' = position + 1
  /\ UNCHANGED <<version, now, store, journal, aggregator, callers, topic,
                 consumer, position, handled, skipped, faults>>

\* The client commits in the background, between two messages.
AutoCommit ==
  /\ consumer = "polling" /\ committed # position
  /\ committed' = position
  /\ UNCHANGED <<version, now, store, journal, aggregator, callers, topic,
                 consumer, position, handled, skipped, faults>>

\* The upsert raises (its commit may have arrived all the same); the loop
\* re-raises, and stopping the client tries a last commit, of a position
\* that is already past the message.
ConsumeFails ==
  /\ consumer = "polling" /\ Fault
  /\ position < Len(topic)
  /\ consumer' = "down"
  /\ \/ UpsertMessage \/ UNCHANGED table
  /\ \/ committed' = position + 1 /\ skipped' = skipped \cup {position + 1}
     \/ UNCHANGED <<committed, skipped>>
  /\ UNCHANGED <<version, now, shape, unique, journal, aggregator, callers, topic,
                 position, handled>>

\* SIGTERM cancels the task: the client is stopped and tries a last commit.
ConsumerStops ==
  /\ consumer = "polling" /\ Fault
  /\ consumer' = "down"
  /\ committed' \in {committed, position}
  /\ UNCHANGED <<version, now, store, journal, aggregator, callers, topic,
                 position, handled, skipped>>

\* SIGKILL, or the database or the broker is not there when the process starts.
ConsumerDies ==
  /\ consumer # "down" /\ Fault
  /\ consumer' = "down"
  /\ UNCHANGED <<version, now, store, journal, aggregator, callers, topic,
                 position, committed, handled, skipped>>

-----------------------------------------------------------------------------
Run(r) == \/ Begin(r) \/ Pull(r)
          \/ Insert(r) \/ Publish(r) \/ PublishFails(r)

Post(p) == PostRead(p) \/ PostUpsert(p) \/ PostAudit(p) \/ PostLtv(p)

Next ==
  \/ FiguresChange \/ StartAggregator \/ AggregatorDies
  \/ \E r \in Runs : Run(r)
  \/ \E p \in Posts : Post(p)
  \/ EnsureSchema \/ Join \/ Consume \/ AutoCommit
  \/ ConsumeFails \/ ConsumerStops \/ ConsumerDies

Spec == Init /\ [][Next]_vars

\* The container runtime restarts the consumer (restart: unless-stopped) and
\* its loop polls and commits for ever; nothing is assumed of the aggregator.
Fairness ==
  /\ WF_vars(EnsureSchema) /\ WF_vars(Join)
  /\ WF_vars(Consume) /\ WF_vars(AutoCommit)

FairSpec == Spec /\ Fairness

-----------------------------------------------------------------------------
(* Properties. *)

\* Every variable has its type; rows carry stamps that were given.
TypeOK ==
  /\ version \in 1 .. MaxVersion /\ now \in 0 .. Cardinality(Runs \cup Posts)
  /\ faults \in 0 .. MaxFaults
  /\ shape \in {"absent", "orm", "sql"} /\ unique \in BOOLEAN
  /\ table \subseteq Row
  /\ journal \subseteq 1 .. now
  /\ aggregator \in {"down", "up"}
  /\ pc \in [Runs \cup Posts -> {"idle", "pull", "stored", "done", "failed",
                                 "read", "audited", "error"}]
  /\ got \in [Runs -> 0 .. NotYet]
  /\ stamp \in [Runs \cup Posts -> 0 .. now] /\ began \in [Runs -> 0 .. now]
  /\ topic \in Seq(Row)
  /\ consumer \in {"down", "joining", "polling"}
  /\ position \in 0 .. Len(topic) /\ committed \in 0 .. Len(topic)
  /\ handled \subseteq 1 .. Len(topic) /\ skipped \subseteq 1 .. Len(topic)

\* A message says what the table says under its stamp: the snapshot was
\* committed before it was published, and nothing delivered twice or late has
\* changed the row since (service.py:150-159, kafka_consumer.py:132-139).
MessagesAreRows == \A o \in 1 .. Len(topic) : topic[o] \in table

\* The group's offset passes only messages that were upserted, or that a
\* failing consumer committed while it went down (kafka_consumer.py:306-340,
\* 375-380): a kill or a restart alone never loses a message.
CommittedIsHandled == 1 .. committed \subseteq handled \cup skipped

\* GET /assets/summary never answers figures older than those of a snapshot
\* that was stored before the one it answers was begun, although runs overlap
\* and each is stamped after its pulls (service.py:138-148, api.py:129-142).
SummaryIsFresh ==
  \A q \in Runs :
    (table # {} /\ stamp[q] = Summary.ts)
    => \A r \in table : (r.ts <= began[q] /\ r.usd # Mock /\ Summary.usd # Zeros)
                        => r.usd <= Summary.usd

\* Where the consumer came first its table has no id column, and then the
\* pipeline never carries anything: no row, no message (db.py:43-45,
\* kafka_consumer.py:161-177).
NothingWithoutId == shape = "sql" => table = {} /\ topic = <<>>

\* Redelivery, reordering, overlapping runs and restarts leave an append-only
\* ledger with one entry per stamp: the table implements SnapshotLedger.
Ledger == INSTANCE SnapshotLedger WITH ledger <- table
ImplementsLedger == Ledger!Spec

\* Again and again the whole topic has been upserted, but for messages a
\* failing consumer passed over: none is left behind for ever
\* (kafka_consumer.py:343-387, restarted by docker-compose.yml:174-208).
EveryMessageIsHandled == []<>(1 .. Len(topic) \subseteq handled \cup skipped)
=============================================================================
