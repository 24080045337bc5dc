------------------------- MODULE QuantEngineProofs -------------------------
(***************************************************************************)
(* Proofs about the quant engine: its snapshot pipeline (Snapshots), for   *)
(* any runs, requests, versions and faults, and its liquidity policy       *)
(* (LiquidityPolicy), for any cash, draws and policies and any number of   *)
(* requests.                                                               *)
(*                                                                         *)
(* The pipeline: a stamp is given once, so an insert adds a row and never  *)
(* replaces one; a message is a copy of a row that was committed before,   *)
(* so an upsert of it, the first time or again, early or late, changes     *)
(* nothing.                                                                *)
(*                                                                         *)
(* What a reader is told of the newest row compares a run with the rows it *)
(* never saw; Timeline ties the figures of a run, from the moment it has   *)
(* them, to all that was in the table when it began.                       *)
(*                                                                         *)
(* The policy: both figures of an answer are rounded, each by half a cent  *)
(* at most, and the draw was checked before either was.                    *)
(***************************************************************************)
EXTENDS Snapshots, LiquidityPolicy, FiniteSetTheorems, TLAPS

\* Nothing is known of the numbers of runs and stamps.
AnyRow == [ts : Nat, usd : Nat]

Places == {"idle", "pull", "stored", "done", "failed", "read", "audited", "error"}

PipelineTypes ==
  /\ version \in Nat /\ now \in Nat
  /\ shape \in {"absent", "orm", "sql"}
  /\ table \subseteq AnyRow
  /\ pc \in [Runs \cup Posts -> Places]
  /\ got \in [Runs -> Nat]
  /\ stamp \in [Runs \cup Posts -> Nat]
  /\ topic \in Seq(AnyRow)

\* One row per stamp, and no row of a stamp that was not given.
StampsAreUnique ==
  /\ \A r \in table : r.ts <= now
  /\ \A r, q \in table : r.ts = q.ts => r = q

\* What a run is about to publish, or a POST to journal, is in the table.
StoredIsThere ==
  /\ \A r \in Runs : pc[r] = "stored" => RowOf(r) \in table
  /\ \A p \in Posts : pc[p] = "stored" => \E r \in table : r.ts = stamp[p]

\* Only the table that the aggregator created ever takes anything.
OnlyOrmStores ==
  /\ table # {} \/ topic # <<>> => shape = "orm"
  /\ \A c \in Runs \cup Posts : pc[c] \in {"read", "stored"} => shape = "orm"

\* The journal names no snapshot that is not there.
JournalIsTrue == \A t \in journal : \E r \in table : r.ts = t

Pipeline ==
  /\ PipelineTypes /\ StampsAreUnique /\ StoredIsThere
  /\ OnlyOrmStores /\ MessagesAreRows /\ JournalIsTrue

\* A consumer at its work has upserted all before its position.
Reader ==
  /\ position \in 0 .. Len(topic) /\ committed \in 0 .. Len(topic)
  /\ CommittedIsHandled
  /\ consumer = "polling" => 1 .. position \subseteq handled \cup skipped

IInv == Pipeline /\ Reader

-----------------------------------------------------------------------------
(* What the steps have in common.                                          *)

LEMMA ConstantTypes == Mock \in Nat /\ NotYet \in Nat /\ Zeros \in Nat /\ NotYet # Zeros
  BY SizesAreNaturals DEF Mock, NotYet, Zeros

\* Upserting a message changes nothing: its row is there.
LEMMA MessageIsThere ==
  ASSUME Pipeline, NEW o \in 1 .. Len(topic), Upsert(topic[o])
  PROVE  table' = table
<1>1. topic[o] \in table
    BY DEF Pipeline, MessagesAreRows
<1>2. \A r \in table : r.ts = topic[o].ts => r = topic[o]
    BY <1>1 DEF Pipeline, StampsAreUnique
<1> QED BY <1>1, <1>2 DEF Upsert

\* A row under a new stamp is added, whichever way.
LEMMA NewRow ==
  ASSUME Pipeline, NEW v \in Nat, NEW row, row = [ts |-> now + 1, usd |-> v],
         table' = table \cup {row} \/ Upsert(row)
  PROVE  /\ table' = table \cup {row} /\ row \in AnyRow /\ row.ts = now + 1
         /\ \A r \in table : r.ts # now + 1
<1>1. now \in Nat /\ table \subseteq AnyRow
    BY DEF Pipeline, PipelineTypes
<1>2. row \in AnyRow /\ row.ts = now + 1
    BY <1>1 DEF AnyRow
<1>3. \A r \in table : r.ts # now + 1
    BY <1>1 DEF Pipeline, StampsAreUnique, AnyRow
<1>4. {r \in table : r.ts # row.ts} = table
    BY <1>2, <1>3
<1> QED BY <1>2, <1>3, <1>4 DEF Upsert

\* Steps of the aggregator that leave rows, messages and stamps alone, and move
\* nobody to where a row is due.
LEMMA MoveKeeps ==
  ASSUME Pipeline, PipelineTypes',
         UNCHANGED <<table, topic, journal>>, now <= now',
         \A c \in Runs \cup Posts : pc'[c] = "stored" => pc[c] = "stored" /\ stamp'[c] = stamp[c],
         \A r \in Runs : pc'[r] = "stored" => got'[r] = got[r],
         shape = "orm" => shape' = "orm",
         \A c \in Runs \cup Posts : pc'[c] = "read" => pc[c] = "read" \/ shape = "orm"
  PROVE  Pipeline'
<1> USE DEF Pipeline
<1>1. StampsAreUnique'
    BY DEF StampsAreUnique, PipelineTypes, AnyRow
<1>2. StoredIsThere'
    BY DEF StoredIsThere, RowOf
<1>3. OnlyOrmStores'
    BY DEF OnlyOrmStores
<1>4. MessagesAreRows' /\ JournalIsTrue'
    BY DEF MessagesAreRows, JournalIsTrue
<1> QED BY <1>1, <1>2, <1>3, <1>4

\* The consumer takes no notice of a topic that grows.
LEMMA ReaderKeeps ==
  ASSUME IInv, UNCHANGED reader, Len(topic) \in Nat, Len(topic') \in Nat, Len(topic) <= Len(topic')
  PROVE  Reader'
  BY DEF IInv, Reader, reader, CommittedIsHandled

\* Nor does the pipeline of the consumer, as long as the table stays.
LEMMA PipelineKeeps ==
  ASSUME Pipeline, UNCHANGED <<version, now, shape, table, journal, callers, topic>>
  PROVE  Pipeline'
<1> USE DEF Pipeline, callers
<1>1. PipelineTypes' /\ StampsAreUnique'
    BY DEF PipelineTypes, StampsAreUnique
<1>2. StoredIsThere' /\ OnlyOrmStores'
    BY DEF StoredIsThere, OnlyOrmStores, RowOf
<1>3. MessagesAreRows' /\ JournalIsTrue'
    BY DEF MessagesAreRows, JournalIsTrue
<1> QED BY <1>1, <1>2, <1>3

LEMMA InitInv == Init => IInv
<1> SUFFICES ASSUME Init PROVE IInv
    OBVIOUS
<1> USE ConstantTypes DEF Init
<1>1. PipelineTypes
    BY DEF PipelineTypes, Places
<1>2. StampsAreUnique /\ StoredIsThere /\ OnlyOrmStores /\ MessagesAreRows /\ JournalIsTrue
    BY DEF StampsAreUnique, StoredIsThere, OnlyOrmStores, MessagesAreRows, JournalIsTrue
<1>3. Reader
    BY DEF Reader, CommittedIsHandled
<1> QED BY <1>1, <1>2, <1>3 DEF IInv, Pipeline

-----------------------------------------------------------------------------
(* The aggregator.                                                         *)

\* The steps that store nothing and publish nothing.
QuietStep(c) ==
  \/ FiguresChange \/ StartAggregator \/ AggregatorDies
  \/ c \in Runs /\ (Begin(c) \/ Pull(c))
  \/ c \in Posts /\ (PostRead(c) \/ PostLtv(c))

LEMMA QuietInv == ASSUME IInv, NEW c, QuietStep(c) PROVE IInv'
<1> USE DEF IInv, store, callers, Moves
<1>1. UNCHANGED <<table, topic, journal, now, reader, stamp>>
    BY DEF QuietStep, FiguresChange, StartAggregator, AggregatorDies, Begin, Pull, PostRead, PostLtv
<1>2. PipelineTypes'
  <2> USE DEF Pipeline, PipelineTypes
  <2>1. CASE FiguresChange
      BY <2>1 DEF FiguresChange
  <2>2. CASE StartAggregator
      BY <2>2 DEF StartAggregator
  <2>3. CASE AggregatorDies
      BY <2>3 DEF AggregatorDies, Places
  <2>4. CASE c \in Runs /\ Begin(c)
      BY <2>4 DEF Begin, Places
  <2>5. CASE c \in Runs /\ Pull(c)
      BY <2>5, ConstantTypes DEF Pull
  <2>6. CASE c \in Posts /\ PostRead(c)
      BY <2>6 DEF PostRead, Places
  <2>7. CASE c \in Posts /\ PostLtv(c)
      BY <2>7 DEF PostLtv, Places
  <2> QED BY <2>1, <2>2, <2>3, <2>4, <2>5, <2>6, <2>7 DEF QuietStep
<1>3. shape = "orm" => shape' = "orm"
    BY DEF QuietStep, FiguresChange, StartAggregator, AggregatorDies, Begin, Pull, PostRead, PostLtv
<1>4. \A d \in Runs \cup Posts :
        /\ pc'[d] = "stored" => pc[d] = "stored"
        /\ pc'[d] = "read" => pc[d] = "read" \/ shape = "orm"
    BY DEF QuietStep, FiguresChange, StartAggregator, AggregatorDies, Begin, Pull, PostRead, PostLtv,
           Pipeline, PipelineTypes
<1>5. \A r \in Runs : pc'[r] = "stored" => got'[r] = got[r]
  <2>1. CASE c \in Runs /\ Pull(c)
      BY <2>1 DEF Pull, Pipeline, PipelineTypes
  <2>2. CASE ~(c \in Runs /\ Pull(c))
      BY <2>2 DEF QuietStep, FiguresChange, StartAggregator, AggregatorDies, Begin, PostRead, PostLtv
  <2> QED BY <2>1, <2>2
<1>6. now \in Nat /\ Len(topic) \in Nat
    BY DEF Pipeline, PipelineTypes
<1>7. Pipeline'
    BY <1>1, <1>2, <1>3, <1>4, <1>5, <1>6, MoveKeeps
<1>8. Reader'
    BY <1>1, <1>6, ReaderKeeps
<1> QED BY <1>7, <1>8

\* Insert, and the upsert of a POST, one way or the other.
Stores(c, v) ==
  /\ now' = now + 1
  /\ stamp' = [stamp EXCEPT ![c] = now + 1]
  /\ \/ /\ shape = "orm" /\ pc' = [pc EXCEPT ![c] = "stored"]
        /\ \/ table' = table \cup {[ts |-> now + 1, usd |-> v]}
           \/ Upsert([ts |-> now + 1, usd |-> v])
     \/ /\ pc' = [pc EXCEPT ![c] = "failed"] \/ pc' = [pc EXCEPT ![c] = "error"]
        /\ UNCHANGED table
  /\ UNCHANGED <<version, shape, journal, got, topic, reader>>

LEMMA InsertStores == ASSUME IInv, NEW r \in Runs, Insert(r) PROVE Stores(r, got[r])
  BY DEF Insert, Stores, Moves

LEMMA UpsertStores == ASSUME IInv, NEW p \in Posts, PostUpsert(p) PROVE Stores(p, Mock)
  BY DEF IInv, Pipeline, OnlyOrmStores, PostUpsert, Stores, Moves

LEMMA StoresInv ==
  ASSUME IInv, NEW c \in Runs \cup Posts, NEW v \in Nat, Stores(c, v), c \in Runs => v = got[c]
  PROVE  IInv'
<1> USE DEF IInv, Stores
<1> DEFINE row == [ts |-> now + 1, usd |-> v]
<1>1. now \in Nat /\ Len(topic) \in Nat
    BY DEF Pipeline, PipelineTypes
<1>2. Reader'
    BY <1>1, ReaderKeeps
<1>3. pc' \in [Runs \cup Posts -> Places] /\ stamp' \in [Runs \cup Posts -> Nat]
  <2>1. \E place \in Places : pc' = [pc EXCEPT ![c] = place]
      BY DEF Places
  <2>2. pc' \in [Runs \cup Posts -> Places]
      BY <2>1 DEF Pipeline, PipelineTypes
  <2> QED BY <1>1, <2>2 DEF Pipeline, PipelineTypes
<1>4. CASE UNCHANGED table /\ (pc' = [pc EXCEPT ![c] = "failed"] \/ pc' = [pc EXCEPT ![c] = "error"])
  <2>1. PipelineTypes'
      BY <1>1, <1>3, <1>4 DEF Pipeline, PipelineTypes
  <2>2. \A d \in Runs \cup Posts :
          /\ pc'[d] = "stored" => pc[d] = "stored" /\ stamp'[d] = stamp[d]
          /\ pc'[d] = "read" => pc[d] = "read"
      BY <1>4 DEF Pipeline, PipelineTypes
  <2> QED BY <1>1, <1>2, <1>4, <2>1, <2>2, MoveKeeps
<1>5. CASE /\ shape = "orm" /\ pc' = [pc EXCEPT ![c] = "stored"]
           /\ table' = table \cup {row} \/ Upsert(row)
  <2> HIDE DEF row
  <2>1. /\ table' = table \cup {row} /\ row \in AnyRow /\ row.ts = now + 1
        /\ \A r \in table : r.ts # now + 1
      BY <1>5, NewRow DEF row
  <2>2. PipelineTypes'
      BY <1>1, <1>3, <2>1 DEF Pipeline, PipelineTypes
  <2>3. StampsAreUnique'
      BY <1>1, <2>1 DEF Pipeline, PipelineTypes, StampsAreUnique, AnyRow
  <2>4. \A d \in Runs \cup Posts : d # c => pc'[d] = pc[d] /\ stamp'[d] = stamp[d]
      BY <1>5 DEF Pipeline, PipelineTypes
  <2>5. stamp'[c] = now + 1 /\ (c \in Runs => RowOf(c)' = row)
      BY DEF Pipeline, PipelineTypes, RowOf, row
  <2>6. StoredIsThere'
      BY <2>1, <2>4, <2>5 DEF Pipeline, StoredIsThere, RowOf
  <2>7. OnlyOrmStores' /\ MessagesAreRows' /\ JournalIsTrue'
      BY <1>5, <2>1 DEF Pipeline, OnlyOrmStores, MessagesAreRows, JournalIsTrue
  <2> QED BY <1>2, <2>2, <2>3, <2>6, <2>7 DEF Pipeline
<1> QED BY <1>4, <1>5

LEMMA PublishInv == ASSUME IInv, NEW r \in Runs, Publish(r) \/ PublishFails(r) PROVE IInv'
<1> USE DEF IInv, Publish, PublishFails, Moves, store
<1>1. RowOf(r) \in table /\ RowOf(r) \in AnyRow /\ shape = "orm"
    BY DEF Pipeline, StoredIsThere, PipelineTypes, OnlyOrmStores
<1>2. topic \in Seq(AnyRow) /\ Len(topic) \in Nat
    BY DEF Pipeline, PipelineTypes
<1>3. \/ topic' = topic
      \/ topic' = Append(topic, RowOf(r))
      \/ topic' = topic \o <<RowOf(r), RowOf(r)>>
    OBVIOUS
<1>4. /\ topic' \in Seq(AnyRow) /\ Len(topic') \in Nat /\ Len(topic) <= Len(topic')
      /\ \A o \in 1 .. Len(topic') : topic'[o] \in {RowOf(r)} \cup {topic[q] : q \in 1 .. Len(topic)}
  <2>1. CASE topic' = topic
      BY <1>2, <2>1
  <2>2. CASE topic' = Append(topic, RowOf(r))
      BY <1>1, <1>2, <2>2
  <2>3. CASE topic' = topic \o <<RowOf(r), RowOf(r)>>
    <3>1. <<RowOf(r), RowOf(r)>> \in Seq(AnyRow)
        BY <1>1
    <3>2. Len(topic') = Len(topic) + 2
        BY <1>2, <2>3, <3>1
    <3>3. \A o \in 1 .. Len(topic') : topic'[o] = IF o <= Len(topic) THEN topic[o] ELSE RowOf(r)
        BY <1>2, <2>3, <3>1, <3>2
    <3> QED BY <1>1, <1>2, <2>3, <3>1, <3>2, <3>3
  <2> QED BY <1>3, <2>1, <2>2, <2>3
<1>5. pc' \in [Runs \cup Posts -> Places] /\ \A d \in Runs \cup Posts : pc'[d] \in {pc[d], "done", "failed"}
    BY DEF Pipeline, PipelineTypes, Places
<1>6. UNCHANGED <<version, now, shape, table, journal, got, stamp, reader>>
    OBVIOUS
<1>7. PipelineTypes'
    BY <1>4, <1>5, <1>6 DEF Pipeline, PipelineTypes
<1>8. StampsAreUnique' /\ JournalIsTrue'
    BY <1>6 DEF Pipeline, StampsAreUnique, JournalIsTrue
<1>9. StoredIsThere'
    BY <1>5, <1>6 DEF Pipeline, StoredIsThere, RowOf
<1>10. OnlyOrmStores'
    BY <1>1, <1>6 DEF OnlyOrmStores
<1>11. MessagesAreRows'
  <2>1. \A q \in 1 .. Len(topic) : topic[q] \in table
      BY DEF Pipeline, MessagesAreRows
  <2> QED BY <1>1, <1>4, <1>6, <2>1 DEF MessagesAreRows
<1>12. Reader'
    BY <1>2, <1>4, <1>6, ReaderKeeps
<1> QED BY <1>7, <1>8, <1>9, <1>10, <1>11, <1>12 DEF Pipeline

LEMMA AuditInv == ASSUME IInv, NEW p \in Posts, PostAudit(p) PROVE IInv'
<1> USE DEF IInv, PostAudit, Moves, store
<1>1. UNCHANGED <<version, now, shape, table, topic, got, stamp, reader>>
    OBVIOUS
<1>2. journal' \in {journal, journal \cup {stamp[p]}} /\ \E r \in table : r.ts = stamp[p]
    BY DEF Pipeline, StoredIsThere
<1>3. pc' \in [Runs \cup Posts -> Places] /\ \A d \in Runs \cup Posts : pc'[d] \in {pc[d], "audited", "error"}
    BY DEF Pipeline, PipelineTypes, Places
<1>4. PipelineTypes' /\ StampsAreUnique' /\ MessagesAreRows'
    BY <1>1, <1>3 DEF Pipeline, PipelineTypes, StampsAreUnique, MessagesAreRows
<1>5. StoredIsThere' /\ OnlyOrmStores'
    BY <1>1, <1>3 DEF Pipeline, StoredIsThere, OnlyOrmStores, RowOf
<1>6. JournalIsTrue'
    BY <1>1, <1>2 DEF Pipeline, JournalIsTrue
<1>7. Reader'
    BY <1>1, ReaderKeeps DEF Pipeline, PipelineTypes
<1> QED BY <1>4, <1>5, <1>6, <1>7 DEF Pipeline

-----------------------------------------------------------------------------
(* The consumer.                                                           *)

LEMMA SchemaInv == ASSUME IInv, EnsureSchema PROVE IInv'
<1> USE DEF IInv, EnsureSchema, callers
<1>1. Pipeline'
  <2> USE DEF Pipeline
  <2>1. shape' = IF shape = "absent" THEN "sql" ELSE shape
      BY DEF CreateTable
  <2>2. PipelineTypes' /\ StampsAreUnique'
      BY <2>1 DEF PipelineTypes, StampsAreUnique
  <2>3. StoredIsThere' /\ MessagesAreRows' /\ JournalIsTrue'
      BY DEF StoredIsThere, RowOf, MessagesAreRows, JournalIsTrue
  <2>4. OnlyOrmStores'
      BY <2>1 DEF OnlyOrmStores
  <2> QED BY <2>2, <2>3, <2>4
<1>2. Reader'
    BY DEF Reader, CommittedIsHandled
<1> QED BY <1>1, <1>2

LEMMA ConsumerInv ==
  ASSUME IInv, Join \/ Consume \/ AutoCommit \/ ConsumeFails \/ ConsumerStops \/ ConsumerDies
  PROVE  IInv'
<1> USE DEF IInv, store
<1>1. Len(topic) \in Nat
    BY DEF Pipeline, PipelineTypes
<1>2. table' = table
  <2>1. CASE (Consume \/ ConsumeFails) /\ UpsertMessage
    <3>1. position + 1 \in 1 .. Len(topic)
        BY <1>1, <2>1 DEF Reader, Consume, ConsumeFails
    <3> QED BY <2>1, <3>1, MessageIsThere DEF UpsertMessage
  <2>2. CASE ~((Consume \/ ConsumeFails) /\ UpsertMessage)
      BY <2>2 DEF Join, Consume, AutoCommit, ConsumeFails, ConsumerStops, ConsumerDies
  <2> QED BY <2>1, <2>2
<1>3. UNCHANGED <<version, now, shape, journal, callers, topic>>
    BY DEF Join, Consume, AutoCommit, ConsumeFails, ConsumerStops, ConsumerDies
<1>4. Pipeline'
    BY <1>2, <1>3, PipelineKeeps
<1>5. Reader'
  <2> USE <1>1 DEF Reader, CommittedIsHandled
  <2>1. CASE Join
      BY <2>1 DEF Join, StartOffset
  <2>2. CASE Consume
      BY <2>2 DEF Consume
  <2>3. CASE AutoCommit
      BY <2>3 DEF AutoCommit
  <2>4. CASE ConsumeFails
      BY <2>4 DEF ConsumeFails
  <2>5. CASE ConsumerStops
      BY <2>5 DEF ConsumerStops
  <2>6. CASE ConsumerDies
      BY <2>6 DEF ConsumerDies
  <2> QED BY <2>1, <2>2, <2>3, <2>4, <2>5, <2>6
<1> QED BY <1>4, <1>5

LEMMA NextInv == IInv /\ [Next]_vars => IInv'
<1> SUFFICES ASSUME IInv, [Next]_vars PROVE IInv'
    OBVIOUS
<1>1. ASSUME NEW r \in Runs, Run(r) PROVE IInv'
  <2>1. got[r] \in Nat
      BY DEF IInv, Pipeline, PipelineTypes
  <2>2. CASE Insert(r)
      BY <2>1, <2>2, InsertStores, StoresInv
  <2>3. CASE Publish(r) \/ PublishFails(r)
      BY <2>3, PublishInv
  <2>4. CASE Begin(r) \/ Pull(r)
      BY <2>4, QuietInv DEF QuietStep
  <2> QED BY <1>1, <2>2, <2>3, <2>4 DEF Run
<1>2. ASSUME NEW p \in Posts, Post(p) PROVE IInv'
  <2>1. CASE PostUpsert(p)
      BY <2>1, UpsertStores, StoresInv, ConstantTypes, CallersDiffer
  <2>2. CASE PostAudit(p)
      BY <2>2, AuditInv
  <2>3. CASE PostRead(p) \/ PostLtv(p)
      BY <2>3, QuietInv DEF QuietStep
  <2> QED BY <1>2, <2>1, <2>2, <2>3 DEF Post
<1>3. CASE FiguresChange \/ StartAggregator \/ AggregatorDies
    BY <1>3, QuietInv DEF QuietStep
<1>4. CASE UNCHANGED vars
  <2>1. Pipeline'
      BY <1>4, PipelineKeeps DEF IInv, vars, store, callers
  <2>2. Reader'
      BY <1>4, ReaderKeeps DEF IInv, Pipeline, PipelineTypes, vars
  <2> QED BY <2>1, <2>2 DEF IInv
<1> QED BY <1>1, <1>2, <1>3, <1>4, SchemaInv, ConsumerInv DEF Next

-----------------------------------------------------------------------------
(* What the readers of the table are told.                                 *)

Control ==
  /\ version \in 1 .. MaxVersion
  /\ faults \in 0 .. MaxFaults
  /\ unique \in BOOLEAN
  /\ aggregator \in {"down", "up"}
  /\ consumer \in {"down", "joining", "polling"}

\* No figure is ahead of the bank.
Figures ==
  /\ \A r \in table : r.ts >= 1 /\ (r.usd <= version \/ r.usd = Mock)
  /\ \A q \in Runs : got[q] <= version \/ got[q] = NotYet

Stamped == {c \in Runs \cup Posts : stamp[c] # 0}

\* The clock counts the stamps, and whoever has not stored has none.
Stamping ==
  /\ now = Cardinality(Stamped)
  /\ \A c \in Runs \cup Posts : stamp[c] <= now
  /\ \A c \in Runs \cup Posts : pc[c] \in {"idle", "pull", "read"} => stamp[c] = 0
  /\ began \in [Runs -> Nat] /\ \A q \in Runs : began[q] <= now

Offsets == handled \subseteq 1 .. Len(topic) /\ skipped \subseteq 1 .. Len(topic)

\* A run that has its figures has none that are older than what was in the
\* table when it began, and its row says what it has.
Freshness ==
  /\ \A q \in Runs : pc[q] = "idle" => got[q] = NotYet
  /\ \A q \in Runs, r \in table :
        got[q] \notin {NotYet, Zeros} /\ r.ts <= began[q] /\ r.usd # Mock => r.usd <= got[q]
  /\ \A q \in Runs, r \in table : r.ts = stamp[q] => r.usd = got[q]

Timeline == Control /\ Figures /\ Stamping /\ Offsets /\ Freshness

LEMMA TimelineInit == Init => Timeline
<1> SUFFICES ASSUME Init PROVE Timeline
    OBVIOUS
<1> USE ConstantTypes, SizesAreNaturals DEF Init
<1>1. Control
  <2>1. unique \in BOOLEAN
      OBVIOUS
  <2>2. /\ version \in 1 .. MaxVersion /\ faults \in 0 .. MaxFaults
        /\ aggregator \in {"down", "up"} /\ consumer \in {"down", "joining", "polling"}
      OBVIOUS
  <2> QED BY <2>1, <2>2 DEF Control
<1>2. Figures /\ Offsets
    BY DEF Figures, Offsets
<1>3. Stamping
  <2>1. Stamped = {}
      BY DEF Stamped
  <2> QED BY <2>1, FS_EmptySet DEF Stamping
<1>4. Freshness
    BY DEF Freshness
<1> QED BY <1>1, <1>2, <1>3, <1>4 DEF Timeline

LEMMA ControlStep == ASSUME Control, [Next]_vars PROVE Control'
<1> USE SizesAreNaturals DEF Control
<1>1. CASE FiguresChange \/ StartAggregator \/ AggregatorDies
    BY <1>1 DEF FiguresChange, StartAggregator, AggregatorDies, Fault, store, reader
<1>2. ASSUME NEW r \in Runs, Run(r) PROVE Control'
  <2>1. CASE Begin(r) \/ Pull(r)
      BY <2>1 DEF Begin, Pull, store, reader
  <2>2. CASE Insert(r) \/ Publish(r) \/ PublishFails(r)
      BY <2>2 DEF Insert, Publish, PublishFails, Fault, store, reader
  <2> QED BY <1>2, <2>1, <2>2 DEF Run
<1>3. ASSUME NEW p \in Posts, Post(p) PROVE Control'
    BY <1>3 DEF Post, PostRead, PostUpsert, PostAudit, PostLtv, Fault, store, reader
<1>4. CASE EnsureSchema \/ Join \/ Consume \/ AutoCommit
    BY <1>4 DEF EnsureSchema, AddUnique, Join, Consume, AutoCommit, store
<1>5. CASE ConsumeFails \/ ConsumerStops \/ ConsumerDies
    BY <1>5 DEF ConsumeFails, ConsumerStops, ConsumerDies, Fault, store
<1>6. CASE UNCHANGED vars
    BY <1>6 DEF vars, store, reader
<1> QED BY <1>1, <1>2, <1>3, <1>4, <1>5, <1>6 DEF Next

LEMMA OffsetsStep == ASSUME IInv, Offsets, [Next]_vars PROVE Offsets'
<1> USE DEF Offsets
<1>1. Len(topic) \in Nat /\ position \in Nat
    BY DEF IInv, Pipeline, PipelineTypes, Reader
<1>2. CASE Consume \/ ConsumeFails
  <2>1. position + 1 \in 1 .. Len(topic) /\ UNCHANGED topic
      BY <1>1, <1>2 DEF Consume, ConsumeFails
  <2>2. /\ handled' \subseteq handled \cup {position + 1}
        /\ skipped' \subseteq skipped \cup {position + 1}
      BY <1>2 DEF Consume, ConsumeFails
  <2> QED BY <2>1, <2>2
<1>3. ASSUME NEW r \in Runs, Publish(r) \/ PublishFails(r) PROVE Offsets'
  <2>1. RowOf(r) \in AnyRow /\ topic \in Seq(AnyRow)
      BY <1>3 DEF IInv, Pipeline, PipelineTypes, StoredIsThere, Publish, PublishFails, Moves
  <2>2. <<RowOf(r), RowOf(r)>> \in Seq(AnyRow) /\ Len(<<RowOf(r), RowOf(r)>>) = 2
      BY <2>1
  <2>3. Len(topic) <= Len(topic') /\ Len(topic') \in Nat
      BY <1>1, <1>3, <2>1, <2>2 DEF Publish, PublishFails
  <2>4. UNCHANGED <<handled, skipped>>
      BY <1>3 DEF Publish, PublishFails, reader
  <2> QED BY <1>1, <2>3, <2>4
<1>4. ASSUME NEW r \in Runs, Begin(r) \/ Pull(r) \/ Insert(r) PROVE Offsets'
    BY <1>4 DEF Begin, Pull, Insert, reader
<1>5. ASSUME NEW p \in Posts, Post(p) PROVE Offsets'
    BY <1>5 DEF Post, PostRead, PostUpsert, PostAudit, PostLtv, reader
<1>6. CASE \/ FiguresChange \/ StartAggregator \/ AggregatorDies \/ UNCHANGED vars
           \/ EnsureSchema \/ Join \/ AutoCommit \/ ConsumerStops \/ ConsumerDies
    BY <1>6 DEF FiguresChange, StartAggregator, AggregatorDies, EnsureSchema, Join, AutoCommit,
                ConsumerStops, ConsumerDies, vars, reader
<1> QED BY <1>2, <1>3, <1>4, <1>5, <1>6 DEF Next, Run

\* What a step is to the rows, the stamps and the figures pulled.
StoresRow(c, v) ==
  /\ Stores(c, v) /\ UNCHANGED began
  /\ pc[c] \in {"pull", "read"} /\ pc'[c] \notin {"idle", "pull", "read"}
  /\ c \in Runs => v = got[c] /\ v # NotYet
  /\ c \in Posts => v = Mock

LeavesRows ==
  /\ UNCHANGED <<table, now, stamp, got, began>>
  /\ version <= version'
  /\ \A c \in Runs \cup Posts :
        pc'[c] \in {"idle", "pull", "read"} => pc[c] \in {"idle", "pull", "read"}
  /\ \A r \in Runs : pc'[r] = "idle" => pc[r] = "idle"

LEMMA StepKinds ==
  ASSUME IInv, [Next]_vars
  PROVE  \/ \E c \in Runs \cup Posts, v \in Nat : StoresRow(c, v)
         \/ \E r \in Runs : Begin(r) \/ Pull(r)
         \/ LeavesRows
<1>0. version \in Nat /\ pc \in [Runs \cup Posts -> Places]
    BY DEF IInv, Pipeline, PipelineTypes
<1>1. ASSUME NEW r \in Runs, Insert(r) PROVE \E v \in Nat : StoresRow(r, v)
  <2>1. got[r] \in Nat /\ Stores(r, got[r])
      BY <1>1, InsertStores DEF IInv, Pipeline, PipelineTypes
  <2>2. StoresRow(r, got[r])
    <3>1. UNCHANGED began /\ got[r] # NotYet /\ pc[r] = "pull" /\ pc'[r] \in {"stored", "failed"}
        BY <1>0, <1>1 DEF Insert, Moves
    <3> QED BY <2>1, <3>1, CallersDiffer DEF StoresRow
  <2> QED BY <2>1, <2>2
<1>2. ASSUME NEW p \in Posts, PostUpsert(p) PROVE \E v \in Nat : StoresRow(p, v)
  <2>1. Stores(p, Mock)
      BY <1>2, UpsertStores
  <2>2. UNCHANGED began /\ pc[p] = "read" /\ pc'[p] \in {"stored", "error"}
      BY <1>0, <1>2 DEF PostUpsert, Moves
  <2>3. StoresRow(p, Mock)
      BY <2>1, <2>2, CallersDiffer DEF StoresRow
  <2> QED BY <2>3, ConstantTypes
<1>3. ASSUME NEW r \in Runs, Publish(r) \/ PublishFails(r) PROVE LeavesRows
    BY <1>0, <1>3 DEF Publish, PublishFails, Moves, LeavesRows, store
<1>4. ASSUME NEW p \in Posts, PostRead(p) \/ PostAudit(p) \/ PostLtv(p) PROVE LeavesRows
    BY <1>0, <1>4, CallersDiffer DEF PostRead, PostAudit, PostLtv, Moves, LeavesRows, store
<1>5. CASE FiguresChange \/ StartAggregator \/ AggregatorDies \/ UNCHANGED vars
    BY <1>0, <1>5 DEF FiguresChange, StartAggregator, AggregatorDies, vars, LeavesRows, store, callers
<1>6. CASE \/ EnsureSchema \/ Join \/ Consume \/ AutoCommit
           \/ ConsumeFails \/ ConsumerStops \/ ConsumerDies
  <2>1. table' = table
    <3>1. CASE (Consume \/ ConsumeFails) /\ UpsertMessage
      <4>1. position + 1 \in 1 .. Len(topic)
          BY <3>1 DEF IInv, Reader, Pipeline, PipelineTypes, Consume, ConsumeFails
      <4> QED BY <3>1, <4>1, MessageIsThere DEF UpsertMessage, IInv
    <3>2. CASE ~((Consume \/ ConsumeFails) /\ UpsertMessage)
        BY <1>6, <3>2 DEF EnsureSchema, Join, Consume, AutoCommit, ConsumeFails, ConsumerStops,
                          ConsumerDies, store
    <3> QED BY <3>1, <3>2
  <2>2. UNCHANGED <<version, now, pc, stamp, got, began>>
      BY <1>6 DEF EnsureSchema, Join, Consume, AutoCommit, ConsumeFails, ConsumerStops, ConsumerDies,
                  callers
  <2> QED BY <1>0, <2>1, <2>2 DEF LeavesRows
<1> QED BY <1>1, <1>2, <1>3, <1>4, <1>5, <1>6 DEF Next, Run, Post

\* A stamp is given.
LEMMA StoresTimeline ==
  ASSUME IInv, IInv', Control, Control', Figures, Stamping, Freshness,
         NEW c \in Runs \cup Posts, NEW v \in Nat, StoresRow(c, v)
  PROVE  Figures' /\ Stamping' /\ Freshness'
<1> DEFINE row == [ts |-> now + 1, usd |-> v]
<1>1. /\ now \in Nat /\ now' = now + 1 /\ version \in Nat /\ version' = version
      /\ got' = got /\ began' = began
      /\ stamp \in [Runs \cup Posts -> Nat] /\ stamp' = [stamp EXCEPT ![c] = now + 1]
      /\ table \subseteq AnyRow /\ got \in [Runs -> Nat]
    BY DEF IInv, Pipeline, PipelineTypes, StoresRow, Stores
<1>2. \A d \in Runs \cup Posts : d # c => pc'[d] = pc[d]
    BY DEF IInv, Pipeline, PipelineTypes, StoresRow, Stores
<1>3. /\ pc[c] \in {"pull", "read"} /\ pc'[c] \notin {"idle", "pull", "read"}
      /\ stamp[c] = 0
    BY DEF StoresRow, Stamping
<1>4. table' \subseteq table \cup {row} /\ table \subseteq table'
  <2>1. CASE UNCHANGED table
      BY <2>1
  <2>2. CASE table' = table \cup {row} \/ Upsert(row)
      BY <2>2, NewRow DEF IInv
  <2> QED BY <2>1, <2>2 DEF StoresRow, Stores
<1>5. /\ row.ts = now + 1 /\ row.usd = v
      /\ \A r \in table : r.ts <= now /\ r.ts \in Nat /\ r.usd \in Nat
    BY <1>1 DEF IInv, Pipeline, StampsAreUnique, AnyRow
<1>6. v <= version \/ v = Mock
    BY DEF StoresRow, Figures
<1> HIDE DEF row
<1>7. Figures'
    BY <1>1, <1>4, <1>5, <1>6 DEF Figures
<1>8. Stamping'
  <2>1. Stamped' = Stamped \cup {c} /\ c \notin Stamped
      BY <1>1, <1>3 DEF Stamped
  <2>2. IsFiniteSet(Stamped)
    <3>1. Stamped \subseteq Runs \cup Posts
        BY DEF Stamped
    <3> QED BY <3>1, CallersAreFinite, FS_Subset
  <2>3. now' = Cardinality(Stamped')
      BY <1>1, <2>1, <2>2, FS_AddElement DEF Stamping
  <2>4. \A d \in Runs \cup Posts : stamp'[d] <= now'
      BY <1>1 DEF Stamping
  <2>5. \A d \in Runs \cup Posts : pc'[d] \in {"idle", "pull", "read"} => stamp'[d] = 0
      BY <1>1, <1>2, <1>3 DEF Stamping
  <2>6. began' \in [Runs -> Nat] /\ \A q \in Runs : began'[q] <= now'
      BY <1>1 DEF Stamping
  <2> QED BY <2>3, <2>4, <2>5, <2>6 DEF Stamping
<1>9. Freshness'
  <2>1. \A q \in Runs : pc'[q] = "idle" => got'[q] = NotYet
      BY <1>1, <1>2, <1>3 DEF Freshness
  <2>2. \A q \in Runs, r \in table' :
           got'[q] \notin {NotYet, Zeros} /\ r.ts <= began'[q] /\ r.usd # Mock => r.usd <= got'[q]
    <3> SUFFICES ASSUME NEW q \in Runs, NEW r \in table', r.ts <= began[q] PROVE r \in table
        BY <1>1 DEF Freshness
    <3>1. began[q] \in Nat /\ began[q] <= now
        BY DEF Stamping
    <3> QED BY <1>1, <1>4, <1>5, <3>1
  <2>3. \A q \in Runs, r \in table' : r.ts = stamp'[q] => r.usd = got'[q]
    <3> SUFFICES ASSUME NEW q \in Runs, NEW r \in table', r.ts = stamp'[q] PROVE r.usd = got[q]
        BY <1>1
    <3>1. stamp[q] \in Nat /\ stamp[q] <= now /\ (q # c => stamp'[q] = stamp[q]) /\ (q = c => stamp'[q] = now + 1)
        BY <1>1 DEF Stamping
    <3>2. CASE q = c
      <4>1. r = row
          BY <1>1, <1>4, <1>5, <3>1, <3>2
      <4>2. v = got[q]
          BY <3>2 DEF StoresRow
      <4> QED BY <1>5, <4>1, <4>2
    <3>3. CASE q # c
      <4>1. r \in table
          BY <1>1, <1>4, <1>5, <3>1, <3>3
      <4> QED BY <3>1, <3>3, <4>1 DEF Freshness
    <3> QED BY <3>2, <3>3
  <2> QED BY <2>1, <2>2, <2>3 DEF Freshness
<1> QED BY <1>7, <1>8, <1>9

LEMMA LeavesTimeline ==
  ASSUME IInv, IInv', Control, Figures, Stamping, Freshness, LeavesRows
  PROVE  Figures' /\ Stamping' /\ Freshness'
<1> USE DEF LeavesRows
<1>1. version \in Nat /\ version' \in Nat /\ table \subseteq AnyRow /\ got \in [Runs -> Nat]
    BY DEF IInv, Pipeline, PipelineTypes
<1>2. Figures'
    BY <1>1 DEF Figures, AnyRow
<1>3. Stamping'
  <2>1. Stamped' = Stamped
      BY DEF Stamped
  <2> QED BY <2>1 DEF Stamping
<1>4. Freshness'
    BY DEF Freshness
<1> QED BY <1>2, <1>3, <1>4

LEMMA BeginTimeline ==
  ASSUME IInv, Control, Figures, Stamping, Freshness, NEW s \in Runs, Begin(s)
  PROVE  Figures' /\ Stamping' /\ Freshness'
<1>1. /\ version \in Nat /\ table \subseteq AnyRow /\ got \in [Runs -> Nat] /\ now \in Nat
      /\ pc \in [Runs \cup Posts -> Places]
    BY DEF IInv, Pipeline, PipelineTypes
<1>2. /\ UNCHANGED <<version, now, table, stamp, got>> /\ began' = [began EXCEPT ![s] = now]
      /\ pc[s] = "idle" /\ pc' = [pc EXCEPT ![s] = "pull"]
    BY DEF Begin, Moves, store
<1>3. Figures'
    BY <1>2 DEF Figures
<1>4. Stamping'
  <2>1. Stamped' = Stamped
      BY <1>2 DEF Stamped
  <2>2. \A d \in Runs \cup Posts : pc'[d] \in {"idle", "pull", "read"} => stamp'[d] = 0
      BY <1>1, <1>2 DEF Stamping
  <2>3. began' \in [Runs -> Nat] /\ \A q \in Runs : began'[q] <= now
      BY <1>1, <1>2 DEF Stamping
  <2> QED BY <1>2, <2>1, <2>2, <2>3 DEF Stamping
<1>5. Freshness'
  <2>1. \A q \in Runs : pc'[q] = "idle" => got'[q] = NotYet
      BY <1>1, <1>2 DEF Freshness
  <2>2. got[s] = NotYet /\ \A q \in Runs : q # s => began'[q] = began[q]
      BY <1>2 DEF Freshness, Stamping
  <2> QED BY <1>2, <2>1, <2>2 DEF Freshness
<1> QED BY <1>3, <1>4, <1>5

LEMMA PullTimeline ==
  ASSUME IInv, Control, Figures, Stamping, Freshness, NEW s \in Runs, Pull(s)
  PROVE  Figures' /\ Stamping' /\ Freshness'
<1>1. /\ version \in Nat /\ table \subseteq AnyRow /\ got \in [Runs -> Nat]
      /\ pc \in [Runs \cup Posts -> Places]
    BY DEF IInv, Pipeline, PipelineTypes
<1>2. /\ UNCHANGED <<version, now, table, stamp, began, pc>> /\ pc[s] = "pull"
      /\ \A q \in Runs : q # s => got'[q] = got[q]
      /\ got'[s] \in {version, Zeros}
    BY <1>1 DEF Pull, store
<1>3. Figures'
    BY <1>1, <1>2 DEF Figures, Zeros
<1>4. Stamping'
  <2>1. Stamped' = Stamped
      BY <1>2 DEF Stamped
  <2> QED BY <1>2, <2>1 DEF Stamping
<1>5. Freshness'
  <2>1. \A q \in Runs : pc'[q] = "idle" => got'[q] = NotYet
      BY <1>2 DEF Freshness
  <2>2. \A r \in table : r.usd = Mock \/ r.usd <= version
      BY DEF Figures
  <2>3. \A r \in table : r.ts # stamp[s]
    <3>1. stamp[s] = 0
        BY <1>2 DEF Stamping
    <3> QED BY <3>1 DEF Figures
  <2> QED BY <1>2, <2>1, <2>2, <2>3 DEF Freshness
<1> QED BY <1>3, <1>4, <1>5

LEMMA TimelineStep == ASSUME IInv, IInv', Timeline, [Next]_vars PROVE Timeline'
<1> USE DEF Timeline
<1>1. Control' /\ Offsets'
    BY ControlStep, OffsetsStep
<1>2. Figures' /\ Stamping' /\ Freshness'
    BY <1>1, StepKinds, StoresTimeline, LeavesTimeline, BeginTimeline, PullTimeline
<1> QED BY <1>1, <1>2

\* The newest row is there to be chosen, because no stamp is ahead of the clock.
LEMMA SummaryIsNewest ==
  ASSUME IInv, table # {} PROVE Summary \in table /\ \A r \in table : r.ts <= Summary.ts
<1>1. table \subseteq AnyRow /\ now \in Nat /\ \A r \in table : r.ts <= now
    BY DEF IInv, Pipeline, PipelineTypes, StampsAreUnique
<1> DEFINE P == {n \in Nat : \E r \in table : n = now - r.ts}
           R == {p \in Nat \X Nat : p[1] < p[2]}
<1>2. P \subseteq Nat /\ P # {}
  <2>1. PICK r \in table : now - r.ts \in Nat
      BY <1>1 DEF AnyRow
  <2> QED BY <2>1
<1>3. PICK n \in P : \A m \in P : n <= m
  <2>1. IsWellFoundedOn(R, Nat)
      BY NatLessThanWellFounded DEF OpToRel
  <2>2. PICK n \in P : \A m \in P : ~ (<<m, n>> \in R)
    <3> HIDE DEF P, R
    <3> QED BY <1>2, <2>1, WFMin
  <2>3. \A m \in P : n <= m
    <3> SUFFICES ASSUME NEW m \in P PROVE n <= m
        OBVIOUS
    <3>1. ~ (<<m, n>> \in R) /\ m \in Nat /\ n \in Nat
        BY <1>2, <2>2
    <3> HIDE DEF P
    <3> QED BY <3>1
  <2> QED BY <2>3
<1>4. \E r \in table : \A q \in table : q.ts <= r.ts
  <2>1. PICK r \in table : n = now - r.ts
      BY <1>3
  <2> SUFFICES ASSUME NEW q \in table PROVE q.ts <= r.ts
      BY <2>1
  <2>2. now - q.ts \in P /\ r.ts \in Nat /\ q.ts \in Nat
      BY <1>1 DEF AnyRow
  <2> QED BY <1>1, <1>3, <2>1, <2>2
<1> QED BY <1>4 DEF Summary

-----------------------------------------------------------------------------
(* The theorems.                                                           *)

\* The inductive invariant holds of every reachable state.
THEOREM Invariance == Spec => []IInv
  BY InitInv, NextInv, PTL DEF Spec

\* A message says what the table says under its stamp, whatever was delivered
\* twice, late or after a restart.
THEOREM MessagesAgree == Spec => []MessagesAreRows
<1>1. IInv => MessagesAreRows
    BY DEF IInv, Pipeline
<1> QED BY <1>1, Invariance, PTL

\* Kills and restarts of the consumer pass over no message: the offset passes
\* only what was upserted, or what a failing upsert took with it.
THEOREM OffsetsAreHandled == Spec => []CommittedIsHandled
<1>1. IInv => CommittedIsHandled
    BY DEF IInv, Reader
<1> QED BY <1>1, Invariance, PTL

\* Where the consumer came first, its table without an id column takes nothing,
\* and nothing is ever published (db.py:43-45, kafka_consumer.py:161-177).
THEOREM NothingIsStored == Spec => []NothingWithoutId
<1>1. IInv => NothingWithoutId
    BY DEF IInv, Pipeline, OnlyOrmStores, NothingWithoutId
<1> QED BY <1>1, Invariance, PTL

\* The audit journal names only snapshots that are in the table, although the
\* two are written in two transactions (db.py:86-117).
THEOREM JournalAgrees == Spec => []JournalIsTrue
<1>1. IInv => JournalIsTrue
    BY DEF IInv, Pipeline
<1> QED BY <1>1, Invariance, PTL

\* The table implements SnapshotLedger: every step adds one row under a new
\* stamp or leaves the table as it is.
THEOREM Refinement == Spec => ImplementsLedger
<1>1. Init => Ledger!Init
    BY DEF Init, Ledger!Init
<1>2. ASSUME IInv, [Next]_vars PROVE [Ledger!Next]_table
  <2>1. ASSUME NEW c, NEW v \in Nat, Stores(c, v) PROVE Ledger!Next \/ UNCHANGED table
    <3>1. CASE UNCHANGED table
        BY <3>1
    <3>2. CASE \/ table' = table \cup {[ts |-> now + 1, usd |-> v]}
               \/ Upsert([ts |-> now + 1, usd |-> v])
      <4> DEFINE row == [ts |-> now + 1, usd |-> v]
      <4>1. /\ table' = table \cup {row} /\ row.ts = now + 1
            /\ \A r \in table : r.ts # now + 1
          BY <1>2, <3>2, NewRow DEF IInv
      <4>2. row \in table' \ table
          BY <4>1
      <4>3. Ledger!Record(row)
          BY <4>1 DEF Ledger!Record
      <4> QED BY <4>2, <4>3 DEF Ledger!Next
    <3> QED BY <2>1, <3>1, <3>2 DEF Stores
  <2>2. ASSUME NEW r \in Runs, Run(r) PROVE Ledger!Next \/ UNCHANGED table
    <3>1. CASE Insert(r)
      <4>1. got[r] \in Nat
          BY <1>2 DEF IInv, Pipeline, PipelineTypes
      <4> QED BY <1>2, <2>1, <3>1, <4>1, InsertStores
    <3>2. CASE ~Insert(r)
        BY <2>2, <3>2 DEF Run, Begin, Pull, Publish, PublishFails, store
    <3> QED BY <3>1, <3>2
  <2>3. ASSUME NEW p \in Posts, Post(p) PROVE Ledger!Next \/ UNCHANGED table
    <3>1. CASE PostUpsert(p)
        BY <1>2, <2>1, <3>1, UpsertStores, ConstantTypes
    <3>2. CASE ~PostUpsert(p)
        BY <2>3, <3>2 DEF Post, PostRead, PostAudit, PostLtv, store
    <3> QED BY <3>1, <3>2
  <2>4. CASE (Consume \/ ConsumeFails) /\ UpsertMessage
    <3>1. position + 1 \in 1 .. Len(topic)
        BY <1>2, <2>4 DEF IInv, Reader, Pipeline, PipelineTypes, Consume, ConsumeFails
    <3> QED BY <1>2, <2>4, <3>1, MessageIsThere DEF UpsertMessage, IInv
  <2>5. CASE (\/ FiguresChange \/ StartAggregator \/ AggregatorDies \/ UNCHANGED vars
              \/ EnsureSchema \/ Join \/ AutoCommit \/ ConsumerStops \/ ConsumerDies
              \/ ConsumeFails /\ UNCHANGED table)
      BY <2>5 DEF FiguresChange, StartAggregator, AggregatorDies, EnsureSchema, Join, AutoCommit,
                  ConsumerStops, ConsumerDies, vars, store
  <2> QED BY <1>2, <2>2, <2>3, <2>4, <2>5 DEF Next, Consume, ConsumeFails
<1> QED BY <1>1, <1>2, Invariance, PTL DEF Spec, ImplementsLedger, Ledger!Spec

\* The clock, the stamps and the figures keep their history.
THEOREM TimelineHolds == Spec => []Timeline
<1>1. IInv /\ IInv' /\ Timeline /\ [Next]_vars => Timeline'
    BY TimelineStep
<1> QED BY <1>1, TimelineInit, Invariance, PTL DEF Spec

\* Every variable has its type; rows, messages and the journal carry stamps
\* that were given.
THEOREM TypeCorrect == Spec => []TypeOK
<1>1. IInv /\ Timeline => TypeOK
  <2> SUFFICES ASSUME IInv, Timeline PROVE TypeOK
      OBVIOUS
  <2> USE DEF IInv, Pipeline, PipelineTypes, Reader, Timeline
  <2>1. now \in 0 .. Cardinality(Runs \cup Posts)
    <3>1. Stamped \subseteq Runs \cup Posts
        BY DEF Stamped
    <3>2. Cardinality(Stamped) <= Cardinality(Runs \cup Posts) /\ Cardinality(Runs \cup Posts) \in Nat
        BY <3>1, CallersAreFinite, FS_Subset, FS_CardinalityType
    <3> QED BY <3>2 DEF Stamping
  <2>2. table \subseteq Row
    <3> SUFFICES ASSUME NEW r \in table PROVE r \in Row
        OBVIOUS
    <3>1. r \in AnyRow /\ r.ts \in 1 .. now /\ r.ts \in Nat
        BY DEF StampsAreUnique, Figures, AnyRow
    <3>2. r.usd \in 0 .. Mock
      <4>1. r.usd \in Nat /\ (r.usd <= version \/ r.usd = Mock)
          BY DEF Figures, AnyRow
      <4>2. version \in Nat /\ version <= Mock /\ Mock \in Nat
          BY SizesAreNaturals DEF Control, Mock
      <4> QED BY <4>1, <4>2
    <3>3. r.ts \in 1 .. Cardinality(Runs \cup Posts)
        BY <2>1, <3>1, CallersAreFinite, FS_CardinalityType
    <3> QED BY <3>1, <3>2, <3>3 DEF AnyRow, Row
  <2>3. journal \subseteq 1 .. now
      BY DEF JournalIsTrue, StampsAreUnique, Figures, AnyRow
  <2>4. got \in [Runs -> 0 .. NotYet]
    <3>1. \A q \in Runs : got[q] \in 0 .. NotYet
        BY SizesAreNaturals DEF Figures, Control, NotYet
    <3> QED BY <3>1
  <2>5. stamp \in [Runs \cup Posts -> 0 .. now] /\ began \in [Runs -> 0 .. now]
      BY DEF Stamping
  <2>6. topic \in Seq(Row)
      BY <2>2 DEF MessagesAreRows
  <2> QED BY <2>1, <2>2, <2>3, <2>4, <2>5, <2>6 DEF TypeOK, Control, Offsets, Places
<1> QED BY <1>1, Invariance, TimelineHolds, PTL

\* The newest row answers figures no older than any row that was stored before
\* its run began, although runs overlap and each is stamped after its pulls.
THEOREM SummariesAreFresh == Spec => []SummaryIsFresh
<1>1. IInv /\ Timeline => SummaryIsFresh
  <2> SUFFICES ASSUME IInv, Timeline, NEW q \in Runs, table # {}, stamp[q] = Summary.ts,
                      NEW r \in table, r.ts <= began[q], r.usd # Mock, Summary.usd # Zeros
               PROVE  r.usd <= Summary.usd
      BY DEF SummaryIsFresh
  <2>1. Summary \in table
      BY SummaryIsNewest
  <2>2. Summary.usd = got[q]
      BY <2>1 DEF Timeline, Freshness
  <2>3. CASE got[q] # NotYet
      BY <2>2, <2>3 DEF Timeline, Freshness
  <2>4. CASE got[q] = NotYet
    <3>1. r.usd <= version /\ version <= MaxVersion /\ r.usd \in Nat /\ version \in Nat
        BY DEF Timeline, Figures, Control, IInv, Pipeline, PipelineTypes, AnyRow
    <3> QED BY <2>2, <2>4, <3>1, SizesAreNaturals DEF NotYet
  <2> QED BY <2>3, <2>4
<1> QED BY <1>1, Invariance, TimelineHolds, PTL

-----------------------------------------------------------------------------
(* The liquidity policy.                                                   *)

\* Rounding to cents is off by half a cent at most, either way.
LEMMA RoundedIsNear ==
  ASSUME NEW x \in Nat, NEW c \in Rounded(x)
  PROVE  c \in Int /\ c * Cent <= x + Cent \div 2 /\ x <= c * Cent + Cent \div 2
<1>1. Cent = 100000 /\ Cent \div 2 = 50000
    BY DEF Cent, Part
<1>2. c \in Int /\ 2 * (x - c * 100000) <= 100000 /\ 2 * (c * 100000 - x) <= 100000
    BY <1>1 DEF Rounded
<1> QED BY <1>1, <1>2

\* There is always a nearest cent, so that every evaluation has an answer.
LEMMA RoundedExists == ASSUME NEW x \in Nat PROVE Rounded(x) # {}
<1>1. Cent = 100000
    BY DEF Cent, Part
<1> DEFINE q == x \div 100000
<1>2. q \in Int /\ q * 100000 <= x /\ x < q * 100000 + 100000
    OBVIOUS
<1>3. \/ 2 * (x - q * 100000) <= 100000 /\ 2 * (q * 100000 - x) <= 100000
      \/ 2 * (x - (q + 1) * 100000) <= 100000 /\ 2 * ((q + 1) * 100000 - x) <= 100000
  <2> HIDE DEF q
  <2> QED BY <1>2
<1> HIDE DEF q
<1>4. x \div Cent = q
    BY <1>1 DEF q
<1>5. Rounded(x) = {c \in {q, q + 1} : 2 * (x - c * 100000) <= 100000 /\ 2 * (c * 100000 - x) <= 100000}
    BY <1>1, <1>4 DEF Rounded
<1>6. q \in Rounded(x) \/ q + 1 \in Rounded(x)
    BY <1>3, <1>5
<1> QED BY <1>6

\* An answer that allows a draw has checked it against cap and buffer before it
\* rounded it.
LEMMA AllowedFits ==
  ASSUME NEW cash \in Nat, NEW draw \in Nat, NEW bps \in Nat, NEW buffer \in Int, NEW holiday,
         NEW allowed \in Allowed(draw, Reasons(cash, draw, bps, buffer, holiday))
  PROVE  \/ allowed = 0
         \/ /\ cash - 10 * allowed >= 10 * buffer - 5
            /\ allowed * Cent <= cash * bps + Cent \div 2
<1> DEFINE reasons == Reasons(cash, draw, bps, buffer, holiday)
<1>1. CASE reasons # {}
    BY <1>1 DEF Allowed
<1>2. CASE reasons = {}
  <2>1. ~(cash - draw < 10 * buffer) /\ ~(draw * Part > cash * bps)
      BY <1>2 DEF Reasons
  <2>2. draw * Part \in Nat /\ draw * Part = 10000 * draw
      BY DEF Part
  <2>3. allowed \in Int /\ allowed * 100000 <= 10000 * draw + 50000
    <3>1. allowed \in Rounded(draw * Part)
        BY <1>2 DEF Allowed
    <3>2. allowed \in Int /\ allowed * Cent <= draw * Part + Cent \div 2
        BY <2>2, <3>1, RoundedIsNear
    <3>3. Cent = 100000 /\ Cent \div 2 = 50000
        BY DEF Cent, Part
    <3> QED BY <2>2, <3>2, <3>3
  <2>4. cash - 10 * allowed >= 10 * buffer - 5
      BY <2>1, <2>3
  <2>5. allowed * Cent <= cash * bps + Cent \div 2
    <3> DEFINE product == cash * bps
    <3>1. product \in Nat /\ 10000 * draw <= product
        BY <2>1, <2>2
    <3>2. Cent = 100000 /\ Cent \div 2 = 50000
        BY DEF Cent, Part
    <3> HIDE DEF product
    <3>3. allowed * 100000 <= product + 50000
        BY <2>3, <3>1
    <3> QED BY <3>2, <3>3 DEF product
  <2> QED BY <2>4, <2>5
<1> QED BY <1>1, <1>2

\* The answer to an evaluation does, whatever was answered before.
LEMMA EvaluateKeepsBuffer ==
  ASSUME NEW cash \in Cash, NEW draw \in Draws, NEW minBps \in Bps, NEW maxBps \in Bps,
         NEW holiday \in BOOLEAN, Evaluate(cash, draw, minBps, maxBps, holiday)
  PROVE  AllowedKeepsBuffer'
<1>1. cash \in Nat /\ draw \in Nat /\ minBps \in Nat /\ maxBps \in Nat
  <2>1. cash \in Nat /\ draw \in Nat
      BY AmountsAreNaturals
  <2>2. minBps \in 0 .. 10000 /\ maxBps \in 0 .. 10000
      BY BpsAreParts
  <2> QED BY <2>1, <2>2
<1>2. PICK buffer \in Buffer(cash, minBps) :
        \E allowed \in Allowed(draw, Reasons(cash, draw, maxBps, buffer, holiday)) :
          answer' = [kind |-> "evaluated", cash |-> cash, draw |-> draw, min |-> minBps,
                     max |-> maxBps, buffer |-> buffer,
                     reasons |-> Reasons(cash, draw, maxBps, buffer, holiday),
                     allowed |-> allowed]
    BY DEF Evaluate
<1> DEFINE reasons == Reasons(cash, draw, maxBps, buffer, holiday)
<1>3. buffer \in Int
  <2>1. cash * minBps \in Nat
      BY <1>1
  <2> QED BY <2>1, RoundedIsNear DEF Buffer
<1>4. PICK allowed \in Allowed(draw, reasons) :
        answer' = [kind |-> "evaluated", cash |-> cash, draw |-> draw, min |-> minBps,
                   max |-> maxBps, buffer |-> buffer, reasons |-> reasons, allowed |-> allowed]
    BY <1>2
<1>5. \/ allowed = 0
      \/ /\ cash - 10 * allowed >= 10 * buffer - 5
         /\ allowed * Cent <= cash * maxBps + Cent \div 2
    BY <1>1, <1>3, <1>4, AllowedFits
<1>6. /\ answer'.allowed = allowed /\ answer'.cash = cash
      /\ answer'.buffer = buffer /\ answer'.max = maxBps
    BY <1>4
<1> HIDE DEF reasons
<1> QED BY <1>5, <1>6 DEF AllowedKeepsBuffer

\* For all amounts and policies, what an answer allows leaves the buffer it
\* names and stays within the cap, to half a cent (policy.py:57-59, 103-119).
THEOREM BufferIsKept == PolicySpec => []AllowedKeepsBuffer
<1>1. PolicyInit => AllowedKeepsBuffer
    BY DEF PolicyInit, AllowedKeepsBuffer, None
<1>2. AllowedKeepsBuffer /\ [PolicyNext]_policyVars => AllowedKeepsBuffer'
  <2> SUFFICES ASSUME AllowedKeepsBuffer, [PolicyNext]_policyVars PROVE AllowedKeepsBuffer'
      OBVIOUS
  <2>1. CASE BadDate
      BY <2>1 DEF BadDate, AllowedKeepsBuffer, None
  <2>2. CASE Bridge
      BY <2>2 DEF Bridge, AllowedKeepsBuffer
  <2>3. CASE \E ok \in BOOLEAN : PublishPosition(ok)
      BY <2>3 DEF PublishPosition, AllowedKeepsBuffer
  <2>4. CASE UNCHANGED policyVars
      BY <2>4 DEF policyVars, AllowedKeepsBuffer
  <2> QED BY <2>1, <2>2, <2>3, <2>4, EvaluateKeepsBuffer DEF PolicyNext
<1> QED BY <1>1, <1>2, PTL DEF PolicySpec

-----------------------------------------------------------------------------
(* Types.                                                                  *)

LEMMA RoundedIsNat == ASSUME NEW x \in Nat, NEW c \in Rounded(x) PROVE c \in Nat
<1>1. Cent = 100000
    BY DEF Cent, Part
<1>2. c \in {x \div 100000, x \div 100000 + 1}
    BY <1>1 DEF Rounded
<1> QED BY <1>2

LEMMA EvaluateType ==
  ASSUME PolicyTypeOK, NEW cash \in Cash, NEW draw \in Draws, NEW minBps \in Bps, NEW maxBps \in Bps,
         NEW holiday \in BOOLEAN, Evaluate(cash, draw, minBps, maxBps, holiday)
  PROVE  PolicyTypeOK'
<1>1. cash * minBps \in Nat /\ draw * Part \in Nat
  <2>1. cash \in Nat /\ draw \in Nat
      BY AmountsAreNaturals
  <2>2. minBps \in 0 .. 10000
      BY BpsAreParts
  <2> QED BY <2>1, <2>2 DEF Part
<1>2. PICK buffer \in Buffer(cash, minBps), reasons \in SUBSET Rules :
        /\ reasons = Reasons(cash, draw, maxBps, buffer, holiday)
        /\ \E allowed \in Allowed(draw, reasons) :
             answer' = [kind |-> "evaluated", cash |-> cash, draw |-> draw, min |-> minBps,
                        max |-> maxBps, buffer |-> buffer, reasons |-> reasons, allowed |-> allowed]
        /\ gauge' = buffer
        /\ Count(reasons)
  <2>1. \A buffer : Reasons(cash, draw, maxBps, buffer, holiday) \in SUBSET Rules
      BY DEF Reasons, Rules
  <2> QED BY <2>1 DEF Evaluate
<1>3. PICK allowed \in Allowed(draw, reasons) :
        answer' = [kind |-> "evaluated", cash |-> cash, draw |-> draw, min |-> minBps,
                   max |-> maxBps, buffer |-> buffer, reasons |-> reasons, allowed |-> allowed]
    BY <1>2
<1>4. buffer \in Nat
    BY <1>1, RoundedIsNat DEF Buffer
<1>5. allowed \in Nat
    BY <1>1, RoundedIsNat DEF Allowed
<1>6. /\ answer'.kind = "evaluated" /\ answer'.cash \in Cash /\ answer'.draw \in Draws
      /\ answer'.buffer \in Nat /\ answer'.allowed \in Nat /\ answer'.reasons \subseteq Rules
    BY <1>3, <1>4, <1>5
<1>7. violations' \in [Rules -> Nat]
    BY <1>2 DEF PolicyTypeOK, Count
<1>8. gauge' \in Nat
    BY <1>2, <1>4 DEF PolicyTypeOK
<1>9. calls' \in 0 .. MaxCalls /\ UNCHANGED <<published, circuit, dry, halfway>>
    BY CallsAreBounded DEF Evaluate, Called, PolicyTypeOK
<1> QED BY <1>6, <1>7, <1>8, <1>9 DEF PolicyTypeOK

LEMMA BridgeType == ASSUME PolicyTypeOK, Bridge PROVE PolicyTypeOK'
<1>1. \A label \in Results : [published EXCEPT ![label] = @ + 1] \in [Results -> Nat]
    BY DEF PolicyTypeOK
<1>2. published' \in [Results -> Nat]
    BY <1>1 DEF Bridge, Results
<1>3. halfway' \in [BOOLEAN -> Nat]
    BY DEF Bridge, PolicyTypeOK
<1>4. calls' \in 0 .. MaxCalls
    BY CallsAreBounded DEF Bridge, Called, PolicyTypeOK
<1> QED BY <1>2, <1>3, <1>4 DEF Bridge, PolicyTypeOK

LEMMA PublishPositionType ==
  ASSUME PolicyTypeOK, NEW ok \in BOOLEAN, PublishPosition(ok) PROVE PolicyTypeOK'
<1>1. published' \in [Results -> Nat]
    BY DEF PublishPosition, PolicyTypeOK, Results
<1>2. halfway' \in [BOOLEAN -> Nat]
  <2>1. halfway[ok] - 1 \in Nat
      BY DEF PublishPosition, PolicyTypeOK
  <2> QED BY <2>1 DEF PublishPosition, PolicyTypeOK
<1> QED BY <1>1, <1>2 DEF PublishPosition, PolicyTypeOK

\* Every variable keeps its type: rounding never leaves the natural numbers.
THEOREM PolicyTypeCorrect == PolicySpec => []PolicyTypeOK
<1>1. PolicyInit => PolicyTypeOK
    BY CallsAreBounded DEF PolicyInit, PolicyTypeOK
<1>2. PolicyTypeOK /\ [PolicyNext]_policyVars => PolicyTypeOK'
  <2> SUFFICES ASSUME PolicyTypeOK, [PolicyNext]_policyVars PROVE PolicyTypeOK'
      OBVIOUS
  <2>1. CASE BadDate
      BY <2>1, CallsAreBounded DEF BadDate, Called, PolicyTypeOK
  <2>2. CASE UNCHANGED policyVars
      BY <2>2 DEF policyVars, PolicyTypeOK
  <2> QED BY <2>1, <2>2, EvaluateType, BridgeType, PublishPositionType DEF PolicyNext
<1> QED BY <1>1, <1>2, PTL DEF PolicySpec
=============================================================================
