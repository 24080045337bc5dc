---------------------------- MODULE AuditExport ----------------------------
(***************************************************************************)
(* The audit exporter (credit_facility/audit_exporter.py) and the restore  *)
(* script (scripts/restore_audit_from_ndjson.py) over the table            *)
(* credit_audit_journal.                                                   *)
(*                                                                         *)
(* Services append rows.  Exporter runs (the CronJob, or an operator at    *)
(* the command line) lock a batch of rows with FOR UPDATE SKIP LOCKED,     *)
(* write it to a file that appears by an atomic rename, and mark the rows  *)
(* in the transaction that holds the locks.  A run can die in between.     *)
(* The CronJob's runs write to an emptyDir, which goes with the pod; an    *)
(* operator's --out-dir, and the persistent volume of the runbook, last.   *)
(***************************************************************************)
EXTENDS Naturals, Sequences, FiniteSets

CONSTANTS MaxRow,         \* rows 1 .. MaxRow, numbered by event_ts
          Exporters,      \* export runs that may overlap
          DryExporters,   \* those started with --dry-run
          Pods,           \* those that write to their pod's emptyDir
          BatchSize,      \* AUDIT_EXPORT_BATCH
          MaxFailures     \* bound on failed writes, commits and dead runs

ASSUME ConstantsAssumption ==
    /\ MaxRow \in Nat
    /\ DryExporters \subseteq Exporters
    /\ Pods \subseteq Exporters
    /\ BatchSize \in Nat \ {0}
    /\ MaxFailures \in Nat

Rows == 1 .. MaxRow

VARIABLES row,        \* what became of every row
          horizon,    \* rows up to this event_ts are older than the cutoff
          stage,      \* where each export run stands
          batch,      \* the rows each export run has locked
          files,      \* every export file ever written: its rows, and by which run
          gone,       \* the files that were deleted with their pods
          failures    \* failures so far

vars == <<row, horizon, stage, batch, files, gone, failures>>

Files == [rows : SUBSET Rows, by : Exporters]

TypeOK ==
    /\ row \in [Rows -> {"absent", "open", "exported", "deleted"}]
    /\ horizon \in 0 .. MaxRow
    /\ stage \in [Exporters -> {"idle", "selected", "written"}]
    /\ batch \in [Exporters -> SUBSET Rows]
    /\ files \in Seq(Files)
    /\ gone \in SUBSET (1 .. Len(files))
    /\ failures \in 0 .. MaxFailures

Init ==
    /\ row = [r \in Rows |-> "absent"]
    /\ horizon = 0
    /\ stage = [e \in Exporters |-> "idle"]
    /\ batch = [e \in Exporters |-> {}]
    /\ files = <<>>
    /\ gone = {}
    /\ failures = 0

In(states) == {r \in Rows : row[r] \in states}

Mark(S, state) == row' = [r \in Rows |-> IF r \in S THEN state ELSE row[r]]

\* The rows in some of the files i, and those that a file was ever written of.
RowsIn(S) == {r \in Rows : \E i \in S : r \in files[i].rows}
Written == RowsIn(DOMAIN files)

\* The files that are there, on a pod's volume and on storage that lasts.
OnPods == {i \in DOMAIN files : i \notin gone /\ files[i].by \in Pods}
OnStorage == {i \in DOMAIN files : i \notin gone /\ files[i].by \notin Pods}

-----------------------------------------------------------------------------
(* Services and time.                                                      *)

\* log_audit stamps the row when it is built and the caller commits it later,
\* so rows may appear out of the order of their event_ts.
Record(r) ==
    /\ row[r] = "absent"
    /\ Mark({r}, "open")
    /\ UNCHANGED <<horizon, stage, batch, files, gone, failures>>

Tick ==
    /\ horizon < MaxRow
    /\ horizon' = horizon + 1
    /\ UNCHANGED <<row, stage, batch, files, gone, failures>>

-----------------------------------------------------------------------------
(* The exporter.                                                           *)

Locked == UNION {batch[e] : e \in Exporters}

\* Mutants: the rows are not locked; a watermark replaces exported_at IS NULL.
EligibleUnlocked == {r \in In({"open"}) : r <= horizon}
EligibleWatermark ==
    {r \in In({"open"}) \ Locked : r <= horizon /\ \A q \in In({"exported", "deleted"}) : q < r}

\* Committed, not exported, past the cutoff and not locked by another run.
Eligible == {r \in In({"open"}) \ Locked : r <= horizon}

\* The oldest BatchSize eligible rows: order_by(event_ts).limit(batch_size).
Oldest(S) == {r \in S : Cardinality({q \in S : q < r}) < BatchSize}

SelectRows(e) ==
    /\ stage[e] = "idle"
    /\ Eligible # {}
    /\ batch' = [batch EXCEPT ![e] = Oldest(Eligible)]
    /\ stage' = [stage EXCEPT ![e] = "selected"]
    /\ UNCHANGED <<row, horizon, files, gone, failures>>

\* A dry run writes no file; it goes on all the same.
WriteFile(e) ==
    /\ stage[e] = "selected"
    /\ files' = IF e \in DryExporters THEN files ELSE Append(files, [rows |-> batch[e], by |-> e])
    /\ stage' = [stage EXCEPT ![e] = "written"]
    /\ UNCHANGED <<row, horizon, batch, gone, failures>>

\* Mutant: the rows may be marked before the file is there.
MarkExportedEarly(e) ==
    /\ stage[e] \in {"selected", "written"}
    /\ Mark(batch[e], "exported")
    /\ stage' = [stage EXCEPT ![e] = "idle"]
    /\ batch' = [batch EXCEPT ![e] = {}]
    /\ UNCHANGED <<horizon, files, gone, failures>>

MarkExported(e) ==
    /\ stage[e] = "written"
    /\ Mark(batch[e], "exported")
    /\ stage' = [stage EXCEPT ![e] = "idle"]
    /\ batch' = [batch EXCEPT ![e] = {}]
    /\ UNCHANGED <<horizon, files, gone, failures>>

\* Writing raises, the commit raises or the run is killed: the transaction is
\* rolled back and its locks are free, but a file already renamed stays.
Abort(e) ==
    /\ stage[e] # "idle"
    /\ failures < MaxFailures
    /\ failures' = failures + 1
    /\ stage' = [stage EXCEPT ![e] = "idle"]
    /\ batch' = [batch EXCEPT ![e] = {}]
    /\ UNCHANGED <<row, horizon, files, gone>>

\* Mutant: the sweep deletes rows that were never exported.
RetentionSweepAll ==
    /\ In({"exported"}) # {}
    /\ Mark(In({"open", "exported"}), "deleted")
    /\ UNCHANGED <<horizon, stage, batch, files, gone, failures>>

\* The DELETE has no cutoff: every row whose exported_at is set goes.
RetentionSweep ==
    /\ In({"exported"}) # {}
    /\ Mark(In({"exported"}), "deleted")
    /\ UNCHANGED <<horizon, stage, batch, files, gone, failures>>

\* Mutant: the runs share a volume.
PodDeletedAll(e) ==
    /\ e \in Pods /\ stage[e] = "idle"
    /\ \E i \in OnPods : files[i].by = e
    /\ gone' = DOMAIN files
    /\ UNCHANGED <<row, horizon, stage, batch, files, failures>>

\* A run's pod, finished or failed, is deleted with its volume: the Job is older
\* than the history the CronJob keeps.
PodDeleted(e) ==
    /\ e \in Pods /\ stage[e] = "idle"
    /\ \E i \in OnPods : files[i].by = e
    /\ gone' = gone \cup {i \in OnPods : files[i].by = e}
    /\ UNCHANGED <<row, horizon, stage, batch, files, failures>>

-----------------------------------------------------------------------------
(* The restore script.                                                     *)

\* Keys of a line as _export_one_batch writes it, bind parameters of ingest.
ExportedKeys == {"_v", "export_id", "journal_id", "ts", "bank_id", "action", "entity_type",
                 "entity_id", "actor", "payload", "error_code", "error_class", "error_msg"}
BoundNames == {"id", "created_at", "event_ts", "action", "entity_type",
               "entity_id", "actor", "payload", "error_code", "error_class", "error_msg"}

\* A parameter without a value raises, and the transaction is rolled back;
\* otherwise the rows the table does not have are inserted, not yet exported.
Restore(i) ==
    /\ i \in OnPods \cup OnStorage
    /\ IF BoundNames \subseteq ExportedKeys
       THEN Mark(files[i].rows \cap In({"absent", "deleted"}), "open")
       ELSE UNCHANGED row
    /\ UNCHANGED <<horizon, stage, batch, files, gone, failures>>

-----------------------------------------------------------------------------
ExportStep(e) == SelectRows(e) \/ WriteFile(e) \/ MarkExported(e)

Next ==
    \/ \E r \in Rows : Record(r)
    \/ \E e \in Exporters : ExportStep(e) \/ Abort(e) \/ PodDeleted(e)
    \/ \E i \in DOMAIN files : Restore(i)
    \/ Tick
    \/ RetentionSweep

Spec == Init /\ [][Next]_vars

\* The CronJob starts a run every five minutes and time passes.
FairSpec == Spec /\ WF_vars(Tick) /\ \A e \in Exporters : WF_vars(ExportStep(e))

-----------------------------------------------------------------------------
(* Properties.                                                             *)

\* docs/runbooks/audit_backup_and_restore.md:4, "at-least-once export": a row is
\* marked exported, and deleted, only after a file was written that holds it.
AtLeastOnce == In({"exported", "deleted"}) \subseteq Written

\* Overlapping runs never hold the same row, and never one already exported
\* (FOR UPDATE SKIP LOCKED).
BatchesAreDisjoint ==
    /\ \A e1, e2 \in Exporters : e1 # e2 => batch[e1] \cap batch[e2] = {}
    /\ Locked \subseteq In({"open"})

\* A row is written twice only after a run failed: at most one extra copy per
\* failure.
CopiesNeedFailures ==
    \A r \in Rows : Cardinality({i \in DOMAIN files : r \in files[i].rows}) <= 1 + failures

\* Rows committed late, behind rows already exported, are exported too: no row
\* is skipped for good.
EveryRowIsExported == \A r \in Rows : row[r] = "open" ~> row[r] \in {"exported", "deleted"}

\* A row whose export lasts nowhere was written by a run on a pod: the volume is
\* all that loses rows (docs/runbooks/audit_backup_and_restore.md:11 has "persistent
\* volume", k8s/cronjob-audit-exporter.yaml:55 an emptyDir).
OnlyPodsLoseRows ==
    \A r \in In({"exported", "deleted"}) \ RowsIn(OnStorage) :
        \E i \in DOMAIN files : files[i].by \in Pods /\ r \in files[i].rows

\* The exporter implements AuditArchive: rows leave the journal only after they
\* were in a file, and what is on storage that lasts stays there, whatever the
\* runs that write to pods do to the same rows.  What is on the volume of a pod
\* is lost with it, also of rows that the sweep has deleted.
Promise == INSTANCE AuditArchive
    WITH journal <- In({"open", "exported"}),
         lasting <- RowsIn(OnStorage),
         passing <- RowsIn(OnPods),
         exported <- Written

ImplementsArchive == Promise!Spec
=============================================================================
