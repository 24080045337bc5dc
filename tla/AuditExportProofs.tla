-------------------------- MODULE AuditExportProofs --------------------------
(***************************************************************************)
(* Proofs about AuditExport, for any number of rows, overlapping runs,     *)
(* batch sizes and failures, without dry runs (what a dry run does is what *)
(* the run AuditExportDry shows).                                          *)
(*                                                                         *)
(* The argument: a row lies in the batch of one run at most, so between    *)
(* its file and its mark nobody else writes it; a copy too many is paid    *)
(* for by the failure that freed its lock.                                 *)
(***************************************************************************)
EXTENDS AuditExport, FiniteSetTheorems, TLAPS

NoDryRun == DryExporters = {}

\* An idle run holds nothing; what a run has written is in a file.
BatchesFollowStages ==
    \A e \in Exporters :
        /\ stage[e] = "idle" => batch[e] = {}
        /\ stage[e] = "written" => batch[e] \subseteq Written

CopiesOf(r) == {i \in DOMAIN files : r \in files[i].rows}

\* The copy of a row that no failure has paid for.
Settled(r) ==
    \/ row[r] \in {"exported", "deleted"}
    \/ \E e \in Exporters : stage[e] = "written" /\ r \in batch[e]

CopiesArePaid ==
    \A r \in Rows : Cardinality(CopiesOf(r)) <= failures + IF Settled(r) THEN 1 ELSE 0

\* Only files on the volumes of pods are deleted.
StorageLasts == \A i \in gone : files[i].by \in Pods

IInv ==
    /\ TypeOK
    /\ StorageLasts
    /\ BatchesAreDisjoint
    /\ BatchesFollowStages
    /\ AtLeastOnce
    /\ CopiesArePaid

-----------------------------------------------------------------------------
(* Files and copies.                                                       *)

\* Copies of a row are finitely many.
LEMMA CopiesFinite == ASSUME TypeOK, NEW r \in Rows
                      PROVE  IsFiniteSet(CopiesOf(r)) /\ Cardinality(CopiesOf(r)) \in Nat
<1>1. Len(files) \in Nat /\ DOMAIN files = 1 .. Len(files)
    BY DEF TypeOK
<1>2. IsFiniteSet(1 .. Len(files))
    BY <1>1, FS_Interval
<1>3. CopiesOf(r) \in SUBSET (1 .. Len(files))
    BY <1>1 DEF CopiesOf
<1>4. IsFiniteSet(CopiesOf(r))
    BY <1>2, <1>3, FS_Subset
<1> QED BY <1>4, FS_CardinalityType

\* A new file holds its batch, one more copy of each of its rows, in the place its
\* run writes to; the other files stay as they are.
LEMMA AppendFile ==
    ASSUME TypeOK, NEW e \in Exporters, NEW B \in SUBSET Rows,
           files' = Append(files, [rows |-> B, by |-> e]), gone' = gone
    PROVE  /\ files' \in Seq(Files) /\ gone' \in SUBSET (1 .. Len(files'))
           /\ \A i \in gone : files'[i] = files[i]
           /\ Written' = Written \cup B
           /\ RowsIn(OnPods)' = IF e \in Pods THEN RowsIn(OnPods) \cup B ELSE RowsIn(OnPods)
           /\ RowsIn(OnStorage)' = IF e \in Pods THEN RowsIn(OnStorage) ELSE RowsIn(OnStorage) \cup B
           /\ \A r \in Rows : CopiesOf(r)' =
                 IF r \in B THEN CopiesOf(r) \cup {Len(files) + 1} ELSE CopiesOf(r)
           /\ \A r \in Rows : Len(files) + 1 \notin CopiesOf(r)
<1> DEFINE n == Len(files) + 1
           Then(T) == {r \in Rows : \E i \in T : r \in files'[i].rows}
<1>1. /\ files \in Seq(Files) /\ Len(files) \in Nat /\ Len(files') = n
      /\ DOMAIN files = 1 .. Len(files) /\ DOMAIN files' = 1 .. n
      /\ gone \in SUBSET (1 .. Len(files))
      /\ \A i \in 1 .. Len(files) : files'[i] = files[i]
      /\ files'[n] = [rows |-> B, by |-> e]
    BY DEF TypeOK
<1>2. DOMAIN files' = DOMAIN files \cup {n} /\ n \notin DOMAIN files /\ n \notin gone
    BY <1>1
<1>3. files' \in Seq(Files)
    BY DEF TypeOK, Files
<1>4. \A i \in DOMAIN files : files'[i] = files[i]
    BY <1>1
<1>5. files'[n].rows = B /\ files'[n].by = e
    BY <1>1
<1>6. ASSUME NEW S \in SUBSET (DOMAIN files), NEW T
      PROVE  /\ T = S => Then(T) = RowsIn(S)
             /\ T = S \cup {n} => Then(T) = RowsIn(S) \cup B
    BY <1>4, <1>5 DEF RowsIn
<1>7. Written' = Written \cup B
  <2>1. Written' = Then(DOMAIN files')
      BY DEF Written, RowsIn, Rows
  <2> HIDE DEF Then
  <2> QED BY <1>2, <1>6, <2>1 DEF Written
<1>8. RowsIn(OnPods)' = Then(OnPods')
    BY DEF RowsIn, Rows
<1>9. RowsIn(OnStorage)' = Then(OnStorage')
    BY DEF RowsIn, Rows
<1>10. OnPods \in SUBSET (DOMAIN files) /\ OnStorage \in SUBSET (DOMAIN files)
    BY DEF OnPods, OnStorage
<1>11. OnPods' = IF e \in Pods THEN OnPods \cup {n} ELSE OnPods
    BY <1>2, <1>4, <1>5 DEF OnPods
<1>12. OnStorage' = IF e \in Pods THEN OnStorage ELSE OnStorage \cup {n}
    BY <1>2, <1>4, <1>5 DEF OnStorage
<1> HIDE DEF Then
<1>13. RowsIn(OnPods)' = IF e \in Pods THEN RowsIn(OnPods) \cup B ELSE RowsIn(OnPods)
  <2>1. CASE e \in Pods
    <3>1. OnPods' = OnPods \cup {n}
        BY <1>11, <2>1
    <3>2. RowsIn(OnPods)' = RowsIn(OnPods) \cup B
        BY <1>6, <1>8, <1>10, <3>1
    <3> QED BY <2>1, <3>2
  <2>2. CASE e \notin Pods
    <3>1. OnPods' = OnPods
        BY <1>11, <2>2
    <3>2. RowsIn(OnPods)' = RowsIn(OnPods)
        BY <1>6, <1>8, <1>10, <3>1
    <3> QED BY <2>2, <3>2
  <2> QED BY <2>1, <2>2
<1>14. RowsIn(OnStorage)' = IF e \in Pods THEN RowsIn(OnStorage) ELSE RowsIn(OnStorage) \cup B
  <2>1. CASE e \in Pods
    <3>1. OnStorage' = OnStorage
        BY <1>12, <2>1
    <3>2. RowsIn(OnStorage)' = RowsIn(OnStorage)
        BY <1>6, <1>9, <1>10, <3>1
    <3> QED BY <2>1, <3>2
  <2>2. CASE e \notin Pods
    <3>1. OnStorage' = OnStorage \cup {n}
        BY <1>12, <2>2
    <3>2. RowsIn(OnStorage)' = RowsIn(OnStorage) \cup B
        BY <1>6, <1>9, <1>10, <3>1
    <3> QED BY <2>2, <3>2
  <2> QED BY <2>1, <2>2
<1>15. \A r \in Rows : CopiesOf(r)' = {i \in DOMAIN files' : r \in files'[i].rows}
    BY DEF CopiesOf
<1>16. \A r \in Rows : CopiesOf(r)' =
          IF r \in B THEN CopiesOf(r) \cup {n} ELSE CopiesOf(r)
    BY <1>2, <1>4, <1>5, <1>15 DEF CopiesOf
<1>17. \A r \in Rows : n \notin CopiesOf(r)
    BY <1>2 DEF CopiesOf
<1>18. gone' \in SUBSET (1 .. Len(files')) /\ \A i \in gone : files'[i] = files[i]
    BY <1>1
<1> QED BY <1>3, <1>7, <1>13, <1>14, <1>16, <1>17, <1>18

\* No line of a file can be restored: its keys are not those of the INSERT.
LEMMA NothingIsRestored == ~(BoundNames \subseteq ExportedKeys)
<1>1. "id" \in BoundNames /\ "id" \notin ExportedKeys
    BY DEF BoundNames, ExportedKeys
<1> QED BY <1>1

-----------------------------------------------------------------------------
(* One lemma per action.                                                   *)

LEMMA InitInv == Init => IInv
<1> SUFFICES ASSUME Init PROVE IInv
    OBVIOUS
<1> USE DEF Init, IInv
<1>1. TypeOK /\ StorageLasts
    BY ConstantsAssumption DEF TypeOK, StorageLasts
<1>2. BatchesAreDisjoint /\ BatchesFollowStages /\ AtLeastOnce
    BY DEF BatchesAreDisjoint, BatchesFollowStages, AtLeastOnce, Locked, In
<1>3. \A r \in Rows : Cardinality(CopiesOf(r)) = 0
  <2>1. \A r \in Rows : CopiesOf(r) = {}
      BY DEF CopiesOf
  <2> QED BY <2>1, FS_EmptySet
<1>4. CopiesArePaid
    BY <1>3 DEF CopiesArePaid
<1> QED BY <1>1, <1>2, <1>4

\* While files, marks and batches of a row stay, what is known of it stays.
LEMMA RecordInv == ASSUME IInv, NEW r \in Rows, Record(r) PROVE IInv'
<1> USE DEF IInv, Record, Mark
<1>1. TypeOK' /\ StorageLasts'
    BY DEF TypeOK, StorageLasts
<1>2. In({"open"})' = In({"open"}) \cup {r} /\ In({"exported", "deleted"})' = In({"exported", "deleted"})
    BY DEF In, TypeOK
<1>3. Written' = Written /\ Locked' = Locked
    BY DEF Written, RowsIn, Locked
<1>4. BatchesAreDisjoint' /\ AtLeastOnce' /\ BatchesFollowStages'
    BY <1>2, <1>3 DEF BatchesAreDisjoint, AtLeastOnce, BatchesFollowStages
<1>5. \A q \in Rows : CopiesOf(q)' = CopiesOf(q) /\ (Settled(q) => Settled(q)')
    BY DEF CopiesOf, Settled, TypeOK
<1>6. CopiesArePaid'
    BY <1>5, CopiesFinite DEF CopiesArePaid, TypeOK
<1> QED BY <1>1, <1>4, <1>6

LEMMA SelectInv == ASSUME IInv, NEW e \in Exporters, SelectRows(e) PROVE IInv'
<1> USE DEF IInv, SelectRows
<1>1. Oldest(Eligible) \subseteq In({"open"}) \ Locked /\ Oldest(Eligible) \subseteq Rows
    BY DEF Oldest, Eligible, In
<1>2. TypeOK' /\ StorageLasts'
    BY <1>1 DEF TypeOK, StorageLasts
<1>3. /\ batch'[e] = Oldest(Eligible) /\ stage'[e] = "selected"
      /\ \A f \in Exporters : f # e => batch'[f] = batch[f] /\ stage'[f] = stage[f]
    BY DEF TypeOK
<1>4. /\ In({"open"})' = In({"open"}) /\ Written' = Written
      /\ In({"exported", "deleted"})' = In({"exported", "deleted"})
    BY DEF In, Written, RowsIn
<1>5. BatchesAreDisjoint'
  <2>1. \A f \in Exporters : batch[f] \subseteq Locked
      BY DEF Locked
  <2>2. \A e1, e2 \in Exporters : e1 # e2 => batch'[e1] \cap batch'[e2] = {}
      BY <1>1, <1>3, <2>1 DEF BatchesAreDisjoint
  <2>3. Locked' \subseteq In({"open"})
      BY <1>1, <1>3 DEF BatchesAreDisjoint, Locked
  <2> QED BY <1>4, <2>2, <2>3 DEF BatchesAreDisjoint
<1>6. BatchesFollowStages' /\ AtLeastOnce'
    BY <1>3, <1>4 DEF BatchesFollowStages, AtLeastOnce
<1>7. \A q \in Rows : CopiesOf(q)' = CopiesOf(q) /\ (Settled(q) => Settled(q)')
    BY <1>3 DEF CopiesOf, Settled
<1>8. CopiesArePaid'
    BY <1>7, CopiesFinite DEF CopiesArePaid, TypeOK
<1> QED BY <1>2, <1>5, <1>6, <1>8

LEMMA WriteInv == ASSUME IInv, NoDryRun, NEW e \in Exporters, WriteFile(e) PROVE IInv'
<1> USE DEF IInv, WriteFile, NoDryRun
<1>1. /\ files' = Append(files, [rows |-> batch[e], by |-> e]) /\ gone' = gone
      /\ batch[e] \in SUBSET Rows
    BY DEF TypeOK
<1>2. /\ stage'[e] = "written"
      /\ \A f \in Exporters : f # e => stage'[f] = stage[f]
    BY DEF TypeOK
<1>3. TypeOK' /\ StorageLasts'
    BY <1>1, AppendFile DEF TypeOK, StorageLasts
<1>4. /\ In({"open"})' = In({"open"}) /\ Locked' = Locked
      /\ In({"exported", "deleted"})' = In({"exported", "deleted"})
    BY DEF In, Locked
<1>5. Written' = Written \cup batch[e]
    BY <1>1, AppendFile
<1>6. BatchesAreDisjoint' /\ AtLeastOnce' /\ BatchesFollowStages'
    BY <1>2, <1>4, <1>5 DEF BatchesAreDisjoint, AtLeastOnce, BatchesFollowStages
<1>7. ASSUME NEW r \in Rows
      PROVE  Cardinality(CopiesOf(r))' <= failures' + (IF Settled(r)' THEN 1 ELSE 0)
  <2>1. Cardinality(CopiesOf(r)) <= failures + (IF Settled(r) THEN 1 ELSE 0)
      BY DEF CopiesArePaid
  <2>2. Settled(r) => Settled(r)'
      BY <1>2 DEF Settled
  <2>3. CASE r \notin batch[e]
    <3>1. CopiesOf(r)' = CopiesOf(r)
        BY <1>1, <2>3, AppendFile
    <3> QED BY <2>1, <2>2, <3>1, CopiesFinite DEF TypeOK
  <2>4. CASE r \in batch[e]
    <3>1. ~Settled(r)
      <4>1. r \in Locked
          BY <2>4 DEF Locked
      <4>2. row[r] = "open"
          BY <4>1 DEF BatchesAreDisjoint, In
      <4>3. \A f \in Exporters : r \in batch[f] => f = e
          BY <2>4 DEF BatchesAreDisjoint
      <4> QED BY <4>2, <4>3 DEF Settled
    <3>2. Settled(r)'
        BY <1>2, <2>4 DEF Settled
    <3>3. Cardinality(CopiesOf(r))' = Cardinality(CopiesOf(r)) + 1
      <4>1. CopiesOf(r)' = CopiesOf(r) \cup {Len(files) + 1} /\ Len(files) + 1 \notin CopiesOf(r)
          BY <1>1, <2>4, AppendFile
      <4> QED BY <4>1, CopiesFinite, FS_AddElement
    <3> QED BY <2>1, <3>1, <3>2, <3>3, CopiesFinite DEF TypeOK
  <2> QED BY <2>3, <2>4
<1>8. CopiesArePaid'
    BY <1>7 DEF CopiesArePaid, Rows
<1> QED BY <1>3, <1>6, <1>8

LEMMA MarkInv == ASSUME IInv, NEW e \in Exporters, MarkExported(e) PROVE IInv'
<1> USE DEF IInv, MarkExported, Mark
<1>1. /\ batch'[e] = {} /\ stage'[e] = "idle"
      /\ \A f \in Exporters : f # e => batch'[f] = batch[f] /\ stage'[f] = stage[f]
    BY DEF TypeOK
<1>2. TypeOK' /\ StorageLasts'
    BY DEF TypeOK, StorageLasts
<1>3. /\ In({"open"})' = In({"open"}) \ batch[e]
      /\ In({"exported", "deleted"})' = In({"exported", "deleted"}) \cup batch[e]
      /\ Written' = Written
    BY DEF In, Written, RowsIn, TypeOK
<1>4. BatchesAreDisjoint'
  <2>1. \A f \in Exporters : f # e => batch[f] \subseteq In({"open"}) \ batch[e]
      BY DEF BatchesAreDisjoint, Locked
  <2>2. Locked' \subseteq In({"open"})'
      BY <1>1, <1>3, <2>1 DEF Locked
  <2> QED BY <1>1, <2>2 DEF BatchesAreDisjoint
<1>5. BatchesFollowStages' /\ AtLeastOnce'
    BY <1>1, <1>3 DEF BatchesFollowStages, AtLeastOnce
<1>6. \A q \in Rows : CopiesOf(q)' = CopiesOf(q) /\ (Settled(q) => Settled(q)')
    BY <1>1 DEF CopiesOf, Settled, TypeOK
<1>7. CopiesArePaid'
    BY <1>6, CopiesFinite DEF CopiesArePaid, TypeOK
<1> QED BY <1>2, <1>4, <1>5, <1>7

\* The failure pays for the copy that the run may have left.
LEMMA AbortInv == ASSUME IInv, NEW e \in Exporters, Abort(e) PROVE IInv'
<1> USE DEF IInv, Abort
<1>1. /\ batch'[e] = {} /\ stage'[e] = "idle"
      /\ \A f \in Exporters : f # e => batch'[f] = batch[f] /\ stage'[f] = stage[f]
    BY DEF TypeOK
<1>2. TypeOK' /\ StorageLasts' /\ failures \in Nat
    BY ConstantsAssumption DEF TypeOK, StorageLasts
<1>3. /\ In({"open"})' = In({"open"}) /\ Written' = Written
      /\ In({"exported", "deleted"})' = In({"exported", "deleted"})
      /\ Locked' \subseteq Locked
    BY <1>1 DEF In, Written, RowsIn, Locked
<1>4. BatchesAreDisjoint' /\ BatchesFollowStages' /\ AtLeastOnce'
    BY <1>1, <1>3 DEF BatchesAreDisjoint, BatchesFollowStages, AtLeastOnce
<1>5. \A q \in Rows : CopiesOf(q)' = CopiesOf(q)
    BY DEF CopiesOf
<1>6. CopiesArePaid'
    BY <1>2, <1>5, CopiesFinite DEF CopiesArePaid
<1> QED BY <1>2, <1>4, <1>6

LEMMA SweepInv == ASSUME IInv, RetentionSweep PROVE IInv'
<1> USE DEF IInv, RetentionSweep, Mark
<1>1. TypeOK' /\ StorageLasts'
    BY DEF TypeOK, StorageLasts
<1>2. /\ In({"open"})' = In({"open"}) /\ Written' = Written /\ Locked' = Locked
      /\ In({"exported", "deleted"})' = In({"exported", "deleted"})
    BY DEF In, Written, RowsIn, Locked, TypeOK
<1>3. BatchesAreDisjoint' /\ BatchesFollowStages' /\ AtLeastOnce'
    BY <1>2 DEF BatchesAreDisjoint, BatchesFollowStages, AtLeastOnce
<1>4. \A q \in Rows : CopiesOf(q)' = CopiesOf(q) /\ (Settled(q) => Settled(q)')
    BY DEF CopiesOf, Settled, In, TypeOK
<1>5. CopiesArePaid'
    BY <1>4, CopiesFinite DEF CopiesArePaid, TypeOK
<1> QED BY <1>1, <1>3, <1>5

\* Time, pods and the restore script change no row, no batch and write no file.
LEMMA QuietInv ==
    ASSUME IInv, TypeOK', StorageLasts', UNCHANGED <<row, stage, batch, files, failures>>
    PROVE  IInv'
<1>1. /\ \A states : In(states)' = In(states)
      /\ Locked' = Locked /\ Written' = Written
    BY DEF In, Locked, Written, RowsIn, Rows
<1>2. BatchesAreDisjoint' /\ BatchesFollowStages' /\ AtLeastOnce'
    BY <1>1 DEF IInv, BatchesAreDisjoint, BatchesFollowStages, AtLeastOnce
<1>3. \A q \in Rows : CopiesOf(q)' = CopiesOf(q) /\ Settled(q)' = Settled(q)
    BY DEF CopiesOf, Settled
<1>4. CopiesArePaid'
    BY <1>3 DEF IInv, CopiesArePaid, Rows
<1> QED BY <1>2, <1>4 DEF IInv

LEMMA NextInv == ASSUME NoDryRun, IInv, [Next]_vars PROVE IInv'
<1>1. ASSUME Tick \/ UNCHANGED vars \/ \E i \in DOMAIN files : Restore(i)
      PROVE  IInv'
  <2>1. UNCHANGED <<row, stage, batch, files, gone, failures>>
      BY <1>1, NothingIsRestored DEF Tick, vars, Restore
  <2>2. horizon' \in 0 .. MaxRow
    <3>1. CASE Tick
        BY <3>1, ConstantsAssumption DEF IInv, TypeOK, Tick
    <3>2. CASE UNCHANGED vars \/ \E i \in DOMAIN files : Restore(i)
        BY <3>2 DEF IInv, TypeOK, vars, Restore
    <3> QED BY <1>1, <3>1, <3>2
  <2>3. TypeOK' /\ StorageLasts'
      BY <2>1, <2>2 DEF IInv, TypeOK, StorageLasts
  <2> QED BY <2>1, <2>3, QuietInv
<1>2. ASSUME NEW e \in Exporters, PodDeleted(e) PROVE IInv'
  <2>1. OnPods \in SUBSET (1 .. Len(files)) /\ \A i \in OnPods : files[i].by \in Pods
      BY DEF OnPods, IInv, TypeOK
  <2>2. TypeOK' /\ StorageLasts'
      BY <1>2, <2>1 DEF PodDeleted, IInv, TypeOK, StorageLasts
  <2> QED BY <1>2, <2>2, QuietInv DEF PodDeleted
<1>3. ASSUME NEW e \in Exporters, ExportStep(e) \/ Abort(e) PROVE IInv'
    BY <1>3, SelectInv, WriteInv, MarkInv, AbortInv DEF ExportStep
<1> QED BY <1>1, <1>2, <1>3, RecordInv, SweepInv DEF Next

-----------------------------------------------------------------------------
(* The theorems.                                                           *)

\* The inductive invariant holds of every reachable state.
THEOREM Invariance == ASSUME NoDryRun PROVE Spec => []IInv
<1>1. IInv /\ [Next]_vars => IInv'
    BY NextInv
<1> QED BY <1>1, InitInv, PTL DEF Spec

\* Every variable keeps its type.
THEOREM TypeCorrect == ASSUME NoDryRun PROVE Spec => []TypeOK
<1>1. IInv => TypeOK
    BY DEF IInv
<1> QED BY <1>1, Invariance, PTL

\* A row is marked exported, and deleted, only after a file was written that
\* holds it, however export runs overlap and wherever they die.
THEOREM ExportIsAtLeastOnce == ASSUME NoDryRun PROVE Spec => []AtLeastOnce
<1>1. IInv => AtLeastOnce
    BY DEF IInv
<1> QED BY <1>1, Invariance, PTL

\* Overlapping runs never hold the same row, nor one already exported.
THEOREM RunsAreApart == ASSUME NoDryRun PROVE Spec => []BatchesAreDisjoint
<1>1. IInv => BatchesAreDisjoint
    BY DEF IInv
<1> QED BY <1>1, Invariance, PTL

\* A row is in at most one file more than there were failures.
THEOREM CopiesAreBounded == ASSUME NoDryRun PROVE Spec => []CopiesNeedFailures
<1>1. IInv => CopiesNeedFailures
  <2> SUFFICES ASSUME IInv, NEW r \in Rows
               PROVE  Cardinality(CopiesOf(r)) <= 1 + failures
      BY DEF CopiesNeedFailures, CopiesOf
  <2>1. Cardinality(CopiesOf(r)) <= failures + (IF Settled(r) THEN 1 ELSE 0)
      BY DEF IInv, CopiesArePaid
  <2> QED BY <2>1, CopiesFinite DEF IInv, TypeOK
<1> QED BY <1>1, Invariance, PTL

\* A row whose export is on no storage that lasts was written by a run on a pod.
THEOREM PodsLoseRows == ASSUME NoDryRun PROVE Spec => []OnlyPodsLoseRows
<1>1. IInv => OnlyPodsLoseRows
  <2> SUFFICES ASSUME IInv, NEW r \in In({"exported", "deleted"}) \ RowsIn(OnStorage)
               PROVE  \E i \in DOMAIN files : files[i].by \in Pods /\ r \in files[i].rows
      BY DEF OnlyPodsLoseRows
  <2>1. PICK i \in DOMAIN files : r \in files[i].rows
      BY DEF IInv, AtLeastOnce, Written, RowsIn, In
  <2>2. i \notin OnStorage
      BY <2>1 DEF RowsIn, In
  <2>3. files[i].by \in Pods
      BY <2>1, <2>2 DEF OnStorage, IInv, StorageLasts
  <2> QED BY <2>1, <2>3
<1> QED BY <1>1, Invariance, PTL

\* With the persistent volume that the runbook has, nothing is lost: every row
\* that is marked exported, or that the sweep has deleted, is in a file that is
\* there.
THEOREM StorageKeepsAll ==
    ASSUME NoDryRun, Pods = {}
    PROVE  Spec => [](In({"exported", "deleted"}) \subseteq RowsIn(OnStorage))
<1>1. OnlyPodsLoseRows => In({"exported", "deleted"}) \subseteq RowsIn(OnStorage)
    BY DEF OnlyPodsLoseRows
<1> QED BY <1>1, PodsLoseRows, PTL

\* The exporter implements AuditArchive: every step is a step of the archive or
\* leaves it as it is; none but the deletion of a pod takes a row out of it, and
\* that one takes none from the storage that lasts.
THEOREM Refinement == ASSUME NoDryRun PROVE Spec => ImplementsArchive
<1> DEFINE J == In({"open", "exported"})
           L == RowsIn(OnStorage)
           P == RowsIn(OnPods)
           X == Written
<1>1. Init => Promise!Init
    BY DEF Init, Promise!Init, In, Written, RowsIn, OnStorage, OnPods
<1>2. IInv /\ [Next]_vars => [Promise!Next]_(Promise!vars)
  <2> SUFFICES ASSUME IInv, [Next]_vars PROVE [Promise!Next]_(Promise!vars)
      OBVIOUS
  <2>1. ASSUME UNCHANGED <<files, gone>> PROVE UNCHANGED <<L, P, X>>
      BY <2>1 DEF RowsIn, Written, OnStorage, OnPods
  <2>2. ASSUME NEW r \in Rows, Record(r) PROVE Promise!Record(r)
    <3>1. r \notin J /\ J' = J \cup {r}
        BY <2>2 DEF Record, Mark, In, IInv, TypeOK
    <3> QED BY <2>1, <2>2, <3>1 DEF Record, Promise!Record
  <2>3. ASSUME NEW e \in Exporters, SelectRows(e) \/ Abort(e) PROVE UNCHANGED Promise!vars
    <3>1. UNCHANGED J
        BY <2>3 DEF SelectRows, Abort, In
    <3> QED BY <2>1, <2>3, <3>1 DEF SelectRows, Abort, Promise!vars
  <2>4. ASSUME NEW e \in Exporters, WriteFile(e) PROVE Promise!Next
    <3>1. /\ files' = Append(files, [rows |-> batch[e], by |-> e]) /\ gone' = gone
          /\ batch[e] \in SUBSET Rows
        BY <2>4 DEF WriteFile, NoDryRun, IInv, TypeOK
    <3>2. batch[e] \subseteq J /\ UNCHANGED J
        BY <2>4 DEF WriteFile, IInv, BatchesAreDisjoint, Locked, In
    <3>3. X' = X \cup batch[e]
        BY <3>1, AppendFile DEF IInv
    <3>4. CASE e \in Pods
      <4>1. P' = P \cup batch[e] /\ L' = L
          BY <3>1, <3>4, AppendFile DEF IInv
      <4> QED BY <3>1, <3>2, <3>3, <4>1 DEF Promise!Next, Promise!Stage
    <3>5. CASE e \notin Pods
      <4>1. L' = L \cup batch[e] /\ P' = P
          BY <3>1, <3>5, AppendFile DEF IInv
      <4> QED BY <3>1, <3>2, <3>3, <4>1 DEF Promise!Next, Promise!Keep
    <3> QED BY <3>4, <3>5
  <2>5. ASSUME NEW e \in Exporters, MarkExported(e) PROVE UNCHANGED Promise!vars
    <3>1. batch[e] \subseteq In({"open"})
        BY DEF IInv, BatchesAreDisjoint, Locked
    <3>2. UNCHANGED J
        BY <2>5, <3>1 DEF MarkExported, Mark, In, IInv, TypeOK
    <3> QED BY <2>1, <2>5, <3>2 DEF MarkExported, Promise!vars
  <2>6. ASSUME RetentionSweep PROVE Promise!Next
    <3>1. In({"exported"}) \subseteq X /\ In({"exported"}) \in SUBSET Rows
        BY DEF IInv, AtLeastOnce, In
    <3>2. J' = J \ In({"exported"})
        BY <2>6 DEF RetentionSweep, Mark, In, IInv, TypeOK
    <3>3. Promise!Purge(In({"exported"}))
        BY <2>1, <2>6, <3>1, <3>2 DEF RetentionSweep, Promise!Purge
    <3> QED BY <3>1, <3>3 DEF Promise!Next
  <2>7. ASSUME NEW e \in Exporters, PodDeleted(e) PROVE Promise!Next
    <3>1. UNCHANGED <<row, files>>
        BY <2>7 DEF PodDeleted
    <3>2. OnStorage' = OnStorage /\ OnPods' \subseteq OnPods
        BY <2>7, <3>1 DEF PodDeleted, OnStorage, OnPods
    <3>3. UNCHANGED <<J, X>>
        BY <3>1 DEF In, Written, RowsIn
    <3>4. UNCHANGED L
        BY <3>1, <3>2 DEF RowsIn
    <3>5. P' \subseteq P
        BY <3>1, <3>2 DEF RowsIn
    <3>6. P' = P \ (P \ P') /\ (P \ P') \in SUBSET Rows
        BY <3>5 DEF RowsIn
    <3>7. Promise!Lose(P \ P')
        BY <3>3, <3>4, <3>6 DEF Promise!Lose
    <3> QED BY <3>6, <3>7 DEF Promise!Next
  <2>8. ASSUME Tick \/ UNCHANGED vars \/ \E i \in DOMAIN files : Restore(i)
        PROVE  UNCHANGED Promise!vars
    <3>1. UNCHANGED <<row, files, gone>>
        BY <2>8, NothingIsRestored DEF Tick, vars, Restore
    <3>2. UNCHANGED J
        BY <3>1 DEF In
    <3> QED BY <2>1, <3>1, <3>2 DEF Promise!vars
  <2>9. CASE \E r \in Rows : Record(r)
      BY <2>2, <2>9 DEF Promise!Next
  <2> QED BY <2>3, <2>4, <2>5, <2>6, <2>7, <2>8, <2>9 DEF Next, ExportStep
<1> QED BY <1>1, <1>2, Invariance, PTL DEF Spec, ImplementsArchive, Promise!Spec
=============================================================================
