---------------------------- MODULE AuditArchive ----------------------------
(***************************************************************************)
(* What the audit backup promises: a journal row leaves the journal only   *)
(* after it was archived.  There are two places for the archive: storage   *)
(* that lasts, which never loses a row, and volumes that go with their     *)
(* pods and take rows with them, purged ones too.                          *)
(***************************************************************************)
CONSTANT Rows

VARIABLES journal,   \* rows in the credit_audit_journal table
          lasting,   \* rows in some export file on storage that lasts
          passing,   \* rows in some export file on the volume of a pod
          exported   \* rows that were in some export file at some time

vars == <<journal, lasting, passing, exported>>

Init == journal = {} /\ lasting = {} /\ passing = {} /\ exported = {}

Record(r) ==
    /\ r \notin journal
    /\ journal' = journal \cup {r}
    /\ UNCHANGED <<lasting, passing, exported>>

Keep(S) ==
    /\ S \subseteq journal
    /\ lasting' = lasting \cup S /\ exported' = exported \cup S
    /\ UNCHANGED <<journal, passing>>

Stage(S) ==
    /\ S \subseteq journal
    /\ passing' = passing \cup S /\ exported' = exported \cup S
    /\ UNCHANGED <<journal, lasting>>

Lose(S) ==
    /\ passing' = passing \ S
    /\ UNCHANGED <<journal, lasting, exported>>

Purge(S) ==
    /\ S \subseteq exported
    /\ journal' = journal \ S
    /\ UNCHANGED <<lasting, passing, exported>>

Next ==
    \/ \E r \in Rows : Record(r)
    \/ \E S \in SUBSET Rows : Keep(S) \/ Stage(S) \/ Lose(S) \/ Purge(S)

Spec == Init /\ [][Next]_vars
=============================================================================
