--------------------------- MODULE MCAuditExport ---------------------------
(* AuditExport with the constants of its .cfg files.                       *)
EXTENDS AuditExport
=============================================================================
