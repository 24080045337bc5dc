------------------------ MODULE MCOrchestratorCredit ------------------------
(* OrchestratorCredit with the constants of its .cfg file.                 *)
EXTENDS OrchestratorCredit
=============================================================================
