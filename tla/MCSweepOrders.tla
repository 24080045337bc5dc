--------------------------- MODULE MCSweepOrders ---------------------------
(* SweepOrders with the constants of its .cfg files.                       *)
EXTENDS SweepOrders
=============================================================================
