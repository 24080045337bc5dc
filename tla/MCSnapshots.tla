---------------------------- MODULE MCSnapshots ----------------------------
(* Instances of Snapshots for TLC: which calls there are.                   *)
EXTENDS Snapshots

CONSTANTS r1, r2, p1

MCRuns  == {r1, r2}
MCPosts == {p1}
=============================================================================
