--------------------------- MODULE SnapshotLedger ---------------------------
(***************************************************************************)
(* What the snapshot pipeline promises its readers (AssetSnapshot is an    *)
(* "immutable point-in-time view", quantengine/models/collateral.py:9): a  *)
(* ledger that only grows, with one entry per time stamp, whatever is      *)
(* delivered twice, late or out of order on the way.                       *)
(***************************************************************************)
VARIABLE ledger

Init == ledger = {}

\* A snapshot is recorded under a stamp that no entry has yet.
Record(s) ==
  /\ \A e \in ledger : e.ts # s.ts
  /\ ledger' = ledger \cup {s}

Next == \E s \in ledger' \ ledger : Record(s)

Spec == Init /\ [][Next]_ledger
=============================================================================
