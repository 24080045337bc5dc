-------------------------- MODULE MCCreditFacility --------------------------
(* Small instances of CreditFacility for TLC.                              *)
EXTENDS CreditFacility

MCCap == [b \in Banks |-> 3]
MCBuffer == [b \in Banks |-> 1]
=============================================================================
