---------------------------- MODULE MCQboTokens ----------------------------
(* A small instance of QboTokens for TLC: two threads of the service and    *)
(* one process of its own that uses client.py.                              *)
EXTENDS QboTokens

CONSTANTS t1, t2, t3

MCProcesses == {{t1, t2}, {t3}}
=============================================================================
