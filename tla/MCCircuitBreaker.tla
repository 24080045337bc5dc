-------------------------- MODULE MCCircuitBreaker --------------------------
(* CircuitBreaker with the constants of its .cfg files; its threads are    *)
(* alike.                                                                  *)
EXTENDS CircuitBreaker, TLC

Threads == Permutations(Callers)
=============================================================================
