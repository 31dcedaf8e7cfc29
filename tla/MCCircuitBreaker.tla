-------------------------- MODULE MCCircuitBreaker --------------------------
(* Instance of CircuitBreaker for TLC: three callers, so that a late call, a *)
(* probe and its replacement can be in flight together.                      *)
EXTENDS CircuitBreaker
=============================================================================
