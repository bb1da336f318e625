-------------------------- MODULE MCCircuitBreaker --------------------------
(* Four callers for two slots, so that calls wait while the circuit opens. *)
EXTENDS CircuitBreaker
=============================================================================
