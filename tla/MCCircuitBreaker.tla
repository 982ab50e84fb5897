-------------------------- MODULE MCCircuitBreaker --------------------------
(* An instance of CircuitBreaker for TLC. *)
EXTENDS CircuitBreaker

\* A large loss, a small loss and a win.
MCResults == {-2, -1, 1}
=============================================================================
