--------------------------- MODULE MCCircuitBreaker --------------------------
(* Instances of CircuitBreaker for TLC. *)
EXTENDS CircuitBreaker, TLC

\* Callers are interchangeable, and no property singles one out.
CallerSymmetry == Permutations(Callers)
==============================================================================
