--------------------------- MODULE MCSingleFlight ---------------------------
(* Model-checking definitions for SingleFlight.                            *)
EXTENDS SingleFlight, TLC

Symmetry == Permutations(Proc)
=============================================================================
