------------------------- MODULE MCMetricsCollector -------------------------
(* Small instances of MetricsCollector for TLC. *)
EXTENDS MetricsCollector, TLC

Symmetry == Permutations(Conns) \cup Permutations(Callers)
=============================================================================
