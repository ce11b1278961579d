--------------------------- MODULE MCMetricsRetry ---------------------------
(* Small instances of MetricsRetry for TLC. *)
EXTENDS MetricsRetry, TLC

PortSymmetry == Permutations(Ports)
=============================================================================
