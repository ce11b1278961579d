--------------------------- MODULE MCConfigStore ---------------------------
(* Small instances of ConfigStore for TLC. *)
EXTENDS ConfigStore, TLC

CONSTANTS short, long, bad, bare

\* Two configurations of different size and one that is refused.
MCLength == (short :> 1) @@ (long :> 2) @@ (bad :> 1)
\* One whose only service has neither ports nor hosts.
BareLength == bare :> 1

Symmetry == Permutations(Handlers) \cup Permutations(Inodes)
=============================================================================
