--------------------------- MODULE MCPortAllocator ---------------------------
(* Small instances of PortAllocator for TLC. *)
EXTENDS PortAllocator, TLC

CONSTANTS web, db, api, d1, d2, d3

\* web: two hosts and an explicit port; db: a host, an explicit port that the
\* allocator may have handed out already, and a UDP port; api shares a host with
\* web and has an entry without a domain.
MCExplicit    == (web :> {2}) @@ (db :> {1}) @@ (api :> {})
MCExplicitUDP == (web :> {}) @@ (db :> {4}) @@ (api :> {})
MCHosts       == (web :> <<d1, d2>>) @@ (db :> <<>>) @@ (api :> <<None, d2>>)
MCTCPHosts    == (web :> <<>>) @@ (db :> <<d3>>) @@ (api :> <<>>)

Symmetry == Permutations(Goroutines)
=============================================================================
