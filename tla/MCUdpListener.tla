---------------------------- MODULE MCUdpListener ----------------------------
(* Small instances of UdpListener for TLC. *)
EXTENDS UdpListener, TLC

Symmetry == Permutations(Clients) \cup Permutations(Goroutines)
=============================================================================
