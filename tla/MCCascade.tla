----------------------------- MODULE MCCascade -----------------------------
(* Small instances of Cascade for TLC. *)
EXTENDS Cascade, TLC

CONSTANTS hub, mid, leaf

\* A chain with a short cut: the leaf depends on the hub directly and through mid.
DiamondDependants == (hub :> <<mid, leaf>>) @@ (mid :> <<leaf>>) @@ (leaf :> <<>>)
MixedKind == (hub :> "tcp") @@ (mid :> "portless") @@ (leaf :> "udp")
UdpHub   == (hub :> "udp") @@ (mid :> "portless") @@ (leaf :> "tcp")

\* Two hubs that list each other.
RingKind == (hub :> "tcp") @@ (mid :> "tcp")
RingDependants == (hub :> <<mid>>) @@ (mid :> <<hub>>)
=============================================================================
