------------------------ MODULE MCOnDemandRefinement ------------------------
(* A small instance of OnDemandRefinement for TLC. *)
EXTENDS OnDemandRefinement, TLC

CONSTANTS c1, p1, k1, k2

\* One on-demand container behind one port.
SingleOwner == p1 :> c1
OneNoCron   == c1 :> FALSE
OneOnDemand == c1 :> "ondemand"
=============================================================================
