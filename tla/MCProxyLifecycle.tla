-------------------------- MODULE MCProxyLifecycle --------------------------
(* Small instances of ProxyLifecycle for TLC. *)
EXTENDS ProxyLifecycle, TLC

CONSTANTS c1, c2, p1, p2, p3, k1, k2

\* One container behind one port.
SingleOwner     == [p \in {p1} |-> c1]
OneCron         == [c \in {c1} |-> TRUE]

\* Labelled cron, or cron only because of its cron labels.
OneExplicitCron == [c \in {c1} |-> "cron"]
OneDerived      == [c \in {c1} |-> ""]

\* An on-demand container (by default) with two ports and a manual one with cron
\* labels.
MixedOwner        == (p1 :> c1) @@ (p2 :> c1) @@ (p3 :> c2)
MixedAvailability == (c1 :> "") @@ (c2 :> "manual")
MixedCron         == (c1 :> FALSE) @@ (c2 :> TRUE)

\* Nothing tells the two ports of the on-demand container apart.
MixedSymmetry == Permutations({p1, p2})
=============================================================================
