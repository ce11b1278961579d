------------------------- MODULE OnDemandRefinement -------------------------
(***************************************************************************)
(* ProxyLifecycle implements OnDemand: the state of the contract is read   *)
(* off the detailed one, with a history variable for the author of the     *)
(* last change of each container.                                          *)
(***************************************************************************)
EXTENDS ProxyLifecycle

VARIABLE author  \* author[c]: who changed container c last

authorVars == <<vars, author>>

Authored ==
  author' = [c \in Containers |->
    CASE container'[c] = container[c] -> author[c]
      [] container'[c] # container[c] /\ ExternalChange(c) -> "outside"
      [] OTHER -> "proxy"]

AuthoredInit == Init /\ author = [c \in Containers |-> "outside"]
AuthoredNext == Next /\ Authored

AuthoredSpec == AuthoredInit /\ [][AuthoredNext]_authorVars /\ Fairness

\* The EnsureRunning call of startGroup as the contract's start call.
CallOf(c) == IF flight[c] \in {"inspect", "start"} THEN "asked" ELSE flight[c]

Contract == INSTANCE OnDemand WITH
  state <- container,
  by    <- author,
  call  <- [c \in Containers |-> CallOf(c)],
  quiet <- {c \in Containers : PortsOf(c) # {} /\ PortsOf(c) \subseteq idleSeen}

-----------------------------------------------------------------------------
(* Properties *)

\* Containers are started, reported started and stopped as OnDemand promises,
\* and every request to start one is answered.
KeepsContract == Contract!Spec
=============================================================================
