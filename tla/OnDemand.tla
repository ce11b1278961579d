------------------------------ MODULE OnDemand ------------------------------
(***************************************************************************)
(* What the proxy promises about the containers it starts on demand and    *)
(* stops when idle, whatever goroutines, caches and flags it takes to keep *)
(* the promise.                                                            *)
(*                                                                         *)
(* The proxy starts a container only while a start was asked for, answers  *)
(* "ok" only for a container that was up during the request, and stops one *)
(* only once each of its ports has been seen idle. ProxyLifecycle is shown *)
(* to implement this in OnDemandRefinement.                                *)
(***************************************************************************)

CONSTANT Containers

VARIABLES
  state,  \* state[c]: container c is "up" or "down"
  by,     \* by[c]: who changed it last, "proxy" or "outside"
  call,   \* call[c]: the start call: "none", "asked", "ok" or "failed"
  quiet   \* containers whose ports have all been seen idle

vars == <<state, by, call, quiet>>

Init ==
  /\ state \in [Containers -> {"up", "down"}]
  /\ by = [c \in Containers |-> "outside"]
  /\ call = [c \in Containers |-> "none"]
  /\ quiet = {}

Changed(c, to, who) ==
  /\ state[c] # to
  /\ state' = [state EXCEPT ![c] = to]
  /\ by' = [by EXCEPT ![c] = who]

Reply(c, from, to) ==
  /\ call[c] = from
  /\ call' = [call EXCEPT ![c] = to]

\* A user, another program or a crash.
Outside(c) ==
  /\ \E to \in {"up", "down"} : Changed(c, to, "outside")
  /\ UNCHANGED <<call, quiet>>

Ask(c) == Reply(c, "none", "asked") /\ UNCHANGED <<state, by, quiet>>

\* The container is found up, or brought up.
Confirm(c) ==
  /\ state[c] = "up"
  /\ Reply(c, "asked", "ok")
  /\ UNCHANGED <<state, by, quiet>>

Bring(c) ==
  /\ Changed(c, "up", "proxy")
  /\ Reply(c, "asked", "ok")
  /\ UNCHANGED quiet

Fail(c) == Reply(c, "asked", "failed") /\ UNCHANGED <<state, by, quiet>>

Answer(c) ==
  /\ \E result \in {"ok", "failed"} : Reply(c, result, "none")
  /\ UNCHANGED <<state, by, quiet>>

\* Each port of a container has been idle at some moment; a new round of
\* observation starts from nothing.
SeenQuiet ==
  /\ \E more \in SUBSET Containers : quiet' = quiet \cup more
  /\ UNCHANGED <<state, by, call>>

Forget == quiet' = {} /\ UNCHANGED <<state, by, call>>

Stop(c) ==
  /\ c \in quiet
  /\ Changed(c, "down", "proxy")
  /\ UNCHANGED <<call, quiet>>

Next ==
  \/ \E c \in Containers :
       \/ Outside(c) \/ Ask(c) \/ Confirm(c) \/ Bring(c) \/ Fail(c) \/ Answer(c)
       \/ Stop(c)
  \/ SeenQuiet \/ Forget

\* Every request is answered.
Fairness ==
  \A c \in Containers :
    WF_vars(Confirm(c) \/ Bring(c) \/ Fail(c)) /\ WF_vars(Answer(c))

Safety == Init /\ [][Next]_vars

Spec == Safety /\ Fairness
=============================================================================
