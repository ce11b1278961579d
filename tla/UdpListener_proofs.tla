-------------------------- MODULE UdpListener_proofs --------------------------
(* Theorems about UdpListener, for any number of clients, goroutines, events *)
(* and attempts.                                                             *)
EXTENDS UdpListener, SequenceTheorems, TLAPS

\* A goroutine that is alive serves a client.
KeysOK == \A g \in Goroutines : pc[g] # "none" => key[g] \in Clients

\* The map holds read loops under their clients' addresses; one that has returned
\* without its flow being swept is still there.
FlowsOK ==
  /\ \A c \in Clients : flows[c] # None =>
       key[flows[c]] = c /\ pc[flows[c]] \in {"reading", "exited"}
  /\ \A g \in Goroutines : pc[g] = "exited" => flows[key[g]] = g

\* Only a read loop has a socket that something else closes.
ClosedReads == \A g \in Goroutines : closed[g] => pc[g] = "reading"

\* What relates pending, flows and the goroutines.
MapInv == KeysOK /\ PendingExact /\ FlowsOK /\ NoOrphanSocket /\ ClosedReads

\* Followers sleep only during a start, and a start has a leader.
WakeInv ==
  /\ asleep # {} => starting
  /\ starting => \E g \in Goroutines : Leading(g)

Inv == TypeOK /\ MapInv /\ WakeInv

EventKinds == {"start", "die"}

-----------------------------------------------------------------------------
(* Types *)

\* A change of the container and the event it causes.
LEMMA SetContainerOK ==
  ASSUME TypeOK, NEW state \in {"up", "down"}, SetContainer(state)
  PROVE  container' \in {"up", "down"} /\ events' \in Seq(EventKinds)
<1>1. events \in Seq(EventKinds)
  BY DEF TypeOK, EventKinds
<1>2. (IF state = "up" THEN "start" ELSE "die") \in EventKinds
  BY DEF EventKinds
<1> QED
  BY <1>1, <1>2, AppendProperties DEF SetContainer

\* Receiving an event.
LEMMA TailOK ==
  ASSUME TypeOK, events # <<>>
  PROVE  Tail(events) \in Seq(EventKinds)
<1>1. events \in Seq(EventKinds)
  BY DEF TypeOK, EventKinds
<1> QED
  BY <1>1, HeadTailProperties

\* Nothing has happened.
LEMMA InitType == Init => TypeOK
<1> SUFFICES ASSUME Init PROVE TypeOK
  OBVIOUS
<1>1. <<>> \in Seq({"start", "die"})
  BY EmptySeq
<1>2. running \in BOOLEAN
  BY DEF Init
<1>3. /\ attempt \in [Goroutines -> 0..Retries] /\ responded \in [Goroutines -> BOOLEAN]
      /\ flowActive \in [Goroutines -> {"fresh", "expired"}]
      /\ closed \in [Goroutines -> BOOLEAN]
      /\ key \in [Goroutines -> Clients \cup {None}]
      /\ pc \in [Goroutines -> Starting \cup {"none", "reading", "exited"}]
      /\ flows \in [Clients -> Goroutines \cup {None}]
  BY BoundsAssumption DEF Init
<1>4. stops \in 0..MaxStops /\ asleep \subseteq Goroutines /\ pending \subseteq Clients
  BY BoundsAssumption DEF Init
<1>5. /\ container \in {"up", "down"} /\ events = <<>> /\ resetting = FALSE
      /\ removed = FALSE /\ lastActive = "expired" /\ ready = FALSE /\ starting = FALSE
      /\ chkPc = "sleep"
  BY DEF Init
<1> QED
  BY <1>1, <1>2, <1>3, <1>4, <1>5 DEF TypeOK

\* The daemon, the event watcher, the checker and the removal.
LEMMA DaemonType ==
  ASSUME TypeOK,
         \/ ExternalChange \/ ContainerStarted \/ ContainerStopped \/ ResetReadiness
         \/ CheckIdle \/ CheckStop \/ CheckMark \/ StopAfterTimeout \/ RemoveTarget
  PROVE  TypeOK'
<1> USE DEF dockerVars, readyVars, listenerVars, mapVars, goVars
<1>1. CASE ExternalChange
  <2>1. container' \in {"up", "down"} /\ events' \in Seq({"start", "die"})
    BY <1>1, SetContainerOK DEF ExternalChange, EventKinds
  <2> QED
    BY <1>1, <2>1 DEF ExternalChange, TypeOK
<1>2. CASE ContainerStarted
  BY <1>2, TailOK DEF ContainerStarted, TypeOK, EventKinds
<1>3. CASE ContainerStopped
  BY <1>3, TailOK DEF ContainerStopped, TypeOK, EventKinds
<1>4. CASE ResetReadiness
  BY <1>4 DEF ResetReadiness, TypeOK
<1>5. CASE CheckIdle
  BY <1>5 DEF CheckIdle, TypeOK
<1>6. CASE CheckStop
  <2>1. container' \in {"up", "down"} /\ events' \in Seq({"start", "die"})
    BY <1>6, SetContainerOK DEF CheckStop, EventKinds, TypeOK
  <2> QED
    BY <1>6, <2>1 DEF CheckStop, TypeOK
<1>7. CASE CheckMark
  BY <1>7 DEF CheckMark, TypeOK
<1>8. CASE StopAfterTimeout
  <2>1. container' \in {"up", "down"} /\ events' \in Seq({"start", "die"})
    BY <1>8, SetContainerOK DEF StopAfterTimeout, EventKinds, TypeOK
  <2>2. stops' \in 0..MaxStops
    BY <1>8, BoundsAssumption DEF StopAfterTimeout, TypeOK
  <2> QED
    BY <1>8, <2>1, <2>2 DEF StopAfterTimeout, TypeOK
<1>9. CASE RemoveTarget
  BY <1>9 DEF RemoveTarget, TypeOK
<1> QED
  BY <1>1, <1>2, <1>3, <1>4, <1>5, <1>6, <1>7, <1>8, <1>9

\* startUDPFlow.
LEMMA StarterType ==
  ASSUME TypeOK, NEW g \in Goroutines, Starter(g)
  PROVE  TypeOK'
<1> USE DEF dockerVars, readyVars, listenerVars, mapVars, goVars, Starting, Goto
<1>1. CASE EnsureRunning(g)
  <2>1. container' \in {"up", "down"} /\ events' \in Seq({"start", "die"})
    BY <1>1, SetContainerOK DEF EnsureRunning, EventKinds, TypeOK
  <2> QED
    BY <1>1, <2>1 DEF EnsureRunning, TypeOK
<1>2. CASE Dial(g) \/ FastPath(g) \/ Send(g)
  BY <1>2 DEF Dial, FastPath, Send, TypeOK
<1>8. CASE Follow(g)
  BY <1>8 DEF Follow, TypeOK
<1>9. CASE Woken(g)
  <2>1. pc' \in [Goroutines -> Starting \cup {"none", "reading", "exited"}]
    BY <1>9 DEF Woken, TypeOK
  <2> QED
    BY <1>9, <2>1 DEF Woken, TypeOK
<1>3. CASE Lead(g)
  BY <1>3, BoundsAssumption DEF Lead, TypeOK
<1>4. CASE Probe(g)
  <2>1. attempt' \in [Goroutines -> 0..Retries]
    BY <1>4, BoundsAssumption DEF Probe, MoreProbes, TypeOK
  <2> QED
    BY <1>4, <2>1 DEF Probe, TypeOK
<1>5. CASE Publish(g)
  <2>1. stops' \in 0..MaxStops
    BY <1>5, BoundsAssumption DEF Publish, TypeOK
  <2>2. pc' \in [Goroutines -> Starting \cup {"none", "reading", "exited"}]
    BY <1>5 DEF Publish, TypeOK
  <2>3. ready' \in BOOLEAN /\ responded' \in [Goroutines -> BOOLEAN]
    BY <1>5 DEF Publish, TypeOK
  <2> QED
    BY <1>5, <2>1, <2>2, <2>3 DEF Publish, Broadcast, TypeOK
<1>6. CASE Register(g)
  BY <1>6 DEF Register, TypeOK
<1>7. CASE Cleanup(g)
  BY <1>7 DEF Cleanup, TypeOK
<1> QED
  BY <1>1, <1>2, <1>3, <1>4, <1>5, <1>6, <1>7, <1>8, <1>9 DEF Starter

\* The read loops and the sweeper.
LEMMA LoopType ==
  ASSUME TypeOK,
         \/ \E c \in Clients : DatagramOnFlow(c) \/ \E g \in Goroutines : DatagramStartsFlow(c, g)
         \/ \E g \in Goroutines : Reply(g) \/ ReaderExit(g) \/ FlowExpires(g)
         \/ Sweep \/ ListenerExpires
  PROVE  TypeOK'
<1> USE DEF dockerVars, readyVars, listenerVars, mapVars, goVars, Starting, Goto
<1>1. ASSUME NEW c \in Clients, DatagramOnFlow(c) PROVE TypeOK'
  BY <1>1 DEF DatagramOnFlow, TypeOK
<1>2. ASSUME NEW c \in Clients, NEW g \in Goroutines, DatagramStartsFlow(c, g) PROVE TypeOK'
  BY <1>2 DEF DatagramStartsFlow, TypeOK
<1>3. ASSUME NEW g \in Goroutines, Reply(g) \/ FlowExpires(g) PROVE TypeOK'
  BY <1>3 DEF Reply, FlowExpires, TypeOK
<1>4. ASSUME NEW g \in Goroutines, ReaderExit(g) PROVE TypeOK'
  BY <1>4 DEF ReaderExit, TypeOK
<1>5. CASE Sweep
  <2>1. closed' \in [Goroutines -> BOOLEAN]
    BY <1>5, Zenon DEF Sweep, TypeOK
  <2>2. /\ pc' \in [Goroutines -> Starting \cup {"none", "reading", "exited"}]
        /\ key' \in [Goroutines -> Clients \cup {None}]
        /\ flows' \in [Clients -> Goroutines \cup {None}]
    BY <1>5 DEF Sweep, TypeOK
  <2> QED
    BY <1>5, <2>1, <2>2 DEF Sweep, TypeOK
<1>6. CASE ListenerExpires
  BY <1>6 DEF ListenerExpires, TypeOK
<1> QED
  BY <1>1, <1>2, <1>3, <1>4, <1>5, <1>6

\* Every step keeps the types.
LEMMA NextType ==
  ASSUME TypeOK, Next
  PROVE  TypeOK'
BY DaemonType, StarterType, LoopType DEF Next

-----------------------------------------------------------------------------
(* pending, flows and their goroutines *)

\* No client, no flow, no goroutine.
LEMMA InitMap == Init => MapInv
BY NoneAssumption DEF Init, MapInv, KeysOK, PendingExact, FlowsOK, NoOrphanSocket, ClosedReads,
                        Starting

\* What the map holds are goroutines that read, or have read, replies.
LEMMA RegisteredReads ==
  ASSUME TypeOK, MapInv
  PROVE  \A c \in Clients : flows[c] # None =>
           /\ flows[c] \in Goroutines /\ key[flows[c]] = c
           /\ pc[flows[c]] \in {"reading", "exited"}
BY DEF TypeOK, MapInv, FlowsOK

\* A step that leaves the maps and the goroutines alone.
LEMMA MapFrame ==
  ASSUME MapInv, UNCHANGED <<pending, flows, pc, key, closed>>
  PROVE  MapInv'
BY DEF MapInv, KeysOK, PendingExact, FlowsOK, NoOrphanSocket, ClosedReads

\* A step of startUDPFlow from one of its labels to another.
LEMMA MapMove ==
  ASSUME TypeOK, MapInv, NEW g \in Goroutines, NEW label \in Starting,
         pc[g] \in Starting, pc' = [pc EXCEPT ![g] = label],
         UNCHANGED <<pending, flows, key, closed>>
  PROVE  MapInv'
<1>1. \A h \in Goroutines :
        /\ pc'[h] \in Starting <=> pc[h] \in Starting
        /\ pc'[h] \notin Starting => pc'[h] = pc[h]
  BY DEF TypeOK
<1>2. "none" \notin Starting /\ "reading" \notin Starting /\ "exited" \notin Starting
  BY DEF Starting
<1>3. KeysOK'
  BY <1>1, <1>2 DEF MapInv, KeysOK
<1>4. PendingExact'
  BY <1>1 DEF MapInv, PendingExact
<1>5. FlowsOK'
  <2>1. \A h \in Goroutines : pc[h] \in {"reading", "exited"} => pc'[h] = pc[h]
    BY <1>1, <1>2
  <2>2. \A h \in Goroutines : pc'[h] = "exited" => pc[h] = "exited"
    BY <1>1, <1>2
  <2>3. \A c \in Clients : flows[c] # None => flows[c] \in Goroutines
    BY DEF TypeOK
  <2> QED
    BY <2>1, <2>2, <2>3 DEF MapInv, FlowsOK
<1>6. NoOrphanSocket' /\ ClosedReads'
  BY <1>1, <1>2 DEF MapInv, NoOrphanSocket, ClosedReads
<1> QED
  BY <1>3, <1>4, <1>5, <1>6 DEF MapInv

\* The first datagram of a client reserves its address.
LEMMA StartsFlowMap ==
  ASSUME TypeOK, MapInv, NEW c \in Clients, NEW g \in Goroutines, DatagramStartsFlow(c, g)
  PROVE  MapInv'
<1>1. /\ pc[g] = "none" /\ flows[c] = None /\ c \notin pending
      /\ pending' = pending \cup {c} /\ flows' = flows /\ closed' = closed
      /\ key'[g] = c /\ pc'[g] = "ensure"
      /\ \A h \in Goroutines \ {g} : key'[h] = key[h] /\ pc'[h] = pc[h]
  BY DEF DatagramStartsFlow, MayStart, Goto, TypeOK, mapVars
<1>2. "ensure" \in Starting /\ "none" \notin Starting
  BY DEF Starting
<1>3. \A d \in Clients : flows[d] # None => flows[d] \in Goroutines \ {g}
  BY <1>1, RegisteredReads
<1>4. KeysOK'
  BY <1>1 DEF MapInv, KeysOK
<1>5. PendingExact'
  <2>1. \A h \in Goroutines : pc'[h] \in Starting => key'[h] \in pending'
    BY <1>1 DEF MapInv, PendingExact
  <2>2. \A h \in Goroutines \ {g} : pc[h] \in Starting => key[h] # c
    BY <1>1 DEF MapInv, PendingExact
  <2>3. \A h, i \in Goroutines :
          pc'[h] \in Starting /\ pc'[i] \in Starting /\ key'[h] = key'[i] => h = i
    BY <1>1, <2>2 DEF MapInv, PendingExact
  <2>4. ASSUME NEW d \in pending'
        PROVE  flows'[d] = None /\ \E h \in Goroutines : pc'[h] \in Starting /\ key'[h] = d
    <3>1. CASE d = c
      BY <1>1, <1>2, <3>1
    <3>2. CASE d \in pending
      <4>1. PICK h \in Goroutines : pc[h] \in Starting /\ key[h] = d
        BY <3>2 DEF MapInv, PendingExact
      <4>2. h # g
        BY <1>1, <1>2, <4>1
      <4> QED
        BY <1>1, <3>2, <4>1, <4>2 DEF MapInv, PendingExact
    <3> QED
      BY <1>1, <2>4, <3>1, <3>2
  <2> QED
    BY <2>1, <2>3, <2>4 DEF PendingExact
<1>6. FlowsOK'
  BY <1>1, <1>3 DEF MapInv, FlowsOK
<1>7. NoOrphanSocket' /\ ClosedReads'
  BY <1>1 DEF MapInv, NoOrphanSocket, ClosedReads
<1> QED
  BY <1>4, <1>5, <1>6, <1>7 DEF MapInv

\* A started flow takes the place of its reservation.
LEMMA RegisterMap ==
  ASSUME TypeOK, MapInv, NEW g \in Goroutines, Register(g)
  PROVE  MapInv'
<1> DEFINE c == key[g]
<1>1. pc[g] \in Starting /\ pc[g] # "none" /\ "reading" \notin Starting
  BY DEF Register, Starting
<1>2. c \in Clients /\ c \in pending /\ flows[c] = None
  BY <1>1 DEF MapInv, KeysOK, PendingExact
<1>3. \A h \in Goroutines \ {g} : pc[h] \in Starting => key[h] # c
  BY <1>1 DEF MapInv, PendingExact
<1>4. /\ pending' = pending \ {c} /\ key' = key /\ closed' = closed
      /\ flows'[c] = g /\ \A d \in Clients \ {c} : flows'[d] = flows[d]
      /\ pc'[g] = "reading" /\ \A h \in Goroutines \ {g} : pc'[h] = pc[h]
  BY <1>2 DEF Register, Goto, TypeOK
<1>5. \A d \in Clients : flows[d] # None => flows[d] \in Goroutines \ {g}
  BY RegisteredReads DEF Register
<1>6. ~closed[g]
  BY DEF MapInv, ClosedReads, Register
<1>7. KeysOK'
  BY <1>2, <1>4 DEF MapInv, KeysOK
<1>8. PendingExact'
  <2>1. \A h \in Goroutines : pc'[h] \in Starting => h # g /\ pc[h] \in Starting
    BY <1>1, <1>4
  <2>2. ASSUME NEW d \in pending'
        PROVE  flows'[d] = None /\ \E h \in Goroutines : pc'[h] \in Starting /\ key'[h] = d
    <3>1. d \in pending /\ d # c /\ d \in Clients
      BY <1>4, <2>2 DEF TypeOK
    <3>2. PICK h \in Goroutines : pc[h] \in Starting /\ key[h] = d
      BY <3>1 DEF MapInv, PendingExact
    <3> QED
      BY <1>4, <3>1, <3>2 DEF MapInv, PendingExact
  <2> QED
    BY <1>3, <1>4, <2>1, <2>2 DEF MapInv, PendingExact
<1>9. FlowsOK'
  <2>1. ASSUME NEW d \in Clients, flows'[d] # None
        PROVE  key'[flows'[d]] = d /\ pc'[flows'[d]] \in {"reading", "exited"}
    BY <1>4, <1>5, <2>1 DEF MapInv, FlowsOK
  <2>2. ASSUME NEW h \in Goroutines, pc'[h] = "exited" PROVE flows'[key'[h]] = h
    <3>1. h # g /\ pc[h] = "exited" /\ key[h] \in Clients /\ flows[key[h]] = h
      BY <1>4, <2>2 DEF MapInv, KeysOK, FlowsOK
    <3>2. key[h] # c
      BY <1>2, <3>1, NoneAssumption
    <3> QED
      BY <1>4, <3>1, <3>2
  <2> QED
    BY <2>1, <2>2 DEF FlowsOK
<1>10. NoOrphanSocket' /\ ClosedReads'
  <2>1. ASSUME NEW h \in Goroutines, pc'[h] = "reading"
        PROVE  flows'[key'[h]] = h <=> ~closed'[h]
    <3>1. CASE h = g
      BY <1>2, <1>4, <1>6, <3>1
    <3>2. CASE h # g
      <4>1. pc[h] = "reading" /\ key[h] \in Clients
        BY <1>4, <2>1, <3>2 DEF MapInv, KeysOK
      <4>2. CASE key[h] = c
        <5>1. closed[h]
          BY <1>2, <4>1, <4>2, NoneAssumption DEF MapInv, NoOrphanSocket
        <5> QED
          BY <1>4, <3>2, <4>2, <5>1
      <4>3. CASE key[h] # c
        BY <1>4, <4>1, <4>3 DEF MapInv, NoOrphanSocket
      <4> QED
        BY <4>2, <4>3
    <3> QED
      BY <3>1, <3>2
  <2> QED
    BY <1>4, <2>1 DEF MapInv, NoOrphanSocket, ClosedReads
<1> QED
  BY <1>7, <1>8, <1>9, <1>10 DEF MapInv

\* A start that fails releases its client's address.
LEMMA CleanupMap ==
  ASSUME TypeOK, MapInv, NEW g \in Goroutines, Cleanup(g)
  PROVE  MapInv'
<1> DEFINE c == key[g]
<1>1. pc[g] \in Starting /\ pc[g] # "none" /\ "reading" \notin Starting /\ "none" \notin Starting
  BY DEF Cleanup, Starting
<1>2. c \in Clients
  BY <1>1 DEF MapInv, KeysOK
<1>3. \A h \in Goroutines \ {g} : pc[h] \in Starting => key[h] # c
  BY <1>1 DEF MapInv, PendingExact
<1>4. /\ pending' = pending \ {c} /\ flows' = flows /\ closed' = closed
      /\ pc'[g] = "none" /\ \A h \in Goroutines \ {g} : pc'[h] = pc[h] /\ key'[h] = key[h]
  BY DEF Cleanup, Goto, TypeOK
<1>5. \A d \in Clients : flows[d] # None => flows[d] \in Goroutines \ {g}
  BY RegisteredReads DEF Cleanup
<1>6. KeysOK'
  BY <1>4 DEF MapInv, KeysOK
<1>7. PendingExact'
  <2>1. \A h \in Goroutines : pc'[h] \in Starting => h # g /\ pc[h] \in Starting
    BY <1>1, <1>4
  <2>2. ASSUME NEW d \in pending'
        PROVE  flows'[d] = None /\ \E h \in Goroutines : pc'[h] \in Starting /\ key'[h] = d
    <3>1. d \in pending /\ d # c
      BY <1>4, <2>2
    <3>2. PICK h \in Goroutines : pc[h] \in Starting /\ key[h] = d
      BY <3>1 DEF MapInv, PendingExact
    <3> QED
      BY <1>4, <3>1, <3>2 DEF MapInv, PendingExact
  <2> QED
    BY <1>3, <1>4, <2>1, <2>2 DEF MapInv, PendingExact
<1>8. FlowsOK'
  BY <1>4, <1>5 DEF MapInv, FlowsOK
<1>9. NoOrphanSocket' /\ ClosedReads'
  BY <1>1, <1>4 DEF MapInv, NoOrphanSocket, ClosedReads, Cleanup
<1> QED
  BY <1>6, <1>7, <1>8, <1>9 DEF MapInv

\* A read loop returns: its flow was swept, or stays in the map without it.
LEMMA ReaderExitMap ==
  ASSUME TypeOK, MapInv, NEW g \in Goroutines, ReaderExit(g)
  PROVE  MapInv'
<1> DEFINE c == key[g]
<1>1. pc[g] = "reading" /\ c \in Clients
  BY DEF ReaderExit, MapInv, KeysOK
<1>2. /\ pending' = pending /\ flows' = flows
      /\ closed'[g] = FALSE
      /\ \A h \in Goroutines \ {g} : pc'[h] = pc[h] /\ key'[h] = key[h] /\ closed'[h] = closed[h]
      /\ flows[c] = g => pc'[g] = "exited" /\ key'[g] = c
      /\ flows[c] # g => pc'[g] = "none"
  BY DEF ReaderExit, Goto, TypeOK, mapVars
<1>3. \A h \in Goroutines : pc'[h] \in Starting <=> pc[h] \in Starting
  BY <1>1, <1>2 DEF Starting
<1>4. \A h \in Goroutines : pc[h] \in Starting => h # g
  BY <1>1 DEF Starting
<1>5. KeysOK'
  BY <1>1, <1>2 DEF MapInv, KeysOK
<1>6. PendingExact'
  BY <1>2, <1>3, <1>4 DEF MapInv, PendingExact
<1>7. FlowsOK'
  <2>1. ASSUME NEW d \in Clients, flows[d] # None
        PROVE  key'[flows[d]] = d /\ pc'[flows[d]] \in {"reading", "exited"}
    <3>1. flows[d] \in Goroutines /\ key[flows[d]] = d /\ pc[flows[d]] \in {"reading", "exited"}
      BY <2>1, RegisteredReads
    <3> QED
      BY <1>2, <3>1
  <2>2. ASSUME NEW h \in Goroutines, pc'[h] = "exited" PROVE flows[key'[h]] = h
    BY <1>2, <2>2 DEF MapInv, FlowsOK
  <2> QED
    BY <1>2, <2>1, <2>2 DEF FlowsOK
<1>8. NoOrphanSocket' /\ ClosedReads'
  BY <1>2 DEF MapInv, NoOrphanSocket, ClosedReads
<1> QED
  BY <1>5, <1>6, <1>7, <1>8 DEF MapInv

\* The sweeper closes the sockets of exactly the flows that it takes out of the map.
LEMMA SweepMap ==
  ASSUME TypeOK, MapInv, Sweep
  PROVE  MapInv'
<1> DEFINE swept == {flows[c] : c \in {d \in Clients : Sweepable(d)}}
<1>1. \A g \in Goroutines :
        /\ closed'[g] = (closed[g] \/ (g \in swept /\ pc[g] = "reading"))
        /\ pc'[g] = IF g \in swept /\ pc[g] = "exited" THEN "none" ELSE pc[g]
        /\ key'[g] = IF g \in swept /\ pc[g] = "exited" THEN None ELSE key[g]
  BY Zenon DEF Sweep
<1>2. pending' = pending /\ \A c \in Clients : flows'[c] = IF Sweepable(c) THEN None ELSE flows[c]
  BY DEF Sweep
<1>3. ASSUME NEW g \in Goroutines, pc[g] \in {"reading", "exited"}
      PROVE  g \in swept <=> flows[key[g]] = g /\ Sweepable(key[g])
  <2>1. key[g] \in Clients
    BY <1>3 DEF MapInv, KeysOK
  <2>2. g \in swept => flows[key[g]] = g /\ Sweepable(key[g])
    <3>1. SUFFICES ASSUME NEW c \in Clients, Sweepable(c), g = flows[c]
                   PROVE  flows[key[g]] = g /\ Sweepable(key[g])
      OBVIOUS
    <3>2. key[g] = c
      BY <3>1, RegisteredReads DEF Sweepable
    <3> QED
      BY <3>1, <3>2
  <2> QED
    BY <2>1, <2>2
<1> HIDE DEF swept
<1>4. \A g \in Goroutines : pc'[g] # "none" => pc'[g] = pc[g] /\ key'[g] = key[g]
  BY <1>1
<1>5. \A g \in Goroutines : pc[g] \in Starting => pc'[g] = pc[g]
  BY <1>1 DEF Starting
<1>6. "none" \notin Starting
  BY DEF Starting
<1>7. KeysOK'
  BY <1>4 DEF MapInv, KeysOK
<1>8. PendingExact'
  <2>1. \A g \in Goroutines : pc'[g] \in Starting => pc[g] \in Starting /\ key'[g] = key[g]
    BY <1>4, <1>6
  <2>2. \A g \in Goroutines : pc[g] \in Starting => pc'[g] \in Starting
    BY <1>5
  <2>3. \A c \in pending : flows'[c] = None
    BY <1>2 DEF MapInv, PendingExact, TypeOK
  <2> QED
    BY <1>2, <2>1, <2>2, <2>3 DEF MapInv, PendingExact
<1>9. FlowsOK'
  <2>1. ASSUME NEW c \in Clients, flows'[c] # None
        PROVE  key'[flows'[c]] = c /\ pc'[flows'[c]] \in {"reading", "exited"}
    <3>1. ~Sweepable(c) /\ flows'[c] = flows[c]
      BY <1>2, <2>1
    <3>2. /\ flows[c] \in Goroutines /\ key[flows[c]] = c
          /\ pc[flows[c]] \in {"reading", "exited"}
      BY <2>1, <3>1, RegisteredReads
    <3>3. flows[c] \notin swept
      BY <1>3, <3>1, <3>2
    <3> QED
      BY <1>1, <3>1, <3>2, <3>3
  <2>2. ASSUME NEW g \in Goroutines, pc'[g] = "exited" PROVE flows'[key'[g]] = g
    <3>1. pc[g] = "exited" /\ key'[g] = key[g] /\ g \notin swept
      BY <1>1, <2>2
    <3>2. flows[key[g]] = g /\ key[g] \in Clients
      BY <3>1 DEF MapInv, FlowsOK, KeysOK
    <3> QED
      BY <1>2, <1>3, <3>1, <3>2
  <2> QED
    BY <2>1, <2>2 DEF FlowsOK
<1>10. NoOrphanSocket' /\ ClosedReads'
  <2>1. ASSUME NEW g \in Goroutines, pc'[g] = "reading"
        PROVE  flows'[key'[g]] = g <=> ~closed'[g]
    <3>1. pc[g] = "reading" /\ key'[g] = key[g] /\ key[g] \in Clients /\ g # None
      BY <1>4, <2>1, NoneAssumption DEF MapInv, KeysOK
    <3>2. flows'[key[g]] = g <=> flows[key[g]] = g /\ ~Sweepable(key[g])
      BY <1>2, <3>1
    <3>3. closed'[g] <=> closed[g] \/ (flows[key[g]] = g /\ Sweepable(key[g]))
      BY <1>1, <1>3, <3>1
    <3> QED
      BY <3>1, <3>2, <3>3 DEF MapInv, NoOrphanSocket
  <2>2. ASSUME NEW g \in Goroutines, closed'[g] PROVE pc'[g] = "reading"
    BY <1>1, <2>2 DEF MapInv, ClosedReads
  <2> QED
    BY <2>1, <2>2 DEF NoOrphanSocket, ClosedReads
<1> QED
  BY <1>7, <1>8, <1>9, <1>10 DEF MapInv

\* The labels of startUDPFlow between which only the label changes the maps' view.
LEMMA StarterMap ==
  ASSUME TypeOK, MapInv, NEW g \in Goroutines, Starter(g)
  PROVE  MapInv'
<1>1. CASE Register(g) \/ Cleanup(g)
  BY <1>1, RegisterMap, CleanupMap
<1>2. CASE ~(Register(g) \/ Cleanup(g))
  <2>1. UNCHANGED <<pending, flows, key, closed>>
    BY <1>2 DEF Starter, EnsureRunning, Dial, FastPath, Follow, Lead, Woken, Probe, Publish,
                Send, mapVars
  <2>2. pc[g] \in Starting
    BY <1>2 DEF Starter, EnsureRunning, Dial, FastPath, Follow, Lead, Woken, Probe, Publish,
                Send, Starting
  <2>3. \E label \in Starting : pc' = [pc EXCEPT ![g] = label]
    <3>1. \A label \in Starting : Goto(g, label) => \E l \in Starting : pc' = [pc EXCEPT ![g] = l]
      BY DEF Goto
    <3>2. UNCHANGED pc => pc' = [pc EXCEPT ![g] = pc[g]]
      BY DEF TypeOK
    <3>3. {"dial", "cleanup", "role", "send", "wait", "probe", "publish", "register"} \subseteq Starting
      BY DEF Starting
    <3>4. \/ UNCHANGED pc
          \/ \E l \in {"dial", "cleanup", "role", "send", "wait", "probe", "publish", "register"} :
               Goto(g, l)
      BY <1>2 DEF Starter, EnsureRunning, Dial, FastPath, Follow, Lead, Woken, Probe, Publish, Send
    <3> QED
      BY <2>2, <3>1, <3>2, <3>3, <3>4
  <2> QED
    BY <2>1, <2>2, <2>3, MapMove
<1> QED
  BY <1>1, <1>2

\* Every step keeps the maps and their goroutines together.
LEMMA NextMap ==
  ASSUME TypeOK, MapInv, Next
  PROVE  MapInv'
<1>1. CASE \/ ExternalChange \/ ContainerStarted \/ ContainerStopped \/ ResetReadiness
           \/ CheckIdle \/ CheckStop \/ CheckMark \/ StopAfterTimeout \/ RemoveTarget
           \/ ListenerExpires
  BY <1>1, MapFrame DEF ExternalChange, ContainerStarted, ContainerStopped, ResetReadiness,
       CheckIdle, CheckStop, CheckMark, StopAfterTimeout, RemoveTarget, ListenerExpires,
       mapVars, goVars
<1>2. ASSUME NEW c \in Clients, DatagramOnFlow(c) PROVE MapInv'
  BY <1>2, MapFrame DEF DatagramOnFlow, mapVars
<1>3. ASSUME NEW g \in Goroutines, Reply(g) \/ FlowExpires(g) PROVE MapInv'
  BY <1>3, MapFrame DEF Reply, FlowExpires, mapVars
<1> QED
  BY <1>1, <1>2, <1>3, StartsFlowMap, StarterMap, ReaderExitMap, SweepMap DEF Next

-----------------------------------------------------------------------------
(* Sleepers and leaders *)

\* The label of a leader that has published is another.
LEMMA NextWake ==
  ASSUME TypeOK, WakeInv, Next
  PROVE  WakeInv'
<1>1. ASSUME starting' = starting, asleep' \subseteq asleep,
             \A g \in Goroutines : Leading(g) => Leading(g)'
      PROVE  WakeInv'
  BY <1>1 DEF WakeInv
<1>2. CASE \/ ExternalChange \/ ContainerStarted \/ ContainerStopped
           \/ CheckIdle \/ CheckStop \/ CheckMark \/ StopAfterTimeout \/ RemoveTarget
           \/ ListenerExpires
  BY <1>1, <1>2 DEF ExternalChange, ContainerStarted, ContainerStopped,
       CheckIdle, CheckStop, CheckMark, StopAfterTimeout, RemoveTarget, ListenerExpires,
       readyVars, goVars, Leading
<1>3. CASE ResetReadiness
  BY <1>3 DEF ResetReadiness, WakeInv
<1>4. ASSUME NEW c \in Clients, DatagramOnFlow(c) PROVE WakeInv'
  BY <1>1, <1>4 DEF DatagramOnFlow, readyVars, Leading
<1>5. ASSUME NEW c \in Clients, NEW g \in Goroutines, DatagramStartsFlow(c, g) PROVE WakeInv'
  BY <1>1, <1>5 DEF DatagramStartsFlow, Goto, readyVars, Leading, TypeOK
<1>6. ASSUME NEW g \in Goroutines, Reply(g) \/ FlowExpires(g) \/ ReaderExit(g) PROVE WakeInv'
  BY <1>1, <1>6 DEF Reply, FlowExpires, ReaderExit, Goto, readyVars, Leading, TypeOK
<1>7. CASE Sweep
  BY <1>1, <1>7 DEF Sweep, readyVars, Leading
<1>8. ASSUME NEW g \in Goroutines, Starter(g) PROVE WakeInv'
  <2>1. CASE \/ EnsureRunning(g) \/ Dial(g) \/ FastPath(g) \/ Send(g) \/ Register(g)
             \/ Cleanup(g)
    BY <1>1, <2>1 DEF EnsureRunning, Dial, FastPath, Send, Register, Cleanup, Goto,
         readyVars, Leading, TypeOK
  <2>2. CASE Follow(g)
    <3>1. \A h \in Goroutines : Leading(h) => Leading(h)'
      BY <2>2 DEF Follow, Goto, Leading, TypeOK
    <3> QED
      BY <2>2, <3>1 DEF Follow, WakeInv
  <2>3. CASE Lead(g)
    BY <2>3 DEF Lead, Goto, Leading, TypeOK, WakeInv
  <2>4. CASE Woken(g)
    <3>1. \A h \in Goroutines : Leading(h) => Leading(h)'
      BY <2>4 DEF Woken, Goto, Leading, TypeOK
    <3> QED
      BY <2>4, <3>1 DEF Woken, WakeInv
  <2>5. CASE Probe(g)
    <3>1. \A h \in Goroutines : Leading(h) => Leading(h)'
      BY <2>5 DEF Probe, Goto, Leading, TypeOK
    <3> QED
      BY <1>1, <2>5, <3>1 DEF Probe, readyVars
  <2>6. CASE Publish(g)
    BY <2>6 DEF Publish, Broadcast, WakeInv
  <2> QED
    BY <1>8, <2>1, <2>2, <2>3, <2>4, <2>5, <2>6 DEF Starter
<1> QED
  BY <1>2, <1>3, <1>4, <1>5, <1>6, <1>7, <1>8 DEF Next

-----------------------------------------------------------------------------
(* Theorems *)

\* The invariant holds in every reachable state.
THEOREM InvCorrect == Spec => []Inv
<1>1. Init => Inv
  BY InitType, InitMap DEF Inv, WakeInv, Init
<1>2. Inv /\ [Next]_vars => Inv'
  <2> SUFFICES ASSUME Inv, [Next]_vars PROVE Inv'
    OBVIOUS
  <2>1. CASE Next
    BY <2>1, NextType, NextMap, NextWake DEF Inv
  <2>2. CASE UNCHANGED vars
    <3>1. TypeOK'
      BY <2>2 DEF vars, Inv, TypeOK
    <3>2. MapInv'
      BY <2>2, MapFrame DEF vars, Inv
    <3>3. WakeInv'
      BY <2>2 DEF vars, Inv, WakeInv, Leading
    <3> QED
      BY <3>1, <3>2, <3>3 DEF Inv
  <2> QED
    BY <2>1, <2>2
<1> QED
  BY <1>1, <1>2, PTL DEF Spec

\* Every variable keeps its type; a leader makes at most Retries attempts.
THEOREM TypeCorrect == Spec => []TypeOK
<1>1. Inv => TypeOK
  BY DEF Inv
<1> QED
  BY <1>1, InvCorrect, PTL

\* pending is exact: no path through startUDPFlow leaves an address reserved, and no
\* registration replaces a flow.
THEOREM PendingExactCorrect == Spec => []PendingExact
<1>1. Inv => PendingExact
  BY DEF Inv, MapInv
<1> QED
  BY <1>1, InvCorrect, PTL

\* Every upstream socket that is open is in the map, where the sweeper finds it.
THEOREM NoOrphanSocketCorrect == Spec => []NoOrphanSocket
<1>1. Inv => NoOrphanSocket
  BY DEF Inv, MapInv
<1> QED
  BY <1>1, InvCorrect, PTL

\* No wake-up is lost: whoever sleeps on the condition has a leader still to publish.
THEOREM SleeperHasLeaderCorrect == Spec => []SleeperHasLeader
<1>1. Inv => SleeperHasLeader
  BY DEF Inv, WakeInv, SleeperHasLeader
<1> QED
  BY <1>1, InvCorrect, PTL
=============================================================================
