----------------------------- MODULE UdpListener -----------------------------
(***************************************************************************)
(* One UDP listener of an on-demand container: internal/proxy/udp.go, with *)
(* the parts of server.go that act on an udpListenerState.                 *)
(*                                                                         *)
(* Each client address is a flow.  startUDPFlow runs in a goroutine of its *)
(* own; the first one to find the upstream not ready leads a retry loop,   *)
(* the others follow on a condition variable.  A goroutine that succeeds   *)
(* goes on as the flow's udpUpstreamReadLoop, so a flow is identified here *)
(* with its goroutine.  EnsureRunning is one step (ProxyLifecycle models   *)
(* its calls); time is "fresh" or "expired" as there.                      *)
(***************************************************************************)
EXTENDS Integers, Sequences, FiniteSets

CONSTANTS
  Clients,     \* client addresses, the keys of flows and pending
  Goroutines,  \* startUDPFlow / udpUpstreamReadLoop goroutines alive together
  Retries,     \* readiness attempts that fit in startTimeout
  MaxEvents,   \* bound: undelivered Docker events
  MaxStops,    \* bound: StopContainer goroutines left behind by failed leaders
  None         \* no client, no flow

ASSUME NoneAssumption == None \notin Clients \cup Goroutines
ASSUME BoundsAssumption == Retries \in Nat \ {0} /\ MaxEvents \in Nat /\ MaxStops \in Nat

VARIABLES
  container,   \* what the daemon runs, "up" or "down"
  events,      \* its events not yet received, "start" or "die"
  resetting,   \* ContainerStopped is past s.mu and has not reset readiness yet
  stops,       \* asynchronous StopContainer calls outstanding
  removed,     \* RemoveTarget has run: uls.removed, listen socket closed
  running,     \* uls.running
  lastActive,  \* uls.lastActive
  ready,       \* uls.upstreamReady
  starting,    \* uls.upstreamStarting
  asleep,      \* goroutines waiting on upstreamReadyCond
  pending,     \* uls.pending
  flows,       \* uls.flows: the flow of each client, or None
  pc,          \* where each goroutine is
  key,         \* its client
  attempt,     \* the leader's attempt
  responded,   \* the leader's outcome
  flowActive,  \* flow.lastActive
  closed,      \* flow.upstreamConn has been closed
  chkPc        \* checkInactivity: "sleep", "stop" or "mark"

dockerVars   == <<container, events, resetting, stops>>
readyVars    == <<ready, starting, asleep>>
listenerVars == <<removed, running, lastActive>>
mapVars      == <<pending, flows>>
goVars       == <<pc, key, attempt, responded, flowActive, closed>>
vars == <<container, events, resetting, stops, removed, running, lastActive,
          ready, starting, asleep, pending, flows,
          pc, key, attempt, responded, flowActive, closed, chkPc>>

Starting == {"ensure", "dial", "role", "wait", "probe", "publish", "register",
             "send", "cleanup"}  \* labels of startUDPFlow

-----------------------------------------------------------------------------
(* The daemon and the checker *)

SetContainer(state) ==
  /\ container' = state
  /\ IF container = state
     THEN events' = events
     ELSE /\ Len(events) < MaxEvents
          /\ events' = Append(events, IF state = "up" THEN "start" ELSE "die")

ExternalChange ==
  /\ SetContainer(IF container = "up" THEN "down" ELSE "up")
  /\ UNCHANGED <<resetting, stops, listenerVars, readyVars, mapVars, goVars, chkPc>>

\* ContainerStarted, while the listener is registered.
ContainerStarted ==
  /\ ~resetting /\ events # <<>> /\ Head(events) = "start"
  /\ events' = Tail(events)
  /\ running' = (running \/ ~removed)
  /\ UNCHANGED <<container, resetting, stops, removed, lastActive, readyVars, mapVars, goVars, chkPc>>

\* ContainerStopped: running = false under s.mu ...
ContainerStopped ==
  /\ ~resetting /\ events # <<>> /\ Head(events) = "die"
  /\ events' = Tail(events)
  /\ running' = (running /\ removed)
  /\ resetting' = ~removed
  /\ UNCHANGED <<container, stops, removed, lastActive, readyVars, mapVars, goVars, chkPc>>

\* ... then, under uls.mu, readiness is reset and followers are woken.
ResetReadiness ==
  /\ resetting /\ resetting' = FALSE
  /\ ready' = FALSE
  /\ starting' = FALSE
  /\ asleep' = IF starting THEN {} ELSE asleep
  /\ UNCHANGED <<container, events, stops, listenerVars, mapVars, goVars, chkPc>>

\* checkInactivity, with this listener as the container's only mapping.
CheckIdle ==
  /\ chkPc = "sleep" /\ ~removed
  /\ running /\ lastActive = "expired" /\ pending = {} /\ \A c \in Clients : flows[c] = None
  /\ chkPc' = "stop"
  /\ UNCHANGED <<dockerVars, listenerVars, readyVars, mapVars, goVars>>

CheckStop ==
  /\ chkPc = "stop"
  /\ \/ SetContainer("down") /\ chkPc' = "mark"
     \/ UNCHANGED <<container, events>> /\ chkPc' = "sleep"
  /\ UNCHANGED <<resetting, stops, listenerVars, readyVars, mapVars, goVars>>

CheckMark ==
  /\ chkPc = "mark" /\ chkPc' = "sleep"
  /\ running' = FALSE
  /\ UNCHANGED <<dockerVars, removed, lastActive, readyVars, mapVars, goVars>>

\* The StopContainer goroutine of a leader that got no answer.
StopAfterTimeout ==
  /\ stops > 0 /\ stops' = stops - 1
  /\ SetContainer("down") \/ UNCHANGED <<container, events>>
  /\ UNCHANGED <<resetting, listenerVars, readyVars, mapVars, goVars, chkPc>>

\* RemoveTarget: the flag and the listen socket; flows are left as they are.
RemoveTarget ==
  /\ ~removed /\ removed' = TRUE
  /\ UNCHANGED <<dockerVars, running, lastActive, readyVars, mapVars, goVars, chkPc>>

-----------------------------------------------------------------------------
(* udpReadLoop *)

Goto(g, label) == pc' = [pc EXCEPT ![g] = label]

\* A datagram on an existing flow refreshes it and is written upstream.
DatagramOnFlow(c) ==
  /\ ~removed /\ flows[c] # None
  /\ flowActive' = [flowActive EXCEPT ![flows[c]] = "fresh"]
  /\ lastActive' = "fresh"
  /\ UNCHANGED <<dockerVars, removed, running, readyVars, mapVars,
                 pc, key, attempt, responded, closed, chkPc>>

MayStartIgnoringPending(c) == flows[c] = None  \* regression
MayStart(c) == flows[c] = None /\ c \notin pending

\* The first datagram of a client starts a flow; the following ones are dropped
\* until it is registered.
DatagramStartsFlow(c, g) ==
  /\ ~removed /\ pc[g] = "none" /\ MayStart(c)
  /\ pending' = pending \cup {c}
  /\ key' = [key EXCEPT ![g] = c]
  /\ Goto(g, "ensure")
  /\ UNCHANGED <<dockerVars, listenerVars, readyVars, flows,
                 attempt, responded, flowActive, closed, chkPc>>

-----------------------------------------------------------------------------
(* startUDPFlow *)

EnsureRunning(g) ==
  /\ pc[g] = "ensure"
  /\ \/ SetContainer("up") /\ Goto(g, "dial")
     \/ UNCHANGED <<container, events>> /\ Goto(g, "cleanup")
  /\ UNCHANGED <<resetting, stops, listenerVars, readyVars, mapVars,
                 key, attempt, responded, flowActive, closed, chkPc>>

\* GetUpstreamHost, ResolveUDPAddr, DialUDP: only a running container has a host.
Dial(g) ==
  /\ pc[g] = "dial"
  /\ \/ container = "up" /\ Goto(g, "role")
     \/ Goto(g, "cleanup")
  /\ UNCHANGED <<dockerVars, listenerVars, readyVars, mapVars,
                 key, attempt, responded, flowActive, closed, chkPc>>

FastPath(g) ==
  /\ pc[g] = "role" /\ ready
  /\ Goto(g, "send")
  /\ UNCHANGED <<dockerVars, listenerVars, readyVars, mapVars,
                 key, attempt, responded, flowActive, closed, chkPc>>

Follow(g) ==
  /\ pc[g] = "role" /\ ~ready /\ starting
  /\ Goto(g, "wait")
  /\ asleep' = IF removed THEN asleep ELSE asleep \cup {g}
  /\ UNCHANGED <<dockerVars, listenerVars, ready, starting, mapVars,
                 key, attempt, responded, flowActive, closed, chkPc>>

Lead(g) ==
  /\ pc[g] = "role" /\ ~ready /\ ~starting
  /\ starting' = TRUE
  /\ attempt' = [attempt EXCEPT ![g] = 1]
  /\ Goto(g, "probe")
  /\ UNCHANGED <<dockerVars, listenerVars, ready, asleep, mapVars,
                 key, responded, flowActive, closed, chkPc>>

\* A follower that was woken: wait again, give up, or go on.
Woken(g) ==
  /\ pc[g] = "wait" /\ g \notin asleep
  /\ \/ /\ starting /\ ~removed
        /\ asleep' = asleep \cup {g} /\ UNCHANGED pc
     \/ /\ ~(starting /\ ~removed)
        /\ Goto(g, IF ready /\ ~removed THEN "send" ELSE "cleanup")
        /\ UNCHANGED asleep
  /\ UNCHANGED <<dockerVars, listenerVars, ready, starting, mapVars,
                 key, attempt, responded, flowActive, closed, chkPc>>

MoreProbesOffByOne(g) == attempt[g] <= Retries  \* regression
MoreProbes(g) == attempt[g] < Retries

\* The leader's datagram is answered, or is not within the interval (and may be
\* sent again), or fails for another reason.
Probe(g) ==
  /\ pc[g] = "probe"
  /\ \/ /\ container = "up"
        /\ Goto(g, "publish")
        /\ responded' = [responded EXCEPT ![g] = TRUE]
        /\ attempt' = [attempt EXCEPT ![g] = 0]
     \/ /\ MoreProbes(g)
        /\ attempt' = [attempt EXCEPT ![g] = @ + 1]
        /\ UNCHANGED <<pc, responded>>
     \/ /\ Goto(g, "publish")
        /\ attempt' = [attempt EXCEPT ![g] = 0]
        /\ UNCHANGED responded
  /\ UNCHANGED <<dockerVars, listenerVars, readyVars, mapVars, key, flowActive, closed, chkPc>>

NoBroadcast == UNCHANGED asleep  \* regression: the leader's outcome wakes nobody
SignalOne ==  \* regression: Signal in place of Broadcast
  \/ asleep = {} /\ asleep' = {}
  \/ \E g \in asleep : asleep' = asleep \ {g}
Broadcast == asleep' = {}

\* The leader publishes its outcome; without an answer it has the container
\* stopped and drops its datagram.
Publish(g) ==
  /\ pc[g] = "publish"
  /\ starting' = FALSE
  /\ ready' = (ready \/ responded[g])
  /\ Broadcast
  /\ IF responded[g]
     THEN Goto(g, "register") /\ UNCHANGED stops
     ELSE Goto(g, "cleanup") /\ stops < MaxStops /\ stops' = stops + 1
  /\ responded' = [responded EXCEPT ![g] = FALSE]
  /\ UNCHANGED <<container, events, resetting, listenerVars, mapVars,
                 key, attempt, flowActive, closed, chkPc>>

\* Fast path or follower: the datagram is sent once, an answer is not required.
Send(g) ==
  /\ pc[g] = "send"
  /\ Goto(g, "register") \/ Goto(g, "cleanup")
  /\ UNCHANGED <<dockerVars, listenerVars, readyVars, mapVars,
                 key, attempt, responded, flowActive, closed, chkPc>>

Register(g) ==
  /\ pc[g] = "register"
  /\ pending' = pending \ {key[g]}
  /\ flows' = [flows EXCEPT ![key[g]] = g]
  /\ lastActive' = "fresh"
  /\ flowActive' = [flowActive EXCEPT ![g] = "fresh"]
  /\ Goto(g, "reading")
  /\ UNCHANGED <<dockerVars, removed, running, readyVars, key, attempt, responded, closed, chkPc>>

CleanupKeepsPending(g) ==  \* regression: an error path without cleanup()
  /\ pc[g] = "cleanup"
  /\ key' = [key EXCEPT ![g] = None]
  /\ Goto(g, "none")
  /\ UNCHANGED <<dockerVars, listenerVars, readyVars, mapVars,
                 attempt, responded, flowActive, closed, chkPc>>

Cleanup(g) ==
  /\ pc[g] = "cleanup"
  /\ pending' = pending \ {key[g]}
  /\ key' = [key EXCEPT ![g] = None]
  /\ Goto(g, "none")
  /\ UNCHANGED <<dockerVars, listenerVars, readyVars, flows,
                 attempt, responded, flowActive, closed, chkPc>>

-----------------------------------------------------------------------------
(* udpUpstreamReadLoop, udpFlowSweeper *)

\* A reply goes to the flow's client and refreshes the flow.
Reply(g) ==
  /\ pc[g] = "reading" /\ ~closed[g] /\ container = "up"
  /\ flowActive' = [flowActive EXCEPT ![g] = "fresh"]
  /\ lastActive' = "fresh"
  /\ UNCHANGED <<dockerVars, removed, running, readyVars, mapVars,
                 pc, key, attempt, responded, closed, chkPc>>

\* The loop returns on any read error: its socket was closed, or the stopped
\* container's address refused a datagram.
ReaderExit(g) ==
  /\ pc[g] = "reading" /\ (closed[g] \/ container = "down")
  /\ Goto(g, IF flows[key[g]] = g THEN "exited" ELSE "none")
  /\ key' = [key EXCEPT ![g] = IF flows[@] = g THEN @ ELSE None]
  /\ closed' = [closed EXCEPT ![g] = FALSE]
  /\ UNCHANGED <<dockerVars, listenerVars, readyVars, mapVars,
                 attempt, responded, flowActive, chkPc>>

SweepableByListener(c) ==  \* regression: the listener's clock, not the flow's
  flows[c] # None /\ lastActive = "expired"
Sweepable(c) == flows[c] # None /\ flowActive[flows[c]] = "expired"

\* A tick of the sweeper closes and forgets every flow past the timeout.
Sweep ==
  /\ ~removed /\ \E c \in Clients : Sweepable(c)
  /\ LET swept == {flows[c] : c \in {d \in Clients : Sweepable(d)}} IN
       /\ closed' = [g \in Goroutines |-> closed[g] \/ (g \in swept /\ pc[g] = "reading")]
       /\ pc' = [g \in Goroutines |-> IF g \in swept /\ pc[g] = "exited" THEN "none" ELSE pc[g]]
       /\ key' = [g \in Goroutines |-> IF g \in swept /\ pc[g] = "exited" THEN None ELSE key[g]]
  /\ flows' = [c \in Clients |-> IF Sweepable(c) THEN None ELSE flows[c]]
  /\ UNCHANGED <<dockerVars, listenerVars, readyVars, pending,
                 attempt, responded, flowActive, chkPc>>

\* Time: the listener was active at least as recently as each of its flows.
FlowExpires(g) ==
  /\ pc[g] \in {"reading", "exited"} /\ flowActive[g] = "fresh"
  /\ flowActive' = [flowActive EXCEPT ![g] = "expired"]
  /\ UNCHANGED <<dockerVars, listenerVars, readyVars, mapVars,
                 pc, key, attempt, responded, closed, chkPc>>

ListenerExpires ==
  /\ lastActive = "fresh" /\ \A g \in Goroutines : flowActive[g] = "expired"
  /\ lastActive' = "expired"
  /\ UNCHANGED <<dockerVars, removed, running, readyVars, mapVars, goVars, chkPc>>

-----------------------------------------------------------------------------
(* The specification *)

\* What the proxy does by itself, as opposed to clients, users and the daemon.
Starter(g) ==
  \/ EnsureRunning(g) \/ Dial(g) \/ FastPath(g) \/ Follow(g) \/ Lead(g) \/ Woken(g)
  \/ Probe(g) \/ Publish(g) \/ Send(g) \/ Register(g) \/ Cleanup(g)

Next ==
  \/ ExternalChange \/ ContainerStarted \/ ContainerStopped \/ ResetReadiness
  \/ CheckIdle \/ CheckStop \/ CheckMark \/ StopAfterTimeout \/ RemoveTarget
  \/ \E c \in Clients : DatagramOnFlow(c) \/ \E g \in Goroutines : DatagramStartsFlow(c, g)
  \/ \E g \in Goroutines : Starter(g) \/ Reply(g) \/ ReaderExit(g) \/ FlowExpires(g)
  \/ Sweep \/ ListenerExpires

\* RegisterTarget has just created the listener.
Init ==
  /\ container \in {"up", "down"} /\ events = <<>> /\ resetting = FALSE /\ stops = 0
  /\ removed = FALSE /\ running = (container = "up") /\ lastActive = "expired"
  /\ ready = FALSE /\ starting = FALSE /\ asleep = {}
  /\ pending = {} /\ flows = [c \in Clients |-> None]
  /\ pc = [g \in Goroutines |-> "none"]
  /\ key = [g \in Goroutines |-> None]
  /\ attempt = [g \in Goroutines |-> 0]
  /\ responded = [g \in Goroutines |-> FALSE]
  /\ flowActive = [g \in Goroutines |-> "expired"]
  /\ closed = [g \in Goroutines |-> FALSE]
  /\ chkPc = "sleep"

Spec == Init /\ [][Next]_vars

\* Goroutines are scheduled, calls on the daemon return, the sweeper ticks, time
\* passes for an idle flow. Clients and the upstream may fall silent for ever.
Fairness ==
  /\ \A g \in Goroutines :
       /\ WF_vars(Starter(g)) /\ WF_vars(FlowExpires(g))
       /\ WF_vars(closed[g] /\ ReaderExit(g))
  /\ WF_vars(Sweep) /\ WF_vars(StopAfterTimeout)
  /\ WF_vars(ContainerStarted \/ ContainerStopped \/ ResetReadiness)

FairSpec == Spec /\ Fairness

-----------------------------------------------------------------------------
(* Properties *)

\* Every variable keeps its type; a leader makes at most Retries attempts.
TypeOK ==
  /\ container \in {"up", "down"} /\ events \in Seq({"start", "die"})
  /\ resetting \in BOOLEAN /\ stops \in 0..MaxStops
  /\ removed \in BOOLEAN /\ running \in BOOLEAN /\ lastActive \in {"fresh", "expired"}
  /\ ready \in BOOLEAN /\ starting \in BOOLEAN /\ asleep \subseteq Goroutines
  /\ pending \subseteq Clients
  /\ flows \in [Clients -> Goroutines \cup {None}]
  /\ pc \in [Goroutines -> Starting \cup {"none", "reading", "exited"}]
  /\ key \in [Goroutines -> Clients \cup {None}]
  /\ attempt \in [Goroutines -> 0..Retries]
  /\ responded \in [Goroutines -> BOOLEAN]
  /\ flowActive \in [Goroutines -> {"fresh", "expired"}]
  /\ closed \in [Goroutines -> BOOLEAN]
  /\ chkPc \in {"sleep", "stop", "mark"}

\* pending holds exactly the clients whose flow is being established, one
\* goroutine each, and none of them has a flow: no error path of startUDPFlow
\* forgets cleanup (the client would be dropped for ever and the container never
\* be idle again) and no registration overwrites a live flow.
PendingExact ==
  /\ \A g \in Goroutines : pc[g] \in Starting => key[g] \in pending
  /\ \A g, h \in Goroutines :
       pc[g] \in Starting /\ pc[h] \in Starting /\ key[g] = key[h] => g = h
  /\ \A c \in pending :
       flows[c] = None /\ \E g \in Goroutines : pc[g] \in Starting /\ key[g] = c

\* No upstream socket is orphaned: a read loop whose socket is still open is the
\* one the map holds for its client, so that the sweeper, while it
\* runs, can still close it.
NoOrphanSocket ==
  \A g \in Goroutines : pc[g] = "reading" => (flows[key[g]] = g <=> ~closed[g])

Leading(g) == pc[g] \in {"probe", "publish"}

\* No lost wake-up: while a follower sleeps there is a leader that has yet to
\* publish its outcome, however leaders, resets and removals interleave.
SleeperHasLeader == asleep # {} => starting /\ \E g \in Goroutines : Leading(g)

\* Each sleep of a follower ends, also when the listener is removed meanwhile.
EverySleepEnds == \A g \in Goroutines : g \in asleep ~> g \notin asleep

\* A flow nothing refreshes is swept, and its read loop returns.
IdleFlowsSwept ==
  \A g \in Goroutines :
    pc[g] = "reading" ~> \/ removed \/ pc[g] # "reading"
                         \/ ~closed[g] /\ flowActive[g] = "fresh"

-----------------------------------------------------------------------------
(* What the documentation says and the code does not do *)

\* requirements/2026-04-14-fix-udp-pihole-cold-start-timeouts.md:108,
\* "upstreamReady resets to false when the container stops".
ReadyResetOnStop ==
  ready /\ events = <<>> /\ ~resetting /\ ~removed => container = "up"

\* README_LABELS.md:134, "they do not each start their own retry loop".
OneRetryLoop == \A g, h \in Goroutines : Leading(g) /\ Leading(h) => g = h

\* udp.go:353, "conn closed by sweeper or removal".
RemovalClosesFlows ==
  removed ~> \A g \in Goroutines : pc[g] # "reading"

\* README_LABELS.md:122, "Responses from the container are routed back to the
\* correct client": a flow that takes datagrams has a loop reading its replies.
RepliesAreRead ==
  [][\A c \in Clients : DatagramOnFlow(c) => pc[flows[c]] = "reading"]_vars
=============================================================================
