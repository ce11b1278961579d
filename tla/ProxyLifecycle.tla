--------------------------- MODULE ProxyLifecycle ---------------------------
(***************************************************************************)
(* The on-demand lifecycle of TCP targets: internal/proxy/server.go, with  *)
(* the calls it makes on the Docker backend (internal/docker/manager.go).  *)
(*                                                                         *)
(* Four kinds of activity interleave:                                      *)
(*   - one handleConn goroutine per client connection, which starts the    *)
(*     container (through a singleflight group), waits for it, dials it    *)
(*     and copies bytes;                                                   *)
(*   - the inactivity checker, which reads the per-port fields without a   *)
(*     lock and stops containers whose ports are all idle;                 *)
(*   - the Docker event watcher, which applies start and die events in     *)
(*     order, some time after the container changed;                       *)
(*   - the world: a user or a crash starts and stops containers.           *)
(*                                                                         *)
(* Time is abstracted to what the code asks of it: lastActive[p] is        *)
(* "fresh" while time.Since(lastActive) < idleTimeout, else "expired".     *)
(***************************************************************************)
EXTENDS Integers, Sequences, FiniteSets

CONSTANTS
  Containers,    \* container IDs
  Ports,         \* TCP listen ports, one targetState each
  Conns,         \* handleConn goroutines that may be alive together
  Owner,         \* Owner[p]: the container behind port p
  Availability,  \* Availability[c]: info.Availability, "" when not labelled
  HasCron,       \* HasCron[c]: a cron-start or cron-stop label is present
  Gated,         \* ports with an HTTP or Docker health check
  Retries,       \* dial attempts that fit in startTimeout
  InspectFails,  \* the event watcher's ContainerInspect may fail
  MaxEvents,     \* bound: undelivered Docker events
  None           \* neither a container nor a port

AvailabilityModes == {"", "ondemand", "cron", "manual"}

ASSUME OwnerAssumption == Owner \in [Ports -> Containers]
ASSUME AvailabilityAssumption == Availability \in [Containers -> AvailabilityModes]
ASSUME HasCronAssumption == HasCron \in [Containers -> BOOLEAN]
ASSUME ConnsAssumption == IsFiniteSet(Conns)
ASSUME NoneAssumption == None \notin Containers \cup Ports
ASSUME InspectAssumption == InspectFails \in BOOLEAN
ASSUME BoundsAssumption == Retries \in Nat \ {0} /\ MaxEvents \in Nat

VARIABLES
  container,    \* container[c]: what the Docker daemon runs, "up" or "down"
  events,       \* events emitted by the daemon and not yet received
  held,         \* container whose start event is past RegisterTarget, or None
  running,      \* targetState.running
  lastActive,   \* targetState.lastActive, "fresh" or "expired"
  activeConns,  \* targetState.activeConns
  pc,           \* where each handleConn goroutine is
  port,         \* the port its connection came in on, None when there is none
  attempt,      \* its dial attempt, 0 outside the dial loop
  flight,       \* startGroup: the EnsureRunning call in flight per container
  chkPc,        \* where checkInactivity is
  chkTodo,      \* ports of the snapshot still to be looked at
  chkPort,      \* the port being looked at, or None
  chkBusy,      \* containers with an entry whose allIdle is false
  chkStop,      \* entries with allIdle still to be stopped
  chkMark,      \* ports of the stopped container still to be marked
  recent,       \* history: bytes of a session of the port ended within the timeout
  calm,         \* history: ports seen without a connection during this pass
  idleSeen      \* history: ports seen not recent, then or later in the pass

serverVars  == <<running, lastActive, activeConns>>
handlerVars == <<pc, port, attempt, flight>>
dockerVars  == <<container, events, held>>
historyVars == <<recent, calm, idleSeen>>
chkVars     == <<chkPc, chkTodo, chkPort, chkBusy, chkStop, chkMark>>
vars == <<container, events, held, running, lastActive, activeConns,
          pc, port, attempt, flight,
          chkPc, chkTodo, chkPort, chkBusy, chkStop, chkMark,
          recent, calm, idleSeen>>

PortsOf(c) == {p \in Ports : Owner[p] = c}

-----------------------------------------------------------------------------
(* Availability *)

\* types.EffectiveAvailability: an explicit mode wins, cron labels imply cron.
EffectiveAvailability(c) ==
  CASE Availability[c] # "" -> Availability[c]
    [] Availability[c] = "" /\ HasCron[c] -> "cron"
    [] OTHER -> "ondemand"

StartsUnlessCron(c) == Availability[c] # "cron"  \* regression: manual is started too

\* handleConn's own test, on the label and not on the effective mode.
StartsOnConnect(c) == Availability[c] \notin {"cron", "manual"}

OnDemandPorts == {p \in Ports : EffectiveAvailability(Owner[p]) = "ondemand"}

-----------------------------------------------------------------------------
(* The Docker daemon *)

Event(kind, c) == [kind |-> kind, id |-> c]
Events == [kind : {"start", "die"}, id : Containers]

\* The daemon emits an event only when the container's state changes.
SetContainer(c, state) ==
  /\ container' = [container EXCEPT ![c] = state]
  /\ IF container[c] = state
     THEN events' = events
     ELSE /\ Len(events) < MaxEvents
          /\ events' = Append(events, Event(IF state = "up" THEN "start" ELSE "die", c))

\* A user, another program or a crash changes the container.
ExternalChange(c) ==
  /\ SetContainer(c, IF container[c] = "up" THEN "down" ELSE "up")
  /\ UNCHANGED <<held, serverVars, handlerVars, chkVars>>

-----------------------------------------------------------------------------
(* The event watcher *)

\* running is written for every port of the container in one critical section.
SetRunning(c, value) ==
  running' = [p \in Ports |-> IF Owner[p] = c THEN value ELSE running[p]]

\* "start": containerToTargetInfo inspects the container, the networks are joined
\* and RegisterTarget copies info.Running, which may be out of date by then, into
\* each port; ContainerStarted follows.
WatchStart ==
  /\ held = None /\ events # <<>> /\ Head(events).kind = "start"
  /\ \E inspected \in BOOLEAN : SetRunning(Head(events).id, inspected)
  /\ held' = Head(events).id
  /\ events' = Tail(events)
  /\ UNCHANGED <<container, lastActive, activeConns, handlerVars, chkVars>>

\* The inspection fails: the event is logged and dropped.
WatchStartFailed ==
  /\ InspectFails
  /\ held = None /\ events # <<>> /\ Head(events).kind = "start"
  /\ events' = Tail(events)
  /\ UNCHANGED <<container, held, serverVars, handlerVars, chkVars>>

\* ContainerStarted: running = true on every port.
ContainerStarted ==
  /\ held # None
  /\ SetRunning(held, TRUE)
  /\ held' = None
  /\ UNCHANGED <<container, events, lastActive, activeConns, handlerVars, chkVars>>

\* "die": ContainerStopped, running = false on every port.
ContainerStopped ==
  /\ held = None /\ events # <<>> /\ Head(events).kind = "die"
  /\ SetRunning(Head(events).id, FALSE)
  /\ events' = Tail(events)
  /\ UNCHANGED <<container, held, lastActive, activeConns, handlerVars, chkVars>>

-----------------------------------------------------------------------------
(* handleConn *)

Goto(k, label) == pc' = [pc EXCEPT ![k] = label]

\* acceptLoop hands the connection to a goroutine, which counts itself.
Accept(k, p) ==
  /\ pc[k] = "none"
  /\ activeConns' = [activeConns EXCEPT ![p] = @ + 1]
  /\ port' = [port EXCEPT ![k] = p]
  /\ Goto(k, "accepted")
  /\ UNCHANGED <<dockerVars, running, lastActive, attempt, flight, chkVars>>

BlockedUncounted(k) ==  \* regression: returns past the deferred decrement
  /\ pc[k] = "accepted"
  /\ port' = [port EXCEPT ![k] = None]
  /\ Goto(k, "none")
  /\ UNCHANGED <<dockerVars, serverVars, attempt, flight, chkVars>>

\* ipBlocked: the client's address is refused before anything else happens.
Blocked(k) ==
  /\ pc[k] = "accepted"
  /\ Goto(k, "leaving")
  /\ UNCHANGED <<dockerVars, serverVars, port, attempt, flight, chkVars>>

\* startGroup.Do: the first caller makes the EnsureRunning call, others join it.
JoinStart(k) ==
  LET c == Owner[port[k]] IN
  /\ pc[k] = "accepted" /\ StartsOnConnect(c)
  /\ flight' = [flight EXCEPT ![c] = IF @ = "none" THEN "inspect" ELSE @]
  /\ Goto(k, "ensuring")
  /\ UNCHANGED <<dockerVars, serverVars, port, attempt, chkVars>>

\* A target labelled cron or manual is only forwarded to.
SkipStart(k) ==
  /\ pc[k] = "accepted" /\ ~StartsOnConnect(Owner[port[k]])
  /\ Goto(k, "gate")
  /\ UNCHANGED <<dockerVars, serverVars, port, attempt, flight, chkVars>>

InspectCached(c) ==  \* regression: a flagged container is not asked about
  /\ flight[c] = "inspect"
  /\ flight' = [flight EXCEPT ![c] =
                  IF \E p \in PortsOf(c) : running[p] THEN "ok" ELSE "start"]
  /\ UNCHANGED <<dockerVars, serverVars, pc, port, attempt, chkVars>>

\* EnsureRunning: inspect, then ContainerStart unless it was already running.
\* A backend error at either call is the "failed" result.
Inspect(c) ==
  /\ flight[c] = "inspect"
  /\ \E r \in {IF container[c] = "up" THEN "ok" ELSE "start", "failed"} :
       flight' = [flight EXCEPT ![c] = r]
  /\ UNCHANGED <<dockerVars, serverVars, pc, port, attempt, chkVars>>

ContainerStart(c) ==
  /\ flight[c] = "start"
  /\ \/ SetContainer(c, "up") /\ flight' = [flight EXCEPT ![c] = "ok"]
     \/ UNCHANGED <<container, events>> /\ flight' = [flight EXCEPT ![c] = "failed"]
  /\ UNCHANGED <<held, serverVars, pc, port, attempt, chkVars>>

WaitingFirst(c) ==  \* regression: only the caller gets the result
  {CHOOSE k \in Conns : pc[k] = "ensuring" /\ Owner[port[k]] = c}

\* The call returns to every goroutine that joined it.
Waiting(c) == {k \in Conns : pc[k] = "ensuring" /\ Owner[port[k]] = c}

StartReturns(c) ==
  /\ flight[c] \in {"ok", "failed"}
  /\ flight' = [flight EXCEPT ![c] = "none"]
  /\ pc' = [k \in Conns |->
              IF k \in Waiting(c)
              THEN IF flight[c] = "ok" THEN "started" ELSE "leaving"
              ELSE pc[k]]
  /\ UNCHANGED <<dockerVars, serverVars, port, attempt, chkVars>>

\* Under s.mu every port of the container is marked running.
MarkRunning(k) ==
  /\ pc[k] = "started"
  /\ SetRunning(Owner[port[k]], TRUE)
  /\ Goto(k, "gate")
  /\ UNCHANGED <<dockerVars, lastActive, activeConns, port, attempt, flight, chkVars>>

\* The health check, where there is one, passes or the connection is dropped.
HealthGate(k) ==
  /\ pc[k] = "gate"
  /\ \/ Goto(k, "dialing") /\ attempt' = [attempt EXCEPT ![k] = 1]
     \/ port[k] \in Gated /\ Goto(k, "leaving") /\ UNCHANGED attempt
  /\ UNCHANGED <<dockerVars, serverVars, port, flight, chkVars>>

DialOk(k) ==
  /\ pc[k] = "dialing" /\ container[Owner[port[k]]] = "up"
  /\ Goto(k, "proxying")
  /\ attempt' = [attempt EXCEPT ![k] = 0]
  /\ UNCHANGED <<dockerVars, serverVars, port, flight, chkVars>>

MoreAttempts(k) == attempt[k] < Retries

\* No host or a failed dial: sleep and try again, up to Retries attempts.
DialFailed(k) ==
  /\ pc[k] = "dialing"
  /\ \/ /\ MoreAttempts(k)
        /\ attempt' = [attempt EXCEPT ![k] = @ + 1]
        /\ UNCHANGED pc
     \/ /\ ~MoreAttempts(k)
        /\ Goto(k, "leaving")
        /\ attempt' = [attempt EXCEPT ![k] = 0]
  /\ UNCHANGED <<dockerVars, serverVars, port, flight, chkVars>>

\* Both copies have ended: a peer closed, or the container went away.
CopyEnds(k) ==
  /\ pc[k] = "proxying"
  /\ Goto(k, "drained")
  /\ UNCHANGED <<dockerVars, serverVars, port, attempt, flight, chkVars>>

\* Deferred calls run last in, first out: lastActive is set ...
StampLastActive(k) ==
  /\ pc[k] = "drained"
  /\ lastActive' = [lastActive EXCEPT ![port[k]] = "fresh"]
  /\ Goto(k, "leaving")
  /\ UNCHANGED <<dockerVars, running, activeConns, port, attempt, flight, chkVars>>

\* ... before the connection stops being counted.
Leave(k) ==
  /\ pc[k] = "leaving"
  /\ activeConns' = [activeConns EXCEPT ![port[k]] = @ - 1]
  /\ port' = [port EXCEPT ![k] = None]
  /\ Goto(k, "none")
  /\ UNCHANGED <<dockerVars, running, lastActive, attempt, flight, chkVars>>

\* Time passes and the idle timeout of port p runs out.
IdleTimeout(p) ==
  /\ lastActive[p] = "fresh"
  /\ lastActive' = [lastActive EXCEPT ![p] = "expired"]
  /\ UNCHANGED <<dockerVars, running, activeConns, handlerVars, chkVars>>

-----------------------------------------------------------------------------
(* checkInactivity *)

\* A tick: the snapshot of the ports that are managed on demand.
CheckBegin ==
  /\ chkPc = "sleep"
  /\ chkPc' = "next"
  /\ chkTodo' = OnDemandPorts
  /\ UNCHANGED <<dockerVars, serverVars, handlerVars, chkPort, chkBusy, chkStop, chkMark>>

NotIdleIfLast(cond, p) ==  \* regression: allIdle = !cond, the last port decides
  chkBusy' = IF cond THEN chkBusy \cup {Owner[p]} ELSE chkBusy \ {Owner[p]}

\* allIdle of the container's entry is cleared, never set again.
NotIdleIf(cond, p) ==
  chkBusy' = IF cond THEN chkBusy \cup {Owner[p]} ELSE chkBusy

\* !running || activeConns > 0 makes the entry not idle ...
CheckActive(p) ==
  /\ chkPc = "next" /\ p \in chkTodo
  /\ chkTodo' = chkTodo \ {p}
  /\ NotIdleIf(~running[p] \/ activeConns[p] > 0, p)
  /\ IF ~running[p] \/ activeConns[p] > 0
     THEN UNCHANGED <<chkPc, chkPort>>
     ELSE chkPc' = "last" /\ chkPort' = p
  /\ UNCHANGED <<dockerVars, serverVars, handlerVars, chkStop, chkMark>>

\* ... and so does a lastActive within the timeout, which is read after them.
CheckLast ==
  /\ chkPc = "last"
  /\ chkPc' = "next"
  /\ NotIdleIf(lastActive[chkPort] = "fresh", chkPort)
  /\ chkPort' = None
  /\ UNCHANGED <<dockerVars, serverVars, handlerVars, chkTodo, chkStop, chkMark>>

CheckDecideKeepsEntries ==  \* regression: entries survive into the next pass
  /\ chkPc = "next" /\ chkTodo = {}
  /\ chkPc' = "stop"
  /\ chkStop' = {Owner[p] : p \in OnDemandPorts} \ chkBusy
  /\ UNCHANGED <<dockerVars, serverVars, handlerVars, chkTodo, chkPort, chkBusy, chkMark>>

\* The entries left with allIdle.
CheckDecide ==
  /\ chkPc = "next" /\ chkTodo = {}
  /\ chkPc' = "stop"
  /\ chkStop' = {Owner[p] : p \in OnDemandPorts} \ chkBusy
  /\ chkBusy' = {}
  /\ UNCHANGED <<dockerVars, serverVars, handlerVars, chkTodo, chkPort, chkMark>>

\* StopContainer returned without error: the container is down.
StopOk(c) ==
  /\ chkPc = "stop" /\ chkMark = {} /\ c \in chkStop
  /\ SetContainer(c, "down")
  /\ chkStop' = chkStop \ {c}
  /\ chkMark' = PortsOf(c)
  /\ UNCHANGED <<held, serverVars, handlerVars, chkPc, chkTodo, chkPort, chkBusy>>

\* StopContainer failed: logged, tried again at a later tick.
StopFailed(c) ==
  /\ chkPc = "stop" /\ chkMark = {} /\ c \in chkStop
  /\ chkStop' = chkStop \ {c}
  /\ UNCHANGED <<dockerVars, serverVars, handlerVars, chkPc, chkTodo, chkPort, chkBusy, chkMark>>

\* running = false on one port of the snapshot, without the lock.
MarkStopped(p) ==
  /\ p \in chkMark
  /\ running' = [running EXCEPT ![p] = FALSE]
  /\ chkMark' = chkMark \ {p}
  /\ UNCHANGED <<dockerVars, lastActive, activeConns, handlerVars,
                 chkPc, chkTodo, chkPort, chkBusy, chkStop>>

CheckEnd ==
  /\ chkPc = "stop" /\ chkStop = {} /\ chkMark = {}
  /\ chkPc' = "sleep"
  /\ UNCHANGED <<dockerVars, serverVars, handlerVars, chkTodo, chkPort, chkBusy, chkStop, chkMark>>

-----------------------------------------------------------------------------
(* The specification *)

\* History of the pass in progress, kept in terms of the traffic itself: the
\* clocks of a port (lastActive and recent) run out together.
Observe ==
  /\ recent' = [p \in Ports |->
        \/ \E k \in Conns : pc[k] = "proxying" /\ pc'[k] = "drained" /\ port[k] = p
        \/ recent[p] /\ ~(lastActive[p] = "fresh" /\ lastActive'[p] = "expired")]
  /\ calm' = IF chkPc' = "sleep" THEN {}
             ELSE calm \cup {p \in Ports : activeConns'[p] = 0}
  /\ idleSeen' = IF chkPc' = "sleep" THEN {}
                 ELSE idleSeen \cup {p \in calm' : ~recent'[p]}

Handler(k) ==
  \/ Blocked(k) \/ JoinStart(k) \/ SkipStart(k) \/ MarkRunning(k) \/ HealthGate(k)
  \/ DialOk(k) \/ DialFailed(k) \/ StampLastActive(k) \/ Leave(k)

StartCall(c) == Inspect(c) \/ ContainerStart(c) \/ StartReturns(c)

Watcher == WatchStart \/ WatchStartFailed \/ ContainerStarted \/ ContainerStopped

Checker ==
  \/ CheckBegin \/ CheckLast \/ CheckDecide \/ CheckEnd
  \/ \E p \in Ports : CheckActive(p) \/ MarkStopped(p)
  \/ \E c \in Containers : StopOk(c) \/ StopFailed(c)

Step ==
  \/ \E c \in Containers : ExternalChange(c) \/ StartCall(c)
  \/ \E k \in Conns : Handler(k) \/ CopyEnds(k) \/ \E p \in Ports : Accept(k, p)
  \/ \E p \in Ports : IdleTimeout(p)
  \/ Watcher \/ Checker

Next == Step /\ Observe

\* At start-up Discover registers each port with the inspected state.
Init ==
  /\ container \in [Containers -> {"up", "down"}]
  /\ events = <<>> /\ held = None
  /\ running = [p \in Ports |-> container[Owner[p]] = "up"]
  /\ lastActive = [p \in Ports |-> "expired"]
  /\ activeConns = [p \in Ports |-> 0]
  /\ pc = [k \in Conns |-> "none"]
  /\ port = [k \in Conns |-> None]
  /\ attempt = [k \in Conns |-> 0]
  /\ flight = [c \in Containers |-> "none"]
  /\ chkPc = "sleep" /\ chkTodo = {} /\ chkPort = None
  /\ chkBusy = {} /\ chkStop = {} /\ chkMark = {}
  /\ recent = [p \in Ports |-> FALSE] /\ calm = {} /\ idleSeen = {}

Spec == Init /\ [][Next]_vars

\* Goroutines are scheduled and calls on the daemon return; the ticker keeps
\* ticking, time passes, and StopContainer does not fail for ever. Nothing is
\* assumed of clients, of users, or of the length of a session.
Fairness ==
  /\ \A k \in Conns : WF_vars(Handler(k) /\ Observe)
  /\ \A c \in Containers : WF_vars(StartCall(c) /\ Observe) /\ SF_vars(StopOk(c) /\ Observe)
  /\ \A p \in Ports : WF_vars(IdleTimeout(p) /\ Observe)
  /\ WF_vars(Watcher /\ Observe) /\ WF_vars(Checker /\ Observe)

FairSpec == Spec /\ Fairness

-----------------------------------------------------------------------------
(* Properties *)

HandlerLabels == {"none", "accepted", "ensuring", "started", "gate", "dialing",
                  "proxying", "drained", "leaving"}

CodeTypeOK ==
  /\ container \in [Containers -> {"up", "down"}]
  /\ events \in Seq(Events)
  /\ held \in Containers \cup {None}
  /\ running \in [Ports -> BOOLEAN]
  /\ lastActive \in [Ports -> {"fresh", "expired"}]
  /\ activeConns \in [Ports -> Int]
  /\ pc \in [Conns -> HandlerLabels]
  /\ port \in [Conns -> Ports \cup {None}]
  /\ \A k \in Conns : pc[k] # "none" => port[k] \in Ports
  /\ attempt \in [Conns -> 0..Retries]
  /\ flight \in [Containers -> {"none", "inspect", "start", "ok", "failed"}]
  /\ chkPc \in {"sleep", "next", "last", "stop"}
  /\ chkTodo \subseteq Ports /\ chkPort \in Ports \cup {None} /\ chkMark \subseteq Ports
  /\ chkPc = "last" => chkPort \in Ports
  /\ chkBusy \subseteq Containers /\ chkStop \subseteq Containers

HistoryTypeOK ==
  recent \in [Ports -> BOOLEAN] /\ calm \subseteq Ports /\ idleSeen \subseteq Ports

\* Every variable keeps its type; in particular a handler never makes more
\* dial attempts than startTimeout allows.
TypeOK == CodeTypeOK /\ HistoryTypeOK

HandlersOf(p) == {k \in Conns : pc[k] # "none" /\ port[k] = p}

\* activeConns counts exactly the handleConn goroutines of the port that have
\* not returned, whichever of its many exits each of them takes.
ActiveMatchesHandlers ==
  \A p \in Ports : activeConns[p] = Cardinality(HandlersOf(p))

\* checkInactivity only stops a container each of whose ports was, at some
\* moment of the same pass, without a connection and then (at that moment or
\* later in the pass) without traffic that ended within the timeout. It rests on
\* the grouping by container, on the order of the checker's two reads and on
\* the order of handleConn's deferred calls.
VerdictJustified == \A c \in chkStop : PortsOf(c) \subseteq idleSeen

\* What makes VerdictJustified inductive. Traffic that ended within the timeout
\* is stamped, or belongs to a handler that is still counted ...
RecentStamped ==
  \A p \in Ports :
    recent[p] => \/ lastActive[p] = "fresh"
                 \/ \E k \in Conns : pc[k] = "drained" /\ port[k] = p

\* ... so that a port seen without a connection was idle, or is stamped fresh ...
CalmSeen == \A p \in calm : p \in idleSeen \/ lastActive[p] = "fresh"

\* ... and the checker has left out no port without finding it busy or idle.
PassSound ==
  /\ chkPc = "sleep" => chkStop = {}
  /\ chkPc = "last" => chkPort \in calm
  /\ chkPc \in {"next", "last"} =>
       \A p \in OnDemandPorts :
         \/ p \in chkTodo \/ Owner[p] \in chkBusy \/ p \in idleSeen
         \/ chkPc = "last" /\ p = chkPort

VerdictInv == RecentStamped /\ CalmSeen /\ PassSound /\ VerdictJustified

\* The running flags of a manual container, which only the event watcher
\* writes, agree with the daemon whenever its events have all been applied, as
\* long as the watcher could inspect the containers that started.
ManualFlagsTrack ==
  ~InspectFails => \A c \in Containers :
    (/\ Availability[c] = "manual"
     /\ held # c
     /\ \A i \in 1..Len(events) : events[i].id # c)
      => \A p \in PortsOf(c) : running[p] = (container[c] = "up")

\* An accepted connection is eventually proxied or dropped: no wait of
\* handleConn before the copy is unbounded.
StartupBounded ==
  \A k \in Conns : pc[k] = "accepted" ~> pc[k] \in {"proxying", "none"}

Unused(c) == \A k \in Conns : pc[k] = "none" \/ Owner[port[k]] # c

\* No on-demand container stays up for ever, unused and flagged running on
\* every port: the checker gets round to it.
FlaggedIdleStopped ==
  \A c \in {Owner[p] : p \in OnDemandPorts} :
    []<>~(container[c] = "up" /\ Unused(c) /\ \A p \in PortsOf(c) : running[p])

-----------------------------------------------------------------------------
(* What the documentation says and the code does not do *)

\* README_LABELS.md:124, "The container is only stopped when all TCP
\* connections and UDP flows are idle past the timeout".
StoppedOnlyWhenIdle ==
  [][\A c \in Containers : StopOk(c) =>
       \A k \in Conns : pc[k] = "proxying" => Owner[port[k]] # c]_vars

\* README.md:447, "If the container is idle for the configured timeout, it is
\* stopped to save resources".
IdleStopped ==
  \A c \in {Owner[p] : p \in OnDemandPorts} : []<>~(container[c] = "up" /\ Unused(c))

\* README_LABELS.md:315, cron: "The proxy does not attempt to start the
\* container when a connection arrives".
CronNotStartedByConnection ==
  \A c \in Containers : EffectiveAvailability(c) = "cron" => flight[c] = "none"

\* README_LABELS.md:315, cron: "if the container is not running, the connection
\* fails immediately".
CronFailsImmediately ==
  [][\A k \in Conns :
       /\ pc[k] = "dialing" /\ Availability[Owner[port[k]]] = "cron"
       /\ container[Owner[port[k]]] = "down"
       => attempt'[k] <= attempt[k]]_vars
=============================================================================
