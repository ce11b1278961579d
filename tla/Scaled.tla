------------------------------- MODULE Scaled -------------------------------
(***************************************************************************)
(* A target that the proxy scales instead of starting and stopping it: a   *)
(* Swarm service (internal/docker/manager.go) or a Kubernetes Deployment   *)
(* (internal/k8s/backend.go), behind one TCP port of internal/proxy.       *)
(*                                                                         *)
(* The orchestrator's state, the proxy's flag and the stream that links    *)
(* them each move on their own. A count is read, then written under the    *)
(* version that was read; Swarm reports that something changed and is      *)
(* asked what, Kubernetes reports what the Deployment looked like; a       *)
(* stream that breaks loses events, and only the Kubernetes watch starts   *)
(* over with the present state.                                            *)
(***************************************************************************)
EXTENDS Naturals, Sequences, FiniteSets

CONSTANTS
  Backends,     \* the backends to consider, of "swarm" and "k8s"
  Scale,        \* the lazy-tcp-proxy.scale label of the Swarm service
  Counts,       \* replica counts a user may ask for
  Conns,        \* handleConn goroutines that may be alive together
  MaxEvents,    \* bound: events sent and not yet handled
  MaxChanges    \* bound: what users do, and tasks that crash

ASSUME BackendsAssumption == Backends \subseteq {"swarm", "k8s"}
ASSUME ScaleAssumption == Scale \in Nat \ {0}
ASSUME CountsAssumption == Counts \subseteq Nat /\ 0 \in Counts
ASSUME ConnsAssumption == IsFiniteSet(Conns)
ASSUME BoundsAssumption == MaxEvents \in Nat \ {0} /\ MaxChanges \in Nat

VARIABLES
  backend,     \* "swarm" or "k8s"
  life,        \* the service or Deployment: "before", "live" or "gone"
  replicas,    \* the replica count that is asked for
  ready,       \* some task runs, some replica is ready
  link,        \* the proxy's event stream: "open", "broken", or "ended" for good
  events,      \* events on it
  held,        \* a Swarm update was inspected and found at zero
  known,       \* the target is registered
  running,     \* targetState.running
  lastActive,  \* targetState.lastActive, "fresh" or "expired"
  pc,          \* where each handleConn goroutine is
  starter,     \* startGroup's call of EnsureRunning
  chk,         \* checkInactivity and its call of StopContainer
  stale,       \* calls whose version is no longer the current one
  changes      \* what users did so far

clusterVars == <<backend, life, replicas, ready>>
streamVars  == <<link, events, held>>
targetVars  == <<known, running, lastActive>>
callVars    == <<starter, chk, stale>>
vars == <<backend, life, replicas, ready, link, events, held,
          known, running, lastActive, pc, starter, chk, stale, changes>>

-----------------------------------------------------------------------------
(* The orchestrator *)

\* A Deployment is reported as it looks: info.Running is ReadyReplicas > 0.
Snapshot(isReady) == IF isReady THEN "ready" ELSE "unready"

Emit(event) ==
  IF link # "open" THEN UNCHANGED events
  ELSE Len(events) < MaxEvents /\ events' = Append(events, event)

\* A new version of the object: who has read an older one cannot write.
NewVersion == stale' = {"starter", "checker"}

\* Swarm says that the service was updated, Kubernetes how it looks now.
Write(n) ==
  /\ replicas' = n
  /\ NewVersion
  /\ Emit(IF backend = "swarm" THEN "update" ELSE Snapshot(ready))

UserAct == changes < MaxChanges /\ changes' = changes + 1

UserScales(n) ==
  /\ UserAct
  /\ life = "live" /\ n # replicas
  /\ Write(n)
  /\ UNCHANGED <<backend, life, ready, link, held, targetVars, pc, starter, chk>>

UserCreates(n) ==
  /\ life = "before"
  /\ life' = "live" /\ replicas' = n
  /\ Emit(IF backend = "swarm" THEN "create" ELSE "unready")
  /\ UNCHANGED <<backend, ready, link, held, targetVars, pc, callVars, changes>>

UserRemoves ==
  /\ UserAct
  /\ life = "live"
  /\ life' = "gone" /\ replicas' = 0 /\ ready' = FALSE
  /\ Emit("gone")
  /\ NewVersion
  /\ UNCHANGED <<backend, link, held, targetVars, pc, starter, chk>>

\* The status belongs to the Deployment, and so to its version. The tasks of a
\* Swarm service are objects of their own, which no service event is about.
StatusIs(isReady) ==
  /\ ready' = isReady
  /\ IF backend = "k8s" THEN NewVersion /\ Emit(Snapshot(isReady))
                        ELSE UNCHANGED <<stale, events>>

TasksStart ==
  /\ life = "live" /\ replicas > 0 /\ ~ready
  /\ StatusIs(TRUE)
  /\ UNCHANGED <<backend, life, replicas, link, held, targetVars, pc, starter, chk, changes>>

TasksStop ==
  /\ ready /\ replicas = 0
  /\ StatusIs(FALSE)
  /\ UNCHANGED <<backend, life, replicas, link, held, targetVars, pc, starter, chk, changes>>

TasksCrash ==
  /\ UserAct
  /\ ready /\ replicas > 0
  /\ StatusIs(FALSE)
  /\ UNCHANGED <<backend, life, replicas, link, held, targetVars, pc, starter, chk>>

-----------------------------------------------------------------------------
(* WatchServiceEvents, WatchEvents *)

RelistNothing == <<>>  \* regression: the watch resumes after what it has missed

\* A watch that names no version begins with an Added event for each object.
Relist == IF backend = "k8s" /\ life = "live" THEN <<Snapshot(ready)>> ELSE <<>>

Link ==
  /\ link = "broken"
  /\ link' = "open"
  /\ events' = Relist
  /\ UNCHANGED <<clusterVars, held, targetVars, pc, callVars, changes>>

\* The server closes the stream or the connection breaks.
Unlink ==
  /\ link = "open"
  /\ link' = "broken"
  /\ events' = <<>>
  /\ UNCHANGED <<clusterVars, held, targetVars, pc, callVars, changes>>

\* WatchServiceEvents asks the daemon before it subscribes whether it is in a
\* swarm. The goroutine ends if that call fails.
GiveUp ==
  /\ backend = "swarm" /\ link = "broken"
  /\ link' = "ended"
  /\ UNCHANGED <<clusterVars, events, held, targetVars, pc, callVars, changes>>

Received(event) == ~held /\ events # <<>> /\ Head(events) = event /\ events' = Tail(events)

\* handleServiceEvent "create": an inspection without ServiceStatus finds no
\* running task. It may fail, and the event is dropped.
SwarmCreate ==
  /\ Received("create")
  /\ \/ life = "live" /\ known' = TRUE /\ running' = FALSE
     \/ UNCHANGED <<known, running>>
  /\ UNCHANGED <<clusterVars, link, held, lastActive, pc, callVars, changes>>

\* "update": a known service is inspected; nothing is done about one that asks
\* for replicas ...
SwarmUpdate ==
  /\ Received("update")
  /\ \/ held' = (known /\ life = "live" /\ replicas = 0)
     \/ held' = FALSE
  /\ UNCHANGED <<clusterVars, link, targetVars, pc, callVars, changes>>

\* ... and ContainerStopped is called for one at zero.
SwarmStopped ==
  /\ held
  /\ held' = FALSE
  /\ running' = FALSE
  /\ UNCHANGED <<clusterVars, link, events, known, lastActive, pc, callVars, changes>>

\* Added and Modified: RegisterTarget, then ContainerStarted or ContainerStopped;
\* both write the flag the event carries.
DeploymentIs(isReady) ==
  /\ Received(Snapshot(isReady))
  /\ known' = TRUE
  /\ running' = isReady
  /\ UNCHANGED <<clusterVars, link, held, lastActive, pc, callVars, changes>>

\* "remove", Deleted: RemoveTarget.
TargetGone ==
  /\ Received("gone")
  /\ known' = FALSE /\ running' = FALSE
  /\ UNCHANGED <<clusterVars, link, held, lastActive, pc, callVars, changes>>

Watch ==
  \/ SwarmCreate \/ SwarmUpdate \/ SwarmStopped \/ TargetGone
  \/ \E isReady \in BOOLEAN : DeploymentIs(isReady)

-----------------------------------------------------------------------------
(* handleConn and EnsureRunning *)

Goto(k, label) == pc' = [pc EXCEPT ![k] = label]

\* The connection joins the start in flight, or begins one.
Accept(k) ==
  /\ known /\ pc[k] = "none"
  /\ Goto(k, "ensuring")
  /\ starter' = IF starter = "none" THEN "get" ELSE starter
  /\ UNCHANGED <<clusterVars, streamVars, targetVars, chk, stale, changes>>

\* ServiceInspect, GetScale: a count above zero needs nothing done.
GetToStart ==
  /\ starter = "get"
  /\ \/ life = "live" /\ starter' = (IF replicas > 0 THEN "ok" ELSE "put")
     \/ starter' = "failed"
  /\ stale' = stale \ {"starter"}
  /\ UNCHANGED <<clusterVars, streamVars, targetVars, pc, chk, changes>>

Blind(caller) == life = "live"  \* regression: the update carries no version
Current(caller) == life = "live" /\ caller \notin stale

Wanted == IF backend = "swarm" THEN Scale ELSE 1

\* ServiceUpdate, UpdateScale under the version that was read.
ScaleUp ==
  /\ starter = "put"
  /\ \/ Current("starter") /\ Write(Wanted) /\ starter' = "ok"
     \/ starter' = "failed" /\ UNCHANGED <<replicas, events, stale>>
  /\ UNCHANGED <<backend, life, ready, link, held, targetVars, pc, chk, changes>>

StartReturns ==
  /\ starter \in {"ok", "failed"}
  /\ starter' = "none"
  /\ pc' = [k \in Conns |-> IF pc[k] # "ensuring" THEN pc[k]
                            ELSE IF starter = "ok" THEN "started" ELSE "none"]
  /\ UNCHANGED <<clusterVars, streamVars, targetVars, chk, stale, changes>>

\* running = true on the target, if it is still registered.
MarkRunning(k) ==
  /\ pc[k] = "started"
  /\ running' = (running \/ known)
  /\ Goto(k, "dialing")
  /\ UNCHANGED <<clusterVars, streamVars, known, lastActive, callVars, changes>>

\* The dial finds a task within the start timeout, or does not.
Dial(k) ==
  /\ pc[k] = "dialing"
  /\ \/ ready /\ Goto(k, "proxying")
     \/ Goto(k, "none")
  /\ UNCHANGED <<clusterVars, streamVars, targetVars, callVars, changes>>

CopyEnds(k) ==
  /\ pc[k] = "proxying"
  /\ Goto(k, "none")
  /\ lastActive' = "fresh"
  /\ UNCHANGED <<clusterVars, streamVars, known, running, callVars, changes>>

IdleTimeout ==
  /\ lastActive = "fresh" /\ lastActive' = "expired"
  /\ UNCHANGED <<clusterVars, streamVars, known, running, pc, callVars, changes>>

Unused == \A k \in Conns : pc[k] = "none"

-----------------------------------------------------------------------------
(* checkInactivity and StopContainer *)

CheckIdle ==
  /\ chk = "sleep" /\ known
  /\ running /\ Unused /\ lastActive = "expired"
  /\ chk' = "get"
  /\ UNCHANGED <<clusterVars, streamVars, targetVars, pc, starter, stale, changes>>

AlreadyZeroFails == "sleep"  \* regression: a target at zero is an error
AlreadyZero == "mark"

\* A count of zero is a success.
GetToStop ==
  /\ chk = "get" /\ life = "live"
  /\ chk' = IF replicas = 0 THEN AlreadyZero ELSE "put"
  /\ stale' = stale \ {"checker"}
  /\ UNCHANGED <<clusterVars, streamVars, targetVars, pc, starter, changes>>

ScaleDown ==
  /\ chk = "put" /\ Current("checker")
  /\ Write(0)
  /\ chk' = "mark"
  /\ UNCHANGED <<backend, life, ready, link, held, targetVars, pc, starter, changes>>

\* The call fails, or meets another version: logged, tried at a later tick.
StopFails ==
  /\ chk \in {"get", "put"}
  /\ chk' = "sleep"
  /\ UNCHANGED <<clusterVars, streamVars, targetVars, pc, starter, stale, changes>>

MarkStopped ==
  /\ chk = "mark" /\ chk' = "sleep"
  /\ running' = FALSE
  /\ UNCHANGED <<clusterVars, streamVars, known, lastActive, pc, starter, stale, changes>>

-----------------------------------------------------------------------------
(* The specification *)

Cluster ==
  \/ UserRemoves \/ TasksStart \/ TasksStop \/ TasksCrash
  \/ \E n \in Counts : UserScales(n) \/ UserCreates(n)

Handler(k) == MarkRunning(k) \/ Dial(k)
StartCall == GetToStart \/ ScaleUp \/ StartReturns
Checker == CheckIdle \/ GetToStop \/ ScaleDown \/ StopFails \/ MarkStopped

Next ==
  \/ Cluster \/ Link \/ Unlink \/ GiveUp \/ Watch \/ StartCall \/ Checker \/ IdleTimeout
  \/ \E k \in Conns : Accept(k) \/ Handler(k) \/ CopyEnds(k)

\* Discover and DiscoverServices have registered what there is, as it is.
Init ==
  /\ backend \in Backends
  /\ life \in {"before", "live"}
  /\ replicas \in IF life = "live" THEN Counts ELSE {0}
  /\ ready \in BOOLEAN /\ (ready => replicas > 0)
  /\ link = "broken" /\ events = <<>> /\ held = FALSE
  /\ known = (life = "live") /\ running = ready /\ lastActive = "expired"
  /\ pc = [k \in Conns |-> "none"]
  /\ starter = "none" /\ chk = "sleep" /\ stale = {} /\ changes = 0

Spec == Init /\ [][Next]_vars

\* Goroutines are scheduled, tasks of a target at zero stop, time passes, and
\* calls do not fail for ever. The API server closes a watch every few minutes
\* and it is opened again at once; an event is handled far sooner than that.
Fairness ==
  /\ \A k \in Conns : WF_vars(Handler(k))
  /\ WF_vars(StartCall) /\ WF_vars(TasksStop) /\ WF_vars(IdleTimeout)
  /\ WF_vars(Checker) /\ SF_vars(GetToStop) /\ SF_vars(ScaleDown)
  /\ WF_vars(Link) /\ WF_vars(Unlink) /\ SF_vars(Watch)

FairSpec == Spec /\ Fairness

-----------------------------------------------------------------------------
(* Properties *)

\* Every variable keeps its type; a connection that waits has a start to wait for,
\* and only a registered target is flagged running.
TypeOK ==
  /\ backend \in Backends /\ life \in {"before", "live", "gone"}
  /\ replicas \in Counts \cup {1, Scale} /\ ready \in BOOLEAN
  /\ link \in {"open", "broken", "ended"} /\ held \in BOOLEAN
  /\ events \in Seq({"create", "update", "gone", "ready", "unready"})
  /\ known \in BOOLEAN /\ running \in BOOLEAN /\ (running => known)
  /\ lastActive \in {"fresh", "expired"}
  /\ pc \in [Conns -> {"none", "ensuring", "started", "dialing", "proxying"}]
  /\ \A k \in Conns : pc[k] = "ensuring" => starter # "none"
  /\ starter \in {"none", "get", "put", "ok", "failed"}
  /\ chk \in {"sleep", "get", "put", "mark"}
  /\ stale \subseteq {"starter", "checker"} /\ changes \in 0..MaxChanges

\* A connection's start only ever raises a count of zero: a count that a user has
\* asked for since the proxy looked is not overwritten.
StartsFromZero ==
  [][starter = "put" /\ starter' = "ok" => replicas = 0]_vars

\* A target that was scaled up does not stay up for ever, unused: a ready
\* Deployment is scaled down whatever events and marks were lost or overtaken,
\* since each watch starts over with its state; of a Swarm service this is only
\* true as long as it is flagged running.
IdleScaledDown ==
  []<>~(/\ life = "live" /\ replicas > 0 /\ Unused
        /\ IF backend = "k8s" THEN ready ELSE running)

\* An unused target at zero is not flagged running for ever, also when the event
\* that would have said so was lost: the checker's call finds it at zero.
FlagSettles == []<>~(life = "live" /\ replicas = 0 /\ Unused /\ running)

\* A Deployment that is there is registered in the end, even one that was created
\* while no watch was open.
DeploymentFound == (backend = "k8s" /\ life = "live") ~> (known \/ life = "gone")

-----------------------------------------------------------------------------
(* What the documentation says and the code does not do *)

\* requirements/2026-05-15-docker-stack-scaling.md:75, "After the idle timeout
\* with no active connections, the service is scaled back to 0 replicas".
ServiceScaledBack == []<>~(life = "live" /\ replicas > 0 /\ Unused)

\* requirements/2026-05-15-docker-stack-scaling.md:79, "A service scaled
\* externally back to > 0 replicas causes the proxy to record it as running".
ScaledUpRecorded == []<>(life = "live" /\ replicas > 0 /\ ready => running)
=============================================================================
