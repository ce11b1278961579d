# A verification of lazy-tcp-proxy

lazy-tcp-proxy listens on the ports of containers that are not running, starts a container when
somebody connects, proxies the traffic, and stops the container when it has been idle. This
directory holds TLA+ models of that program, TLC configurations that check them on small instances,
and proofs checked by TLAPS. Sources are named relative to `src/lazy-tcp-proxy/`.

1. [Inventory](#1-inventory) - the parts of the system, their state, how they interact, what is hard
2. [Modules](#2-modules) - which module models which part
3. [Runs](#3-runs) - what each configuration checks, the bounds, the fairness
4. [Divergences](#4-divergences-from-the-documentation) - where code and documentation disagree
5. [Proofs](#5-proofs) - what is proved and how
6. [Limits](#6-limits) - what is only model-checked, abstracted or left out
7. [Plan](#7-plan) - what comes next

To check: `tlc -config Lifecycle.cfg MCProxyLifecycle.tla` (and so on, table in section 3);
`tlapm ProxyLifecycle_proofs.tla`.

## 1. Inventory

### Parts

| part | source | state | operations |
|---|---|---|---|
| TCP connection lifecycle | `internal/proxy/server.go` handleConn, acceptLoop | per port: `running`, `lastActive`, `activeConns`; `startGroup` | accept, start, dial, copy, leave |
| inactivity checker | `server.go` checkInactivity | one pass: entries per container | read ports, decide, stop, mark |
| UDP listener | `internal/proxy/udp.go` | `flows`, `pending`, `upstreamReady`, `upstreamStarting`, condition variable | read loop, start a flow, lead or follow, reply loop, sweep |
| target registry | `server.go` RegisterTarget, RemoveTarget, Update, ContainerRemoved | `targets`, `udpTargets`, `nameToID`, `cronOnlyTargets` | register, remove, replace all, mark |
| dependency cascade | `server.go` cascadeStart, cascadeStop | dependants of each target, one goroutine per cascade | start and stop dependants |
| cron scheduler | `internal/scheduler/scheduler.go`, `server.go` CronStart, CronStop | jobs per container | register, unregister, start, stop |
| Docker backend | `internal/docker/manager.go` | event stream, networks | discover, EnsureRunning, StopContainer, WatchEvents |
| Swarm services | `manager.go` ensureServiceRunning, stopService, WatchServiceEvents | known services, event stream | scale, receive and inspect |
| Kubernetes backend | `internal/k8s/backend.go` | watch | scale, list and watch |
| port allocator | `internal/types/portalloc.go` | `claimed`, `assigned` | claim, allocate |
| configuration store | `internal/config/store.go` | config file, temporary file, copy in memory | Load, Save, Apply |
| admin API | `internal/admin/server.go`, `main.go` discoverAndApply | - | reload, update |
| metrics collector | `internal/metrics/collector.go` | one accumulator per port | connection calls, container calls, rollup |
| metrics delivery | `collector.go` flush, `internal/metrics/postgres.go` | retry buffer, table | tick, flush, write, push back |
| Traefik provider, Portainer, dashboard, TLS | `internal/traefik`, `internal/portainer`, `html`, `internal/proxy/tls.go` | - | pure functions and I/O |

### Interactions

`handleConn`, `startUDPFlow`, the checker, the scheduler and the event watcher run in goroutines of
their own and share the per-port state, in part under `s.mu` and in part as atomics or not protected at all. They
act on the same daemon, whose events come back through `WatchEvents` some time later. Container
registrations reach the allocator from the event watcher and from reloads. The admin handlers and
`main` all call `discoverAndApply`, which merges the configuration and replaces the targets. The
proxy calls the collector from every place that counts something, while `Run` rolls the
accumulators up once a minute and starts a flush that may outlast the minute.

### What is hard, and what makes each part correct

* **Lifecycle and checker.** A decision is taken from values read earlier and without a lock; a
  counter has many exits; flags are written by connections, events and the checker. Correct: the
  counter is exact, a container is stopped only on a verdict its ports justify, an unused container
  is stopped, a connection is answered in bounded time, and a manual container is only ever flagged
  by its events.
* **UDP.** A leader, its followers, the reset of readiness, the sweeper and removal interleave.
  Correct: no client is pending for ever, no socket is orphaned, no follower sleeps for ever, and idle flows
  are closed.
* **Allocator.** Registrations interleave. Correct: ports are distinct, dense, stable and clear of
  the ports a container declares.
* **Configuration.** Requests, `main` and crashes interleave over files without a lock. Correct: the
  file is whole and the latest; file, memory and proxy agree.
* **Registry.** Events, reloads and the first discovery interleave call by call. Correct: the
  scheduler and the name index follow the targets, a reload leaves what it merged, running flags
  follow the daemon, and nothing is served for a container that is gone.
* **Cascade.** Each event of a hub spawns a goroutine that walks its dependants; several walk at once,
  join each other's starts, and cause events that spawn more. Correct: what a hub reaches ends where the hub was put, and
  the cascades die out.
* **Swarm and Kubernetes.** A count is read and written in two calls, a stop returns before the tasks are gone, an event
  says what was true earlier, and streams break. Correct: a start never overwrites somebody's count, what is unused is scaled back, a flag
  that is wrong is corrected, and a Deployment that was missed is found.
* **Metrics.** Calls race the rollup, flushes overlap, writes fail or only seem to. Correct: each
  call is counted once, gauge, peak and uptime mean what they say, and a snapshot is lost only when the full buffer
  drops it.

PROJECT.json lists every hazard at its line with the properties that cover it.

## 2. Modules

A module models one component, has one action per critical section, call or unprotected access of the code, and names
its definitions after the functions and fields they stand for. A definition marked `regression` is
the form a plausible bug would give to the definition after it; the specification never uses it.

* **`ProxyLifecycle`**. The TCP targets of several containers. A connection goes through
  `accepted` (allow and block lists, availability), `ensuring` (the singleflight call, whose
  inspection and start are actions of the daemon call itself and whose end releases every waiter at once), `started`
  (`MarkRunning`), `gate` (health checks), `dialing` (at most `Retries` attempts), `proxying`,
  `drained` (`lastActive` not yet written) and `leaving` (the counter not yet decremented: Go runs
  deferred calls in reverse order). The checker reads `activeConns` and then `lastActive` of one port at a time,
  in separate actions, groups by container, stops, and marks one port at a time. The
  daemon queues an event for each change of state; the watcher inspects the container when it
  handles a start event, by which time the answer may be out of date. Time is what the code asks of it:
  `lastActive` is fresh or expired. `recent`, `calm` and `idleSeen` are history for the
  properties, kept by `Observe` in the same step.
* **`UdpListener`**. One UDP listener with its flows, `startUDPFlow` label by label, the
  reply loop, the sweeper, the reset of readiness by `ContainerStopped` (after `s.mu` is released),
  the checker, the asynchronous stop of a leader that timed out, and `RemoveTarget`.
* **`PortAllocator`**. `ClaimPorts` and `AllocatePortMappings` as a registration calls them, one
  host at a time under the mutex; a restart empties the allocator.
* **`MetricsCollector`**. The accumulator of one port: each atomic access of a connection and of the rollup
  is a step, the locked sections are steps, and a re-registration replaces the accumulator while
  connections hold the old one. Locals are cleared once they are dead.
* **`MetricsRetry`**. The ticks (`StartFlush`), a flush per window in a goroutine of its own, the retry buffer,
  writes that succeed, fail, or commit and report a failure.
* **`ConfigStore`**. The config file and the temporary file as inodes and names, so that a
  goroutine which has opened the temporary file writes to that inode whatever its name has become;
  a reload that finds no file writes a placeholder in a step of its own (`CreatePlaceholder`), over whatever is there by then;
  admin requests and `main` step by step; write errors, crashes, edits by the user.

* **`OnDemand`**. The contract of the containers: a start call that is asked for and answered, starts and stops by the
  proxy or by others, and what has been seen idle. **`OnDemandRefinement`** reads the contract's state off `ProxyLifecycle`
  (with a history variable for the author of the last change of each container) and states that every behaviour of the lifecycle
  is one of the contract.
* **`Cascade`**. A goroutine is a `Job`: what it does (`cascadeStart`, `cascadeStop`, `cronStart`, `cronStop`, a connection's
  start, an idle stop), where it is, and the containers it still has to visit. `JoinStart`, `EnsureRunning` and `StartReturns` are
  `startGroup.Do`; `Call` is a stop, or the scheduler's start, which joins nothing; `Mark` writes the flag and ends
  with the cascade a cron job or an idle stop spawns itself, also when it changed nothing. The event watcher (`Watch`) spawns one for each event. A container has TCP ports,
  UDP ports only, or none, since the code looks for each in different maps. `moved`, `excused` and `raced` are history: the hub
  that was moved last, the calls that failed since, and whether two changes overlapped.
* **`Scaled`**. One Swarm service or Deployment behind one TCP port: the orchestrator (asked for, ready), its event stream with what is
  still under way, the proxy's flag, connections, `startGroup`'s call and the checker's. `GetToStart`/`ScaleUp` and `GetToStop`/`ScaleDown` are
  the two calls each scaling takes; `stale` holds those whose version is no longer current. `Watch` is one received event; a Swarm
  update is inspected in one step and applied in the next (`SwarmUpdate`, `SwarmStopped`). `Link`, `Unlink` and `GiveUp` are the stream's life;
  only the Kubernetes watch starts over with `Relist`.
* **`Registry`**. Which targets are served. A slot (a port, or the ID of a target without ports) holds the info
  of a target and its running and missing flags; the name index and the scheduler's jobs are beside it.
  `RegisterTarget`, `RemoveTarget`, `ContainerStarted`, `ContainerStopped` and `ContainerRemoved` are the operators of one
  locked call each. A registration whose ports may be taken by other programs (`Contested`) skips any of them on which nothing listens yet (`MayFail`), and
  `Schedule` is what the scheduler makes of a valid expression, of one it refuses and of none. The daemon creates, starts, stops and removes containers; `Receive` takes an event
  and works out the calls it leads to (`OnAppear` inspects, `OnDie` and `OnDestroy` look at the name first),
  `Call` makes one of them. `StreamBreaks` loses what was not received and `Listen` reconnects.
  A reload is `Request`, `Discover`, `Merge` (`Store.Apply` and the inspection of services that are only in the file),
  `SetConfigOnlyNames`, `Compare` and the calls of `Update`, each a step. `before`, `clean`,
  `disturbed`, `unopened` and `unscheduled` are history for the properties.

`MC...` modules give the constants values. `..._proofs` modules hold the theorems.

## 3. Runs

| run | instance | properties |
|---|---|---|
| `Lifecycle` | on-demand container with 2 ports, manual container with cron labels, 1 connection, 1 undelivered event | `VerdictJustified`, `ManualFlagsTrack` |
| `LifecycleLive` (`MCOnDemandRefinement`) | 1 container, 1 gated port, 2 connections, 2 dial attempts, inspections that fail | `ActiveMatchesHandlers`, `StartupBounded`, `FlaggedIdleStopped`, `KeepsContract` |
| `Udp` | 3 clients, 3 goroutines, 2 attempts | `TypeOK`, `PendingExact`, `NoOrphanSocket`, `SleeperHasLeader` |
| `UdpLive` | 2 clients, 2 goroutines | `EverySleepEnds`, `IdleFlowsSwept` |
| `PortAlloc` | 3 containers, 3 domains (one shared), 2 goroutines, 2 boots | `PortsDistinct`, `NoHoles`, `NoSelfConflict`, `MappingStable` |
| `Retry` | 2 ports, buffer of 2, 3 windows, 4 failures | `NoneLost`, `NotTwice`, `OnlyBufferWaits`, `OldestFirst` |
| `Metrics` | 2 connections, 2 registrations, 2 rollups | `TypeOK`, `NothingLost`, `GaugeExact`, `PeakCovers` |
| `MetricsUptime` | 2 callers, 3 reports, 2 registrations, 2 rollups, clock to 2 | `UptimeConserved` |
| `Config` | 2 admin requests at a time and `main`, 3 configurations (one refused), 2 inodes, 1 edit, 1 crash | `TypeOK`, `FileIsLatest`, `SequentialAgrees` |
| `Registry` | a labelled container that is recreated without its port, a service of the YAML file, a port that another program may hold, an expression the scheduler refuses, 2 configurations, `main` and 1 reload, 3 changes, 2 undelivered events, 1 break | `JobsMatch`, `NamesLive`, `ReloadExact`, `FlagsFollow`, `Forgotten` |
| `Cascade` | a TCP hub, a port-less dependant with a schedule, a UDP dependant of both; 3 goroutines, 2 changes from outside | `TypeOK`, `DependantsFollow`, `Quiesces` |
| `Scaled` | both backends, 1 connection, label scale of 2, users ask for 0 or 1; 3 events under way, 3 changes from outside | `StartsFromZero`, `IdleScaledDown`, `FlagSettles`, `DeploymentFound` |

**What the passing runs show.** `VerdictJustified`: whenever the checker stops a container, each of
its ports was seen, during that very pass, without a connection and then without traffic that ended within
the timeout; it depends on the order of the checker's two reads and on the order of the
deferred calls. `ManualFlagsTrack`: whatever connections and the checker do, they never write the flags of a manual
container, so these agree with the daemon whenever its events have been applied.
`StartupBounded` and `FlaggedIdleStopped` are the two promises to the user: an answer, and a
container that goes away. `SleeperHasLeader` is the safety side of `EverySleepEnds`: a sleeping
follower always has a leader that has yet to publish. `PeakCovers`, `GaugeExact`, `NothingLost` and
`UptimeConserved` say that the rollup, which locks nothing a connection touches, neither loses nor doubles.
`KeepsContract`: the proxy starts a container only while a connection has asked for it, answers "ok" only if it was up during
the call, stops it only after its ports were all seen idle, and answers every request for a start.
`NotTwice` names the one way a row can be written twice: a commit whose answer was lost.
`FileIsLatest` holds through crashes between any two steps and failed writes, as long as no two Saves overlap
and no placeholder of a reload is written over a file that appeared after it looked.
`JobsMatch` and `NamesLive` hold through every race, lost events included, with exceptions where one step of `RegisterTarget` fails and the others are done
all the same: a target one of whose ports could not be listened on (`server.go:599`, `:655`) keeps its name and its jobs without a slot, and an expression that
the scheduler refuses (`scheduler.go:74`) leaves a registered target without jobs. Both properties say that nothing but these two comes between the registry, the
index and the scheduler, and the history variables `unopened` and `unscheduled` say of which target and port. `ReloadExact` is about reloads
nothing else has touched, and names its three exceptions, the ports that could not be listened on among them; `FlagsFollow` and `Forgotten` are about moments at which all
events have been applied, and claim nothing once one was lost, sent to the name in place of the container, or raced a reload
(`disturbed`): for each of these cases a configuration of section 4, or the reconnect that inspects
nothing, shows why.

`DependantsFollow` is about rest: once cascades, events and starts are done after changes that did not overlap, the flags are true and each
dependant that a hub's move reaches is where the hub is, except where a call failed. A cron start that found its container up is no move: the documentation says that it
takes no action, the code cascades it all the same when the container has no ports (`CronStartNoOp` in section 4), and the property asks nothing of what that reaches (`changed`). Cascades are transitive, since the events they cause spawn others (the design note
`requirements/2026-04-07-docker-dependency-cascade.md` says they are not recursive, which is true of one goroutine only). Changes that do
overlap are excused until the flags agree again; `Quiesces` is not excused by anything. In `Scaled`, `IdleScaledDown` and `FlagSettles` hold with
events lost and streams that have ended for good, because the checker looks for itself; for a Swarm service the first one needs
the flag, which is the subject of two rows of section 4.

**Bounds.** Two connections are what it takes for a start to be joined, for a counter to be read
between two changes and for a compare-and-swap to fail; two ports, to tell a
container from its ports. A start that is held past its registration and a stop still to be delivered are
enough for a flag to be out of date in either direction; one event waits in each run, beside the one in the watcher's hands, and the theorems let any
number. Two inodes are the config file and its temporary file. Three UDP
goroutines are a leader and two followers, or two leaders and a follower. Two registrations, rollups
or boots are one before and one after what is interesting; three windows with a buffer of two
fill it and overflow it. A container, the one that replaces it and one without labels are what it takes to
change a target's ports, its ID or the owner of a name; one port that may be taken and one that may not, with an expression that is accepted and one that is refused, are what it takes
for a registration to succeed in part; three changes recreate a container, or stop, remove and
create one. Three goroutines are a start, a stop and a third that joins or follows one of them; two
changes are a move and another that undoes or meets it; when all goroutines are busy the next one waits. Three events are an update each way and the one that
is lost between them. Event queues, failures, reports and the clock are bounded in the guards of their actions,
each by a constant named in its module. Connections and flows are not: goroutines are reused,
so behaviours of `ProxyLifecycle` and `UdpListener` are infinite. In `MetricsCollector`,
`MetricsRetry`, `ConfigStore`, `Registry` and `Cascade` all work ends when its bounds are used up, and a Swarm service that was removed after
its stream ended is never heard of again (`Scaled`); these configurations,
and only these, say `CHECK_DEADLOCK FALSE`.

**Fairness** (`FairSpec`, and `Spec` of `Cascade`). Goroutines are scheduled and calls on the daemon return, so handlers,
the watcher, the sweeper, starting flows and, for TCP, the checker are weakly fair; a retry of `StopContainer` by later
passes eventually succeeds (strong fairness of `StopOk`: the daemon does not refuse for ever);
time passes. Nothing is assumed of clients, upstreams or users: `Accept`, `CopyEnds`,
`ExternalChange` and datagrams have no fairness, so a session may last for ever. In `Cascade` goroutines, the watcher and
start calls are weakly fair, since they only wait for the daemon; failures, breaks and everything from outside are not. In `Scaled` the same
holds of handlers, the start call, the checker, reconnecting (`Link`; an idle watch is closed by the server in the end, `Unlink`) and tasks
that were told to stop; the checker's two calls and the receipt of events are strongly fair, for a call may fail and a stream may break again
and again, but not every time for ever. Users, tasks that start or crash, `Accept` and `CopyEnds` have no fairness.

**Symmetry** is used for interchangeable goroutines, clients, inodes and ports in safety runs only.

## 4. Divergences from the documentation

Each of the following definitions states one sentence of the documentation, and TLC answers it with a counterexample. None is part of a
listed run; they are kept for the day the code changes. The instance is that of a listed configuration, with this property in
place of its own, or one that is kept for it.

| property and sentence | instance | what happens |
|---|---|---|
| `StoppedOnlyWhenIdle`, `README_LABELS.md:124` | `Lifecycle.cfg` | the verdict is stale when `StopContainer` is called (`server.go:1015`): a session opened in between is cut |
| `IdleStopped`, `README.md:447` | `LifecycleLive.cfg` | the checker writes `running = false` after a start event (`server.go:1019`) and the container is never considered again. The window is short with a blocking stop and wide with a backend whose stop returns at once, as a scale request does |
| `CronNotStartedByConnection`, `README_LABELS.md:315` | `DerivedCron.cfg` (`MCProxyLifecycle`) | `handleConn` reads the raw availability label (`server.go:1186`) |
| `CronFailsImmediately`, `README_LABELS.md:315` | `CronRetries.cfg` (`MCProxyLifecycle`) | the dial is retried for the whole start timeout (`server.go:1256`) |
| `ReadyResetOnStop`, `requirements/2026-04-14-fix-udp-pihole-cold-start-timeouts.md:108` | `Udp.cfg` | a leader publishes after the reset (`udp.go:246`) |
| `OneRetryLoop`, `README_LABELS.md:134` | `Udp.cfg` | the reset lets a second leader start (`server.go:853`) |
| `RepliesAreRead`, `README_LABELS.md:122` | `Udp.cfg` | a reply loop that ends on a read error (`udp.go:353`) leaves its flow in the map, where it takes datagrams whose replies nobody reads |
| `RemovalClosesFlows`, comment at `udp.go:353` | `UdpLive.cfg` | `RemoveTarget` closes no upstream socket (`server.go:722`) |
| `SamePortsAfterRestart`, `requirements/2026-06-04-dynamic-port-allocation-traefik-hosts.md:57` | `PortAlloc.cfg` | ports go by order of arrival (`manager.go:138`) |
| `LiveGauge`, `README.md:277` | `Metrics.cfg` | connections of a re-registered port end in the new accumulator: the gauge is negative (`collector.go:144`) |
| `UptimeNotNegative`, `README.md:286` | `MetricsUptime.cfg` | a start reported after `windowEnd` was read (`collector.go:337`) |
| `UptimeHasNoGaps`, `README.md:293` | `MetricsUptime.cfg` | the accumulator of a re-registered port is not told that its container runs (`collector.go:131`) |
| `FileWhole`, `README_CONFIG.md:225` | `Config.cfg` | two Saves share `path + ".tmp"` (`store.go:140`), and a mixture is renamed into place |
| `PlaceholderOnlyIfMissing`, comment at `store.go:66` | `Config.cfg` | a reload finds no file, a Save puts one in place, and the reload writes its placeholder over it (`store.go:98`) |
| `AppliedIsLatest`, `README_CONFIG.md:224` | `Config.cfg` | an older merge is applied after a newer one (`main.go:411`, `:452`) |
| `PortlessRefused`, `README_CONFIG.md:248` | `PortlessConfig.cfg` (`MCConfigStore`) | `validate` accepts an entry without ports (`store.go:297`) |
| `YamlWins`, `README_CONFIG.md:145` | `Registry.cfg` | the event watcher registers a container with its labels when it is created or started (`manager.go:1140`), over what the YAML file says of it, until the next reload; the comment at `main.go:594` says what the code does |
| `ReloadForgets`, `README_CONFIG.md:264` | `Registry.cfg` | a container with ports from labels and from the file is represented by either info (`server.go:744`); when it is the one that is wanted, the other port stays |
| `ReloadUnschedules`, `README_CONFIG.md:264` | `Registry.cfg` | a target none of whose ports could be listened on has jobs but no slot (`server.go:687`); `Update` compares slots (`server.go:745`), so no reload removes it and its schedule goes on starting the container |
| `ExpressionsValid`, comment at `scheduler.go:75` | `Registry.cfg` | `Load` and `Apply` do not validate expressions (`store.go:266`; labels and `Save` do), so the scheduler is given one it refuses, after it has dropped the old jobs |
| `ReloadApplies`, `README_CONFIG.md:266` | `Registry.cfg` | two services exchange ports: whichever is replaced first conflicts with the other, and is no longer registered (`server.go:804`) |
| `RegisteredNamed`, comment at `server.go:682` | `Registry.cfg` | the entry of a name is deleted with an old ID of it, after a new one was registered (`server.go:707`) |
| `RemovedForgotten`, `README.md:412` | `Registry.cfg` | a container removed between the first discovery and the first event stream stays registered (`main.go:594`) |
| `AllDependantsStarted`, `README_LABELS.md:423` | `CascadeUdpHub.cfg` (`MCCascade`) | a hub with UDP ports only has its dependants looked up where they are not (`server.go:910`) |
| `AllDependantsStopped`, `README_LABELS.md:424` | `Cascade.cfg` | a dependant without ports has no target whose flag the loop could see (`server.go:1481`) |
| `CronStartNoOp`, `README_LABELS.md:386`, comment at `server.go:269` | `Cascade.cfg` | a cron start of a container without ports that is already up (`server.go:282`) is cascaded, and starts a dependant that was stopped meanwhile |
| `Quiesces`, `README_LABELS.md:423` | `CascadeRing.cfg` (`MCCascade`) | two hubs that list each other: a start cascade and a stop cascade chase each other for ever |
| `DependantsFollow`, `requirements/2026-04-07-fix-k8s-watchevents.md:99` | `CascadeRelist.cfg` (`MCCascade`) | a reconnected Kubernetes watch reports a hub that is down once more, and its cascade stops a dependant in use (`k8s/backend.go:147`) |
| `ServiceScaledBack`, `requirements/2026-05-15-docker-stack-scaling.md:75` | `Scaled.cfg` | a Swarm service scaled up by a user is never flagged, so never idle (`manager.go:1007`) |
| `ScaledUpRecorded`, `requirements/2026-05-15-docker-stack-scaling.md:79` | `Scaled.cfg` | the update event is only looked at for a count of zero (`manager.go:1007`) |

Also met: `ConnectionFailed` asks not to be called after `ConnectionStarted` (`collector.go:196`), and
`handleConn` always does (`server.go:1167`, `:1197`, `:1276`); `MetricsCollector` models the calls as made.
Overlapping flushes push snapshots back out of order; `OldestFirst` therefore only claims the buffer's order
until two flushes overlap, and `PeakCovers` leaves out a `ConnectionStarted` that straddles the
rollup's two reads (`collector.go:323-326`), which is counted in the wrong window or in none.

## 5. Proofs

TLC checks the instances above; the following hold for every value of the constants that meets the
assumptions named in the modules.

**`ProxyLifecycle_proofs`** - `TypeCorrect`, `ActiveCorrect`, `VerdictCorrect`,
`ManualFlagsCorrect`, `ContractKept`, `MappingCorrect`.
* `ActiveMatchesHandlers` is inductive given types: a step adds or removes one handler of one port and changes
  the counter with it, or does neither. Cardinalities are finite because `Conns` is (`ConnsAssumption`).
* `VerdictJustified` is not inductive. `VerdictInv` adds `RecentStamped` (traffic that has just ended
  is stamped, or its handler is still counted: this is where the order of deferred calls
  matters), `CalmSeen` (a port seen without a connection was idle, or is stamped fresh) and
  `PassSound` (every port of the pass is still to be looked at, found busy, or found idle). The proof goes from traffic to
  stamps to ports seen to the verdict, one lemma each.
* `ManualFlagsTrack` needs `LastEventTells` (the last queued event of a container tells its state),
  `HeldIsUp` (a start event in hand that no other follows is true) and `HandsOff` (connections and the
  checker never touch a manual container).
* `ContractKept` is the refinement, `AuthoredSpec => Contract!Safety`: the initial condition and the steps of `OnDemand`, with the mapping of
  `OnDemandRefinement`. One lemma for each action that changes a container or a start call (`OutsideStep`, `JoinStep`, `InspectStep`,
  `StartStep`, `AnswerStep`, `StopStep`), one for all the others (`Quietly`). `StopStep` rests on `VerdictJustified`, which is why that
  invariant comes first; `MappingInv` (`MappingCorrect`) adds that between two steps nothing is left to be observed, so that a step which
  changes a container does not change what was seen idle too. The liveness half of the contract is `KeepsContract` of the run `LifecycleLive`.

**`PortAllocator_proofs`** - `TypeCorrect`, `PortsDistinctCorrect`, `NoHolesCorrect`,
`NoSelfConflictCorrect`, `MappingStableCorrect`. The invariant adds `Claims` (a registration past a
claim has its ports in `claimed`) and `OwnHosts` (the holder of the mutex visits hosts of its own
container), and that assigned ports are claimed.

**`UdpListener_proofs`** - `InvCorrect`, `TypeCorrect`, `PendingExactCorrect`, `NoOrphanSocketCorrect`, `SleeperHasLeaderCorrect`.
`MapInv` relates `pending`, `flows` and the goroutines. To the two properties it adds `KeysOK` and `FlowsOK` (the map holds read loops,
each under its client's address, and one that has returned without being swept is still there) and `ClosedReads` (only the socket of a read
loop is closed by others, so a goroutine that inserts its flow inserts an open one). `WakeInv` says that followers sleep only during a start
and that a start has a leader. A stop may let a second leader begin beside the first, and the first to end takes the start with it: the proof
shows that its broadcast then wakes the followers of both.

**`Metrics_proofs`** - both halves of `internal/metrics`, which share no state but the snapshots that the one hands to the other; the
definitions of `MetricsRetry` have names of their own so that one module can speak of both.
For `MetricsCollector`: `InvCorrect`, `TypeCorrect`, `NothingLostCorrect`, `UptimeCorrect`, `GaugeCorrect`, `PeakCorrect`.
* `Inv` carries `RefsOK`: whoever is between `get` and its last update has an accumulator that was made, be it the current one or one
  that a re-registration replaced.
* `NothingLost` is stated for each accumulator and counter. It needs `SnapFresh`: the snapshot holds what the rollup has swapped
  and nothing else, so no value is overwritten on its way out, with any updates between any two swaps.
* `UptimeConserved` is inductive given `Inv`; there is a lemma for an accumulator whose clock nobody touches and one for each critical section.
* `GaugeExact`: the step that changes the gauge is the step that makes a connection live or takes it off. `PeakCovers` needs `PeakInv`: the most connections at once
  are in the peak, or in the hands of a `ConnectionStarted` whose compare-and-swap is still to come; a swap that fails was beaten by a
  larger value or starts over.

For `MetricsRetry`: `RetryTypeCorrect` (with the limit of the buffer), `NoneLostCorrect`, `OnlyBufferWaitsCorrect`, `NotTwiceCorrect`,
`OldestFirstCorrect`.
* `NoneLost` needs `Settled` (a flush that has not begun, or is done, has nothing in hand).
* `NotTwice` needs to know where a snapshot is: `RolledUp` (only windows that have ended have any), `OnePlace` (in the buffer or
  with one flush, once) and `OnceWritten` (what is known to be written is held by nobody, and was written once).
* `OldestFirst` needs `Ordered`: while flushes do not overlap at most one is at work, what is buffered is older than what it
  holds, and both are in order. That is what a failed write must not disturb when it pushes its remainder back.
* The lemmas say what concatenation, `Tail` and `Append` do to membership and to order.

**`ConfigStore_proofs`** - `FileInvCorrect`, `TypeCorrect`, `FileIsLatestCorrect`, `SequentialAgreesCorrect`.
* `FileInv`: a goroutine that saves has a configuration in hand (`LocalsOK`); while Saves do not overlap and no placeholder was written over a file, the one at work has the temporary file to
  itself, empty when opened and whole when renamed (`SaverOK`); without a file nothing was put in place; a process that is
  down has no goroutines. A crash leaves a temporary file of any content, which the next Save truncates.
* `SequentialAgrees` adds `TurnInv`: as long as requests follow one another one goroutine works at most (`AloneOK`), and it carries the latest
  configuration from the file to the memory to the proxy (`InTurn`); a reload that is about to write a placeholder is alone, so there is still no file.

**`Registry_proofs`** - `InvCorrect`, `TypeCorrect`, `JobsMatchCorrect`, `NamesLiveCorrect`, `ReloadExactCorrect`,
`FlagsFollowCorrect`, `ForgottenCorrect`, for any containers, names, labels, configurations, reloads and changes.
* `JobsMatch` and `NamesLive` are proved together, in `RegistryInv`: each locked call changes the slots, the index and the jobs at once. They need
  `TargetsOK`, that the slots an ID holds include all those its info declares but for the ports it could not be given (`unopened`), so that a target is removed from all
  its slots or from none and a refused registration leaves nothing behind; and `IndexOK`, that a name only leads to what goes by it. Both depend on
  who calls: `WatchOK` (the watcher registers labelled containers only) and `ReloadsOK` (a reload registers what it merged, one info for each ID,
  and removes only what it did not merge). `DockerOK` says that no two containers have one name at a time.
* `ReloadExact` speaks of the last call of a reload; `ExactInv` of those before it. `OldLeaves`: what a slot still has from before and the
  reload does not want is as it was when the reload compared, and has its call to come. `NewComes`: what it wants and nobody rivals
  is in all its slots, those it could not listen on left empty, or has its call to come. `todo` is a set, so this holds for any order of the calls, that of a Go map included.
* `FlagsFollow` and `Forgotten` speak of rest, with every event handled. `FollowInv` is what holds on the way, unless `disturbed` (the
  history variable that is set where an event is lost, is about a labelled container whose name the file has a service of, or
  meets a reload, and where two reloads work side by side): the last queued event that
  decides about a container is true of it (`EventsTell`), so is what the watcher is about to tell when no such event follows (`WatchTells`),
  what a flag says when neither does (`FlagsTell`), and what a reload has inspected (`SeenTells`).
  `TakeTurns` keeps the reload and the watcher apart. `GoneLeave`: what is served, or is about to be, exists, or its destroy event is queued or its
  removal is about to be called. `ServicesWatched` and `NamesSet` tie the services that are served to `configOnlyNames`,
  without which the events of a container would not reach the service of its name.
* `DistinctAssumption` also says that `None` is not a goroutine: the watcher's calls interfere with every reload.

**`Scaled_proofs`** - `InvCorrect`, `TypeCorrect`, `StartsFromZeroCorrect`. `StartsFromZero` needs `PutSound`: a call that is about to write, and
whose version is current, has read zero and nothing has changed since; whoever writes marks the others stale. `TypeCorrect` includes that only a registered
target is flagged running, whatever events are late or lost.

**`Cascade_proofs`** - `InvCorrect`, `TypeCorrect`, `DependantsFollowCorrect`, for any dependants, rings among them included, and any number of
goroutines.
* No cascade walks past its last dependant. `TypeOK` alone is not inductive: `JobsOK` adds that a goroutine without work is exactly the idle one
  (where `Spawn` puts the next), `WaitsOK` that one which waits for `startGroup` has a call in flight for its container, so that an
  answer finds it at work.
* `DependantsFollow` speaks of rest, and the work is in what holds on the way there. `FollowInv`: unless changes overlapped, either nothing is on the
  move (`AtRest`: the flags are true and one request at most is under way) or one move is spreading (`Moving`). Then a flag that is wrong
  is wrong the way of the move and about to be written (`FlagsMoving`), events report that move and are still true
  (`EventsMoving`), every goroutine is a cascade of its direction or the request that began it (`JobsMoving`), start calls in flight are those of cascades
  (`CallsMoving`), and every dependant that is not there yet is owed a visit: by a goroutine that has it on its list, or by an
  event or a mark that will spawn one (`AllServed`). At rest nothing is owed, so the dependants have followed.
  `MovingOn` is the lemma for a step of a move, `MoveBegins` for the request that turns rest into one, and the `Rest...` lemmas for the request before it
  moves anything.
* Its hypothesis, `RelistsExcused`, counts a report of the Kubernetes watch that repeats itself as one more change. Without it the property is
  false, as `CascadeRelist.cfg` shows (section 4).

## 6. Limits

* **Only model-checked**: liveness under fairness and everything that rests on `ENABLED`, which the
  proof system cannot do (`StartupBounded`, `FlaggedIdleStopped`, `KeepsContract`, `EverySleepEnds`,
  `IdleFlowsSwept`, `Quiesces`, and the three that `Scaled` promises in the end). Every invariant that a run checks is also a theorem.
* **Time** is fresh or expired per port and the clocks of one port run out together; the length
  of a timeout, of a poll interval or of a backoff is not modelled. A target with its own timeout differs from
  one with the default in length only.
* **Events** arrive in order and none is lost in `ProxyLifecycle` and `UdpListener`; `Registry`, `Cascade` and `Scaled` lose them when
  the stream breaks, and `Registry` has create and destroy. Network events are not modelled.
* **Data races**: `lastActive` is a `time.Time` written and read without a lock. A read is modelled as returning the
  value before or after the write, not a torn one.
* **Registration** is fixed in `ProxyLifecycle`; `RemoveTarget` is modelled for UDP only, and
  re-registration for metrics and in `Registry` only.
* **Registry**: TCP and UDP ports are alike; `net.Listen` fails for any of a constant set of ports (`Contested`) whenever nothing of the proxy's listens there, or never; `AddFunc` refuses both expressions of a target or
  neither, and those of labels are valid because they are parsed first (`LabelsAssumption`); containers are not renamed, and an inspection of
  a container that exists succeeds. A discovery inspects all containers in one step, an event inspects when it is received. Of an info the
  declared ports and the schedule are kept; the flags of a port, not its connections. Swarm services (`DiscoverServices`,
  `NotifyTargets`) and networks are left out.
* **Cascade**: every dependant is registered (`nameToID` is `Registry`'s subject) and the labels do not change; a connection is only its start; the
  checker's verdict is a nondeterministic idle stop; a UDP leader's start is a connection to a UDP port and left out, as is its stop.
* **Scaled**: one service, registered once it is known; its update carries no other change than the count; the second connection of a start is
  `ProxyLifecycle`'s subject, and dependants and schedules of a service behave as in `Cascade`. A version is current or stale.
* **Collector**: bytes and cold starts are left out (additions of the same kind as the counters); of durations
  only the number is kept.
* **Store**: `os.WriteFile` of the placeholder is one step, since an empty file reads as the placeholder does; that of the temporary file is two. The placeholder of the first `Load` is one step
  with the read before it, since nothing else runs yet.
* **Not modelled**: HTTP parsing and authentication (an unauthorised request is a connection that
  leaves at once), TLS, webhooks, Traefik output, Portainer, compose re-provisioning, memory statistics, the dashboard,
  the query of the dashboard's activity chart: I/O and pure functions without state of their own.

## 7. Plan

Done, in this order: `ProxyLifecycle`, `UdpListener`, `PortAllocator`, `MetricsRetry`, `MetricsCollector`, `ConfigStore`, `Registry`,
`OnDemand` with its refinement, `Cascade` and `Scaled`; and the proofs of every invariant of theirs that a run checks.

1. **Composition**: TCP and UDP ports of one container, which is where the asynchronous stop of a UDP leader (`udp.go:255`) meets other traffic.
2. **Registry**: Swarm services among the targets of a reload; the two expressions of a target apart.
3. **Traefik**: the routers of two targets with one name (`internal/traefik/config.go`), a pure function over small sets of targets.
