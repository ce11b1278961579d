------------------------------ MODULE Registry ------------------------------
(***************************************************************************)
(* Which targets the proxy serves: RegisterTarget, RemoveTarget and Update *)
(* of internal/proxy/server.go, driven by the Docker event watcher         *)
(* (internal/docker/manager.go) and by reloads (main.go, discoverAndApply; *)
(* internal/config/store.go, Apply).                                       *)
(*                                                                         *)
(* A slot is where a target is kept: a listen port (s.targets and          *)
(* s.udpTargets are handled alike), or, for a target without ports, its ID *)
(* (s.cronOnlyTargets).  A service that is only in the YAML file has its   *)
(* name for an ID.  Every call locks the registry once; the calls of the   *)
(* watcher and of any number of reloads interleave.                        *)
(***************************************************************************)
EXTENDS Integers, Sequences, FiniteSets

CONSTANTS
  Containers,    \* container IDs; a container that is removed does not come back
  Names,         \* container names, the IDs of services without labels
  Ports,         \* listen ports, TCP and UDP
  Contested,     \* those that other programs may hold, where listening may fail
  Name,          \* Name[k]: the name of container k
  Labels,        \* Labels[k]: what its labels declare, or None
  Configs,       \* configurations: for each name a declaration, or None
  Admins,        \* goroutines of the admin server
  Main,          \* the goroutine of main, for the initial discovery
  DiscoverFails, \* listing the containers may fail
  MaxEvents,     \* bound: undelivered Docker events
  MaxChanges,    \* bound: changes of containers
  MaxRequests,   \* bound: requests to the admin server
  MaxBreaks,     \* bound: breaks of the event stream
  None

IDs == Containers \cup Names
Slots == Ports \cup IDs
\* A schedule is "invalid" when the scheduler accepts none of its expressions.
Schedules == {"none", "valid", "invalid"}
Specs == [ports : SUBSET Ports, cron : Schedules]
Infos == [id : IDs, name : Names, ports : SUBSET Ports, cron : Schedules]
Goroutines == Admins \cup {Main}

ASSUME NamesAssumption == Name \in [Containers -> Names]
\* The expressions of labels are parsed before they are used.
ASSUME LabelsAssumption ==
  /\ Labels \in [Containers -> Specs \cup {None}]
  /\ \A k \in Containers : Labels[k] # None => Labels[k].cron # "invalid"
ASSUME ContestedAssumption == Contested \subseteq Ports
ASSUME ConfigsAssumption == Configs \subseteq [Names -> Specs \cup {None}]
ASSUME DistinctAssumption ==
  /\ Ports \cap IDs = {} /\ Containers \cap Names = {} /\ Main \notin Admins
  /\ None \notin Slots \cup Infos \cup Specs \cup Goroutines
ASSUME FailsAssumption == DiscoverFails \in BOOLEAN
ASSUME BoundsAssumption ==
  MaxEvents \in Nat /\ MaxChanges \in Nat /\ MaxRequests \in Nat /\ MaxBreaks \in Nat

VARIABLES
  world,      \* the daemon's containers: "none", "down", "up" or "gone"
  events,     \* Docker events not yet received
  listening,  \* the watcher's event stream is connected
  watch,      \* the calls an event still has to make, and their arguments
  config,     \* Store.config
  configOnly, \* Manager.configOnlyIDs
  targets,    \* info of the target in each slot, or None
  flags,      \* its running and missing: "up", "down" or "missing"
  nameToID,   \* ProxyServer.nameToID
  jobs,       \* IDs with entries in the scheduler
  pc,         \* where each reload is
  merged,     \* the targets it has discovered, then merged
  seen,       \* and whether they were running when inspected
  todo,       \* calls its Update has still to make
  replacing,  \* the target it has removed and registers next, or None
  changes, requests, breaks,
  unopened,    \* history: for each ID the ports it could not be given a listener on
  unscheduled, \* history: IDs whose expressions the scheduler last refused
  before,     \* history: targets when Update compared them
  clean,      \* history: nothing else has touched the registry since its discovery
  disturbed   \* history: an event was lost, misdirected, or raced a reload

registry == <<targets, flags, nameToID, jobs, unopened, unscheduled>>
docker   == <<world, events, listening, changes, breaks>>
reloads  == <<pc, merged, seen, todo, replacing, before, requests>>
vars == <<world, events, listening, watch, config, configOnly, targets, flags,
          nameToID, jobs, unopened, unscheduled, pc, merged, seen, todo, replacing,
          changes, requests, breaks, before, clean, disturbed>>

Info(id, name, spec) ==
  [id |-> id, name |-> name, ports |-> spec.ports, cron |-> spec.cron]

LabelInfo(k) == Info(k, Name[k], Labels[k])

Nothing == [s \in Slots |-> None]

SlotsOf(info) == IF info.ports = {} THEN {info.id} ELSE info.ports
SlotsWith(id) == {s \in Slots : targets[s] # None /\ targets[s].id = id}

-----------------------------------------------------------------------------
(* Calls on the registry *)

\* One port of the target belongs to another container.
Conflict(info) == \E p \in info.ports : targets[p] # None /\ targets[p].id # info.id

\* Slots of the container that are not written keep what they have.
WriteSlots(info, slots) ==
  targets' = [s \in Slots |-> IF s \in slots THEN info ELSE targets[s]]

\* Where nothing listens yet the port may be taken by another program.
MayFail(info) == {p \in info.ports \cap Contested : targets[p] = None}

\* Scheduler.Register: the old entries go first; an expression that is refused is
\* logged and leaves none.
Schedule(info) ==
  CASE info.cron = "none" -> UNCHANGED <<jobs, unscheduled>>
    [] info.cron = "valid" ->
         jobs' = jobs \cup {info.id} /\ unscheduled' = unscheduled \ {info.id}
    [] OTHER ->
         jobs' = jobs \ {info.id} /\ unscheduled' = unscheduled \cup {info.id}

\* A conflict rejects all of it. A port that cannot be listened on is skipped, and the
\* name index and the scheduler are written all the same.
RegisterTarget(info, flag) ==
  IF Conflict(info)
  THEN UNCHANGED registry
  ELSE \E failed \in SUBSET MayFail(info) :
         LET slots == SlotsOf(info) \ failed
         IN  /\ WriteSlots(info, slots)
             /\ flags' = [s \in Slots |-> IF s \in slots THEN flag ELSE flags[s]]
             /\ nameToID' = [nameToID EXCEPT ![info.name] = info.id]
             /\ Schedule(info)
             /\ unopened' = [unopened EXCEPT ![info.id] = (@ \ info.ports) \cup failed]

KeepJobs(id) == UNCHANGED jobs  \* regression: RemoveTarget without sched.Unregister
Unregister(id) == jobs' = jobs \ {id}

KeepNames(id) == UNCHANGED nameToID  \* regression: the name index is not cleaned
\* The names of all slots that are removed are forgotten, whatever ID they stand for.
ForgetNames(id) ==
  LET names == {targets[s].name : s \in SlotsWith(id)}
  IN  nameToID' = [n \in Names |-> IF n \in names THEN None ELSE nameToID[n]]

RemoveTarget(id) ==
  LET gone == SlotsWith(id)
  IN  /\ targets' = [s \in Slots |-> IF s \in gone THEN None ELSE targets[s]]
      /\ flags' = [s \in Slots |-> IF s \in gone THEN "down" ELSE flags[s]]
      /\ ForgetNames(id) /\ Unregister(id)
      /\ unopened' = [unopened EXCEPT ![id] = IF gone = {} THEN @ ELSE {}]
      /\ unscheduled' = unscheduled \ {id}

SetFlags(slots, flag) ==
  /\ flags' = [s \in Slots |-> IF s \in slots THEN flag ELSE flags[s]]
  /\ UNCHANGED <<targets, nameToID, jobs, unopened, unscheduled>>

ContainerStarted(id) == SetFlags(SlotsWith(id), "up")

\* running = false, missing is left alone.
ContainerStopped(id) == SetFlags({s \in SlotsWith(id) : flags[s] # "missing"}, "down")

\* A target without ports is not marked.
ContainerRemoved(id) == SetFlags(SlotsWith(id) \cap Ports, "missing")

-----------------------------------------------------------------------------
(* The Docker daemon *)

Exists(k) == world[k] \in {"down", "up"}
Labelled(k) == Labels[k] # None

Event(kind, k) == [kind |-> kind, id |-> k]

\* An event nobody listens to is lost.
Change(k, state, kind) ==
  /\ changes < MaxChanges /\ changes' = changes + 1
  /\ world' = [world EXCEPT ![k] = state]
  /\ IF listening
     THEN /\ Len(events) < MaxEvents
          /\ events' = Append(events, Event(kind, k))
          /\ UNCHANGED disturbed
     ELSE UNCHANGED events /\ disturbed' = TRUE
  /\ UNCHANGED <<listening, breaks, watch, config, configOnly, registry, reloads, clean>>

Create(k) ==
  /\ world[k] = "none"
  /\ \A l \in Containers : Exists(l) => Name[l] # Name[k]
  /\ Change(k, "down", "create")

StartContainer(k) == world[k] = "down" /\ Change(k, "up", "start")
Die(k) == world[k] = "up" /\ Change(k, "down", "die")
Destroy(k) == world[k] = "down" /\ Change(k, "gone", "destroy")

-----------------------------------------------------------------------------
(* WatchEvents *)

Quiescent == [calls |-> <<>>, id |-> None, flag |-> "down"]

DestroyStops(k) ==  \* regression: a removed container stays registered
  [calls |-> <<"stopped">>, id |-> k, flag |-> "down"]
DestroyCall(k) == [calls |-> <<"remove">>, id |-> k, flag |-> "down"]

\* A labelled container is inspected, which fails when it is gone; others matter
\* only when the YAML file names them.
OnAppear(kind, k) ==
  CASE Labelled(k) /\ Exists(k) ->
         [calls |-> IF kind = "start" THEN <<"register", "started">> ELSE <<"register">>,
          id |-> k, flag |-> world[k]]
    [] ~Labelled(k) /\ kind = "start" /\ Name[k] \in configOnly ->
         [calls |-> <<"started">>, id |-> Name[k], flag |-> "down"]
    [] OTHER -> Quiescent

OnDieByID(k) ==  \* regression: the Docker ID, which a service without labels never has
  [calls |-> <<"stopped">>, id |-> k, flag |-> "down"]

\* "die" and "destroy" look at the name first, and at the labels not at all.
OnDie(k) ==
  [calls |-> <<"stopped">>, id |-> IF Name[k] \in configOnly THEN Name[k] ELSE k,
   flag |-> "down"]

OnDestroy(k) ==
  IF Name[k] \in configOnly
  THEN [calls |-> <<"missing">>, id |-> Name[k], flag |-> "down"]
  ELSE DestroyCall(k)

Reloading == \E g \in Goroutines : pc[g] # "idle"

\* Another reload that is at work, or all of them when it is the watcher's call, is
\* no longer clean.
Interferes(g) ==
  /\ clean' = [h \in Goroutines |-> h = g /\ clean[h]]
  /\ before' = [h \in Goroutines |-> IF h = g THEN before[h] ELSE Nothing]

Receive ==
  /\ listening /\ watch = Quiescent /\ events # <<>>
  /\ LET e == Head(events)
     IN  /\ watch' = CASE e.kind \in {"create", "start"} -> OnAppear(e.kind, e.id)
                       [] e.kind = "die" -> OnDie(e.id)
                       [] OTHER -> OnDestroy(e.id)
         /\ disturbed' = (disturbed \/ Reloading
                            \/ (Labelled(e.id) /\ Name[e.id] \in configOnly))
  /\ events' = Tail(events)
  /\ UNCHANGED <<world, listening, changes, breaks, config, configOnly, registry, reloads, clean>>

Call ==
  /\ watch # Quiescent
  /\ LET call == Head(watch.calls)
     IN  \/ call = "register" /\ RegisterTarget(LabelInfo(watch.id), watch.flag)
         \/ call = "started" /\ ContainerStarted(watch.id)
         \/ call = "stopped" /\ ContainerStopped(watch.id)
         \/ call = "missing" /\ ContainerRemoved(watch.id)
         \/ call = "remove" /\ RemoveTarget(watch.id)
  /\ watch' = IF Len(watch.calls) = 1 THEN Quiescent
              ELSE [watch EXCEPT !.calls = Tail(@)]
  /\ disturbed' = (disturbed \/ Reloading)
  /\ Interferes(None)
  /\ UNCHANGED <<docker, config, configOnly, pc, merged, seen, todo, replacing, requests>>

\* The stream ends with an error; what was in it is lost.
StreamBreaks ==
  /\ listening /\ watch = Quiescent
  /\ breaks < MaxBreaks /\ breaks' = breaks + 1
  /\ listening' = FALSE /\ events' = <<>>
  /\ disturbed' = (disturbed \/ events # <<>>)
  /\ UNCHANGED <<world, changes, watch, config, configOnly, registry, reloads, clean>>

\* WatchEvents (re)connects; main calls it after the initial discovery.
Listen ==
  /\ ~listening /\ pc[Main] = "idle"
  /\ listening' = TRUE
  /\ UNCHANGED <<world, events, changes, breaks, watch, config, configOnly, registry, reloads, clean, disturbed>>

-----------------------------------------------------------------------------
(* discoverAndApply *)

Goto(g, label) == pc' = [pc EXCEPT ![g] = label]

\* A reload or an update, which sets the configuration (ConfigStore has the files).
Request(g) ==
  /\ g \in Admins /\ pc[g] = "idle"
  /\ requests < MaxRequests /\ requests' = requests + 1
  /\ config' \in Configs
  /\ Goto(g, "discover")
  /\ UNCHANGED <<docker, watch, configOnly, registry, merged, seen, todo,
                 replacing, before, clean, disturbed>>

\* Discover: every labelled container, running or not, as inspected.
Discover(g) ==
  /\ pc[g] = "discover"
  /\ merged' = [merged EXCEPT ![g] = {LabelInfo(k) : k \in {l \in Containers : Labelled(l) /\ Exists(l)}}]
  /\ seen' = [seen EXCEPT ![g] =
       [id \in IDs |-> IF id \in Containers /\ Labelled(id) /\ world[id] = "up"
                        THEN "up" ELSE "down"]]
  /\ LET others == \E h \in Goroutines \ {g} : pc[h] \notin {"idle", "discover"}
     IN  /\ clean' = [h \in Goroutines |-> IF h = g THEN ~others ELSE FALSE]
         /\ before' = [h \in Goroutines |-> Nothing]
         /\ disturbed' = (disturbed \/ others \/ watch # Quiescent)
  /\ Goto(g, "merge")
  /\ UNCHANGED <<docker, watch, config, configOnly, registry, todo, replacing, requests>>

DiscoverFailed(g) ==
  /\ DiscoverFails /\ pc[g] = "discover"
  /\ Goto(g, "idle")
  /\ UNCHANGED <<docker, watch, config, configOnly, registry, merged, seen, todo,
                 replacing, before, clean, disturbed, requests>>

\* Store.Apply: a declaration in the YAML file replaces the labels of the container
\* of that name, or is a target of its own; one without ports is skipped.
Overlay(found) ==
  LET Declared(n) == config[n] # None /\ config[n].ports # {}
      Found(n) == \E t \in found : t.name = n
  IN  {IF Declared(t.name) THEN Info(t.id, t.name, config[t.name]) ELSE t : t \in found}
        \cup {Info(n, n, config[n]) : n \in {m \in Names : Declared(m) /\ ~Found(m)}}

\* InspectRunning of a service that is only in the YAML file.
InspectName(n) ==
  CASE \E k \in Containers : Name[k] = n /\ world[k] = "up" -> "up"
    [] \E k \in Containers : Name[k] = n /\ world[k] = "down" -> "down"
    [] OTHER -> "missing"

Merge(g) ==
  /\ pc[g] = "merge"
  /\ merged' = [merged EXCEPT ![g] = Overlay(@)]
  /\ seen' = [seen EXCEPT ![g] =
       [id \in IDs |-> IF id \in {t.id : t \in Overlay(merged[g])} \cap Names
                        THEN InspectName(id) ELSE @[id]]]
  /\ Goto(g, "names")
  /\ UNCHANGED <<docker, watch, config, configOnly, registry, todo, replacing, before,
                 clean, disturbed, requests>>

SetConfigOnlyNames(g) ==
  /\ pc[g] = "names"
  /\ configOnly' = {t.id : t \in merged[g]} \cap Names
  /\ Goto(g, "compare")
  /\ UNCHANGED <<docker, watch, config, registry, merged, seen, todo, replacing, before,
                 clean, disturbed, requests>>

\* targetInfoEqual.
SameTarget(a, b) == a.ports = b.ports /\ a.cron = b.cron

\* Update compares what is registered with what is wanted. A container whose ports
\* have different infos is represented by any one of them (currentTargetsByID).
Compare(g) ==
  /\ pc[g] = "compare"
  /\ LET Registered == {targets[s].id : s \in {r \in Slots : targets[r] # None}}
         Wanted == {t.id : t \in merged[g]}
     IN  \E current \in [Registered -> {targets[s] : s \in Slots}] :
           /\ \A id \in Registered : current[id] # None /\ current[id].id = id
           /\ todo' = [todo EXCEPT ![g] =
                {[op |-> "remove", info |-> current[id]] : id \in Registered \ Wanted}
                \cup {[op |-> "add", info |-> t] : t \in {u \in merged[g] : u.id \notin Registered}}
                \cup {[op |-> "replace", info |-> t] :
                        t \in {u \in merged[g] : /\ u.id \in Registered
                                                 /\ ~SameTarget(current[u.id], u)}}]
  /\ before' = [before EXCEPT ![g] = IF clean[g] THEN targets ELSE Nothing]
  /\ Goto(g, "update")
  /\ UNCHANGED <<docker, watch, config, configOnly, registry, merged, seen, replacing,
                 clean, disturbed, requests>>

Calls(g, op) == {c \in todo[g] : c.op = op}

Touches(g) ==
  /\ Interferes(g)
  /\ disturbed' = (disturbed \/ \E h \in Goroutines \ {g} : pc[h] # "idle")
  /\ UNCHANGED <<docker, watch, config, configOnly, merged, seen, requests>>

\* First what is no longer wanted is removed ...
UpdateRemove(g) ==
  /\ pc[g] = "update"
  /\ \E c \in Calls(g, "remove") :
       RemoveTarget(c.info.id) /\ todo' = [todo EXCEPT ![g] = @ \ {c}]
  /\ Touches(g) /\ UNCHANGED <<pc, replacing>>

Registering(g) == pc[g] = "update" /\ Calls(g, "remove") = {}

\* ... then, in any order, the new is registered and the changed replaced.
UpdateAdd(g) ==
  /\ Registering(g) /\ replacing[g] = None
  /\ \E c \in Calls(g, "add") :
       /\ RegisterTarget(c.info, seen[g][c.info.id])
       /\ todo' = [todo EXCEPT ![g] = @ \ {c}]
  /\ Touches(g) /\ UNCHANGED <<pc, replacing>>

UpdateInPlace(g) ==  \* regression: the old registration is not removed first
  /\ Registering(g) /\ replacing[g] = None
  /\ \E c \in Calls(g, "replace") :
       /\ UNCHANGED registry
       /\ replacing' = [replacing EXCEPT ![g] = c.info]
       /\ todo' = [todo EXCEPT ![g] = @ \ {c}]
  /\ Touches(g) /\ UNCHANGED pc

UpdateReplace(g) ==
  /\ Registering(g) /\ replacing[g] = None
  /\ \E c \in Calls(g, "replace") :
       /\ RemoveTarget(c.info.id)
       /\ replacing' = [replacing EXCEPT ![g] = c.info]
       /\ todo' = [todo EXCEPT ![g] = @ \ {c}]
  /\ Touches(g) /\ UNCHANGED pc

UpdateReplaced(g) ==
  /\ Registering(g) /\ replacing[g] # None
  /\ RegisterTarget(replacing[g], seen[g][replacing[g].id])
  /\ replacing' = [replacing EXCEPT ![g] = None]
  /\ Touches(g) /\ UNCHANGED <<pc, todo>>

Done(g) ==
  /\ pc[g] = "update" /\ todo[g] = {} /\ replacing[g] = None
  /\ Goto(g, "idle")
  /\ merged' = [merged EXCEPT ![g] = {}]
  /\ seen' = [seen EXCEPT ![g] = [id \in IDs |-> "down"]]
  /\ before' = [before EXCEPT ![g] = Nothing]
  /\ clean' = [clean EXCEPT ![g] = FALSE]
  /\ UNCHANGED <<docker, watch, config, configOnly, registry, todo, replacing, disturbed, requests>>

-----------------------------------------------------------------------------

Next ==
  \/ \E k \in Containers : Create(k) \/ StartContainer(k) \/ Die(k) \/ Destroy(k)
  \/ Receive \/ Call \/ StreamBreaks \/ Listen
  \/ \E g \in Goroutines :
       \/ Request(g) \/ Discover(g) \/ DiscoverFailed(g) \/ Merge(g)
       \/ SetConfigOnlyNames(g) \/ Compare(g)
       \/ UpdateRemove(g) \/ UpdateAdd(g) \/ UpdateReplace(g) \/ UpdateReplaced(g) \/ Done(g)

\* The proxy starts: main has loaded the file and is about to discover.
Init ==
  /\ world \in [Containers -> {"none", "up"}]
  /\ \A k, l \in Containers : Exists(k) /\ Exists(l) /\ Name[k] = Name[l] => k = l
  /\ events = <<>> /\ listening = FALSE /\ watch = Quiescent
  /\ config \in Configs /\ configOnly = {}
  /\ targets = Nothing /\ flags = [s \in Slots |-> "down"]
  /\ nameToID = [n \in Names |-> None] /\ jobs = {}
  /\ unopened = [id \in IDs |-> {}] /\ unscheduled = {}
  /\ pc = [g \in Goroutines |-> IF g = Main THEN "discover" ELSE "idle"]
  /\ merged = [g \in Goroutines |-> {}]
  /\ seen = [g \in Goroutines |-> [id \in IDs |-> "down"]]
  /\ todo = [g \in Goroutines |-> {}] /\ replacing = [g \in Goroutines |-> None]
  /\ before = [g \in Goroutines |-> Nothing]
  /\ changes = 0 /\ requests = 0 /\ breaks = 0
  /\ clean = [g \in Goroutines |-> FALSE] /\ disturbed = FALSE

Spec == Init /\ [][Next]_vars

-----------------------------------------------------------------------------
(* Properties *)

Registered(id) == \E s \in Slots : targets[s] # None /\ targets[s].id = id

\* Every variable keeps its type, and a slot holds a target that declares it.
TypeOK ==
  /\ world \in [Containers -> {"none", "down", "up", "gone"}]
  /\ events \in Seq([kind : {"create", "start", "die", "destroy"}, id : Containers])
  /\ listening \in BOOLEAN
  /\ watch.id \in IDs \cup {None} /\ watch.flag \in {"down", "up"} /\ Len(watch.calls) <= 2
  /\ config \in [Names -> Specs \cup {None}] /\ configOnly \subseteq Names
  /\ targets \in [Slots -> Infos \cup {None}]
  /\ \A s \in Slots : targets[s] # None => s \in SlotsOf(targets[s])
  /\ flags \in [Slots -> {"up", "down", "missing"}]
  /\ nameToID \in [Names -> IDs \cup {None}] /\ jobs \subseteq IDs
  /\ unopened \in [IDs -> SUBSET Contested] /\ unscheduled \subseteq IDs
  /\ pc \in [Goroutines -> {"idle", "discover", "merge", "names", "compare", "update"}]
  /\ \A g \in Goroutines :
       /\ merged[g] \subseteq Infos
       /\ todo[g] \subseteq [op : {"remove", "add", "replace"}, info : Infos]
       /\ replacing[g] \in Infos \cup {None}
  /\ {changes, requests, breaks} \subseteq Nat /\ {disturbed} \subseteq BOOLEAN

\* The scheduler follows the registry through every interleaving of reloads and
\* events: what is registered with a schedule has its jobs, unless the scheduler refused
\* it when it was last offered, and no job outlives the registration of its target,
\* unless RegisterTarget could not listen on a port of it.
JobsMatch ==
  /\ \A s \in Slots : targets[s] # None /\ targets[s].cron = "valid" =>
       targets[s].id \in jobs \cup unscheduled
  /\ \A id \in jobs : Registered(id) \/ unopened[id] # {}

\* A cascade is led only to containers that are registered, or that RegisterTarget
\* could not give all their ports.
NamesLive ==
  \A n \in Names : nameToID[n] # None =>
    Registered(nameToID[n]) \/ unopened[nameToID[n]] # {}

\* A reload that nothing else touched leaves exactly what it merged: no slot keeps
\* anything else, and every merged target has all its slots. Three exceptions, which
\* are in the code: a container whose slots disagreed, a target one of whose ports
\* another one holds when the reload begins or wants too, and a port that could not
\* be listened on.
Coherent(before_g, id) ==
  \A s, r \in Slots :
    /\ before_g[s] # None /\ before_g[r] # None
    /\ before_g[s].id = id /\ before_g[r].id = id
    => before_g[s] = before_g[r]

Finished(g) == pc[g] = "update" /\ todo[g] = {} /\ replacing[g] = None /\ clean[g]

Rivals(g, t) == {u \in merged[g] : u # t /\ u.ports \cap t.ports # {}}

ReloadExact ==
  \A g \in Goroutines : Finished(g) =>
    /\ \A s \in Slots :
         targets[s] # None /\ Coherent(before[g], targets[s].id) => targets[s] \in merged[g]
    /\ \A t \in merged[g] :
         \/ ~Coherent(before[g], t.id)
         \/ \E p \in t.ports : before[g][p] # None /\ before[g][p].id # t.id
         \/ Rivals(g, t) # {}
         \/ \A s \in SlotsOf(t) :
              targets[s] = t \/ (targets[s] = None /\ s \in unopened[t.id])

Settled == events = <<>> /\ watch = Quiescent /\ ~Reloading

Up(id) == \E k \in Containers : world[k] = "up" /\ id \in {k, Name[k]}

\* When all events have been applied and none was lost, misdirected or raced by a
\* reload, the running flags agree with the daemon, also where an inspection was
\* out of date when it was used.
FlagsFollow ==
  Settled /\ ~disturbed =>
    \A s \in Slots : targets[s] # None => (flags[s] = "up") = Up(targets[s].id)

\* Under the same conditions nothing is served for a container that was removed.
Forgotten ==
  Settled /\ ~disturbed =>
    \A k \in Containers : Registered(k) => Exists(k)

-----------------------------------------------------------------------------
(* What the documentation says and the code does not do *)

\* README_CONFIG.md:145, "if the YAML entry is present, labels are ignored completely
\* for that service".
YamlWins ==
  ~Reloading => \A s \in Slots :
    targets[s] # None /\ config[targets[s].name] # None
      => targets[s] = Info(targets[s].id, targets[s].name, config[targets[s].name])

\* README_CONFIG.md:264, "Targets no longer in the merged list are removed (listeners
\* closed)", also in a reload that nothing else touched.
ReloadForgets ==
  \A g \in Goroutines : Finished(g) =>
    \A s \in Slots : targets[s] # None => targets[s] \in merged[g]

\* The same line of the jobs: after a reload that nothing else touched only what it
\* merged is still scheduled.
ReloadUnschedules ==
  \A g \in Goroutines : Finished(g) => jobs \subseteq {t.id : t \in merged[g]}

\* README_CONFIG.md:266, "Changed targets are re-registered": after a reload that nothing
\* else touched every merged target that shares no port with another, and could listen
\* on its own, is registered.
ReloadApplies ==
  \A g \in Goroutines : Finished(g) =>
    \A t \in merged[g] :
      Rivals(g, t) # {} \/ Registered(t.id) \/ unopened[t.id] # {}

\* server.go:682, "Keep name->ID map current for cascade lookups".
RegisteredNamed ==
  Settled => \A s \in Slots :
    targets[s] # None => nameToID[targets[s].name] # None

\* scheduler.go:75, a refused expression "Should not happen - expression was validated at
\* parse time".
ExpressionsValid == unscheduled = {}

\* README.md:412, the proxy "Watches Docker events for new/removed containers and updates
\* proxy targets live".
RemovedForgotten ==
  Settled /\ listening => \A k \in Containers : Registered(k) => Exists(k)
=============================================================================
