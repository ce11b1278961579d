------------------------------ MODULE Cascade ------------------------------
(***************************************************************************)
(* The dependency cascade of internal/proxy/server.go: a hub container     *)
(* starts and stops its declared dependants.                               *)
(*                                                                         *)
(* A cascade runs in a goroutine of its own. It is spawned by the event    *)
(* watcher (ContainerStarted, ContainerStopped), by the cron scheduler     *)
(* (CronStart, CronStop) and by the inactivity checker; a dependant that   *)
(* changes causes an event, and so cascades in its turn. Nothing orders a  *)
(* cascade of starts with one of stops, and both race with connections,    *)
(* which share the singleflight group with the cascades of starts.         *)
(***************************************************************************)
EXTENDS Naturals, Sequences, FiniteSets

CONSTANTS
  Containers,   \* container IDs, each registered under its name
  Kind,         \* Kind[c]: "tcp", "udp" (UDP ports only) or "portless"
  Cron,         \* containers whose effective availability is cron
  Dependants,   \* Dependants[c]: info.Dependants, in label order
  Workers,      \* bound: goroutines alive together, numbered
  MaxChanges,   \* bound: changes that come from outside the cascade
  RelistsExcused  \* what a report without a change causes counts as a race

Kinds == {"tcp", "udp", "portless"}

ASSUME KindAssumption == Kind \in [Containers -> Kinds]
ASSUME CronAssumption == Cron \subseteq Containers
ASSUME DependantsAssumption == Dependants \in [Containers -> Seq(Containers)]
ASSUME WorkersAssumption == Workers \subseteq Nat /\ IsFiniteSet(Workers)
ASSUME BoundsAssumption == MaxChanges \in Nat /\ RelistsExcused \in BOOLEAN

VARIABLES
  container,  \* container[c]: "up" or "down"
  running,    \* running[c]: the flag of its targets, or of its cronOnlyState
  events,     \* start and die events not yet received
  jobs,       \* jobs[w]: what goroutine w does, and to which containers
  flight,     \* startGroup: the EnsureRunning call in flight per container
  changes,    \* changes from outside so far
  moved,      \* history: the last call that no cascade made to move a container
  excused,    \* history: containers a call failed for since then
  raced       \* history: two changes overlapped, and their traces remain

serverVars == <<running, jobs, flight>>
dockerVars == <<container, events>>
vars == <<container, running, events, jobs, flight, changes, moved, excused, raced>>

-----------------------------------------------------------------------------
(* Goroutines *)

Starts == {"connect", "cascadeStart", "cronStart"}
Stops  == {"idleStop", "cascadeStop", "cronStop"}
Cascades == {"cascadeStart", "cascadeStop"}

\* A goroutine works through todo: it looks at the first container's flag (or
\* joins a start), waits for the backend, and marks the flag.
Idle == [op |-> "none", pc |-> "look", todo |-> <<>>]
Job(op, todo) == [op |-> op, pc |-> "look", todo |-> todo]

Free == {w \in Workers : jobs[w] = Idle}
FirstFree == CHOOSE w \in Free : \A v \in Free : w <= v

\* go f(...)
Spawn(op, todo) ==
  IF todo = <<>> THEN UNCHANGED jobs
  ELSE Free # {} /\ jobs' = [jobs EXCEPT ![FirstFree] = Job(op, todo)]

Target(w) == Head(jobs[w].todo)

At(w, ops, label) == jobs[w].op \in ops /\ jobs[w].pc = label

Goto(w, label) == [jobs[w] EXCEPT !.pc = label]

SkipRest(w) == Idle  \* regression: break instead of continue
SkipLate(w) ==  \* regression: the loop runs once more after the last dependant
  Job(jobs[w].op, Tail(jobs[w].todo))

\* On to the next dependant; the goroutine ends after the last one.
Skip(w) ==
  IF Len(jobs[w].todo) = 1 THEN Idle
  ELSE Job(jobs[w].op, Tail(jobs[w].todo))

\* The dependants that a start of container c is cascaded to. The hub's info is
\* looked up in the TCP and the port-less targets only.
StartedWith(c) == IF Kind[c] = "udp" THEN <<>> ELSE Dependants[c]

Settled ==
  events = <<>> /\ Free = Workers /\ \A c \in Containers : flight[c] = "none"

FlagsTrue == \A c \in Containers : running[c] = (container[c] = "up")

-----------------------------------------------------------------------------
(* The daemon *)

Moves == [hub : Containers, to : {"up", "down"}, changed : BOOLEAN]

\* One event for each change, none when the container is already there. A
\* change that no cascade made is remembered as the hub's move. A cron start replaces
\* it even when its container was up, for it cascades all the same, but has then
\* changed nothing.
SetContainer(c, state, op) ==
  /\ container' = [container EXCEPT ![c] = state]
  /\ events' = IF container[c] = state THEN events
               ELSE Append(events, [kind |-> state, id |-> c])
  /\ IF op \notin Cascades /\ (container[c] # state \/ op = "cronStart")
     THEN /\ moved' = {[hub |-> c, to |-> state, changed |-> container[c] # state]}
          /\ excused' = {}
     ELSE UNCHANGED <<moved, excused>>

\* Any call on the daemon may fail; the caller logs it and goes on.
CallFails(c) == excused' = excused \cup {c} /\ UNCHANGED <<dockerVars, moved>>

-----------------------------------------------------------------------------
(* What comes from outside the cascade *)

\* A change that meets another in progress is a race. One at rest, with the flags
\* true, has a clean slate: the moves of the race before it are forgotten.
Change ==
  /\ changes < MaxChanges
  /\ changes' = changes + 1
  /\ raced' = IF Settled THEN raced /\ ~FlagsTrue ELSE TRUE

Forget == moved' = IF raced /\ ~raced' THEN {} ELSE moved

\* A user starts or stops a container, or it crashes.
Outside(c) ==
  /\ Change
  /\ SetContainer(c, IF container[c] = "up" THEN "down" ELSE "up", "outside")
  /\ UNCHANGED serverVars

\* A connection to a TCP port, an idle verdict, a cron entry that fires.
Request(op, c) ==
  /\ Change
  /\ Spawn(op, <<c>>)
  /\ Forget
  /\ UNCHANGED <<dockerVars, running, flight, excused>>

Connect(c) == c \notin Cron /\ Kind[c] = "tcp" /\ Request("connect", c)
IdleStop(c) ==  \* the checker is one goroutine, and has no other stop in hand
  /\ c \notin Cron /\ Kind[c] # "portless"
  /\ \A w \in Workers : jobs[w].op # "idleStop"
  /\ Request("idleStop", c)
CronStart(c) == c \in Cron /\ Request("cronStart", c)
CronStop(c) == c \in Cron /\ Request("cronStop", c)

\* A Kubernetes watch reports every object again when it reconnects.
Resend(c) ==
  /\ changes < MaxChanges /\ changes' = changes + 1
  /\ events' = Append(events, [kind |-> container[c], id |-> c])
  /\ raced' = (raced \/ RelistsExcused \/ ~Settled)
  /\ UNCHANGED <<container, serverVars, moved, excused>>

\* The event stream breaks: what was not received is lost.
StreamBreaks ==
  /\ events # <<>>
  /\ events' = <<>>
  /\ raced' = TRUE
  /\ UNCHANGED <<container, serverVars, changes, moved, excused>>

-----------------------------------------------------------------------------
(* The event watcher *)

\* ContainerStarted and ContainerStopped: the flag of every target, then go
\* cascadeStart or go cascadeStop.
Watch ==
  /\ events # <<>>
  /\ LET e == Head(events) IN
       /\ running' = [running EXCEPT ![e.id] = e.kind = "up"]
       /\ IF e.kind = "up" THEN Spawn("cascadeStart", StartedWith(e.id))
                           ELSE Spawn("cascadeStop", Dependants[e.id])
  /\ events' = Tail(events)
  /\ UNCHANGED <<container, flight, changes, moved, excused, raced>>

-----------------------------------------------------------------------------
(* The goroutines' steps *)

\* cascadeStop, CronStop and checkInactivity leave a container alone that is not
\* flagged; cascadeStop does not look at the port-less ones at all.
LeftAlone(w) ==
  \/ ~running[Target(w)]
  \/ jobs[w].op = "cascadeStop" /\ Kind[Target(w)] = "portless"

LookToStop(w) ==
  /\ At(w, Stops, "look")
  /\ jobs' = [jobs EXCEPT ![w] = IF LeftAlone(w) THEN Skip(w) ELSE Goto(w, "call")]
  /\ UNCHANGED <<dockerVars, running, flight, changes, moved, excused, raced>>

\* CronStart skips a flagged container, unless it is port-less.
LookToCronStart(w) ==
  /\ At(w, {"cronStart"}, "look")
  /\ jobs' = [jobs EXCEPT ![w] =
       IF running[Target(w)] /\ Kind[Target(w)] # "portless" THEN Skip(w)
       ELSE Goto(w, "call")]
  /\ UNCHANGED <<dockerVars, running, flight, changes, moved, excused, raced>>

\* StopContainer, or EnsureRunning called by the scheduler on its own.
Call(w) ==
  /\ At(w, Stops \cup {"cronStart"}, "call")
  /\ \/ /\ SetContainer(Target(w), IF jobs[w].op = "cronStart" THEN "up" ELSE "down",
                        jobs[w].op)
        /\ jobs' = [jobs EXCEPT ![w] = Goto(w, "mark")]
     \/ /\ CallFails(Target(w))
        /\ jobs' = [jobs EXCEPT ![w] = Skip(w)]
  /\ UNCHANGED <<running, flight, changes, raced>>

\* startGroup.Do: the first caller's EnsureRunning serves all that join it.
JoinStart(w) ==
  /\ At(w, {"connect", "cascadeStart"}, "look")
  /\ flight' = [flight EXCEPT ![Target(w)] = IF @ = "none" THEN jobs[w].op ELSE @]
  /\ jobs' = [jobs EXCEPT ![w] = Goto(w, "ensuring")]
  /\ UNCHANGED <<dockerVars, running, changes, moved, excused, raced>>

EnsureRunning(c) ==
  /\ flight[c] \in {"connect", "cascadeStart"}
  /\ \/ /\ SetContainer(c, "up", flight[c])
        /\ flight' = [flight EXCEPT ![c] = "ok"]
     \/ CallFails(c) /\ flight' = [flight EXCEPT ![c] = "failed"]
  /\ UNCHANGED <<running, jobs, changes, raced>>

EnsuringFirst(c) ==  \* regression: only one of the goroutines that joined returns
  {CHOOSE w \in Workers : jobs[w].pc = "ensuring" /\ Target(w) = c}

Ensuring(c) == {w \in Workers : jobs[w].pc = "ensuring" /\ Target(w) = c}

StartReturns(c) ==
  /\ flight[c] \in {"ok", "failed"}
  /\ flight' = [flight EXCEPT ![c] = "none"]
  /\ jobs' = [w \in Workers |->
       IF w \notin Ensuring(c) THEN jobs[w]
       ELSE IF flight[c] = "ok" THEN Goto(w, "mark") ELSE Skip(w)]
  /\ UNCHANGED <<dockerVars, running, changes, moved, excused, raced>>

\* The flag is written, of port-less containers by the scheduler only. A
\* goroutine that is not a cascade ends by spawning its own.
Mark(w) ==
  LET op == jobs[w].op
      c == Target(w) IN
  /\ jobs[w].pc = "mark"
  /\ running' = IF Kind[c] = "portless" /\ op \in Cascades THEN running
                ELSE [running EXCEPT ![c] = op \in Starts]
  /\ LET next == CASE op = "cronStart" -> Job("cascadeStart", StartedWith(c))
                   [] op \in {"cronStop", "idleStop"} -> Job("cascadeStop", Dependants[c])
                   [] OTHER -> Skip(w)
     IN jobs' = [jobs EXCEPT ![w] = IF next.todo = <<>> THEN Idle ELSE next]
  /\ UNCHANGED <<dockerVars, flight, changes, moved, excused, raced>>

-----------------------------------------------------------------------------
(* The specification *)

FromOutside ==
  \/ StreamBreaks
  \/ \E c \in Containers :
       \/ Outside(c) \/ Connect(c) \/ IdleStop(c) \/ CronStart(c) \/ CronStop(c)
       \/ Resend(c)

Step(w) == LookToStop(w) \/ LookToCronStart(w) \/ Call(w) \/ JoinStart(w) \/ Mark(w)
StartCall(c) == EnsureRunning(c) \/ StartReturns(c)

Next ==
  \/ FromOutside \/ Watch
  \/ \E w \in Workers : Step(w)
  \/ \E c \in Containers : StartCall(c)

\* The proxy starts with the flags it discovered.
Init ==
  /\ container \in [Containers -> {"up", "down"}]
  /\ running = [c \in Containers |-> container[c] = "up"]
  /\ events = <<>>
  /\ jobs = [w \in Workers |-> Idle]
  /\ flight = [c \in Containers |-> "none"]
  /\ changes = 0
  /\ moved = {} /\ excused = {} /\ raced = FALSE

\* Goroutines are scheduled and the daemon answers; events arrive.
Fairness ==
  /\ WF_vars(Watch)
  /\ \A w \in Workers : WF_vars(Step(w))
  /\ \A c \in Containers : WF_vars(StartCall(c))

Spec == Init /\ [][Next]_vars /\ Fairness

-----------------------------------------------------------------------------
(* Properties *)

JobRecords ==
  [op : {"none"} \cup Starts \cup Stops, pc : {"look", "call", "ensuring", "mark"},
   todo : Seq(Containers)]

\* Every variable keeps its type; a goroutine that works has something to do, and
\* one that waits for a start has a start in flight to wait for.
TypeOK ==
  /\ container \in [Containers -> {"up", "down"}]
  /\ running \in [Containers -> BOOLEAN]
  /\ events \in Seq([kind : {"up", "down"}, id : Containers])
  /\ jobs \in [Workers -> JobRecords]
  /\ \A w \in Workers : jobs[w].op # "none" <=> jobs[w].todo # <<>>
  /\ \A w \in Workers : jobs[w].pc = "ensuring" => flight[Target(w)] # "none"
  /\ flight \in [Containers -> {"none", "connect", "cascadeStart", "ok", "failed"}]
  /\ changes \in 0..MaxChanges
  /\ moved \subseteq Moves /\ Cardinality(moved) <= 1
  /\ excused \subseteq Containers /\ raced \in BOOLEAN

DependantsOf(hub) == {Dependants[hub][i] : i \in 1..Len(Dependants[hub])}

\* What a move of hub reaches: a start of a hub that has UDP ports only does not
\* cascade, and a stop does not reach a port-less dependant.
Reached(hub, to) ==
  CASE to = "up" /\ Kind[hub] = "udp" -> {}
    [] to = "up" /\ Kind[hub] # "udp" -> DependantsOf(hub)
    [] to = "down" -> {d \in DependantsOf(hub) : Kind[d] # "portless"}

\* Once everything has settled after changes that did not overlap, the container
\* that was moved last is where it was put and so is each dependant it reaches,
\* by whichever of the concurrent cascades, except where a call failed. A race is
\* forgiven once the flags are true again. A cron start that found its container up
\* promises nothing of the dependants.
DependantsFollow ==
  (Settled /\ ~raced) =>
    /\ FlagsTrue
    /\ \A m \in moved : m.changed =>
         /\ container[m.hub] = m.to
         /\ \A d \in Reached(m.hub, m.to) \ excused : container[d] = m.to

\* When nothing more comes from outside the cascades die out, races or not.
Quiesces == <>[]Settled

-----------------------------------------------------------------------------
(* What the documentation says and the code does not do *)

AllFollow(to) ==
  \A m \in moved : m.changed /\ m.to = to =>
    \A d \in DependantsOf(m.hub) \ excused : container[d] = to

\* README_LABELS.md:423, "When the hub starts (traffic arrives or external
\* `docker start`), all listed dependants are started immediately".
AllDependantsStarted == (Settled /\ ~raced) => AllFollow("up")

\* README_LABELS.md:424, "When the hub stops (idle timeout or external `docker
\* stop`), all listed dependants are stopped".
AllDependantsStopped == (Settled /\ ~raced) => AllFollow("down")

\* README_LABELS.md:386, "If the container is already in the desired state when a schedule
\* fires (e.g. already running when `cron-start` triggers), the proxy logs the fact and
\* takes no action"; server.go:269, CronStart "is a no-op (with a log) if the target is
\* already running".  Nothing is started by the cascade of a cron start that found its
\* container up.
CronStartNoOp ==
  [][\A m \in moved : ~m.changed /\ moved' = moved /\ ~raced'
       => \A c \in Containers : container'[c] = "up" => container[c] = "up"]_vars
=============================================================================
