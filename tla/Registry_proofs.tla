--------------------------- MODULE Registry_proofs ---------------------------
(* Theorems about Registry, for any containers, names, ports, labels,         *)
(* configurations, reloads and changes.                                       *)
EXTENDS Registry, SequenceTheorems, TLAPS

\* The name of a container is its own, that of a service is its ID.
NameOf(id) == IF id \in Containers THEN Name[id] ELSE id

\* What can be served: a container with labels, or a service.
Proper(info) ==
  /\ info \in Infos /\ info.name = NameOf(info.id)
  /\ info.id \in Containers => Labelled(info.id)

EventRecords == [kind : {"create", "start", "die", "destroy"}, id : Containers]

\* A name is taken once at a time, and what nobody listens to is not kept.
DockerOK ==
  /\ world \in [Containers -> {"none", "down", "up", "gone"}]
  /\ \A k, l \in Containers : Exists(k) /\ Exists(l) /\ Name[k] = Name[l] => k = l
  /\ events \in Seq(EventRecords)
  /\ listening \in BOOLEAN /\ (~listening => events = <<>> /\ watch = Quiescent)
  /\ changes \in Nat /\ requests \in Nat /\ breaks \in Nat /\ disturbed \in BOOLEAN

CallLists ==
  {<<"register">>, <<"register", "started">>, <<"started">>, <<"stopped">>, <<"missing">>,
   <<"remove">>}

WatchRecords == [calls : CallLists, id : IDs, flag : {"down", "up"}]

\* Only containers with labels are registered by the watcher.
WatchOK ==
  watch = Quiescent \/
    /\ watch \in WatchRecords
    /\ Head(watch.calls) = "register" =>
         watch.id \in Containers /\ Labelled(watch.id)

\* A target's slots all belong to it, but for the ports it could not be given, and
\* declare it.
TargetsOK ==
  /\ targets \in [Slots -> Infos \cup {None}]
  /\ \A s \in Slots : targets[s] # None =>
       /\ Proper(targets[s]) /\ s \in SlotsOf(targets[s])
       /\ \A r \in SlotsOf(targets[s]) :
            \/ targets[r] # None /\ targets[r].id = targets[s].id
            \/ r \in unopened[targets[s].id]
  /\ flags \in [Slots -> {"up", "down", "missing"}]
  /\ unopened \in [IDs -> SUBSET Contested]

\* The index has each name for what goes by it.
IndexOK ==
  /\ nameToID \in [Names -> IDs \cup {None}] /\ jobs \subseteq IDs
  /\ unscheduled \subseteq IDs
  /\ \A n \in Names : nameToID[n] # None => NameOf(nameToID[n]) = n

AtWork(g) == pc[g] \notin {"idle", "discover"}

CallRecords == [op : {"remove", "add", "replace"}, info : Infos]

ReloadTypes ==
  /\ config \in [Names -> Specs \cup {None}] /\ configOnly \subseteq Names
  /\ pc \in [Goroutines -> {"idle", "discover", "merge", "names", "compare", "update"}]
  /\ merged \in [Goroutines -> SUBSET Infos]
  /\ seen \in [Goroutines -> [IDs -> {"up", "down", "missing"}]]
  /\ todo \in [Goroutines -> SUBSET CallRecords]
  /\ replacing \in [Goroutines -> Infos \cup {None}]
  /\ before \in [Goroutines -> [Slots -> Infos \cup {None}]]
  /\ clean \in [Goroutines -> BOOLEAN]

\* A reload registers only what it has merged, one target for each ID.
Sound(g) ==
  /\ \A t \in merged[g] : Proper(t)
  /\ \A t, u \in merged[g] : t.id = u.id => t = u
  /\ ~AtWork(g) => merged[g] = {}
  /\ pc[g] = "merge" => \A t \in merged[g] : t.id \in Containers
  /\ pc[g] # "update" => todo[g] = {} /\ replacing[g] = None
  /\ \A c \in todo[g] : c.op \in {"add", "replace"} => c.info \in merged[g]
  /\ \A c \in todo[g] : c.op = "remove" => \A t \in merged[g] : t.id # c.info.id
  /\ replacing[g] # None => replacing[g] \in merged[g]

ReloadsOK == ReloadTypes /\ \A g \in Goroutines : Sound(g)

\* What the calls on the registry keep true of it.
RegistryInv == TargetsOK /\ IndexOK /\ JobsMatch /\ NamesLive

Inv == DockerOK /\ WatchOK /\ ReloadsOK /\ RegistryInv

-----------------------------------------------------------------------------
(* Slots and calls *)

\* A target has slots.
LEMMA SlotsExist ==
  ASSUME NEW info \in Infos
  PROVE  SlotsOf(info) \subseteq Slots /\ SlotsOf(info) # {} /\ info # None
BY DistinctAssumption DEF SlotsOf, Slots, Infos

\* Constants: what is not there is nothing else.
LEMMA NoneIsNothing ==
  /\ None \notin IDs /\ None \notin Infos /\ None \notin Slots
  /\ \A k \in Containers : k \notin Names /\ Name[k] \in Names /\ NameOf(k) = Name[k]
  /\ \A n \in Names : NameOf(n) = n
BY DistinctAssumption, NamesAssumption DEF Slots, IDs, NameOf

\* A registration that is not refused overwrites nothing of another target, and leaves
\* a slot only where it could not listen.
LEMMA Registers ==
  ASSUME TargetsOK, NEW info \in Infos, NEW flag, RegisterTarget(info, flag), ~Conflict(info)
  PROVE  /\ \A s \in SlotsOf(info) : targets[s] = None \/ targets[s].id = info.id
         /\ \A s \in SlotsOf(info) :
              \/ targets'[s] = info /\ flags'[s] = flag
              \/ targets'[s] = None /\ targets[s] = None /\ s \in unopened'[info.id]
         /\ \A s \in Slots \ SlotsOf(info) : targets'[s] = targets[s] /\ flags'[s] = flags[s]
<1>1. ASSUME NEW s \in SlotsOf(info), targets[s] # None PROVE targets[s].id = info.id
  <2>1. CASE info.ports # {}
    BY <1>1, <2>1 DEF Conflict, SlotsOf
  <2>2. CASE info.ports = {}
    <3>1. s = info.id /\ s \in IDs /\ s \in Slots
      BY <2>2 DEF SlotsOf, Infos, Slots
    <3>2. targets[s] \in Infos /\ s \in SlotsOf(targets[s])
      BY <1>1, <3>1 DEF TargetsOK, Proper
    <3>3. targets[s].ports \subseteq Ports
      BY <3>2 DEF Infos
    <3> QED
      BY <3>1, <3>2, <3>3, DistinctAssumption DEF SlotsOf
  <2> QED
    BY <2>1, <2>2
<1>2. PICK failed \in SUBSET MayFail(info) :
        /\ WriteSlots(info, SlotsOf(info) \ failed)
        /\ flags' = [s \in Slots |->
             IF s \in SlotsOf(info) \ failed THEN flag ELSE flags[s]]
        /\ unopened' = [unopened EXCEPT ![info.id] = (@ \ info.ports) \cup failed]
  BY DEF RegisterTarget
<1>3. ASSUME NEW s \in failed PROVE targets[s] = None /\ s \in unopened'[info.id]
  BY <1>2, <1>3 DEF MayFail, TargetsOK, Infos
<1> QED
  BY <1>1, <1>2, <1>3, SlotsExist DEF WriteSlots

\* What becomes of the ports that could not be opened: those of other targets stay, and
\* a port of this one is forgotten only when it is tried again.
LEMMA Unopens ==
  ASSUME TargetsOK, NEW info \in Infos, NEW flag, RegisterTarget(info, flag), ~Conflict(info)
  PROVE  /\ unopened' \in [IDs -> SUBSET Contested]
         /\ \A id \in IDs \ {info.id} : unopened'[id] = unopened[id]
         /\ \A p \in unopened[info.id] : p \in unopened'[info.id] \/ p \in SlotsOf(info)
<1>1. PICK failed \in SUBSET MayFail(info) :
        unopened' = [unopened EXCEPT ![info.id] = (@ \ info.ports) \cup failed]
  BY DEF RegisterTarget
<1>2. failed \subseteq Contested /\ info.id \in IDs
  BY DEF MayFail, Infos
<1> QED
  BY <1>1, <1>2 DEF TargetsOK, SlotsOf

\* What is registered stays so, with what is new, unless none of its ports could be
\* opened.
LEMMA RegisteredGrows ==
  ASSUME TargetsOK, NEW info \in Infos, NEW flag, RegisterTarget(info, flag), NEW id \in IDs
  PROVE  /\ Registered(id) => Registered(id)'
         /\ ~Conflict(info) => Registered(info.id)' \/ unopened'[info.id] # {}
<1>1. CASE Conflict(info)
  BY <1>1 DEF RegisterTarget, registry, Registered
<1>2. CASE ~Conflict(info)
  <2>1. PICK r \in SlotsOf(info) : TRUE
    BY SlotsExist
  <2>2. Registered(info.id)' \/ unopened'[info.id] # {}
    BY <1>2, <2>1, Registers, SlotsExist DEF Registered
  <2>3. ASSUME NEW s \in Slots, targets[s] # None, targets[s].id = id PROVE Registered(id)'
    <3>1. CASE s \in SlotsOf(info)
      <4>1. targets'[s] = info /\ info.id = id
        BY <1>2, <2>3, <3>1, Registers
      <4> QED
        BY <4>1, SlotsExist DEF Registered
    <3>2. CASE s \notin SlotsOf(info)
      BY <1>2, <2>3, <3>2, Registers DEF Registered
    <3> QED
      BY <3>1, <3>2
  <2> QED
    BY <2>2, <2>3 DEF Registered
<1> QED
  BY <1>1, <1>2

\* RegisterTarget, refused or not.
LEMMA RegisterKeeps ==
  ASSUME RegistryInv, NEW info, Proper(info), NEW flag \in {"up", "down", "missing"},
         RegisterTarget(info, flag)
  PROVE  RegistryInv'
<1>1. CASE Conflict(info)
  BY <1>1 DEF RegisterTarget, registry, RegistryInv, TargetsOK, IndexOK, JobsMatch,
     NamesLive, Registered
<1>2. CASE ~Conflict(info)
  <2>1. info \in Infos /\ info.id \in IDs /\ info.name \in Names /\ info.name = NameOf(info.id)
        /\ info.cron \in Schedules
    BY DEF Proper, Infos
  <2>2. PICK slots \in SUBSET SlotsOf(info) :
        /\ targets' = [s \in Slots |-> IF s \in slots THEN info ELSE targets[s]]
        /\ flags' = [s \in Slots |-> IF s \in slots THEN flag ELSE flags[s]]
    BY <1>2 DEF RegisterTarget, WriteSlots
  <2>3. nameToID' = [nameToID EXCEPT ![info.name] = info.id] /\ Schedule(info)
    BY <1>2 DEF RegisterTarget
  <2>4. TargetsOK'
    <3>1. /\ targets' \in [Slots -> Infos \cup {None}]
          /\ flags' \in [Slots -> {"up", "down", "missing"}]
      BY <2>1, <2>2 DEF RegistryInv, TargetsOK
    <3>2. ASSUME NEW s \in Slots, targets'[s] # None
          PROVE  /\ Proper(targets'[s]) /\ s \in SlotsOf(targets'[s])
                 /\ \A r \in SlotsOf(targets'[s]) :
                      \/ targets'[r] # None /\ targets'[r].id = targets'[s].id
                      \/ r \in unopened'[targets'[s].id]
      <4>1. CASE s \in SlotsOf(info)
        BY <1>2, <2>1, <3>2, <4>1, Registers, SlotsExist DEF RegistryInv
      <4>2. CASE s \notin SlotsOf(info)
        <5>1. targets'[s] = targets[s]
          BY <1>2, <2>1, <4>2, Registers DEF RegistryInv
        <5>2. Proper(targets[s]) /\ s \in SlotsOf(targets[s]) /\ targets[s] \in Infos
          BY <3>2, <5>1 DEF RegistryInv, TargetsOK, Proper
        <5>3. ASSUME NEW r \in SlotsOf(targets[s])
              PROVE  \/ targets'[r] # None /\ targets'[r].id = targets[s].id
                     \/ r \in unopened'[targets[s].id]
          <6>1. r \in Slots /\ targets[s].id \in IDs
            BY <5>2, SlotsExist DEF Infos
          <6>2. \/ targets[r] # None /\ targets[r].id = targets[s].id
                \/ r \in unopened[targets[s].id]
            BY <3>2, <5>1 DEF RegistryInv, TargetsOK
          <6>3. CASE targets[r] # None /\ targets[r].id = targets[s].id
            <7>1. CASE r \in SlotsOf(info)
              BY <1>2, <2>1, <6>3, <7>1, Registers, SlotsExist DEF RegistryInv
            <7>2. CASE r \notin SlotsOf(info)
              BY <1>2, <2>1, <6>1, <6>3, <7>2, Registers DEF RegistryInv
            <7> QED
              BY <7>1, <7>2
          <6>4. CASE r \in unopened[targets[s].id] /\ targets[s].id # info.id
            BY <1>2, <2>1, <6>1, <6>4, Unopens DEF RegistryInv
          <6>5. CASE r \in unopened[targets[s].id] /\ targets[s].id = info.id
            <7>1. r \in unopened'[info.id] \/ r \in SlotsOf(info)
              BY <1>2, <2>1, <6>5, Unopens DEF RegistryInv
            <7> QED
              BY <1>2, <2>1, <6>5, <7>1, Registers, SlotsExist DEF RegistryInv
          <6> QED
            BY <6>2, <6>3, <6>4, <6>5
        <5> QED
          BY <5>1, <5>2, <5>3
      <4> QED
        BY <4>1, <4>2
    <3>3. unopened' \in [IDs -> SUBSET Contested]
      BY <1>2, <2>1, Unopens DEF RegistryInv
    <3> QED
      BY <3>1, <3>2, <3>3 DEF TargetsOK, SlotsOf
  <2>5. IndexOK'
    <3>1. jobs' \subseteq IDs /\ unscheduled' \subseteq IDs
      BY <2>1, <2>3 DEF RegistryInv, IndexOK, Schedule
    <3> QED
      BY <2>1, <2>3, <3>1 DEF RegistryInv, IndexOK, NameOf
  <2>6. ASSUME NEW id \in IDs, Registered(id) \/ unopened[id] # {}
        PROVE  Registered(id)' \/ unopened'[id] # {}
    <3>1. CASE id = info.id
      BY <1>2, <2>1, <3>1, RegisteredGrows DEF RegistryInv
    <3>2. CASE id # info.id
      BY <1>2, <2>1, <2>6, <3>2, RegisteredGrows, Unopens DEF RegistryInv
    <3> QED
      BY <3>1, <3>2
  <2>7. Registered(info.id)' \/ unopened'[info.id] # {}
    BY <1>2, <2>1, RegisteredGrows DEF RegistryInv
  <2>8. JobsMatch'
    <3>1. /\ jobs \ {info.id} \subseteq jobs' /\ unscheduled \ {info.id} \subseteq unscheduled'
          /\ info.id \in jobs \cup unscheduled => info.id \in jobs' \cup unscheduled'
          /\ info.cron = "valid" => info.id \in jobs'
          /\ jobs' \subseteq jobs \cup {info.id}
      BY <2>1, <2>3 DEF Schedule, Schedules
    <3>2. ASSUME NEW s \in Slots, targets'[s] # None, targets'[s].cron = "valid"
          PROVE  targets'[s].id \in jobs' \cup unscheduled'
      <4>1. CASE targets'[s] = info
        BY <3>1, <3>2, <4>1
      <4>2. CASE targets'[s] = targets[s]
        BY <3>1, <3>2, <4>2 DEF RegistryInv, JobsMatch
      <4> QED
        BY <2>2, <4>1, <4>2
    <3>3. ASSUME NEW id \in jobs' PROVE Registered(id)' \/ unopened'[id] # {}
      BY <2>1, <2>6, <2>7, <3>1 DEF RegistryInv, JobsMatch, IndexOK
    <3> QED
      BY <3>2, <3>3 DEF JobsMatch, Registered
  <2>9. NamesLive'
    <3>1. ASSUME NEW n \in Names, nameToID'[n] # None
          PROVE  Registered(nameToID[n])' \/ unopened'[nameToID'[n]] # {}
      BY <2>1, <2>3, <2>6, <2>7, <3>1 DEF RegistryInv, NamesLive, IndexOK, Registered
    <3> QED
      BY <3>1 DEF NamesLive, Registered
  <2> QED
    BY <2>4, <2>5, <2>8, <2>9 DEF RegistryInv
<1> QED
  BY <1>1, <1>2

\* What RemoveTarget leaves is what it was, and is not of that ID.
LEMMA Removes ==
  ASSUME RegistryInv, NEW id \in IDs, RemoveTarget(id)
  PROVE  /\ \A s \in Slots :
              targets'[s] # None => targets'[s] = targets[s] /\ flags'[s] = flags[s] /\ targets[s].id # id
         /\ \A s \in Slots : targets[s] # None /\ targets[s].id # id => targets'[s] = targets[s]
         /\ ~Registered(id)' /\ jobs' = jobs \ {id} /\ unscheduled' = unscheduled \ {id}
         /\ \A d \in IDs \ {id} : Registered(d) => Registered(d)'
         /\ unopened' \in [IDs -> SUBSET Contested]
         /\ \A d \in IDs \ {id} : unopened'[d] = unopened[d]
         /\ ~Registered(id) => unopened' = unopened
<1>1. unopened \in [IDs -> SUBSET Contested]
  BY DEF RegistryInv, TargetsOK
<1>2. /\ unopened' \in [IDs -> SUBSET Contested]
      /\ \A d \in IDs \ {id} : unopened'[d] = unopened[d]
      /\ ~Registered(id) => unopened' = unopened
  BY <1>1 DEF RemoveTarget, Registered, SlotsWith
<1> QED
  BY <1>2 DEF RemoveTarget, SlotsWith, Registered, Unregister, RegistryInv, TargetsOK

LEMMA RemoveKeeps ==
  ASSUME RegistryInv, NEW id \in IDs, RemoveTarget(id)
  PROVE  RegistryInv'
<1>1. TargetsOK'
  <2>1. /\ targets' \in [Slots -> Infos \cup {None}]
        /\ flags' \in [Slots -> {"up", "down", "missing"}]
    BY DEF RemoveTarget, RegistryInv, TargetsOK
  <2>2. ASSUME NEW s \in Slots, targets'[s] # None
        PROVE  /\ Proper(targets'[s]) /\ s \in SlotsOf(targets'[s])
               /\ \A r \in SlotsOf(targets'[s]) :
                    \/ targets'[r] # None /\ targets'[r].id = targets'[s].id
                    \/ r \in unopened'[targets'[s].id]
    <3>1. targets'[s] = targets[s] /\ targets[s].id # id /\ targets[s] # None
      BY <2>2, Removes
    <3>2. Proper(targets[s]) /\ s \in SlotsOf(targets[s]) /\ targets[s] \in Infos
      BY <3>1 DEF RegistryInv, TargetsOK, Proper
    <3>3. ASSUME NEW r \in SlotsOf(targets[s])
          PROVE  \/ targets'[r] # None /\ targets'[r].id = targets[s].id
                 \/ r \in unopened'[targets[s].id]
      <4>1. r \in Slots /\ targets[s].id \in IDs
        BY <3>2, SlotsExist DEF Infos
      <4>2. \/ targets[r] # None /\ targets[r].id = targets[s].id
            \/ r \in unopened[targets[s].id]
        BY <3>1 DEF RegistryInv, TargetsOK
      <4> QED
        BY <3>1, <4>1, <4>2, Removes
    <3> QED
      BY <3>1, <3>2, <3>3
  <2> QED
    BY <2>1, <2>2, Removes DEF TargetsOK, SlotsOf
<1> DEFINE names == {targets[s].name : s \in SlotsWith(id)}
<1>2. nameToID' = [n \in Names |-> IF n \in names THEN None ELSE nameToID[n]]
  BY DEF RemoveTarget, ForgetNames
<1>3. IndexOK'
  BY <1>2, Removes DEF RegistryInv, IndexOK, NameOf
<1>4. ASSUME NEW d \in IDs, d # id, Registered(d) \/ unopened[d] # {}
      PROVE  Registered(d)' \/ unopened'[d] # {}
  BY <1>4, Removes
<1>5. JobsMatch'
  <2>1. ASSUME NEW s \in Slots, targets'[s] # None, targets'[s].cron = "valid"
        PROVE  targets'[s].id \in jobs' \cup unscheduled'
    BY <2>1, Removes DEF RegistryInv, JobsMatch
  <2>2. ASSUME NEW d \in jobs' PROVE Registered(d)' \/ unopened'[d] # {}
    BY <1>4, Removes DEF RegistryInv, JobsMatch, IndexOK
  <2> QED
    BY <2>1, <2>2 DEF JobsMatch, Registered
<1>6. NamesLive'
  <2>1. ASSUME NEW n \in Names, nameToID'[n] # None
        PROVE  Registered(nameToID[n])' \/ unopened'[nameToID[n]] # {}
    <3>1. nameToID'[n] = nameToID[n] /\ n \notin names /\ nameToID[n] \in IDs
      BY <1>2, <2>1 DEF RegistryInv, IndexOK
    <3>2. Registered(nameToID[n]) \/ unopened[nameToID[n]] # {}
      BY <2>1, <3>1 DEF RegistryInv, NamesLive
    <3>3. ASSUME nameToID[n] = id PROVE ~Registered(id)
      <4>1. ASSUME NEW s \in Slots, targets[s] # None, targets[s].id = id PROVE FALSE
        <5>1. targets[s].name = n
          BY <2>1, <3>1, <3>3, <4>1 DEF RegistryInv, IndexOK, TargetsOK, Proper
        <5> QED
          BY <3>1, <4>1, <5>1 DEF SlotsWith
      <4> QED
        BY <4>1 DEF Registered
    <3>4. CASE nameToID[n] = id
      BY <3>2, <3>3, <3>4, Removes
    <3>5. CASE nameToID[n] # id
      BY <1>4, <3>1, <3>2, <3>5
    <3> QED
      BY <3>4, <3>5
  <2>2. ASSUME NEW n \in Names, nameToID'[n] # None PROVE nameToID'[n] = nameToID[n]
    BY <1>2, <2>2
  <2> QED
    BY <2>1, <2>2 DEF NamesLive, Registered
<1> QED
  BY <1>1, <1>3, <1>5, <1>6 DEF RegistryInv

\* The flags are nobody else's concern.
LEMMA FlagsKeep ==
  ASSUME RegistryInv, NEW slots, NEW flag \in {"up", "down", "missing"},
         SetFlags(slots, flag)
  PROVE  RegistryInv'
<1>1. /\ flags' \in [Slots -> {"up", "down", "missing"}]
      /\ UNCHANGED <<targets, nameToID, jobs, unopened, unscheduled>>
  BY DEF SetFlags, RegistryInv, TargetsOK
<1> QED
  BY <1>1 DEF RegistryInv, TargetsOK, IndexOK, JobsMatch, NamesLive, Registered

\* A step that leaves the registry alone.
LEMMA RegistryStays ==
  ASSUME RegistryInv, UNCHANGED registry
  PROVE  RegistryInv'
BY DEF registry, RegistryInv, TargetsOK, IndexOK, JobsMatch, NamesLive, Registered

-----------------------------------------------------------------------------
(* Docker and the watcher *)

\* The state in which the proxy starts.
LEMMA InitInv == Init => Inv
<1> SUFFICES ASSUME Init PROVE Inv
  OBVIOUS
<1>1. Nothing \in [Slots -> Infos \cup {None}] /\ <<>> \in Seq(EventRecords)
  BY DEF Nothing
<1>2. DockerOK
  BY <1>1 DEF Init, DockerOK
<1>3. WatchOK
  BY DEF Init, WatchOK
<1>4. \A s \in Slots : targets[s] = None
  BY DEF Init, Nothing
<1>5. RegistryInv
  BY <1>1, <1>4 DEF Init, RegistryInv, TargetsOK, IndexOK, JobsMatch, NamesLive
<1>6. ReloadTypes
  BY <1>1, ConfigsAssumption DEF Init, ReloadTypes
<1>7. \A g \in Goroutines : Sound(g)
  BY DEF Init, Sound, AtWork
<1> QED
  BY <1>2, <1>3, <1>5, <1>6, <1>7 DEF Inv, ReloadsOK

\* A step that leaves the reloads alone, or only writes their history.
LEMMA ReloadsStay ==
  ASSUME ReloadsOK, UNCHANGED <<config, configOnly, pc, merged, seen, todo, replacing>>,
         before' \in [Goroutines -> [Slots -> Infos \cup {None}]],
         clean' \in [Goroutines -> BOOLEAN]
  PROVE  ReloadsOK'
BY DEF ReloadsOK, ReloadTypes, Sound, AtWork

\* What the history of reloads becomes.
LEMMA InterferesType ==
  ASSUME ReloadsOK, NEW g, Interferes(g)
  PROVE  /\ before' \in [Goroutines -> [Slots -> Infos \cup {None}]]
         /\ clean' \in [Goroutines -> BOOLEAN]
<1>1. Nothing \in [Slots -> Infos \cup {None}]
  BY DEF Nothing
<1> QED
  BY <1>1 DEF ReloadsOK, ReloadTypes, Interferes

\* A container is created, started or stopped, or removed.
Docker(k) == Create(k) \/ StartContainer(k) \/ Die(k) \/ Destroy(k)

\* What it does to the containers, and what is queued for it.
LEMMA DockerChange ==
  ASSUME Inv, NEW k \in Containers, Docker(k)
  PROVE  \E state \in {"down", "up", "gone"}, kind \in {"create", "start", "die", "destroy"} :
           /\ Change(k, state, kind)
           /\ \/ Create(k) /\ state = "down" /\ kind = "create"
              \/ StartContainer(k) /\ state = "up" /\ kind = "start"
              \/ Die(k) /\ state = "down" /\ kind = "die"
              \/ Destroy(k) /\ state = "gone" /\ kind = "destroy"
BY DEF Docker, Create, StartContainer, Die, Destroy

LEMMA DockerKeeps ==
  ASSUME Inv, NEW k \in Containers, Docker(k)
  PROVE  Inv'
<1>1. PICK state \in {"down", "up", "gone"}, kind \in {"create", "start", "die", "destroy"} :
           /\ Change(k, state, kind)
           /\ \/ Create(k) /\ state = "down" /\ kind = "create"
              \/ StartContainer(k) /\ state = "up" /\ kind = "start"
              \/ Die(k) /\ state = "down" /\ kind = "die"
              \/ Destroy(k) /\ state = "gone" /\ kind = "destroy"
  BY DockerChange
<1>2. /\ world' = [world EXCEPT ![k] = state] /\ changes' = changes + 1
      /\ UNCHANGED <<listening, breaks, watch, config, configOnly, registry, reloads, clean>>
  BY <1>1 DEF Change
<1>3. world' \in [Containers -> {"none", "down", "up", "gone"}]
  BY <1>2 DEF Inv, DockerOK
<1>4. \A l, m \in Containers : Exists(l)' /\ Exists(m)' /\ Name[l] = Name[m] => l = m
  <2>1. CASE Create(k)
    BY <1>1, <1>2, <2>1 DEF Create, Exists, Inv, DockerOK
  <2>2. CASE ~Create(k)
    BY <1>1, <1>2, <2>2 DEF StartContainer, Die, Destroy, Exists, Inv, DockerOK
  <2> QED
    BY <2>1, <2>2
<1>5. events' \in Seq(EventRecords) /\ (~listening => events' = <<>>)
  <2>1. Event(kind, k) \in EventRecords
    BY DEF Event, EventRecords
  <2>2. listening => events' = Append(events, Event(kind, k)) /\ disturbed' = disturbed
    BY <1>1 DEF Change
  <2>3. ~listening => events' = events
    BY <1>1 DEF Change
  <2> QED
    BY <2>1, <2>2, <2>3, AppendProperties DEF Inv, DockerOK
<1>5a. disturbed' \in BOOLEAN
  BY <1>1, Zenon DEF Change, Inv, DockerOK
<1>6. DockerOK'
  BY <1>2, <1>3, <1>4, <1>5, <1>5a DEF Inv, DockerOK, reloads
<1>7. WatchOK'
  BY <1>2 DEF Inv, WatchOK
<1>8. ReloadsOK'
  BY <1>2, ReloadsStay DEF Inv, reloads, ReloadsOK, ReloadTypes
<1>9. RegistryInv'
  BY <1>2, RegistryStays DEF Inv
<1> QED
  BY <1>6, <1>7, <1>8, <1>9 DEF Inv

\* The head of the queue, and the rest.
LEMMA HeadEvent ==
  ASSUME DockerOK, events # <<>>
  PROVE  /\ Head(events) \in EventRecords /\ Head(events) = events[1]
         /\ Tail(events) \in Seq(EventRecords)
         /\ Len(events) \in Nat /\ Len(events) >= 1 /\ Len(Tail(events)) = Len(events) - 1
         /\ \A i \in 1..Len(Tail(events)) : Tail(events)[i] = events[i + 1]
BY HeadTailProperties, LenProperties, EmptySeq DEF DockerOK

\* What the watcher makes of an event.
Answer(e) ==
  CASE e.kind \in {"create", "start"} -> OnAppear(e.kind, e.id)
    [] e.kind = "die" -> OnDie(e.id)
    [] OTHER -> OnDestroy(e.id)

\* It is a list of calls, of registrations for existing containers with labels only.
LEMMA AnswerType ==
  ASSUME DockerOK, NEW e \in EventRecords
  PROVE  \/ Answer(e) = Quiescent
         \/ /\ Answer(e) \in WatchRecords
            /\ Head(Answer(e).calls) = "register" =>
                 Answer(e).id = e.id /\ Labelled(e.id) /\ Exists(e.id)
<1>1. e.id \in Containers /\ e.id \in IDs /\ Name[e.id] \in IDs
  BY NamesAssumption DEF EventRecords, IDs
<1>2. CASE e.kind \in {"create", "start"}
  <2>1. Answer(e) = OnAppear(e.kind, e.id)
    BY <1>2 DEF Answer
  <2>2. CASE Labelled(e.id) /\ Exists(e.id)
    <3>1. OnAppear(e.kind, e.id) =
            [calls |-> IF e.kind = "start" THEN <<"register", "started">> ELSE <<"register">>,
             id |-> e.id, flag |-> world[e.id]]
      BY <2>2 DEF OnAppear
    <3>2. world[e.id] \in {"down", "up"}
      BY <2>2 DEF Exists
    <3> QED
      BY <1>1, <2>1, <2>2, <3>1, <3>2 DEF WatchRecords, CallLists
  <2>3. CASE ~(Labelled(e.id) /\ Exists(e.id))
    BY <1>1, <2>1, <2>3 DEF OnAppear, WatchRecords, CallLists
  <2> QED
    BY <2>2, <2>3
<1>3. CASE e.kind = "die"
  BY <1>1, <1>3 DEF Answer, OnDie, WatchRecords, CallLists
<1>4. CASE e.kind = "destroy"
  BY <1>1, <1>4 DEF Answer, OnDestroy, DestroyCall, WatchRecords, CallLists
<1> QED
  BY <1>2, <1>3, <1>4 DEF EventRecords

LEMMA ReceiveKeeps ==
  ASSUME Inv, Receive
  PROVE  Inv'
<1>1. /\ watch' = Answer(Head(events)) /\ events' = Tail(events) /\ listening /\ events # <<>>
      /\ UNCHANGED <<world, listening, changes, breaks, config, configOnly, registry, reloads, clean>>
  BY DEF Receive, Answer
<1>2. disturbed' \in BOOLEAN
  BY DEF Receive
<1>3. Head(events) \in EventRecords /\ Tail(events) \in Seq(EventRecords)
  BY <1>1, HeadEvent DEF Inv
<1>4. DockerOK'
  BY <1>1, <1>2, <1>3 DEF Inv, DockerOK, Exists, reloads
<1>5. WatchOK'
  <2>1. Head(events).id \in Containers
    BY <1>3 DEF EventRecords
  <2> QED
    BY <1>1, <1>3, <2>1, AnswerType DEF Inv, WatchOK, Labelled
<1>6. ReloadsOK' /\ RegistryInv'
  BY <1>1, ReloadsStay, RegistryStays DEF Inv, reloads, ReloadsOK, ReloadTypes
<1> QED
  BY <1>4, <1>5, <1>6 DEF Inv

\* The watcher's next call is one of five, and another may follow a registration.
LEMMA CallLeft ==
  ASSUME WatchOK, watch # Quiescent
  PROVE  /\ watch \in WatchRecords /\ watch.id # None
         /\ \/ watch.calls = <<"register">> \/ watch.calls = <<"register", "started">>
            \/ watch.calls = <<"started">> \/ watch.calls = <<"stopped">>
            \/ watch.calls = <<"missing">> \/ watch.calls = <<"remove">>
         /\ watch.calls # <<>>
         /\ Len(watch.calls) = 1 <=> watch.calls # <<"register", "started">>
         /\ watch.calls = <<"register", "started">> =>
              Head(watch.calls) = "register" /\ Tail(watch.calls) = <<"started">>
<1>1. watch \in WatchRecords
  BY DEF WatchOK
<1>2. watch.id # None
  BY <1>1, NoneIsNothing DEF WatchRecords
<1>3. \/ watch.calls = <<"register">> \/ watch.calls = <<"register", "started">>
      \/ watch.calls = <<"started">> \/ watch.calls = <<"stopped">>
      \/ watch.calls = <<"missing">> \/ watch.calls = <<"remove">>
  BY <1>1 DEF WatchRecords, CallLists
<1>4. CASE watch.calls = <<"register", "started">>
  <2>1. Len(watch.calls) = 2 /\ Head(watch.calls) = "register" /\ Tail(watch.calls) = <<"started">>
    BY <1>4
  <2> QED
    BY <1>1, <1>2, <1>3, <1>4, <2>1
<1>5. CASE watch.calls # <<"register", "started">>
  <2>1. Len(watch.calls) = 1
    BY <1>3, <1>5
  <2> QED
    BY <1>1, <1>2, <1>3, <1>5, <2>1
<1> QED
  BY <1>4, <1>5

\* After a call the watcher is ready, or has reached "started".
LEMMA CallMoves ==
  ASSUME WatchOK, Call
  PROVE  /\ watch.calls # <<"register", "started">> => watch' = Quiescent
         /\ watch.calls = <<"register", "started">> =>
              watch' \in WatchRecords /\ watch'.calls = <<"started">> /\ watch'.id = watch.id
<1>1. watch # Quiescent
      /\ watch' = IF Len(watch.calls) = 1 THEN Quiescent ELSE [watch EXCEPT !.calls = Tail(@)]
  BY DEF Call
<1>2. CASE watch.calls = <<"register", "started">>
  <2>1. watch' = [watch EXCEPT !.calls = <<"started">>]
    BY <1>1, <1>2, CallLeft
  <2> QED
    BY <1>1, <1>2, <2>1, CallLeft DEF WatchRecords, CallLists
<1>3. CASE watch.calls # <<"register", "started">>
  BY <1>1, <1>3, CallLeft
<1> QED
  BY <1>2, <1>3

\* What the watcher registers is what the labels declare.
LEMMA LabelInfoProper ==
  ASSUME NEW k \in Containers, Labelled(k)
  PROVE  /\ LabelInfo(k) \in Infos /\ Proper(LabelInfo(k)) /\ LabelInfo(k).id = k
<1>1. Labels[k] \in Specs
  BY LabelsAssumption DEF Labelled
<1> QED
  BY <1>1, NoneIsNothing DEF LabelInfo, Info, Infos, Specs, IDs, Proper

\* The five calls.
LEMMA WatcherCalls ==
  ASSUME Inv, Call
  PROVE  /\ watch.id \in IDs /\ watch.flag \in {"down", "up"}
         /\ \/ /\ watch.calls \in {<<"register">>, <<"register", "started">>}
               /\ watch.id \in Containers /\ Labelled(watch.id)
               /\ RegisterTarget(LabelInfo(watch.id), watch.flag)
            \/ watch.calls = <<"started">> /\ ContainerStarted(watch.id)
            \/ watch.calls = <<"stopped">> /\ ContainerStopped(watch.id)
            \/ watch.calls = <<"missing">> /\ ContainerRemoved(watch.id)
            \/ watch.calls = <<"remove">> /\ RemoveTarget(watch.id)
<1>1. /\ watch # Quiescent
      /\ \/ Head(watch.calls) = "register" /\ RegisterTarget(LabelInfo(watch.id), watch.flag)
         \/ Head(watch.calls) = "started" /\ ContainerStarted(watch.id)
         \/ Head(watch.calls) = "stopped" /\ ContainerStopped(watch.id)
         \/ Head(watch.calls) = "missing" /\ ContainerRemoved(watch.id)
         \/ Head(watch.calls) = "remove" /\ RemoveTarget(watch.id)
  BY DEF Call
<1>2. watch \in WatchRecords /\ watch.id \in IDs /\ watch.flag \in {"down", "up"}
  BY <1>1, CallLeft DEF Inv, WatchRecords
<1>3. Head(watch.calls) = "register" => watch.id \in Containers /\ Labelled(watch.id)
  BY <1>1 DEF Inv, WatchOK
<1>4. CASE watch.calls \in {<<"register">>, <<"register", "started">>}
  <2>1. Head(watch.calls) = "register"
    BY <1>4
  <2> QED
    BY <1>1, <1>2, <1>3, <1>4, <2>1
<1>5. CASE watch.calls = <<"started">>
  <2>1. Head(watch.calls) = "started"
    BY <1>5
  <2> QED
    BY <1>1, <1>2, <1>5, <2>1
<1>6. CASE watch.calls = <<"stopped">>
  <2>1. Head(watch.calls) = "stopped"
    BY <1>6
  <2> QED
    BY <1>1, <1>2, <1>6, <2>1
<1>7. CASE watch.calls = <<"missing">>
  <2>1. Head(watch.calls) = "missing"
    BY <1>7
  <2> QED
    BY <1>1, <1>2, <1>7, <2>1
<1>8. CASE watch.calls = <<"remove">>
  <2>1. Head(watch.calls) = "remove"
    BY <1>8
  <2> QED
    BY <1>1, <1>2, <1>8, <2>1
<1> QED
  BY <1>1, <1>4, <1>5, <1>6, <1>7, <1>8, CallLeft DEF Inv

LEMMA CallKeeps ==
  ASSUME Inv, Call
  PROVE  Inv'
<1>1. /\ Interferes(None) /\ disturbed' = (disturbed \/ Reloading)
      /\ UNCHANGED <<docker, config, configOnly, pc, merged, seen, todo, replacing, requests>>
  BY DEF Call
<1>2. RegistryInv'
  <2>1. CASE /\ watch.id \in Containers /\ Labelled(watch.id)
             /\ RegisterTarget(LabelInfo(watch.id), watch.flag)
    BY <2>1, WatcherCalls, LabelInfoProper, RegisterKeeps DEF Inv
  <2>2. CASE ContainerStarted(watch.id) \/ ContainerStopped(watch.id) \/ ContainerRemoved(watch.id)
    BY <2>2, FlagsKeep DEF ContainerStarted, ContainerStopped, ContainerRemoved, Inv
  <2>3. CASE RemoveTarget(watch.id)
    BY <2>3, WatcherCalls, RemoveKeeps DEF Inv
  <2> QED
    BY <2>1, <2>2, <2>3, WatcherCalls
<1>3. WatchOK'
  <2>1. CASE watch.calls # <<"register", "started">>
    BY <2>1, CallMoves DEF Inv, WatchOK
  <2>2. CASE watch.calls = <<"register", "started">>
    <3>1. watch' \in WatchRecords /\ Head(watch'.calls) = "started"
      BY <2>2, CallMoves DEF Inv
    <3> QED
      BY <3>1 DEF WatchOK
  <2> QED
    BY <2>1, <2>2
<1>4. DockerOK'
  <2>1. disturbed' \in BOOLEAN
    BY <1>1
  <2>2. listening
    BY DEF Call, Inv, DockerOK
  <2> QED
    BY <1>1, <2>1, <2>2 DEF docker, Inv, DockerOK, Exists
<1>5. ReloadsOK'
  BY <1>1, ReloadsStay, InterferesType DEF Inv
<1> QED
  BY <1>2, <1>3, <1>4, <1>5 DEF Inv

\* The stream ends, and begins again.
LEMMA StreamKeeps ==
  ASSUME Inv, StreamBreaks \/ Listen
  PROVE  Inv'
<1>1. /\ UNCHANGED <<world, changes, watch, config, configOnly, registry, reloads, clean>>
      /\ breaks' \in Nat
  BY DEF StreamBreaks, Listen, Inv, DockerOK
<1>2. events' \in Seq(EventRecords) /\ listening' \in BOOLEAN
      /\ (~listening' => events' = <<>> /\ watch' = Quiescent)
  <2>1. <<>> \in Seq(EventRecords)
    OBVIOUS
  <2> QED
    BY <1>1, <2>1 DEF StreamBreaks, Listen, Inv, DockerOK
<1>3. disturbed' \in BOOLEAN
  BY Zenon DEF StreamBreaks, Listen, Inv, DockerOK
<1>4. DockerOK'
  BY <1>1, <1>2, <1>3 DEF Inv, DockerOK, Exists, reloads
<1>5. WatchOK'
  BY <1>1 DEF Inv, WatchOK
<1>6. ReloadsOK' /\ RegistryInv'
  BY <1>1, ReloadsStay, RegistryStays DEF Inv, reloads, ReloadsOK, ReloadTypes
<1> QED
  BY <1>4, <1>5, <1>6 DEF Inv

-----------------------------------------------------------------------------
(* Reloads *)

\* A step of one reload is no step of another.
LEMMA OthersSound ==
  ASSUME ReloadsOK, NEW g \in Goroutines, Sound(g)',
         \A h \in Goroutines \ {g} :
           /\ pc'[h] = pc[h] /\ merged'[h] = merged[h] /\ todo'[h] = todo[h]
           /\ replacing'[h] = replacing[h]
  PROVE  \A h \in Goroutines : Sound(h)'
<1>1. ASSUME NEW h \in Goroutines \ {g} PROVE Sound(h)'
  <2>1. /\ Sound(h) /\ pc'[h] = pc[h] /\ merged'[h] = merged[h] /\ todo'[h] = todo[h]
        /\ replacing'[h] = replacing[h]
    BY DEF ReloadsOK
  <2> QED
    BY <2>1 DEF Sound, AtWork
<1> QED
  BY <1>1

\* A step that leaves the containers and the watcher alone.
LEMMA DockerStays ==
  ASSUME DockerOK, WatchOK, UNCHANGED <<docker, watch>>, requests' \in Nat, disturbed' \in BOOLEAN
  PROVE  DockerOK' /\ WatchOK'
BY DEF docker, DockerOK, WatchOK, Exists

\* Requests come and go.
LEMMA RequestKeeps ==
  ASSUME Inv, NEW g \in Goroutines, Request(g) \/ DiscoverFailed(g)
  PROVE  Inv'
<1>1. /\ UNCHANGED <<docker, watch, configOnly, registry, merged, seen, todo, replacing, before,
                     clean, disturbed>>
      /\ config' \in [Names -> Specs \cup {None}] /\ requests' \in Nat
  BY ConfigsAssumption DEF Request, DiscoverFailed, Inv, ReloadsOK, ReloadTypes, DockerOK
<1>2. /\ pc[g] \in {"idle", "discover"} /\ pc' = [pc EXCEPT ![g] = pc'[g]]
      /\ pc'[g] \in {"idle", "discover"}
  BY DEF Request, DiscoverFailed, Goto, Inv, ReloadsOK, ReloadTypes
<1>3. ReloadTypes'
  BY <1>1, <1>2 DEF Inv, ReloadsOK, ReloadTypes
<1>4. \A h \in Goroutines : Sound(h)'
  <2>1. Sound(g)'
    BY <1>1, <1>2 DEF Inv, ReloadsOK, ReloadTypes, Sound, AtWork
  <2> QED
    BY <1>1, <1>2, <2>1, OthersSound DEF Inv, ReloadsOK, ReloadTypes
<1>5. DockerOK' /\ WatchOK'
  BY <1>1, DockerStays DEF Inv, DockerOK
<1>6. RegistryInv'
  BY <1>1, RegistryStays DEF Inv
<1> QED
  BY <1>3, <1>4, <1>5, <1>6 DEF Inv, ReloadsOK

\* A discovery finds what the labels declare.
Found == {LabelInfo(k) : k \in {l \in Containers : Labelled(l) /\ Exists(l)}}

LEMMA FoundProper ==
  /\ \A t \in Found : t \in Infos /\ Proper(t) /\ t.id \in Containers /\ Exists(t.id)
                      /\ t = LabelInfo(t.id)
  /\ \A t, u \in Found : t.id = u.id => t = u
BY LabelInfoProper DEF Found

LEMMA DiscoverKeeps ==
  ASSUME Inv, NEW g \in Goroutines, Discover(g)
  PROVE  Inv'
<1>1. /\ pc[g] = "discover" /\ pc' = [pc EXCEPT ![g] = "merge"]
      /\ merged' = [merged EXCEPT ![g] = Found]
      /\ seen' = [seen EXCEPT ![g] =
           [id \in IDs |-> IF id \in Containers /\ Labelled(id) /\ world[id] = "up"
                            THEN "up" ELSE "down"]]
      /\ UNCHANGED <<docker, watch, config, configOnly, registry, todo, replacing, requests>>
  BY DEF Discover, Goto, Found
<1>2. /\ clean' \in [Goroutines -> BOOLEAN]
      /\ before' \in [Goroutines -> [Slots -> Infos \cup {None}]]
      /\ disturbed' \in BOOLEAN
  <2>1. Nothing \in [Slots -> Infos \cup {None}]
    BY DEF Nothing
  <2> QED
    BY <2>1 DEF Discover
<1>3. ReloadTypes'
  BY <1>1, <1>2, FoundProper DEF Inv, ReloadsOK, ReloadTypes
<1>4. \A h \in Goroutines : Sound(h)'
  <2>1. /\ pc'[g] = "merge" /\ merged'[g] = Found /\ todo'[g] = {} /\ replacing'[g] = None
    BY <1>1 DEF Inv, ReloadsOK, ReloadTypes, Sound
  <2>2. Sound(g)'
    BY <2>1, FoundProper DEF Sound, AtWork
  <2> QED
    BY <1>1, <2>2, OthersSound DEF Inv, ReloadsOK, ReloadTypes
<1>5. DockerOK' /\ WatchOK'
  BY <1>1, <1>2, DockerStays DEF Inv, DockerOK
<1>6. RegistryInv'
  BY <1>1, RegistryStays DEF Inv
<1> QED
  BY <1>3, <1>4, <1>5, <1>6 DEF Inv, ReloadsOK

\* What the file declares for a name.
Declared(n) == config[n] # None /\ config[n].ports # {}

\* What Store.Apply makes of what was found: the declaration in place of the labels, or
\* a service of its own.
LEMMA OverlayHas ==
  ASSUME NEW found
  PROVE  \A t \in Overlay(found) :
           \/ \E u \in found : t = IF Declared(u.name) THEN Info(u.id, u.name, config[u.name]) ELSE u
           \/ \E n \in Names : Declared(n) /\ t = Info(n, n, config[n])
BY DEF Overlay, Declared

LEMMA OverlayProper ==
  ASSUME ReloadTypes, NEW found \in SUBSET Infos,
         \A t \in found : Proper(t) /\ t.id \in Containers,
         \A t, u \in found : t.id = u.id => t = u
  PROVE  /\ \A t \in Overlay(found) : t \in Infos /\ Proper(t)
         /\ \A t, u \in Overlay(found) : t.id = u.id => t = u
         /\ \A t \in Overlay(found) : t.id \in Containers => \E u \in found : u.id = t.id
<1>1. ASSUME NEW u \in found
      PROVE  LET t == IF Declared(u.name) THEN Info(u.id, u.name, config[u.name]) ELSE u
             IN  t \in Infos /\ Proper(t) /\ t.id = u.id /\ t.id \in Containers
  <2>1. u \in Infos /\ Proper(u) /\ u.id \in Containers /\ u.name \in Names /\ u.id \in IDs
    BY DEF Infos
  <2>2. CASE Declared(u.name)
    <3>1. config[u.name] \in Specs
      BY <2>1, <2>2 DEF ReloadTypes, Declared
    <3> QED
      BY <2>1, <2>2, <3>1 DEF Info, Infos, Specs, Proper
  <2>3. CASE ~Declared(u.name)
    BY <2>1, <2>3
  <2> QED
    BY <2>2, <2>3
<1>2. ASSUME NEW n \in Names, Declared(n)
      PROVE  LET t == Info(n, n, config[n])
             IN  t \in Infos /\ Proper(t) /\ t.id = n /\ t.id \notin Containers
  <2>1. config[n] \in Specs
    BY <1>2 DEF ReloadTypes, Declared
  <2> QED
    BY <2>1, NoneIsNothing DEF Info, Infos, Specs, Proper, IDs
<1> QED
  BY <1>1, <1>2, OverlayHas

LEMMA MergeKeeps ==
  ASSUME Inv, NEW g \in Goroutines, Merge(g)
  PROVE  Inv'
<1>1. /\ pc[g] = "merge" /\ pc' = [pc EXCEPT ![g] = "names"]
      /\ merged' = [merged EXCEPT ![g] = Overlay(merged[g])]
      /\ UNCHANGED <<docker, watch, config, configOnly, registry, todo, replacing, before,
                     clean, disturbed, requests>>
  BY DEF Merge, Goto, Inv, ReloadsOK, ReloadTypes
<1>2. \A n : InspectName(n) \in {"up", "down", "missing"}
  BY DEF InspectName
<1>3. seen' \in [Goroutines -> [IDs -> {"up", "down", "missing"}]]
  BY <1>2 DEF Merge, Inv, ReloadsOK, ReloadTypes
<1>4. /\ \A t \in Overlay(merged[g]) : t \in Infos /\ Proper(t)
      /\ \A t, u \in Overlay(merged[g]) : t.id = u.id => t = u
  BY <1>1, OverlayProper DEF Inv, ReloadsOK, ReloadTypes, Sound
<1>5. ReloadTypes'
  BY <1>1, <1>3, <1>4 DEF Inv, ReloadsOK, ReloadTypes
<1>6. \A h \in Goroutines : Sound(h)'
  <2>1. /\ pc'[g] = "names" /\ merged'[g] = Overlay(merged[g]) /\ todo'[g] = {}
        /\ replacing'[g] = None
    BY <1>1 DEF Inv, ReloadsOK, ReloadTypes, Sound
  <2>2. Sound(g)'
    BY <1>4, <2>1 DEF Sound, AtWork
  <2> QED
    BY <1>1, <2>2, OthersSound DEF Inv, ReloadsOK, ReloadTypes
<1>7. DockerOK' /\ WatchOK'
  BY <1>1, DockerStays DEF Inv, DockerOK
<1>8. RegistryInv'
  BY <1>1, RegistryStays DEF Inv
<1> QED
  BY <1>5, <1>6, <1>7, <1>8 DEF Inv, ReloadsOK

LEMMA NamesKeeps ==
  ASSUME Inv, NEW g \in Goroutines, SetConfigOnlyNames(g)
  PROVE  Inv'
<1>1. /\ pc[g] = "names" /\ pc' = [pc EXCEPT ![g] = "compare"] /\ configOnly' \subseteq Names
      /\ UNCHANGED <<docker, watch, config, registry, merged, seen, todo, replacing, before,
                     clean, disturbed, requests>>
  BY DEF SetConfigOnlyNames, Goto
<1>2. ReloadTypes'
  BY <1>1 DEF Inv, ReloadsOK, ReloadTypes
<1>3. \A h \in Goroutines : Sound(h)'
  <2>1. Sound(g)'
    BY <1>1 DEF Inv, ReloadsOK, ReloadTypes, Sound, AtWork
  <2> QED
    BY <1>1, <2>1, OthersSound DEF Inv, ReloadsOK, ReloadTypes
<1>4. DockerOK' /\ WatchOK'
  BY <1>1, DockerStays DEF Inv, DockerOK
<1>5. RegistryInv'
  BY <1>1, RegistryStays DEF Inv
<1> QED
  BY <1>2, <1>3, <1>4, <1>5 DEF Inv, ReloadsOK

\* The calls that Compare works out.
ToDo(g, c) ==
  \/ c.op = "remove" /\ Registered(c.info.id) /\ \A t \in merged[g] : t.id # c.info.id
  \/ c.op = "add" /\ c.info \in merged[g] /\ ~Registered(c.info.id)
  \/ c.op = "replace" /\ c.info \in merged[g] /\ Registered(c.info.id)

\* Targets that go by one ID and declare the same are the same.
LEMMA SameIsEqual ==
  ASSUME NEW a, NEW b, Proper(a), Proper(b), a.id = b.id, SameTarget(a, b)
  PROVE  a = b
<1>1. a \in Infos /\ b \in Infos /\ a.name = b.name /\ a.ports = b.ports /\ a.cron = b.cron
  BY DEF Proper, SameTarget
<1> QED
  BY <1>1 DEF Infos

\* They are calls for what is registered and not wanted, wanted and not registered, or
\* wanted and registered otherwise; and all such calls are among them.
LEMMA Compares ==
  ASSUME Inv, NEW g \in Goroutines, Compare(g)
  PROVE  /\ pc[g] = "compare" /\ pc' = [pc EXCEPT ![g] = "update"]
         /\ UNCHANGED <<docker, watch, config, configOnly, registry, merged, seen, replacing,
                        clean, disturbed, requests>>
         /\ before' = [before EXCEPT ![g] = IF clean[g] THEN targets ELSE Nothing]
         /\ todo' = [todo EXCEPT ![g] = todo'[g]]
         /\ \A c \in todo'[g] : c \in CallRecords /\ ToDo(g, c)
         /\ \A s \in Slots : targets[s] # None /\ (\A t \in merged[g] : t.id # targets[s].id) =>
              \E c \in todo'[g] : c.op = "remove" /\ c.info.id = targets[s].id
         /\ \A t \in merged[g] : ~Registered(t.id) =>
              \E c \in todo'[g] : c.op = "add" /\ c.info = t
         /\ \A t \in merged[g], s \in Slots :
              targets[s] # None /\ targets[s].id = t.id /\ Coherent(targets, t.id) =>
                targets[s] = t \/ \E c \in todo'[g] : c.op = "replace" /\ c.info = t
<1> DEFINE Regs == {targets[s].id : s \in {r \in Slots : targets[r] # None}}
           Wanted == {t.id : t \in merged[g]}
<1>1. PICK current \in [Regs -> {targets[s] : s \in Slots}] :
        /\ \A id \in Regs : current[id] # None /\ current[id].id = id
        /\ todo' = [todo EXCEPT ![g] =
             {[op |-> "remove", info |-> current[id]] : id \in Regs \ Wanted}
             \cup {[op |-> "add", info |-> t] : t \in {u \in merged[g] : u.id \notin Regs}}
             \cup {[op |-> "replace", info |-> t] :
                     t \in {u \in merged[g] : /\ u.id \in Regs
                                              /\ ~SameTarget(current[u.id], u)}}]
  BY DEF Compare
<1>2. \A id : id \in Regs <=> Registered(id)
  BY DEF Registered
<1>3. \A id \in Regs : \E s \in Slots : current[id] = targets[s]
  BY <1>1
<1>4. \A id \in Regs : current[id] \in Infos /\ Proper(current[id]) /\ current[id].id = id
  BY <1>1, <1>3 DEF Inv, RegistryInv, TargetsOK, Proper
<1>5. \A t \in merged[g] : t \in Infos /\ Proper(t)
  BY DEF Inv, ReloadsOK, Sound, Proper
<1> DEFINE Leave == {[op |-> "remove", info |-> current[id]] : id \in Regs \ Wanted}
           Come == {[op |-> "add", info |-> t] : t \in {u \in merged[g] : u.id \notin Regs}}
           Differ == {[op |-> "replace", info |-> t] :
                        t \in {u \in merged[g] : /\ u.id \in Regs
                                                 /\ ~SameTarget(current[u.id], u)}}
<1>6. todo'[g] = Leave \cup Come \cup Differ
  BY <1>1 DEF Inv, ReloadsOK, ReloadTypes
<1>7. ASSUME NEW c \in todo'[g] PROVE c \in CallRecords /\ ToDo(g, c)
  <2>1. CASE c \in Leave
    <3>1. PICK id \in Regs \ Wanted : c = [op |-> "remove", info |-> current[id]]
      BY <2>1
    <3>2. c.op = "remove" /\ c.info = current[id] /\ c \in CallRecords
      BY <1>4, <3>1 DEF CallRecords
    <3> QED
      BY <1>2, <1>4, <3>2 DEF ToDo
  <2>2. CASE c \in Come
    <3>1. PICK t \in merged[g] : t.id \notin Regs /\ c = [op |-> "add", info |-> t]
      BY <2>2
    <3>2. c.op = "add" /\ c.info = t /\ c \in CallRecords
      BY <1>5, <3>1 DEF CallRecords
    <3> QED
      BY <1>2, <3>1, <3>2 DEF ToDo
  <2>3. CASE c \in Differ
    <3>1. PICK t \in merged[g] : t.id \in Regs /\ c = [op |-> "replace", info |-> t]
      BY <2>3
    <3>2. c.op = "replace" /\ c.info = t /\ c \in CallRecords
      BY <1>5, <3>1 DEF CallRecords
    <3> QED
      BY <1>2, <3>1, <3>2 DEF ToDo
  <2> QED
    BY <1>6, <2>1, <2>2, <2>3
<1>8. ASSUME NEW s \in Slots, targets[s] # None, \A t \in merged[g] : t.id # targets[s].id
      PROVE  \E c \in todo'[g] : c.op = "remove" /\ c.info.id = targets[s].id
  <2>1. targets[s].id \in Regs \ Wanted
    BY <1>8
  <2>2. [op |-> "remove", info |-> current[targets[s].id]] \in todo'[g]
    BY <1>6, <2>1
  <2> QED
    BY <1>4, <2>1, <2>2
<1>9. ASSUME NEW t \in merged[g], ~Registered(t.id)
      PROVE  \E c \in todo'[g] : c.op = "add" /\ c.info = t
  <2>1. [op |-> "add", info |-> t] \in todo'[g]
    BY <1>2, <1>6, <1>9
  <2> QED
    BY <2>1
<1>10. ASSUME NEW t \in merged[g], NEW s \in Slots, targets[s] # None, targets[s].id = t.id,
              Coherent(targets, t.id)
       PROVE  targets[s] = t \/ \E c \in todo'[g] : c.op = "replace" /\ c.info = t
  <2>1. t.id \in Regs
    BY <1>10
  <2>2. current[t.id] = targets[s]
    BY <1>1, <1>3, <1>10, <2>1 DEF Coherent
  <2>3. CASE SameTarget(current[t.id], t)
    BY <1>4, <1>5, <2>1, <2>2, <2>3, SameIsEqual
  <2>4. CASE ~SameTarget(current[t.id], t)
    <3>1. [op |-> "replace", info |-> t] \in todo'[g]
      BY <1>6, <2>1, <2>4
    <3> QED
      BY <3>1
  <2> QED
    BY <2>3, <2>4
<1>11. /\ pc[g] = "compare" /\ pc' = [pc EXCEPT ![g] = "update"]
       /\ UNCHANGED <<docker, watch, config, configOnly, registry, merged, seen, replacing,
                      clean, disturbed, requests>>
       /\ before' = [before EXCEPT ![g] = IF clean[g] THEN targets ELSE Nothing]
       /\ todo' = [todo EXCEPT ![g] = todo'[g]]
  BY <1>1, <1>6 DEF Compare, Goto
<1> QED
  BY <1>7, <1>8, <1>9, <1>10, <1>11

LEMMA CompareKeeps ==
  ASSUME Inv, NEW g \in Goroutines, Compare(g)
  PROVE  Inv'
<1>1. /\ pc[g] = "compare" /\ pc' = [pc EXCEPT ![g] = "update"]
      /\ UNCHANGED <<docker, watch, config, configOnly, registry, merged, seen, replacing,
                     clean, disturbed, requests>>
      /\ before' = [before EXCEPT ![g] = IF clean[g] THEN targets ELSE Nothing]
      /\ todo' = [todo EXCEPT ![g] = todo'[g]]
      /\ \A c \in todo'[g] : c \in CallRecords /\ ToDo(g, c)
  BY Compares
<1>2. before'[g] \in [Slots -> Infos \cup {None}]
  BY <1>1 DEF Inv, ReloadsOK, ReloadTypes, RegistryInv, TargetsOK, Nothing
<1>3. ReloadTypes'
  BY <1>1, <1>2 DEF Inv, ReloadsOK, ReloadTypes
<1>4. \A h \in Goroutines : Sound(h)'
  <2>1. /\ pc'[g] = "update" /\ merged'[g] = merged[g] /\ replacing'[g] = replacing[g]
        /\ \A c \in todo'[g] : ToDo(g, c)
    BY <1>1 DEF Inv, ReloadsOK, ReloadTypes
  <2>2. Sound(g)'
    BY <1>1, <2>1 DEF Inv, ReloadsOK, Sound, AtWork, ToDo
  <2> QED
    BY <1>1, <2>2, OthersSound DEF Inv, ReloadsOK, ReloadTypes
<1>5. DockerOK' /\ WatchOK'
  BY <1>1, DockerStays DEF Inv, DockerOK
<1>6. RegistryInv'
  BY <1>1, RegistryStays DEF Inv
<1> QED
  BY <1>3, <1>4, <1>5, <1>6 DEF Inv, ReloadsOK

\* The calls of Update.
UpdateCall(g) == UpdateRemove(g) \/ UpdateAdd(g) \/ UpdateReplace(g) \/ UpdateReplaced(g)

\* Each takes a call off the list, or ends a replacement, and makes one call of the registry.
LEMMA Updates ==
  ASSUME Inv, NEW g \in Goroutines, UpdateCall(g)
  PROVE  /\ pc[g] = "update" /\ Touches(g) /\ UNCHANGED pc
         /\ \/ /\ UNCHANGED replacing
               /\ \E c \in todo[g] : /\ c.op = "remove" /\ RemoveTarget(c.info.id)
                                     /\ c.info.id \in IDs
                                     /\ todo' = [todo EXCEPT ![g] = @ \ {c}]
            \/ /\ UNCHANGED replacing /\ replacing[g] = None
               /\ \E c \in todo[g] : /\ c.op = "add" /\ c.info \in merged[g]
                                     /\ RegisterTarget(c.info, seen[g][c.info.id])
                                     /\ todo' = [todo EXCEPT ![g] = @ \ {c}]
            \/ /\ replacing[g] = None
               /\ \E c \in todo[g] : /\ c.op = "replace" /\ c.info \in merged[g]
                                     /\ RemoveTarget(c.info.id)
                                     /\ c.info.id \in IDs
                                     /\ replacing' = [replacing EXCEPT ![g] = c.info]
                                     /\ todo' = [todo EXCEPT ![g] = @ \ {c}]
            \/ /\ UNCHANGED todo /\ replacing[g] # None /\ replacing[g] \in merged[g]
               /\ RegisterTarget(replacing[g], seen[g][replacing[g].id])
               /\ replacing' = [replacing EXCEPT ![g] = None]
<1>1. \A c \in todo[g] : c.info.id \in IDs
  BY DEF Inv, ReloadsOK, ReloadTypes, CallRecords, Infos
<1>2. \A c \in todo[g] : c.op \in {"add", "replace"} => c.info \in merged[g]
  BY DEF Inv, ReloadsOK, Sound
<1>3. CASE UpdateRemove(g)
  BY <1>1, <1>3 DEF UpdateRemove, Calls
<1>4. CASE UpdateAdd(g)
  BY <1>2, <1>4 DEF UpdateAdd, Registering, Calls
<1>5. CASE UpdateReplace(g)
  BY <1>1, <1>2, <1>5 DEF UpdateReplace, Registering, Calls
<1>6. CASE UpdateReplaced(g)
  BY <1>6 DEF UpdateReplaced, Registering, Inv, ReloadsOK, Sound
<1> QED
  BY <1>3, <1>4, <1>5, <1>6 DEF UpdateCall

\* What is merged is fit to be registered with what was seen of it.
LEMMA MergedFit ==
  ASSUME Inv, NEW g \in Goroutines, NEW t \in merged[g]
  PROVE  /\ t \in Infos /\ Proper(t) /\ t.id \in IDs
         /\ seen[g][t.id] \in {"up", "down", "missing"}
<1>1. t \in Infos /\ Proper(t)
  BY DEF Inv, ReloadsOK, Sound, Proper
<1>2. t.id \in IDs
  BY <1>1 DEF Infos
<1> QED
  BY <1>1, <1>2 DEF Inv, ReloadsOK, ReloadTypes

LEMMA UpdateKeeps ==
  ASSUME Inv, NEW g \in Goroutines, UpdateCall(g)
  PROVE  Inv'
<1>1. /\ pc[g] = "update" /\ UNCHANGED pc
      /\ Interferes(g) /\ UNCHANGED <<docker, watch, config, configOnly, merged, seen, requests>>
      /\ disturbed' \in BOOLEAN
  BY Updates DEF Touches
<1>2. /\ todo' = [todo EXCEPT ![g] = todo'[g]] /\ todo'[g] \subseteq todo[g]
      /\ replacing' = [replacing EXCEPT ![g] = replacing'[g]]
      /\ replacing'[g] = None \/ replacing'[g] \in merged[g]
  BY Updates DEF Inv, ReloadsOK, ReloadTypes, Sound
<1>3. RegistryInv'
  BY Updates, MergedFit, RegisterKeeps, RemoveKeeps DEF Inv
<1>4. ReloadTypes'
  <2>1. replacing'[g] \in Infos \cup {None}
    BY <1>2, MergedFit
  <2> QED
    BY <1>1, <1>2, <2>1, InterferesType DEF Inv, ReloadsOK, ReloadTypes
<1>5. \A h \in Goroutines : Sound(h)'
  <2>1. Sound(g)'
    BY <1>1, <1>2 DEF Inv, ReloadsOK, Sound, AtWork
  <2> QED
    BY <1>1, <1>2, <2>1, OthersSound DEF Inv, ReloadsOK, ReloadTypes
<1>6. DockerOK' /\ WatchOK'
  BY <1>1, DockerStays DEF Inv, DockerOK
<1> QED
  BY <1>3, <1>4, <1>5, <1>6 DEF Inv, ReloadsOK

LEMMA DoneKeeps ==
  ASSUME Inv, NEW g \in Goroutines, Done(g)
  PROVE  Inv'
<1>1. /\ pc[g] = "update" /\ todo[g] = {} /\ replacing[g] = None
      /\ pc' = [pc EXCEPT ![g] = "idle"] /\ merged' = [merged EXCEPT ![g] = {}]
      /\ UNCHANGED <<docker, watch, config, configOnly, registry, todo, replacing, disturbed, requests>>
  BY DEF Done, Goto
<1>2. /\ seen' \in [Goroutines -> [IDs -> {"up", "down", "missing"}]]
      /\ before' \in [Goroutines -> [Slots -> Infos \cup {None}]]
      /\ clean' \in [Goroutines -> BOOLEAN]
  BY DEF Done, Nothing, Inv, ReloadsOK, ReloadTypes
<1>3. ReloadTypes'
  BY <1>1, <1>2 DEF Inv, ReloadsOK, ReloadTypes
<1>4. \A h \in Goroutines : Sound(h)'
  <2>1. Sound(g)'
    BY <1>1 DEF Inv, ReloadsOK, ReloadTypes, Sound, AtWork
  <2> QED
    BY <1>1, <2>1, OthersSound DEF Inv, ReloadsOK, ReloadTypes
<1>5. DockerOK' /\ WatchOK'
  BY <1>1, DockerStays DEF Inv, DockerOK
<1>6. RegistryInv'
  BY <1>1, RegistryStays DEF Inv
<1> QED
  BY <1>3, <1>4, <1>5, <1>6 DEF Inv, ReloadsOK

\* The invariant is inductive.
LEMMA NextInv == Inv /\ [Next]_vars => Inv'
<1> SUFFICES ASSUME Inv, [Next]_vars PROVE Inv'
  OBVIOUS
<1>1. ASSUME NEW k \in Containers, Docker(k) PROVE Inv'
  BY <1>1, DockerKeeps
<1>2. ASSUME Receive \/ Call \/ StreamBreaks \/ Listen PROVE Inv'
  BY <1>2, ReceiveKeeps, CallKeeps, StreamKeeps
<1>3. ASSUME NEW g \in Goroutines,
             \/ Request(g) \/ Discover(g) \/ DiscoverFailed(g) \/ Merge(g)
             \/ SetConfigOnlyNames(g) \/ Compare(g)
      PROVE  Inv'
  BY <1>3, RequestKeeps, DiscoverKeeps, MergeKeeps, NamesKeeps, CompareKeeps
<1>4. ASSUME NEW g \in Goroutines, UpdateCall(g) \/ Done(g) PROVE Inv'
  BY <1>4, UpdateKeeps, DoneKeeps
<1>5. CASE UNCHANGED vars
  <2>1. UNCHANGED <<docker, watch, registry, config, configOnly, pc, merged, seen, todo, replacing,
                    before, clean, requests, disturbed>>
    BY <1>5 DEF vars, docker, registry
  <2>2. DockerOK' /\ WatchOK'
    BY <2>1 DEF Inv, docker, DockerOK, WatchOK, Exists
  <2> QED
    BY <2>1, <2>2, ReloadsStay, RegistryStays DEF Inv, ReloadsOK, ReloadTypes
<1> QED
  BY <1>1, <1>2, <1>3, <1>4, <1>5 DEF Next, Docker, UpdateCall

\* Registry, index, jobs, reloads and watcher keep to one another through every step.
THEOREM InvCorrect == Spec => []Inv
BY InitInv, NextInv, PTL DEF Spec

\* Every variable keeps its type.
THEOREM TypeCorrect == Spec => []TypeOK
<1>1. Inv => TypeOK
  <2> SUFFICES ASSUME Inv PROVE TypeOK
    OBVIOUS
  <2>1. watch.id \in IDs \cup {None} /\ watch.flag \in {"down", "up"} /\ Len(watch.calls) <= 2
    <3>1. CASE watch = Quiescent
      BY <3>1 DEF Quiescent
    <3>2. CASE watch # Quiescent
      <4>1. watch.id \in IDs /\ watch.flag \in {"down", "up"}
        BY <3>2, CallLeft DEF Inv, WatchRecords
      <4>2. \/ watch.calls = <<"register">> \/ watch.calls = <<"register", "started">>
            \/ watch.calls = <<"started">> \/ watch.calls = <<"stopped">>
            \/ watch.calls = <<"missing">> \/ watch.calls = <<"remove">>
        BY <3>2, CallLeft DEF Inv
      <4>3. CASE watch.calls = <<"register", "started">>
        <5>1. Len(watch.calls) = 2
          BY <4>3
        <5> QED
          BY <4>1, <5>1
      <4>4. CASE watch.calls # <<"register", "started">>
        <5>1. Len(watch.calls) = 1
          BY <4>2, <4>4
        <5> QED
          BY <4>1, <5>1
      <4> QED
        BY <4>3, <4>4
    <3> QED
      BY <3>1, <3>2
  <2>2. \A g \in Goroutines : /\ merged[g] \subseteq Infos
                              /\ todo[g] \subseteq [op : {"remove", "add", "replace"}, info : Infos]
                              /\ replacing[g] \in Infos \cup {None}
    BY DEF Inv, ReloadsOK, ReloadTypes, CallRecords
  <2>3. TargetsOK /\ IndexOK /\ ReloadTypes /\ DockerOK
    BY DEF Inv, RegistryInv, ReloadsOK
  <2> QED
    BY <2>1, <2>2, <2>3 DEF TypeOK, TargetsOK, IndexOK, ReloadTypes, DockerOK, EventRecords
<1> QED
  BY <1>1, InvCorrect, PTL

\* The scheduler has the jobs of what is registered with a schedule, and no others.
THEOREM JobsMatchCorrect == Spec => []JobsMatch
<1>1. Inv => JobsMatch
  BY DEF Inv, RegistryInv
<1> QED
  BY <1>1, InvCorrect, PTL

\* What the name index leads to is registered.
THEOREM NamesLiveCorrect == Spec => []NamesLive
<1>1. Inv => NamesLive
  BY DEF Inv, RegistryInv
<1> QED
  BY <1>1, InvCorrect, PTL

-----------------------------------------------------------------------------
(* What a reload leaves *)

\* What is still there from before, and is not wanted as it is, has its call.
OldLeaves(g) ==
  \A s \in Slots : targets[s] # None /\ targets[s] \notin merged[g] =>
    /\ targets[s] = before[g][s]
    /\ \/ ~Coherent(before[g], targets[s].id)
       \/ \E c \in todo[g] : c.op \in {"remove", "replace"} /\ c.info.id = targets[s].id

\* Nobody else had or wants its ports.
Unrivalled(g, t) ==
  /\ \A p \in t.ports : before[g][p] # None => before[g][p].id = t.id
  /\ Rivals(g, t) = {}

\* It has its slots, but for ports it could not listen on.
Placed(t) ==
  \A s \in SlotsOf(t) : targets[s] = t \/ (targets[s] = None /\ s \in unopened[t.id])

\* What is wanted has its slots, or has its call.
NewComes(g) ==
  \A t \in merged[g] : Coherent(before[g], t.id) /\ Unrivalled(g, t) =>
    \/ replacing[g] = t
    \/ \E c \in todo[g] : c.op \in {"add", "replace"} /\ c.info = t
    \/ Placed(t)

Exact(g) == OldLeaves(g) /\ NewComes(g)

ExactInv == \A g \in Goroutines : clean[g] /\ pc[g] = "update" => Exact(g)

\* A step that is none of the reload's, and leaves the registry alone.
LEMMA ExactStays ==
  ASSUME NEW g \in Goroutines, Exact(g), UNCHANGED <<targets, unopened>>,
         merged'[g] = merged[g], todo'[g] = todo[g], replacing'[g] = replacing[g],
         before'[g] = before[g]
  PROVE  Exact(g)'
BY DEF Exact, OldLeaves, NewComes, Unrivalled, Rivals, Placed

\* When nobody else had or wants its ports, a target is not refused.
LEMMA NoConflict ==
  ASSUME Inv, NEW g \in Goroutines, OldLeaves(g), NEW t \in merged[g], Unrivalled(g, t)
  PROVE  ~Conflict(t)
<1> SUFFICES ASSUME NEW p \in t.ports, targets[p] # None PROVE targets[p].id = t.id
  BY DEF Conflict
<1>1. t \in Infos /\ p \in Ports /\ p \in Slots
  BY MergedFit DEF Infos, Slots
<1>2. CASE targets[p] \in merged[g]
  <2>1. targets[p] \in Infos /\ p \in SlotsOf(targets[p])
    BY <1>1 DEF Inv, RegistryInv, TargetsOK, Proper
  <2>2. p \in targets[p].ports
    BY <1>1, <2>1, DistinctAssumption DEF SlotsOf, Infos
  <2> QED
    BY <1>2, <2>2 DEF Unrivalled, Rivals
<1>3. CASE targets[p] \notin merged[g]
  BY <1>1, <1>3 DEF OldLeaves, Unrivalled
<1> QED
  BY <1>2, <1>3

\* A reload's comparison finds all that differs.
LEMMA ComparesExactly ==
  ASSUME Inv, NEW g \in Goroutines, Compare(g), clean[g]
  PROVE  Exact(g)'
<1>1. /\ before'[g] = targets /\ targets' = targets /\ merged'[g] = merged[g]
      /\ clean'[g] = clean[g]
  <2>1. /\ before' = [before EXCEPT ![g] = IF clean[g] THEN targets ELSE Nothing]
        /\ UNCHANGED <<registry, merged, clean>>
    BY Compares
  <2> QED
    BY <2>1 DEF Inv, ReloadsOK, ReloadTypes, registry
<1>2. ASSUME NEW s \in Slots, targets[s] # None, targets[s] \notin merged[g],
             Coherent(targets, targets[s].id)
      PROVE  \E c \in todo'[g] : c.op \in {"remove", "replace"} /\ c.info.id = targets[s].id
  <2>1. CASE \E t \in merged[g] : t.id = targets[s].id
    <3>1. PICK t \in merged[g] : t.id = targets[s].id
      BY <2>1
    <3>2. \E c \in todo'[g] : c.op = "replace" /\ c.info = t
      BY <1>2, <3>1, Compares
    <3> QED
      BY <3>1, <3>2
  <2>2. CASE \A t \in merged[g] : t.id # targets[s].id
    BY <1>2, <2>2, Compares
  <2> QED
    BY <2>1, <2>2
<1>3. ASSUME NEW t \in merged[g], Coherent(targets, t.id),
             \A p \in t.ports : targets[p] # None => targets[p].id = t.id
      PROVE  \/ \E c \in todo'[g] : c.op \in {"add", "replace"} /\ c.info = t
             \/ Placed(t)
  <2>1. CASE ~Registered(t.id)
    BY <2>1, Compares
  <2>2. CASE Registered(t.id)
    <3>1. PICK s \in Slots : targets[s] # None /\ targets[s].id = t.id
      BY <2>2 DEF Registered
    <3>2. CASE targets[s] = t
      <4>1. ASSUME NEW r \in SlotsOf(t)
            PROVE  targets[r] = t \/ (targets[r] = None /\ r \in unopened[t.id])
        <5>1. r \in Slots /\ t \in Infos /\ t.id \in IDs
          BY MergedFit, SlotsExist DEF Infos
        <5>2. (targets[r] # None /\ targets[r].id = t.id) \/ r \in unopened[t.id]
          BY <3>1, <3>2 DEF Inv, RegistryInv, TargetsOK
        <5>3. r \in unopened[t.id] => r \in t.ports
          BY <5>1, ContestedAssumption, DistinctAssumption
             DEF Inv, RegistryInv, TargetsOK, SlotsOf
        <5>4. targets[r] # None /\ targets[r].id = t.id => targets[r] = t
          BY <1>3, <3>1, <3>2, <5>1 DEF Coherent
        <5> QED
          BY <1>3, <5>2, <5>3, <5>4
      <4> QED
        BY <4>1 DEF Placed
    <3>3. CASE targets[s] # t
      BY <1>3, <3>1, <3>3, Compares
    <3> QED
      BY <3>2, <3>3
  <2> QED
    BY <2>1, <2>2
<1>4. OldLeaves(g)'
  BY <1>1, <1>2 DEF OldLeaves
<1>5. NewComes(g)'
  <2>1. unopened' = unopened
    BY Compares DEF registry
  <2> QED
    BY <1>1, <1>3, <2>1 DEF NewComes, Unrivalled, Placed
<1> QED
  BY <1>4, <1>5 DEF Exact

\* What is merged and registered has the slots that it wants to itself.
LEMMA RegistersExactly ==
  ASSUME Inv, NEW g \in Goroutines, OldLeaves(g), NEW u \in merged[g], NEW flag,
         RegisterTarget(u, flag)
  PROVE  /\ Unrivalled(g, u) => Placed(u)'
         /\ \A t \in merged[g] : Unrivalled(g, t) /\ Placed(t) => Placed(t)'
         /\ \A s \in Slots : targets'[s] = u \/ targets'[s] = targets[s]
<1>1. u \in Infos
  BY MergedFit
<1>2. Unrivalled(g, u) => ~Conflict(u)
  BY NoConflict
<1>3. CASE Conflict(u)
  BY <1>2, <1>3 DEF RegisterTarget, registry, Placed
<1>4. CASE ~Conflict(u)
  <2>1. /\ \A s \in SlotsOf(u) : targets[s] = None \/ targets[s].id = u.id
        /\ \A s \in SlotsOf(u) :
             \/ targets'[s] = u
             \/ targets'[s] = None /\ targets[s] = None /\ s \in unopened'[u.id]
        /\ \A s \in Slots \ SlotsOf(u) : targets'[s] = targets[s]
    BY <1>1, <1>4, Registers DEF Inv, RegistryInv
  <2>2. Placed(u)'
    BY <2>1 DEF Placed, SlotsOf
  <2>3. ASSUME NEW t \in merged[g], t # u, Unrivalled(g, t), Placed(t), NEW s \in SlotsOf(t)
        PROVE  targets'[s] = t \/ (targets'[s] = None /\ s \in unopened'[t.id])
    <3>1. s \in Slots /\ t # None /\ t \in Infos /\ t.id \in IDs /\ t.id # u.id
      BY <2>3, MergedFit, SlotsExist DEF Infos, Inv, ReloadsOK, Sound
    <3>2. CASE targets[s] = t
      BY <2>1, <3>1, <3>2
    <3>3. CASE targets[s] = None /\ s \in unopened[t.id]
      <4>1. s \in Ports
        BY <3>1, <3>3, ContestedAssumption DEF Inv, RegistryInv, TargetsOK
      <4>2. s \notin SlotsOf(u)
        BY <1>1, <2>3, <3>1, <4>1, DistinctAssumption
           DEF SlotsOf, Unrivalled, Rivals, Infos
      <4>3. unopened'[t.id] = unopened[t.id]
        BY <1>1, <1>4, <3>1, Unopens DEF Inv, RegistryInv
      <4> QED
        BY <2>1, <3>1, <3>3, <4>2, <4>3
    <3> QED
      BY <2>3, <3>2, <3>3 DEF Placed
  <2>4. ASSUME NEW t \in merged[g], Unrivalled(g, t), Placed(t) PROVE Placed(t)'
    BY <2>2, <2>3, <2>4 DEF Placed, SlotsOf
  <2> QED
    BY <2>1, <2>2, <2>4
<1> QED
  BY <1>3, <1>4

\* A removal for an update takes what has to go.
LEMMA RemovesExactly ==
  ASSUME Inv, NEW g \in Goroutines, NEW id \in IDs, RemoveTarget(id)
  PROVE  /\ \A t \in merged[g] : t.id # id /\ Placed(t) => Placed(t)'
         /\ \A s \in Slots : targets'[s] # None => targets'[s] = targets[s] /\ targets[s].id # id
<1>1. \A t \in merged[g] : SlotsOf(t) \subseteq Slots /\ t # None /\ t.id \in IDs
  BY MergedFit, SlotsExist DEF Infos
<1> QED
  BY <1>1, Removes DEF Inv, Placed, SlotsOf

\* Each call of an update leaves the slots as they are to be, or a call that will.
LEMMA UpdatesExactly ==
  ASSUME Inv, NEW g \in Goroutines, UpdateCall(g), Exact(g), clean'[g]
  PROVE  Exact(g)'
<1>1. /\ before'[g] = before[g] /\ UNCHANGED merged
  BY Updates DEF Touches, Interferes, Inv, ReloadsOK, ReloadTypes
<1>2. \A t \in merged[g] : Unrivalled(g, t)' <=> Unrivalled(g, t)
  BY <1>1 DEF Unrivalled, Rivals
<1>3. SUFFICES /\ \A s \in Slots : targets'[s] # None /\ targets'[s] \notin merged[g] =>
                    /\ targets'[s] = before[g][s]
                    /\ \/ ~Coherent(before[g], targets'[s].id)
                       \/ \E c \in todo'[g] :
                            c.op \in {"remove", "replace"} /\ c.info.id = targets'[s].id
               /\ \A t \in merged[g] : Coherent(before[g], t.id) /\ Unrivalled(g, t) =>
                    \/ replacing'[g] = t
                    \/ \E c \in todo'[g] : c.op \in {"add", "replace"} /\ c.info = t
                    \/ Placed(t)'
  BY <1>1, <1>2 DEF Exact, OldLeaves, NewComes
<1>4. OldLeaves(g) /\ NewComes(g)
  BY DEF Exact
<1>5. /\ \A t \in merged[g] : t # None
      /\ \A t, u \in merged[g] : t.id = u.id => t = u
      /\ \A c \in todo[g] : c.op = "remove" => \A t \in merged[g] : t.id # c.info.id
  BY MergedFit, SlotsExist DEF Inv, ReloadsOK, Sound
<1>6. CASE /\ UNCHANGED replacing
           /\ \E c \in todo[g] : /\ c.op = "remove" /\ RemoveTarget(c.info.id)
                                 /\ c.info.id \in IDs
                                 /\ todo' = [todo EXCEPT ![g] = @ \ {c}]
  <2>1. PICK c \in todo[g] : /\ c.op = "remove" /\ RemoveTarget(c.info.id)
                             /\ c.info.id \in IDs
                             /\ todo' = [todo EXCEPT ![g] = @ \ {c}]
    BY <1>6
  <2>2. todo'[g] = todo[g] \ {c} /\ replacing'[g] = replacing[g]
    BY <1>6, <2>1 DEF Inv, ReloadsOK, ReloadTypes
  <2> QED
    BY <1>4, <1>5, <2>1, <2>2, RemovesExactly DEF OldLeaves, NewComes
<1>7. CASE /\ UNCHANGED replacing /\ replacing[g] = None
           /\ \E c \in todo[g] : /\ c.op = "add" /\ c.info \in merged[g]
                                 /\ RegisterTarget(c.info, seen[g][c.info.id])
                                 /\ todo' = [todo EXCEPT ![g] = @ \ {c}]
  <2>1. PICK c \in todo[g] : /\ c.op = "add" /\ c.info \in merged[g]
                             /\ RegisterTarget(c.info, seen[g][c.info.id])
                             /\ todo' = [todo EXCEPT ![g] = @ \ {c}]
    BY <1>7
  <2>2. todo'[g] = todo[g] \ {c} /\ replacing[g] = None
    BY <1>7, <2>1 DEF Inv, ReloadsOK, ReloadTypes
  <2> QED
    BY <1>4, <1>5, <2>1, <2>2, RegistersExactly DEF OldLeaves, NewComes
<1>8. CASE /\ replacing[g] = None
           /\ \E c \in todo[g] : /\ c.op = "replace" /\ c.info \in merged[g]
                                 /\ RemoveTarget(c.info.id)
                                 /\ c.info.id \in IDs
                                 /\ replacing' = [replacing EXCEPT ![g] = c.info]
                                 /\ todo' = [todo EXCEPT ![g] = @ \ {c}]
  <2>1. PICK c \in todo[g] : /\ c.op = "replace" /\ c.info \in merged[g]
                             /\ RemoveTarget(c.info.id)
                             /\ c.info.id \in IDs
                             /\ replacing' = [replacing EXCEPT ![g] = c.info]
                             /\ todo' = [todo EXCEPT ![g] = @ \ {c}]
    BY <1>8
  <2>2. todo'[g] = todo[g] \ {c} /\ replacing'[g] = c.info
    BY <2>1 DEF Inv, ReloadsOK, ReloadTypes
  <2> QED
    BY <1>4, <1>5, <1>8, <2>1, <2>2, RemovesExactly DEF OldLeaves, NewComes
<1>9. CASE /\ UNCHANGED todo /\ replacing[g] # None /\ replacing[g] \in merged[g]
           /\ RegisterTarget(replacing[g], seen[g][replacing[g].id])
           /\ replacing' = [replacing EXCEPT ![g] = None]
  BY <1>4, <1>5, <1>9, RegistersExactly DEF OldLeaves, NewComes
<1> QED
  BY <1>6, <1>7, <1>8, <1>9, Updates

\* Another reload's or the watcher's call on the registry, and another's discovery, end it.
LEMMA ExactNext == Inv /\ ExactInv /\ [Next]_vars => ExactInv'
<1> SUFFICES ASSUME Inv, ExactInv, [Next]_vars, NEW g \in Goroutines, clean'[g], pc'[g] = "update"
             PROVE  Exact(g)'
  BY DEF ExactInv
<1> DEFINE Still(h) == /\ pc'[h] = pc[h] /\ merged'[h] = merged[h] /\ todo'[h] = todo[h]
                       /\ replacing'[h] = replacing[h] /\ before'[h] = before[h]
                       /\ clean'[h] = clean[h]
<1>1. CASE UNCHANGED <<targets, unopened>> /\ Still(g)
  BY <1>1, ExactStays DEF ExactInv
<1>2. ASSUME NEW k \in Containers, Docker(k) PROVE UNCHANGED <<targets, unopened>> /\ Still(g)
  BY <1>2 DEF Docker, Create, StartContainer, Die, Destroy, Change, registry, reloads
<1>3. ASSUME Receive \/ StreamBreaks \/ Listen PROVE UNCHANGED <<targets, unopened>> /\ Still(g)
  BY <1>3 DEF Receive, StreamBreaks, Listen, registry, reloads
<1>4. ASSUME Call PROVE FALSE
  BY <1>4, DistinctAssumption DEF Call, Interferes
<1>5. ASSUME NEW h \in Goroutines, Request(h) \/ DiscoverFailed(h) PROVE UNCHANGED <<targets, unopened>> /\ Still(g)
  BY <1>5 DEF Request, DiscoverFailed, Goto, registry, Inv, ReloadsOK, ReloadTypes
<1>6. ASSUME NEW h \in Goroutines, Discover(h) PROVE FALSE
  <2>1. clean' = [i \in Goroutines |-> IF i = h THEN clean'[h] ELSE FALSE]
        /\ pc' = [pc EXCEPT ![h] = "merge"]
    BY <1>6 DEF Discover, Goto
  <2> QED
    BY <2>1 DEF Inv, ReloadsOK, ReloadTypes
<1>7. ASSUME NEW h \in Goroutines, Merge(h) \/ SetConfigOnlyNames(h)
      PROVE  UNCHANGED <<targets, unopened>> /\ Still(g)
  BY <1>7 DEF Merge, SetConfigOnlyNames, Goto, registry, Inv, ReloadsOK, ReloadTypes
<1>8. ASSUME NEW h \in Goroutines, Compare(h) PROVE Exact(g)'
  <2>1. /\ pc' = [pc EXCEPT ![h] = "update"] /\ UNCHANGED <<registry, merged, replacing, clean>>
        /\ todo' = [todo EXCEPT ![h] = todo'[h]]
        /\ before' = [before EXCEPT ![h] = IF clean[h] THEN targets ELSE Nothing]
    BY <1>8, Compares
  <2>2. CASE g = h
    BY <1>8, <2>1, <2>2, ComparesExactly
  <2>3. CASE g # h
    <3>1. UNCHANGED <<targets, unopened>> /\ Still(g)
      BY <2>1, <2>3 DEF registry, Inv, ReloadsOK, ReloadTypes
    <3> QED
      BY <1>1, <3>1
  <2> QED
    BY <2>2, <2>3
<1>9. ASSUME NEW h \in Goroutines, UpdateCall(h) PROVE Exact(g)'
  <2>1. UNCHANGED pc /\ clean' = [i \in Goroutines |-> i = h /\ clean[i]]
    BY <1>9, Updates DEF Touches, Interferes
  <2>2. g = h /\ clean[g] /\ pc[g] = "update"
    BY <2>1
  <2> QED
    BY <1>9, <2>2, UpdatesExactly DEF ExactInv
<1>10. ASSUME NEW h \in Goroutines, Done(h) PROVE UNCHANGED <<targets, unopened>> /\ Still(g)
  BY <1>10 DEF Done, Goto, registry, Inv, ReloadsOK, ReloadTypes
<1>11. CASE UNCHANGED vars
  BY <1>1, <1>11 DEF vars
<1> QED
  BY <1>1, <1>2, <1>3, <1>4, <1>5, <1>6, <1>7, <1>8, <1>9, <1>10, <1>11
     DEF Next, Docker, UpdateCall

\* A reload that nothing else touched leaves what it merged, but for targets whose slots
\* disagreed before or that had or have rivals, and ports that it could not listen on.
THEOREM ReloadExactCorrect == Spec => []ReloadExact
<1>1. Init => ExactInv
  BY DEF Init, ExactInv
<1>2. Inv /\ ExactInv => ReloadExact
  <2> SUFFICES ASSUME Inv, ExactInv, NEW g \in Goroutines, Finished(g)
               PROVE  /\ \A s \in Slots :
                           targets[s] # None /\ Coherent(before[g], targets[s].id) =>
                             targets[s] \in merged[g]
                      /\ \A t \in merged[g] :
                           \/ ~Coherent(before[g], t.id) \/ ~Unrivalled(g, t)
                           \/ Placed(t)
    BY DEF ReloadExact, Unrivalled, Placed
  <2>1. \A t \in merged[g] : t # None
    BY MergedFit, SlotsExist
  <2> QED
    BY <2>1 DEF ExactInv, Exact, OldLeaves, NewComes, Finished
<1> QED
  BY <1>1, <1>2, ExactNext, InvCorrect, PTL DEF Spec

-----------------------------------------------------------------------------
(* What the flags tell, and what is gone *)

\* Events that decide whether a target is up.
Deciding(e, id) == e.kind \in {"start", "die"} /\ id \in {e.id, Name[e.id]}
Pending(id) == \E i \in 1..Len(events) : Deciding(events[i], id)

\* What was queued last of a container is still true of it.
EventsTell ==
  \A i \in 1..Len(events) : \A id \in {events[i].id, Name[events[i].id]} :
    (\A j \in (i + 1)..Len(events) : ~Deciding(events[j], id))
      => (events[i].kind = "start") = Up(id)

Deciders == {<<"started">>, <<"stopped">>, <<"register", "started">>}
Decides(id) == watch.id = id /\ watch.calls \in Deciders

\* So is what the watcher is about to tell, unless an event is to follow.
WatchTells ==
  watch # Quiescent /\ ~Pending(watch.id) =>
    /\ watch.calls \in {<<"started">>, <<"register", "started">>} => Up(watch.id)
    /\ watch.calls \in {<<"stopped">>, <<"missing">>} => ~Up(watch.id)
    /\ watch.calls = <<"register">> => (watch.flag = "up") = Up(watch.id)

\* So are the flags, unless the watcher is about to set them, ...
FlagsTell ==
  \A s \in Slots : targets[s] # None /\ ~Pending(targets[s].id) /\ ~Decides(targets[s].id)
    => (flags[s] = "up") = Up(targets[s].id)

\* ... and what a reload has seen.
SeenTells ==
  \A g \in Goroutines : AtWork(g) =>
    \A t \in merged[g] : ~Pending(t.id) => (seen[g][t.id] = "up") = Up(t.id)

\* Reloads and the watcher have taken turns.
TakeTurns ==
  \A g \in Goroutines : AtWork(g) =>
    watch = Quiescent /\ \A h \in Goroutines : AtWork(h) => h = g

BeforeUpdate(g) == pc[g] \in {"merge", "names", "compare"}
RemoveQueued(g, id) == \E c \in todo[g] : c.op = "remove" /\ c.info.id = id

\* Services are served while their names are watched, or are about to be removed.
ServicesWatched ==
  \A s \in Slots : targets[s] # None /\ targets[s].id \in Names =>
    \/ targets[s].id \in configOnly
    \/ \E g \in Goroutines : BeforeUpdate(g) \/ RemoveQueued(g, targets[s].id)

NamesSet ==
  \A g \in Goroutines : pc[g] \in {"compare", "update"} =>
    configOnly = {t.id : t \in merged[g]} \cap Names

\* What is served, or is about to be, exists, or its removal is to be told or made.
Wanted(k) == \E g \in Goroutines : \E t \in merged[g] : t.id = k
Served(k) ==
  \/ Registered(k)
  \/ watch # Quiescent /\ watch.id = k /\ Head(watch.calls) = "register"
  \/ Wanted(k)

DestroyQueued(k) == \E i \in 1..Len(events) : events[i] = Event("destroy", k)
Leaving(k) == DestroyQueued(k) \/ (watch.id = k /\ watch.calls = <<"remove">>)

GoneLeave == \A k \in Containers : Served(k) => Exists(k) \/ Leaving(k)

Follow ==
  /\ EventsTell /\ WatchTells /\ FlagsTell /\ SeenTells
  /\ TakeTurns /\ ServicesWatched /\ NamesSet /\ GoneLeave

\* A container is up under its ID and, if it has the name, under its name.
LEMMA UpIs ==
  /\ \A k \in Containers : Up(k) <=> world[k] = "up"
  /\ \A n \in Names : Up(n) <=> \E k \in Containers : world[k] = "up" /\ Name[k] = n
BY NoneIsNothing DEF Up

\* A quiet watcher decides and removes nothing.
LEMMA QuietWatch ==
  ASSUME watch = Quiescent
  PROVE  \A id : ~Decides(id) /\ ~(watch.id = id /\ watch.calls = <<"remove">>)
<1>1. watch.calls = <<>>
  BY DEF Quiescent
<1> QED
  BY <1>1 DEF Decides, Deciders

\* Each list of calls is itself and no other.
LEMMA CallListsDiffer ==
  /\ <<"remove">> \notin Deciders /\ <<"missing">> \notin Deciders /\ <<"register">> \notin Deciders
  /\ <<"remove">> # <<"started">> /\ <<"remove">> # <<"register", "started">>
  /\ <<"remove">> # <<"stopped">> /\ <<"remove">> # <<"missing">> /\ <<"remove">> # <<"register">>
  /\ <<"started">> # <<"register">> /\ <<"started">> # <<"register", "started">>
  /\ <<"started">> # <<"stopped">> /\ <<"started">> # <<"missing">>
  /\ <<"register">> # <<"register", "started">> /\ <<"register">> # <<"stopped">>
  /\ <<"register">> # <<"missing">> /\ <<"stopped">> # <<"missing">>
  /\ <<"stopped">> # <<"register", "started">> /\ <<"missing">> # <<"register", "started">>
BY DEF Deciders

LEMMA CallHeads ==
  /\ Head(<<"register">>) = "register" /\ Head(<<"register", "started">>) = "register"
  /\ Head(<<"started">>) = "started" /\ Head(<<"stopped">>) = "stopped"
  /\ Head(<<"missing">>) = "missing" /\ Head(<<"remove">>) = "remove"
OBVIOUS

\* What a change of one container does to what is up: its events tell.
LEMMA UpAfter ==
  ASSUME Inv, NEW k \in Containers, Docker(k)
  PROVE  \E state \in {"down", "up", "gone"}, kind \in {"create", "start", "die", "destroy"} :
           /\ Change(k, state, kind)
           /\ \A id \in {k, Name[k]} : Up(id)' = (kind = "start")
           /\ \A id : ~Deciding(Event(kind, k), id) => (Up(id)' = Up(id))
           /\ \A l \in Containers : Exists(l) => Exists(l)' \/ (l = k /\ kind = "destroy")
<1>1. PICK state \in {"down", "up", "gone"}, kind \in {"create", "start", "die", "destroy"} :
           /\ Change(k, state, kind)
           /\ \/ Create(k) /\ state = "down" /\ kind = "create"
              \/ StartContainer(k) /\ state = "up" /\ kind = "start"
              \/ Die(k) /\ state = "down" /\ kind = "die"
              \/ Destroy(k) /\ state = "gone" /\ kind = "destroy"
  BY DockerChange
<1>2. world' = [world EXCEPT ![k] = state]
      /\ world \in [Containers -> {"none", "down", "up", "gone"}]
  BY <1>1 DEF Change, Inv, DockerOK
<1>3. /\ world'[k] = state /\ \A l \in Containers \ {k} : world'[l] = world[l]
      /\ state = "up" <=> kind = "start"
      /\ kind = "start" => world[k] = "down"
      /\ kind = "die" => world[k] = "up"
      /\ kind \in {"create", "destroy"} => world[k] # "up"
  BY <1>1, <1>2 DEF Create, StartContainer, Die, Destroy
<1>4. \A l \in Containers : Name[l] = Name[k] /\ world[l] = "up" => l = k
  BY <1>1 DEF Create, StartContainer, Die, Destroy, Exists, Inv, DockerOK
<1>5. k \notin Names /\ Name[k] \in Names /\ Name[k] \notin Containers
      /\ \A l \in Containers : Name[l] # k
  BY NoneIsNothing
<1>6. \A id \in {k, Name[k]} : Up(id)' = (kind = "start")
  BY <1>3, <1>4, <1>5 DEF Up
<1>7. ASSUME NEW id, ~Deciding(Event(kind, k), id) PROVE Up(id)' = Up(id)
  <2>1. CASE id \notin {k, Name[k]}
    BY <1>3, <2>1 DEF Up
  <2>2. CASE kind \in {"create", "destroy"}
    BY <1>3, <2>2 DEF Up
  <2> QED
    BY <1>7, <2>1, <2>2 DEF Deciding, Event
<1>8. \A l \in Containers : Exists(l) => Exists(l)' \/ (l = k /\ kind = "destroy")
  BY <1>1, <1>3 DEF Exists
<1> QED
  BY <1>1, <1>6, <1>7, <1>8

\* A change that is listened to is queued.
LEMMA DockerFollows ==
  ASSUME Inv, Follow, ~disturbed, NEW k \in Containers, Docker(k), ~disturbed'
  PROVE  Follow'
<1>1. PICK state \in {"down", "up", "gone"}, kind \in {"create", "start", "die", "destroy"} :
           /\ Change(k, state, kind)
           /\ \A id \in {k, Name[k]} : Up(id)' = (kind = "start")
           /\ \A id : ~Deciding(Event(kind, k), id) => (Up(id)' = Up(id))
           /\ \A l \in Containers : Exists(l) => Exists(l)' \/ (l = k /\ kind = "destroy")
  BY UpAfter
<1> DEFINE e == Event(kind, k)
<1>2. /\ listening /\ events' = Append(events, e)
      /\ UNCHANGED <<watch, configOnly, targets, flags, pc, merged, seen, todo>>
  BY <1>1 DEF Change, registry, reloads
<1>3. /\ Len(events) \in Nat /\ Len(events') = Len(events) + 1
      /\ events'[Len(events) + 1] = e
      /\ \A i \in 1..Len(events) : events'[i] = events[i]
      /\ e.kind = kind /\ e.id = k
  <2>1. e \in EventRecords /\ events \in Seq(EventRecords)
    BY DEF Event, EventRecords, Inv, DockerOK
  <2> QED
    BY <1>2, <2>1, AppendProperties, LenProperties DEF Event
<1>4. \A id : Pending(id)' <=> Pending(id) \/ Deciding(e, id)
  <2>1. ASSUME NEW id, Pending(id) PROVE Pending(id)'
    <3>1. PICK i \in 1..Len(events) : Deciding(events[i], id)
      BY <2>1 DEF Pending
    <3>2. i \in 1..Len(events') /\ events'[i] = events[i]
      BY <1>3, <3>1
    <3> QED
      BY <3>1, <3>2 DEF Pending, Deciding
  <2>2. ASSUME NEW id, Deciding(e, id) PROVE Pending(id)'
    <3>1. Len(events) + 1 \in 1..Len(events')
      BY <1>3
    <3> QED
      BY <1>3, <2>2, <3>1 DEF Pending, Deciding
  <2>3. ASSUME NEW id, Pending(id)' PROVE Pending(id) \/ Deciding(e, id)
    <3>1. PICK i \in 1..Len(events') : Deciding(events'[i], id)
      BY <2>3 DEF Pending, Deciding
    <3>2. i \in 1..Len(events) \/ i = Len(events) + 1
      BY <1>3, <3>1
    <3> QED
      BY <1>3, <3>1, <3>2 DEF Pending
  <2> QED
    BY <2>1, <2>2, <2>3
<1>5. EventsTell'
  <2> SUFFICES ASSUME NEW i \in 1..Len(events'), NEW id \in {events'[i].id, Name[events'[i].id]},
                      \A j \in (i + 1)..Len(events') : ~Deciding(events'[j], id)
               PROVE  (events'[i].kind = "start") = Up(id)'
    BY DEF EventsTell, Deciding
  <2>1. CASE i = Len(events) + 1
    BY <1>1, <1>3, <2>1
  <2>2. CASE i # Len(events) + 1
    <3>1. /\ i \in 1..Len(events) /\ events'[i] = events[i]
          /\ \A j \in (i + 1)..Len(events) : j \in (i + 1)..Len(events') /\ events'[j] = events[j]
          /\ Len(events) + 1 \in (i + 1)..Len(events')
      BY <1>3, <2>2
    <3>2. \A j \in (i + 1)..Len(events) : ~Deciding(events[j], id)
      BY <3>1
    <3>3. ~Deciding(e, id)
      BY <1>3, <3>1
    <3>4. (events[i].kind = "start") = Up(id)
      BY <3>1, <3>2 DEF Follow, EventsTell
    <3> QED
      BY <1>1, <3>1, <3>3, <3>4
  <2> QED
    BY <2>1, <2>2
<1>6. WatchTells'
  BY <1>1, <1>2, <1>4 DEF Follow, WatchTells
<1>7. FlagsTell'
  BY <1>1, <1>2, <1>4 DEF Follow, FlagsTell, Decides
<1>8. SeenTells'
  BY <1>1, <1>2, <1>4 DEF Follow, SeenTells, AtWork
<1>9. TakeTurns' /\ ServicesWatched' /\ NamesSet'
  BY <1>2 DEF Follow, TakeTurns, AtWork, ServicesWatched, BeforeUpdate, RemoveQueued, NamesSet
<1>10. GoneLeave'
  <2>1. \A l \in Containers : Served(l)' => Served(l)
    BY <1>2 DEF Served, Registered, Wanted
  <2>2. \A l \in Containers : DestroyQueued(l) => DestroyQueued(l)'
    BY <1>3 DEF DestroyQueued
  <2>3. kind = "destroy" => DestroyQueued(k)'
    <3>1. Len(events) + 1 \in 1..Len(events')
      BY <1>3
    <3> QED
      BY <1>3, <3>1 DEF DestroyQueued
  <2> QED
    BY <1>1, <1>2, <2>1, <2>2, <2>3 DEF Follow, GoneLeave, Leaving
<1> QED
  BY <1>5, <1>6, <1>7, <1>8, <1>9, <1>10 DEF Follow

\* The calls that an event leads to, by its kind.
LEMMA Answers ==
  ASSUME NEW e \in EventRecords
  PROVE  LET w == Answer(e)
         IN  /\ e.kind = "start" =>
                  \/ /\ Labelled(e.id) /\ Exists(e.id) /\ w.id = e.id
                     /\ w.calls = <<"register", "started">>
                  \/ /\ ~Labelled(e.id) /\ Name[e.id] \in configOnly /\ w.id = Name[e.id]
                     /\ w.calls = <<"started">>
                  \/ /\ w = Quiescent /\ ~(Labelled(e.id) /\ Exists(e.id))
                     /\ (Labelled(e.id) \/ Name[e.id] \notin configOnly)
             /\ e.kind = "create" =>
                  \/ /\ Labelled(e.id) /\ Exists(e.id) /\ w.id = e.id /\ w.calls = <<"register">>
                     /\ w.flag = world[e.id]
                  \/ w = Quiescent
             /\ e.kind = "die" =>
                  /\ w.id = (IF Name[e.id] \in configOnly THEN Name[e.id] ELSE e.id)
                  /\ w.calls = <<"stopped">>
             /\ e.kind = "destroy" =>
                  \/ w.id = Name[e.id] /\ Name[e.id] \in configOnly /\ w.calls = <<"missing">>
                  \/ w.id = e.id /\ Name[e.id] \notin configOnly /\ w.calls = <<"remove">>
<1>1. CASE e.kind \in {"create", "start"}
  <2>1. Answer(e) = OnAppear(e.kind, e.id)
    BY <1>1 DEF Answer
  <2>2. CASE Labelled(e.id) /\ Exists(e.id)
    BY <1>1, <2>1, <2>2 DEF OnAppear
  <2>3. CASE ~(Labelled(e.id) /\ Exists(e.id))
    BY <1>1, <2>1, <2>3 DEF OnAppear
  <2> QED
    BY <2>2, <2>3
<1>2. CASE e.kind = "die"
  BY <1>2 DEF Answer, OnDie
<1>3. CASE e.kind = "destroy"
  BY <1>3 DEF Answer, OnDestroy, DestroyCall
<1> QED
  BY <1>1, <1>2, <1>3 DEF EventRecords

\* A target of the container or the service that an event decides about is served under
\* the ID that the watcher will use.
LEMMA AnswerDecides ==
  ASSUME Inv, Follow, NEW e \in EventRecords, ~Reloading,
         ~(Labelled(e.id) /\ Name[e.id] \in configOnly),
         NEW s \in Slots, targets[s] # None, Deciding(e, targets[s].id),
         e.kind = "start" => Up(targets[s].id)
  PROVE  Answer(e).id = targets[s].id /\ Answer(e).calls \in Deciders
<1>1. e.id \in Containers /\ targets[s].id \in {e.id, Name[e.id]} /\ e.kind \in {"start", "die"}
  BY DEF Deciding, EventRecords
<1>2. CASE targets[s].id = e.id
  <2>1. Labelled(e.id) /\ Name[e.id] \notin configOnly
    BY <1>1, <1>2 DEF Inv, RegistryInv, TargetsOK, Proper
  <2>2. e.kind = "start" => Exists(e.id)
    BY <1>1, <1>2, UpIs DEF Exists
  <2> QED
    BY <1>1, <1>2, <2>1, <2>2, Answers DEF Deciders
<1>3. CASE targets[s].id = Name[e.id] /\ targets[s].id # e.id
  <2>1. targets[s].id \in Names
    BY <1>1, <1>3, NoneIsNothing
  <2>2. \A g \in Goroutines : ~BeforeUpdate(g) /\ todo[g] = {}
    BY DEF Reloading, BeforeUpdate, Inv, ReloadsOK, Sound
  <2>3. Name[e.id] \in configOnly
    BY <1>3, <2>1, <2>2 DEF Follow, ServicesWatched, RemoveQueued
  <2> QED
    BY <1>1, <1>3, <2>3, Answers DEF Deciders
<1> QED
  BY <1>1, <1>2, <1>3

\* The watcher takes an event when nothing reloads.
LEMMA ReceiveFollows ==
  ASSUME Inv, Follow, ~disturbed, Receive, ~disturbed'
  PROVE  Follow'
<1> DEFINE e == Head(events)
           Later(id) == \E i \in 1..Len(events') : Deciding(events'[i], id)
<1>1. /\ watch' = Answer(e) /\ events' = Tail(events) /\ events # <<>> /\ watch = Quiescent
      /\ UNCHANGED <<world, configOnly, targets, flags, pc, merged, seen, todo>>
  BY DEF Receive, Answer, registry, reloads
<1>2. ~Reloading /\ ~(Labelled(e.id) /\ Name[e.id] \in configOnly)
  BY DEF Receive
<1>3. /\ e \in EventRecords /\ e = events[1] /\ e.id \in Containers /\ e.id \in IDs
      /\ Len(events) \in Nat /\ Len(events) >= 1 /\ Len(events') = Len(events) - 1
      /\ \A i \in 1..Len(events') : events'[i] = events[i + 1]
  BY <1>1, HeadEvent DEF Inv, EventRecords, IDs
<1>4. \A id : Pending(id) => Later(id) \/ Deciding(e, id)
  <2> SUFFICES ASSUME NEW id, Pending(id), ~Deciding(e, id) PROVE Later(id)
    OBVIOUS
  <2>1. PICK i \in 1..Len(events) : Deciding(events[i], id)
    BY DEF Pending
  <2>2. i # 1
    BY <1>3, <2>1
  <2>3. i - 1 \in 1..Len(events') /\ events'[i - 1] = events[i]
    BY <1>3, <2>2
  <2> QED
    BY <2>1, <2>3
<1>5. \A id \in {e.id, Name[e.id]} : ~Later(id) => (e.kind = "start") = Up(id)
  <2> SUFFICES ASSUME NEW id \in {e.id, Name[e.id]}, ~Later(id)
               PROVE  (e.kind = "start") = Up(id)
    OBVIOUS
  <2>1. ASSUME NEW j \in 2..Len(events) PROVE ~Deciding(events[j], id)
    <3>1. j - 1 \in 1..Len(events') /\ events'[j - 1] = events[j]
      BY <1>3
    <3> QED
      BY <3>1
  <2>2. 1 \in 1..Len(events) /\ events[1] = e
    BY <1>3
  <2> QED
    BY <2>1, <2>2 DEF Follow, EventsTell
<1>6. EventsTell'
  <2> SUFFICES ASSUME NEW i \in 1..Len(events'), NEW id \in {events'[i].id, Name[events'[i].id]},
                      \A j \in (i + 1)..Len(events') : ~Deciding(events'[j], id)
               PROVE  (events'[i].kind = "start") = Up(id)'
    BY DEF EventsTell, Deciding
  <2>1. i + 1 \in 1..Len(events) /\ events'[i] = events[i + 1]
    BY <1>3
  <2>2. ASSUME NEW j \in (i + 2)..Len(events) PROVE ~Deciding(events[j], id)
    <3>1. /\ j - 1 \in (i + 1)..Len(events') /\ j - 1 \in 1..Len(events')
          /\ events'[j - 1] = events[j]
      BY <1>3
    <3> QED
      BY <3>1
  <2>3. (events[i + 1].kind = "start") = Up(id)
    <3>1. \A j \in ((i + 1) + 1)..Len(events) : ~Deciding(events[j], id)
      BY <2>2
    <3> QED
      BY <2>1, <3>1 DEF Follow, EventsTell
  <2> QED
    BY <1>1, <2>1, <2>3 DEF Up
<1>7. WatchTells'
  <2> SUFFICES ASSUME watch' # Quiescent, ~Later(watch'.id)
               PROVE  /\ watch'.calls \in {<<"started">>, <<"register", "started">>} => Up(watch'.id)
                      /\ watch'.calls \in {<<"stopped">>, <<"missing">>} => ~Up(watch'.id)
                      /\ watch'.calls = <<"register">> => (watch'.flag = "up") = Up(watch'.id)
    BY <1>1 DEF WatchTells, Pending, Deciding, Up
  <2>1. watch'.id \in {e.id, Name[e.id]}
    BY <1>1, <1>3, Answers DEF EventRecords
  <2>2. (e.kind = "start") = Up(watch'.id)
    BY <1>5, <2>1
  <2>3. CASE e.kind = "start"
    <3>1. watch'.calls \in {<<"started">>, <<"register", "started">>}
      BY <1>1, <1>3, <2>3, Answers
    <3> QED
      BY <2>2, <2>3, <3>1, CallListsDiffer
  <2>4. CASE e.kind = "create"
    <3>1. watch'.calls = <<"register">> /\ watch'.id = e.id /\ watch'.flag = world[e.id]
      BY <1>1, <1>3, <2>4, Answers
    <3> QED
      BY <1>3, <3>1, CallListsDiffer, UpIs DEF Up
  <2>5. CASE e.kind \in {"die", "destroy"}
    <3>1. watch'.calls \in {<<"stopped">>, <<"missing">>, <<"remove">>}
      BY <1>1, <1>3, <2>5, Answers
    <3> QED
      BY <2>2, <2>5, <3>1, CallListsDiffer
  <2> QED
    BY <1>3, <2>3, <2>4, <2>5 DEF EventRecords
<1>8. FlagsTell'
  <2> SUFFICES ASSUME NEW s \in Slots, targets[s] # None, ~Later(targets[s].id),
                      ~(watch'.id = targets[s].id /\ watch'.calls \in Deciders)
               PROVE  (flags[s] = "up") = Up(targets[s].id)
    BY <1>1 DEF FlagsTell, Pending, Deciding, Decides, Up
  <2>1. CASE Pending(targets[s].id)
    <3>1. Deciding(e, targets[s].id)
      BY <1>4, <2>1
    <3>2. (e.kind = "start") = Up(targets[s].id)
      BY <1>5, <3>1 DEF Deciding
    <3> QED
      BY <1>1, <1>2, <1>3, <3>1, <3>2, AnswerDecides
  <2>2. CASE ~Pending(targets[s].id)
    BY <1>1, <2>2, QuietWatch DEF Follow, FlagsTell
  <2> QED
    BY <2>1, <2>2
<1>9. SeenTells' /\ TakeTurns'
  BY <1>1, <1>2 DEF SeenTells, TakeTurns, AtWork, Reloading
<1>10. ServicesWatched' /\ NamesSet'
  BY <1>1 DEF Follow, ServicesWatched, BeforeUpdate, RemoveQueued, NamesSet
<1>11. GoneLeave'
  <2> SUFFICES ASSUME NEW k \in Containers, Served(k)', ~Exists(k) PROVE Leaving(k)'
    BY <1>1 DEF GoneLeave, Exists
  <2>1. ~Wanted(k)'
    BY <1>1, <1>2 DEF Wanted, Reloading, Inv, ReloadsOK, Sound, AtWork
  <2>2. Registered(k)
    <3>1. CASE watch' # Quiescent /\ watch'.id = k /\ Head(watch'.calls) = "register"
      BY <1>1, <1>3, <3>1, AnswerType DEF Inv
    <3> QED
      BY <1>1, <2>1, <3>1 DEF Served, Registered
  <2>3. PICK i \in 1..Len(events) : events[i] = Event("destroy", k)
    BY <1>1, <2>2, QuietWatch DEF Follow, GoneLeave, Served, Leaving, DestroyQueued
  <2>4. CASE i = 1
    <3>1. e.kind = "destroy" /\ e.id = k
      BY <1>3, <2>3, <2>4 DEF Event
    <3>2. Labelled(k)
      BY <2>2 DEF Registered, Inv, RegistryInv, TargetsOK, Proper
    <3>3. Answer(e).id = k /\ Answer(e).calls = <<"remove">>
      BY <1>2, <1>3, <3>1, <3>2, Answers
    <3> QED
      BY <1>1, <3>3 DEF Leaving
  <2>5. CASE i # 1
    <3>1. i - 1 \in 1..Len(events') /\ events'[i - 1] = Event("destroy", k)
      BY <1>3, <2>3, <2>5
    <3> QED
      BY <3>1 DEF Leaving, DestroyQueued
  <2> QED
    BY <2>4, <2>5
<1> QED
  BY <1>6, <1>7, <1>8, <1>9, <1>10, <1>11 DEF Follow

\* The watcher's call sets the flags of its target to what is true, and no others.
LEMMA CallTells ==
  ASSUME Inv, Follow, Call,
         NEW s \in Slots, targets'[s] # None, ~Pending(targets'[s].id),
         ~(watch'.id = targets'[s].id /\ watch'.calls \in Deciders)
  PROVE  (flags'[s] = "up") = Up(targets'[s].id)
<1>1. WatchOK /\ watch # Quiescent
  BY DEF Inv, Call
<1>2. /\ targets \in [Slots -> Infos \cup {None}]
      /\ flags \in [Slots -> {"up", "down", "missing"}]
  BY DEF Inv, RegistryInv, TargetsOK
<1>3. ASSUME targets'[s] = targets[s], flags'[s] = flags[s], ~Decides(targets[s].id)
      PROVE  (flags'[s] = "up") = Up(targets'[s].id)
  BY <1>3 DEF Follow, FlagsTell
<1>4. CASE /\ watch.calls \in {<<"register">>, <<"register", "started">>}
           /\ watch.id \in Containers /\ Labelled(watch.id)
           /\ RegisterTarget(LabelInfo(watch.id), watch.flag)
  <2> DEFINE info == LabelInfo(watch.id)
  <2>1. info \in Infos /\ info.id = watch.id
    BY <1>4, LabelInfoProper
  <2>2. watch.calls = <<"register", "started">> => targets'[s].id # watch.id
    BY <1>1, <1>4, CallMoves DEF Deciders
  <2>3. ~Decides(targets'[s].id)
    BY <1>4, <2>2, CallListsDiffer DEF Decides
  <2>4. CASE Conflict(info)
    BY <1>3, <1>4, <2>3, <2>4 DEF RegisterTarget, registry
  <2>5. CASE ~Conflict(info) /\ s \in SlotsOf(info)
    <3>1. targets'[s] = info /\ flags'[s] = watch.flag
      BY <1>4, <2>1, <2>5, Registers DEF Inv, RegistryInv
    <3>2. watch.calls = <<"register">> /\ ~Pending(watch.id)
      BY <1>4, <2>1, <2>2, <3>1
    <3> QED
      BY <1>1, <2>1, <3>1, <3>2 DEF Follow, WatchTells
  <2>6. CASE ~Conflict(info) /\ s \notin SlotsOf(info)
    BY <1>3, <1>4, <2>1, <2>3, <2>6, Registers DEF Inv, RegistryInv
  <2> QED
    BY <2>4, <2>5, <2>6
<1>5. CASE watch.calls = <<"started">> /\ ContainerStarted(watch.id)
  <2>1. targets'[s] = targets[s] /\ (targets[s].id = watch.id => flags'[s] = "up")
        /\ (targets[s].id # watch.id => flags'[s] = flags[s])
    BY <1>2, <1>5 DEF ContainerStarted, SetFlags, SlotsWith
  <2>2. CASE targets[s].id = watch.id
    BY <1>1, <1>5, <2>1, <2>2 DEF Follow, WatchTells, Up
  <2>3. CASE targets[s].id # watch.id
    BY <1>3, <2>1, <2>3 DEF Decides
  <2> QED
    BY <2>2, <2>3
<1>6. CASE watch.calls = <<"stopped">> /\ ContainerStopped(watch.id)
  <2>1. targets'[s] = targets[s] /\ (targets[s].id = watch.id => flags'[s] # "up")
        /\ (targets[s].id # watch.id => flags'[s] = flags[s])
    BY <1>2, <1>6 DEF ContainerStopped, SetFlags, SlotsWith
  <2>2. CASE targets[s].id = watch.id
    BY <1>1, <1>6, <2>1, <2>2 DEF Follow, WatchTells, Up
  <2>3. CASE targets[s].id # watch.id
    BY <1>3, <2>1, <2>3 DEF Decides
  <2> QED
    BY <2>2, <2>3
<1>7. CASE watch.calls = <<"missing">> /\ ContainerRemoved(watch.id)
  <2>1. targets'[s] = targets[s] /\ flags'[s] \in {"missing", flags[s]}
        /\ (targets[s].id # watch.id => flags'[s] = flags[s])
    BY <1>2, <1>7 DEF ContainerRemoved, SetFlags, SlotsWith
  <2>2. ~Decides(targets[s].id)
    BY <1>7, CallListsDiffer DEF Decides
  <2>3. (flags[s] = "up") = Up(targets[s].id)
    BY <2>1, <2>2 DEF Follow, FlagsTell
  <2>4. CASE targets[s].id = watch.id
    <3>1. ~Up(targets[s].id)
      BY <1>1, <1>7, <2>1, <2>4 DEF Follow, WatchTells
    <3> QED
      BY <2>1, <2>3, <3>1 DEF Up
  <2>5. CASE targets[s].id # watch.id
    BY <2>1, <2>3, <2>5
  <2> QED
    BY <2>4, <2>5
<1>8. CASE watch.calls = <<"remove">> /\ RemoveTarget(watch.id)
  <2>1. targets'[s] = targets[s] /\ flags'[s] = flags[s]
    BY <1>8, WatcherCalls, Removes DEF Inv
  <2>2. ~Decides(targets[s].id)
    BY <1>8, CallListsDiffer DEF Decides
  <2> QED
    BY <1>3, <2>1, <2>2
<1> QED
  BY <1>4, <1>5, <1>6, <1>7, <1>8, WatcherCalls

\* A call registers what it is for, and a removal leaves nothing of it.
LEMMA CallServes ==
  ASSUME Inv, Call, NEW s \in Slots, targets'[s] # None
  PROVE  /\ \/ targets'[s] = targets[s]
            \/ targets'[s].id = watch.id /\ watch.id \in Containers /\ Head(watch.calls) = "register"
         /\ watch.calls = <<"remove">> => targets'[s].id # watch.id
<1>1. CASE /\ watch.calls \in {<<"register">>, <<"register", "started">>}
           /\ watch.id \in Containers /\ Labelled(watch.id)
           /\ RegisterTarget(LabelInfo(watch.id), watch.flag)
  <2>1. LabelInfo(watch.id) \in Infos /\ LabelInfo(watch.id).id = watch.id
    BY <1>1, LabelInfoProper
  <2>2. targets'[s] = targets[s] \/ targets'[s] = LabelInfo(watch.id)
    BY <1>1 DEF RegisterTarget, WriteSlots, registry
  <2>3. Head(watch.calls) = "register" /\ watch.calls # <<"remove">>
    BY <1>1, CallHeads, CallListsDiffer
  <2> QED
    BY <1>1, <2>1, <2>2, <2>3
<1>2. CASE /\ watch.calls \in {<<"started">>, <<"stopped">>, <<"missing">>}
           /\ ContainerStarted(watch.id) \/ ContainerStopped(watch.id) \/ ContainerRemoved(watch.id)
  <2>1. targets' = targets
    BY <1>2 DEF ContainerStarted, ContainerStopped, ContainerRemoved, SetFlags
  <2> QED
    BY <1>2, <2>1, CallListsDiffer
<1>3. CASE watch.calls = <<"remove">> /\ RemoveTarget(watch.id)
  BY <1>3, WatcherCalls, Removes DEF Inv
<1> QED
  BY <1>1, <1>2, <1>3, WatcherCalls

\* A step that leaves the containers and the queue alone.
LEMMA EventsStay ==
  ASSUME UNCHANGED <<world, events>>
  PROVE  /\ EventsTell => EventsTell'
         /\ \A id : (Pending(id)' <=> Pending(id)) /\ (Up(id)' = Up(id))
         /\ \A k \in Containers : /\ Exists(k)' <=> Exists(k)
                                 /\ DestroyQueued(k)' <=> DestroyQueued(k)
<1>1. \A id : Up(id)' = Up(id)
  BY DEF Up
<1>2. EventsTell => EventsTell'
  <2> SUFFICES ASSUME EventsTell, NEW i \in 1..Len(events),
                      NEW id \in {events[i].id, Name[events[i].id]},
                      \A j \in (i + 1)..Len(events) : ~Deciding(events[j], id)
               PROVE  (events[i].kind = "start") = Up(id)'
    BY DEF EventsTell, Deciding
  <2> QED
    BY <1>1 DEF EventsTell
<1> QED
  BY <1>1, <1>2 DEF Pending, Deciding, Exists, DestroyQueued

\* A step that leaves them and the watcher alone.
LEMMA GoneStays ==
  ASSUME GoneLeave, UNCHANGED <<world, events, watch>>,
         \A k \in Containers : Served(k)' => Served(k) \/ Exists(k)
  PROVE  GoneLeave'
<1> SUFFICES ASSUME NEW k \in Containers, Served(k)' PROVE Exists(k)' \/ Leaving(k)'
  BY DEF GoneLeave
<1>1. Exists(k) \/ Leaving(k)
  BY DEF GoneLeave
<1>2. Exists(k)' <=> Exists(k)
  BY DEF Exists
<1>3. Leaving(k)' <=> Leaving(k)
  BY DEF Leaving, DestroyQueued
<1> QED
  BY <1>1, <1>2, <1>3

LEMMA CallFollows ==
  ASSUME Inv, Follow, ~disturbed, Call, ~disturbed'
  PROVE  Follow'
<1>1. /\ UNCHANGED <<world, events, configOnly, pc, merged, seen, todo>>
      /\ ~Reloading /\ watch # Quiescent
  BY DEF Call, docker
<1>2. EventsTell'
  BY <1>1, EventsStay DEF Follow
<1>3. watch.calls # <<"register", "started">> => watch' = Quiescent
  BY CallMoves DEF Inv
<1>4. watch.calls = <<"register", "started">> => watch'.id = watch.id /\ watch'.calls = <<"started">>
  BY CallMoves DEF Inv
<1>5. WatchTells'
  <2>1. CASE watch.calls # <<"register", "started">>
    BY <1>3, <2>1 DEF WatchTells
  <2>2. CASE watch.calls = <<"register", "started">>
    BY <1>1, <1>4, <2>2, CallListsDiffer DEF Follow, WatchTells, Pending, Deciding, Up
  <2> QED
    BY <2>1, <2>2
<1>6. FlagsTell'
  <2> SUFFICES ASSUME NEW s \in Slots, targets'[s] # None, ~Pending(targets'[s].id),
                      ~(watch'.id = targets'[s].id /\ watch'.calls \in Deciders)
               PROVE  (flags'[s] = "up") = Up(targets'[s].id)
    BY <1>1 DEF FlagsTell, Decides, Pending, Deciding, Up
  <2> QED
    BY CallTells
<1>7. SeenTells' /\ TakeTurns' /\ NamesSet'
  BY <1>1 DEF SeenTells, TakeTurns, NamesSet, AtWork, Reloading
<1>8. ServicesWatched'
  <2> SUFFICES ASSUME NEW s \in Slots, targets'[s] # None, targets'[s].id \in Names
               PROVE  \/ targets'[s].id \in configOnly
                      \/ \E g \in Goroutines : BeforeUpdate(g) \/ RemoveQueued(g, targets'[s].id)
    BY <1>1 DEF ServicesWatched, BeforeUpdate, RemoveQueued
  <2>1. targets'[s] = targets[s]
    BY CallServes, NoneIsNothing
  <2> QED
    BY <2>1 DEF Follow, ServicesWatched
<1>9. GoneLeave'
  <2> SUFFICES ASSUME NEW k \in Containers, Served(k)', ~Exists(k) PROVE DestroyQueued(k)
    BY <1>1 DEF GoneLeave, Exists, Leaving, DestroyQueued
  <2>1. ~Wanted(k)'
    BY <1>1 DEF Wanted, Reloading, Inv, ReloadsOK, Sound, AtWork
  <2>2. ~(watch' # Quiescent /\ watch'.id = k /\ Head(watch'.calls) = "register")
    BY <1>3, <1>4, CallHeads
  <2>3. PICK s \in Slots : targets'[s] # None /\ targets'[s].id = k
    BY <2>1, <2>2 DEF Served, Registered
  <2>4. Served(k) /\ ~(watch.id = k /\ watch.calls = <<"remove">>)
    BY <1>1, <2>3, CallServes DEF Served, Registered
  <2> QED
    BY <2>4 DEF Follow, GoneLeave, Leaving
<1> QED
  BY <1>2, <1>5, <1>6, <1>7, <1>8, <1>9 DEF Follow

\* A step that changes nothing of this, but for requests.
LEMMA FollowStays ==
  ASSUME Follow, UNCHANGED <<world, events, watch, configOnly, targets, flags, merged, seen, todo>>,
         \A g \in Goroutines :
           pc'[g] = pc[g] \/ (pc[g] \in {"idle", "discover"} /\ pc'[g] \in {"idle", "discover"})
  PROVE  Follow'
<1>1. \A g \in Goroutines : /\ AtWork(g)' <=> AtWork(g)
                            /\ BeforeUpdate(g)' <=> BeforeUpdate(g)
                            /\ pc'[g] \in {"compare", "update"} <=> pc[g] \in {"compare", "update"}
  BY DEF AtWork, BeforeUpdate
<1>2. EventsTell' /\ WatchTells' /\ FlagsTell'
  BY EventsStay DEF Follow, WatchTells, FlagsTell, Decides
<1>3. SeenTells'
  BY <1>1, EventsStay DEF Follow, SeenTells
<1>4. TakeTurns' /\ ServicesWatched' /\ NamesSet'
  BY <1>1 DEF Follow, TakeTurns, ServicesWatched, RemoveQueued, NamesSet
<1>5. GoneLeave'
  BY DEF Follow, GoneLeave, Served, Registered, Wanted, Exists, Leaving, DestroyQueued
<1> QED
  BY <1>2, <1>3, <1>4, <1>5 DEF Follow

\* Steps of the stream, and requests.
LEMMA QuietFollows ==
  ASSUME Inv, Follow, ~disturbed, ~disturbed',
         \/ StreamBreaks \/ Listen \/ \E g \in Goroutines : Request(g) \/ DiscoverFailed(g)
  PROVE  Follow'
<1>1. UNCHANGED <<world, events, watch, configOnly, targets, flags, merged, seen, todo>>
  BY DEF StreamBreaks, Listen, Request, DiscoverFailed, registry, reloads, docker
<1>2. \A g \in Goroutines :
        pc'[g] = pc[g] \/ (pc[g] \in {"idle", "discover"} /\ pc'[g] \in {"idle", "discover"})
  BY DEF StreamBreaks, Listen, Request, DiscoverFailed, Goto, reloads, Inv, ReloadsOK, ReloadTypes
<1> QED
  BY <1>1, <1>2, FollowStays

\* A discovery alone sees what is.
LEMMA DiscoverFollows ==
  ASSUME Inv, Follow, ~disturbed, NEW g \in Goroutines, Discover(g), ~disturbed'
  PROVE  Follow'
<1>1. /\ pc' = [pc EXCEPT ![g] = "merge"] /\ merged' = [merged EXCEPT ![g] = Found]
      /\ seen' = [seen EXCEPT ![g] =
           [id \in IDs |-> IF id \in Containers /\ Labelled(id) /\ world[id] = "up"
                            THEN "up" ELSE "down"]]
      /\ UNCHANGED <<world, events, watch, configOnly, targets, flags, todo>>
  BY DEF Discover, Goto, Found, docker, registry
<1>2. watch = Quiescent /\ \A h \in Goroutines \ {g} : ~AtWork(h)
  BY DEF Discover, AtWork
<1>3. /\ pc'[g] = "merge" /\ merged'[g] = Found
      /\ seen'[g] = [id \in IDs |-> IF id \in Containers /\ Labelled(id) /\ world[id] = "up"
                                     THEN "up" ELSE "down"]
      /\ \A h \in Goroutines \ {g} : pc'[h] = pc[h] /\ merged'[h] = merged[h]
  BY <1>1 DEF Inv, ReloadsOK, ReloadTypes
<1>4. \A h \in Goroutines : AtWork(h)' <=> h = g
  BY <1>2, <1>3 DEF AtWork
<1>5. EventsTell' /\ WatchTells' /\ FlagsTell'
  BY <1>1, EventsStay DEF Follow, WatchTells, FlagsTell, Decides
<1>6. SeenTells'
  <2> SUFFICES ASSUME NEW t \in Found PROVE (seen'[g][t.id] = "up") = Up(t.id)
    BY <1>1, <1>3, <1>4, EventsStay DEF SeenTells
  <2>1. t.id \in Containers /\ t.id \in IDs /\ Labelled(t.id)
    BY FoundProper DEF Proper, IDs
  <2> QED
    BY <1>3, <2>1, UpIs DEF Up
<1>7. TakeTurns'
  BY <1>1, <1>2, <1>4 DEF TakeTurns
<1>8. ServicesWatched'
  BY <1>3 DEF ServicesWatched, BeforeUpdate
<1>9. NamesSet'
  BY <1>2, <1>3 DEF NamesSet, AtWork
<1>10. GoneLeave'
  <2>1. \A k \in Containers : Served(k)' => Served(k) \/ Exists(k)
    BY <1>1, <1>3, FoundProper DEF Served, Registered, Wanted
  <2> QED
    BY <1>1, <2>1, GoneStays DEF Follow
<1> QED
  BY <1>5, <1>6, <1>7, <1>8, <1>9, <1>10 DEF Follow

\* A service is looked for by its name.
LEMMA InspectTells ==
  ASSUME Inv, NEW n \in Names
  PROVE  (InspectName(n) = "up") = Up(n)
<1>1. CASE \E k \in Containers : Name[k] = n /\ world[k] = "up"
  <2>1. ~\E k \in Containers : Name[k] = n /\ world[k] = "down"
    BY <1>1 DEF Inv, DockerOK, Exists
  <2>2. InspectName(n) = "up"
    BY <1>1, <2>1 DEF InspectName
  <2> QED
    BY <1>1, <2>2 DEF Up
<1>2. CASE ~\E k \in Containers : Name[k] = n /\ world[k] = "up"
  <2>1. InspectName(n) # "up"
    BY <1>2 DEF InspectName
  <2> QED
    BY <1>2, <2>1, UpIs DEF Up
<1> QED
  BY <1>1, <1>2

LEMMA MergeFollows ==
  ASSUME Inv, Follow, ~disturbed, NEW g \in Goroutines, Merge(g), ~disturbed'
  PROVE  Follow'
<1> DEFINE all == Overlay(merged[g])
<1>1. /\ pc[g] = "merge" /\ pc' = [pc EXCEPT ![g] = "names"]
      /\ merged' = [merged EXCEPT ![g] = all]
      /\ seen' = [seen EXCEPT ![g] =
           [id \in IDs |-> IF id \in {t.id : t \in all} \cap Names
                            THEN InspectName(id) ELSE @[id]]]
      /\ UNCHANGED <<world, events, watch, configOnly, targets, flags, todo>>
  BY DEF Merge, Goto, docker, registry, Inv, ReloadsOK, ReloadTypes
<1>2. watch = Quiescent /\ \A h \in Goroutines : AtWork(h) <=> h = g
  BY <1>1 DEF Follow, TakeTurns, AtWork
<1>3. /\ pc'[g] = "names" /\ merged'[g] = all
      /\ \A id \in IDs : seen'[g][id] = IF id \in {t.id : t \in all} \cap Names
                                        THEN InspectName(id) ELSE seen[g][id]
      /\ \A h \in Goroutines \ {g} : pc'[h] = pc[h] /\ merged'[h] = merged[h]
  BY <1>1 DEF Inv, ReloadsOK, ReloadTypes
<1>4. \A h \in Goroutines : AtWork(h)' <=> h = g
  BY <1>2, <1>3 DEF AtWork
<1>5. /\ \A t \in all : t \in Infos
      /\ \A t \in all : t.id \in Containers => \E u \in merged[g] : u.id = t.id
  BY <1>1, OverlayProper DEF Inv, ReloadsOK, ReloadTypes, Sound
<1>6. EventsTell' /\ WatchTells' /\ FlagsTell'
  BY <1>1, EventsStay DEF Follow, WatchTells, FlagsTell, Decides
<1>7. SeenTells'
  <2> SUFFICES ASSUME NEW t \in all, ~Pending(t.id)' PROVE (seen'[g][t.id] = "up") = Up(t.id)'
    BY <1>3, <1>4 DEF SeenTells
  <2>0. ~Pending(t.id) /\ Up(t.id)' = Up(t.id)
    BY <1>1, EventsStay
  <2> SUFFICES (seen'[g][t.id] = "up") = Up(t.id)
    BY <2>0
  <2>1. t.id \in IDs
    BY <1>5 DEF Infos
  <2>2. CASE t.id \in Names
    BY <1>3, <2>1, <2>2, InspectTells
  <2>3. CASE t.id \in Containers
    <3>1. seen'[g][t.id] = seen[g][t.id]
      BY <1>3, <2>1, <2>3, NoneIsNothing
    <3> QED
      BY <1>2, <1>5, <2>0, <2>3, <3>1 DEF Follow, SeenTells
  <2> QED
    BY <2>1, <2>2, <2>3 DEF IDs
<1>8. TakeTurns'
  BY <1>1, <1>2, <1>4 DEF TakeTurns
<1>9. ServicesWatched'
  BY <1>3 DEF ServicesWatched, BeforeUpdate
<1>10. NamesSet'
  BY <1>2, <1>3 DEF NamesSet, AtWork
<1>11. GoneLeave'
  <2>1. \A k \in Containers : Served(k)' => Served(k)
    BY <1>1, <1>3, <1>5 DEF Served, Registered, Wanted
  <2> QED
    BY <1>1, <2>1, GoneStays DEF Follow
<1> QED
  BY <1>6, <1>7, <1>8, <1>9, <1>10, <1>11 DEF Follow

\* The names of the services to come are watched before those to go are removed.
LEMMA NamesFollows ==
  ASSUME Inv, Follow, ~disturbed, NEW g \in Goroutines, SetConfigOnlyNames(g), ~disturbed'
  PROVE  Follow'
<1>1. /\ pc[g] = "names" /\ pc' = [pc EXCEPT ![g] = "compare"]
      /\ configOnly' = {t.id : t \in merged[g]} \cap Names
      /\ UNCHANGED <<world, events, watch, targets, flags, merged, seen, todo>>
  BY DEF SetConfigOnlyNames, Goto, docker, registry
<1>2. watch = Quiescent /\ \A h \in Goroutines : AtWork(h) <=> h = g
  BY <1>1 DEF Follow, TakeTurns, AtWork
<1>3. pc'[g] = "compare" /\ \A h \in Goroutines \ {g} : pc'[h] = pc[h]
  BY <1>1 DEF Inv, ReloadsOK, ReloadTypes
<1>4. \A h \in Goroutines : AtWork(h)' <=> h = g
  BY <1>2, <1>3 DEF AtWork
<1>5. EventsTell' /\ WatchTells' /\ FlagsTell'
  BY <1>1, EventsStay DEF Follow, WatchTells, FlagsTell, Decides
<1>6. SeenTells' /\ TakeTurns'
  BY <1>1, <1>2, <1>4, EventsStay DEF Follow, SeenTells, TakeTurns
<1>7. ServicesWatched'
  BY <1>3 DEF ServicesWatched, BeforeUpdate
<1>8. NamesSet'
  BY <1>1, <1>2, <1>3 DEF NamesSet, AtWork
<1>9. GoneLeave'
  <2>1. \A k \in Containers : Served(k)' => Served(k)
    BY <1>1 DEF Served, Registered, Wanted
  <2> QED
    BY <1>1, <2>1, GoneStays DEF Follow
<1> QED
  BY <1>5, <1>6, <1>7, <1>8, <1>9 DEF Follow

\* Services that are not wanted any more have their removal queued.
LEMMA CompareFollows ==
  ASSUME Inv, Follow, ~disturbed, NEW g \in Goroutines, Compare(g), ~disturbed'
  PROVE  Follow'
<1>1. /\ pc[g] = "compare" /\ pc' = [pc EXCEPT ![g] = "update"]
      /\ todo' = [todo EXCEPT ![g] = todo'[g]]
      /\ UNCHANGED <<world, events, watch, configOnly, targets, flags, merged, seen>>
  BY Compares DEF docker, registry
<1>2. watch = Quiescent /\ \A h \in Goroutines : AtWork(h) <=> h = g
  BY <1>1 DEF Follow, TakeTurns, AtWork
<1>3. pc'[g] = "update" /\ \A h \in Goroutines \ {g} : pc'[h] = pc[h]
  BY <1>1 DEF Inv, ReloadsOK, ReloadTypes
<1>4. \A h \in Goroutines : AtWork(h)' <=> h = g
  BY <1>2, <1>3 DEF AtWork
<1>5. EventsTell' /\ WatchTells' /\ FlagsTell'
  BY <1>1, EventsStay DEF Follow, WatchTells, FlagsTell, Decides
<1>6. SeenTells' /\ TakeTurns'
  BY <1>1, <1>2, <1>4, EventsStay DEF Follow, SeenTells, TakeTurns
<1>7. ServicesWatched'
  <2> SUFFICES ASSUME NEW s \in Slots, targets[s] # None, targets[s].id \in Names
               PROVE  \/ targets[s].id \in configOnly
                      \/ \E c \in todo'[g] : c.op = "remove" /\ c.info.id = targets[s].id
    BY <1>1 DEF ServicesWatched, RemoveQueued
  <2>1. CASE \E t \in merged[g] : t.id = targets[s].id
    BY <1>1, <2>1 DEF Follow, NamesSet
  <2>2. CASE \A t \in merged[g] : t.id # targets[s].id
    BY <2>2, Compares
  <2> QED
    BY <2>1, <2>2
<1>8. NamesSet'
  BY <1>1, <1>2, <1>3 DEF Follow, NamesSet, AtWork
<1>9. GoneLeave'
  <2>1. \A k \in Containers : Served(k)' => Served(k)
    BY <1>1 DEF Served, Registered, Wanted
  <2> QED
    BY <1>1, <2>1, GoneStays DEF Follow
<1> QED
  BY <1>5, <1>6, <1>7, <1>8, <1>9 DEF Follow

\* What an update's call leaves in a slot was there, or is merged and flagged as it was seen;
\* and the removals of what is still there are still queued.
LEMMA UpdateLeaves ==
  ASSUME Inv, NEW g \in Goroutines, UpdateCall(g), NEW s \in Slots, targets'[s] # None
  PROVE  /\ \/ targets'[s] = targets[s] /\ flags'[s] = flags[s]
            \/ \E u \in merged[g] : targets'[s] = u /\ flags'[s] = seen[g][u.id]
         /\ \A c \in todo[g] : c.op = "remove" /\ c.info.id = targets'[s].id => c \in todo'[g]
<1> DEFINE Kept == targets'[s] = targets[s] /\ flags'[s] = flags[s]
<1>1. ASSUME NEW u \in merged[g], RegisterTarget(u, seen[g][u.id])
      PROVE  Kept \/ (targets'[s] = u /\ flags'[s] = seen[g][u.id])
  <2>1. CASE Conflict(u)
    BY <1>1, <2>1 DEF RegisterTarget, registry
  <2>2. CASE ~Conflict(u)
    BY <1>1, <2>2, MergedFit, Registers DEF Inv, RegistryInv
  <2> QED
    BY <2>1, <2>2
<1>2. ASSUME NEW id \in IDs, RemoveTarget(id) PROVE Kept /\ targets'[s].id # id
  BY <1>2, Removes DEF Inv
<1>3. CASE \E c \in todo[g] : /\ c.op = "remove" /\ RemoveTarget(c.info.id)
                              /\ c.info.id \in IDs
                              /\ todo' = [todo EXCEPT ![g] = @ \ {c}]
  <2>1. PICK c \in todo[g] : /\ RemoveTarget(c.info.id) /\ c.info.id \in IDs
                             /\ todo' = [todo EXCEPT ![g] = @ \ {c}]
    BY <1>3
  <2>2. todo'[g] = todo[g] \ {c}
    BY <2>1 DEF Inv, ReloadsOK, ReloadTypes
  <2> QED
    BY <1>2, <2>1, <2>2
<1>4. CASE \E c \in todo[g] : /\ c.op = "add" /\ c.info \in merged[g]
                              /\ RegisterTarget(c.info, seen[g][c.info.id])
                              /\ todo' = [todo EXCEPT ![g] = @ \ {c}]
  <2>1. PICK c \in todo[g] : /\ c.op = "add" /\ c.info \in merged[g]
                             /\ RegisterTarget(c.info, seen[g][c.info.id])
                             /\ todo' = [todo EXCEPT ![g] = @ \ {c}]
    BY <1>4
  <2>2. todo'[g] = todo[g] \ {c}
    BY <2>1 DEF Inv, ReloadsOK, ReloadTypes
  <2> QED
    BY <1>1, <2>1, <2>2
<1>5. CASE \E c \in todo[g] : /\ c.op = "replace" /\ RemoveTarget(c.info.id)
                              /\ c.info.id \in IDs
                              /\ todo' = [todo EXCEPT ![g] = @ \ {c}]
  <2>1. PICK c \in todo[g] : /\ c.op = "replace" /\ RemoveTarget(c.info.id)
                             /\ c.info.id \in IDs
                             /\ todo' = [todo EXCEPT ![g] = @ \ {c}]
    BY <1>5
  <2>2. todo'[g] = todo[g] \ {c}
    BY <2>1 DEF Inv, ReloadsOK, ReloadTypes
  <2> QED
    BY <1>2, <2>1, <2>2
<1>6. CASE /\ UNCHANGED todo /\ replacing[g] \in merged[g]
           /\ RegisterTarget(replacing[g], seen[g][replacing[g].id])
  BY <1>1, <1>6
<1> QED
  BY <1>3, <1>4, <1>5, <1>6, Updates

\* An update that nothing races sets the flags to what it has seen.
LEMMA UpdateFollows ==
  ASSUME Inv, Follow, ~disturbed, NEW g \in Goroutines, UpdateCall(g), ~disturbed'
  PROVE  Follow'
<1>1. /\ pc[g] = "update" /\ UNCHANGED <<world, events, watch, configOnly, pc, merged, seen>>
  BY Updates DEF Touches, docker
<1>2. watch = Quiescent /\ AtWork(g)
  BY <1>1 DEF Follow, TakeTurns, AtWork
<1>3. \A h \in Goroutines \ {g} : todo'[h] = todo[h]
  BY Updates DEF Inv, ReloadsOK, ReloadTypes
<1>4. EventsTell' /\ WatchTells'
  BY <1>1, EventsStay DEF Follow, WatchTells
<1>5. FlagsTell'
  <2> SUFFICES ASSUME NEW s \in Slots, targets'[s] # None, ~Pending(targets'[s].id)
               PROVE  (flags'[s] = "up") = Up(targets'[s].id)
    BY <1>1 DEF FlagsTell, Pending, Deciding, Up
  <2>1. CASE targets'[s] = targets[s] /\ flags'[s] = flags[s]
    BY <1>2, <2>1, QuietWatch DEF Follow, FlagsTell
  <2>2. CASE \E u \in merged[g] : targets'[s] = u /\ flags'[s] = seen[g][u.id]
    BY <1>2, <2>2 DEF Follow, SeenTells
  <2> QED
    BY <2>1, <2>2, UpdateLeaves
<1>6. SeenTells' /\ TakeTurns' /\ NamesSet'
  BY <1>1, EventsStay DEF Follow, SeenTells, TakeTurns, AtWork, NamesSet
<1>7. ServicesWatched'
  <2> SUFFICES ASSUME NEW s \in Slots, targets'[s] # None, targets'[s].id \in Names
               PROVE  \/ targets'[s].id \in configOnly
                      \/ \E h \in Goroutines : BeforeUpdate(h)
                      \/ \E h \in Goroutines :
                           \E c \in todo'[h] : c.op = "remove" /\ c.info.id = targets'[s].id
    BY <1>1 DEF ServicesWatched, BeforeUpdate, RemoveQueued
  <2>1. CASE targets'[s] = targets[s]
    <3>1. \A h \in Goroutines : \A c \in todo[h] :
            c.op = "remove" /\ c.info.id = targets'[s].id => c \in todo'[h]
      BY <1>3, UpdateLeaves
    <3> QED
      BY <2>1, <3>1 DEF Follow, ServicesWatched, RemoveQueued
  <2>2. CASE targets'[s] \in merged[g]
    BY <1>1, <2>2 DEF Follow, NamesSet
  <2> QED
    BY <2>1, <2>2, UpdateLeaves
<1>8. GoneLeave'
  <2>1. \A k \in Containers : Served(k)' => Served(k)
    BY <1>1, UpdateLeaves DEF Served, Registered, Wanted
  <2> QED
    BY <1>1, <2>1, GoneStays DEF Follow
<1> QED
  BY <1>4, <1>5, <1>6, <1>7, <1>8 DEF Follow

LEMMA DoneFollows ==
  ASSUME Inv, Follow, ~disturbed, NEW g \in Goroutines, Done(g), ~disturbed'
  PROVE  Follow'
<1>1. /\ pc[g] = "update" /\ pc' = [pc EXCEPT ![g] = "idle"]
      /\ merged' = [merged EXCEPT ![g] = {}]
      /\ UNCHANGED <<world, events, watch, configOnly, targets, flags, todo>>
  BY DEF Done, Goto, docker, registry
<1>2. watch = Quiescent /\ \A h \in Goroutines : AtWork(h) <=> h = g
  BY <1>1 DEF Follow, TakeTurns, AtWork
<1>3. /\ pc'[g] = "idle" /\ merged'[g] = {}
      /\ \A h \in Goroutines \ {g} : pc'[h] = pc[h] /\ merged'[h] = merged[h]
  BY <1>1 DEF Inv, ReloadsOK, ReloadTypes
<1>4. \A h \in Goroutines : ~AtWork(h)'
  BY <1>2, <1>3 DEF AtWork
<1>5. EventsTell' /\ WatchTells' /\ FlagsTell'
  BY <1>1, EventsStay DEF Follow, WatchTells, FlagsTell, Decides
<1>6. SeenTells' /\ TakeTurns'
  BY <1>4 DEF SeenTells, TakeTurns
<1>7. ServicesWatched'
  <2>1. \A h \in Goroutines : BeforeUpdate(h) => BeforeUpdate(h)'
    BY <1>1, <1>3 DEF BeforeUpdate
  <2> QED
    BY <1>1, <2>1 DEF Follow, ServicesWatched, RemoveQueued
<1>8. NamesSet'
  BY <1>4 DEF NamesSet, AtWork
<1>9. GoneLeave'
  <2>1. \A k \in Containers : Served(k)' => Served(k)
    BY <1>1, <1>3 DEF Served, Registered, Wanted
  <2> QED
    BY <1>1, <2>1, GoneStays DEF Follow
<1> QED
  BY <1>5, <1>6, <1>7, <1>8, <1>9 DEF Follow

\* What has been disturbed stays so.
LEMMA Disturbs == Inv /\ [Next]_vars /\ ~disturbed' => ~disturbed
<1> SUFFICES ASSUME Inv, [Next]_vars, ~disturbed' PROVE ~disturbed
  OBVIOUS
<1>1. ASSUME NEW k \in Containers, Docker(k) PROVE ~disturbed
  BY <1>1 DEF Docker, Create, StartContainer, Die, Destroy, Change
<1>2. ASSUME NEW g \in Goroutines, UpdateCall(g) PROVE ~disturbed
  BY <1>2, Updates DEF Touches
<1>3. CASE UNCHANGED vars
  BY <1>3 DEF vars
<1> QED
  BY <1>1, <1>2, <1>3 DEF Next, Docker, UpdateCall, Receive, Call, StreamBreaks, Listen, Request,
     Discover, DiscoverFailed, Merge, SetConfigOnlyNames, Compare, Done

FollowInv == ~disturbed => Follow

\* As long as nothing disturbs, every step keeps what is told true.
LEMMA FollowNext == Inv /\ FollowInv /\ [Next]_vars => FollowInv'
<1> SUFFICES ASSUME Inv, Follow, ~disturbed, [Next]_vars, ~disturbed' PROVE Follow'
  BY Disturbs DEF FollowInv
<1>1. ASSUME NEW k \in Containers, Docker(k) PROVE Follow'
  BY <1>1, DockerFollows
<1>2. ASSUME Receive \/ Call PROVE Follow'
  BY <1>2, ReceiveFollows, CallFollows
<1>3. ASSUME \/ StreamBreaks \/ Listen \/ \E g \in Goroutines : Request(g) \/ DiscoverFailed(g)
      PROVE  Follow'
  BY <1>3, QuietFollows
<1>4. ASSUME NEW g \in Goroutines, \/ Discover(g) \/ Merge(g) \/ SetConfigOnlyNames(g) \/ Compare(g)
                                   \/ UpdateCall(g) \/ Done(g)
      PROVE  Follow'
  BY <1>4, DiscoverFollows, MergeFollows, NamesFollows, CompareFollows, UpdateFollows, DoneFollows
<1>5. CASE UNCHANGED vars
  BY <1>5, FollowStays DEF vars
<1> QED
  BY <1>1, <1>2, <1>3, <1>4, <1>5 DEF Next, Docker, UpdateCall

LEMMA FollowCorrect == Spec => []FollowInv
<1>1. Init => FollowInv
  <2> SUFFICES ASSUME Init PROVE Follow
    BY DEF FollowInv
  <2>1. events = <<>> /\ watch = Quiescent /\ \A s \in Slots : targets[s] = None
    BY DEF Init, Nothing
  <2>2. \A g \in Goroutines : ~AtWork(g) /\ merged[g] = {}
    BY DEF Init, AtWork
  <2>3. EventsTell /\ WatchTells /\ FlagsTell
    BY <2>1 DEF EventsTell, WatchTells, FlagsTell
  <2>4. SeenTells /\ TakeTurns /\ ServicesWatched /\ NamesSet
    BY <2>1, <2>2 DEF SeenTells, TakeTurns, ServicesWatched, NamesSet, AtWork
  <2>5. GoneLeave
    BY <2>1, <2>2 DEF GoneLeave, Served, Registered, Wanted
  <2> QED
    BY <2>3, <2>4, <2>5 DEF Follow
<1> QED
  BY <1>1, FollowNext, InvCorrect, PTL DEF Spec

\* When all has been told and nothing was lost, misdirected or raced, the flags agree with
\* the daemon.
THEOREM FlagsFollowCorrect == Spec => []FlagsFollow
<1>1. FollowInv => FlagsFollow
  <2> SUFFICES ASSUME Follow, Settled, NEW s \in Slots, targets[s] # None
               PROVE  (flags[s] = "up") = Up(targets[s].id)
    BY DEF FollowInv, FlagsFollow
  <2>1. ~Pending(targets[s].id)
    BY DEF Settled, Pending
  <2>2. ~Decides(targets[s].id)
    BY QuietWatch DEF Settled
  <2> QED
    BY <2>1, <2>2 DEF Follow, FlagsTell
<1> QED
  BY <1>1, FollowCorrect, PTL

\* Under the same conditions nothing is served for a container that was removed.
THEOREM ForgottenCorrect == Spec => []Forgotten
<1>1. FollowInv => Forgotten
  <2> SUFFICES ASSUME Follow, Settled, NEW k \in Containers, Registered(k) PROVE Exists(k)
    BY DEF FollowInv, Forgotten
  <2>1. ~Leaving(k)
    BY QuietWatch DEF Settled, Leaving, DestroyQueued
  <2> QED
    BY <2>1 DEF Follow, GoneLeave, Served
<1> QED
  BY <1>1, FollowCorrect, PTL

=============================================================================
