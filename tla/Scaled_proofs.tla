--------------------------- MODULE Scaled_proofs ---------------------------
(* Theorems about Scaled, for any counts, connections and bounds. *)
EXTENDS Scaled, SequenceTheorems, TLAPS

EventKinds == {"create", "update", "gone", "ready", "unready"}

\* What a call that is about to write knows: the target was there, and has asked
\* for nothing since unless its version has changed.
PutSound ==
  /\ starter = "put" => life # "before"
  /\ starter = "put" /\ "starter" \notin stale => replicas = 0

\* The flags of the target, with the part of TypeOK that links them.
Flags == known \in BOOLEAN /\ running \in BOOLEAN /\ (running => known)

Inv == TypeOK /\ PutSound

-----------------------------------------------------------------------------
(* The stream *)

\* An event of a known kind keeps the stream's type.
LEMMA EmitType ==
  ASSUME NEW event \in EventKinds, events \in Seq(EventKinds), Emit(event)
  PROVE  events' \in Seq(EventKinds)
<1>1. Append(events, event) \in Seq(EventKinds)
  BY AppendProperties
<1> QED
  BY <1>1 DEF Emit

\* So does the receipt of the event at its head.
LEMMA ReceivedType ==
  ASSUME NEW event, events \in Seq(EventKinds), Received(event)
  PROVE  events' \in Seq(EventKinds)
BY HeadTailProperties DEF Received

\* A snapshot and the event of a write are of a known kind.
LEMMA EventsKnown ==
  /\ \A isReady \in BOOLEAN : Snapshot(isReady) \in EventKinds
  /\ ready \in BOOLEAN =>
       (IF backend = "swarm" THEN "update" ELSE Snapshot(ready)) \in EventKinds
BY DEF Snapshot, EventKinds

\* A stream that is opened begins with a snapshot, or with nothing.
LEMMA RelistType == ready \in BOOLEAN => Relist \in Seq(EventKinds)
<1> SUFFICES ASSUME ready \in BOOLEAN PROVE Relist \in Seq(EventKinds)
  OBVIOUS
<1>1. Snapshot(ready) \in EventKinds
  BY EventsKnown
<1>2. <<>> \in Seq(EventKinds) /\ <<Snapshot(ready)>> \in Seq(EventKinds)
  BY <1>1
<1> QED
  BY <1>2 DEF Relist

-----------------------------------------------------------------------------
(* The invariant *)

\* The discovery has registered what there is.
LEMMA InitInv == Init => Inv
<1> SUFFICES ASSUME Init PROVE Inv
  OBVIOUS
<1>1. events = <<>> /\ events \in Seq(EventKinds)
  BY DEF Init
<1>2. Flags /\ ready \in BOOLEAN /\ held \in BOOLEAN
  <2>1. replicas > 0 => life = "live"
    BY DEF Init
  <2> QED
    BY <2>1, Zenon DEF Init, Flags
<1>2a. TypeOK
  <2>1. /\ backend \in Backends /\ life \in {"before", "live", "gone"}
        /\ replicas \in Counts \cup {1, Scale}
    BY CountsAssumption DEF Init
  <2>2. /\ link \in {"open", "broken", "ended"} /\ lastActive \in {"fresh", "expired"}
        /\ pc \in [Conns -> {"none", "ensuring", "started", "dialing", "proxying"}]
        /\ \A k \in Conns : pc[k] = "ensuring" => starter # "none"
    BY DEF Init
  <2>3. /\ starter \in {"none", "get", "put", "ok", "failed"}
        /\ chk \in {"sleep", "get", "put", "mark"}
        /\ stale \subseteq {"starter", "checker"} /\ changes \in 0..MaxChanges
    BY BoundsAssumption DEF Init
  <2> QED
    BY <1>1, <1>2, <2>1, <2>2, <2>3, Zenon DEF TypeOK, Flags, EventKinds
<1>3. PutSound
  BY DEF Init, PutSound
<1> QED
  BY <1>2a, <1>3 DEF Inv

\* What users and tasks do changes the version, or the target was not there.
LEMMA ClusterInv == Inv /\ Cluster => Inv'
<1> SUFFICES ASSUME Inv, Cluster PROVE Inv'
  OBVIOUS
<1> USE DEF Inv, TypeOK, PutSound
<1>e. events \in Seq(EventKinds)
  BY DEF EventKinds
<1>1. CASE UserRemoves
  <2>1. events' \in Seq(EventKinds)
    BY <1>e, <1>1, EmitType DEF UserRemoves, EventKinds
  <2>2. ready' \in BOOLEAN
    BY <1>1, Zenon DEF UserRemoves
  <2>3. /\ life' = "gone" /\ replicas' = 0 /\ stale' = {"starter", "checker"}
        /\ changes < MaxChanges /\ changes' = changes + 1
        /\ UNCHANGED <<backend, link, held, targetVars, pc, starter, chk>>
    BY <1>1, Zenon DEF UserRemoves, UserAct, NewVersion
  <2> QED
    BY <2>1, <2>2, <2>3, CountsAssumption, BoundsAssumption DEF targetVars, EventKinds
<1>2. ASSUME NEW isReady \in BOOLEAN, StatusIs(isReady)
      PROVE  /\ events' \in Seq(EventKinds) /\ ready' = isReady
             /\ stale' \in {stale, {"starter", "checker"}}
  <2>1. Snapshot(isReady) \in EventKinds
    BY EventsKnown
  <2> QED
    BY <1>2, <2>1, <1>e, EmitType DEF StatusIs, NewVersion
<1>3. CASE TasksStart \/ TasksStop \/ TasksCrash
  <2>1. PICK isReady \in BOOLEAN : StatusIs(isReady)
    BY <1>3 DEF TasksStart, TasksStop, TasksCrash
  <2>2. /\ events' \in Seq(EventKinds) /\ ready' \in BOOLEAN
        /\ stale' \in {stale, {"starter", "checker"}}
    BY <2>1, <1>2
  <2>3. changes' \in 0..MaxChanges
    <3>1. changes' = changes \/ (changes < MaxChanges /\ changes' = changes + 1)
      BY <1>3, Zenon DEF TasksStart, TasksStop, TasksCrash, UserAct
    <3>2. changes \in 0..MaxChanges
      OBVIOUS
    <3> QED
      BY <3>1, <3>2, BoundsAssumption
  <2>4. UNCHANGED <<backend, life, replicas, link, held, targetVars, pc, starter, chk>>
    BY <1>3 DEF TasksStart, TasksStop, TasksCrash
  <2> QED
    BY <2>2, <2>3, <2>4 DEF targetVars, EventKinds
<1>6. ASSUME NEW n \in Counts, UserScales(n)
      PROVE  Inv'
  <2>1. events' \in Seq(EventKinds)
    BY <1>6, <1>e, EventsKnown, EmitType DEF UserScales, Write
  <2> QED
    BY <1>6, <2>1, BoundsAssumption
    DEF UserScales, UserAct, Write, NewVersion, targetVars, EventKinds
<1>7. ASSUME NEW n \in Counts, UserCreates(n)
      PROVE  Inv'
  <2>1. events' \in Seq(EventKinds)
    BY <1>7, <1>e, EmitType DEF UserCreates, EventKinds
  <2> QED
    BY <1>7, <2>1 DEF UserCreates, targetVars, callVars, EventKinds
<1> QED
  BY <1>1, <1>3, <1>6, <1>7 DEF Cluster

\* The watch writes the flag of a target that it registers, or that is stopped.
LEMMA StreamInv == Inv /\ (Link \/ Unlink \/ GiveUp \/ Watch) => Inv'
<1> SUFFICES ASSUME Inv, Link \/ Unlink \/ GiveUp \/ Watch PROVE Inv'
  OBVIOUS
<1>e. events \in Seq(EventKinds)
  BY DEF Inv, TypeOK, EventKinds
<1>f. Flags /\ held \in BOOLEAN
  BY DEF Inv, TypeOK, Flags
<1>1. CASE Link
  BY <1>1, RelistType DEF Inv, TypeOK, PutSound, Link, clusterVars, targetVars, callVars, EventKinds
<1>2. CASE Unlink
  BY <1>2 DEF Inv, TypeOK, PutSound, Unlink, clusterVars, targetVars, callVars
<1>3. CASE GiveUp
  BY <1>3 DEF Inv, TypeOK, PutSound, GiveUp, clusterVars, targetVars, callVars
<1>4. CASE SwarmStopped
  <2>1. Flags' /\ held' \in BOOLEAN
    BY <1>4, <1>f, Zenon DEF SwarmStopped, Flags
  <2>2. UNCHANGED <<clusterVars, link, events, lastActive, pc, callVars, changes>>
    BY <1>4 DEF SwarmStopped
  <2> QED
    BY <2>1, <2>2 DEF Inv, TypeOK, PutSound, Flags, clusterVars, callVars
<1>5. CASE SwarmCreate
  <2>1. events' \in Seq(EventKinds)
    BY <1>5, <1>e, ReceivedType DEF SwarmCreate
  <2>2. Flags'
    <3>1. CASE known' = TRUE /\ running' = FALSE
      BY <3>1, Zenon DEF Flags
    <3>2. CASE UNCHANGED <<known, running>>
      BY <3>2, <1>f DEF Flags
    <3> QED
      BY <1>5, <3>1, <3>2, Zenon DEF SwarmCreate
  <2>3. UNCHANGED <<clusterVars, link, held, lastActive, pc, callVars, changes>>
    BY <1>5, Zenon DEF SwarmCreate
  <2> QED
    BY <2>1, <2>2, <2>3 DEF Inv, TypeOK, PutSound, Flags, clusterVars, callVars, EventKinds
<1>6. CASE SwarmUpdate
  <2>1. events' \in Seq(EventKinds)
    BY <1>6, <1>e, ReceivedType DEF SwarmUpdate
  <2>2. held' \in BOOLEAN
    BY <1>6, Zenon DEF SwarmUpdate
  <2>3. UNCHANGED <<clusterVars, link, targetVars, pc, callVars, changes>>
    BY <1>6, Zenon DEF SwarmUpdate
  <2> QED
    BY <2>1, <2>2, <2>3 DEF Inv, TypeOK, PutSound, clusterVars, targetVars, callVars, EventKinds
<1>7. CASE TargetGone
  <2>1. events' \in Seq(EventKinds)
    BY <1>7, <1>e, ReceivedType DEF TargetGone
  <2>2. Flags'
    BY <1>7, <1>f, Zenon DEF TargetGone, Flags
  <2>3. UNCHANGED <<clusterVars, link, held, lastActive, pc, callVars, changes>>
    BY <1>7, Zenon DEF TargetGone
  <2> QED
    BY <2>1, <2>2, <2>3 DEF Inv, TypeOK, PutSound, Flags, clusterVars, callVars, EventKinds
<1>8. ASSUME NEW isReady \in BOOLEAN, DeploymentIs(isReady)
      PROVE  Inv'
  <2>1. events' \in Seq(EventKinds)
    BY <1>8, <1>e, ReceivedType DEF DeploymentIs
  <2> QED
    BY <1>8, <2>1 DEF Inv, TypeOK, PutSound, DeploymentIs, clusterVars, callVars, EventKinds
<1> QED
  BY <1>1, <1>2, <1>3, <1>4, <1>5, <1>6, <1>7, <1>8 DEF Watch

\* A start reads the count before it may write.
LEMMA StartCallInv == Inv /\ StartCall => Inv'
<1> SUFFICES ASSUME Inv, StartCall PROVE Inv'
  OBVIOUS
<1> USE DEF Inv, TypeOK, PutSound
<1>e. events \in Seq(EventKinds)
  BY DEF EventKinds
<1>1. CASE GetToStart
  <2>1. replicas \in Nat
    BY CountsAssumption, ScaleAssumption
  <2> QED
    BY <1>1, <2>1 DEF GetToStart, clusterVars, streamVars, targetVars
<1>2. CASE ScaleUp
  <2>1. Wanted \in Counts \cup {1, Scale}
    BY DEF Wanted
  <2>2. events' \in Seq(EventKinds)
    BY <1>2, <1>e, EventsKnown, EmitType DEF ScaleUp, Write
  <2> QED
    BY <1>2, <2>1, <2>2 DEF ScaleUp, Write, NewVersion, targetVars, EventKinds
<1>3. CASE StartReturns
  BY <1>3 DEF StartReturns, clusterVars, streamVars, targetVars
<1> QED
  BY <1>1, <1>2, <1>3 DEF StartCall

\* The checker's write makes the version of a start out of date.
LEMMA CheckerInv == Inv /\ Checker => Inv'
<1> SUFFICES ASSUME Inv, Checker PROVE Inv'
  OBVIOUS
<1> USE DEF Inv, TypeOK, PutSound
<1>e. events \in Seq(EventKinds)
  BY DEF EventKinds
<1>1. CASE CheckIdle
  BY <1>1 DEF CheckIdle, clusterVars, streamVars, targetVars
<1>2. CASE GetToStop
  BY <1>2 DEF GetToStop, AlreadyZero, clusterVars, streamVars, targetVars
<1>3. CASE ScaleDown
  <2>1. events' \in Seq(EventKinds)
    BY <1>3, <1>e, EventsKnown, EmitType DEF ScaleDown, Write
  <2> QED
    BY <1>3, <2>1, CountsAssumption DEF ScaleDown, Write, NewVersion, targetVars, EventKinds
<1>4. CASE StopFails
  BY <1>4 DEF StopFails, clusterVars, streamVars, targetVars
<1>5. CASE MarkStopped
  <2>1. Flags' /\ chk' = "sleep"
    BY <1>5, Zenon DEF MarkStopped, Flags
  <2>2. UNCHANGED <<clusterVars, streamVars, lastActive, pc, starter, stale, changes>>
    BY <1>5 DEF MarkStopped
  <2> QED
    BY <2>1, <2>2 DEF Flags, clusterVars, streamVars
<1> QED
  BY <1>1, <1>2, <1>3, <1>4, <1>5 DEF Checker

\* A connection only ever marks a target that is registered.
LEMMA ConnInv ==
  ASSUME NEW k \in Conns, Inv, Accept(k) \/ Handler(k) \/ CopyEnds(k)
  PROVE  Inv'
<1> USE DEF Inv, TypeOK, PutSound, Goto
<1>1. CASE Accept(k)
  BY <1>1 DEF Accept, clusterVars, streamVars, targetVars
<1>2. CASE MarkRunning(k)
  BY <1>2 DEF MarkRunning, clusterVars, streamVars, callVars
<1>3. CASE Dial(k)
  BY <1>3 DEF Dial, clusterVars, streamVars, targetVars, callVars
<1>4. CASE CopyEnds(k)
  BY <1>4 DEF CopyEnds, clusterVars, streamVars, callVars
<1> QED
  BY <1>1, <1>2, <1>3, <1>4 DEF Handler

\* Every step keeps the invariant.
LEMMA NextInv == Inv /\ [Next]_vars => Inv'
<1> SUFFICES ASSUME Inv, [Next]_vars PROVE Inv'
  OBVIOUS
<1>1. CASE IdleTimeout
  BY <1>1 DEF IdleTimeout, Inv, TypeOK, PutSound, clusterVars, streamVars, callVars
<1>2. CASE UNCHANGED vars
  BY <1>2 DEF vars, Inv, TypeOK, PutSound
<1> QED
  BY <1>1, <1>2, ClusterInv, StreamInv, StartCallInv, CheckerInv, ConnInv DEF Next

\* The invariant holds of every reachable state.
THEOREM InvCorrect == Spec => []Inv
<1> QED
  BY InitInv, NextInv, PTL DEF Spec

-----------------------------------------------------------------------------
(* The properties *)

\* A connection that waits always has a start to wait for, and a target that was
\* removed is never flagged running, whatever is lost or reordered.
THEOREM TypeCorrect == Spec => []TypeOK
<1>1. Inv => TypeOK
  BY DEF Inv
<1> QED
  BY <1>1, InvCorrect, PTL

\* Only a write makes a call that was about to write succeed, and the write goes
\* through only under the version that was read at zero.
LEMMA StartStep ==
  Inv /\ [Next]_vars => [starter = "put" /\ starter' = "ok" => replicas = 0]_vars
<1> SUFFICES ASSUME Inv, Next, starter = "put", starter' = "ok"
             PROVE  replicas = 0
  BY DEF vars
<1>1. CASE ScaleUp
  BY <1>1 DEF ScaleUp, Current, Inv, PutSound
<1>2. CASE Cluster
  BY <1>2 DEF Cluster, UserScales, UserCreates, UserRemoves, TasksStart, TasksStop,
    TasksCrash, callVars
<1>3. CASE Link \/ Unlink \/ GiveUp \/ Watch
  BY <1>3 DEF Link, Unlink, GiveUp, Watch, SwarmCreate, SwarmUpdate, SwarmStopped,
    TargetGone, DeploymentIs, callVars
<1>4. CASE GetToStart \/ StartReturns
  BY <1>4 DEF GetToStart, StartReturns
<1>5. CASE Checker
  BY <1>5 DEF Checker, CheckIdle, GetToStop, ScaleDown, StopFails, MarkStopped
<1>6. CASE IdleTimeout \/ \E k \in Conns : Accept(k) \/ Handler(k) \/ CopyEnds(k)
  BY <1>6 DEF IdleTimeout, Accept, Handler, MarkRunning, Dial, CopyEnds, callVars
<1> QED
  BY <1>1, <1>2, <1>3, <1>4, <1>5, <1>6 DEF Next, StartCall

\* The count that a user has asked for is never overwritten by a start.
THEOREM StartsFromZeroCorrect == Spec => StartsFromZero
<1> QED
  BY InvCorrect, StartStep, PTL DEF Spec, StartsFromZero
=============================================================================
