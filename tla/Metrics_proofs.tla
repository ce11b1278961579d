---------------------------- MODULE Metrics_proofs ----------------------------
(* Theorems about the two halves of internal/metrics: the accumulators and the *)
(* rollup (MetricsCollector), for any connections, callers, reloads, rollups   *)
(* and clock, and the flushes and the retry buffer (MetricsRetry), for any     *)
(* number of ports, ticks and failures.                                        *)
EXTENDS MetricsCollector, MetricsRetry, FiniteSetTheorems, SequenceTheorems, TLAPS

Acc == [n : [Counters -> Nat], active : Int, peak : Int, running : BOOLEAN,
        upAt : Int, uptime : Int]
Snapshot == [n : [Counters -> Nat], active : Int, peak : Int]

ConnLabels ==
  {"idle", "activate", "peak", "cas", "open", "fail", "end", "deactivate", "duration", "gone"}
RollLabels == {"idle", "started", "ended", "failed", "stops", "active", "peak", "lock"}

\* The type of the accumulators and of what is done to them.
AccsOK ==
  /\ accs \in [Accs -> Acc] /\ snap \in Snapshot
  /\ rpc = "lock" => snap.peak >= snap.active
  /\ uptimes \in [Accs -> Int] /\ worth \in [Accs -> Int]

\* The type of the rest.
PlacesOK ==
  /\ clock \in 0..MaxTime /\ used \in Accs /\ current \in 1..used \cup {None}
  /\ pc \in [Conns -> ConnLabels] /\ ref \in [Conns -> Accs \cup {None}]
  /\ new \in [Conns -> Int] /\ cur \in [Conns -> Int]
  /\ cpc \in [Callers -> {"idle", "running", "stopped"}]
  /\ cref \in [Callers -> Accs \cup {None}] /\ at \in [Callers -> 0..MaxTime]
  /\ rpc \in RollLabels /\ rref \in Accs \cup {None} /\ end \in 0..MaxTime
  /\ high \in Nat

\* A connection between get and its last update of the accumulator.
Busy == {"activate", "peak", "cas", "deactivate", "duration"}

\* Whoever is between get and an update has an accumulator that was made, and raises
\* the peak only to what is more than it has read.
RefsOK ==
  /\ current = None => used < MaxAccs
  /\ \A k \in Conns : pc[k] \in Busy => ref[k] \in 1..used
  /\ \A k \in Conns : pc[k] = "cas" => cur[k] < new[k]
  /\ \A g \in Callers : cpc[g] = "stopped" => cref[g] \in 1..used
  /\ rpc # "idle" => rref \in 1..used

Inv == AccsOK /\ PlacesOK /\ RefsOK

-----------------------------------------------------------------------------
(* Types *)

\* The greater of two integers.
LEMMA MaxOfTwo ==
  ASSUME NEW a \in Int, NEW b \in Int
  PROVE  Max({a, b}) \in {a, b} /\ Max({a, b}) >= a /\ Max({a, b}) >= b
<1>1. \E x \in {a, b} : \A y \in {a, b} : x >= y
  <2>1. CASE a >= b
    BY <2>1
  <2>2. CASE ~(a >= b)
    BY <2>2
  <2> QED
    BY <2>1, <2>2
<1> QED
  BY <1>1 DEF Max

\* The accumulators that have been made are among those there are.
LEMMA MadeAreAccs ==
  ASSUME used \in Accs
  PROVE  used \in Nat \ {0} /\ 1..used \subseteq Accs
BY BoundsAssumption DEF Accs

\* A counter of an accumulator goes up.
LEMMA AddType ==
  ASSUME accs \in [Accs -> Acc], NEW a \in Accs, NEW c \in Counters, Add(a, c)
  PROVE  /\ accs' \in [Accs -> Acc]
         /\ \A b \in Accs : /\ accs'[b].active = accs[b].active /\ accs'[b].peak = accs[b].peak
                            /\ accs'[b].running = accs[b].running
                            /\ accs'[b].upAt = accs[b].upAt /\ accs'[b].uptime = accs[b].uptime
<1>1. /\ accs[a] \in Acc /\ accs[a].n \in [Counters -> Nat]
      /\ [accs[a].n EXCEPT ![c] = @ + 1] \in [Counters -> Nat]
  BY DEF Acc
<1>2. accs' = [accs EXCEPT ![a].n = [accs[a].n EXCEPT ![c] = @ + 1]]
  BY DEF Add
<1> QED
  BY <1>1, <1>2 DEF Acc

\* One accumulator takes another value.
LEMMA AccChange ==
  ASSUME accs \in [Accs -> Acc], NEW a \in Accs, NEW acc \in Acc, accs' = [accs EXCEPT ![a] = acc]
  PROVE  /\ accs' \in [Accs -> Acc] /\ accs'[a] = acc
         /\ \A b \in Accs : b # a => accs'[b] = accs[b]
OBVIOUS

\* What the rollup leaves of an accumulator.
LEMMA EmittedType ==
  ASSUME NEW acc \in Acc, NEW n \in [Counters -> Nat], NEW t \in Int
  PROVE  [acc EXCEPT !.n = n, !.uptime = 0, !.upAt = t] \in Acc
<1>1. \A b \in Acc : [b EXCEPT !.n = n] \in Acc
  BY DEF Acc
<1>2. \A b \in Acc : [b EXCEPT !.uptime = 0] \in Acc
  BY DEF Acc
<1>3. \A b \in Acc : [b EXCEPT !.upAt = t] \in Acc
  BY DEF Acc
<1> QED
  BY <1>1, <1>2, <1>3

LEMMA InitInv == Init => Inv
<1> SUFFICES ASSUME Init PROVE Inv
  OBVIOUS
<1>1. Zero \in [Counters -> Nat]
  BY DEF Zero
<1>2. Fresh \in Acc /\ Blank \in Snapshot
  BY <1>1 DEF Fresh, Blank, Acc, Snapshot
<1>3. AccsOK
  BY <1>2 DEF Init, AccsOK
<1>4. PlacesOK
  BY BoundsAssumption DEF Init, PlacesOK, ConnLabels, RollLabels, Accs
<1>5. RefsOK
  BY NoneAssumption DEF Init, RefsOK, Busy
<1> QED
  BY <1>3, <1>4, <1>5 DEF Inv

\* The clock and the map of accumulators.
LEMMA MapInv ==
  ASSUME Inv, Advance \/ UnregisterPort \/ RegisterPort
  PROVE  Inv'
<1>1. /\ UNCHANGED <<accs, connVars, callerVars, rollVars, history>>
  BY DEF Advance, UnregisterPort, RegisterPort
<1>2. AccsOK'
  BY <1>1 DEF Inv, AccsOK, rollVars, history
<1>3. /\ clock' \in 0..MaxTime /\ used' \in Accs /\ current' \in 1..used' \cup {None}
      /\ used <= used' /\ (current' = None => used' < MaxAccs)
  <2>1. used \in Nat \ {0} /\ MaxAccs \in Nat
    BY BoundsAssumption, MadeAreAccs DEF Inv, PlacesOK
  <2>2. CASE Advance
    BY <2>2, <2>1, BoundsAssumption DEF Advance, Inv, PlacesOK, RefsOK
  <2>3. CASE UnregisterPort
    BY <2>3, <2>1 DEF UnregisterPort, Inv, PlacesOK, RefsOK
  <2>4. CASE RegisterPort
    BY <2>4, <2>1, NoneAssumption DEF RegisterPort, Inv, PlacesOK, RefsOK, Accs
  <2> QED
    BY <2>2, <2>3, <2>4
<1>4. PlacesOK'
  BY <1>1, <1>3 DEF Inv, PlacesOK, connVars, callerVars, rollVars, history
<1>5. \A a \in 1..used : a \in 1..used'
  BY <1>3, MadeAreAccs, BoundsAssumption DEF Inv, PlacesOK, Accs
<1>6. RefsOK'
  BY <1>1, <1>3, <1>5 DEF Inv, RefsOK, connVars, callerVars, rollVars
<1> QED
  BY <1>2, <1>4, <1>6 DEF Inv

\* get and a counter.
LEMMA CountInv ==
  ASSUME Inv, NEW k \in Conns,
         \/ ConnectionStarted(k) \/ ConnectionEnded(k) \/ CountFailed(k) \/ AddDuration(k)
  PROVE  /\ Inv'
         /\ \A b \in Accs : /\ accs'[b].active = accs[b].active /\ accs'[b].peak = accs[b].peak
                            /\ accs'[b].running = accs[b].running
                            /\ accs'[b].upAt = accs[b].upAt /\ accs'[b].uptime = accs[b].uptime
<1>1. /\ UNCHANGED <<clock, current, used, new, cur, callerVars, rollVars,
                     uptimes, worth, high, straddled>>
  BY DEF ConnectionStarted, ConnectionEnded, CountFailed, AddDuration, Count
<1>2. used \in Nat \ {0} /\ 1..used \subseteq Accs
  BY MadeAreAccs DEF Inv, PlacesOK
<1>3. \/ UNCHANGED accs
      \/ \E a \in 1..used, c \in Counters : Add(a, c)
  BY DEF ConnectionStarted, ConnectionEnded, CountFailed, AddDuration, Count, Inv, PlacesOK,
         RefsOK, Busy, Counters
<1>4. /\ accs' \in [Accs -> Acc]
      /\ \A b \in Accs : /\ accs'[b].active = accs[b].active /\ accs'[b].peak = accs[b].peak
                         /\ accs'[b].running = accs[b].running
                         /\ accs'[b].upAt = accs[b].upAt /\ accs'[b].uptime = accs[b].uptime
  BY <1>2, <1>3, AddType DEF Inv, AccsOK
<1>5. AccsOK'
  BY <1>1, <1>4 DEF Inv, AccsOK, rollVars
<1>6. PICK l \in ConnLabels, r \in Accs \cup {None} :
        /\ pc' = [pc EXCEPT ![k] = l] /\ ref' = [ref EXCEPT ![k] = r]
        /\ l # "cas" /\ (l \in Busy => r \in 1..used)
  <2>1. CASE ConnectionStarted(k)
    BY <2>1, <1>2 DEF ConnectionStarted, Count, GotoConn, Inv, PlacesOK, ConnLabels, Busy
  <2>2. CASE ConnectionEnded(k)
    BY <2>2, <1>2 DEF ConnectionEnded, Count, GotoConn, Inv, PlacesOK, ConnLabels, Busy
  <2>3. CASE CountFailed(k)
    BY <2>3 DEF CountFailed, AfterFailed, GotoConn, Inv, PlacesOK, ConnLabels, Busy
  <2>4. CASE AddDuration(k)
    BY <2>4 DEF AddDuration, GotoConn, Inv, PlacesOK, ConnLabels, Busy
  <2> QED
    BY <2>1, <2>2, <2>3, <2>4
<1>7. PlacesOK'
  BY <1>1, <1>6 DEF Inv, PlacesOK, callerVars, rollVars
<1>8. RefsOK'
  BY <1>1, <1>6 DEF Inv, PlacesOK, RefsOK, callerVars, rollVars
<1> QED
  BY <1>4, <1>5, <1>7, <1>8 DEF Inv

\* The gauge and the peak.
LEMMA GaugeStepInv ==
  ASSUME Inv, NEW k \in Conns,
         Activate(k) \/ LoadPeak(k) \/ RaisePeak(k) \/ Connected(k) \/ Deactivate(k)
  PROVE  Inv'
<1>1. /\ UNCHANGED <<clock, current, used, callerVars, rollVars, uptimes, worth>>
  BY DEF Activate, LoadPeak, RaisePeak, Connected, Deactivate, history
<1>2. used \in Nat \ {0} /\ 1..used \subseteq Accs
  BY MadeAreAccs DEF Inv, PlacesOK
<1>3. pc[k] \in Busy => ref[k] \in Accs /\ accs[ref[k]] \in Acc
  BY <1>2 DEF Inv, AccsOK, RefsOK
<1>4. AccsOK'
  <2>1. accs' \in [Accs -> Acc]
    <3>1. CASE UNCHANGED accs
      BY <3>1 DEF Inv, AccsOK
    <3>2. CASE Activate(k)
      <4>1. accs' = [accs EXCEPT ![ref[k]] = [accs[ref[k]] EXCEPT !.active = @ + 1]]
        BY <3>2 DEF Activate
      <4>2. /\ ref[k] \in Accs /\ accs[ref[k]] \in Acc
            /\ [accs[ref[k]] EXCEPT !.active = @ + 1] \in Acc
        BY <1>3, <3>2 DEF Activate, Busy, Acc
      <4> QED
        BY <4>1, <4>2, AccChange DEF Inv, AccsOK
    <3>3. CASE RaisePeak(k)
      <4>1. accs' = accs \/ accs' = [accs EXCEPT ![ref[k]] = [accs[ref[k]] EXCEPT !.peak = new[k]]]
        BY <3>3 DEF RaisePeak
      <4>2. /\ ref[k] \in Accs /\ accs[ref[k]] \in Acc
            /\ [accs[ref[k]] EXCEPT !.peak = new[k]] \in Acc
        BY <1>3, <3>3 DEF RaisePeak, Busy, Acc, Inv, PlacesOK
      <4> QED
        BY <4>1, <4>2, AccChange DEF Inv, AccsOK
    <3>4. CASE Deactivate(k)
      BY <1>3, <3>4 DEF Deactivate, Inv, AccsOK, Acc, Busy
    <3> QED
      BY <3>1, <3>2, <3>3, <3>4 DEF LoadPeak, Connected
  <2> QED
    BY <1>1, <2>1 DEF Inv, AccsOK, rollVars
<1>5. high' \in Nat
  <2>1. CASE Activate(k)
    <3>1. IsFiniteSet(Live)
      BY FiniteAssumption, FS_Subset DEF Live
    <3>2. Cardinality(Live) + 1 \in Nat
      BY <3>1, FS_CardinalityType
    <3>3. high \in Int /\ Cardinality(Live) + 1 \in Int
      BY <3>2 DEF Inv, PlacesOK
    <3>4. Max({high, Cardinality(Live) + 1}) \in {high, Cardinality(Live) + 1}
      BY <3>3, MaxOfTwo
    <3> QED
      BY <2>1, <3>2, <3>4 DEF Activate, Inv, PlacesOK
  <2>2. CASE ~Activate(k)
    BY <2>2 DEF LoadPeak, RaisePeak, Connected, Deactivate, history, Inv, PlacesOK
  <2> QED
    BY <2>1, <2>2
<1>6. /\ pc' = [pc EXCEPT ![k] = pc'[k]] /\ pc'[k] \in ConnLabels
      /\ ref' = [ref EXCEPT ![k] = ref'[k]] /\ ref'[k] \in Accs \cup {None}
      /\ new' = [new EXCEPT ![k] = new'[k]] /\ new'[k] \in Int
      /\ cur' = [cur EXCEPT ![k] = cur'[k]] /\ cur'[k] \in Int
      /\ pc'[k] \in Busy => ref'[k] \in 1..used
      /\ pc'[k] = "cas" => cur'[k] < new'[k]
  <2>1. CASE Activate(k)
    <3>1. ref[k] \in 1..used /\ accs'[ref[k]].active \in Int
      BY <1>2, <1>4, <2>1 DEF Activate, Inv, RefsOK, AccsOK, Acc, Busy
    <3> QED
      BY <2>1, <3>1 DEF Activate, GotoConn, Inv, PlacesOK, ConnLabels, Busy
  <2>2. CASE LoadPeak(k)
    <3>1. ref[k] \in 1..used /\ accs[ref[k]].peak \in Int /\ new[k] \in Int
      BY <1>2, <1>3, <2>2 DEF LoadPeak, Inv, RefsOK, PlacesOK, Acc, Busy
    <3> QED
      BY <2>2, <3>1 DEF LoadPeak, Opens, GotoConn, Inv, PlacesOK, ConnLabels, Busy
  <2>3. CASE RaisePeak(k)
    BY <1>2, <2>3 DEF RaisePeak, Opens, GotoConn, Inv, PlacesOK, RefsOK, ConnLabels, Busy
  <2>4. CASE Connected(k)
    BY <2>4 DEF Connected, GotoConn, Inv, PlacesOK, RefsOK, ConnLabels, Busy
  <2>5. CASE Deactivate(k)
    BY <2>5 DEF Deactivate, GotoConn, Inv, PlacesOK, RefsOK, ConnLabels, Busy
  <2> QED
    BY <2>1, <2>2, <2>3, <2>4, <2>5
<1>7. PlacesOK'
  BY <1>1, <1>5, <1>6 DEF Inv, PlacesOK, callerVars, rollVars
<1>8. RefsOK'
  BY <1>1, <1>6 DEF Inv, PlacesOK, RefsOK, callerVars, rollVars
<1> QED
  BY <1>4, <1>7, <1>8 DEF Inv

\* Starts and stops of the container; they leave the gauge and the peak alone.
LEMMA CallerInv ==
  ASSUME Inv, NEW g \in Callers, Caller(g)
  PROVE  /\ Inv'
         /\ \A b \in Accs : accs'[b].active = accs[b].active /\ accs'[b].peak = accs[b].peak
<1>1. /\ UNCHANGED <<clock, current, used, connVars, rollVars, high, straddled, uptimes>>
  BY DEF Caller, ReportRunning, OnContainerRunning, ReportStopped, ContainerStopped
<1>2. used \in Nat \ {0} /\ 1..used \subseteq Accs
  BY MadeAreAccs DEF Inv, PlacesOK
<1>3. /\ accs' \in [Accs -> Acc] /\ worth' \in [Accs -> Int]
      /\ \A b \in Accs : accs'[b].active = accs[b].active /\ accs'[b].peak = accs[b].peak
  <2>1. CASE UNCHANGED accs /\ UNCHANGED worth
    BY <2>1 DEF Inv, AccsOK
  <2>2. CASE OnContainerRunning(g) /\ accs' # accs
    <3>0. /\ ~(current = None \/ accs[current].running)
          /\ accs' = [accs EXCEPT ![current].running = TRUE, ![current].upAt = at[g]]
          /\ worth' = [worth EXCEPT ![current] = @ - at[g]]
      BY <2>2 DEF OnContainerRunning
    <3>1. current \in Accs /\ accs[current] \in Acc /\ at[g] \in Int
      BY <1>2, <3>0, BoundsAssumption DEF Inv, AccsOK, PlacesOK
    <3>2. [accs[current] EXCEPT !.running = TRUE, !.upAt = at[g]] \in Acc
      BY <3>1 DEF Acc
    <3>3. accs' = [accs EXCEPT ![current] =
                     [accs[current] EXCEPT !.running = TRUE, !.upAt = at[g]]]
      BY <3>0, <3>1
    <3>4. worth' \in [Accs -> Int]
      BY <3>0, <3>1 DEF Inv, AccsOK
    <3> QED
      BY <3>1, <3>2, <3>3, <3>4, AccChange DEF Inv, AccsOK, Acc
  <2>3. CASE ReportStopped(g)
    <3>1. "stops" \in Counters /\ UNCHANGED worth
      BY <2>3 DEF ReportStopped, Counters
    <3> QED
      BY <1>2, <2>3, <3>1, AddType DEF ReportStopped, Inv, AccsOK, PlacesOK
  <2>4. CASE ContainerStopped(g) /\ accs' # accs
    <3>0. /\ cpc[g] = "stopped"
          /\ accs' = [accs EXCEPT ![cref[g]].running = FALSE,
                                  ![cref[g]].uptime = @ + at[g] - accs[cref[g]].upAt]
          /\ worth' = [worth EXCEPT ![cref[g]] = @ + at[g]]
      BY <2>4 DEF ContainerStopped
    <3>1. cref[g] \in Accs /\ accs[cref[g]] \in Acc /\ at[g] \in Int
      BY <1>2, <3>0, BoundsAssumption DEF Inv, AccsOK, PlacesOK, RefsOK
    <3> DEFINE time == accs[cref[g]].uptime + at[g] - accs[cref[g]].upAt
    <3>2. time \in Int
      BY <3>1 DEF Acc
    <3>3. accs' = [accs EXCEPT ![cref[g]] =
                     [accs[cref[g]] EXCEPT !.running = FALSE, !.uptime = time]]
      BY <3>0, <3>1 DEF Acc
    <3> HIDE DEF time
    <3>4. [accs[cref[g]] EXCEPT !.running = FALSE, !.uptime = time] \in Acc
      BY <3>1, <3>2 DEF Acc
    <3>5. worth' \in [Accs -> Int]
      BY <3>0, <3>1 DEF Inv, AccsOK
    <3> QED
      BY <3>1, <3>3, <3>4, <3>5, AccChange DEF Inv, AccsOK, Acc
  <2>5. CASE ReportRunning(g)
    BY <2>1, <2>5 DEF ReportRunning
  <2>6. CASE (OnContainerRunning(g) \/ ContainerStopped(g)) /\ accs' = accs
    <3>1. worth' \in [Accs -> Int]
      BY <2>6 DEF OnContainerRunning, ContainerStopped, Inv, AccsOK, PlacesOK
    <3> QED
      BY <2>6, <3>1 DEF Inv, AccsOK
  <2> QED
    BY <2>2, <2>3, <2>4, <2>5, <2>6 DEF Caller
<1>4. AccsOK'
  BY <1>1, <1>3 DEF Inv, AccsOK, rollVars
<1>5. /\ cpc' = [cpc EXCEPT ![g] = cpc'[g]] /\ cpc'[g] \in {"idle", "running", "stopped"}
      /\ cref' = [cref EXCEPT ![g] = cref'[g]] /\ cref'[g] \in Accs \cup {None}
      /\ at' = [at EXCEPT ![g] = at'[g]] /\ at'[g] \in 0..MaxTime
      /\ cpc'[g] = "stopped" => cref'[g] \in 1..used
  <2>1. CASE ReportRunning(g)
    BY <2>1, BoundsAssumption DEF ReportRunning, Inv, PlacesOK
  <2>2. CASE ReportStopped(g)
    BY <1>2, <2>2 DEF ReportStopped, Inv, PlacesOK, RefsOK
  <2>3. CASE OnContainerRunning(g) \/ ContainerStopped(g)
    BY <2>3, BoundsAssumption DEF OnContainerRunning, ContainerStopped, Returns, Inv, PlacesOK
  <2> QED
    BY <2>1, <2>2, <2>3 DEF Caller
<1>6. PlacesOK'
  BY <1>1, <1>5 DEF Inv, PlacesOK, connVars, rollVars
<1>7. RefsOK'
  BY <1>1, <1>5 DEF Inv, PlacesOK, RefsOK, connVars, rollVars
<1> QED
  BY <1>3, <1>4, <1>6, <1>7 DEF Inv

\* The fields of the snapshot and of the accumulator, one after the other.
LEMMA RollupInv ==
  ASSUME Inv, Rollup
  PROVE  Inv'
<1>1. /\ UNCHANGED <<clock, current, used, connVars, callerVars, worth>>
  BY DEF Rollup, Tick, SwapCounter, LoadActive, SwapPeak, Emit, history
<1>2. used \in Nat \ {0} /\ 1..used \subseteq Accs
  BY MadeAreAccs DEF Inv, PlacesOK
<1>3. rpc # "idle" => rref \in 1..used /\ rref \in Accs /\ accs[rref] \in Acc
  BY <1>2 DEF Inv, AccsOK, RefsOK
<1>4. DOMAIN Follows = {"started", "ended", "failed", "stops"}
      /\ \A l \in DOMAIN Follows : Follows[l] \in {"ended", "failed", "stops", "active"}
  BY DEF Follows
<1>5. high' \in Nat
  <2>1. IsFiniteSet(Live)
    BY FiniteAssumption, FS_Subset DEF Live
  <2>2. Cardinality(Live) \in Nat
    BY <2>1, FS_CardinalityType
  <2> QED
    BY <2>2 DEF Rollup, Tick, SwapCounter, LoadActive, SwapPeak, Emit, history, Inv, PlacesOK
<1>6. CASE Tick
  <2>1. /\ UNCHANGED <<accs, snap, uptimes>> /\ rpc' = "started"
        /\ rref' = current /\ current \in 1..used /\ end' = clock
    BY <1>6 DEF Tick, history, Inv, PlacesOK
  <2> QED
    BY <1>1, <1>2, <1>5, <2>1 DEF Inv, AccsOK, PlacesOK, RefsOK, RollLabels, connVars, callerVars
<1>7. CASE SwapCounter
  <2>1. /\ rpc \in DOMAIN Follows /\ rpc \in Counters
        /\ snap' = [snap EXCEPT !.n[rpc] = accs[rref].n[rpc]]
        /\ accs' = [accs EXCEPT ![rref].n = Reset(@, rpc)]
        /\ rpc' = Follows[rpc]
        /\ UNCHANGED <<rref, end, uptimes>>
    BY <1>4, <1>7 DEF SwapCounter, history, Counters
  <2>2. rref \in Accs /\ accs[rref] \in Acc /\ rref \in 1..used
    BY <1>3, <1>4, <2>1
  <2>3. snap' \in Snapshot
    <3>1. /\ snap.n \in [Counters -> Nat] /\ accs[rref].n[rpc] \in Nat
          /\ [snap.n EXCEPT ![rpc] = accs[rref].n[rpc]] \in [Counters -> Nat]
      BY <2>1, <2>2 DEF Inv, AccsOK, Snapshot, Acc
    <3>2. snap' = [snap EXCEPT !.n = [snap.n EXCEPT ![rpc] = accs[rref].n[rpc]]]
      BY <2>1
    <3> QED
      BY <3>1, <3>2 DEF Inv, AccsOK, Snapshot
  <2>4. accs' \in [Accs -> Acc]
    <3>1. Reset(accs[rref].n, rpc) \in [Counters -> Nat]
      BY <2>1, <2>2 DEF Reset, Acc
    <3>2. accs' = [accs EXCEPT ![rref].n = Reset(accs[rref].n, rpc)]
      BY <2>1
    <3> QED
      BY <2>2, <3>1, <3>2 DEF Inv, AccsOK, Acc
  <2>5. rpc' \in {"ended", "failed", "stops", "active"}
    BY <1>4, <2>1
  <2> QED
    BY <1>1, <1>5, <2>1, <2>2, <2>3, <2>4, <2>5
    DEF Inv, AccsOK, PlacesOK, RefsOK, RollLabels, connVars, callerVars
<1>8. CASE LoadActive
  <2>1. /\ rpc = "active" /\ rpc' = "peak"
        /\ snap' = [snap EXCEPT !.active = accs[rref].active]
        /\ UNCHANGED <<accs, rref, end, uptimes>>
    BY <1>8 DEF LoadActive, history
  <2>2. snap' \in Snapshot
    BY <1>3, <2>1 DEF Inv, AccsOK, Snapshot, Acc
  <2> QED
    BY <1>1, <1>3, <1>5, <2>1, <2>2
    DEF Inv, AccsOK, PlacesOK, RefsOK, RollLabels, connVars, callerVars
<1>9. CASE SwapPeak
  <2>1. /\ rpc = "peak" /\ rpc' = "lock"
        /\ snap' = [snap EXCEPT !.peak = PeakOf(accs[rref].peak, snap.active)]
        /\ accs' = [accs EXCEPT ![rref].peak = snap.active]
        /\ UNCHANGED <<rref, end, uptimes>>
    BY <1>9 DEF SwapPeak, Seed
  <2>2. snap.active \in Int /\ accs[rref].peak \in Int
    BY <1>3, <2>1 DEF Inv, AccsOK, Snapshot, Acc
  <2>3. /\ PeakOf(accs[rref].peak, snap.active) \in Int
        /\ PeakOf(accs[rref].peak, snap.active) >= snap.active
    BY <2>2, MaxOfTwo DEF PeakOf
  <2>4. snap' \in Snapshot /\ snap'.peak >= snap'.active
    BY <2>1, <2>2, <2>3 DEF Inv, AccsOK, Snapshot
  <2>5. accs' \in [Accs -> Acc]
    BY <1>3, <2>1, <2>2 DEF Inv, AccsOK, Acc
  <2> QED
    BY <1>1, <1>3, <1>5, <2>1, <2>4, <2>5
    DEF Inv, AccsOK, PlacesOK, RefsOK, RollLabels, connVars, callerVars
<1>10. CASE Emit
  <2>1. /\ rpc = "lock" /\ rpc' = "idle" /\ rref' = None /\ end' = 0 /\ snap' = Blank
        /\ accs' = [accs EXCEPT ![rref].n["durations"] = 0, ![rref].uptime = 0,
                                ![rref].upAt = NextUpAt(accs[rref])]
        /\ uptimes' = [uptimes EXCEPT ![rref] = @ + UptimeSince(accs[rref])]
    BY <1>10 DEF Emit
  <2>2. snap' \in Snapshot
    BY <2>1 DEF Blank, Zero, Snapshot
  <2>3. NextUpAt(accs[rref]) \in Int /\ UptimeSince(accs[rref]) \in Int /\ end \in Int
    BY <1>3, <2>1, BoundsAssumption DEF NextUpAt, UptimeSince, Acc, Inv, PlacesOK
  <2>4. accs' \in [Accs -> Acc]
    <3>1. /\ accs[rref].n \in [Counters -> Nat] /\ "durations" \in Counters
          /\ [accs[rref].n EXCEPT !["durations"] = 0] \in [Counters -> Nat]
      BY <1>3, <2>1 DEF Acc, Counters
    <3> DEFINE acc == [accs[rref] EXCEPT !.n = [accs[rref].n EXCEPT !["durations"] = 0],
                                         !.uptime = 0, !.upAt = NextUpAt(accs[rref])]
    <3>2. rref \in Accs /\ acc \in Acc
      <4> DEFINE fresh == [accs[rref].n EXCEPT !["durations"] = 0]
                 since == NextUpAt(accs[rref])
      <4>1. rref \in Accs /\ accs[rref] \in Acc /\ fresh \in [Counters -> Nat] /\ since \in Int
        BY <1>3, <2>1, <2>3, <3>1
      <4> HIDE DEF fresh, since
      <4>2. [accs[rref] EXCEPT !.n = fresh, !.uptime = 0, !.upAt = since] \in Acc
        BY <4>1, EmittedType
      <4> QED
        BY <4>1, <4>2 DEF fresh, since
    <3>3. accs' = [accs EXCEPT ![rref] = acc]
      BY <1>3, <2>1 DEF Acc
    <3> HIDE DEF acc
    <3> QED
      BY <3>2, <3>3, AccChange DEF Inv, AccsOK
  <2>5. uptimes' \in [Accs -> Int]
    BY <1>3, <2>1, <2>3 DEF Inv, AccsOK
  <2>6. 0 \in 0..MaxTime
    BY BoundsAssumption
  <2> QED
    BY <1>1, <1>5, <2>1, <2>2, <2>4, <2>5, <2>6
    DEF Inv, AccsOK, PlacesOK, RefsOK, RollLabels, connVars, callerVars
<1> QED
  BY <1>6, <1>7, <1>8, <1>9, <1>10 DEF Rollup

LEMMA NextInv == Inv /\ [Next]_vars => Inv'
<1> SUFFICES ASSUME Inv, [Next]_vars PROVE Inv'
  OBVIOUS
<1>1. ASSUME NEW k \in Conns, Connection(k) PROVE Inv'
  BY <1>1, CountInv, GaugeStepInv DEF Connection
<1>2. ASSUME NEW g \in Callers, Caller(g) PROVE Inv'
  BY <1>2, CallerInv
<1>3. CASE UNCHANGED vars
  BY <1>3 DEF vars, connVars, callerVars, rollVars, history, Inv, AccsOK, PlacesOK, RefsOK
<1> QED
  BY <1>1, <1>2, <1>3, MapInv, RollupInv DEF Next

\* The inductive invariant of the collector holds.
THEOREM InvCorrect == Spec => []Inv
<1> QED
  BY InitInv, NextInv, PTL DEF Spec

\* Every variable of the collector keeps its type, and the peak of a finished snapshot is
\* not below its live connections (rollupWindow raises it).
THEOREM TypeCorrect == Spec => []TypeOK
<1>1. Inv => TypeOK
  <2> SUFFICES ASSUME Inv PROVE TypeOK
    OBVIOUS
  <2>1. \A a \in Accs : accs[a] \in Acc
    BY DEF Inv, AccsOK
  <2>2. snap.n \in [Counters -> Nat] /\ (rpc = "lock" => snap.peak >= snap.active)
    BY DEF Inv, AccsOK, Snapshot
  <2>3. RollLabels = {"idle", "active", "peak", "lock"} \cup DOMAIN Follows
    BY DEF RollLabels, Follows
  <2>4. \A a \in Accs :
          /\ accs[a].n \in [Counters -> Nat] /\ accs[a].running \in BOOLEAN
          /\ {accs[a].active, accs[a].peak, accs[a].upAt, accs[a].uptime} \subseteq Int
    BY <2>1 DEF Acc
  <2> QED
    BY <2>2, <2>3, <2>4 DEF TypeOK, Inv, PlacesOK, ConnLabels
<1> QED
  BY <1>1, InvCorrect, PTL

-----------------------------------------------------------------------------
(* Uptime *)

\* The accumulators keep their clocks.
SameClocks ==
  /\ UNCHANGED <<uptimes, worth>>
  /\ \A b \in Accs : /\ accs'[b].running = accs[b].running
                     /\ accs'[b].upAt = accs[b].upAt /\ accs'[b].uptime = accs[b].uptime

LEMMA SameClocksKeep == UptimeConserved /\ SameClocks => UptimeConserved'
BY DEF UptimeConserved, SameClocks

\* Connections do not touch the clocks.
LEMMA ConnClocks ==
  ASSUME Inv, NEW k \in Conns, Connection(k)
  PROVE  SameClocks
<1>1. UNCHANGED <<uptimes, worth>>
  BY DEF Connection, ConnectionStarted, ConnectionEnded, CountFailed, AddDuration, Count,
         Activate, LoadPeak, RaisePeak, Connected, Deactivate, history
<1>2. CASE ConnectionStarted(k) \/ ConnectionEnded(k) \/ CountFailed(k) \/ AddDuration(k)
  BY <1>1, <1>2, CountInv DEF SameClocks
<1>3. CASE Activate(k)
  BY <1>1, <1>3 DEF Activate, SameClocks, Inv, AccsOK, Acc
<1>4. CASE RaisePeak(k)
  BY <1>1, <1>4 DEF RaisePeak, SameClocks, Inv, AccsOK, Acc
<1>5. CASE Deactivate(k)
  BY <1>1, <1>5 DEF Deactivate, SameClocks, Inv, AccsOK, Acc
<1>6. CASE LoadPeak(k) \/ Connected(k)
  BY <1>1, <1>6 DEF LoadPeak, Connected, SameClocks
<1> QED
  BY <1>2, <1>3, <1>4, <1>5, <1>6 DEF Connection

\* Starts and stops begin and end the time that counts.
LEMMA CallerClocks ==
  ASSUME Inv, UptimeConserved, NEW g \in Callers, Caller(g)
  PROVE  UptimeConserved'
<1>1. used \in Nat \ {0} /\ 1..used \subseteq Accs /\ at[g] \in Int
  BY MadeAreAccs, BoundsAssumption DEF Inv, PlacesOK
<1>2. UNCHANGED uptimes
  BY DEF Caller, ReportRunning, OnContainerRunning, ReportStopped, ContainerStopped
<1>3. CASE ReportRunning(g) \/ UNCHANGED <<accs, worth>>
  BY <1>2, <1>3, SameClocksKeep DEF ReportRunning, SameClocks
<1>4. CASE ReportStopped(g)
  <2>1. "stops" \in Counters /\ UNCHANGED worth
    BY <1>4 DEF ReportStopped, Counters
  <2> QED
    BY <1>1, <1>2, <1>3, <1>4, <2>1, AddType, SameClocksKeep
    DEF ReportStopped, SameClocks, Inv, AccsOK, PlacesOK
<1>5. CASE OnContainerRunning(g) /\ ~UNCHANGED <<accs, worth>>
  <2>1. /\ ~(current = None \/ accs[current].running)
        /\ accs' = [accs EXCEPT ![current].running = TRUE, ![current].upAt = at[g]]
        /\ worth' = [worth EXCEPT ![current] = @ - at[g]]
    BY <1>5 DEF OnContainerRunning
  <2>2. current \in Accs /\ accs[current] \in Acc /\ worth[current] \in Int
    BY <1>1, <2>1 DEF Inv, AccsOK, PlacesOK
  <2>3. /\ \A b \in Accs : b # current => accs'[b] = accs[b] /\ worth'[b] = worth[b]
        /\ accs'[current].running = TRUE /\ accs'[current].upAt = at[g]
        /\ accs'[current].uptime = accs[current].uptime
        /\ worth'[current] = worth[current] - at[g]
    BY <2>1, <2>2 DEF Inv, AccsOK, Acc
  <2>4. ~accs[current].running
    BY <2>1
  <2>5. uptimes[current] + accs[current].uptime = worth[current] + 0
    BY <2>2, <2>4 DEF UptimeConserved
  <2> QED
    BY <1>1, <1>2, <2>2, <2>3, <2>5 DEF UptimeConserved
<1>6. CASE ContainerStopped(g) /\ ~UNCHANGED <<accs, worth>>
  <2> DEFINE a == cref[g]
  <2>1. /\ cpc[g] = "stopped" /\ accs[a].running
        /\ accs' = [accs EXCEPT ![a].running = FALSE,
                                ![a].uptime = @ + at[g] - accs[a].upAt]
        /\ worth' = [worth EXCEPT ![a] = @ + at[g]]
    BY <1>6 DEF ContainerStopped
  <2>2. a \in Accs /\ accs[a] \in Acc /\ worth[a] \in Int /\ uptimes[a] \in Int
    BY <1>1, <2>1 DEF Inv, AccsOK, PlacesOK, RefsOK
  <2>3. /\ \A b \in Accs : b # a => accs'[b] = accs[b] /\ worth'[b] = worth[b]
        /\ accs'[a].running = FALSE
        /\ accs'[a].uptime = accs[a].uptime + at[g] - accs[a].upAt
        /\ worth'[a] = worth[a] + at[g]
    BY <2>1, <2>2 DEF Inv, AccsOK, Acc
  <2>4. uptimes[a] + accs[a].uptime = worth[a] + accs[a].upAt
    BY <2>1, <2>2 DEF UptimeConserved
  <2>5. accs[a].uptime \in Int /\ accs[a].upAt \in Int
    BY <2>2 DEF Acc
  <2>6. uptimes[a] + accs'[a].uptime = worth'[a] + 0
    BY <1>1, <2>2, <2>3, <2>4, <2>5
  <2> QED
    BY <1>2, <2>2, <2>3, <2>6 DEF UptimeConserved
<1> QED
  BY <1>3, <1>4, <1>5, <1>6 DEF Caller

\* A window ends where the next begins.
LEMMA RollupClocks ==
  ASSUME Inv, UptimeConserved, Rollup
  PROVE  UptimeConserved'
<1>1. used \in Nat \ {0} /\ 1..used \subseteq Accs /\ end \in Int /\ UNCHANGED worth
  BY MadeAreAccs, BoundsAssumption
  DEF Inv, PlacesOK, Rollup, Tick, SwapCounter, LoadActive, SwapPeak, Emit, history
<1>2. CASE Tick \/ LoadActive
  BY <1>2, SameClocksKeep DEF Tick, LoadActive, SameClocks, history
<1>3. CASE SwapCounter \/ SwapPeak
  <2>1. UNCHANGED <<uptimes, worth>>
    BY <1>3 DEF SwapCounter, SwapPeak, history
  <2>2. CASE SwapCounter
    <3>1. accs' = [accs EXCEPT ![rref].n = Reset(accs[rref].n, rpc)]
      BY <2>2 DEF SwapCounter
    <3> QED
      BY <2>1, <3>1, SameClocksKeep DEF SameClocks, Inv, AccsOK, Acc
  <2>3. CASE SwapPeak
    <3>1. accs' = [accs EXCEPT ![rref].peak = Seed(snap.active)]
      BY <2>3 DEF SwapPeak
    <3> QED
      BY <2>1, <3>1, SameClocksKeep DEF SameClocks, Inv, AccsOK, Acc
  <2> QED
    BY <1>3, <2>2, <2>3
<1>4. CASE Emit
  <2>1. /\ rpc = "lock"
        /\ accs' = [accs EXCEPT ![rref].n["durations"] = 0, ![rref].uptime = 0,
                                ![rref].upAt = NextUpAt(accs[rref])]
        /\ uptimes' = [uptimes EXCEPT ![rref] = @ + UptimeSince(accs[rref])]
    BY <1>4 DEF Emit
  <2>2. rref \in Accs /\ accs[rref] \in Acc /\ worth[rref] \in Int /\ uptimes[rref] \in Int
    BY <1>1, <2>1 DEF Inv, AccsOK, RefsOK
  <2>3. /\ \A b \in Accs : b # rref => accs'[b] = accs[b] /\ uptimes'[b] = uptimes[b]
        /\ accs'[rref].running = accs[rref].running
        /\ accs'[rref].uptime = 0 /\ accs'[rref].upAt = NextUpAt(accs[rref])
        /\ uptimes'[rref] = uptimes[rref] + UptimeSince(accs[rref])
    BY <2>1, <2>2 DEF Inv, AccsOK, Acc
  <2>4. accs[rref].uptime \in Int /\ accs[rref].upAt \in Int
    BY <2>2 DEF Acc
  <2>5. uptimes[rref] + accs[rref].uptime
          = worth[rref] + (IF accs[rref].running THEN accs[rref].upAt ELSE 0)
    BY <2>2 DEF UptimeConserved
  <2>6. uptimes'[rref] + accs'[rref].uptime
          = worth[rref] + (IF accs'[rref].running THEN accs'[rref].upAt ELSE 0)
    <3>1. CASE accs[rref].running
      BY <1>1, <2>2, <2>3, <2>4, <2>5, <3>1 DEF UptimeSince, NextUpAt
    <3>2. CASE ~accs[rref].running
      BY <1>1, <2>2, <2>3, <2>4, <2>5, <3>2 DEF UptimeSince, NextUpAt
    <3> QED
      BY <3>1, <3>2
  <2> QED
    BY <1>1, <2>3, <2>6 DEF UptimeConserved
<1> QED
  BY <1>2, <1>3, <1>4 DEF Rollup

\* Over all its snapshots the uptime of an accumulator adds up to the time between the
\* starts and the stops it was told of, however reports and rollups interleave.
THEOREM UptimeCorrect == Spec => []UptimeConserved
<1>1. Init => UptimeConserved
  BY DEF Init, UptimeConserved, Fresh
<1>2. Inv /\ UptimeConserved /\ [Next]_vars => UptimeConserved'
  <2> SUFFICES ASSUME Inv, UptimeConserved, [Next]_vars PROVE UptimeConserved'
    OBVIOUS
  <2>1. CASE Advance \/ UnregisterPort \/ RegisterPort \/ UNCHANGED vars
    BY <2>1, SameClocksKeep
    DEF Advance, UnregisterPort, RegisterPort, vars, history, SameClocks
  <2>2. ASSUME NEW k \in Conns, Connection(k) PROVE UptimeConserved'
    BY <2>2, ConnClocks, SameClocksKeep
  <2>3. ASSUME NEW g \in Callers, Caller(g) PROVE UptimeConserved'
    BY <2>3, CallerClocks
  <2> QED
    BY <2>1, <2>2, <2>3, RollupClocks DEF Next
<1> QED
  BY <1>1, <1>2, InvCorrect, PTL DEF Spec

-----------------------------------------------------------------------------
(* The counters *)

\* The counters that the rollup has swapped when it is about to take step l; it takes the
\* durations with the lock.
Swapped(l) ==
  {c \in Counters : \/ c = "started" /\ l \notin {"idle", "started"}
                    \/ c = "ended" /\ l \notin {"idle", "started", "ended"}
                    \/ c = "failed" /\ l \notin {"idle", "started", "ended", "failed"}
                    \/ c = "stops" /\ l \in {"active", "peak", "lock"}}

\* The snapshot holds what was swapped and nothing else: nothing is overwritten in it.
SnapFresh == \A c \in Counters \ Swapped(rpc) : snap.n[c] = 0

CountsOK ==
  /\ calls \in [Accs -> [Counters -> Nat]] /\ sent \in [Accs -> [Counters -> Nat]]
  /\ SnapFresh /\ NothingLost

\* No counter moves.
SameCounts ==
  /\ \A a \in Accs : accs'[a].n = accs[a].n
  /\ snap'.n = snap.n /\ UNCHANGED <<calls, sent, rref>>
  /\ Swapped(rpc') = Swapped(rpc)

LEMMA SameCountsKeep == CountsOK /\ SameCounts => CountsOK'
BY DEF CountsOK, SameCounts, SnapFresh, NothingLost

\* A call is counted in the accumulator that it looked up.
LEMMA AddCounts ==
  ASSUME Inv, CountsOK, NEW a \in Accs, NEW c \in Counters, Add(a, c),
         UNCHANGED <<rollVars, sent>>
  PROVE  CountsOK'
<1>1. /\ accs[a].n \in [Counters -> Nat] /\ calls[a] \in [Counters -> Nat]
      /\ accs \in [Accs -> Acc] /\ calls \in [Accs -> [Counters -> Nat]]
  BY DEF Inv, AccsOK, Acc, CountsOK
<1>2. /\ accs' = [accs EXCEPT ![a].n = [accs[a].n EXCEPT ![c] = @ + 1]]
      /\ calls' = [calls EXCEPT ![a] = [calls[a] EXCEPT ![c] = @ + 1]]
  BY DEF Add
<1>3. \A b \in Accs, d \in Counters :
        \/ accs'[b].n[d] = accs[b].n[d] /\ calls'[b][d] = calls[b][d]
        \/ accs'[b].n[d] = accs[b].n[d] + 1 /\ calls'[b][d] = calls[b][d] + 1
  BY <1>1, <1>2 DEF Acc
<1>4. calls' \in [Accs -> [Counters -> Nat]] /\ accs' \in [Accs -> Acc]
  <2>1. [calls[a] EXCEPT ![c] = @ + 1] \in [Counters -> Nat]
    BY <1>1
  <2> QED
    BY <1>1, <1>2, <2>1, AddType
<1>5. NothingLost'
  <2> SUFFICES ASSUME NEW b \in Accs, NEW d \in Counters
               PROVE  calls'[b][d] = sent[b][d] + accs'[b].n[d]
                                       + (IF b = rref THEN snap.n[d] ELSE 0)
    BY DEF NothingLost, rollVars
  <2>1. calls[b][d] = sent[b][d] + accs[b].n[d] + (IF b = rref THEN snap.n[d] ELSE 0)
    BY DEF CountsOK, NothingLost
  <2>2. /\ sent[b][d] \in Nat /\ accs[b].n[d] \in Nat
        /\ (IF b = rref THEN snap.n[d] ELSE 0) \in Nat
    BY <1>1 DEF CountsOK, Inv, AccsOK, Snapshot, Acc
  <2> QED
    BY <1>3, <2>1, <2>2
<1> QED
  BY <1>4, <1>5 DEF CountsOK, SnapFresh, rollVars

LEMMA ConnCounts ==
  ASSUME Inv, CountsOK, NEW k \in Conns, Connection(k)
  PROVE  CountsOK'
<1>1. UNCHANGED <<rollVars, sent>>
  BY DEF Connection, ConnectionStarted, ConnectionEnded, CountFailed, AddDuration, Count,
         Activate, LoadPeak, RaisePeak, Connected, Deactivate, history
<1>2. CASE ConnectionStarted(k) \/ ConnectionEnded(k) \/ CountFailed(k) \/ AddDuration(k)
  <2>1. \/ UNCHANGED <<accs, calls>>
        \/ \E a \in Accs, c \in Counters : Add(a, c)
    BY <1>2, MadeAreAccs DEF ConnectionStarted, ConnectionEnded, CountFailed, AddDuration,
       Count, Inv, PlacesOK, RefsOK, Busy, Counters
  <2>2. CASE UNCHANGED <<accs, calls>>
    BY <1>1, <2>2, SameCountsKeep DEF SameCounts, rollVars
  <2> QED
    BY <1>1, <2>1, <2>2, AddCounts
<1>3. CASE Activate(k) \/ LoadPeak(k) \/ RaisePeak(k) \/ Connected(k) \/ Deactivate(k)
  <2>1. UNCHANGED calls /\ \A a \in Accs : accs'[a].n = accs[a].n
    BY <1>3 DEF Activate, LoadPeak, RaisePeak, Connected, Deactivate, history, Inv, AccsOK, Acc
  <2> QED
    BY <1>1, <2>1, SameCountsKeep DEF SameCounts, rollVars
<1> QED
  BY <1>2, <1>3 DEF Connection

LEMMA CallerCounts ==
  ASSUME Inv, CountsOK, NEW g \in Callers, Caller(g)
  PROVE  CountsOK'
<1>1. UNCHANGED <<rollVars, sent>>
  BY DEF Caller, ReportRunning, OnContainerRunning, ReportStopped, ContainerStopped
<1>2. \/ UNCHANGED calls /\ \A a \in Accs : accs'[a].n = accs[a].n
      \/ Add(current, "stops") /\ current \in Accs
  BY MadeAreAccs DEF Caller, ReportRunning, OnContainerRunning, ReportStopped, ContainerStopped,
     Inv, AccsOK, PlacesOK, Acc
<1> QED
  BY <1>1, <1>2, SameCountsKeep, AddCounts DEF SameCounts, rollVars, Counters

LEMMA RollupCounts ==
  ASSUME Inv, CountsOK, Rollup
  PROVE  CountsOK'
<1>1. /\ snap.n \in [Counters -> Nat] /\ snap \in Snapshot
      /\ accs \in [Accs -> Acc] /\ sent \in [Accs -> [Counters -> Nat]]
      /\ calls \in [Accs -> [Counters -> Nat]]
      /\ rpc # "idle" => rref \in Accs /\ accs[rref] \in Acc
  BY MadeAreAccs DEF Inv, AccsOK, PlacesOK, RefsOK, Snapshot, CountsOK
<1>2. CASE Tick
  <2>1. \A c \in Counters : snap.n[c] = 0
    BY <1>2 DEF Tick, CountsOK, SnapFresh, Swapped
  <2>2. /\ UNCHANGED <<accs, snap, calls, sent>>
        /\ Swapped(rpc') = Swapped(rpc)
    BY <1>2 DEF Tick, history, Swapped
  <2> QED
    BY <1>1, <2>1, <2>2 DEF CountsOK, SnapFresh, NothingLost
<1>3. CASE SwapCounter
  <2>1. /\ rpc \in Counters /\ rpc # "idle" /\ rpc # "durations"
        /\ Swapped(rpc') = Swapped(rpc) \cup {rpc} /\ rpc \notin Swapped(rpc)
    BY <1>3 DEF SwapCounter, Follows, Counters, Swapped
  <2>2. snap.n[rpc] = 0
    BY <2>1 DEF CountsOK, SnapFresh
  <2>3. /\ snap' = [snap EXCEPT !.n = [snap.n EXCEPT ![rpc] = accs[rref].n[rpc]]]
        /\ accs' = [accs EXCEPT ![rref].n = [accs[rref].n EXCEPT ![rpc] = 0]]
        /\ UNCHANGED <<rref, calls, sent>>
    BY <1>3 DEF SwapCounter, Reset, history
  <2>4. \A a \in Accs, c \in Counters :
          /\ snap'.n[c] = IF c = rpc THEN accs[rref].n[rpc] ELSE snap.n[c]
          /\ accs'[a].n[c] = IF a = rref /\ c = rpc THEN 0 ELSE accs[a].n[c]
    BY <1>1, <2>1, <2>3 DEF Snapshot, Acc
  <2>5. SnapFresh'
    BY <2>1, <2>4, <1>1 DEF CountsOK, SnapFresh
  <2>6. NothingLost'
    <3> SUFFICES ASSUME NEW a \in Accs, NEW c \in Counters
                 PROVE  calls[a][c] = sent[a][c] + accs'[a].n[c]
                                       + (IF a = rref THEN snap'.n[c] ELSE 0)
      BY <2>3 DEF NothingLost
    <3>1. calls[a][c] = sent[a][c] + accs[a].n[c] + (IF a = rref THEN snap.n[c] ELSE 0)
      BY DEF CountsOK, NothingLost
    <3>2. sent[a][c] \in Nat /\ accs[a].n[c] \in Nat /\ snap.n[c] \in Nat
      BY <1>1 DEF Acc
    <3>3. CASE a = rref /\ c = rpc
      BY <2>2, <2>4, <3>1, <3>2, <3>3
    <3>4. CASE ~(a = rref /\ c = rpc)
      BY <2>4, <3>1, <3>4
    <3> QED
      BY <3>3, <3>4
  <2> QED
    BY <1>1, <2>3, <2>5, <2>6 DEF CountsOK
<1>4. CASE LoadActive \/ SwapPeak
  <2>1. /\ UNCHANGED <<rref, calls, sent>> /\ snap'.n = snap.n
        /\ \A a \in Accs : accs'[a].n = accs[a].n
    <3>1. CASE LoadActive
      BY <1>1, <3>1 DEF LoadActive, history, Snapshot
    <3>2. CASE SwapPeak
      <4>1. rref \in Accs /\ accs[rref] \in Acc /\ UNCHANGED <<rref, calls, sent>>
        BY <1>1, <3>2 DEF SwapPeak
      <4>2. snap'.n = snap.n
        BY <1>1, <3>2 DEF SwapPeak, Snapshot
      <4>3. \A a \in Accs : accs'[a].n = accs[a].n
        BY <1>1, <3>2, <4>1 DEF SwapPeak, Acc
      <4> QED
        BY <4>1, <4>2, <4>3
    <3> QED
      BY <1>4, <3>1, <3>2
  <2>2. Swapped(rpc') = Swapped(rpc)
    BY <1>4 DEF LoadActive, SwapPeak, Swapped
  <2> QED
    BY <2>1, <2>2, SameCountsKeep DEF SameCounts
<1>5. CASE Emit
  <2>1. rpc = "lock" /\ rref \in Accs /\ accs[rref] \in Acc /\ rref' = None
    BY <1>1, <1>5 DEF Emit
  <2>2. snap.n["durations"] = 0 /\ "durations" \in Counters
    BY <2>1 DEF CountsOK, SnapFresh, Swapped, Counters
  <2>3. \A a \in Accs, c \in Counters :
          accs'[a].n[c] = IF a = rref /\ c = "durations" THEN 0 ELSE accs[a].n[c]
    BY <1>1, <1>5, <2>1 DEF Emit, Acc
  <2>4. \A c \in Counters : snap'.n[c] = 0
    BY <1>5 DEF Emit, Blank, Zero
  <2>5. sent' = [sent EXCEPT ![rref] = [c \in Counters |-> sent[rref][c]
                   + IF c = "durations" THEN accs[rref].n[c] ELSE snap.n[c]]]
    BY <1>5 DEF Emit
  <2>6. [c \in Counters |-> sent[rref][c] + IF c = "durations" THEN accs[rref].n[c]
           ELSE snap.n[c]] \in [Counters -> Nat]
    BY <1>1, <2>1 DEF Acc
  <2>7. /\ sent' \in [Accs -> [Counters -> Nat]]
        /\ \A a \in Accs, c \in Counters :
             sent'[a][c] = IF a # rref THEN sent[a][c]
                           ELSE sent[a][c] + IF c = "durations" THEN accs[a].n[c] ELSE snap.n[c]
    BY <1>1, <2>1, <2>5, <2>6
  <2>8. NothingLost'
    <3> SUFFICES ASSUME NEW a \in Accs, NEW c \in Counters
                 PROVE  calls[a][c] = sent'[a][c] + accs'[a].n[c]
      BY <1>1, <1>5, <2>1, <2>3, <2>4, <2>7 DEF NothingLost, Emit, Acc
    <3>1. calls[a][c] = sent[a][c] + accs[a].n[c] + (IF a = rref THEN snap.n[c] ELSE 0)
      BY DEF CountsOK, NothingLost
    <3>2. sent[a][c] \in Nat /\ accs[a].n[c] \in Nat /\ snap.n[c] \in Nat
      BY <1>1 DEF Acc
    <3>3. /\ accs'[a].n[c] = IF a = rref /\ c = "durations" THEN 0 ELSE accs[a].n[c]
          /\ sent'[a][c] = IF a # rref THEN sent[a][c]
                           ELSE sent[a][c] + IF c = "durations" THEN accs[a].n[c] ELSE snap.n[c]
      BY <2>3, <2>7
    <3> QED
      BY <2>2, <3>1, <3>2, <3>3
  <2> QED
    BY <1>1, <1>5, <2>4, <2>7, <2>8 DEF Emit, CountsOK, SnapFresh
<1> QED
  BY <1>2, <1>3, <1>4, <1>5 DEF Rollup

\* Whatever calls, registrations and the rollup's swaps interleave, each call is counted
\* once, in a snapshot of the accumulator it looked up or still in it.
THEOREM NothingLostCorrect == Spec => []NothingLost
<1>1. Init => CountsOK
  <2> SUFFICES ASSUME Init PROVE CountsOK
    OBVIOUS
  <2>1. Zero \in [Counters -> Nat] /\ \A c \in Counters : Zero[c] = 0
    BY DEF Zero
  <2>2. \A a \in Accs : accs[a].n = Zero /\ calls[a] = Zero /\ sent[a] = Zero
    BY DEF Init, Fresh
  <2>3. snap.n = Zero
    BY DEF Init, Blank
  <2>4. calls \in [Accs -> [Counters -> Nat]] /\ sent \in [Accs -> [Counters -> Nat]]
    BY <2>1 DEF Init
  <2> QED
    BY <2>1, <2>2, <2>3, <2>4 DEF CountsOK, SnapFresh, NothingLost
<1>2. Inv /\ CountsOK /\ [Next]_vars => CountsOK'
  <2> SUFFICES ASSUME Inv, CountsOK, [Next]_vars PROVE CountsOK'
    OBVIOUS
  <2>1. CASE Advance \/ UnregisterPort \/ RegisterPort \/ UNCHANGED vars
    BY <2>1, SameCountsKeep
    DEF Advance, UnregisterPort, RegisterPort, vars, rollVars, history, SameCounts
  <2> QED
    BY <2>1, ConnCounts, CallerCounts, RollupCounts DEF Next
<1> QED
  BY <1>1, <1>2, InvCorrect, PTL DEF Spec, CountsOK

-----------------------------------------------------------------------------
(* The gauge and the peak *)

\* The port has stayed registered.
Stays == used = 1 /\ current = 1

\* The most connections at once are in the peak, or in the hands of a ConnectionStarted
\* that is about to raise it; and none has come since the rollup read the gauge.
PeakInv ==
  Stays /\ ~straddled =>
    /\ \/ high <= accs[1].peak
       \/ \E k \in Conns : pc[k] \in {"peak", "cas"} /\ high <= new[k]
    /\ rpc = "peak" => snap.active >= Cardinality(Live)

\* Where a connection is live.
Open == {"peak", "cas", "open", "fail", "end", "deactivate"}

\* The live connections when one of them takes a step.
LEMMA LiveStep ==
  ASSUME PlacesOK, NEW k \in Conns, NEW l \in ConnLabels, pc' = [pc EXCEPT ![k] = l]
  PROVE  /\ Cardinality(Live) \in Nat
         /\ (pc[k] \in Open <=> l \in Open) => Live' = Live
         /\ pc[k] \notin Open /\ l \in Open => Cardinality(Live') = Cardinality(Live) + 1
         /\ pc[k] \in Open /\ l \notin Open => Cardinality(Live') = Cardinality(Live) - 1
<1>1. IsFiniteSet(Live)
  BY FiniteAssumption, FS_Subset DEF Live
<1>2. Cardinality(Live) \in Nat
  BY <1>1, FS_CardinalityType
<1>3. (pc[k] \in Open <=> l \in Open) => Live' = Live
  BY DEF PlacesOK, Live, Open
<1>4. ASSUME pc[k] \notin Open, l \in Open PROVE Cardinality(Live') = Cardinality(Live) + 1
  <2>1. k \notin Live /\ Live' = Live \cup {k}
    BY <1>4 DEF PlacesOK, Live, Open
  <2> QED
    BY <1>1, <2>1, FS_AddElement
<1>5. ASSUME pc[k] \in Open, l \notin Open PROVE Cardinality(Live') = Cardinality(Live) - 1
  <2>1. k \in Live /\ Live' = Live \ {k}
    BY <1>5 DEF PlacesOK, Live, Open
  <2> QED
    BY <1>1, <2>1, FS_RemoveElement
<1> QED
  BY <1>2, <1>3, <1>4, <1>5

\* Where the port has stayed registered everybody has its first accumulator.
LEMMA FirstOnly ==
  ASSUME Inv, Stays
  PROVE  /\ 1 \in Accs
         /\ \A k \in Conns : pc[k] \in Busy => ref[k] = 1
         /\ rpc # "idle" => rref = 1
<1>1. 1 \in Accs
  BY DEF Stays, Inv, PlacesOK
<1>2. \A r \in 1..used : r = 1
  BY DEF Stays
<1> QED
  BY <1>1, <1>2 DEF Inv, RefsOK

\* Nothing that the gauge and the peak are about changes.
LEMMA PeakSame ==
  ASSUME GaugeExact, PeakInv, Stays, Live' = Live,
         accs'[1].active = accs[1].active, accs'[1].peak = accs[1].peak,
         UNCHANGED <<used, current, high, straddled>>,
         rpc' = "peak" => rpc = "peak" /\ UNCHANGED snap,
         \A k \in Conns : pc[k] \in {"peak", "cas"} => pc'[k] \in {"peak", "cas"} /\ new'[k] = new[k]
  PROVE  GaugeExact' /\ PeakInv'
BY DEF GaugeExact, PeakInv, Stays

\* A connection counts itself.
LEMMA ActivatePeak ==
  ASSUME Inv, GaugeExact, PeakInv, Stays, NEW k \in Conns, Activate(k)
  PROVE  GaugeExact' /\ PeakInv'
<1>1. /\ pc[k] = "activate" /\ ref[k] = 1 /\ 1 \in Accs /\ accs[1] \in Acc
      /\ accs' = [accs EXCEPT ![1].active = @ + 1]
      /\ new' = [new EXCEPT ![k] = accs'[1].active]
      /\ pc' = [pc EXCEPT ![k] = "peak"]
      /\ high' = Max({high, Cardinality(Live) + 1})
      /\ straddled' = (straddled \/ rpc = "peak")
      /\ UNCHANGED <<used, current, rpc>>
  BY FirstOnly DEF Activate, GotoConn, rollVars, Inv, AccsOK, Busy
<1>2. Cardinality(Live) \in Nat /\ Cardinality(Live') = Cardinality(Live) + 1
  BY <1>1, LiveStep DEF Inv, ConnLabels, Open
<1>3. accs'[1].active = Cardinality(Live') /\ accs'[1].peak = accs[1].peak /\ accs[1].peak \in Int
  BY <1>1, <1>2 DEF GaugeExact, Stays, Inv, AccsOK, Acc
<1>4. new'[k] = Cardinality(Live) + 1 /\ pc'[k] = "peak"
  BY <1>1, <1>2, <1>3 DEF Inv, PlacesOK
<1>5. GaugeExact'
  BY <1>3 DEF GaugeExact
<1>6. ASSUME ~straddled'
      PROVE  \/ high' <= accs'[1].peak
             \/ \E h \in Conns : pc'[h] \in {"peak", "cas"} /\ high' <= new'[h]
  <2>0. ~straddled
    BY <1>1, <1>6
  <2>1. high \in Int /\ Cardinality(Live) + 1 \in Int
    BY <1>2 DEF Inv, PlacesOK
  <2>2. high' \in {high, Cardinality(Live) + 1}
    BY <1>1, <2>1, MaxOfTwo
  <2>3. CASE high' = Cardinality(Live) + 1
    BY <1>4, <2>1, <2>3
  <2>4. CASE high' = high
    <3>1. CASE high <= accs[1].peak
      BY <1>3, <2>4, <3>1
    <3>2. ASSUME NEW h \in Conns, pc[h] \in {"peak", "cas"}, high <= new[h]
          PROVE  pc'[h] \in {"peak", "cas"} /\ high' <= new'[h]
      BY <1>1, <2>4, <3>2 DEF Inv, PlacesOK
    <3> QED
      BY <2>0, <3>1, <3>2 DEF PeakInv
  <2> QED
    BY <2>2, <2>3, <2>4
<1>7. PeakInv'
  BY <1>1, <1>6 DEF PeakInv
<1> QED
  BY <1>5, <1>7

\* A connection raises the peak to what it has counted, or finds it high enough.
LEMMA RaisePeakPeak ==
  ASSUME Inv, GaugeExact, PeakInv, Stays, NEW k \in Conns, LoadPeak(k) \/ RaisePeak(k)
  PROVE  GaugeExact' /\ PeakInv'
<1>1. /\ pc[k] \in {"peak", "cas"} /\ ref[k] = 1 /\ 1 \in Accs /\ accs[1] \in Acc
      /\ UNCHANGED <<used, current, rpc, snap, high, straddled>>
  BY FirstOnly DEF LoadPeak, RaisePeak, rollVars, history, Inv, AccsOK, Busy
<1>2. PICK l \in {"peak", "cas", "open"} : pc' = [pc EXCEPT ![k] = l]
  BY DEF LoadPeak, RaisePeak, Opens, GotoConn
<1>3. Live' = Live
  BY <1>1, <1>2, LiveStep DEF Inv, ConnLabels, Open
<1>4. /\ accs'[1].active = accs[1].active
      /\ accs'[1].peak \in Int /\ accs[1].peak \in Int /\ new[k] \in Int /\ high \in Int
      /\ accs[1].peak <= accs'[1].peak
      /\ l = "open" => new[k] <= accs'[1].peak
      /\ l # "open" => UNCHANGED new
      /\ \A h \in Conns \ {k} : new'[h] = new[h]
  <2>1. CASE LoadPeak(k)
    BY <1>1, <1>2, <2>1 DEF LoadPeak, Opens, GotoConn, Inv, PlacesOK, Acc
  <2>2. CASE RaisePeak(k)
    <3>1. CASE accs[1].peak = cur[k]
      <4>1. /\ accs' = [accs EXCEPT ![1].peak = new[k]] /\ new' = [new EXCEPT ![k] = 0]
            /\ cur[k] < new[k] /\ pc'[k] = "open"
        BY <1>1, <2>2, <3>1 DEF RaisePeak, Opens, GotoConn, Inv, RefsOK, PlacesOK
      <4> QED
        BY <1>1, <1>2, <3>1, <4>1 DEF Inv, AccsOK, PlacesOK, Acc
    <3>2. CASE accs[1].peak # cur[k]
      BY <1>1, <1>2, <2>2, <3>2 DEF RaisePeak, GotoConn, Inv, PlacesOK, Acc
    <3> QED
      BY <3>1, <3>2
  <2> QED
    BY <2>1, <2>2
<1>5. GaugeExact'
  BY <1>1, <1>3, <1>4 DEF GaugeExact
<1>6. ASSUME ~straddled'
      PROVE  \/ high' <= accs'[1].peak
             \/ \E h \in Conns : pc'[h] \in {"peak", "cas"} /\ high' <= new'[h]
  <2>1. CASE high <= accs[1].peak
    BY <1>1, <1>4, <2>1
  <2>2. CASE \E h \in Conns : pc[h] \in {"peak", "cas"} /\ high <= new[h]
    <3>1. PICK h \in Conns : pc[h] \in {"peak", "cas"} /\ high <= new[h]
      BY <2>2
    <3>2. CASE h = k /\ l = "open"
      BY <1>1, <1>4, <3>1, <3>2
    <3>3. CASE h # k \/ l # "open"
      <4>1. pc'[h] \in {"peak", "cas"} /\ new'[h] = new[h]
        BY <1>2, <1>4, <3>1, <3>3 DEF Inv, PlacesOK
      <4> QED
        BY <1>1, <3>1, <4>1
    <3> QED
      BY <3>2, <3>3
  <2> QED
    BY <1>1, <1>6, <2>1, <2>2 DEF PeakInv
<1>7. PeakInv'
  BY <1>1, <1>3, <1>6 DEF PeakInv
<1> QED
  BY <1>5, <1>7

\* A connection that goes on, fails or ends.
LEMMA OtherConnPeak ==
  ASSUME Inv, GaugeExact, PeakInv, Stays, NEW k \in Conns,
         \/ ConnectionStarted(k) \/ ConnectionEnded(k) \/ CountFailed(k) \/ AddDuration(k)
         \/ Connected(k)
  PROVE  GaugeExact' /\ PeakInv'
<1>1. UNCHANGED <<used, current, new, rpc, snap, high, straddled>>
  BY DEF ConnectionStarted, ConnectionEnded, CountFailed, AddDuration, Count, Connected,
         rollVars, history
<1>2. accs'[1].active = accs[1].active /\ accs'[1].peak = accs[1].peak
  BY CountInv, FirstOnly DEF Connected
<1>3. PICK l \in ConnLabels :
        /\ pc' = [pc EXCEPT ![k] = l] /\ pc[k] \notin {"peak", "cas"}
        /\ pc[k] \in Open <=> l \in Open
  <2>1. CASE ConnectionStarted(k)
    BY <2>1, NoneAssumption DEF ConnectionStarted, Count, GotoConn, Stays, ConnLabels, Open
  <2>2. CASE ConnectionEnded(k)
    BY <2>2, NoneAssumption DEF ConnectionEnded, Count, GotoConn, Stays, ConnLabels, Open
  <2>3. CASE CountFailed(k)
    BY <2>3 DEF CountFailed, AfterFailed, GotoConn, ConnLabels, Open
  <2>4. CASE AddDuration(k)
    BY <2>4 DEF AddDuration, GotoConn, ConnLabels, Open
  <2>5. CASE Connected(k)
    BY <2>5 DEF Connected, GotoConn, ConnLabels, Open
  <2> QED
    BY <2>1, <2>2, <2>3, <2>4, <2>5
<1>4. Live' = Live
  BY <1>3, LiveStep DEF Inv
<1>5. \A h \in Conns : pc[h] \in {"peak", "cas"} => pc'[h] \in {"peak", "cas"} /\ new'[h] = new[h]
  BY <1>1, <1>3 DEF Inv, PlacesOK
<1> QED
  BY <1>1, <1>2, <1>4, <1>5, PeakSame

\* A connection takes itself off.
LEMMA DeactivatePeak ==
  ASSUME Inv, GaugeExact, PeakInv, Stays, NEW k \in Conns, Deactivate(k)
  PROVE  GaugeExact' /\ PeakInv'
<1>1. /\ pc[k] = "deactivate" /\ 1 \in Accs /\ accs[1] \in Acc
      /\ accs' = [accs EXCEPT ![1].active = @ - 1]
      /\ pc' = [pc EXCEPT ![k] = "duration"]
      /\ UNCHANGED <<used, current, new, rpc, snap, high, straddled>>
  BY FirstOnly DEF Deactivate, GotoConn, rollVars, history, Inv, AccsOK, Busy
<1>2. Cardinality(Live) \in Nat /\ Cardinality(Live') = Cardinality(Live) - 1
  BY <1>1, LiveStep DEF Inv, ConnLabels, Open
<1>3. accs'[1].active = Cardinality(Live') /\ accs'[1].peak = accs[1].peak
  BY <1>1, <1>2 DEF GaugeExact, Stays, Inv, AccsOK, Acc
<1>4. \A h \in Conns : pc[h] \in {"peak", "cas"} => pc'[h] = pc[h]
  BY <1>1 DEF Inv, PlacesOK
<1>5. snap.active \in Int
  BY DEF Inv, AccsOK, Snapshot
<1>6. rpc = "peak" /\ ~straddled => snap.active >= Cardinality(Live')
  BY <1>2, <1>5 DEF PeakInv
<1>7. GaugeExact'
  BY <1>3 DEF GaugeExact
<1>8. PeakInv'
  BY <1>1, <1>3, <1>4, <1>6 DEF PeakInv, Stays
<1> QED
  BY <1>7, <1>8

\* The rollup reads the gauge, and begins the next peak with what it has read.
LEMMA RollupPeak ==
  ASSUME Inv, GaugeExact, PeakInv, Stays, Rollup
  PROVE  GaugeExact' /\ PeakInv'
<1>1. UNCHANGED <<used, current, pc, new>> /\ Live' = Live
  BY DEF Rollup, Tick, SwapCounter, LoadActive, SwapPeak, Emit, connVars, Live
<1>2. rpc # "idle" => rref = 1 /\ 1 \in Accs /\ accs[1] \in Acc
  BY FirstOnly DEF Inv, AccsOK
<1>3. CASE Tick
  BY <1>1, <1>3, PeakSame DEF Tick, history
<1>4. CASE SwapCounter
  <2>1. rpc \in {"started", "ended", "failed", "stops"} /\ rpc' # "peak"
    BY <1>4 DEF SwapCounter, Follows
  <2>2. accs' = [accs EXCEPT ![1].n = Reset(accs[1].n, rpc)]
    BY <1>2, <1>4, <2>1 DEF SwapCounter
  <2>3. accs'[1].active = accs[1].active /\ accs'[1].peak = accs[1].peak
    BY <1>2, <2>1, <2>2 DEF Inv, AccsOK, Acc
  <2> QED
    BY <1>1, <1>4, <2>1, <2>3, PeakSame DEF SwapCounter, history
<1>5. CASE LoadActive
  <2>1. /\ rpc = "active" /\ UNCHANGED <<accs, high, straddled>>
        /\ snap'.active = accs[1].active
    BY <1>2, <1>5 DEF LoadActive, history, Inv, AccsOK, Snapshot
  <2>2. accs[1].active = Cardinality(Live') /\ accs[1].active \in Int
    BY <1>1, <1>2, <2>1 DEF GaugeExact, Stays, Acc
  <2> QED
    BY <1>1, <2>1, <2>2 DEF GaugeExact, PeakInv, Stays
<1>6. CASE SwapPeak
  <2>1. /\ rpc = "peak" /\ rpc' = "lock"
        /\ accs' = [accs EXCEPT ![1].peak = snap.active]
        /\ high' = Cardinality(Live)
    BY <1>2, <1>6 DEF SwapPeak, Seed
  <2>2. ~straddled' => ~straddled
    BY <1>6 DEF SwapPeak
  <2>3. accs'[1].active = accs[1].active /\ accs'[1].peak = snap.active
    BY <1>2, <2>1 DEF Inv, AccsOK, Acc
  <2>4. ~straddled => snap.active >= Cardinality(Live)
    BY <2>1 DEF PeakInv
  <2>5. snap.active \in Int /\ Cardinality(Live) \in Int
    <3>1. IsFiniteSet(Live)
      BY FiniteAssumption, FS_Subset DEF Live
    <3> QED
      BY <3>1, FS_CardinalityType DEF Inv, AccsOK, Snapshot
  <2>6. ~straddled => high' <= accs'[1].peak
    BY <2>1, <2>3, <2>4, <2>5
  <2>7. GaugeExact'
    BY <1>1, <2>3 DEF GaugeExact, Stays
  <2>8. PeakInv'
    BY <2>1, <2>2, <2>6 DEF PeakInv
  <2> QED
    BY <2>7, <2>8
<1>7. CASE Emit
  <2>1. /\ rpc = "lock" /\ rpc' = "idle" /\ UNCHANGED <<high, straddled>>
        /\ accs' = [accs EXCEPT ![rref].n["durations"] = 0, ![rref].uptime = 0,
                                ![rref].upAt = NextUpAt(accs[rref])]
    BY <1>7 DEF Emit
  <2>2. accs'[1].active = accs[1].active /\ accs'[1].peak = accs[1].peak
    BY <1>2, <2>1 DEF Inv, AccsOK, Acc
  <2> QED
    BY <1>1, <2>1, <2>2, PeakSame
<1> QED
  BY <1>3, <1>4, <1>5, <1>6, <1>7 DEF Rollup

\* Nothing is connected.
LEMMA InitPeak == Init => GaugeExact /\ PeakInv
<1> SUFFICES ASSUME Init PROVE GaugeExact /\ PeakInv
  OBVIOUS
<1>1. Live = {} /\ Cardinality(Live) = 0
  BY FS_EmptySet DEF Init, Live
<1>2. 1 \in Accs /\ accs[1] = Fresh
  BY BoundsAssumption DEF Init, Accs
<1> QED
  BY <1>1, <1>2 DEF Init, GaugeExact, PeakInv, Fresh

LEMMA NextPeak == Inv /\ GaugeExact /\ PeakInv /\ [Next]_vars => GaugeExact' /\ PeakInv'
<1> SUFFICES ASSUME Inv, GaugeExact, PeakInv, [Next]_vars PROVE GaugeExact' /\ PeakInv'
  OBVIOUS
<1>1. Stays' => Stays /\ ~UnregisterPort /\ ~RegisterPort
  <2>1. used \in Nat \ {0}
    BY MadeAreAccs DEF Inv, PlacesOK
  <2>2. CASE UnregisterPort
    BY <2>2, NoneAssumption DEF UnregisterPort, Stays
  <2>3. CASE RegisterPort
    BY <2>1, <2>3 DEF RegisterPort, Stays
  <2>4. ASSUME UNCHANGED <<used, current>>, ~UnregisterPort, ~RegisterPort
        PROVE  Stays' => Stays /\ ~UnregisterPort /\ ~RegisterPort
    BY <2>4 DEF Stays
  <2>5. UnregisterPort \/ RegisterPort \/ UNCHANGED <<used, current>>
    BY DEF Next, vars, Advance, Rollup, Tick, SwapCounter, LoadActive, SwapPeak, Emit,
           Connection, ConnectionStarted, ConnectionEnded, CountFailed, AddDuration, Count,
           Activate, LoadPeak, RaisePeak, Connected, Deactivate,
           Caller, ReportRunning, OnContainerRunning, ReportStopped, ContainerStopped
  <2> QED
    BY <2>2, <2>3, <2>4, <2>5
<1>2. CASE ~Stays'
  BY <1>2 DEF GaugeExact, PeakInv, Stays
<1>3. CASE Stays'
  <2>1. Stays /\ ~UnregisterPort /\ ~RegisterPort /\ 1 \in Accs
    BY <1>1, <1>3, FirstOnly
  <2>2. CASE Advance \/ UNCHANGED vars
    <3>1. UNCHANGED <<accs, used, current, pc, new, rpc, snap, high, straddled>> /\ Live' = Live
      BY <2>2 DEF Advance, vars, connVars, rollVars, history, Live
    <3> QED
      BY <2>1, <3>1, PeakSame
  <2>3. ASSUME NEW k \in Conns, Connection(k) PROVE GaugeExact' /\ PeakInv'
    BY <2>1, <2>3, ActivatePeak, RaisePeakPeak, OtherConnPeak, DeactivatePeak DEF Connection
  <2>4. ASSUME NEW g \in Callers, Caller(g) PROVE GaugeExact' /\ PeakInv'
    <3>1. UNCHANGED <<used, current, pc, new, rpc, snap, high, straddled>> /\ Live' = Live
      BY <2>4 DEF Caller, ReportRunning, OnContainerRunning, ReportStopped, ContainerStopped,
                  connVars, rollVars, history, Live
    <3>2. accs'[1].active = accs[1].active /\ accs'[1].peak = accs[1].peak
      BY <2>1, <2>4, CallerInv
    <3> QED
      BY <2>1, <3>1, <3>2, PeakSame
  <2> QED
    BY <2>1, <2>2, <2>3, <2>4, RollupPeak DEF Next
<1> QED
  BY <1>2, <1>3

\* activeConns is the number of connections between ConnectionStarted and ConnectionEnded
\* for as long as the port is not registered anew.
THEOREM GaugeCorrect == Spec => []GaugeExact
<1> QED
  BY InitPeak, NextPeak, InvCorrect, PTL DEF Spec

\* A snapshot has the most connections that were open at once since the previous one,
\* although Activate, the compare-and-swap loop and the rollup's two steps interleave,
\* unless a ConnectionStarted straddled those two steps.
THEOREM PeakCorrect == Spec => PeakCovers
<1>1. Inv /\ PeakInv /\ SwapPeak /\ used = 1 /\ current = 1 /\ ~straddled'
        => snap'.peak >= high
  <2> SUFFICES ASSUME Inv, PeakInv, SwapPeak, Stays, ~straddled' PROVE snap'.peak >= high
    BY DEF Stays
  <2>1. ~straddled /\ \A k \in Conns : pc[k] \notin {"peak", "cas"}
    BY DEF SwapPeak
  <2>2. high <= accs[1].peak
    BY <2>1 DEF PeakInv
  <2>3. rref = 1 /\ accs[1] \in Acc /\ snap \in Snapshot
    BY FirstOnly DEF SwapPeak, Inv, AccsOK
  <2>4. accs[1].peak \in Int /\ snap.active \in Int /\ high \in Int
    BY <2>3 DEF Acc, Snapshot, Inv, PlacesOK
  <2>5. snap'.peak = PeakOf(accs[1].peak, snap.active)
    BY <2>3 DEF SwapPeak, Snapshot
  <2>6. PeakOf(accs[1].peak, snap.active) \in Int
        /\ PeakOf(accs[1].peak, snap.active) >= accs[1].peak
    BY <2>4, MaxOfTwo DEF PeakOf
  <2> QED
    BY <2>2, <2>4, <2>5, <2>6
<1> QED
  BY <1>1, InitPeak, NextPeak, InvCorrect, PTL DEF Spec, PeakCovers

-----------------------------------------------------------------------------
(* The retry buffer: what is settled, and its invariant *)

\* A flush that has not begun, or is done, has nothing to write; windows that
\* have not come have no flush.
Settled ==
  /\ \A w \in Windows : flushPc[w] \in {"none", "done"} => todo[w] = <<>>
  /\ \A w \in Windows : w > now => flushPc[w] = "none"

RetryInv == RetryTypeOK /\ NoneLost /\ Settled

-----------------------------------------------------------------------------
(* Sequences *)

\* What a concatenation contains.
LEMMA ContainsConcat ==
  ASSUME NEW S, NEW q \in Seq(S), NEW r \in Seq(S)
  PROVE  \A e : Contains(q, e) \/ Contains(r, e) => Contains(q \o r, e)
<1> SUFFICES ASSUME NEW e, Contains(q, e) \/ Contains(r, e)
             PROVE  Contains(q \o r, e)
  OBVIOUS
<1>1. q \o r \in Seq(S) /\ Len(q \o r) = Len(q) + Len(r)
  BY ConcatProperties
<1>2. Len(q) \in Nat /\ Len(r) \in Nat
  BY LenProperties
<1>3. CASE Contains(q, e)
  <2>1. PICK i \in 1..Len(q) : q[i] = e
    BY <1>3 DEF Contains
  <2>2. i \in 1..Len(q \o r) /\ (q \o r)[i] = e
    BY <1>1, <1>2, <2>1, ConcatProperties
  <2> QED
    BY <2>2 DEF Contains
<1>4. CASE Contains(r, e)
  <2>1. PICK i \in 1..Len(r) : r[i] = e
    BY <1>4 DEF Contains
  <2>2. Len(q) + i \in 1..Len(q \o r) /\ (q \o r)[Len(q) + i] = e
    BY <1>1, <1>2, <2>1, ConcatProperties
  <2> QED
    BY <2>2 DEF Contains
<1> QED
  BY <1>3, <1>4

\* What a sequence contains is its head or in its tail.
LEMMA ContainsTail ==
  ASSUME NEW S, NEW q \in Seq(S), q # <<>>, NEW e, Contains(q, e)
  PROVE  e = Head(q) \/ Contains(Tail(q), e)
<1>1. Len(q) \in Nat \ {0} /\ Tail(q) \in Seq(S) /\ Len(Tail(q)) = Len(q) - 1
  BY HeadTailProperties, EmptySeq, LenProperties
<1>2. PICK i \in 1..Len(q) : q[i] = e
  BY DEF Contains
<1>3. CASE i = 1
  BY <1>2, <1>3, HeadTailProperties
<1>4. CASE i # 1
  <2>1. i - 1 \in 1..Len(Tail(q)) /\ Tail(q)[i - 1] = e
    BY <1>1, <1>2, <1>4, HeadTailProperties
  <2> QED
    BY <2>1 DEF Contains
<1> QED
  BY <1>3, <1>4

\* What a sequence contains once an element is appended.
LEMMA ContainsAppend ==
  ASSUME NEW S, NEW q \in Seq(S), NEW s \in S, NEW e, e = s \/ Contains(q, e)
  PROVE  Contains(Append(q, s), e)
<1>1. /\ Len(q) \in Nat /\ Len(Append(q, s)) = Len(q) + 1
      /\ \A i \in 1..Len(q) : Append(q, s)[i] = q[i]
      /\ Append(q, s)[Len(q) + 1] = s
  BY AppendProperties, LenProperties
<1> QED
  BY <1>1 DEF Contains

-----------------------------------------------------------------------------
(* The invariant *)

\* Nothing has been rolled up.
LEMMA RetryInitInv == RetryInit => RetryInv
<1> SUFFICES ASSUME RetryInit PROVE RetryInv
  OBVIOUS
<1>1. <<>> \in Seq(Snapshots) /\ Len(<<>>) = 0
  BY EmptySeq
<1>2. RetryTypeOK
  <2>1. overlap \in BOOLEAN
    BY DEF RetryInit
  <2> QED
    BY <1>1, <2>1, RetryBoundsAssumption DEF RetryInit, RetryTypeOK
<1>3. NoneLost
  BY RetryBoundsAssumption DEF RetryInit, NoneLost, Snapshots, Windows
<1>4. Settled
  BY DEF RetryInit, Settled
<1> QED
  BY <1>2, <1>3, <1>4 DEF RetryInv

\* A tick hands every snapshot of its window to the flush it starts.
LEMMA StartFlushInv ==
  ASSUME RetryInv, StartFlush
  PROVE  RetryInv'
<1>1. now' \in Windows /\ now' = now + 1 /\ now \in Nat
  BY RetryBoundsAssumption DEF RetryInv, RetryTypeOK, StartFlush, Windows
<1>2. PICK order \in SetToSeqs(Ports) :
        todo' = [todo EXCEPT ![now'] = [i \in DOMAIN order |-> <<now', order[i]>>]]
  BY DEF StartFlush
<1> DEFINE n == Cardinality(Ports)
           batch == [i \in DOMAIN order |-> <<now', order[i]>>]
<1>3. n \in Nat /\ order \in [1..n -> Ports]
  BY PortsAssumption, FS_CardinalityType DEF SetToSeqs
<1>4. \A p \in Ports : \E i \in 1..n : order[i] = p
  <2>1. order \in Injection(1..n, Ports)
    BY <1>3 DEF SetToSeqs, Injection, IsInjective
  <2>2. IsFiniteSet(1..n) /\ Cardinality(1..n) = n
    BY <1>3, FS_Interval
  <2>3. order \in Surjection(1..n, Ports)
    BY <2>1, <2>2, PortsAssumption, FS_Injection
  <2> QED
    BY <2>3 DEF Surjection
<1>5. batch \in Seq(Snapshots) /\ Len(batch) = n
  <2>1. \A i \in 1..n : batch[i] \in Snapshots
    BY <1>1, <1>3 DEF Snapshots
  <2> QED
    BY <1>3, <2>1, SeqDef, LenProperties
<1>6. RetryTypeOK'
  BY <1>1, <1>2, <1>5 DEF RetryInv, RetryTypeOK, StartFlush, Windows
<1>7. NoneLost'
  <2> SUFFICES ASSUME NEW s \in Snapshots, s[1] <= now'
               PROVE  \/ rows'[s] > 0 \/ s \in dropped'
                      \/ Contains(buf', s)
                      \/ \E w \in Windows : Contains(todo'[w], s)
    BY DEF NoneLost
  <2>1. CASE s[1] = now'
    <3>1. PICK i \in 1..n : order[i] = s[2]
      BY <1>4 DEF Snapshots
    <3>2. s = <<now', order[i]>>
      BY <2>1, <3>1 DEF Snapshots
    <3>3. Contains(batch, s)
      BY <1>3, <1>5, <3>2 DEF Contains
    <3> QED
      BY <1>1, <1>2, <3>3 DEF RetryInv, RetryTypeOK
  <2>2. CASE s[1] <= now
    <3>1. todo[now'] = <<>>
      BY <1>1 DEF RetryInv, Settled
    <3>2. ~Contains(<<>>, s)
      BY EmptySeq DEF Contains
    <3>3. \A w \in Windows : Contains(todo[w], s) => Contains(todo'[w], s)
      BY <1>2, <3>1, <3>2 DEF RetryInv, RetryTypeOK
    <3> QED
      BY <2>2, <3>3 DEF RetryInv, NoneLost, StartFlush
  <2> QED
    BY <1>1, <2>1, <2>2 DEF Snapshots, Windows
<1>8. Settled'
  BY <1>1, <1>2 DEF RetryInv, RetryTypeOK, Settled, StartFlush, Windows
<1> QED
  BY <1>6, <1>7, <1>8 DEF RetryInv

\* Draining moves what is buffered into the flush.
LEMMA DrainInv ==
  ASSUME RetryInv, NEW v \in Windows, Drain(v)
  PROVE  RetryInv'
<1> USE DEF Drain, TakeBuffer
<1>1. buf \in Seq(Snapshots) /\ todo[v] \in Seq(Snapshots)
  BY DEF RetryInv, RetryTypeOK
<1>2. buf \o todo[v] \in Seq(Snapshots) /\ <<>> \in Seq(Snapshots) /\ Len(<<>>) = 0
  BY <1>1, ConcatProperties, EmptySeq
<1>3. RetryTypeOK'
  BY <1>2, RetryBoundsAssumption DEF RetryInv, RetryTypeOK
<1>4. NoneLost'
  <2> SUFFICES ASSUME NEW s \in Snapshots, s[1] <= now,
                      Contains(buf, s) \/ \E w \in Windows : Contains(todo[w], s)
               PROVE  \E w \in Windows : Contains(todo'[w], s)
    BY DEF RetryInv, NoneLost
  <2>1. todo'[v] = buf \o todo[v] /\ \A w \in Windows \ {v} : todo'[w] = todo[w]
    BY DEF RetryInv, RetryTypeOK
  <2>2. \A e : Contains(buf, e) \/ Contains(todo[v], e) => Contains(buf \o todo[v], e)
    BY <1>1, ContainsConcat
  <2>3. Contains(buf, s) \/ Contains(todo[v], s) => Contains(todo'[v], s)
    BY <2>1, <2>2
  <2> QED
    BY <2>1, <2>3
<1>5. Settled'
  BY DEF RetryInv, RetryTypeOK, Settled
<1> QED
  BY <1>3, <1>4, <1>5 DEF RetryInv

\* A written snapshot leaves the flush and is in the table.
LEMMA WriteOkInv ==
  ASSUME RetryInv, NEW v \in Windows, WriteOk(v)
  PROVE  RetryInv'
<1> USE DEF WriteOk, Insert
<1>1. todo[v] \in Seq(Snapshots) /\ todo[v] # <<>>
  BY DEF RetryInv, RetryTypeOK
<1>2. Head(todo[v]) \in Snapshots /\ Tail(todo[v]) \in Seq(Snapshots)
  BY <1>1, HeadTailProperties, EmptySeq, LenProperties
<1>3. RetryTypeOK'
  BY <1>2 DEF RetryInv, RetryTypeOK
<1>4. NoneLost'
  <2> SUFFICES ASSUME NEW s \in Snapshots, s[1] <= now
               PROVE  \/ rows'[s] > 0 \/ s \in dropped
                      \/ Contains(buf, s)
                      \/ \E w \in Windows : Contains(todo'[w], s)
    BY DEF NoneLost
  <2>1. rows'[Head(todo[v])] > 0 /\ (rows[s] > 0 => rows'[s] > 0)
    BY <1>2 DEF RetryInv, RetryTypeOK
  <2>2. todo'[v] = Tail(todo[v]) /\ \A w \in Windows \ {v} : todo'[w] = todo[w]
    BY DEF RetryInv, RetryTypeOK
  <2>3. Contains(todo[v], s) => s = Head(todo[v]) \/ Contains(todo'[v], s)
    BY <1>1, <2>2, ContainsTail
  <2> QED
    BY <2>1, <2>2, <2>3 DEF RetryInv, NoneLost
<1>5. Settled'
  BY DEF RetryInv, RetryTypeOK, Settled
<1> QED
  BY <1>3, <1>4, <1>5 DEF RetryInv

\* A failed write keeps the snapshot in hand.
LEMMA WriteFailsInv ==
  ASSUME RetryInv, NEW v \in Windows, WriteFails(v)
  PROVE  RetryInv'
<1>1. todo[v] \in Seq(Snapshots) /\ todo[v] # <<>>
  BY DEF RetryInv, RetryTypeOK, WriteFails
<1>2. Head(todo[v]) \in Snapshots
  BY <1>1, HeadTailProperties, EmptySeq, LenProperties
<1>3. /\ rows' \in [Snapshots -> Nat]
      /\ \A s \in Snapshots : rows[s] > 0 => rows'[s] > 0
      /\ unsure' \subseteq Snapshots
  <2>1. rows \in [Snapshots -> Nat] /\ unsure \subseteq Snapshots
    BY DEF RetryInv, RetryTypeOK
  <2>2. CASE UNCHANGED <<rows, unsure>>
    BY <2>1, <2>2
  <2>3. CASE Insert(Head(todo[v])) /\ unsure' = unsure \cup {Head(todo[v])}
    BY <1>2, <2>1, <2>3 DEF Insert
  <2> QED
    BY <2>2, <2>3 DEF WriteFails
<1>4. RetryTypeOK'
  BY <1>1, <1>3, RetryBoundsAssumption DEF RetryInv, RetryTypeOK, WriteFails
<1>5. NoneLost'
  BY <1>3 DEF RetryInv, NoneLost, WriteFails
<1>6. Settled'
  BY DEF RetryInv, RetryTypeOK, Settled, WriteFails
<1> QED
  BY <1>4, <1>5, <1>6 DEF RetryInv

\* What is pushed back is in the buffer; what had to make room is recorded.
LEMMA PushInv ==
  ASSUME RetryInv, NEW v \in Windows, Push(v)
  PROVE  RetryInv'
<1> DEFINE rest == IF Full THEN Tail(buf) ELSE buf
<1>1. buf \in Seq(Snapshots) /\ Len(buf) <= Capacity /\ Len(buf) \in Nat
  BY LenProperties DEF RetryInv, RetryTypeOK
<1>2. todo[v] \in Seq(Snapshots) /\ todo[v] # <<>>
  BY DEF RetryInv, RetryTypeOK, Push
<1>3. Head(todo[v]) \in Snapshots /\ Tail(todo[v]) \in Seq(Snapshots)
  BY <1>2, HeadTailProperties, EmptySeq, LenProperties
<1>4. Full => buf # <<>> /\ Head(buf) \in Snapshots /\ Tail(buf) \in Seq(Snapshots)
              /\ Len(Tail(buf)) = Len(buf) - 1
  BY <1>1, HeadTailProperties, EmptySeq, RetryBoundsAssumption DEF Full
<1>5. rest \in Seq(Snapshots) /\ Len(rest) < Capacity /\ Len(rest) \in Nat
  BY <1>1, <1>4, RetryBoundsAssumption, LenProperties DEF Full
<1>6. buf' = Append(rest, Head(todo[v])) /\ dropped' = IF Full THEN dropped \cup {Head(buf)} ELSE dropped
  BY DEF Push, PushBack
<1>7. buf' \in Seq(Snapshots) /\ Len(buf') <= Capacity
  BY <1>3, <1>5, <1>6, AppendProperties, RetryBoundsAssumption
<1>8. RetryTypeOK'
  BY <1>3, <1>4, <1>6, <1>7 DEF RetryInv, RetryTypeOK, Push
<1>9. NoneLost'
  <2> SUFFICES ASSUME NEW s \in Snapshots, s[1] <= now
               PROVE  \/ rows[s] > 0 \/ s \in dropped'
                      \/ Contains(buf', s)
                      \/ \E w \in Windows : Contains(todo'[w], s)
    BY DEF NoneLost, Push
  <2>1. Contains(buf, s) => Contains(rest, s) \/ s \in dropped'
    BY <1>1, <1>4, <1>6, ContainsTail
  <2>2. Contains(rest, s) => Contains(buf', s)
    BY <1>3, <1>5, <1>6, ContainsAppend
  <2>3. todo'[v] = Tail(todo[v]) /\ \A w \in Windows \ {v} : todo'[w] = todo[w]
    BY DEF RetryInv, RetryTypeOK, Push
  <2>4. Contains(todo[v], s) => Contains(buf', s) \/ Contains(todo'[v], s)
    BY <1>2, <1>3, <1>5, <1>6, <2>3, ContainsTail, ContainsAppend
  <2> QED
    BY <1>6, <2>1, <2>2, <2>3, <2>4 DEF RetryInv, NoneLost
<1>10. Settled'
  BY DEF RetryInv, RetryTypeOK, Settled, Push
<1> QED
  BY <1>8, <1>9, <1>10 DEF RetryInv

\* A flush ends when it has nothing left.
LEMMA EndInv ==
  ASSUME RetryInv, NEW v \in Windows, FlushEnds(v)
  PROVE  RetryInv'
BY DEF RetryInv, RetryTypeOK, NoneLost, Settled, FlushEnds, NothingLeft

\* The invariant is inductive.
LEMMA RetryNextInv == RetryInv /\ [RetryNext]_retryVars => RetryInv'
<1> SUFFICES ASSUME RetryInv, [RetryNext]_retryVars PROVE RetryInv'
  OBVIOUS
<1>1. CASE StartFlush
  BY <1>1, StartFlushInv
<1>2. ASSUME NEW v \in Windows, Flush(v) PROVE RetryInv'
  BY <1>2, DrainInv, WriteOkInv, WriteFailsInv, PushInv, EndInv DEF Flush
<1>3. CASE UNCHANGED retryVars
  BY <1>3 DEF retryVars, RetryInv, RetryTypeOK, NoneLost, Settled
<1> QED
  BY <1>1, <1>2, <1>3 DEF RetryNext

-----------------------------------------------------------------------------
(* Where a snapshot is, and in what order *)

Distinct(q) == \A i, j \in 1..Len(q) : q[i] = q[j] => i = j
ByAge(q) == \A i, j \in 1..Len(q) : i < j => q[i][1] <= q[j][1]

\* Only windows that were rolled up have snapshots.
RolledUp ==
  \A s \in Snapshots :
    rows[s] > 0 \/ Contains(buf, s) \/ (\E w \in Windows : Contains(todo[w], s))
      => s[1] <= now

\* A snapshot is in the buffer or with one flush, once.
OnePlace ==
  /\ Distinct(buf) /\ \A w \in Windows : Distinct(todo[w])
  /\ \A s \in Snapshots, w \in Windows : Contains(todo[w], s) =>
       ~Contains(buf, s) /\ \A v \in Windows \ {w} : ~Contains(todo[v], s)

\* What was written, and known to be, is held no more.
OnceWritten ==
  \A s \in Snapshots \ unsure :
    /\ rows[s] <= 1
    /\ rows[s] = 1 => ~Contains(buf, s) /\ \A w \in Windows : ~Contains(todo[w], s)

AtWork(w) == flushPc[w] \in {"drain", "write", "push"}

\* While flushes do not overlap, what is buffered is older than what the one at work
\* holds, and both are in order.
Ordered ==
  ~overlap =>
    /\ \A v, w \in Windows : AtWork(v) /\ AtWork(w) => v = w
    /\ ByAge(buf) /\ \A w \in Windows : ByAge(todo[w])
    /\ \A w \in Windows, s, t \in Snapshots :
         Contains(buf, s) /\ Contains(todo[w], t) => s[1] <= t[1]

Order == RolledUp /\ OnePlace /\ OnceWritten /\ Ordered

\* An element is among what the sequence contains, and of its elements' type.
LEMMA ContainsAt ==
  ASSUME NEW S, NEW q \in Seq(S)
  PROVE  /\ \A i \in 1..Len(q) : Contains(q, q[i])
         /\ \A e : Contains(q, e) => e \in S /\ \E i \in 1..Len(q) : q[i] = e
BY ElementOfSeq DEF Contains

\* A concatenation contains no more than its parts, and is in order if they are.
LEMMA ConcatKeeps ==
  ASSUME NEW q \in Seq(Snapshots), NEW r \in Seq(Snapshots)
  PROVE  /\ \A e : Contains(q \o r, e) => Contains(q, e) \/ Contains(r, e)
         /\ Distinct(q) /\ Distinct(r)
              /\ (\A s \in Snapshots : ~(Contains(q, s) /\ Contains(r, s)))
              => Distinct(q \o r)
         /\ ByAge(q) /\ ByAge(r)
              /\ (\A s, t \in Snapshots : Contains(q, s) /\ Contains(r, t) => s[1] <= t[1])
              => ByAge(q \o r)
<1> DEFINE qr == q \o r
<1>1. /\ qr \in Seq(Snapshots) /\ Len(qr) = Len(q) + Len(r)
      /\ Len(q) \in Nat /\ Len(r) \in Nat
  BY ConcatProperties, LenProperties
<1>2. \A i \in 1..Len(qr) :
        \/ i \in 1..Len(q) /\ qr[i] = q[i] /\ Contains(q, qr[i])
        \/ /\ i \notin 1..Len(q) /\ i - Len(q) \in 1..Len(r)
           /\ qr[i] = r[i - Len(q)] /\ Contains(r, qr[i])
  <2> SUFFICES ASSUME NEW i \in 1..Len(qr)
               PROVE  \/ i \in 1..Len(q) /\ qr[i] = q[i] /\ Contains(q, qr[i])
                      \/ /\ i \notin 1..Len(q) /\ i - Len(q) \in 1..Len(r)
                         /\ qr[i] = r[i - Len(q)] /\ Contains(r, qr[i])
    OBVIOUS
  <2>1. qr[i] = IF i <= Len(q) THEN q[i] ELSE r[i - Len(q)]
    BY <1>1, ConcatProperties
  <2>2. CASE i <= Len(q)
    BY <1>1, <2>1, <2>2, ContainsAt
  <2>3. CASE ~(i <= Len(q))
    <3>1. i - Len(q) \in 1..Len(r) /\ i \notin 1..Len(q)
      BY <1>1, <2>3
    <3> QED
      BY <2>1, <2>3, <3>1, ContainsAt
  <2> QED
    BY <2>2, <2>3
<1>3. ASSUME NEW e, Contains(qr, e) PROVE Contains(q, e) \/ Contains(r, e)
  <2>1. PICK i \in 1..Len(qr) : qr[i] = e
    BY <1>3 DEF Contains
  <2> QED
    BY <1>2, <2>1
<1>4. ASSUME Distinct(q), Distinct(r), \A s \in Snapshots : ~(Contains(q, s) /\ Contains(r, s))
      PROVE  Distinct(qr)
  <2> SUFFICES ASSUME NEW i \in 1..Len(qr), NEW j \in 1..Len(qr), qr[i] = qr[j]
               PROVE  i = j
    BY DEF Distinct
  <2>1. qr[i] \in Snapshots
    BY <1>1, ElementOfSeq
  <2>2. i \in 1..Len(q) <=> j \in 1..Len(q)
    BY <1>2, <1>4, <2>1
  <2>3. CASE i \in 1..Len(q)
    BY <1>2, <1>4, <2>2, <2>3 DEF Distinct
  <2>4. CASE i \notin 1..Len(q)
    <3>1. i - Len(q) = j - Len(q)
      BY <1>2, <1>4, <2>2, <2>4 DEF Distinct
    <3> QED
      BY <1>1, <3>1
  <2> QED
    BY <2>3, <2>4
<1>5. ASSUME ByAge(q), ByAge(r),
             \A s, t \in Snapshots : Contains(q, s) /\ Contains(r, t) => s[1] <= t[1]
      PROVE  ByAge(qr)
  <2> SUFFICES ASSUME NEW i \in 1..Len(qr), NEW j \in 1..Len(qr), i < j
               PROVE  qr[i][1] <= qr[j][1]
    BY DEF ByAge
  <2>1. qr[i] \in Snapshots /\ qr[j] \in Snapshots
    BY <1>1, ElementOfSeq
  <2>2. CASE j \in 1..Len(q)
    <3>1. i \in 1..Len(q)
      BY <1>1, <2>2
    <3> QED
      BY <1>2, <1>5, <2>2, <3>1 DEF ByAge
  <2>3. CASE i \in 1..Len(q) /\ j \notin 1..Len(q)
    BY <1>2, <1>5, <2>1, <2>3
  <2>4. CASE i \notin 1..Len(q) /\ j \notin 1..Len(q)
    <3>1. /\ i - Len(q) \in 1..Len(r) /\ qr[i] = r[i - Len(q)]
          /\ j - Len(q) \in 1..Len(r) /\ qr[j] = r[j - Len(q)]
      BY <1>2, <2>4
    <3>2. i - Len(q) < j - Len(q)
      BY <1>1
    <3> QED
      BY <1>5, <3>1, <3>2 DEF ByAge
  <2> QED
    BY <2>2, <2>3, <2>4
<1> QED
  BY <1>3, <1>4, <1>5

\* What is left when the head is taken.
LEMMA TailKeeps ==
  ASSUME NEW q \in Seq(Snapshots), q # <<>>
  PROVE  /\ Contains(q, Head(q)) /\ Head(q) \in Snapshots
         /\ \A e : Contains(Tail(q), e) => Contains(q, e)
         /\ Distinct(q) => Distinct(Tail(q)) /\ ~Contains(Tail(q), Head(q))
         /\ ByAge(q) => ByAge(Tail(q)) /\ \A e : Contains(Tail(q), e) => Head(q)[1] <= e[1]
<1> DEFINE r == Tail(q)
<1>1. /\ Len(q) \in Nat \ {0} /\ Len(r) = Len(q) - 1
      /\ Head(q) = q[1] /\ Head(q) \in Snapshots /\ r \in Seq(Snapshots)
      /\ \A i \in 1..Len(r) : r[i] = q[i + 1]
  BY HeadTailProperties, EmptySeq
<1>2. 1 \in 1..Len(q) /\ \A i \in 1..Len(r) : i + 1 \in 1..Len(q) /\ 1 < i + 1 /\ 1 # i + 1
  BY <1>1
<1>3. Contains(q, Head(q))
  BY <1>1, <1>2, ContainsAt
<1>6. ASSUME NEW e, Contains(r, e) PROVE Contains(q, e)
  <2>1. PICK i \in 1..Len(r) : r[i] = e
    BY <1>6 DEF Contains
  <2> QED
    BY <1>1, <1>2, <2>1, ContainsAt
<1>4. Distinct(q) => Distinct(r) /\ ~Contains(r, Head(q))
  <2> SUFFICES ASSUME Distinct(q) PROVE Distinct(r) /\ ~Contains(r, Head(q))
    OBVIOUS
  <2>1. \A i, j \in 1..Len(r) : r[i] = r[j] => i + 1 = j + 1
    BY <1>1, <1>2 DEF Distinct
  <2>2. Distinct(r)
    BY <1>1, <2>1 DEF Distinct
  <2>3. \A i \in 1..Len(r) : r[i] # Head(q)
    BY <1>1, <1>2 DEF Distinct
  <2> QED
    BY <2>2, <2>3 DEF Contains
<1>5. ByAge(q) => ByAge(r) /\ \A e : Contains(r, e) => Head(q)[1] <= e[1]
  <2> SUFFICES ASSUME ByAge(q) PROVE ByAge(r) /\ \A e : Contains(r, e) => Head(q)[1] <= e[1]
    OBVIOUS
  <2>1. \A i, j \in 1..Len(r) : i < j => r[i][1] <= r[j][1]
    BY <1>1, <1>2 DEF ByAge
  <2>2. \A i \in 1..Len(r) : Head(q)[1] <= r[i][1]
    BY <1>1, <1>2 DEF ByAge
  <2>3. ASSUME NEW e, Contains(r, e) PROVE Head(q)[1] <= e[1]
    <3>1. PICK i \in 1..Len(r) : r[i] = e
      BY <2>3 DEF Contains
    <3> QED
      BY <2>2, <3>1
  <2> QED
    BY <2>1, <2>3 DEF ByAge
<1> QED
  BY <1>1, <1>3, <1>4, <1>5, <1>6

\* What one more snapshot at the end changes.
LEMMA AppendKeeps ==
  ASSUME NEW q \in Seq(Snapshots), NEW s \in Snapshots
  PROVE  /\ \A e : Contains(Append(q, s), e) => e = s \/ Contains(q, e)
         /\ Distinct(q) /\ ~Contains(q, s) => Distinct(Append(q, s))
         /\ ByAge(q) /\ (\A e \in Snapshots : Contains(q, e) => e[1] <= s[1])
              => ByAge(Append(q, s))
<1> DEFINE r == Append(q, s)
<1>1. /\ r \in Seq(Snapshots) /\ Len(q) \in Nat /\ Len(r) = Len(q) + 1
      /\ \A i \in 1..Len(q) : r[i] = q[i] /\ Contains(q, r[i])
      /\ r[Len(q) + 1] = s
  BY AppendProperties, LenProperties, ContainsAt
<1>2. \A i \in 1..Len(r) : i \in 1..Len(q) \/ i = Len(q) + 1
  BY <1>1
<1>3. ASSUME NEW e, Contains(r, e) PROVE e = s \/ Contains(q, e)
  <2>1. PICK i \in 1..Len(r) : r[i] = e
    BY <1>3 DEF Contains
  <2> QED
    BY <1>1, <1>2, <2>1
<1>4. ASSUME Distinct(q), ~Contains(q, s) PROVE Distinct(r)
  BY <1>1, <1>2, <1>4 DEF Distinct
<1>5. ASSUME ByAge(q), \A e \in Snapshots : Contains(q, e) => e[1] <= s[1] PROVE ByAge(r)
  <2> SUFFICES ASSUME NEW i \in 1..Len(r), NEW j \in 1..Len(r), i < j
               PROVE  r[i][1] <= r[j][1]
    BY DEF ByAge
  <2>1. i \in 1..Len(q) /\ r[i] \in Snapshots
    BY <1>1, ElementOfSeq
  <2>2. CASE j \in 1..Len(q)
    BY <1>1, <1>5, <2>1, <2>2 DEF ByAge
  <2>3. CASE j = Len(q) + 1
    BY <1>1, <1>5, <2>1, <2>3
  <2> QED
    BY <1>2, <2>2, <2>3
<1> QED
  BY <1>3, <1>4, <1>5

\* The empty sequence is in order and contains nothing.
LEMMA EmptyKeeps == Distinct(<<>>) /\ ByAge(<<>>) /\ \A e : ~Contains(<<>>, e)
BY EmptySeq DEF Distinct, ByAge, Contains

\* Nothing is anywhere.
LEMMA InitOrder == RetryInit => Order
<1> SUFFICES ASSUME RetryInit PROVE Order
  OBVIOUS
<1>1. buf = <<>> /\ \A w \in Windows : todo[w] = <<>> /\ flushPc[w] = "none"
  BY DEF RetryInit
<1>2. \A s \in Snapshots : rows[s] = 0
  BY DEF RetryInit
<1> QED
  BY <1>1, <1>2, EmptyKeeps DEF Order, RolledUp, OnePlace, OnceWritten, Ordered, AtWork

\* What a tick hands to the flush it starts is of its window, each snapshot once.
LEMMA BatchOrder ==
  ASSUME RetryInv, StartFlush
  PROVE  \E batch \in Seq(Snapshots) :
           /\ todo' = [todo EXCEPT ![now'] = batch]
           /\ Distinct(batch) /\ ByAge(batch)
           /\ \A e : Contains(batch, e) => e[1] = now'
<1>1. now' \in Windows /\ now' = now + 1 /\ now \in Nat
  BY RetryBoundsAssumption DEF RetryInv, RetryTypeOK, StartFlush, Windows
<1>2. PICK order \in SetToSeqs(Ports) :
        todo' = [todo EXCEPT ![now'] = [i \in DOMAIN order |-> <<now', order[i]>>]]
  BY DEF StartFlush
<1> DEFINE n == Cardinality(Ports)
           batch == [i \in DOMAIN order |-> <<now', order[i]>>]
<1>3. /\ n \in Nat /\ order \in [1..n -> Ports]
      /\ \A i, j \in 1..n : i # j => order[i] # order[j]
  BY PortsAssumption, FS_CardinalityType DEF SetToSeqs
<1>4. \A i \in 1..n : batch[i] = <<now', order[i]>> /\ batch[i] \in Snapshots
  BY <1>1, <1>3 DEF Snapshots
<1>5. batch \in Seq(Snapshots) /\ Len(batch) = n
  BY <1>3, <1>4, SeqDef, LenProperties
<1> HIDE DEF batch
<1>6. Distinct(batch) /\ ByAge(batch)
  <2>1. \A i \in 1..n : batch[i][1] = now' /\ batch[i][2] = order[i]
    BY <1>4
  <2>2. Distinct(batch)
    BY <1>3, <1>5, <2>1 DEF Distinct
  <2>3. ByAge(batch)
    BY <1>1, <1>5, <2>1 DEF ByAge
  <2> QED
    BY <2>2, <2>3
<1>7. \A e : Contains(batch, e) => e[1] = now'
  BY <1>4, <1>5 DEF Contains
<1> QED
  BY <1>2, <1>5, <1>6, <1>7 DEF batch

\* The batch of a tick is new: what is older is elsewhere.
LEMMA StartFlushOrder ==
  ASSUME RetryInv, Order, StartFlush
  PROVE  Order'
<1>1. now' \in Windows /\ now' = now + 1 /\ now \in Nat
  BY RetryBoundsAssumption DEF RetryInv, RetryTypeOK, StartFlush, Windows
<1>2. PICK batch \in Seq(Snapshots) :
           /\ todo' = [todo EXCEPT ![now'] = batch]
           /\ Distinct(batch) /\ ByAge(batch)
           /\ \A e : Contains(batch, e) => e[1] = now'
  BY BatchOrder
<1>3. todo'[now'] = batch /\ \A w \in Windows \ {now'} : todo'[w] = todo[w]
  BY <1>1, <1>2 DEF RetryInv, RetryTypeOK
<1>4. buf' = buf /\ rows' = rows /\ unsure' = unsure
  BY DEF StartFlush
<1>5. \A s \in Snapshots, w \in Windows : Contains(todo'[w], s) =>
        \/ w = now' /\ s[1] = now'
        \/ w # now' /\ Contains(todo[w], s) /\ s[1] <= now
  BY <1>2, <1>3 DEF Order, RolledUp
<1>6. \A s \in Snapshots : Contains(buf, s) \/ rows[s] > 0 => s[1] <= now
  BY DEF Order, RolledUp
<1>7. RolledUp'
  <2> SUFFICES ASSUME NEW s \in Snapshots,
                      rows[s] > 0 \/ Contains(buf, s) \/ \E w \in Windows : Contains(todo'[w], s)
               PROVE  s[1] <= now'
    BY <1>4 DEF RolledUp
  <2>1. s[1] \in Nat
    BY DEF Snapshots, Windows
  <2> QED
    BY <1>1, <1>5, <1>6, <2>1
<1>8. OnePlace'
  <2>1. Distinct(buf') /\ \A w \in Windows : Distinct(todo'[w])
    BY <1>2, <1>3, <1>4 DEF Order, OnePlace
  <2>2. ASSUME NEW s \in Snapshots, NEW w \in Windows, Contains(todo'[w], s)
        PROVE  ~Contains(buf', s) /\ \A v \in Windows \ {w} : ~Contains(todo'[v], s)
    <3>1. CASE s[1] = now'
      <4>1. ~(s[1] <= now)
        BY <1>1, <3>1
      <4>2. ~Contains(buf', s) /\ \A v \in Windows : Contains(todo'[v], s) => v = now'
        BY <1>4, <1>5, <1>6, <4>1
      <4> QED
        BY <2>2, <4>2
    <3>2. CASE s[1] # now'
      BY <1>4, <1>5, <2>2, <3>2 DEF Order, OnePlace
    <3> QED
      BY <3>1, <3>2
  <2> QED
    BY <2>1, <2>2 DEF OnePlace
<1>9. OnceWritten'
  <2> SUFFICES ASSUME NEW s \in Snapshots \ unsure
               PROVE  /\ rows[s] <= 1
                      /\ rows[s] = 1 => ~Contains(buf, s) /\ \A w \in Windows : ~Contains(todo'[w], s)
    BY <1>4 DEF OnceWritten
  <2>1. rows[s] <= 1 /\ (rows[s] = 1 => ~Contains(buf, s) /\ \A w \in Windows : ~Contains(todo[w], s))
    BY DEF Order, OnceWritten
  <2>2. rows[s] = 1 => s[1] # now'
    BY <1>1, <1>6
  <2>3. rows[s] = 1 => \A w \in Windows : ~Contains(todo'[w], s)
    BY <1>5, <2>1, <2>2
  <2> QED
    BY <2>1, <2>3
<1>10. Ordered'
  <2> SUFFICES ASSUME ~overlap'
               PROVE  /\ \A v, w \in Windows : AtWork(v)' /\ AtWork(w)' => v = w
                      /\ ByAge(buf) /\ \A w \in Windows : ByAge(todo'[w])
                      /\ \A w \in Windows, s, t \in Snapshots :
                           Contains(buf, s) /\ Contains(todo'[w], t) => s[1] <= t[1]
    BY <1>4 DEF Ordered
  <2>1. ~overlap /\ \A w \in Windows : ~AtWork(w)
    BY DEF StartFlush, AtWork
  <2>2. \A w \in Windows : AtWork(w)' => w = now'
    BY <2>1 DEF StartFlush, AtWork, RetryInv, RetryTypeOK
  <2>3. ByAge(buf) /\ \A w \in Windows : ByAge(todo'[w])
    BY <1>2, <1>3, <2>1 DEF Order, Ordered
  <2>4. ASSUME NEW w \in Windows, NEW s \in Snapshots, NEW u \in Snapshots,
               Contains(buf, s), Contains(todo'[w], u)
        PROVE  s[1] <= u[1]
    <3>1. CASE w = now'
      <4>1. s[1] <= now /\ u[1] = now' /\ s[1] \in Nat
        BY <1>1, <1>5, <1>6, <2>4, <3>1 DEF Snapshots, Windows
      <4> QED
        BY <1>1, <4>1
    <3>2. CASE w # now'
      BY <1>5, <2>1, <2>4, <3>2 DEF Order, Ordered
    <3> QED
      BY <3>1, <3>2
  <2> QED
    BY <2>2, <2>3, <2>4
<1> QED
  BY <1>7, <1>8, <1>9, <1>10 DEF Order

\* The buffer moves into the flush that drains it, before what that holds.
LEMMA DrainOrder ==
  ASSUME RetryInv, Order, NEW v \in Windows, Drain(v)
  PROVE  Order'
<1>1. buf \in Seq(Snapshots) /\ todo[v] \in Seq(Snapshots)
  BY DEF RetryInv, RetryTypeOK
<1>2. /\ buf' = <<>> /\ todo'[v] = buf \o todo[v]
      /\ \A w \in Windows \ {v} : todo'[w] = todo[w]
      /\ now' = now /\ rows' = rows /\ unsure' = unsure /\ overlap' = overlap
  BY DEF Drain, TakeBuffer, RetryInv, RetryTypeOK
<1>3. ~\E e : Contains(buf', e)
  BY <1>2, EmptyKeeps
<1>4. \A e, w : w \in Windows /\ Contains(todo'[w], e) =>
        Contains(todo[w], e) \/ (w = v /\ Contains(buf, e))
  BY <1>1, <1>2, ConcatKeeps
<1>5. RolledUp'
  BY <1>2, <1>3, <1>4 DEF Order, RolledUp
<1>6. OnePlace'
  <2>1. Distinct(buf') /\ \A w \in Windows : Distinct(todo'[w])
    <3>1. Distinct(buf) /\ Distinct(todo[v])
          /\ \A s \in Snapshots : ~(Contains(buf, s) /\ Contains(todo[v], s))
      BY DEF Order, OnePlace
    <3>2. Distinct(buf \o todo[v])
      BY <1>1, <3>1, ConcatKeeps
    <3> QED
      BY <1>2, <3>2, EmptyKeeps DEF Order, OnePlace
  <2> QED
    BY <1>3, <1>4, <2>1 DEF Order, OnePlace
<1>7. OnceWritten'
  BY <1>2, <1>3, <1>4 DEF Order, OnceWritten
<1>8. Ordered'
  <2> SUFFICES ASSUME ~overlap PROVE Ordered'
    BY <1>2 DEF Ordered
  <2>1. \A w \in Windows : AtWork(w)' <=> AtWork(w)
    BY DEF Drain, AtWork, RetryInv, RetryTypeOK
  <2>2. ByAge(buf \o todo[v])
    <3>1. /\ ByAge(buf) /\ ByAge(todo[v])
          /\ \A s, t \in Snapshots : Contains(buf, s) /\ Contains(todo[v], t) => s[1] <= t[1]
      BY DEF Order, Ordered
    <3> QED
      BY <1>1, <3>1, ConcatKeeps
  <2>3. ByAge(buf') /\ \A w \in Windows : ByAge(todo'[w])
    BY <1>2, <2>2, EmptyKeeps DEF Order, Ordered
  <2> QED
    BY <1>3, <2>1, <2>3 DEF Order, Ordered
<1> QED
  BY <1>5, <1>6, <1>7, <1>8 DEF Order

\* What is written leaves the only flush that held it.
LEMMA WriteOkOrder ==
  ASSUME RetryInv, Order, NEW v \in Windows, WriteOk(v)
  PROVE  Order'
<1> DEFINE h == Head(todo[v])
<1>1. todo[v] \in Seq(Snapshots) /\ todo[v] # <<>>
  BY DEF RetryInv, RetryTypeOK, WriteOk
<1>2. /\ Contains(todo[v], h) /\ h \in Snapshots
      /\ \A e : Contains(Tail(todo[v]), e) => Contains(todo[v], e)
      /\ Distinct(Tail(todo[v])) /\ ~Contains(Tail(todo[v]), h)
  BY <1>1, TailKeeps DEF Order, OnePlace
<1>3. /\ todo'[v] = Tail(todo[v]) /\ \A w \in Windows \ {v} : todo'[w] = todo[w]
      /\ buf' = buf /\ now' = now /\ unsure' = unsure /\ overlap' = overlap /\ flushPc' = flushPc
  BY DEF WriteOk, RetryInv, RetryTypeOK
<1>4. rows'[h] = rows[h] + 1 /\ \A s \in Snapshots \ {h} : rows'[s] = rows[s]
  BY <1>2 DEF WriteOk, Insert, RetryInv, RetryTypeOK
<1>5. \A e, w : w \in Windows /\ Contains(todo'[w], e) => Contains(todo[w], e)
  BY <1>2, <1>3
<1>6. RolledUp'
  BY <1>2, <1>3, <1>4, <1>5 DEF Order, RolledUp
<1>7. OnePlace'
  <2>1. \A w \in Windows : Distinct(todo'[w])
    BY <1>2, <1>3 DEF Order, OnePlace
  <2> QED
    BY <1>3, <1>5, <2>1 DEF Order, OnePlace
<1>8. OnceWritten'
  <2>1. h \notin unsure => rows[h] = 0
    BY <1>2 DEF Order, OnceWritten, RetryInv, RetryTypeOK
  <2>2. ~Contains(buf, h) /\ \A w \in Windows : ~Contains(todo'[w], h)
    BY <1>2, <1>3 DEF Order, OnePlace
  <2> QED
    BY <1>3, <1>4, <1>5, <2>1, <2>2 DEF Order, OnceWritten
<1>9. Ordered'
  <2> SUFFICES ASSUME ~overlap PROVE Ordered'
    BY <1>3 DEF Ordered
  <2>1. ByAge(Tail(todo[v]))
    BY <1>1, TailKeeps DEF Order, Ordered
  <2> QED
    BY <1>3, <1>5, <2>1 DEF Order, Ordered, AtWork
<1> QED
  BY <1>6, <1>7, <1>8, <1>9 DEF Order

\* A failed write moves nothing; a row it left without an answer is recorded.
LEMMA WriteFailsOrder ==
  ASSUME RetryInv, Order, NEW v \in Windows, WriteFails(v)
  PROVE  Order'
<1> DEFINE h == Head(todo[v])
<1>1. todo[v] \in Seq(Snapshots) /\ todo[v] # <<>>
  BY DEF RetryInv, RetryTypeOK, WriteFails
<1>2. Contains(todo[v], h) /\ h \in Snapshots
  BY <1>1, TailKeeps
<1>3. buf' = buf /\ todo' = todo /\ now' = now /\ overlap' = overlap
  BY DEF WriteFails
<1>4. /\ unsure \subseteq unsure' /\ (h \in unsure' \/ rows' = rows)
      /\ \A s \in Snapshots \ {h} : rows'[s] = rows[s]
  BY <1>2 DEF WriteFails, Insert, RetryInv, RetryTypeOK
<1>5. RolledUp'
  BY <1>2, <1>3, <1>4 DEF Order, RolledUp
<1>6. OnePlace'
  BY <1>3 DEF Order, OnePlace
<1>7. OnceWritten'
  BY <1>3, <1>4 DEF Order, OnceWritten
<1>8. Ordered'
  <2>1. \A w \in Windows : AtWork(w)' <=> AtWork(w)
    BY DEF WriteFails, AtWork, RetryInv, RetryTypeOK
  <2> QED
    BY <1>3, <2>1 DEF Order, Ordered
<1> QED
  BY <1>5, <1>6, <1>7, <1>8 DEF Order

\* What is pushed back moves to the end of the buffer, behind nothing newer.
LEMMA PushOrder ==
  ASSUME RetryInv, Order, NEW v \in Windows, Push(v)
  PROVE  Order'
<1> DEFINE rest == IF Full THEN Tail(buf) ELSE buf
           h == Head(todo[v])
<1>1. todo[v] \in Seq(Snapshots) /\ todo[v] # <<>>
  BY DEF RetryInv, RetryTypeOK, Push
<1>2. /\ Contains(todo[v], h) /\ h \in Snapshots
      /\ \A e : Contains(Tail(todo[v]), e) => Contains(todo[v], e)
      /\ Distinct(Tail(todo[v])) /\ ~Contains(Tail(todo[v]), h)
  BY <1>1, TailKeeps DEF Order, OnePlace
<1>3. buf \in Seq(Snapshots) /\ (Full => buf # <<>>)
  BY RetryBoundsAssumption, EmptySeq DEF RetryInv, RetryTypeOK, Full
<1>4. /\ rest \in Seq(Snapshots) /\ Distinct(rest)
      /\ \A e : Contains(rest, e) => Contains(buf, e)
      /\ ByAge(buf) => ByAge(rest)
  <2>1. Distinct(buf)
    BY DEF Order, OnePlace
  <2>2. CASE Full
    BY <1>3, <2>1, <2>2, TailKeeps, HeadTailProperties
  <2>3. CASE ~Full
    BY <1>3, <2>1, <2>3
  <2> QED
    BY <2>2, <2>3
<1>5. /\ buf' = Append(rest, h)
      /\ todo'[v] = Tail(todo[v]) /\ \A w \in Windows \ {v} : todo'[w] = todo[w]
      /\ now' = now /\ rows' = rows /\ unsure' = unsure /\ overlap' = overlap
  BY DEF Push, PushBack, RetryInv, RetryTypeOK
<1> HIDE DEF rest, h
<1>6. /\ \A e : Contains(buf', e) => e = h \/ Contains(buf, e)
      /\ \A e, w : w \in Windows /\ Contains(todo'[w], e) => Contains(todo[w], e)
  BY <1>2, <1>4, <1>5, AppendKeeps
<1>7. /\ ~Contains(buf, h) /\ \A w \in Windows : ~Contains(todo'[w], h)
      /\ h[1] <= now
  BY <1>2, <1>5 DEF Order, OnePlace, RolledUp
<1>8. RolledUp'
  BY <1>5, <1>6, <1>7 DEF Order, RolledUp
<1>9. OnePlace'
  <2>1. Distinct(buf')
    BY <1>2, <1>4, <1>5, <1>7, AppendKeeps
  <2>2. \A w \in Windows : Distinct(todo'[w])
    BY <1>2, <1>5 DEF Order, OnePlace
  <2>3. ASSUME NEW s \in Snapshots, NEW w \in Windows, Contains(todo'[w], s)
        PROVE  ~Contains(buf', s) /\ \A u \in Windows \ {w} : ~Contains(todo'[u], s)
    BY <1>6, <1>7, <2>3 DEF Order, OnePlace
  <2> QED
    BY <2>1, <2>2, <2>3 DEF OnePlace
<1>10. OnceWritten'
  <2>1. ASSUME NEW s \in Snapshots \ unsure, rows[s] = 1
        PROVE  ~Contains(buf', s) /\ \A w \in Windows : ~Contains(todo'[w], s)
    BY <1>2, <1>6, <2>1 DEF Order, OnceWritten
  <2> QED
    BY <1>5, <2>1 DEF Order, OnceWritten
<1>11. Ordered'
  <2> SUFFICES ASSUME ~overlap
               PROVE  /\ \A u, w \in Windows : AtWork(u)' /\ AtWork(w)' => u = w
                      /\ ByAge(buf') /\ \A w \in Windows : ByAge(todo'[w])
                      /\ \A w \in Windows, s, t \in Snapshots :
                           Contains(buf', s) /\ Contains(todo'[w], t) => s[1] <= t[1]
    BY <1>5 DEF Ordered
  <2>1. \A w \in Windows : AtWork(w)' <=> AtWork(w)
    BY DEF Push, AtWork, RetryInv, RetryTypeOK
  <2>2. /\ ByAge(todo[v]) /\ ByAge(buf)
        /\ \A w \in Windows, s, t \in Snapshots :
             Contains(buf, s) /\ Contains(todo[w], t) => s[1] <= t[1]
    BY DEF Order, Ordered
  <2>3. /\ ByAge(Tail(todo[v]))
        /\ \A e : Contains(Tail(todo[v]), e) => h[1] <= e[1]
    BY <1>1, <2>2, TailKeeps DEF h
  <2>4. ByAge(buf')
    <3>1. \A e \in Snapshots : Contains(rest, e) => e[1] <= h[1]
      BY <1>2, <1>4, <2>2
    <3> QED
      BY <1>2, <1>4, <1>5, <2>2, <3>1, AppendKeeps
  <2>5. \A w \in Windows : ByAge(todo'[w])
    BY <1>5, <2>3 DEF Order, Ordered
  <2>6. \A w \in Windows \ {v} : todo'[w] = <<>>
    <3>1. \A w \in Windows \ {v} : ~AtWork(w)
      BY DEF Push, AtWork, Order, Ordered
    <3> QED
      BY <1>5, <3>1 DEF RetryInv, RetryTypeOK, Settled, AtWork
  <2>7. ASSUME NEW w \in Windows, NEW s \in Snapshots, NEW u \in Snapshots,
               Contains(buf', s), Contains(todo'[w], u)
        PROVE  s[1] <= u[1]
    <3>1. w = v
      BY <2>6, <2>7, EmptyKeeps
    <3>2. CASE s = h
      BY <1>5, <2>3, <2>7, <3>1, <3>2
    <3>3. CASE Contains(buf, s)
      BY <1>6, <2>2, <2>7, <3>3
    <3> QED
      BY <1>6, <2>7, <3>2, <3>3
  <2> QED
    BY <2>1, <2>4, <2>5, <2>7 DEF Order, Ordered
<1> QED
  BY <1>8, <1>9, <1>10, <1>11 DEF Order

\* A flush that ends is at work no more.
LEMMA EndOrder ==
  ASSUME RetryInv, Order, NEW v \in Windows, FlushEnds(v)
  PROVE  Order'
<1>1. \A w \in Windows : AtWork(w)' => AtWork(w)
  BY DEF FlushEnds, AtWork, RetryInv, RetryTypeOK
<1>2. /\ buf' = buf /\ todo' = todo /\ now' = now /\ rows' = rows
      /\ unsure' = unsure /\ overlap' = overlap
  BY DEF FlushEnds
<1> QED
  BY <1>1, <1>2 DEF Order, RolledUp, OnePlace, OnceWritten, Ordered

\* Both together are inductive.
LEMMA NextOrder == RetryInv /\ Order /\ [RetryNext]_retryVars => Order'
<1> SUFFICES ASSUME RetryInv, Order, [RetryNext]_retryVars PROVE Order'
  OBVIOUS
<1>1. CASE StartFlush
  BY <1>1, StartFlushOrder
<1>2. ASSUME NEW v \in Windows, Flush(v) PROVE Order'
  BY <1>2, DrainOrder, WriteOkOrder, WriteFailsOrder, PushOrder, EndOrder DEF Flush
<1>3. CASE UNCHANGED retryVars
  BY <1>3 DEF retryVars, Order, RolledUp, OnePlace, OnceWritten, Ordered, AtWork
<1> QED
  BY <1>1, <1>2, <1>3 DEF RetryNext

-----------------------------------------------------------------------------
(* Theorems *)

\* The retry buffer never exceeds its capacity, and a failed snapshot is in hand.
THEOREM RetryTypeCorrect == RetrySpec => []RetryTypeOK
<1>1. RetryInv => RetryTypeOK
  BY DEF RetryInv
<1> QED
  BY <1>1, RetryInitInv, RetryNextInv, PTL DEF RetrySpec

\* No snapshot is lost but by the overflow of the buffer.
THEOREM NoneLostCorrect == RetrySpec => []NoneLost
<1>1. RetryInv => NoneLost
  BY DEF RetryInv
<1> QED
  BY <1>1, RetryInitInv, RetryNextInv, PTL DEF RetrySpec

\* When every flush is done, what is missing in the table is in the buffer.
THEOREM OnlyBufferWaitsCorrect == RetrySpec => []OnlyBufferWaits
<1>1. RetryInv => OnlyBufferWaits
  <2> SUFFICES ASSUME RetryInv, \A w \in 1..now : flushPc[w] = "done",
                      NEW s \in Snapshots, s[1] <= now, rows[s] = 0, s \notin dropped
               PROVE  Contains(buf, s)
    BY DEF OnlyBufferWaits
  <2>1. \A w \in Windows : todo[w] = <<>>
    BY RetryBoundsAssumption DEF RetryInv, RetryTypeOK, Settled, Windows
  <2>2. ~Contains(<<>>, s)
    BY EmptySeq DEF Contains
  <2> QED
    BY <2>1, <2>2 DEF RetryInv, NoneLost
<1> QED
  BY <1>1, RetryInitInv, RetryNextInv, PTL DEF RetrySpec

\* Whatever flushes overlap and whichever writes fail, no snapshot is in two places,
\* nor written twice unless the answer to a committed write was lost.
THEOREM NotTwiceCorrect == RetrySpec => []NotTwice
<1>1. RetryInv /\ Order => NotTwice
  <2> SUFFICES ASSUME RetryInv, Order PROVE NotTwice
    OBVIOUS
  <2>1. /\ DOMAIN buf = 1..Len(buf) /\ \A w \in Windows : DOMAIN todo[w] = 1..Len(todo[w])
        /\ buf \in Seq(Snapshots) /\ \A w \in Windows : todo[w] \in Seq(Snapshots)
    BY LenProperties DEF RetryInv, RetryTypeOK
  <2>2. ASSUME NEW place \in Held
        PROVE  \/ /\ place[1] = 0 /\ place[2] \in 1..Len(buf) /\ At(place) = buf[place[2]]
                  /\ Contains(buf, At(place)) /\ place = <<0, place[2]>>
               \/ /\ place[1] \in Windows /\ place[2] \in 1..Len(todo[place[1]])
                  /\ At(place) = todo[place[1]][place[2]]
                  /\ Contains(todo[place[1]], At(place)) /\ place = <<place[1], place[2]>>
    <3>1. CASE place \in {0} \X DOMAIN buf
      <4>1. place[1] = 0 /\ place[2] \in 1..Len(buf) /\ place = <<0, place[2]>>
        BY <2>1, <3>1
      <4>2. At(place) = buf[place[2]]
        BY <4>1 DEF At
      <4> QED
        BY <4>1, <4>2 DEF Contains
    <3>2. CASE \E w \in Windows : place \in {w} \X DOMAIN todo[w]
      <4>1. /\ place[1] \in Windows /\ place[2] \in 1..Len(todo[place[1]])
            /\ place = <<place[1], place[2]>>
        BY <2>1, <3>2
      <4>2. At(place) = todo[place[1]][place[2]]
        BY <4>1 DEF At, Windows
      <4> QED
        BY <4>1, <4>2 DEF Contains
    <3> QED
      BY <2>2, <3>1, <3>2 DEF Held
  <2>3. \A place \in Held : At(place) \in Snapshots
    BY <2>1, <2>2, ContainsAt
  <2>4. ASSUME NEW p \in Held, NEW q \in Held, At(p) = At(q) PROVE p = q
    <3>1. p[1] = q[1]
      BY <2>2, <2>3, <2>4 DEF Order, OnePlace
    <3>2. p[2] = q[2]
      BY <2>2, <2>4, <3>1 DEF Order, OnePlace, Distinct, Windows
    <3> QED
      BY <2>2, <3>1, <3>2
  <2>5. ASSUME NEW s \in Snapshots \ unsure, rows[s] = 1, NEW place \in Held
        PROVE  At(place) # s
    BY <2>2, <2>5 DEF Order, OnceWritten
  <2> QED
    BY <2>4, <2>5 DEF NotTwice, Order, OnceWritten
<1> QED
  BY <1>1, RetryInitInv, RetryNextInv, InitOrder, NextOrder, PTL DEF RetrySpec

\* As long as no flush outlasts a tick, the buffer is in order of age, so that what a
\* full one drops is its oldest snapshot.
THEOREM OldestFirstCorrect == RetrySpec => []OldestFirst
<1>1. RetryInv /\ Order => OldestFirst
  <2> SUFFICES ASSUME RetryInv, Order, ~overlap, NEW i \in DOMAIN buf, NEW j \in DOMAIN buf, i < j
               PROVE  buf[i][1] <= buf[j][1]
    BY DEF OldestFirst
  <2>1. DOMAIN buf = 1..Len(buf)
    BY LenProperties DEF RetryInv, RetryTypeOK
  <2> QED
    BY <2>1 DEF Order, Ordered, ByAge
<1> QED
  BY <1>1, RetryInitInv, RetryNextInv, InitOrder, NextOrder, PTL DEF RetrySpec
=============================================================================
