--------------------------- MODULE MetricsCollector ---------------------------
(***************************************************************************)
(* The metrics of one port mapping: the accumulator of Collector and its   *)
(* rollup (internal/metrics/collector.go).                                 *)
(*                                                                         *)
(* Connections, and the callers that report starts and stops of the        *)
(* container, look the accumulator up and then update it field by field;   *)
(* the rollup swaps the same fields one after the other.  A reload of the  *)
(* configuration unregisters the port and registers it again, which makes a*)
(* new accumulator while old connections are still open.  bytesSent,       *)
(* bytesReceived and the cold-start figures are kept like the counters     *)
(* modelled here and are left out; of the durations only their number is   *)
(* kept.                                                                   *)
(***************************************************************************)
EXTENDS Integers, FiniteSets, FiniteSetsExt

CONSTANTS
  Conns,      \* connections to the port
  Callers,    \* goroutines that report starts and stops of the container
  MaxAccs,    \* bound: registrations of the port
  MaxReports, \* bound: starts and stops reported
  MaxRollups, \* bound: ticks of Run
  MaxTime,    \* bound: the clock
  None        \* no accumulator

ASSUME FiniteAssumption == IsFiniteSet(Conns) /\ IsFiniteSet(Callers)
ASSUME BoundsAssumption ==
  MaxAccs \in Nat \ {0} /\ MaxReports \in Nat /\ MaxRollups \in Nat /\ MaxTime \in Nat
ASSUME NoneAssumption == None \notin Nat

Accs == 1..MaxAccs
Counters == {"started", "ended", "failed", "durations", "stops"}

VARIABLES
  clock,    \* time.Now
  current,  \* c.ports[k]: an accumulator, or None
  accs,     \* the accumulators, also those no longer in the map
  used,     \* accumulators made so far
  pc,       \* where each connection is
  ref,      \* the accumulator get returned to a connection
  new,      \* newActive of a connection
  cur,      \* the peak a connection has loaded
  cpc,      \* where each caller is
  cref,     \* the accumulator get returned to a caller
  at,       \* the time a caller has read
  reports,  \* starts and stops reported so far
  rpc,      \* where the rollup is
  rref,     \* the accumulator it rolls up
  end,      \* windowEnd
  snap,     \* the snapshot it builds
  ticks,    \* rollups so far
  calls,    \* history: increments made of each counter of each accumulator
  sent,     \* history: what the snapshots of each accumulator add up to
  uptimes,  \* history: the uptime in the snapshots of each accumulator
  worth,    \* history: stop times less start times of each accumulator
  up,       \* history: the last report was that the container runs
  high,     \* history: most live connections since the peak was last swapped
  straddled \* history: a ConnectionStarted has straddled a swap of the peak

connVars == <<pc, ref, new, cur>>
callerVars == <<cpc, cref, at, reports>>
rollVars == <<rpc, rref, end, snap, ticks>>
history == <<calls, sent, uptimes, worth, up, high, straddled>>
vars == <<clock, current, accs, used, connVars, callerVars, rollVars, history>>

Zero == [c \in Counters |-> 0]
Fresh == [n |-> Zero, active |-> 0, peak |-> 0, running |-> FALSE, upAt |-> 0, uptime |-> 0]

Blank == [n |-> Zero, active |-> 0, peak |-> 0]  \* a snapshot before it is filled in

\* Connections past ConnectionStarted that ConnectionEnded has not taken off.
Live == {k \in Conns : pc[k] \in {"peak", "cas", "open", "fail", "end", "deactivate"}}

Add(a, c) ==
  /\ accs' = [accs EXCEPT ![a].n[c] = @ + 1]
  /\ calls' = [calls EXCEPT ![a][c] = @ + 1]

Advance ==
  /\ clock < MaxTime /\ clock' = clock + 1
  /\ UNCHANGED <<current, accs, used, connVars, callerVars, rollVars, history>>

-----------------------------------------------------------------------------
(* The map of accumulators *)

UnregisterPort ==
  /\ current # None /\ used < MaxAccs
  /\ current' = None
  /\ UNCHANGED <<clock, accs, used, connVars, callerVars, rollVars, history>>

\* A port that is in the map keeps its accumulator: only a missing one is made.
RegisterPort ==
  /\ current = None
  /\ used' = used + 1 /\ current' = used'
  /\ UNCHANGED <<clock, accs, connVars, callerVars, rollVars, history>>

-----------------------------------------------------------------------------
(* A connection: ConnectionStarted, then ConnectionFailed or not, then       *)
(* ConnectionEnded, as handleConn calls them                                 *)

GotoConn(k, label) == pc' = [pc EXCEPT ![k] = label]

\* c.get and the counter that each call begins with, in one step: whether the map
\* changes before or after that update makes no difference.  Nothing is recorded when
\* the port is not in the map.
Count(k, c, from, found, missing) ==
  /\ pc[k] = from
  /\ ref' = [ref EXCEPT ![k] = current]
  /\ IF current = None
     THEN UNCHANGED <<accs, calls>> /\ GotoConn(k, missing)
     ELSE Add(current, c) /\ GotoConn(k, found)
  /\ UNCHANGED <<clock, current, used, new, cur, callerVars, rollVars,
                 sent, uptimes, worth, up, high, straddled>>

ConnectionStarted(k) == Count(k, "started", "idle", "activate", "open")

Activate(k) ==
  /\ pc[k] = "activate"
  /\ accs' = [accs EXCEPT ![ref[k]].active = @ + 1]
  /\ new' = [new EXCEPT ![k] = accs'[ref[k]].active]
  /\ GotoConn(k, "peak")
  /\ high' = Max({high, Cardinality(Live) + 1})
  /\ straddled' = (straddled \/ rpc = "peak")
  /\ UNCHANGED <<clock, current, used, ref, cur, callerVars, rollVars,
                 calls, sent, uptimes, worth, up>>

\* The compare-and-swap loop that raises peakConns; what it has read is then forgotten.
Opens(k) ==
  /\ GotoConn(k, "open")
  /\ new' = [new EXCEPT ![k] = 0] /\ cur' = [cur EXCEPT ![k] = 0] /\ ref' = [ref EXCEPT ![k] = None]

LoadPeak(k) ==
  /\ pc[k] = "peak"
  /\ IF new[k] <= accs[ref[k]].peak
     THEN Opens(k)
     ELSE /\ cur' = [cur EXCEPT ![k] = accs[ref[k]].peak]
          /\ GotoConn(k, "cas") /\ UNCHANGED <<ref, new>>
  /\ UNCHANGED <<clock, current, accs, used, callerVars, rollVars, history>>

RaisePeak(k) ==
  /\ pc[k] = "cas"
  /\ IF accs[ref[k]].peak = cur[k]
     THEN Opens(k) /\ accs' = [accs EXCEPT ![ref[k]].peak = new[k]]
     ELSE GotoConn(k, "peak") /\ UNCHANGED <<accs, ref, new, cur>>
  /\ UNCHANGED <<clock, current, used, callerVars, rollVars, history>>

FailedReturnsEarly == "gone"  \* regression: a failed connection skips ConnectionEnded
AfterFailed == "end"

\* The container does not start or the dial attempts run out.
CountFailed(k) ==
  /\ pc[k] = "fail"
  /\ IF current = None THEN UNCHANGED <<accs, calls>> ELSE Add(current, "failed")
  /\ GotoConn(k, AfterFailed)
  /\ UNCHANGED <<clock, current, used, ref, new, cur, callerVars, rollVars,
                 sent, uptimes, worth, up, high, straddled>>

Connected(k) ==
  /\ pc[k] = "open"
  /\ GotoConn(k, "end") \/ GotoConn(k, "fail")
  /\ UNCHANGED <<clock, current, accs, used, ref, new, cur, callerVars, rollVars, history>>

ConnectionEnded(k) == Count(k, "ended", "end", "deactivate", "gone")

Deactivate(k) ==
  /\ pc[k] = "deactivate"
  /\ accs' = [accs EXCEPT ![ref[k]].active = @ - 1]
  /\ GotoConn(k, "duration")
  /\ UNCHANGED <<clock, current, used, ref, new, cur, callerVars, rollVars, history>>

AddDuration(k) ==
  /\ pc[k] = "duration"
  /\ Add(ref[k], "durations")
  /\ GotoConn(k, "gone") /\ ref' = [ref EXCEPT ![k] = None]
  /\ UNCHANGED <<clock, current, used, new, cur, callerVars, rollVars,
                 sent, uptimes, worth, up, high, straddled>>

Connection(k) ==
  \/ ConnectionStarted(k) \/ Activate(k)
  \/ LoadPeak(k) \/ RaisePeak(k) \/ Connected(k) \/ CountFailed(k)
  \/ ConnectionEnded(k) \/ Deactivate(k) \/ AddDuration(k)

-----------------------------------------------------------------------------
(* Starts and stops of the container *)

Returns(g) ==
  /\ cpc' = [cpc EXCEPT ![g] = "idle"]
  /\ at' = [at EXCEPT ![g] = 0] /\ cref' = [cref EXCEPT ![g] = None]

\* OnContainerRunning is given the time by its caller, who read it before.
ReportRunning(g) ==
  /\ cpc[g] = "idle" /\ reports < MaxReports
  /\ reports' = reports + 1 /\ up' = TRUE
  /\ at' = [at EXCEPT ![g] = clock]
  /\ cpc' = [cpc EXCEPT ![g] = "running"]
  /\ UNCHANGED <<clock, current, accs, used, connVars, cref, rollVars,
                 calls, sent, uptimes, worth, high, straddled>>

\* get and the locked section of OnContainerRunning; a no-op while running.
OnContainerRunning(g) ==
  /\ cpc[g] = "running"
  /\ IF current = None \/ accs[current].running
     THEN UNCHANGED <<accs, worth>>
     ELSE /\ accs' = [accs EXCEPT ![current].running = TRUE, ![current].upAt = at[g]]
          /\ worth' = [worth EXCEPT ![current] = @ - at[g]]
  /\ Returns(g)
  /\ UNCHANGED <<clock, current, used, connVars, reports, rollVars,
                 calls, sent, uptimes, up, high, straddled>>

\* ContainerStopped counts the stop, reads the time, then takes the lock.
ReportStopped(g) ==
  /\ cpc[g] = "idle" /\ reports < MaxReports
  /\ reports' = reports + 1 /\ up' = FALSE
  /\ IF current = None
     THEN UNCHANGED <<accs, calls, cpc, cref, at>>
     ELSE /\ Add(current, "stops")
          /\ cpc' = [cpc EXCEPT ![g] = "stopped"]
          /\ at' = [at EXCEPT ![g] = clock] /\ cref' = [cref EXCEPT ![g] = current]
  /\ UNCHANGED <<clock, current, used, connVars, rollVars, sent, uptimes, worth,
                 high, straddled>>

ContainerStopped(g) ==
  /\ cpc[g] = "stopped"
  /\ IF accs[cref[g]].running
     THEN /\ accs' = [accs EXCEPT ![cref[g]].running = FALSE,
                                  ![cref[g]].uptime = @ + at[g] - accs[cref[g]].upAt]
          /\ worth' = [worth EXCEPT ![cref[g]] = @ + at[g]]
     ELSE UNCHANGED <<accs, worth>>
  /\ Returns(g)
  /\ UNCHANGED <<clock, current, used, connVars, reports, rollVars,
                 calls, sent, uptimes, up, high, straddled>>

Caller(g) == ReportRunning(g) \/ OnContainerRunning(g) \/ ReportStopped(g) \/ ContainerStopped(g)

-----------------------------------------------------------------------------
(* The rollup *)

\* ticker.C: windowEnd is read and the accumulators collected.
Tick ==
  /\ rpc = "idle" /\ current # None
  /\ ticks < MaxRollups /\ ticks' = ticks + 1
  /\ end' = clock /\ rref' = current
  /\ rpc' = "started"
  /\ UNCHANGED <<clock, current, accs, used, connVars, callerVars, snap, history>>

Follows == [started |-> "ended", ended |-> "failed", failed |-> "stops", stops |-> "active"]

ResetAll(n, c) == Zero  \* regression: the first swap resets every counter
Reset(n, c) == [n EXCEPT ![c] = 0]

\* Swap(0), one counter after the other.
SwapCounter ==
  /\ rpc \in DOMAIN Follows
  /\ snap' = [snap EXCEPT !.n[rpc] = accs[rref].n[rpc]]
  /\ accs' = [accs EXCEPT ![rref].n = Reset(@, rpc)]
  /\ rpc' = Follows[rpc]
  /\ UNCHANGED <<clock, current, used, connVars, callerVars, rref, end, ticks, history>>

LoadActive ==
  /\ rpc = "active"
  /\ snap' = [snap EXCEPT !.active = accs[rref].active]
  /\ rpc' = "peak"
  /\ UNCHANGED <<clock, current, accs, used, connVars, callerVars, rref, end, ticks, history>>

PeakAsIs(peak, active) == peak  \* regression: not raised to the connections open now
PeakOf(peak, active) == Max({peak, active})

SeedNone(active) == 0  \* regression: connections open across windows are forgotten
Seed(active) == active

\* The peak of the next window begins with the connections open now.
SwapPeak ==
  /\ rpc = "peak"
  /\ snap' = [snap EXCEPT !.peak = PeakOf(accs[rref].peak, snap.active)]
  /\ accs' = [accs EXCEPT ![rref].peak = Seed(snap.active)]
  /\ rpc' = "lock"
  /\ high' = Cardinality(Live)
  /\ straddled' = (straddled \/ \E k \in Conns : pc[k] \in {"peak", "cas"})
  /\ UNCHANGED <<clock, current, used, connVars, callerVars, rref, end, ticks,
                 calls, sent, uptimes, worth, up>>

UptimeSince(acc) == acc.uptime + IF acc.running THEN end - acc.upAt ELSE 0

NextUpAtKept(acc) == acc.upAt  \* regression: the next window counts this one again
NextUpAt(acc) == IF acc.running THEN end ELSE acc.upAt

\* The locked section: uptime up to windowEnd, and the durations.
Emit ==
  /\ rpc = "lock"
  /\ LET acc == accs[rref] IN
       /\ accs' = [accs EXCEPT ![rref].n["durations"] = 0, ![rref].uptime = 0,
                               ![rref].upAt = NextUpAt(acc)]
       /\ sent' = [sent EXCEPT ![rref] = [c \in Counters |->
                     @[c] + IF c = "durations" THEN acc.n[c] ELSE snap.n[c]]]
       /\ uptimes' = [uptimes EXCEPT ![rref] = @ + UptimeSince(acc)]
  /\ rpc' = "idle" /\ rref' = None /\ end' = 0 /\ snap' = Blank
  /\ UNCHANGED <<clock, current, used, connVars, callerVars, ticks,
                 calls, worth, up, high, straddled>>

Rollup == Tick \/ SwapCounter \/ LoadActive \/ SwapPeak \/ Emit

-----------------------------------------------------------------------------

Next ==
  \/ Advance \/ UnregisterPort \/ RegisterPort \/ Rollup
  \/ \E k \in Conns : Connection(k)
  \/ \E g \in Callers : Caller(g)

Init ==
  /\ clock = 0 /\ current = 1 /\ used = 1
  /\ accs = [a \in Accs |-> Fresh]
  /\ pc = [k \in Conns |-> "idle"] /\ ref = [k \in Conns |-> None]
  /\ new = [k \in Conns |-> 0] /\ cur = [k \in Conns |-> 0]
  /\ cpc = [g \in Callers |-> "idle"] /\ cref = [g \in Callers |-> None]
  /\ at = [g \in Callers |-> 0] /\ reports = 0
  /\ rpc = "idle" /\ rref = None /\ end = 0 /\ snap = Blank /\ ticks = 0
  /\ calls = [a \in Accs |-> Zero] /\ sent = [a \in Accs |-> Zero]
  /\ uptimes = [a \in Accs |-> 0] /\ worth = [a \in Accs |-> 0]
  /\ up = FALSE /\ high = 0 /\ straddled = FALSE

Spec == Init /\ [][Next]_vars

-----------------------------------------------------------------------------
(* Properties *)

\* Every variable keeps its type, and the peak of a finished snapshot is not below
\* its live connections.
TypeOK ==
  /\ clock \in 0..MaxTime /\ used \in Accs /\ current \in 1..used \cup {None}
  /\ \A a \in Accs :
       /\ accs[a].n \in [Counters -> Nat] /\ accs[a].running \in BOOLEAN
       /\ {accs[a].active, accs[a].peak, accs[a].upAt, accs[a].uptime} \subseteq Int
  /\ pc \in [Conns -> {"idle", "activate", "peak", "cas", "open", "fail",
                        "end", "deactivate", "duration", "gone"}]
  /\ ref \in [Conns -> Accs \cup {None}] /\ new \in [Conns -> Int] /\ cur \in [Conns -> Int]
  /\ cpc \in [Callers -> {"idle", "running", "stopped"}]
  /\ cref \in [Callers -> Accs \cup {None}] /\ at \in [Callers -> 0..MaxTime]
  /\ rpc \in {"idle", "active", "peak", "lock"} \cup DOMAIN Follows
  /\ rref \in Accs \cup {None} /\ end \in 0..MaxTime
  /\ snap.n \in [Counters -> Nat]
  /\ rpc = "lock" => snap.peak >= snap.active

\* Whatever the interleaving of calls and swaps, each call is counted exactly once: in
\* a snapshot that was sent, in the one being built, or in the accumulator, which is
\* the one the call looked up even if the port has been registered anew since.
NothingLost ==
  \A a \in Accs, c \in Counters :
    calls[a][c] = sent[a][c] + accs[a].n[c] + (IF a = rref THEN snap.n[c] ELSE 0)

\* While the port stays registered, activeConns is the number of live connections.
GaugeExact == used = 1 /\ current = 1 => accs[1].active = Cardinality(Live)

\* README.md:278, connections_peak: "Peak concurrent connections during the window".
\* While the port stays registered a snapshot has the most connections that were open
\* at once since the previous one, those open all along included, unless a ConnectionStarted was between raising
\* the gauge and raising the peak while the rollup read the one and swapped the other.
PeakCovers ==
  [][SwapPeak /\ used = 1 /\ current = 1 /\ ~straddled' => snap'.peak >= high]_vars

\* Over all snapshots of an accumulator the uptime adds up to the time between the
\* starts and the stops it was told of: neither gaps nor overlaps between windows.
UptimeConserved ==
  \A a \in Accs :
    uptimes[a] + accs[a].uptime = worth[a] + (IF accs[a].running THEN accs[a].upAt ELSE 0)

-----------------------------------------------------------------------------
(* What the documentation says and the code does not do *)

\* README.md:277, connections_active: "Live connections at the end of the window",
\* of which there cannot be less than none.
LiveGauge == [][LoadActive => snap'.active >= 0]_vars

\* README.md:286, uptime_ms_total: "Milliseconds the container was running during
\* the window", which cannot be less than none.
UptimeNotNegative == [][Emit => UptimeSince(accs[rref]) >= 0]_vars

\* README.md:293, "Windows are contiguous [...], so uptime_ms_total has no gaps": a
\* container known to run is one whose time is being counted.
UptimeHasNoGaps ==
  up /\ current # None /\ (\A g \in Callers : cpc[g] = "idle") => accs[current].running
=============================================================================
