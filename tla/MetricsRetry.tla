----------------------------- MODULE MetricsRetry -----------------------------
(***************************************************************************)
(* How metric snapshots reach PostgreSQL: Collector.Run and flush          *)
(* (internal/metrics/collector.go) with the retry buffer and the writes of *)
(* internal/metrics/postgres.go.                                           *)
(*                                                                         *)
(* Each tick of Run takes one snapshot per port and starts a flush in a    *)
(* goroutine of its own; a flush that is still writing when the next tick  *)
(* comes runs beside the new one.  A flush drains the retry buffer, writes *)
(* what it drained and then its own batch, and pushes back what fails.     *)
(* Window w is also the name of the flush that its tick starts.            *)
(*                                                                         *)
(* The names are distinct from those of MetricsCollector, the other half   *)
(* of the package, so that one module can extend both.                     *)
(***************************************************************************)
EXTENDS Integers, Sequences, SequencesExt, FiniteSets

CONSTANTS
  Ports,       \* port mappings with an accumulator
  Capacity,    \* size of the retry buffer (5)
  MaxWindows,  \* bound: ticks of Run
  MaxFailures  \* bound: writes that fail

ASSUME PortsAssumption == IsFiniteSet(Ports)
ASSUME RetryBoundsAssumption ==
  Capacity \in Nat \ {0} /\ MaxWindows \in Nat /\ MaxFailures \in Nat

Windows == 1..MaxWindows
Snapshots == Windows \X Ports

VARIABLES
  now,       \* ticks so far: windows 1..now have been rolled up
  buf,       \* retryBuffer.buf, oldest first
  todo,      \* todo[w]: snapshots flush w has still to write, in order
  flushPc,   \* flushPc[w]: where flush w is
  rows,      \* rows[s]: rows of proxy_metrics that hold snapshot s
  failures,  \* writes that failed so far
  dropped,   \* history: snapshots pushed out of the full buffer
  unsure,    \* history: snapshots whose write committed but was reported as failed
  overlap    \* history: a flush has begun while another was at work

retryVars == <<now, buf, todo, flushPc, rows, failures, dropped, unsure, overlap>>

\* ticker.C: the window is rolled up, the ports in any order (that of a Go map),
\* and go c.flush(ctx, snaps) started.
StartFlush ==
  /\ now < MaxWindows
  /\ now' = now + 1
  /\ \E order \in SetToSeqs(Ports) :
       todo' = [todo EXCEPT ![now'] = [i \in DOMAIN order |-> <<now', order[i]>>]]
  /\ flushPc' = [flushPc EXCEPT ![now'] = "drain"]
  /\ overlap' = (overlap \/ \E w \in Windows : flushPc[w] \in {"drain", "write", "push"})
  /\ UNCHANGED <<buf, rows, failures, dropped, unsure>>

DrainLast(w) ==  \* regression: the new batch is written first
  /\ todo' = [todo EXCEPT ![w] = @ \o buf]
  /\ buf' = <<>>

DrainKeeps(w) ==  \* regression: the buffer is read but not emptied
  /\ todo' = [todo EXCEPT ![w] = buf \o @]
  /\ UNCHANGED buf

\* retry.drain: what is buffered is written before the flush's own batch.
TakeBuffer(w) ==
  /\ todo' = [todo EXCEPT ![w] = buf \o @]
  /\ buf' = <<>>

Drain(w) ==
  /\ flushPc[w] = "drain"
  /\ TakeBuffer(w)
  /\ flushPc' = [flushPc EXCEPT ![w] = "write"]
  /\ UNCHANGED <<now, rows, failures, dropped, unsure, overlap>>

\* write inserts a row; nothing makes the snapshot unique in the table.
Insert(s) == rows' = [rows EXCEPT ![s] = @ + 1]

WriteOk(w) ==
  /\ flushPc[w] = "write" /\ todo[w] # <<>>
  /\ Insert(Head(todo[w]))
  /\ todo' = [todo EXCEPT ![w] = Tail(@)]
  /\ UNCHANGED <<now, buf, flushPc, failures, dropped, unsure, overlap>>

\* The insert fails, or its answer does not come within 15 s although it commits.
WriteFails(w) ==
  /\ flushPc[w] = "write" /\ todo[w] # <<>>
  /\ failures < MaxFailures /\ failures' = failures + 1
  /\ \/ UNCHANGED <<rows, unsure>>
     \/ /\ Insert(Head(todo[w]))
        /\ unsure' = unsure \cup {Head(todo[w])}
  /\ flushPc' = [flushPc EXCEPT ![w] = "push"]
  /\ UNCHANGED <<now, buf, todo, dropped, overlap>>

Full == Len(buf) >= Capacity

PushLost(s) ==  \* regression: a full buffer takes no new snapshot
  /\ buf' = IF Full THEN buf ELSE Append(buf, s)
  /\ UNCHANGED dropped

\* retryBuffer.push: a full buffer drops its head first.
PushBack(s) ==
  /\ buf' = Append(IF Full THEN Tail(buf) ELSE buf, s)
  /\ dropped' = IF Full THEN dropped \cup {Head(buf)} ELSE dropped

Push(w) ==
  /\ flushPc[w] = "push"
  /\ PushBack(Head(todo[w]))
  /\ todo' = [todo EXCEPT ![w] = Tail(@)]
  /\ flushPc' = [flushPc EXCEPT ![w] = "write"]
  /\ UNCHANGED <<now, rows, failures, unsure, overlap>>

GivesUp(w) == todo[w] = <<>> \/ Len(buf) = Capacity  \* regression: stops once the buffer is full
NothingLeft(w) == todo[w] = <<>>

FlushEnds(w) ==
  /\ flushPc[w] = "write" /\ NothingLeft(w)
  /\ flushPc' = [flushPc EXCEPT ![w] = "done"]
  /\ UNCHANGED <<now, buf, todo, rows, failures, dropped, unsure, overlap>>

Flush(w) == Drain(w) \/ WriteOk(w) \/ WriteFails(w) \/ Push(w) \/ FlushEnds(w)

RetryNext == StartFlush \/ \E w \in Windows : Flush(w)

RetryInit ==
  /\ now = 0 /\ buf = <<>>
  /\ todo = [w \in Windows |-> <<>>]
  /\ flushPc = [w \in Windows |-> "none"]
  /\ rows = [s \in Snapshots |-> 0]
  /\ failures = 0 /\ dropped = {} /\ unsure = {} /\ overlap = FALSE

RetrySpec == RetryInit /\ [][RetryNext]_retryVars

-----------------------------------------------------------------------------
(* Properties *)

\* Places in memory where a snapshot can be.
Held == ({0} \X DOMAIN buf) \cup UNION {{w} \X DOMAIN todo[w] : w \in Windows}
At(place) == IF place[1] = 0 THEN buf[place[2]] ELSE todo[place[1]][place[2]]

\* Every variable keeps its type, the buffer never holds more than Capacity
\* snapshots, and a flush that has failed to write still has the snapshot in hand.
RetryTypeOK ==
  /\ now \in 0..MaxWindows
  /\ buf \in Seq(Snapshots) /\ Len(buf) <= Capacity
  /\ todo \in [Windows -> Seq(Snapshots)]
  /\ flushPc \in [Windows -> {"none", "drain", "write", "push", "done"}]
  /\ rows \in [Snapshots -> Nat]
  /\ failures \in 0..MaxFailures
  /\ dropped \subseteq Snapshots /\ unsure \subseteq Snapshots /\ overlap \in BOOLEAN
  /\ \A w \in Windows : flushPc[w] = "push" => todo[w] # <<>>

\* However flushes overlap, a snapshot of a window that was rolled up is in the
\* table, still held in memory, or was pushed out of the full buffer.
NoneLost ==
  \A s \in Snapshots : s[1] <= now =>
      \/ rows[s] > 0 \/ s \in dropped
      \/ Contains(buf, s)
      \/ \E w \in Windows : Contains(todo[w], s)

\* A snapshot is held in one place only, and its row is not written twice unless
\* the answer to a committed write was lost.
NotTwice ==
  /\ \A p, q \in Held : At(p) = At(q) => p = q
  /\ \A s \in Snapshots \ unsure :
       rows[s] <= 1 /\ (rows[s] = 1 => \A place \in Held : At(place) # s)

\* When every flush is done, the snapshots missing from the table are those in the
\* buffer and those it had to drop: nothing is stranded in a finished flush.
OnlyBufferWaits ==
  (\A w \in 1..now : flushPc[w] = "done") =>
    \A s \in Snapshots : s[1] <= now /\ rows[s] = 0 =>
      s \in dropped \/ Contains(buf, s)

\* postgres.go:177, the buffer "holds up to 5 failed snapshots, oldest first": as long
\* as no flush outlasts the minute, the snapshot that a full buffer drops is the oldest
\* (README.md:292).
OldestFirst == ~overlap => \A i, j \in DOMAIN buf : i < j => buf[i][1] <= buf[j][1]
=============================================================================
