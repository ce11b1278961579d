------------------------ MODULE ProxyLifecycle_proofs ------------------------
(* Theorems about ProxyLifecycle, for any containers, ports and connections: *)
(* its invariants, and that it keeps the contract OnDemand, step by step.    *)
EXTENDS OnDemandRefinement, FiniteSetTheorems, SequenceTheorems, TLAPS

-----------------------------------------------------------------------------
(* Types *)

\* running stays a Boolean per port.
LEMMA SetRunningType ==
  ASSUME NEW c, NEW v \in BOOLEAN, CodeTypeOK, SetRunning(c, v)
  PROVE  running' \in [Ports -> BOOLEAN]
BY DEF SetRunning, CodeTypeOK

\* A change of the container appends at most one well-formed event.
LEMMA SetContainerType ==
  ASSUME NEW c \in Containers, NEW s \in {"up", "down"}, CodeTypeOK, SetContainer(c, s)
  PROVE  /\ container' \in [Containers -> {"up", "down"}]
         /\ events' \in Seq(Events)
<1>1. container' \in [Containers -> {"up", "down"}]
  BY DEF SetContainer, CodeTypeOK
<1>2. Event(IF s = "up" THEN "start" ELSE "die", c) \in Events
  BY DEF Event, Events
<1>3. events' \in Seq(Events)
  <2>1. events \in Seq(Events)
    BY DEF CodeTypeOK
  <2>2. Append(events, Event(IF s = "up" THEN "start" ELSE "die", c)) \in Seq(Events)
    BY <1>2, <2>1, AppendProperties
  <2> QED
    BY <2>1, <2>2 DEF SetContainer
<1> QED
  BY <1>1, <1>3

\* Delivering the oldest event leaves a queue of events.
LEMMA DeliverType ==
  ASSUME CodeTypeOK, events # <<>>
  PROVE  /\ Head(events) \in Events /\ Head(events).id \in Containers
         /\ Tail(events) \in Seq(Events)
<1>1. Head(events) \in Events /\ Tail(events) \in Seq(Events)
  BY HeadTailProperties DEF CodeTypeOK
<1> QED
  BY <1>1 DEF Events

\* The variables of the program keep their types at every step of the code.
LEMMA CodeTypeStep ==
  ASSUME CodeTypeOK, Step
  PROVE  CodeTypeOK'
<1> USE OwnerAssumption, BoundsAssumption DEF CodeTypeOK, HandlerLabels
<1>1. ASSUME NEW c \in Containers, ExternalChange(c) PROVE CodeTypeOK'
  BY <1>1, SetRunningType, SetContainerType DEF ExternalChange, Goto, dockerVars, serverVars, handlerVars, chkVars
<1>2. ASSUME NEW c \in Containers, Inspect(c) PROVE CodeTypeOK'
  BY <1>2, SetRunningType, SetContainerType DEF Inspect, Goto, dockerVars, serverVars, handlerVars, chkVars
<1>3. ASSUME NEW c \in Containers, ContainerStart(c) PROVE CodeTypeOK'
  <2>1. /\ container' \in [Containers -> {"up", "down"}]
        /\ events' \in Seq(Events)
    BY <1>3, SetContainerType DEF ContainerStart
  <2>2. flight' \in [Containers -> {"none", "inspect", "start", "ok", "failed"}]
    BY <1>3 DEF ContainerStart
  <2> QED
    BY <1>3, <2>1, <2>2 DEF ContainerStart, serverVars, chkVars
<1>4. ASSUME NEW c \in Containers, StartReturns(c) PROVE CodeTypeOK'
  <2>1. pc' \in [Conns -> HandlerLabels]
    BY <1>4 DEF StartReturns
  <2>2. \A k \in Conns : pc'[k] # "none" => pc[k] # "none"
    BY <1>4 DEF StartReturns, Waiting
  <2> QED
    BY <1>4, <2>1, <2>2 DEF StartReturns, dockerVars, serverVars, chkVars
<1>5. ASSUME NEW k \in Conns, Blocked(k) PROVE CodeTypeOK'
  BY <1>5, SetRunningType, SetContainerType DEF Blocked, Goto, dockerVars, serverVars, handlerVars, chkVars
<1>6. ASSUME NEW k \in Conns, JoinStart(k) PROVE CodeTypeOK'
  BY <1>6, SetRunningType, SetContainerType DEF JoinStart, Goto, dockerVars, serverVars, handlerVars, chkVars
<1>7. ASSUME NEW k \in Conns, SkipStart(k) PROVE CodeTypeOK'
  BY <1>7, SetRunningType, SetContainerType DEF SkipStart, Goto, dockerVars, serverVars, handlerVars, chkVars
<1>8. ASSUME NEW k \in Conns, MarkRunning(k) PROVE CodeTypeOK'
  BY <1>8, SetRunningType, SetContainerType DEF MarkRunning, Goto, dockerVars, serverVars, handlerVars, chkVars
<1>9. ASSUME NEW k \in Conns, HealthGate(k) PROVE CodeTypeOK'
  <2>1. attempt' \in [Conns -> 0..Retries]
    <3>1. 1 \in 0..Retries
      OBVIOUS
    <3>2. attempt' = attempt \/ attempt' = [attempt EXCEPT ![k] = 1]
      BY <1>9 DEF HealthGate
    <3> QED
      BY <3>1, <3>2
  <2>2. pc' \in [Conns -> HandlerLabels] /\ pc'[k] # "none" /\ pc[k] # "none"
    BY <1>9 DEF HealthGate, Goto
  <2>3. \A j \in Conns : pc'[j] # "none" => pc[j] # "none"
    BY <1>9, <2>2 DEF HealthGate, Goto
  <2> QED
    BY <1>9, <2>1, <2>2, <2>3 DEF HealthGate, dockerVars, serverVars, chkVars
<1>10. ASSUME NEW k \in Conns, DialOk(k) PROVE CodeTypeOK'
  BY <1>10, SetRunningType, SetContainerType DEF DialOk, Goto, dockerVars, serverVars, handlerVars, chkVars
<1>11. ASSUME NEW k \in Conns, DialFailed(k) PROVE CodeTypeOK'
  <2>1. attempt' \in [Conns -> 0..Retries]
    <3>1. CASE MoreAttempts(k)
      <4>1. attempt' = [attempt EXCEPT ![k] = attempt[k] + 1]
        BY <1>11, <3>1 DEF DialFailed
      <4>2. attempt[k] + 1 \in 0..Retries
        BY <3>1 DEF MoreAttempts
      <4> QED
        BY <4>1, <4>2
    <3>2. CASE ~MoreAttempts(k)
      <4>1. attempt' = [attempt EXCEPT ![k] = 0]
        BY <1>11, <3>2 DEF DialFailed
      <4> QED
        BY <4>1
    <3> QED
      BY <3>1, <3>2
  <2>2. pc' \in [Conns -> HandlerLabels]
    BY <1>11 DEF DialFailed, Goto
  <2>3. \A j \in Conns : pc'[j] # "none" => pc[j] # "none"
    BY <1>11 DEF DialFailed, Goto
  <2> QED
    BY <1>11, <2>1, <2>2, <2>3 DEF DialFailed, dockerVars, serverVars, chkVars
<1>12. ASSUME NEW k \in Conns, CopyEnds(k) PROVE CodeTypeOK'
  BY <1>12, SetRunningType, SetContainerType DEF CopyEnds, Goto, dockerVars, serverVars, handlerVars, chkVars
<1>13. ASSUME NEW k \in Conns, StampLastActive(k) PROVE CodeTypeOK'
  BY <1>13, SetRunningType, SetContainerType DEF StampLastActive, Goto, dockerVars, serverVars, handlerVars, chkVars
<1>14. ASSUME NEW k \in Conns, Leave(k) PROVE CodeTypeOK'
  BY <1>14, SetRunningType, SetContainerType DEF Leave, Goto, dockerVars, serverVars, handlerVars, chkVars
<1>15. ASSUME NEW k \in Conns, NEW p \in Ports, Accept(k, p) PROVE CodeTypeOK'
  BY <1>15, SetRunningType, SetContainerType DEF Accept, Goto, dockerVars, serverVars, handlerVars, chkVars
<1>16. ASSUME NEW p \in Ports, IdleTimeout(p) PROVE CodeTypeOK'
  BY <1>16, SetRunningType, SetContainerType DEF IdleTimeout, Goto, dockerVars, serverVars, handlerVars, chkVars
<1>17. ASSUME WatchStart PROVE CodeTypeOK'
  BY <1>17, SetRunningType, SetContainerType, DeliverType DEF WatchStart, Goto, dockerVars, serverVars, handlerVars, chkVars
<1>18. ASSUME ContainerStarted PROVE CodeTypeOK'
  BY <1>18, SetRunningType, SetContainerType DEF ContainerStarted, Goto, dockerVars, serverVars, handlerVars, chkVars
<1>19. ASSUME ContainerStopped PROVE CodeTypeOK'
  BY <1>19, SetRunningType, SetContainerType, DeliverType DEF ContainerStopped, Goto, dockerVars, serverVars, handlerVars, chkVars
<1>20. ASSUME CheckBegin PROVE CodeTypeOK'
  BY <1>20, SetRunningType, SetContainerType DEF CheckBegin, OnDemandPorts, Goto, dockerVars, serverVars, handlerVars, chkVars
<1>21. ASSUME NEW p \in Ports, CheckActive(p) PROVE CodeTypeOK'
  BY <1>21, SetRunningType, SetContainerType DEF CheckActive, NotIdleIf, Goto, dockerVars, serverVars, handlerVars, chkVars
<1>22. ASSUME CheckLast PROVE CodeTypeOK'
  BY <1>22, SetRunningType, SetContainerType DEF CheckLast, NotIdleIf, Goto, dockerVars, serverVars, handlerVars, chkVars
<1>23. ASSUME CheckDecide PROVE CodeTypeOK'
  BY <1>23, SetRunningType, SetContainerType DEF CheckDecide, OnDemandPorts, Goto, dockerVars, serverVars, handlerVars, chkVars
<1>24. ASSUME NEW c \in Containers, StopOk(c) PROVE CodeTypeOK'
  BY <1>24, SetRunningType, SetContainerType DEF StopOk, PortsOf, Goto, dockerVars, serverVars, handlerVars, chkVars
<1>25. ASSUME NEW c \in Containers, StopFailed(c) PROVE CodeTypeOK'
  BY <1>25, SetRunningType, SetContainerType DEF StopFailed, Goto, dockerVars, serverVars, handlerVars, chkVars
<1>26. ASSUME NEW p \in Ports, MarkStopped(p) PROVE CodeTypeOK'
  BY <1>26, SetRunningType, SetContainerType DEF MarkStopped, Goto, dockerVars, serverVars, handlerVars, chkVars
<1>27. ASSUME CheckEnd PROVE CodeTypeOK'
  BY <1>27, SetRunningType, SetContainerType DEF CheckEnd, Goto, dockerVars, serverVars, handlerVars, chkVars
<1>28. ASSUME WatchStartFailed PROVE CodeTypeOK'
  BY <1>28, DeliverType DEF WatchStartFailed, serverVars, handlerVars, chkVars
<1> QED
  BY <1>1, <1>2, <1>3, <1>4, <1>5, <1>6, <1>7, <1>8, <1>9, <1>10, <1>11, <1>12, <1>13, <1>14,
     <1>15, <1>16, <1>17, <1>18, <1>19, <1>20, <1>21, <1>22, <1>23, <1>24, <1>25, <1>26,
     <1>27, <1>28
  DEF Step, StartCall, Handler, Watcher, Checker

\* The history variables keep theirs whatever the step of the code was.
LEMMA HistoryTypeStep ==
  ASSUME CodeTypeOK', HistoryTypeOK, Observe
  PROVE  HistoryTypeOK'
BY DEF HistoryTypeOK, Observe

\* Every reachable state of ProxyLifecycle is well typed: a live handler has a
\* port, and no handler makes more dial attempts than startTimeout allows.
THEOREM TypeCorrect == Spec => []TypeOK
<1>1. Init => TypeOK
  <2> SUFFICES ASSUME Init PROVE TypeOK
    OBVIOUS
  <2>1. <<>> \in Seq(Events) /\ 0 \in 0..Retries
    BY BoundsAssumption
  <2>2. CodeTypeOK
    BY <2>1, NoneAssumption DEF Init, CodeTypeOK, HandlerLabels
  <2> QED
    BY <2>2 DEF Init, TypeOK, HistoryTypeOK
<1>2. TypeOK /\ [Next]_vars => TypeOK'
  <2> SUFFICES ASSUME TypeOK, [Next]_vars PROVE TypeOK'
    OBVIOUS
  <2>1. CASE Next
    BY <2>1, CodeTypeStep, HistoryTypeStep DEF Next, TypeOK
  <2>2. CASE UNCHANGED vars
    BY <2>2 DEF vars, TypeOK, CodeTypeOK, HistoryTypeOK
  <2> QED
    BY <2>1, <2>2
<1> QED
  BY <1>1, <1>2, PTL DEF Spec

-----------------------------------------------------------------------------
(* activeConns counts the live handlers *)

\* Only Accept makes a handler live and only Leave ends one; no other step of
\* the code touches the port of a handler or a counter.
LEMMA HandlersSame ==
  ASSUME CodeTypeOK, Step,
         ~(\E k \in Conns : Leave(k)), ~(\E k \in Conns, p \in Ports : Accept(k, p))
  PROVE  /\ UNCHANGED <<activeConns, port>>
         /\ \A k \in Conns : pc'[k] = "none" <=> pc[k] = "none"
<1> DEFINE Goal == /\ UNCHANGED <<activeConns, port>>
                   /\ \A k \in Conns : pc'[k] = "none" <=> pc[k] = "none"
<1> USE DEF CodeTypeOK, Goto, dockerVars, serverVars, handlerVars, chkVars
<1>1. ASSUME NEW c \in Containers, ExternalChange(c) \/ StartCall(c) PROVE Goal
  BY <1>1 DEF ExternalChange, StartCall, Inspect, ContainerStart, StartReturns, Waiting
<1>2. ASSUME NEW k \in Conns, Handler(k) \/ CopyEnds(k) PROVE Goal
  <2>1. CASE Blocked(k) \/ JoinStart(k) \/ SkipStart(k) \/ MarkRunning(k)
    BY <2>1 DEF Blocked, JoinStart, SkipStart, MarkRunning
  <2>2. CASE HealthGate(k) \/ DialOk(k) \/ DialFailed(k)
    BY <2>2 DEF HealthGate, DialOk, DialFailed
  <2>3. CASE StampLastActive(k) \/ CopyEnds(k)
    BY <2>3 DEF StampLastActive, CopyEnds
  <2> QED
    BY <1>2, <2>1, <2>2, <2>3 DEF Handler
<1>3. CASE Watcher
  BY <1>3 DEF Watcher, WatchStart, WatchStartFailed, ContainerStarted,
              ContainerStopped
<1>4. CASE Checker
  BY <1>4 DEF Checker, CheckBegin, CheckActive, CheckLast, CheckDecide, CheckEnd,
              StopOk, StopFailed, MarkStopped
<1>5. ASSUME NEW p \in Ports, IdleTimeout(p) PROVE Goal
  BY <1>5 DEF IdleTimeout
<1> QED
  BY <1>1, <1>2, <1>3, <1>4, <1>5 DEF Step

\* A port has finitely many live handlers.
LEMMA HandlersFinite == \A p \in Ports : IsFiniteSet(HandlersOf(p))
BY ConnsAssumption, FS_Subset DEF HandlersOf

\* One more or one fewer live handler changes the cardinality by one.
LEMMA ActiveStep ==
  ASSUME CodeTypeOK, Step, ActiveMatchesHandlers
  PROVE  ActiveMatchesHandlers'
<1> SUFFICES ASSUME NEW q \in Ports
             PROVE  activeConns'[q] = Cardinality(HandlersOf(q)')
  BY DEF ActiveMatchesHandlers
<1>0. activeConns[q] = Cardinality(HandlersOf(q)) /\ IsFiniteSet(HandlersOf(q))
  BY HandlersFinite DEF ActiveMatchesHandlers
<1>1. ASSUME NEW k \in Conns, NEW p \in Ports, Accept(k, p)
      PROVE  activeConns'[q] = Cardinality(HandlersOf(q)')
  <2>1. CASE p = q
    <3>1. HandlersOf(q)' = HandlersOf(q) \cup {k} /\ k \notin HandlersOf(q)
      BY <1>1, <2>1 DEF Accept, Goto, HandlersOf, CodeTypeOK
    <3>2. activeConns'[q] = activeConns[q] + 1
      BY <1>1, <2>1 DEF Accept, CodeTypeOK
    <3> QED
      BY <1>0, <3>1, <3>2, FS_AddElement
  <2>2. CASE p # q
    <3>1. HandlersOf(q)' = HandlersOf(q)
      BY <1>1, <2>2 DEF Accept, Goto, HandlersOf, CodeTypeOK
    <3>2. activeConns'[q] = activeConns[q]
      BY <1>1, <2>2 DEF Accept, CodeTypeOK
    <3> QED
      BY <1>0, <3>1, <3>2
  <2> QED
    BY <2>1, <2>2
<1>2. ASSUME NEW k \in Conns, Leave(k)
      PROVE  activeConns'[q] = Cardinality(HandlersOf(q)')
  <2>1. CASE port[k] = q
    <3>1. HandlersOf(q)' = HandlersOf(q) \ {k} /\ k \in HandlersOf(q)
      BY <1>2, <2>1 DEF Leave, Goto, HandlersOf, CodeTypeOK
    <3>2. activeConns'[q] = activeConns[q] - 1
      BY <1>2, <2>1 DEF Leave, CodeTypeOK
    <3> QED
      BY <1>0, <3>1, <3>2, FS_RemoveElement
  <2>2. CASE port[k] # q
    <3>1. HandlersOf(q)' = HandlersOf(q)
      BY <1>2, <2>2, NoneAssumption DEF Leave, Goto, HandlersOf, CodeTypeOK
    <3>2. activeConns'[q] = activeConns[q]
      BY <1>2, <2>2 DEF Leave, CodeTypeOK
    <3> QED
      BY <1>0, <3>1, <3>2
  <2> QED
    BY <2>1, <2>2
<1>3. CASE ~(\E k \in Conns : Leave(k)) /\ ~(\E k \in Conns, p \in Ports : Accept(k, p))
  <2>1. HandlersOf(q)' = HandlersOf(q)
    BY <1>3, HandlersSame DEF HandlersOf
  <2> QED
    BY <1>0, <1>3, <2>1, HandlersSame
<1> QED
  BY <1>1, <1>2, <1>3

\* Whichever exit a handleConn goroutine takes, activeConns is the number of
\* those still alive.
THEOREM ActiveCorrect == Spec => []ActiveMatchesHandlers
<1>1. Init => ActiveMatchesHandlers
  <2> SUFFICES ASSUME Init, NEW p \in Ports
               PROVE  activeConns[p] = Cardinality(HandlersOf(p))
    BY DEF ActiveMatchesHandlers
  <2>1. HandlersOf(p) = {}
    BY DEF Init, HandlersOf
  <2> QED
    BY <2>1, FS_EmptySet DEF Init
<1>2. TypeOK /\ ActiveMatchesHandlers /\ [Next]_vars => ActiveMatchesHandlers'
  <2>1. ASSUME TypeOK, ActiveMatchesHandlers, Next PROVE ActiveMatchesHandlers'
    BY <2>1, ActiveStep DEF Next, TypeOK
  <2>2. ASSUME ActiveMatchesHandlers, UNCHANGED vars PROVE ActiveMatchesHandlers'
    BY <2>2 DEF vars, ActiveMatchesHandlers, HandlersOf
  <2> QED
    BY <2>1, <2>2
<1> QED
  BY <1>1, <1>2, TypeCorrect, PTL DEF Spec

-----------------------------------------------------------------------------
(* The checker's verdict *)

\* lastActive becomes "fresh" for a drained handler's port and expires with the
\* history's clock; a handler leaves "drained" only by stamping.
LEMMA RecentStep ==
  ASSUME CodeTypeOK, HistoryTypeOK, Step, Observe, RecentStamped
  PROVE  RecentStamped'
<1> SUFFICES ASSUME NEW p \in Ports, recent'[p], lastActive'[p] # "fresh"
             PROVE  \E k \in Conns : pc'[k] = "drained" /\ port'[k] = p
  BY DEF RecentStamped
<1> USE DEF CodeTypeOK, Goto, dockerVars, serverVars, handlerVars, chkVars
<1>0. \/ \E k \in Conns : pc[k] = "proxying" /\ pc'[k] = "drained" /\ port[k] = p
      \/ recent[p] /\ ~(lastActive[p] = "fresh" /\ lastActive'[p] = "expired")
  BY DEF Observe
<1>1. CASE \E k \in Conns : CopyEnds(k)
  BY <1>0, <1>1 DEF CopyEnds, RecentStamped
<1>2. CASE \E k \in Conns : StampLastActive(k)
  BY <1>0, <1>2 DEF StampLastActive, RecentStamped
<1>3. CASE \E q \in Ports : IdleTimeout(q)
  BY <1>0, <1>3 DEF IdleTimeout, RecentStamped
<1>4. ASSUME NEW k \in Conns, NEW q \in Ports, Accept(k, q)
      PROVE  \E j \in Conns : pc'[j] = "drained" /\ port'[j] = p
  BY <1>0, <1>4 DEF Accept, RecentStamped
<1>5. ASSUME NEW k \in Conns, Leave(k)
      PROVE  \E j \in Conns : pc'[j] = "drained" /\ port'[j] = p
  BY <1>0, <1>5 DEF Leave, RecentStamped
<1>6. ASSUME NEW k \in Conns,
             \/ Blocked(k) \/ JoinStart(k) \/ SkipStart(k) \/ MarkRunning(k)
             \/ HealthGate(k) \/ DialOk(k) \/ DialFailed(k)
      PROVE  \E j \in Conns : pc'[j] = "drained" /\ port'[j] = p
  <2>1. /\ lastActive' = lastActive /\ port' = port
        /\ \A j \in Conns : pc'[j] = "drained" <=> pc[j] = "drained"
    BY <1>6 DEF Blocked, JoinStart, SkipStart, MarkRunning, HealthGate, DialOk, DialFailed
  <2> QED
    BY <1>0, <2>1 DEF RecentStamped
<1>7. ASSUME NEW c \in Containers, ExternalChange(c) \/ StartCall(c)
      PROVE  \E j \in Conns : pc'[j] = "drained" /\ port'[j] = p
  <2>1. /\ lastActive' = lastActive /\ port' = port
        /\ \A j \in Conns : pc'[j] = "drained" <=> pc[j] = "drained"
    BY <1>7 DEF ExternalChange, StartCall, Inspect, ContainerStart, StartReturns, Waiting
  <2> QED
    BY <1>0, <2>1 DEF RecentStamped
<1>8. ASSUME Watcher \/ Checker
      PROVE  \E j \in Conns : pc'[j] = "drained" /\ port'[j] = p
  <2>1. lastActive' = lastActive /\ port' = port /\ pc' = pc
    BY <1>8 DEF Watcher, WatchStart, WatchStartFailed, ContainerStarted,
              ContainerStopped,
                Checker, CheckBegin, CheckActive, CheckLast, CheckDecide, CheckEnd,
                StopOk, StopFailed, MarkStopped
  <2> QED
    BY <1>0, <2>1 DEF RecentStamped
<1> QED
  BY <1>1, <1>2, <1>3, <1>4, <1>5, <1>6, <1>7, <1>8 DEF Step, Handler

\* Only time makes a fresh lastActive expire, and the history notices.
LEMMA ExpiryStep ==
  ASSUME CodeTypeOK, Step, NEW p \in Ports, lastActive[p] = "fresh", lastActive'[p] # "fresh"
  PROVE  lastActive'[p] = "expired" /\ UNCHANGED pc
<1> USE DEF CodeTypeOK, dockerVars, serverVars, handlerVars, chkVars
<1>1. ASSUME NEW c \in Containers, ExternalChange(c) \/ StartCall(c) PROVE FALSE
  BY <1>1 DEF ExternalChange, StartCall, Inspect, ContainerStart, StartReturns
<1>2. ASSUME NEW k \in Conns, Handler(k) \/ CopyEnds(k) PROVE FALSE
  BY <1>2 DEF Handler, Blocked, JoinStart, SkipStart, MarkRunning, HealthGate, DialOk,
              DialFailed, StampLastActive, Leave, CopyEnds
<1>3. ASSUME NEW k \in Conns, NEW q \in Ports, Accept(k, q) PROVE FALSE
  BY <1>3 DEF Accept
<1>4. ASSUME Watcher \/ Checker PROVE FALSE
  BY <1>4 DEF Watcher, WatchStart, WatchStartFailed, ContainerStarted,
              ContainerStopped,
              Checker, CheckBegin, CheckActive, CheckLast, CheckDecide, CheckEnd,
              StopOk, StopFailed, MarkStopped
<1>5. ASSUME NEW q \in Ports, IdleTimeout(q) PROVE lastActive'[p] = "expired" /\ UNCHANGED pc
  BY <1>5 DEF IdleTimeout
<1> QED
  BY <1>1, <1>2, <1>3, <1>4, <1>5 DEF Step

\* A port seen without a connection is found idle, or is stamped fresh: what
\* ended on it recently can no longer be waiting to be stamped.
LEMMA CalmStep ==
  ASSUME CodeTypeOK, HistoryTypeOK, CodeTypeOK', Step, Observe,
         RecentStamped', ActiveMatchesHandlers', CalmSeen
  PROVE  CalmSeen'
<1> SUFFICES ASSUME NEW p \in calm', p \notin idleSeen', lastActive'[p] # "fresh"
             PROVE  FALSE
  BY DEF CalmSeen
<1>1. p \in Ports /\ chkPc' # "sleep" /\ recent'[p] /\ p \notin idleSeen
  BY DEF Observe, HistoryTypeOK
<1>2. CASE p \in calm
  <2>1. lastActive[p] = "fresh"
    BY <1>1, <1>2 DEF CalmSeen
  <2>2. lastActive'[p] = "expired" /\ UNCHANGED pc
    BY <1>1, <2>1, ExpiryStep
  <2>3. ~recent'[p]
    BY <1>1, <2>1, <2>2 DEF Observe
  <2> QED
    BY <1>1, <2>3
<1>3. CASE p \notin calm
  <2>1. activeConns'[p] = 0
    BY <1>1, <1>3 DEF Observe
  <2>2. PICK k \in Conns : pc'[k] = "drained" /\ port'[k] = p
    BY <1>1 DEF RecentStamped
  <2>3. k \in HandlersOf(p)'
    BY <2>2 DEF HandlersOf
  <2>4. IsFiniteSet(HandlersOf(p)') /\ Cardinality(HandlersOf(p)') = 0
    BY <1>1, <2>1, ConnsAssumption, FS_Subset DEF ActiveMatchesHandlers, HandlersOf
  <2> QED
    BY <2>3, <2>4, FS_EmptySet
<1> QED
  BY <1>2, <1>3

\* Only the checker changes the state of a pass.
LEMMA ChkSame ==
  ASSUME Step, ~Checker
  PROVE  UNCHANGED chkVars
<1> USE DEF chkVars
<1>1. ASSUME NEW c \in Containers, ExternalChange(c) \/ StartCall(c) PROVE UNCHANGED chkVars
  BY <1>1 DEF ExternalChange, StartCall, Inspect, ContainerStart, StartReturns
<1>2. ASSUME NEW k \in Conns, Handler(k) \/ CopyEnds(k) PROVE UNCHANGED chkVars
  BY <1>2 DEF Handler, Blocked, JoinStart, SkipStart, MarkRunning, HealthGate, DialOk,
              DialFailed, StampLastActive, Leave, CopyEnds
<1>3. ASSUME NEW k \in Conns, NEW q \in Ports, Accept(k, q) PROVE UNCHANGED chkVars
  BY <1>3 DEF Accept
<1>4. ASSUME NEW q \in Ports, IdleTimeout(q) PROVE UNCHANGED chkVars
  BY <1>4 DEF IdleTimeout
<1>5. CASE Watcher
  BY <1>5 DEF Watcher, WatchStart, WatchStartFailed, ContainerStarted,
              ContainerStopped
<1> QED
  BY <1>1, <1>2, <1>3, <1>4, <1>5 DEF Step

\* Every step of a pass keeps its bookkeeping sound: a port it is done with was
\* found busy or idle.
LEMMA PassStep ==
  ASSUME CodeTypeOK, HistoryTypeOK, Step, Observe, ActiveMatchesHandlers,
         CalmSeen', PassSound, VerdictJustified
  PROVE  PassSound' /\ VerdictJustified'
<1> USE DEF CodeTypeOK, serverVars
<1>0. chkPc' # "sleep" => calm \subseteq calm' /\ idleSeen \subseteq idleSeen'
  BY DEF Observe
<1>1. CASE UNCHANGED chkVars
  BY <1>0, <1>1 DEF chkVars, PassSound, VerdictJustified, PortsOf
<1>2. CASE CheckBegin
  BY <1>0, <1>2 DEF CheckBegin, PassSound, VerdictJustified
<1>3. ASSUME NEW p \in Ports, CheckActive(p) PROVE PassSound' /\ VerdictJustified'
  <2>1. CASE ~running[p] \/ activeConns[p] > 0
    BY <1>0, <1>3, <2>1 DEF CheckActive, NotIdleIf, PassSound, VerdictJustified
  <2>2. CASE running[p] /\ activeConns[p] <= 0
    <3>1. activeConns[p] \in Nat
      BY HandlersFinite, FS_CardinalityType DEF ActiveMatchesHandlers
    <3>2. chkPc' = "last" /\ activeConns'[p] = 0
      BY <1>3, <2>2, <3>1 DEF CheckActive
    <3>3. p \in calm'
      BY <3>2 DEF Observe
    <3> QED
      BY <1>0, <1>3, <2>2, <3>2, <3>3 DEF CheckActive, NotIdleIf, PassSound, VerdictJustified
  <2> QED
    BY <2>1, <2>2
<1>4. CASE CheckLast
  BY <1>0, <1>4 DEF CheckLast, NotIdleIf, PassSound, VerdictJustified, CalmSeen
<1>5. CASE CheckDecide
  <2>1. \A c \in chkStop' : PortsOf(c) \subseteq idleSeen
    BY <1>5 DEF CheckDecide, PassSound, PortsOf, OnDemandPorts
  <2> QED
    BY <1>0, <1>5, <2>1 DEF CheckDecide, PassSound, VerdictJustified
<1>6. ASSUME NEW c \in Containers, StopOk(c) \/ StopFailed(c)
      PROVE  PassSound' /\ VerdictJustified'
  BY <1>0, <1>6 DEF StopOk, StopFailed, PassSound, VerdictJustified
<1>7. ASSUME NEW p \in Ports, MarkStopped(p) PROVE PassSound' /\ VerdictJustified'
  BY <1>0, <1>7 DEF MarkStopped, PassSound, VerdictJustified
<1>8. CASE CheckEnd
  BY <1>8 DEF CheckEnd, PassSound, VerdictJustified
<1> QED
  BY <1>1, <1>2, <1>3, <1>4, <1>5, <1>6, <1>7, <1>8, ChkSame DEF Checker

\* The inactivity checker stops a container only if, during that pass, each of
\* its ports was seen without a connection and then without recent traffic.
THEOREM VerdictCorrect == Spec => []VerdictJustified
<1>1. Init => VerdictInv
  BY DEF Init, VerdictInv, RecentStamped, CalmSeen, PassSound, VerdictJustified
<1>2. /\ TypeOK /\ TypeOK' /\ ActiveMatchesHandlers /\ ActiveMatchesHandlers'
      /\ VerdictInv /\ [Next]_vars
      => VerdictInv'
  <2>1. ASSUME TypeOK, TypeOK', ActiveMatchesHandlers, ActiveMatchesHandlers',
               VerdictInv, Next
        PROVE  VerdictInv'
    <3>1. RecentStamped'
      BY <2>1, RecentStep DEF Next, TypeOK, VerdictInv
    <3>2. CalmSeen'
      BY <2>1, <3>1, CalmStep DEF Next, TypeOK, VerdictInv
    <3>3. PassSound' /\ VerdictJustified'
      BY <2>1, <3>2, PassStep DEF Next, TypeOK, VerdictInv
    <3> QED
      BY <3>1, <3>2, <3>3 DEF VerdictInv
  <2>2. ASSUME VerdictInv, UNCHANGED vars PROVE VerdictInv'
    BY <2>2 DEF vars, VerdictInv, RecentStamped, CalmSeen, PassSound, VerdictJustified
  <2> QED
    BY <2>1, <2>2
<1>3. VerdictInv => VerdictJustified
  BY DEF VerdictInv
<1> QED
  BY <1>1, <1>2, <1>3, TypeCorrect, ActiveCorrect, PTL DEF Spec
-----------------------------------------------------------------------------
(* The running flags of a manual container *)

Manual == {c \in Containers : Availability[c] = "manual"}

NoEvent(c) == \A i \in 1..Len(events) : events[i].id # c

\* The last event in the queue tells what state the container is in.
LastEventTells ==
  \A c \in Manual : \A i \in 1..Len(events) :
    /\ events[i].id = c
    /\ \A j \in (i+1)..Len(events) : events[j].id # c
    => (events[i].kind = "start" <=> container[c] = "up")

\* A start event that is being handled and not followed by another is true.
HeldIsUp == \A c \in Manual : held = c /\ NoEvent(c) => container[c] = "up"

\* Neither connections nor the checker write the flags of a manual container.
HandsOff ==
  /\ \A k \in Conns : pc[k] \in {"ensuring", "started"} => Owner[port[k]] \notin Manual
  /\ chkStop \cap Manual = {}
  /\ \A p \in chkMark : Owner[p] \notin Manual

FlagsTrack ==
  \A c \in Manual : held # c /\ NoEvent(c) =>
    \A p \in PortsOf(c) : running[p] = (container[c] = "up")

ManualInv == LastEventTells /\ HeldIsUp /\ FlagsTrack

\* A change of a container is told by the event it appends.
LEMMA ManualChange ==
  ASSUME CodeTypeOK, ManualInv, NEW c \in Containers, NEW s \in {"up", "down"},
         SetContainer(c, s), UNCHANGED <<held, running>>
  PROVE  ManualInv'
<1>1. CASE container[c] = s
  <2>1. UNCHANGED <<container, events, held, running>>
    BY <1>1 DEF SetContainer, CodeTypeOK
  <2> QED
    BY <2>1 DEF ManualInv, LastEventTells, HeldIsUp, FlagsTrack, NoEvent
<1>2. CASE container[c] # s
  <2> DEFINE e == Event(IF s = "up" THEN "start" ELSE "die", c)
  <2>1. /\ container' = [container EXCEPT ![c] = s] /\ events' = Append(events, e)
        /\ events \in Seq(Events) /\ e \in Events /\ e.id = c
        /\ e.kind = "start" <=> s = "up"
    BY <1>2 DEF SetContainer, CodeTypeOK, Event, Events
  <2>2. /\ Len(events) \in Nat /\ Len(events') = Len(events) + 1
        /\ \A i \in 1..Len(events) : events'[i] = events[i]
        /\ events'[Len(events) + 1] = e
    BY <2>1, AppendProperties, LenProperties
  <2>3. ASSUME NEW d \in Containers, NoEvent(d)'
        PROVE  d # c /\ NoEvent(d) /\ container'[d] = container[d]
    BY <2>1, <2>2, <2>3 DEF NoEvent, CodeTypeOK
  <2>4. HeldIsUp' /\ FlagsTrack'
    BY <2>3 DEF ManualInv, HeldIsUp, FlagsTrack, Manual, PortsOf
  <2>5. ASSUME NEW d \in Manual, NEW i \in 1..Len(events'), events'[i].id = d,
               \A j \in (i+1)..Len(events') : events'[j].id # d
        PROVE  events'[i].kind = "start" <=> container'[d] = "up"
    <3>1. CASE i = Len(events) + 1
      BY <2>1, <2>2, <2>5, <3>1 DEF CodeTypeOK
    <3>2. CASE i \in 1..Len(events)
      <4>1. d # c
        BY <2>1, <2>2, <2>5, <3>2
      <4>2. events[i].id = d /\ \A j \in (i+1)..Len(events) : events[j].id # d
        BY <2>2, <2>5, <3>2
      <4>3. container'[d] = container[d]
        BY <2>1, <4>1 DEF CodeTypeOK, Manual
      <4> QED
        BY <2>2, <2>5, <3>2, <4>2, <4>3 DEF ManualInv, LastEventTells
    <3> QED
      BY <2>2, <3>1, <3>2
  <2> QED
    BY <2>4, <2>5 DEF ManualInv, LastEventTells
<1> QED
  BY <1>1, <1>2

\* Delivering an event takes it off the queue, and what it told with it.
LEMMA ManualDeliver ==
  ASSUME CodeTypeOK, ManualInv, events # <<>>, events' = Tail(events), UNCHANGED container
  PROVE  /\ LastEventTells'
         /\ \A c \in Manual :
              NoEvent(c)' => \/ NoEvent(c)
                             \/ /\ Head(events).id = c
                                /\ Head(events).kind = "start" <=> container[c] = "up"
<1>1. /\ events \in Seq(Events) /\ Len(events) \in Nat \ {0} /\ Head(events) = events[1]
      /\ Len(events') = Len(events) - 1
      /\ \A i \in 1..Len(events') : events'[i] = events[i + 1]
  BY HeadTailProperties, EmptySeq, LenProperties DEF CodeTypeOK
<1>2. LastEventTells'
  <2> SUFFICES ASSUME NEW c \in Manual, NEW i \in 1..Len(events'), events'[i].id = c,
                      \A j \in (i+1)..Len(events') : events'[j].id # c
               PROVE  events'[i].kind = "start" <=> container[c] = "up"
    BY DEF LastEventTells
  <2>1. i + 1 \in 1..Len(events) /\ events[i + 1].id = c
    BY <1>1
  <2>2. ASSUME NEW j \in (i+1+1)..Len(events) PROVE events[j].id # c
    <3>1. j - 1 \in (i+1)..Len(events') /\ events'[j - 1] = events[(j - 1) + 1]
      BY <1>1
    <3>2. (j - 1) + 1 = j
      OBVIOUS
    <3> QED
      BY <3>1, <3>2
  <2> QED
    BY <1>1, <2>1, <2>2 DEF ManualInv, LastEventTells
<1>3. ASSUME NEW c \in Manual, NoEvent(c)', ~NoEvent(c)
      PROVE  /\ Head(events).id = c
             /\ Head(events).kind = "start" <=> container[c] = "up"
  <2>1. \A j \in 2..Len(events) : events[j].id # c
    <3> SUFFICES ASSUME NEW j \in 2..Len(events) PROVE events[j].id # c
      OBVIOUS
    <3>1. j - 1 \in 1..Len(events') /\ events'[j - 1] = events[(j - 1) + 1]
      BY <1>1
    <3>2. (j - 1) + 1 = j
      OBVIOUS
    <3> QED
      BY <1>3, <3>1, <3>2 DEF NoEvent
  <2>2. events[1].id = c
    BY <1>1, <1>3, <2>1 DEF NoEvent
  <2> QED
    BY <1>1, <2>1, <2>2 DEF ManualInv, LastEventTells
<1> QED
  BY <1>2, <1>3

\* No other step writes the flags of a manual container or lets one do so.
LEMMA HandsOffStep ==
  ASSUME CodeTypeOK, Step, HandsOff
  PROVE  HandsOff'
<1> USE DEF CodeTypeOK, HandsOff, Goto, dockerVars, serverVars, handlerVars, chkVars
<1>1. ASSUME NEW c \in Containers, ExternalChange(c) \/ StartCall(c) PROVE HandsOff'
  BY <1>1 DEF ExternalChange, StartCall, Inspect, ContainerStart, StartReturns, Waiting
<1>2. ASSUME NEW k \in Conns, Handler(k) \/ CopyEnds(k) PROVE HandsOff'
  <2>1. CASE JoinStart(k)
    BY <2>1 DEF JoinStart, StartsOnConnect, Manual
  <2>2. CASE Blocked(k) \/ SkipStart(k) \/ MarkRunning(k) \/ HealthGate(k)
    BY <2>2 DEF Blocked, SkipStart, MarkRunning, HealthGate
  <2>3. CASE DialOk(k) \/ DialFailed(k) \/ StampLastActive(k) \/ CopyEnds(k)
    BY <2>3 DEF DialOk, DialFailed, StampLastActive, CopyEnds
  <2>4. CASE Leave(k)
    BY <2>4 DEF Leave
  <2> QED
    BY <1>2, <2>1, <2>2, <2>3, <2>4 DEF Handler
<1>3. ASSUME NEW k \in Conns, NEW p \in Ports, Accept(k, p) PROVE HandsOff'
  BY <1>3 DEF Accept
<1>4. ASSUME NEW p \in Ports, IdleTimeout(p) PROVE HandsOff'
  BY <1>4 DEF IdleTimeout
<1>5. CASE Watcher
  BY <1>5 DEF Watcher, WatchStart, WatchStartFailed, ContainerStarted, ContainerStopped
<1>6. CASE CheckDecide
  BY <1>6 DEF CheckDecide, OnDemandPorts, EffectiveAvailability, Manual
<1>7. ASSUME NEW c \in Containers, StopOk(c) PROVE HandsOff'
  BY <1>7 DEF StopOk, PortsOf
<1>8. CASE Checker /\ ~CheckDecide /\ ~\E c \in Containers : StopOk(c)
  BY <1>8 DEF Checker, CheckBegin, CheckActive, CheckLast, CheckEnd, StopFailed, MarkStopped
<1> QED
  BY <1>1, <1>2, <1>3, <1>4, <1>5, <1>6, <1>7, <1>8 DEF Step

\* Steps that change neither a container nor the queue, and no manual flag.
LEMMA ManualSame ==
  ASSUME CodeTypeOK, ManualInv, UNCHANGED <<container, events, held>>,
         \A p \in Ports : Owner[p] \in Manual => running'[p] = running[p]
  PROVE  ManualInv'
BY DEF ManualInv, LastEventTells, HeldIsUp, FlagsTrack, NoEvent, PortsOf

\* The watcher's own steps.
LEMMA ManualWatch ==
  ASSUME CodeTypeOK, ManualInv, ~InspectFails, Watcher
  PROVE  ManualInv'
<1>1. CASE WatchStart
  <2>1. /\ events # <<>> /\ events' = Tail(events) /\ UNCHANGED container
        /\ held = None /\ held' = Head(events).id /\ Head(events).kind = "start"
        /\ \A p \in Ports : Owner[p] # Head(events).id => running'[p] = running[p]
    BY <1>1 DEF WatchStart, SetRunning
  <2>2. LastEventTells'
    BY <2>1, ManualDeliver
  <2>3. HeldIsUp'
    <3> SUFFICES ASSUME NEW c \in Manual, held' = c, NoEvent(c)'
                 PROVE  container'[c] = "up"
      BY DEF HeldIsUp
    <3>1. CASE NoEvent(c)
      <4>1. events[1] = Head(events) /\ 1 \in 1..Len(events)
        BY <2>1, HeadTailProperties, EmptySeq DEF CodeTypeOK
      <4> QED
        BY <2>1, <3>1, <4>1 DEF NoEvent
    <3>2. CASE ~NoEvent(c)
      BY <2>1, <3>2, ManualDeliver
    <3> QED
      BY <3>1, <3>2
  <2>4. FlagsTrack'
    <3> SUFFICES ASSUME NEW c \in Manual, held' # c, NoEvent(c)', NEW p \in PortsOf(c)
                 PROVE  running'[p] = (container'[c] = "up")
      BY DEF FlagsTrack, PortsOf
    <3>1. NoEvent(c)
      BY <2>1, ManualDeliver
    <3>2. running[p] = (container[c] = "up")
      BY <2>1, <3>1, NoneAssumption DEF ManualInv, FlagsTrack, Manual
    <3> QED
      BY <2>1, <3>2 DEF PortsOf
  <2> QED
    BY <2>2, <2>3, <2>4 DEF ManualInv
<1>2. CASE ContainerStarted
  <2>1. /\ UNCHANGED <<container, events>> /\ held \in Containers /\ held' = None
        /\ \A p \in Ports : running'[p] = IF Owner[p] = held THEN TRUE ELSE running[p]
    BY <1>2 DEF ContainerStarted, SetRunning, CodeTypeOK
  <2>2. LastEventTells' /\ HeldIsUp'
    BY <2>1, NoneAssumption DEF ManualInv, LastEventTells, HeldIsUp, Manual
  <2>3. FlagsTrack'
    <3> SUFFICES ASSUME NEW c \in Manual, NoEvent(c)', NEW p \in PortsOf(c)
                 PROVE  running'[p] = (container'[c] = "up")
      BY DEF FlagsTrack, PortsOf
    <3>1. NoEvent(c) /\ p \in Ports /\ Owner[p] = c /\ container' = container
      BY <2>1 DEF NoEvent, PortsOf
    <3>2. CASE held = c
      <4>1. container[c] = "up"
        BY <3>1, <3>2 DEF ManualInv, HeldIsUp
      <4>2. running'[p] = TRUE
        BY <2>1, <3>1, <3>2
      <4> QED
        BY <3>1, <4>1, <4>2
    <3>3. CASE held # c
      <4>1. running[p] = (container[c] = "up")
        BY <3>1, <3>3 DEF ManualInv, FlagsTrack
      <4>2. running'[p] = running[p]
        BY <2>1, <3>1, <3>3
      <4> QED
        BY <3>1, <4>1, <4>2
    <3> QED
      BY <3>2, <3>3
  <2> QED
    BY <2>2, <2>3 DEF ManualInv
<1>3. CASE ContainerStopped
  <2>1. /\ events # <<>> /\ events' = Tail(events) /\ UNCHANGED <<container, held>>
        /\ held = None /\ Head(events).kind = "die"
        /\ \A p \in Ports :
             running'[p] = IF Owner[p] = Head(events).id THEN FALSE ELSE running[p]
    BY <1>3 DEF ContainerStopped, SetRunning
  <2>2. LastEventTells' /\ HeldIsUp'
    BY <2>1, ManualDeliver, NoneAssumption DEF HeldIsUp, Manual
  <2>3. FlagsTrack'
    <3> SUFFICES ASSUME NEW c \in Manual, NoEvent(c)', NEW p \in PortsOf(c)
                 PROVE  running'[p] = (container'[c] = "up")
      BY DEF FlagsTrack, PortsOf
    <3>1. CASE NoEvent(c)
      <4>1. events[1] = Head(events) /\ 1 \in 1..Len(events)
        BY <2>1, HeadTailProperties, EmptySeq DEF CodeTypeOK
      <4>2. Head(events).id # c
        BY <3>1, <4>1 DEF NoEvent
      <4>3. running[p] = (container[c] = "up")
        BY <2>1, <3>1, NoneAssumption DEF ManualInv, FlagsTrack, Manual
      <4> QED
        BY <2>1, <4>2, <4>3 DEF PortsOf
    <3>2. CASE ~NoEvent(c)
      <4>1. Head(events).id = c /\ container[c] # "up"
        BY <2>1, <3>2, ManualDeliver
      <4> QED
        BY <2>1, <4>1 DEF PortsOf
    <3> QED
      BY <3>1, <3>2
  <2> QED
    BY <2>2, <2>3 DEF ManualInv
<1>4. ~WatchStartFailed
  BY DEF WatchStartFailed
<1> QED
  BY <1>1, <1>2, <1>3, <1>4 DEF Watcher

\* Every step of the code keeps the queue and the manual flags consistent.
LEMMA ManualStep ==
  ASSUME CodeTypeOK, ManualInv, HandsOff, ~InspectFails, Step
  PROVE  ManualInv'
<1> USE DEF dockerVars, serverVars
<1>1. ASSUME NEW c \in Containers, ExternalChange(c) \/ StartCall(c) PROVE ManualInv'
  <2>1. CASE ExternalChange(c)
    BY <2>1, ManualChange DEF ExternalChange
  <2>2. CASE Inspect(c) \/ StartReturns(c)
    BY <2>2, ManualSame DEF Inspect, StartReturns
  <2>3. CASE ContainerStart(c)
    BY <2>3, ManualChange, ManualSame DEF ContainerStart
  <2> QED
    BY <1>1, <2>1, <2>2, <2>3 DEF StartCall
<1>2. ASSUME NEW k \in Conns, Handler(k) \/ CopyEnds(k) PROVE ManualInv'
  <2>1. CASE MarkRunning(k)
    BY <2>1, ManualSame DEF MarkRunning, SetRunning, HandsOff
  <2>2. CASE ~MarkRunning(k)
    <3>1. UNCHANGED <<container, events, held, running>>
      BY <1>2, <2>2 DEF Handler, Blocked, JoinStart, SkipStart, HealthGate, DialOk,
                        DialFailed, StampLastActive, Leave, CopyEnds
    <3> QED
      BY <3>1, ManualSame
  <2> QED
    BY <2>1, <2>2
<1>3. ASSUME NEW k \in Conns, NEW p \in Ports, Accept(k, p) PROVE ManualInv'
  BY <1>3, ManualSame DEF Accept
<1>4. ASSUME NEW p \in Ports, IdleTimeout(p) PROVE ManualInv'
  BY <1>4, ManualSame DEF IdleTimeout
<1>5. CASE Watcher
  BY <1>5, ManualWatch
<1>6. ASSUME NEW p \in Ports, MarkStopped(p) PROVE ManualInv'
  BY <1>6, ManualSame DEF MarkStopped, HandsOff, CodeTypeOK
<1>7. ASSUME NEW c \in Containers, StopOk(c) PROVE ManualInv'
  BY <1>7, ManualChange DEF StopOk
<1>8. ASSUME NEW p \in Ports, CheckActive(p) PROVE ManualInv'
  BY <1>8, ManualSame DEF CheckActive
<1>9. ASSUME NEW c \in Containers, StopFailed(c) PROVE ManualInv'
  BY <1>9, ManualSame DEF StopFailed
<1>10. CASE CheckBegin \/ CheckLast \/ CheckDecide \/ CheckEnd
  BY <1>10, ManualSame DEF CheckBegin, CheckLast, CheckDecide, CheckEnd
<1> QED
  BY <1>1, <1>2, <1>3, <1>4, <1>5, <1>6, <1>7, <1>8, <1>9, <1>10 DEF Step, Checker

\* Once the events of a manual container have been applied, its running flags
\* agree with the daemon, whatever connections and the checker do meanwhile.
THEOREM ManualFlagsCorrect == Spec => []ManualFlagsTrack
<1> DEFINE Inv == ~InspectFails => ManualInv
<1>1. Init => Inv /\ HandsOff
  <2> SUFFICES ASSUME Init PROVE ManualInv /\ HandsOff
    OBVIOUS
  <2>1. Len(events) = 0 /\ held \notin Containers
    BY NoneAssumption DEF Init
  <2> QED
    BY <2>1 DEF Init, ManualInv, LastEventTells, HeldIsUp, FlagsTrack, HandsOff, Manual, PortsOf
<1>2. TypeOK /\ Inv /\ HandsOff /\ [Next]_vars => Inv' /\ HandsOff'
  <2>1. ASSUME TypeOK, Inv, HandsOff, Next PROVE Inv' /\ HandsOff'
    BY <2>1, HandsOffStep, ManualStep DEF Next, TypeOK
  <2>2. ASSUME Inv, HandsOff, UNCHANGED vars PROVE Inv' /\ HandsOff'
    BY <2>2 DEF vars, ManualInv, LastEventTells, HeldIsUp, FlagsTrack, HandsOff, NoEvent
  <2> QED
    BY <2>1, <2>2
<1>3. Inv => ManualFlagsTrack
  BY DEF ManualInv, FlagsTrack, NoEvent, ManualFlagsTrack, Manual
<1> QED
  BY <1>1, <1>2, <1>3, TypeCorrect, PTL DEF Spec

-----------------------------------------------------------------------------
(* The contract. That every request is answered, which rests on fairness, is *)
(* left to TLC.                                                              *)

\* What the mapping relies on: the author is known; between two steps nothing is
\* left to observe, so that quiet changes only when a pass begins or ends, a
\* connection leaves or a clock runs out; and what is to be stopped has a port.
AuthorTypeOK == author \in [Containers -> {"proxy", "outside"}]

Observed ==
  IF chkPc = "sleep" THEN idleSeen = {}
  ELSE /\ {p \in Ports : activeConns[p] = 0} \subseteq calm
       /\ {p \in calm : ~recent[p]} \subseteq idleSeen

StopsOwners == chkStop \subseteq {Owner[p] : p \in Ports}

MappingInv == AuthorTypeOK /\ Observed /\ StopsOwners

Quiet == {c \in Containers : PortsOf(c) # {} /\ PortsOf(c) \subseteq idleSeen}
Calls == [c \in Containers |-> CallOf(c)]

-----------------------------------------------------------------------------
(* The invariant *)

\* Every step of the code, with the history it leaves, keeps the mapping sound.
LEMMA MappingStep ==
  ASSUME TypeOK, MappingInv, AuthoredNext
  PROVE  MappingInv'
<1>1. AuthorTypeOK'
  BY DEF AuthoredNext, Authored, MappingInv, AuthorTypeOK
<1>2. Observed'
  BY DEF AuthoredNext, Next, Observe, Observed
<1>3. StopsOwners'
  <2>1. CASE UNCHANGED chkVars
    BY <2>1 DEF chkVars, MappingInv, StopsOwners
  <2>2. CASE CheckDecide
    BY <2>2 DEF CheckDecide, OnDemandPorts, StopsOwners
  <2>3. CASE CheckBegin \/ CheckLast \/ CheckEnd
    BY <2>3 DEF CheckBegin, CheckLast, CheckEnd, MappingInv, StopsOwners
  <2>4. ASSUME NEW p \in Ports, CheckActive(p) \/ MarkStopped(p) PROVE StopsOwners'
    BY <2>4 DEF CheckActive, MarkStopped, MappingInv, StopsOwners
  <2>5. ASSUME NEW c \in Containers, StopOk(c) \/ StopFailed(c) PROVE StopsOwners'
    BY <2>5 DEF StopOk, StopFailed, MappingInv, StopsOwners
  <2> QED
    BY <2>1, <2>2, <2>3, <2>4, <2>5, ChkSame DEF AuthoredNext, Next, Checker
<1> QED
  BY <1>1, <1>2, <1>3 DEF MappingInv

\* The history variable restricts nothing: every behaviour is one of the program.
LEMMA RunsTheCode == AuthoredSpec => Spec
<1>1. AuthoredInit => Init
  BY DEF AuthoredInit
<1>2. [AuthoredNext]_authorVars => [Next]_vars
  BY DEF AuthoredNext, authorVars
<1> QED
  BY <1>1, <1>2, PTL DEF AuthoredSpec, Spec

\* The mapping is sound in every reachable state.
THEOREM MappingCorrect == AuthoredSpec => []MappingInv
<1>1. AuthoredInit => MappingInv
  BY DEF AuthoredInit, Init, MappingInv, AuthorTypeOK, Observed, StopsOwners
<1>2. TypeOK /\ MappingInv /\ [AuthoredNext]_authorVars => MappingInv'
  <2>1. ASSUME MappingInv, UNCHANGED authorVars PROVE MappingInv'
    BY <2>1 DEF authorVars, vars, MappingInv, AuthorTypeOK, Observed, StopsOwners
  <2> QED
    BY <2>1, MappingStep
<1> QED
  BY <1>1, <1>2, RunsTheCode, TypeCorrect, PTL DEF AuthoredSpec

-----------------------------------------------------------------------------
(* What a step does to the observed and to the author *)

\* A step that touches no counter, no stamp and no session, and does not begin or
\* end a pass, shows nothing new.
LEMMA NothingSeen ==
  ASSUME TypeOK, Observed, Observe,
         chkPc' = chkPc, activeConns' = activeConns, lastActive' = lastActive,
         \A k \in Conns : ~(pc[k] = "proxying" /\ pc'[k] = "drained")
  PROVE  Quiet' = Quiet
<1>1. recent' = recent
  BY DEF Observe, TypeOK, HistoryTypeOK
<1>2. idleSeen' = idleSeen
  BY <1>1 DEF Observe, Observed
<1> QED
  BY <1>2 DEF Quiet, PortsOf

\* Whatever the step, a pass either goes on and has seen more, or starts anew.
LEMMA SeenGrows ==
  ASSUME TypeOK, Observe
  PROVE  Quiet' = {} \/ \E more \in SUBSET Containers : Quiet' = Quiet \cup more
<1>1. CASE chkPc' = "sleep"
  BY <1>1 DEF Observe, Quiet, PortsOf
<1>2. CASE chkPc' # "sleep"
  <2>1. Quiet \subseteq Quiet'
    BY <1>2 DEF Observe, Quiet, PortsOf
  <2>2. Quiet' = Quiet \cup Quiet' /\ Quiet' \in SUBSET Containers
    BY <2>1 DEF Quiet
  <2> QED
    BY <2>2
<1> QED
  BY <1>1, <1>2

\* A step that changes no container has no author.
LEMMA AuthorSame ==
  ASSUME AuthorTypeOK, Authored, container' = container
  PROVE  author' = author
BY DEF AuthorTypeOK, Authored

\* A step that changes one container is written to its author's account.
LEMMA AuthorOf ==
  ASSUME AuthorTypeOK, Authored, TypeOK, NEW c \in Containers,
         NEW to \in {"up", "down"}, container[c] # to,
         container' = [container EXCEPT ![c] = to]
  PROVE  /\ ExternalChange(c)  => author' = [author EXCEPT ![c] = "outside"]
         /\ ~ExternalChange(c) => author' = [author EXCEPT ![c] = "proxy"]
<1>1. /\ container'[c] # container[c]
      /\ \A d \in Containers \ {c} : container'[d] = container[d]
  BY DEF TypeOK, CodeTypeOK
<1> QED
  BY <1>1 DEF AuthorTypeOK, Authored

-----------------------------------------------------------------------------
(* The steps *)

\* A step that changes neither a container nor a start call is one that sees more,
\* or the start of a new round.
LEMMA Quietly ==
  ASSUME TypeOK, AuthorTypeOK, Authored, Observe,
         container' = container, flight' = flight
  PROVE  Contract!SeenQuiet \/ Contract!Forget
<1>1. Calls' = Calls
  BY DEF Calls, CallOf
<1> QED
  BY <1>1, AuthorSame, SeenGrows
  DEF Contract!SeenQuiet, Contract!Forget, Calls, Quiet

\* The steps that change neither: those of connections that wait for no start, of
\* the watcher, of time and of most of the checker.
LEMMA OthersQuiet ==
  ASSUME Step,
         ~(\E c \in Containers : ExternalChange(c) \/ StartCall(c) \/ StopOk(c)),
         ~(\E k \in Conns : JoinStart(k))
  PROVE  container' = container /\ flight' = flight
<1> USE DEF dockerVars, handlerVars
<1>1. ASSUME NEW k \in Conns, Handler(k) \/ CopyEnds(k)
      PROVE  container' = container /\ flight' = flight
  BY <1>1 DEF Handler, Blocked, SkipStart, MarkRunning, HealthGate, DialOk, DialFailed,
              StampLastActive, Leave, CopyEnds
<1>2. ASSUME NEW k \in Conns, NEW p \in Ports, Accept(k, p)
      PROVE  container' = container /\ flight' = flight
  BY <1>2 DEF Accept
<1>3. ASSUME NEW p \in Ports, IdleTimeout(p)
      PROVE  container' = container /\ flight' = flight
  BY <1>3 DEF IdleTimeout
<1>4. CASE Watcher
  BY <1>4 DEF Watcher, WatchStart, WatchStartFailed, ContainerStarted, ContainerStopped
<1>5. CASE Checker
  BY <1>5 DEF Checker, CheckBegin, CheckLast, CheckDecide, CheckEnd, CheckActive,
              MarkStopped, StopFailed
<1> QED
  BY <1>1, <1>2, <1>3, <1>4, <1>5 DEF Step

\* A user's start or stop, or a crash, is one of the contract.
LEMMA OutsideStep ==
  ASSUME TypeOK, MappingInv, Authored, Observe, NEW c \in Containers, ExternalChange(c)
  PROVE  Contract!Outside(c)
<1>1. PICK to \in {"up", "down"} :
        container[c] # to /\ container' = [container EXCEPT ![c] = to]
  BY DEF ExternalChange, SetContainer, TypeOK, CodeTypeOK
<1>2. author' = [author EXCEPT ![c] = "outside"]
  BY <1>1, AuthorOf DEF MappingInv
<1>3. Quiet' = Quiet
  BY NothingSeen DEF ExternalChange, serverVars, handlerVars, chkVars, MappingInv
<1>4. Calls' = Calls
  BY DEF ExternalChange, handlerVars, Calls, CallOf
<1> QED
  BY <1>1, <1>2, <1>3, <1>4 DEF Contract!Outside, Contract!Changed, Quiet, Calls

\* The first connection of a start asks for it, the others change nothing.
LEMMA JoinStep ==
  ASSUME TypeOK, MappingInv, Authored, Observe, NEW k \in Conns, JoinStart(k)
  PROVE  \/ \E c \in Containers : Contract!Ask(c)
         \/ UNCHANGED Contract!vars
<1> DEFINE c == Owner[port[k]]
<1>1. c \in Containers
  BY OwnerAssumption DEF JoinStart, TypeOK, CodeTypeOK
<1>2. container' = container /\ author' = author
  BY AuthorSame DEF JoinStart, dockerVars, MappingInv
<1>3. Quiet' = Quiet
  BY NothingSeen DEF JoinStart, Goto, serverVars, chkVars, TypeOK, CodeTypeOK, MappingInv
<1>4. CASE flight[c] = "none"
  <2>1. Calls[c] = "none" /\ Calls' = [Calls EXCEPT ![c] = "asked"]
    BY <1>1, <1>4 DEF JoinStart, Calls, CallOf, TypeOK, CodeTypeOK
  <2> QED
    BY <1>1, <1>2, <1>3, <2>1 DEF Contract!Ask, Contract!Reply, Quiet, Calls
<1>5. CASE flight[c] # "none"
  <2>1. Calls' = Calls
    BY <1>1, <1>5 DEF JoinStart, Calls, CallOf, TypeOK, CodeTypeOK
  <2> QED
    BY <1>2, <1>3, <2>1 DEF Contract!vars, Quiet, Calls
<1> QED
  BY <1>4, <1>5

\* EnsureRunning looks: the container is up, or is still to be started, or the
\* daemon refuses.
LEMMA InspectStep ==
  ASSUME TypeOK, MappingInv, Authored, Observe, NEW c \in Containers, Inspect(c)
  PROVE  Contract!Confirm(c) \/ Contract!Fail(c) \/ UNCHANGED Contract!vars
<1>1. container' = container /\ author' = author
  BY AuthorSame DEF Inspect, dockerVars, MappingInv
<1>2. Quiet' = Quiet
  BY NothingSeen DEF Inspect, serverVars, chkVars, MappingInv
<1>3. PICK r \in {IF container[c] = "up" THEN "ok" ELSE "start", "failed"} :
        flight' = [flight EXCEPT ![c] = r]
  BY DEF Inspect
<1>4. Calls[c] = "asked"
  BY DEF Inspect, Calls, CallOf
<1>5. CASE r = "start"
  <2>1. Calls' = Calls
    BY <1>3, <1>5 DEF Inspect, Calls, CallOf, TypeOK, CodeTypeOK
  <2> QED
    BY <1>1, <1>2, <2>1 DEF Contract!vars, Quiet, Calls
<1>6. CASE r # "start"
  <2>1. Calls' = [Calls EXCEPT ![c] = r]
    BY <1>3, <1>6 DEF Calls, CallOf, TypeOK, CodeTypeOK
  <2>2. r = "failed" \/ (r = "ok" /\ container[c] = "up")
    BY <1>3, <1>6
  <2> QED
    BY <1>1, <1>2, <1>4, <2>1, <2>2
    DEF Contract!Confirm, Contract!Fail, Contract!Reply, Quiet, Calls
<1> QED
  BY <1>5, <1>6

\* ContainerStart brings the container up, finds that somebody else has, or fails.
LEMMA StartStep ==
  ASSUME TypeOK, MappingInv, Authored, Observe, NEW c \in Containers, ContainerStart(c)
  PROVE  Contract!Bring(c) \/ Contract!Confirm(c) \/ Contract!Fail(c)
<1>1. Quiet' = Quiet
  BY NothingSeen DEF ContainerStart, serverVars, chkVars, MappingInv
<1>2. Calls[c] = "asked"
  BY DEF ContainerStart, Calls, CallOf
<1>3. CASE SetContainer(c, "up") /\ flight' = [flight EXCEPT ![c] = "ok"]
  <2>1. Calls' = [Calls EXCEPT ![c] = "ok"]
    BY <1>3 DEF Calls, CallOf, TypeOK, CodeTypeOK
  <2>2. CASE container[c] = "up"
    <3>1. container' = container /\ author' = author
      BY <1>3, <2>2, AuthorSame DEF SetContainer, MappingInv, TypeOK, CodeTypeOK
    <3> QED
      BY <1>1, <1>2, <2>1, <2>2, <3>1 DEF Contract!Confirm, Contract!Reply, Quiet, Calls
  <2>3. CASE container[c] # "up"
    <3>1. container' = [container EXCEPT ![c] = "up"]
      BY <1>3 DEF SetContainer
    <3>2. ~ExternalChange(c)
      BY <1>3 DEF ContainerStart, ExternalChange, handlerVars, TypeOK, CodeTypeOK
    <3>3. author' = [author EXCEPT ![c] = "proxy"]
      BY <2>3, <3>1, <3>2, AuthorOf DEF MappingInv
    <3> QED
      BY <1>1, <1>2, <2>1, <2>3, <3>1, <3>3
      DEF Contract!Bring, Contract!Changed, Contract!Reply, Quiet, Calls
  <2> QED
    BY <2>2, <2>3
<1>4. CASE UNCHANGED <<container, events>> /\ flight' = [flight EXCEPT ![c] = "failed"]
  <2>1. Calls' = [Calls EXCEPT ![c] = "failed"]
    BY <1>4 DEF Calls, CallOf, TypeOK, CodeTypeOK
  <2>2. author' = author
    BY <1>4, AuthorSame DEF MappingInv
  <2> QED
    BY <1>1, <1>2, <1>4, <2>1, <2>2 DEF Contract!Fail, Contract!Reply, Quiet, Calls
<1> QED
  BY <1>3, <1>4 DEF ContainerStart

\* The result reaches everybody who waits for it.
LEMMA AnswerStep ==
  ASSUME TypeOK, MappingInv, Authored, Observe, NEW c \in Containers, StartReturns(c)
  PROVE  Contract!Answer(c)
<1>1. container' = container /\ author' = author
  BY AuthorSame DEF StartReturns, dockerVars, MappingInv
<1>2. Quiet' = Quiet
  BY NothingSeen DEF StartReturns, Waiting, serverVars, chkVars, MappingInv
<1>3. Calls[c] \in {"ok", "failed"} /\ Calls' = [Calls EXCEPT ![c] = "none"]
  BY DEF StartReturns, Calls, CallOf, TypeOK, CodeTypeOK
<1> QED
  BY <1>1, <1>2, <1>3 DEF Contract!Answer, Contract!Reply, Quiet, Calls

\* The checker stops a container whose ports have all been seen idle.
LEMMA StopStep ==
  ASSUME TypeOK, MappingInv, VerdictJustified, Authored, Observe,
         NEW c \in Containers, StopOk(c)
  PROVE  Contract!Stop(c) \/ UNCHANGED Contract!vars
<1>1. Quiet' = Quiet
  BY NothingSeen DEF StopOk, serverVars, handlerVars, MappingInv
<1>2. Calls' = Calls
  BY DEF StopOk, handlerVars, Calls, CallOf
<1>3. c \in Quiet
  BY DEF StopOk, VerdictJustified, MappingInv, StopsOwners, Quiet, PortsOf
<1>4. CASE container[c] = "down"
  <2>1. container' = container /\ author' = author
    BY <1>4, AuthorSame DEF StopOk, SetContainer, MappingInv, TypeOK, CodeTypeOK
  <2> QED
    BY <1>1, <1>2, <2>1 DEF Contract!vars, Quiet, Calls
<1>5. CASE container[c] # "down"
  <2>1. container' = [container EXCEPT ![c] = "down"]
    BY DEF StopOk, SetContainer
  <2>2. ~ExternalChange(c)
    BY DEF StopOk, ExternalChange, chkVars
  <2>3. author' = [author EXCEPT ![c] = "proxy"]
    BY <1>5, <2>1, <2>2, AuthorOf DEF MappingInv
  <2> QED
    BY <1>1, <1>2, <1>3, <1>5, <2>1, <2>3 DEF Contract!Stop, Contract!Changed, Quiet, Calls
<1> QED
  BY <1>4, <1>5

-----------------------------------------------------------------------------
(* The refinement *)

\* The proxy starts a container only while a start is asked for, reports "ok" only
\* for one that is up, and stops one only after each of its ports was seen idle:
\* every step of ProxyLifecycle is one that OnDemand allows.
THEOREM ContractKept == AuthoredSpec => Contract!Safety
<1>1. AuthoredInit => Contract!Init
  <2> SUFFICES ASSUME AuthoredInit PROVE Contract!Init
    OBVIOUS
  <2>1. Calls = [c \in Containers |-> "none"] /\ Quiet = {}
    BY DEF AuthoredInit, Init, Calls, CallOf, Quiet, PortsOf
  <2> QED
    BY <2>1 DEF AuthoredInit, Init, Contract!Init, Calls, Quiet
<1>2. TypeOK /\ MappingInv /\ VerdictJustified /\ [AuthoredNext]_authorVars
        => [Contract!Next]_(Contract!vars)
  <2>1. ASSUME UNCHANGED authorVars PROVE UNCHANGED Contract!vars
    BY <2>1 DEF authorVars, vars, Contract!vars, CallOf, PortsOf
  <2>2. ASSUME TypeOK, MappingInv, VerdictJustified, Step, Observe, Authored
        PROVE  [Contract!Next]_(Contract!vars)
    <3>1. ASSUME NEW c \in Containers, ExternalChange(c) PROVE Contract!Next
      BY <2>2, <3>1, OutsideStep DEF Contract!Next
    <3>2. ASSUME NEW c \in Containers, StartCall(c) PROVE [Contract!Next]_(Contract!vars)
      BY <2>2, <3>2, InspectStep, StartStep, AnswerStep DEF StartCall, Contract!Next
    <3>3. ASSUME NEW c \in Containers, StopOk(c) PROVE [Contract!Next]_(Contract!vars)
      BY <2>2, <3>3, StopStep DEF Contract!Next
    <3>4. ASSUME NEW k \in Conns, JoinStart(k) PROVE [Contract!Next]_(Contract!vars)
      BY <2>2, <3>4, JoinStep DEF Contract!Next
    <3>5. ASSUME ~(\E c \in Containers : ExternalChange(c) \/ StartCall(c) \/ StopOk(c)),
                 ~(\E k \in Conns : JoinStart(k))
          PROVE  Contract!Next
      BY <2>2, <3>5, OthersQuiet, Quietly DEF MappingInv, Contract!Next
    <3> QED
      BY <3>1, <3>2, <3>3, <3>4, <3>5
  <2> QED
    BY <2>1, <2>2 DEF AuthoredNext, Next
<1> QED
  BY <1>1, <1>2, RunsTheCode, TypeCorrect, VerdictCorrect, MappingCorrect, PTL
  DEF AuthoredSpec, Contract!Safety
=============================================================================
