--------------------------- MODULE Cascade_proofs ---------------------------
(* Theorems about Cascade, for any containers, dependants and goroutines. *)
EXTENDS Cascade, FiniteSetTheorems, SequenceTheorems, TLAPS

EventRecords == [kind : {"up", "down"}, id : Containers]
FlightStates == {"none", "connect", "cascadeStart", "ok", "failed"}

\* A goroutine that works has something to do; one that does not is where a new
\* one begins.
JobOK(j) ==
  /\ j \in JobRecords
  /\ j.op # "none" <=> j.todo # <<>>
  /\ j.op = "none" => j.pc = "look"

JobsOK == jobs \in [Workers -> JobRecords] /\ \A w \in Workers : JobOK(jobs[w])

\* One that waits for a start has a start to wait for.
WaitsOK == \A w \in Workers : jobs[w].pc = "ensuring" => flight[Target(w)] # "none"

DockerOK ==
  container \in [Containers -> {"up", "down"}] /\ events \in Seq(EventRecords)

ServerOK ==
  running \in [Containers -> BOOLEAN] /\ flight \in [Containers -> FlightStates]

HistoryOK ==
  /\ moved \subseteq Moves /\ Cardinality(moved) <= 1
  /\ excused \subseteq Containers /\ raced \in BOOLEAN

Inv ==
  DockerOK /\ ServerOK /\ JobsOK /\ WaitsOK /\ HistoryOK /\ changes \in 0..MaxChanges

\* The parts together give the type invariant.
LEMMA InvTypeOK == Inv => TypeOK
BY Zenon DEF Inv, TypeOK, DockerOK, ServerOK, JobsOK, JobOK, WaitsOK, HistoryOK,
             EventRecords, FlightStates

-----------------------------------------------------------------------------
(* Goroutines *)

\* One that has ended is well formed, and so is a new one with work to do.
LEMMA IdleOK == JobOK(Idle) /\ Idle.pc = "look"
BY EmptySeq DEF JobOK, JobRecords, Idle

LEMMA NewJobOK ==
  ASSUME NEW op \in Starts \cup Stops, NEW todo \in Seq(Containers), todo # <<>>
  PROVE  JobOK(Job(op, todo)) /\ Job(op, todo).pc = "look"
<1>1. op # "none"
  BY DEF Starts, Stops
<1> QED
  BY <1>1 DEF JobOK, JobRecords, Job

\* A goroutine at work has a first container to visit.
LEMMA AtWork ==
  ASSUME JobsOK, NEW w \in Workers, jobs[w].op # "none"
  PROVE  /\ jobs[w].op \in Starts \cup Stops
         /\ jobs[w].todo \in Seq(Containers) /\ jobs[w].todo # <<>>
         /\ Target(w) \in Containers
<1>1. /\ jobs[w].op \in Starts \cup Stops
      /\ jobs[w].todo \in Seq(Containers) /\ jobs[w].todo # <<>>
  BY DEF JobsOK, JobOK, JobRecords
<1> QED
  BY <1>1, HeadTailProperties DEF Target

\* Only goroutines at work wait or mark.
LEMMA SkipOK ==
  ASSUME JobsOK, NEW w \in Workers, jobs[w].op # "none"
  PROVE  JobOK(Skip(w)) /\ Skip(w).pc = "look"
<1>1. CASE Len(jobs[w].todo) = 1
  BY <1>1, IdleOK DEF Skip
<1>2. CASE Len(jobs[w].todo) # 1
  <2>1. Tail(jobs[w].todo) \in Seq(Containers) /\ Tail(jobs[w].todo) # <<>>
    <3>1. jobs[w].todo \in Seq(Containers) /\ jobs[w].todo # <<>>
      BY AtWork
    <3>2. Len(jobs[w].todo) \in Nat /\ Len(jobs[w].todo) # 0
      BY <3>1, LenProperties, EmptySeq
    <3>3. Len(Tail(jobs[w].todo)) = Len(jobs[w].todo) - 1
          /\ Tail(jobs[w].todo) \in Seq(Containers)
      BY <3>1, HeadTailProperties
    <3>4. Len(Tail(jobs[w].todo)) # 0 /\ Len(<<>>) = 0
      BY <1>2, <3>2, <3>3
    <3> QED
      BY <3>3, <3>4
  <2> QED
    BY <1>2, <2>1, AtWork, NewJobOK DEF Skip
<1> QED
  BY <1>1, <1>2

LEMMA GotoOK ==
  ASSUME JobsOK, NEW w \in Workers, jobs[w].op # "none",
         NEW label \in {"look", "call", "ensuring", "mark"}
  PROVE  /\ JobOK(Goto(w, label)) /\ Goto(w, label).pc = label
         /\ Goto(w, label).todo = jobs[w].todo
<1>1. /\ jobs[w] \in JobRecords /\ jobs[w].todo # <<>>
  BY DEF JobsOK, JobOK
<1>2. /\ Goto(w, label) \in JobRecords
      /\ Goto(w, label).op = jobs[w].op /\ Goto(w, label).pc = label
      /\ Goto(w, label).todo = jobs[w].todo
  BY <1>1 DEF JobRecords, Goto
<1> QED
  BY <1>1, <1>2 DEF JobOK

\* A step of one goroutine that does not make it wait, while no start is answered.
LEMMA OneJob ==
  ASSUME JobsOK, WaitsOK, NEW w, NEW j, JobOK(j), j.pc # "ensuring",
         jobs' = [jobs EXCEPT ![w] = j],
         \A c : flight[c] # "none" => flight'[c] # "none"
  PROVE  JobsOK' /\ WaitsOK'
<1>1. JobsOK'
  BY DEF JobsOK, JobOK
<1>2. \A v \in Workers : (v = w /\ jobs'[v] = j) \/ jobs'[v] = jobs[v]
  BY DEF JobsOK
<1> QED
  BY <1>1, <1>2 DEF WaitsOK, Target

\* go f(...), with or without a goroutine to spare.
LEMMA SpawnOK ==
  ASSUME JobsOK, WaitsOK, NEW op \in Starts \cup Stops, NEW todo \in Seq(Containers),
         Spawn(op, todo), UNCHANGED flight
  PROVE  JobsOK' /\ WaitsOK'
<1>1. CASE todo = <<>>
  BY <1>1 DEF Spawn, JobsOK, JobOK, WaitsOK, Target
<1>2. CASE todo # <<>>
  BY <1>2, NewJobOK, OneJob DEF Spawn
<1> QED
  BY <1>1, <1>2

-----------------------------------------------------------------------------
(* The daemon and the history *)

\* A change of a container, by whoever, keeps the daemon's types and the history's.
LEMMA SetContainerOK ==
  ASSUME DockerOK, HistoryOK, NEW c \in Containers, NEW state \in {"up", "down"}, NEW op,
         SetContainer(c, state, op)
  PROVE  /\ DockerOK'
         /\ moved' \subseteq Moves /\ Cardinality(moved') <= 1
         /\ excused' \subseteq Containers
<1>1. container' \in [Containers -> {"up", "down"}]
  BY DEF SetContainer, DockerOK
<1>2. events' \in Seq(EventRecords)
  <2>1. [kind |-> state, id |-> c] \in EventRecords
    BY DEF EventRecords
  <2>2. Append(events, [kind |-> state, id |-> c]) \in Seq(EventRecords)
    BY <2>1, AppendProperties DEF DockerOK
  <2> QED
    BY <2>2 DEF SetContainer, DockerOK
<1>3. CASE UNCHANGED <<moved, excused>>
  <2>1. moved' = moved /\ excused' = excused
    BY <1>3
  <2> QED
    BY <1>1, <1>2, <2>1 DEF DockerOK, HistoryOK
<1> DEFINE m == [hub |-> c, to |-> state, changed |-> container[c] # state]
<1>4. CASE moved' = {m} /\ excused' = {}
  <2>1. m \in Moves
    BY DEF Moves
  <2>2. Cardinality(moved') <= 1
    <3>1. Cardinality({m}) = 1
      BY FS_Singleton
    <3> QED
      BY <1>4, <3>1
  <2>3. moved' \subseteq Moves /\ excused' \subseteq Containers
    BY <1>4, <2>1
  <2> QED
    BY <1>1, <1>2, <2>2, <2>3 DEF DockerOK
<1> QED
  BY <1>3, <1>4 DEF SetContainer

LEMMA CallFailsOK ==
  ASSUME DockerOK, HistoryOK, NEW c \in Containers, CallFails(c)
  PROVE  /\ DockerOK'
         /\ moved' \subseteq Moves /\ Cardinality(moved') <= 1
         /\ excused' \subseteq Containers
BY DEF CallFails, dockerVars, DockerOK, HistoryOK

LEMMA ChangeOK ==
  ASSUME HistoryOK, changes \in 0..MaxChanges, Change
  PROVE  changes' \in 0..MaxChanges /\ raced' \in BOOLEAN
<1>1. changes' \in 0..MaxChanges
  BY BoundsAssumption DEF Change
<1>2. raced' \in BOOLEAN
  <2>1. CASE Settled
    BY <2>1 DEF Change, HistoryOK, FlagsTrue
  <2>2. CASE ~Settled
    BY <2>2 DEF Change
  <2> QED
    BY <2>1, <2>2
<1> QED
  BY <1>1, <1>2

-----------------------------------------------------------------------------
(* The steps *)

\* What comes from outside: the daemon and the users, or a goroutine more.
LEMMA OutsideInv == Inv /\ FromOutside => Inv'
<1> SUFFICES ASSUME Inv, FromOutside PROVE Inv'
  OBVIOUS
<1> USE DEF Inv
<1>1. CASE StreamBreaks
  <2>1. DockerOK'
    BY <1>1, EmptySeq DEF StreamBreaks, DockerOK
  <2>2. ServerOK' /\ JobsOK' /\ WaitsOK' /\ HistoryOK'
    BY <1>1 DEF StreamBreaks, serverVars, ServerOK, JobsOK, JobOK, WaitsOK, Target, HistoryOK
  <2> QED
    BY <1>1, <2>1, <2>2 DEF StreamBreaks
<1>2. ASSUME NEW c \in Containers, Outside(c) PROVE Inv'
  <2>1. changes' \in 0..MaxChanges /\ raced' \in BOOLEAN
    BY <1>2, ChangeOK DEF Outside
  <2>2. DockerOK' /\ HistoryOK'
    BY <1>2, <2>1, SetContainerOK DEF Outside, HistoryOK
  <2>3. ServerOK' /\ JobsOK' /\ WaitsOK'
    BY <1>2 DEF Outside, serverVars, ServerOK, JobsOK, JobOK, WaitsOK, Target
  <2> QED
    BY <2>1, <2>2, <2>3
<1>3. ASSUME NEW c \in Containers, NEW op \in Starts \cup Stops, Request(op, c) PROVE Inv'
  <2>1. changes' \in 0..MaxChanges /\ raced' \in BOOLEAN
    BY <1>3, ChangeOK DEF Request
  <2>2. <<c>> \in Seq(Containers)
    OBVIOUS
  <2>3. JobsOK' /\ WaitsOK'
    BY <1>3, <2>2, SpawnOK DEF Request
  <2>4. HistoryOK'
    <3>1. moved' = {} \/ moved' = moved
      BY <1>3 DEF Request, Forget
    <3>2. Cardinality(moved') <= 1
      BY <3>1, FS_EmptySet DEF HistoryOK
    <3> QED
      BY <1>3, <2>1, <3>1, <3>2 DEF Request, HistoryOK
  <2>5. DockerOK' /\ ServerOK'
    BY <1>3 DEF Request, dockerVars, DockerOK, ServerOK
  <2> QED
    BY <2>1, <2>3, <2>4, <2>5
<1>4. ASSUME NEW c \in Containers, Resend(c) PROVE Inv'
  <2>1. changes' \in 0..MaxChanges /\ raced' \in BOOLEAN
    <3>1. changes' \in 0..MaxChanges
      BY <1>4, BoundsAssumption DEF Resend
    <3>2. raced' \in BOOLEAN
      BY <1>4, Zenon DEF Resend
    <3> QED
      BY <3>1, <3>2
  <2>2. DockerOK'
    <3>1. [kind |-> container[c], id |-> c] \in EventRecords
      BY DEF DockerOK, EventRecords
    <3>2. Append(events, [kind |-> container[c], id |-> c]) \in Seq(EventRecords)
      BY <3>1, AppendProperties DEF DockerOK
    <3> QED
      BY <1>4, <3>2 DEF Resend, DockerOK
  <2>3. ServerOK' /\ JobsOK' /\ WaitsOK'
    BY <1>4 DEF Resend, serverVars, ServerOK, JobsOK, JobOK, WaitsOK, Target
  <2>4. HistoryOK'
    BY <1>4, <2>1 DEF Resend, HistoryOK
  <2> QED
    BY <2>1, <2>2, <2>3, <2>4
<1> QED
  BY <1>1, <1>2, <1>3, <1>4
  DEF FromOutside, Connect, IdleStop, CronStart, CronStop, Starts, Stops

\* An event is received: the flag follows it and a cascade begins.
LEMMA WatchInv == Inv /\ Watch => Inv'
<1> SUFFICES ASSUME Inv, Watch PROVE Inv'
  OBVIOUS
<1> USE DEF Inv
<1>1. /\ Head(events) \in EventRecords /\ Tail(events) \in Seq(EventRecords)
      /\ Head(events).id \in Containers
  <2>1. events # <<>> /\ events \in Seq(EventRecords)
    BY DEF Watch, DockerOK
  <2>2. Head(events) \in EventRecords /\ Tail(events) \in Seq(EventRecords)
    BY <2>1, HeadTailProperties
  <2> QED
    BY <2>2 DEF EventRecords
<1>2. JobsOK' /\ WaitsOK'
  <2>1. /\ StartedWith(Head(events).id) \in Seq(Containers)
        /\ Dependants[Head(events).id] \in Seq(Containers)
    BY <1>1, DependantsAssumption, EmptySeq DEF StartedWith
  <2>2. "cascadeStart" \in Starts \cup Stops /\ "cascadeStop" \in Starts \cup Stops
    BY DEF Starts, Stops
  <2> QED
    BY <2>1, <2>2, SpawnOK DEF Watch
<1>3. DockerOK'
  BY <1>1 DEF Watch, DockerOK
<1>4. ServerOK'
  BY DEF Watch, ServerOK
<1> QED
  BY <1>2, <1>3, <1>4 DEF Watch, HistoryOK

\* A goroutine takes a step.
LEMMA StepInv ==
  ASSUME Inv, NEW w \in Workers, Step(w)
  PROVE  Inv'
<1> USE DEF Inv
<1>0. jobs[w].op # "none"
  <2>1. jobs[w].op = "none" => jobs[w].pc = "look"
    BY DEF JobsOK, JobOK
  <2> QED
    BY <2>1 DEF Step, LookToStop, LookToCronStart, Call, JoinStart, Mark, At, Starts, Stops
<1>1. /\ JobOK(Skip(w)) /\ Skip(w).pc = "look"
      /\ JobOK(Goto(w, "call")) /\ Goto(w, "call").pc = "call"
      /\ JobOK(Goto(w, "mark")) /\ Goto(w, "mark").pc = "mark"
      /\ Target(w) \in Containers
  BY <1>0, SkipOK, GotoOK, AtWork
<1>2. CASE LookToStop(w) \/ LookToCronStart(w)
  <2>1. \E j \in {Skip(w), Goto(w, "call")} : jobs' = [jobs EXCEPT ![w] = j]
    BY <1>2 DEF LookToStop, LookToCronStart
  <2>2. JobsOK' /\ WaitsOK'
    BY <1>1, <1>2, <2>1, OneJob DEF LookToStop, LookToCronStart
  <2>3. DockerOK' /\ ServerOK' /\ HistoryOK' /\ changes' = changes
    BY <1>2 DEF LookToStop, LookToCronStart, dockerVars, DockerOK, ServerOK, HistoryOK
  <2> QED
    BY <2>2, <2>3
<1>3. CASE Call(w)
  <2>1. \E j \in {Skip(w), Goto(w, "mark")} : jobs' = [jobs EXCEPT ![w] = j]
    BY <1>3 DEF Call
  <2>2. JobsOK' /\ WaitsOK'
    BY <1>1, <1>3, <2>1, OneJob DEF Call
  <2>3. DockerOK' /\ HistoryOK'
    BY <1>1, <1>3, SetContainerOK, CallFailsOK DEF Call, HistoryOK
  <2>4. ServerOK' /\ changes' = changes
    BY <1>3 DEF Call, ServerOK
  <2> QED
    BY <2>2, <2>3, <2>4
<1>4. CASE JoinStart(w)
  <2>1. /\ flight' \in [Containers -> FlightStates]
        /\ flight'[Target(w)] # "none"
        /\ \A c \in Containers : flight[c] # "none" => flight'[c] # "none"
    BY <1>1, <1>4 DEF JoinStart, At, ServerOK, FlightStates
  <2>2. /\ JobOK(Goto(w, "ensuring"))
        /\ Goto(w, "ensuring").todo = jobs[w].todo
    BY <1>0, GotoOK
  <2>3. JobsOK'
    BY <1>4, <2>2 DEF JoinStart, JobsOK, JobOK
  <2>4. \A v \in Workers : Target(v)' = Target(v) /\ (v # w => jobs'[v] = jobs[v])
    BY <1>4, <2>2 DEF JoinStart, JobsOK, Target
  <2>5. WaitsOK'
    <3> SUFFICES ASSUME NEW v \in Workers, jobs'[v].pc = "ensuring"
                 PROVE  flight'[Target(v)'] # "none"
      BY DEF WaitsOK
    <3>1. CASE v = w
      BY <2>1, <2>4, <3>1
    <3>2. CASE v # w
      <4>1. jobs[v].pc = "ensuring"
        BY <2>4, <3>2
      <4>2. jobs[v].op # "none" /\ flight[Target(v)] # "none"
        BY <4>1 DEF JobsOK, JobOK, WaitsOK
      <4> QED
        BY <2>1, <2>4, <4>2, AtWork
    <3> QED
      BY <3>1, <3>2
  <2>6. DockerOK' /\ ServerOK' /\ HistoryOK' /\ changes' = changes
    BY <1>4, <2>1 DEF JoinStart, dockerVars, DockerOK, ServerOK, HistoryOK
  <2> QED
    BY <2>3, <2>5, <2>6
<1>5. CASE Mark(w)
  <2>1. PICK next : /\ next \in {Job("cascadeStart", StartedWith(Target(w))),
                                 Job("cascadeStop", Dependants[Target(w)]), Skip(w)}
                    /\ jobs' = [jobs EXCEPT ![w] = IF next.todo = <<>> THEN Idle ELSE next]
    BY <1>5 DEF Mark
  <2>2. next.todo # <<>> => JobOK(next) /\ next.pc = "look"
    <3>1. /\ StartedWith(Target(w)) \in Seq(Containers)
          /\ Dependants[Target(w)] \in Seq(Containers)
      BY <1>1, DependantsAssumption, EmptySeq DEF StartedWith
    <3>2. "cascadeStart" \in Starts \cup Stops /\ "cascadeStop" \in Starts \cup Stops
      BY DEF Starts, Stops
    <3>3. \A op, todo : Job(op, todo).todo = todo
      BY DEF Job
    <3> QED
      BY <1>1, <2>1, <3>1, <3>2, <3>3, NewJobOK
  <2>3. JobsOK' /\ WaitsOK'
    BY <1>5, <2>1, <2>2, IdleOK, OneJob DEF Mark
  <2>4. running' \in [Containers -> BOOLEAN]
    <3>1. (jobs[w].op \in Starts) \in BOOLEAN
      OBVIOUS
    <3>2. \/ running' = running
          \/ running' = [running EXCEPT ![Target(w)] = jobs[w].op \in Starts]
      BY <1>5 DEF Mark
    <3> QED
      BY <3>1, <3>2 DEF ServerOK
  <2>5. DockerOK' /\ ServerOK' /\ HistoryOK' /\ changes' = changes
    BY <1>5, <2>4 DEF Mark, dockerVars, DockerOK, ServerOK, HistoryOK
  <2> QED
    BY <2>3, <2>5
<1> QED
  BY <1>2, <1>3, <1>4, <1>5 DEF Step

\* A start that several wait for succeeds or fails, and returns to all of them.
LEMMA StartCallInv ==
  ASSUME Inv, NEW c \in Containers, StartCall(c)
  PROVE  Inv'
<1> USE DEF Inv
<1>1. CASE EnsureRunning(c)
  <2>1. DockerOK' /\ HistoryOK'
    <3>1. CASE SetContainer(c, "up", flight[c])
      BY <1>1, <3>1, SetContainerOK DEF EnsureRunning, HistoryOK
    <3>2. CASE CallFails(c)
      BY <1>1, <3>2, CallFailsOK DEF EnsureRunning, HistoryOK
    <3> QED
      BY <1>1, <3>1, <3>2 DEF EnsureRunning
  <2>2. /\ flight' \in [Containers -> FlightStates]
        /\ \A d \in Containers : flight[d] # "none" => flight'[d] # "none"
    BY <1>1 DEF EnsureRunning, ServerOK, FlightStates
  <2>3. JobsOK' /\ WaitsOK'
    <3>1. jobs' = jobs
      BY <1>1 DEF EnsureRunning
    <3>2. \A w \in Workers : jobs[w].pc = "ensuring" => Target(w) \in Containers
      BY AtWork DEF JobsOK, JobOK
    <3> QED
      BY <2>2, <3>1, <3>2 DEF JobsOK, JobOK, WaitsOK, Target
  <2> QED
    BY <1>1, <2>1, <2>2, <2>3 DEF EnsureRunning, ServerOK
<1>2. CASE StartReturns(c)
  <2>1. \A w \in Workers :
          \/ jobs'[w] = jobs[w] /\ w \notin Ensuring(c)
          \/ jobs'[w] \in {Goto(w, "mark"), Skip(w)} /\ w \in Ensuring(c)
    BY <1>2 DEF StartReturns
  <2>2. \A w \in Ensuring(c) : /\ JobOK(Goto(w, "mark")) /\ Goto(w, "mark").pc = "mark"
                               /\ JobOK(Skip(w)) /\ Skip(w).pc = "look"
    <3> SUFFICES ASSUME NEW w \in Ensuring(c)
                 PROVE  /\ JobOK(Goto(w, "mark")) /\ Goto(w, "mark").pc = "mark"
                        /\ JobOK(Skip(w)) /\ Skip(w).pc = "look"
      OBVIOUS
    <3>1. w \in Workers /\ jobs[w].op # "none"
      BY DEF Ensuring, JobsOK, JobOK
    <3> QED
      BY <3>1, GotoOK, SkipOK
  <2>3. JobsOK'
    <3>1. \A w \in Workers : JobOK(jobs'[w])
      BY <2>1, <2>2 DEF JobsOK
    <3>2. jobs' \in [Workers -> JobRecords]
      BY <1>2, <3>1 DEF StartReturns, JobOK
    <3> QED
      BY <3>1, <3>2 DEF JobsOK, JobOK
  <2>4. WaitsOK'
    <3> SUFFICES ASSUME NEW w \in Workers, jobs'[w].pc = "ensuring"
                 PROVE  flight'[Target(w)'] # "none"
      BY DEF WaitsOK
    <3>1. jobs'[w] = jobs[w] /\ w \notin Ensuring(c)
      BY <2>1, <2>2
    <3>2. Target(w)' = Target(w) /\ Target(w) # c /\ flight[Target(w)] # "none"
      BY <3>1 DEF Ensuring, Target, WaitsOK
    <3> QED
      BY <1>2, <3>2 DEF StartReturns, ServerOK
  <2>5. DockerOK' /\ ServerOK' /\ HistoryOK' /\ changes' = changes
    BY <1>2 DEF StartReturns, dockerVars, DockerOK, ServerOK, FlightStates, HistoryOK
  <2> QED
    BY <2>3, <2>4, <2>5
<1> QED
  BY <1>1, <1>2 DEF StartCall

-----------------------------------------------------------------------------
(* The types *)

\* The invariant is inductive.
LEMMA NextInv == Inv /\ [Next]_vars => Inv'
<1>1. ASSUME Inv, UNCHANGED vars PROVE Inv'
  BY <1>1 DEF vars, Inv, DockerOK, ServerOK, JobsOK, JobOK, WaitsOK, Target, HistoryOK
<1> QED
  BY <1>1, OutsideInv, WatchInv, StepInv, StartCallInv DEF Next

\* The invariant holds in every reachable state.
THEOREM InvCorrect == Spec => []Inv
<1>1. Init => Inv
  <2> SUFFICES ASSUME Init PROVE Inv
    OBVIOUS
  <2>1. DockerOK /\ ServerOK
    BY EmptySeq DEF Init, DockerOK, ServerOK, FlightStates
  <2>2. JobsOK /\ WaitsOK
    <3>1. Idle \in JobRecords
      BY IdleOK DEF JobOK
    <3> QED
      BY <3>1, IdleOK DEF Init, JobsOK, WaitsOK
  <2>3. HistoryOK /\ changes \in 0..MaxChanges
    <3>1. moved = {} /\ excused = {} /\ raced = FALSE /\ changes = 0
      BY DEF Init
    <3>2. Cardinality(moved) <= 1
      BY <3>1, FS_EmptySet
    <3>3. changes \in 0..MaxChanges
      BY <3>1, BoundsAssumption
    <3>4. moved \subseteq Moves
      BY <3>1
    <3>5. excused \subseteq Containers /\ raced \in BOOLEAN
      BY <3>1
    <3> QED
      BY <3>2, <3>3, <3>4, <3>5 DEF HistoryOK
  <2> QED
    BY <2>1, <2>2, <2>3 DEF Inv
<1> QED
  BY <1>1, NextInv, PTL DEF Spec

\* However many cascades, starts and stops run beside each other, a goroutine at
\* work has a container to work on, and one that waits for startGroup waits for a
\* call that is there to answer it.
THEOREM TypeCorrect == Spec => []TypeOK
BY InvCorrect, InvTypeOK, PTL

-----------------------------------------------------------------------------
(* Why the dependants follow *)

Busy(w) == jobs[w].op # "none"

\* An event about container c is on its way.
Pending(c) == \E e \in Range(events) : e.id = c

\* The flag does not tell where the container is.
Wrong(c) ==
  \/ running[c] /\ container[c] = "down"
  \/ ~running[c] /\ container[c] = "up"

\* What DependantsFollow says of the containers at rest, also when the last call to move
\* one had nothing to change.
Kept ==
  \A m \in moved :
    /\ container[m.hub] = m.to
    /\ \A d \in Reached(m.hub, m.to) \ excused : container[d] = m.to

\* What a request looks like that has not moved its container.
RequestJob(j) ==
  /\ j.op \notin Cascades /\ Len(j.todo) = 1
  /\ j.pc = "mark" => j.op = "connect" /\ container[Head(j.todo)] = "up"
  /\ j.pc = "call" /\ j.op \in Stops => container[Head(j.todo)] = "up"

Alone == \A v, w \in Workers : Busy(v) /\ Busy(w) => v = w

\* A start call belongs to a connection, and has not moved its container either.
RequestCalls ==
  \A c \in Containers : flight[c] # "none" =>
    /\ flight[c] # "cascadeStart" /\ (flight[c] = "ok" => container[c] = "up")
    /\ \E w \in Workers :
         jobs[w].op = "connect" /\ jobs[w].pc = "ensuring" /\ Target(w) = c

\* Nothing is on the move: one request is under way at most.
AtRest ==
  /\ events = <<>> /\ (\A c \in Containers : ~Wrong(c)) /\ Kept
  /\ Alone /\ (\A w \in Workers : Busy(w) => RequestJob(jobs[w])) /\ RequestCalls

\* The goroutines that take containers the way of a move.
Toward(to) == IF to = "up" THEN Starts ELSE Stops

\* A cascade, or the request that moved the hub, which has only to mark it.
GoesAlong(m, j) ==
  /\ j.op \in Toward(m.to)
  /\ j.pc = "mark" => container[Head(j.todo)] = m.to
  /\ j.op \notin Cascades =>
       /\ Len(j.todo) = 1 /\ Head(j.todo) = m.hub
       /\ \/ j.pc = "mark"
          \/ j.op = "connect" /\ j.pc = "ensuring" /\ flight[m.hub] = "ok"

\* One that has yet to visit d, or to spawn the cascade that will.
Owes(j, d) ==
  \/ j.op \in Cascades /\ d \in Range(j.todo)
  \/ j.op \in {"cronStart", "cronStop", "idleStop"} /\ j.pc = "mark"

\* A dependant that is not yet there is owed a visit.
Served(m, d) ==
  container[d] = m.to \/ Pending(m.hub) \/ \E w \in Workers : Owes(jobs[w], d)

FlagsMoving(m) ==
  \A c \in Containers : Wrong(c) => container[c] = m.to /\ Pending(c)
EventsMoving(m) ==
  \A e \in Range(events) : e.kind = m.to /\ container[e.id] = m.to
JobsMoving(m) == \A w \in Workers : Busy(w) => GoesAlong(m, jobs[w])
CallsMoving(m) ==
  \A c \in Containers : flight[c] # "none" =>
    /\ m.to = "up" /\ flight[c] # "connect"
    /\ flight[c] = "ok" => container[c] = "up"
    /\ flight[c] = "failed" => c \in excused
AllServed(m) == \A d \in Reached(m.hub, m.to) \ excused : Served(m, d)

\* A move is spreading, and whatever happens goes its way.
Moving(m) ==
  /\ moved = {m} /\ container[m.hub] = m.to
  /\ FlagsMoving(m) /\ EventsMoving(m)
  /\ JobsMoving(m) /\ CallsMoving(m) /\ AllServed(m)

\* Unless changes overlapped, the system is at rest or one move is spreading.
FollowInv == ~raced => AtRest \/ \E m \in moved : Moving(m)

-----------------------------------------------------------------------------
(* Sequences and goroutines *)

\* What a sequence holds.
LEMMA RangeOf ==
  ASSUME NEW S, NEW s \in Seq(S)
  PROVE  /\ Range(s) \subseteq S
         /\ s = <<>> => Range(s) = {}
         /\ s # <<>> => Head(s) \in Range(s) /\ Range(s) = {Head(s)} \cup Range(Tail(s))
         /\ Len(s) = 1 => Range(s) = {Head(s)}
         /\ \A e \in S : Range(Append(s, e)) = Range(s) \cup {e}
<1>1. Range(s) = {s[i] : i \in 1..Len(s)} /\ Range(s) \subseteq S /\ Len(s) \in Nat
  BY RangeEquality, RangeOfSeq, LenProperties
<1>2. ASSUME s = <<>> PROVE Range(s) = {}
  BY <1>1, <1>2, EmptySeq
<1>3. ASSUME s # <<>>
      PROVE  Head(s) \in Range(s) /\ Range(s) = {Head(s)} \cup Range(Tail(s))
  <2>1. /\ Tail(s) \in Seq(S) /\ Len(Tail(s)) = Len(s) - 1 /\ Len(s) \in Nat \ {0}
        /\ \A i \in 1..Len(Tail(s)) : Tail(s)[i] = s[i + 1]
    BY <1>3, HeadTailProperties, EmptySeq
  <2>2. Range(Tail(s)) = {Tail(s)[i] : i \in 1..Len(Tail(s))}
    BY <2>1, RangeEquality
  <2>3. Head(s) = s[1] /\ 1 \in 1..Len(s)
    BY <2>1
  <2>4. \A i \in 1..Len(s) : i = 1 \/ (i - 1 \in 1..Len(Tail(s)) /\ s[i] = Tail(s)[i - 1])
    BY <2>1
  <2>5. \A i \in 1..Len(Tail(s)) : i + 1 \in 1..Len(s)
    BY <2>1
  <2>6. ASSUME NEW x \in Range(s) PROVE x = Head(s) \/ x \in Range(Tail(s))
    <3>1. PICK i \in 1..Len(s) : x = s[i]
      BY <1>1, <2>6
    <3> QED
      BY <2>2, <2>3, <2>4, <3>1
  <2>7. ASSUME NEW x \in Range(Tail(s)) PROVE x \in Range(s)
    <3>1. PICK i \in 1..Len(Tail(s)) : x = Tail(s)[i]
      BY <2>2, <2>7
    <3> QED
      BY <1>1, <2>1, <2>5, <3>1
  <2>8. Head(s) \in Range(s)
    BY <1>1, <2>3
  <2> QED
    BY <2>6, <2>7, <2>8
<1>4. ASSUME Len(s) = 1 PROVE Range(s) = {Head(s)}
  <2>1. 1..Len(s) = {1} /\ Head(s) = s[1]
    BY <1>4
  <2> QED
    BY <1>1, <2>1
<1>5. ASSUME NEW e \in S PROVE Range(Append(s, e)) = Range(s) \cup {e}
  <2>1. /\ Append(s, e) \in Seq(S) /\ Len(Append(s, e)) = Len(s) + 1
        /\ \A i \in 1..Len(s) : Append(s, e)[i] = s[i]
        /\ Append(s, e)[Len(s) + 1] = e
    BY AppendProperties
  <2>2. Range(Append(s, e)) = {Append(s, e)[i] : i \in 1..Len(s) + 1}
    BY <2>1, RangeEquality
  <2>3. 1..Len(s) + 1 = 1..Len(s) \cup {Len(s) + 1}
    BY <1>1
  <2> QED
    BY <1>1, <2>1, <2>2, <2>3
<1> QED
  BY <1>1, <1>2, <1>3, <1>4, <1>5

\* A new goroutine does not take the place of one at work.
LEMMA FirstFreeIsFree ==
  ASSUME Free # {}
  PROVE  FirstFree \in Free
<1>1. Free \subseteq Nat
  BY WorkersAssumption DEF Free
<1>2. PICK x \in Free : \A y \in Free : ~(<<y, x>> \in OpToRel(<, Nat))
  BY <1>1, NatLessThanWellFounded, WFMin
<1>3. \A y \in Free : x <= y
  <2> SUFFICES ASSUME NEW y \in Free PROVE x <= y
    OBVIOUS
  <2>1. x \in Nat /\ y \in Nat /\ ~(<<y, x>> \in {ss \in Nat \X Nat : ss[1] < ss[2]})
    BY <1>1, <1>2 DEF OpToRel
  <2>2. ~(y < x)
    BY <2>1
  <2> QED
    BY <2>1, <2>2
<1> QED
  BY <1>3 DEF FirstFree

\* One that is not at work is idle.
LEMMA NotBusy ==
  ASSUME JobsOK, NEW w \in Workers
  PROVE  Busy(w) <=> jobs[w] # Idle
<1>1. Idle.op = "none"
  BY DEF Idle
<1>2. ASSUME jobs[w].op = "none" PROVE jobs[w] = Idle
  <2>1. jobs[w] \in JobRecords /\ jobs[w].pc = "look" /\ jobs[w].todo = <<>>
    BY <1>2 DEF JobsOK, JobOK
  <2> QED
    BY <1>2, <2>1 DEF JobRecords, Idle
<1> QED
  BY <1>1, <1>2 DEF Busy

\* On to the next container: the first is left behind.
LEMMA SkipLeaves ==
  ASSUME JobsOK, NEW w \in Workers, Busy(w)
  PROVE  /\ Len(jobs[w].todo) = 1 => Skip(w) = Idle /\ Range(jobs[w].todo) = {Target(w)}
         /\ Len(jobs[w].todo) # 1 =>
              /\ Skip(w).op = jobs[w].op /\ Skip(w).pc = "look"
              /\ Range(jobs[w].todo) = {Target(w)} \cup Range(Skip(w).todo)
<1>1. jobs[w].todo \in Seq(Containers) /\ jobs[w].todo # <<>>
  BY AtWork DEF Busy
<1> QED
  BY <1>1, RangeOf DEF Skip, Job, Target

-----------------------------------------------------------------------------
(* A move spreads *)

LEMMA WrongMeans ==
  ASSUME Inv, NEW c \in Containers
  PROVE  ~Wrong(c) <=> (running[c] = (container[c] = "up"))
<1>1. running[c] \in BOOLEAN /\ container[c] \in {"up", "down"}
  BY DEF Inv, ServerOK, DockerOK
<1> QED
  BY <1>1 DEF Wrong

\* What a step leaves of the daemon's side while a move spreads.
Spreads(m) ==
  /\ moved' = moved /\ excused \subseteq excused'
  /\ \A d \in Containers : container[d] = m.to => container'[d] = m.to
  /\ Range(events) \subseteq Range(events')
  /\ FlagsMoving(m)' /\ EventsMoving(m)'

\* Nothing changes but what is excused.
LEMMA StaysPut ==
  ASSUME NEW m, Moving(m), UNCHANGED <<dockerVars, running, moved>>, excused \subseteq excused'
  PROVE  Spreads(m)
BY DEF dockerVars, Spreads, Moving, FlagsMoving, EventsMoving, Wrong, Pending

\* A cascade takes a container the way of the move.
LEMMA SpreadTo ==
  ASSUME Inv, NEW m \in Moves, Moving(m), NEW c \in Containers, NEW op \in Cascades,
         SetContainer(c, m.to, op), UNCHANGED running
  PROVE  Spreads(m) /\ container'[c] = m.to
<1>1. /\ moved' = moved /\ excused' = excused
      /\ container' = [container EXCEPT ![c] = m.to]
      /\ container \in [Containers -> {"up", "down"}] /\ events \in Seq(EventRecords)
  BY DEF SetContainer, Inv, DockerOK
<1>2. \A d \in Containers : container'[d] = IF d = c THEN m.to ELSE container[d]
  BY <1>1
<1>3. CASE container[c] = m.to
  <2>1. container' = container /\ events' = events
    BY <1>1, <1>3 DEF SetContainer
  <2> QED
    BY <1>1, <1>2, <2>1, StaysPut DEF dockerVars
<1>4. CASE container[c] # m.to
  <2> DEFINE e == [kind |-> m.to, id |-> c]
  <2>1. e \in EventRecords /\ e.kind = m.to /\ e.id = c
    BY DEF EventRecords, Moves
  <2>2. events' = Append(events, e)
    BY <1>4 DEF SetContainer
  <2>3. Range(events') = Range(events) \cup {e}
    BY <1>1, <2>1, <2>2, RangeOf
  <2>4. \A f \in Range(events) : f.id \in Containers
    <3>1. Range(events) \subseteq EventRecords
      BY <1>1, RangeOf
    <3> QED
      BY <3>1 DEF EventRecords
  <2>5. EventsMoving(m)'
    BY <1>2, <2>1, <2>3, <2>4 DEF Moving, EventsMoving
  <2>6. FlagsMoving(m)'
    <3> SUFFICES ASSUME NEW d \in Containers, Wrong(d)' PROVE container'[d] = m.to /\ Pending(d)'
      BY DEF FlagsMoving
    <3>1. CASE d = c
      BY <1>2, <2>1, <2>3, <3>1 DEF Pending
    <3>2. CASE d # c
      <4>1. Wrong(d)
        BY <1>2, <3>2 DEF Wrong
      <4> QED
        BY <1>2, <2>3, <3>2, <4>1 DEF Moving, FlagsMoving, Pending
    <3> QED
      BY <3>1, <3>2
  <2> QED
    BY <1>1, <1>2, <2>3, <2>5, <2>6 DEF Spreads
<1> QED
  BY <1>3, <1>4

\* The hub and the start calls are the same afterwards.
LEMMA SameCalls ==
  ASSUME NEW m \in Moves, Moving(m), Spreads(m), UNCHANGED flight
  PROVE  CallsMoving(m)'
BY DEF Moving, Spreads, CallsMoving

\* The parts together.
LEMMA MovesOn ==
  ASSUME NEW m \in Moves, Moving(m), Spreads(m),
         JobsMoving(m)', CallsMoving(m)', AllServed(m)'
  PROVE  Moving(m)'
BY DEF Moving, Spreads, Moves

\* What is reached is registered.
LEMMA ReachedType ==
  ASSUME NEW m \in Moves
  PROVE  /\ Reached(m.hub, m.to) \subseteq Containers
         /\ m.to = "up" => Reached(m.hub, m.to) \subseteq Range(StartedWith(m.hub))
         /\ m.to = "down" => Reached(m.hub, m.to) \subseteq Range(Dependants[m.hub])
         /\ \A d \in Reached(m.hub, "down") : Kind[d] # "portless"
<1>1. m.hub \in Containers /\ m.to \in {"up", "down"}
  BY DEF Moves
<1>2. Dependants[m.hub] \in Seq(Containers)
  BY <1>1, DependantsAssumption
<1>3. DependantsOf(m.hub) = Range(Dependants[m.hub]) /\ Range(Dependants[m.hub]) \subseteq Containers
  BY <1>2, RangeEquality, RangeOf DEF DependantsOf
<1> QED
  BY <1>1, <1>3 DEF Reached, StartedWith

\* What becomes of goroutine v: it is left alone, or it goes along and leaves no
\* dependant that it owed a visit behind.
Continues(m, v) ==
  \/ /\ jobs'[v] = jobs[v]
     /\ jobs[v].pc = "ensuring" /\ flight[Target(v)] = "ok" => flight'[Target(v)] = "ok"
  \/ /\ Busy(v)' => GoesAlong(m, jobs[v])'
     /\ \A d \in Reached(m.hub, m.to) \ excused' :
          Owes(jobs[v], d) => container'[d] = m.to \/ Owes(jobs[v], d)'

LEMMA JobsMoveOn ==
  ASSUME Inv, NEW m \in Moves, Moving(m), Spreads(m),
         \A v \in Workers : Continues(m, v)
  PROVE  JobsMoving(m)' /\ AllServed(m)'
<1>1. ASSUME NEW v \in Workers, Busy(v)' PROVE GoesAlong(m, jobs[v])'
  <2>1. CASE jobs'[v] = jobs[v]
              /\ (jobs[v].pc = "ensuring" /\ flight[Target(v)] = "ok" => flight'[Target(v)] = "ok")
    <3>1. Busy(v) /\ GoesAlong(m, jobs[v])
      BY <1>1, <2>1 DEF Busy, Moving, JobsMoving
    <3>2. Target(v) \in Containers
      BY <3>1, AtWork DEF Busy, Inv
    <3>3. container[Target(v)] = m.to => container'[Target(v)] = m.to
      BY <3>2 DEF Spreads
    <3> QED
      BY <2>1, <3>1, <3>3 DEF GoesAlong, Target
  <2>2. CASE ~(jobs'[v] = jobs[v]
              /\ (jobs[v].pc = "ensuring" /\ flight[Target(v)] = "ok" => flight'[Target(v)] = "ok"))
    BY <1>1, <2>2 DEF Continues
  <2> QED
    BY <2>1, <2>2
<1>2. ASSUME NEW d \in Reached(m.hub, m.to) \ excused' PROVE Served(m, d)'
  <2>1. Served(m, d) /\ d \in Containers
    BY <1>2, ReachedType DEF Moving, AllServed, Spreads
  <2>2. CASE container[d] = m.to \/ Pending(m.hub)
    BY <2>1, <2>2 DEF Spreads, Served, Pending
  <2>3. ASSUME NEW v \in Workers, Owes(jobs[v], d) PROVE Served(m, d)'
    <3>1. container'[d] = m.to \/ Owes(jobs'[v], d)
      <4>1. CASE jobs'[v] = jobs[v]
        BY <2>3, <4>1
      <4>2. CASE jobs'[v] # jobs[v]
        BY <1>2, <2>3, <4>2 DEF Continues, Owes
      <4> QED
        BY <4>1, <4>2
    <3> QED
      BY <3>1 DEF Served, Owes
  <2> QED
    BY <2>1, <2>2, <2>3 DEF Served
<1> QED
  BY <1>1, <1>2 DEF JobsMoving, AllServed

\* The goroutine that takes a step.
LEMMA OneContinues ==
  ASSUME Inv, NEW m \in Moves, NEW w \in Workers, NEW j, jobs' = [jobs EXCEPT ![w] = j],
         Continues(m, w), \A c \in Containers : flight[c] = "ok" => flight'[c] = "ok"
  PROVE  \A v \in Workers : Continues(m, v)
<1> SUFFICES ASSUME NEW v \in Workers, v # w PROVE Continues(m, v)
  OBVIOUS
<1>1. jobs'[v] = jobs[v]
  BY DEF Inv, JobsOK
<1>2. jobs[v].pc = "ensuring" => Target(v) \in Containers
  BY AtWork DEF Inv, JobsOK, JobOK
<1> QED
  BY <1>1, <1>2 DEF Continues

\* A cascade goes on to its next dependant, when the one it leaves is served.
LEMMA SkipContinues ==
  ASSUME Inv, NEW m \in Moves, Moving(m), NEW w \in Workers, jobs[w].op \in Cascades,
         jobs'[w] = Skip(w),
         Target(w) \in Reached(m.hub, m.to) \ excused' => container'[Target(w)] = m.to
  PROVE  Continues(m, w)
<1>1. Busy(w) /\ JobsOK /\ GoesAlong(m, jobs[w])
  BY DEF Inv, JobsOK, Busy, Cascades, Moving, JobsMoving
<1>2. Idle.op = "none" /\ Idle.todo = <<>>
  BY DEF Idle
<1>3. CASE Len(jobs[w].todo) = 1
  <2>1. jobs'[w] = Idle /\ Range(jobs[w].todo) = {Target(w)}
    BY <1>1, <1>3, SkipLeaves
  <2> QED
    BY <1>2, <2>1 DEF Continues, Busy, Owes, Cascades
<1>4. CASE Len(jobs[w].todo) # 1
  <2>1. /\ jobs'[w].op = jobs[w].op /\ jobs'[w].pc = "look"
        /\ Range(jobs[w].todo) = {Target(w)} \cup Range(jobs'[w].todo)
    BY <1>1, <1>4, SkipLeaves
  <2>2. GoesAlong(m, jobs[w])'
    BY <1>1, <2>1 DEF GoesAlong
  <2>3. ASSUME NEW d \in Reached(m.hub, m.to) \ excused', Owes(jobs[w], d)
        PROVE  container'[d] = m.to \/ Owes(jobs[w], d)'
    BY <2>1, <2>3 DEF Owes, Cascades
  <2> QED
    BY <2>2, <2>3 DEF Continues
<1> QED
  BY <1>3, <1>4

\* A cascade goes from one label to another.
LEMMA GotoContinues ==
  ASSUME Inv, NEW m \in Moves, Moving(m), NEW w \in Workers, jobs[w].op \in Cascades,
         NEW label \in {"call", "ensuring", "mark"},
         jobs'[w] = Goto(w, label),
         label = "mark" => container'[Target(w)] = m.to
  PROVE  Continues(m, w)
<1>1. GoesAlong(m, jobs[w]) /\ jobs[w] \in JobRecords
  BY DEF Inv, JobsOK, Busy, Cascades, Moving, JobsMoving
<1>2. /\ jobs'[w].op = jobs[w].op /\ jobs'[w].pc = label /\ jobs'[w].todo = jobs[w].todo
  BY <1>1 DEF Goto, JobRecords
<1>3. GoesAlong(m, jobs[w])'
  BY <1>1, <1>2 DEF GoesAlong, Target
<1> QED
  BY <1>2, <1>3 DEF Continues, Owes, Cascades

\* A goroutine of the move takes a step.
LEMMA AlongWhat ==
  ASSUME Inv, NEW m \in Moves, Moving(m), NEW w \in Workers, Busy(w)
  PROVE  /\ GoesAlong(m, jobs[w]) /\ Target(w) \in Containers
         /\ jobs[w] \in JobRecords
         /\ jobs[w].op \in Stops => m.to = "down"
         /\ jobs[w].op \in Starts => m.to = "up"
         /\ jobs[w].pc \in {"look", "call"} => jobs[w].op \in Cascades
         /\ jobs[w].op \in Cascades =>
              jobs[w].op = IF m.to = "up" THEN "cascadeStart" ELSE "cascadeStop"
<1>1. GoesAlong(m, jobs[w]) /\ Target(w) \in Containers /\ jobs[w] \in JobRecords
  BY AtWork DEF Busy, Inv, Moving, JobsMoving, JobsOK
<1>2. m.to \in {"up", "down"} /\ jobs[w].op \in Toward(m.to)
  BY <1>1 DEF Moves, GoesAlong
<1>3. jobs[w].pc \in {"look", "call"} => jobs[w].op \in Cascades
  BY <1>1 DEF GoesAlong
<1> QED
  BY <1>1, <1>2, <1>3 DEF Toward, Starts, Stops, Cascades

LEMMA MovingLook ==
  ASSUME Inv, NEW m \in Moves, Moving(m), NEW w \in Workers,
         LookToStop(w) \/ LookToCronStart(w)
  PROVE  Moving(m)'
<1>1. Busy(w) /\ jobs[w].pc = "look" /\ jobs[w].op \in Stops \cup {"cronStart"}
  BY DEF LookToStop, LookToCronStart, At, Busy, Stops
<1>2. jobs[w].op = "cascadeStop" /\ m.to = "down" /\ Target(w) \in Containers
  BY <1>1, AlongWhat DEF Stops, Cascades
<1>3. LookToStop(w)
  BY <1>2 DEF LookToCronStart, At
<1>4. Spreads(m) /\ UNCHANGED flight
  BY <1>3, StaysPut DEF LookToStop
<1>5. Continues(m, w)
  <2>0. jobs[w].op \in Cascades /\ JobsOK
    BY <1>2 DEF Cascades, Inv
  <2>1. CASE LeftAlone(w)
    <3>1. jobs'[w] = Skip(w)
      BY <1>3, <2>0, <2>1 DEF LookToStop, JobsOK
    <3>2. ASSUME Target(w) \in Reached(m.hub, m.to) PROVE container'[Target(w)] = m.to
      <4>1. ~running[Target(w)]
        BY <1>2, <2>1, <3>2, ReachedType DEF LeftAlone
      <4>2. container[Target(w)] = m.to
        BY <1>2, <4>1 DEF Inv, DockerOK, Moving, FlagsMoving, Wrong
      <4> QED
        BY <1>2, <1>4, <4>2 DEF Spreads
    <3> QED
      BY <2>0, <3>1, <3>2, SkipContinues
  <2>2. CASE ~LeftAlone(w)
    <3>1. jobs'[w] = Goto(w, "call")
      BY <1>3, <2>0, <2>2 DEF LookToStop, JobsOK
    <3> QED
      BY <2>0, <3>1, GotoContinues
  <2> QED
    BY <2>1, <2>2
<1>6. \A v \in Workers : Continues(m, v)
  BY <1>3, <1>4, <1>5, OneContinues DEF LookToStop
<1> QED
  BY <1>4, <1>6, JobsMoveOn, SameCalls, MovesOn

LEMMA MovingStop ==
  ASSUME Inv, NEW m \in Moves, Moving(m), NEW w \in Workers, Call(w)
  PROVE  Moving(m)'
<1>1. Busy(w) /\ jobs[w].pc = "call"
  BY DEF Call, At, Busy, Stops
<1>2. jobs[w].op = "cascadeStop" /\ m.to = "down" /\ Target(w) \in Containers
  BY <1>1, AlongWhat DEF Stops, Cascades, Call, At
<1>3. jobs[w].op \in Cascades /\ JobsOK
  BY <1>2 DEF Cascades, Inv
<1>4. Spreads(m) /\ Continues(m, w)
  <2>1. CASE SetContainer(Target(w), "down", jobs[w].op)
             /\ jobs' = [jobs EXCEPT ![w] = Goto(w, "mark")]
    <3>1. Spreads(m) /\ container'[Target(w)] = m.to
      BY <1>2, <1>3, <2>1, SpreadTo DEF Call
    <3>2. jobs'[w] = Goto(w, "mark")
      BY <1>3, <2>1 DEF JobsOK
    <3> QED
      BY <1>3, <3>1, <3>2, GotoContinues
  <2>2. CASE CallFails(Target(w)) /\ jobs' = [jobs EXCEPT ![w] = Skip(w)]
    <3>1. Spreads(m) /\ Target(w) \in excused'
      BY <2>2, StaysPut DEF Call, CallFails
    <3>2. jobs'[w] = Skip(w)
      BY <1>3, <2>2 DEF JobsOK
    <3> QED
      BY <1>3, <3>1, <3>2, SkipContinues
  <2> QED
    BY <1>2, <2>1, <2>2 DEF Call
<1>5. UNCHANGED flight /\ \E j : jobs' = [jobs EXCEPT ![w] = j]
  BY DEF Call
<1>6. \A v \in Workers : Continues(m, v)
  BY <1>4, <1>5, OneContinues
<1> QED
  BY <1>4, <1>5, <1>6, JobsMoveOn, SameCalls, MovesOn

LEMMA MovingJoin ==
  ASSUME Inv, NEW m \in Moves, Moving(m), NEW w \in Workers, JoinStart(w)
  PROVE  Moving(m)'
<1>1. Busy(w) /\ jobs[w].pc = "look" /\ jobs[w].op \in Starts
  BY DEF JoinStart, At, Busy, Starts
<1>2. /\ jobs[w].op = "cascadeStart" /\ m.to = "up" /\ Target(w) \in Containers
      /\ jobs[w].op \in Cascades /\ JobsOK
  BY <1>1, AlongWhat DEF Inv, Cascades
<1>3. Spreads(m)
  BY StaysPut DEF JoinStart
<1>4. \A c \in Containers : \/ flight'[c] = flight[c]
                            \/ flight[c] = "none" /\ flight'[c] = "cascadeStart"
  BY <1>2 DEF JoinStart, Inv, ServerOK
<1>5. CallsMoving(m)'
  BY <1>2, <1>3, <1>4 DEF CallsMoving, Moving, Spreads
<1>6. Continues(m, w)
  <2>1. jobs'[w] = Goto(w, "ensuring")
    BY <1>2 DEF JoinStart, JobsOK
  <2> QED
    BY <1>2, <2>1, GotoContinues
<1>7. \A v \in Workers : Continues(m, v)
  BY <1>4, <1>6, OneContinues DEF JoinStart
<1> QED
  BY <1>3, <1>5, <1>7, JobsMoveOn, MovesOn

\* A goroutine marks a container that is where the move takes it.
LEMMA MovingMark ==
  ASSUME Inv, NEW m \in Moves, Moving(m), NEW w \in Workers, Mark(w)
  PROVE  Moving(m)'
<1> DEFINE c == Target(w)
<1>1. Busy(w) /\ jobs[w].pc = "mark" /\ JobsOK
  BY DEF Mark, Busy, Inv, JobsOK, JobOK
<1>2. /\ c \in Containers /\ container[c] = m.to /\ GoesAlong(m, jobs[w])
      /\ jobs[w].op \in Starts \cup Stops
      /\ jobs[w].op \in Starts => m.to = "up"
      /\ jobs[w].op \in Stops => m.to = "down"
  BY <1>1, AlongWhat, AtWork DEF GoesAlong, Target, Busy
<1>3. Spreads(m)
  <2>1. \A d \in Containers : Wrong(d)' => Wrong(d)
    <3> SUFFICES ASSUME NEW d \in Containers, Wrong(d)' PROVE Wrong(d)
      OBVIOUS
    <3>1. container' = container
      BY DEF Mark, dockerVars
    <3>2. CASE running' = running
      BY <3>1, <3>2 DEF Wrong
    <3>3. CASE running' = [running EXCEPT ![c] = jobs[w].op \in Starts]
      <4>1. CASE d = c
        <5>1. running'[c] <=> jobs[w].op \in Starts
          BY <1>2, <3>3 DEF Inv, ServerOK
        <5>2. jobs[w].op \in Starts <=> container[c] = "up"
          BY <1>2
        <5> QED
          BY <3>1, <4>1, <5>1, <5>2 DEF Wrong
      <4>2. CASE d # c
        BY <3>1, <3>3, <4>2 DEF Wrong, Inv, ServerOK
      <4> QED
        BY <4>1, <4>2
    <3> QED
      BY <3>2, <3>3 DEF Mark
  <2>2. UNCHANGED <<container, events, moved, excused>>
    BY DEF Mark, dockerVars
  <2> QED
    BY <2>1, <2>2 DEF Spreads, Moving, FlagsMoving, EventsMoving, Pending
<1>4. Idle.op = "none" /\ Idle.todo = <<>>
  BY DEF Idle
<1>5. Continues(m, w)
  <2>1. CASE jobs[w].op \in Cascades
    <3>1. jobs'[w] = Skip(w)
      <4>1. jobs'[w] = IF Skip(w).todo = <<>> THEN Idle ELSE Skip(w)
        BY <1>1, <2>1 DEF Mark, Cascades, JobsOK
      <4>2. Skip(w).todo = <<>> => Skip(w) = Idle
        <5>1. JobOK(Skip(w)) /\ Skip(w).pc = "look"
          BY <1>1, SkipOK DEF Busy
        <5> QED
          BY <5>1 DEF JobOK, JobRecords, Idle
      <4> QED
        BY <4>1, <4>2
    <3>2. container'[c] = m.to
      BY <1>2 DEF Mark, dockerVars
    <3> QED
      BY <2>1, <3>1, <3>2, SkipContinues
  <2>2. CASE jobs[w].op = "connect"
    <3>1. Len(jobs[w].todo) = 1
      BY <1>2, <2>2 DEF GoesAlong, Cascades
    <3>2. jobs'[w] = Idle
      BY <1>1, <1>4, <2>2, <3>1 DEF Mark, Skip, JobsOK
    <3> QED
      BY <1>4, <2>2, <3>2 DEF Continues, Busy, Owes, Cascades
  <2>3. CASE jobs[w].op \in {"cronStart", "cronStop", "idleStop"}
    <3>1. PICK op \in Cascades, todo \in Seq(Containers) :
            /\ op \in Toward(m.to) /\ Reached(m.hub, m.to) \subseteq Range(todo)
            /\ jobs'[w] = IF Job(op, todo).todo = <<>> THEN Idle ELSE Job(op, todo)
      <4>0. c = m.hub
        BY <1>2, <2>3 DEF GoesAlong, Cascades, Target
      <4>1. CASE jobs[w].op = "cronStart"
        <5>1. m.to = "up" /\ "cascadeStart" \in Toward(m.to) /\ "cascadeStart" \in Cascades
          BY <1>2, <4>1 DEF Starts, Toward, Cascades
        <5>2. StartedWith(c) \in Seq(Containers)
          BY <1>2, DependantsAssumption, EmptySeq DEF StartedWith
        <5>3. jobs'[w] = IF Job("cascadeStart", StartedWith(c)).todo = <<>> THEN Idle
                         ELSE Job("cascadeStart", StartedWith(c))
          BY <1>1, <4>1 DEF Mark, JobsOK
        <5> QED
          BY <4>0, <5>1, <5>2, <5>3, ReachedType
      <4>2. CASE jobs[w].op \in {"cronStop", "idleStop"}
        <5>1. m.to = "down" /\ "cascadeStop" \in Toward(m.to) /\ "cascadeStop" \in Cascades
          BY <1>2, <4>2 DEF Stops, Toward, Cascades
        <5>2. Dependants[c] \in Seq(Containers)
          BY <1>2, DependantsAssumption
        <5>3. jobs'[w] = IF Job("cascadeStop", Dependants[c]).todo = <<>> THEN Idle
                         ELSE Job("cascadeStop", Dependants[c])
          BY <1>1, <4>2 DEF Mark, JobsOK
        <5> QED
          BY <4>0, <5>1, <5>2, <5>3, ReachedType
      <4> QED
        BY <2>3, <4>1, <4>2
    <3>2. Job(op, todo).op = op /\ Job(op, todo).pc = "look" /\ Job(op, todo).todo = todo
      BY DEF Job
    <3>3. CASE todo = <<>>
      <4>1. jobs'[w] = Idle /\ Reached(m.hub, m.to) = {}
        <5>1. Range(todo) = {}
          BY <3>3, RangeOf
        <5>2. Reached(m.hub, m.to) \subseteq Range(todo)
          BY <3>1
        <5> QED
          BY <3>1, <3>2, <3>3, <5>1, <5>2
      <4> QED
        BY <1>4, <4>1 DEF Continues, Busy
    <3>4. CASE todo # <<>>
      <4>1. jobs'[w].op = op /\ jobs'[w].pc = "look" /\ jobs'[w].todo = todo
        BY <3>1, <3>2, <3>4
      <4>2. GoesAlong(m, jobs[w])'
        BY <3>1, <4>1 DEF GoesAlong
      <4>3. \A d \in Reached(m.hub, m.to) : Owes(jobs[w], d)'
        BY <3>1, <4>1 DEF Owes
      <4> QED
        BY <4>2, <4>3 DEF Continues
    <3> QED
      BY <3>3, <3>4
  <2> QED
    BY <1>2, <2>1, <2>2, <2>3 DEF Starts, Stops, Cascades
<1>6. UNCHANGED flight /\ \E j : jobs' = [jobs EXCEPT ![w] = j]
  BY DEF Mark
<1>7. \A v \in Workers : Continues(m, v)
  BY <1>5, <1>6, OneContinues
<1> QED
  BY <1>3, <1>6, <1>7, JobsMoveOn, SameCalls, MovesOn

\* A start call of a cascade succeeds or fails.
LEMMA MovingEnsure ==
  ASSUME Inv, NEW m \in Moves, Moving(m), NEW c \in Containers, EnsureRunning(c)
  PROVE  Moving(m)'
<1>1. flight[c] = "cascadeStart" /\ m.to = "up" /\ flight[c] \in Cascades
  BY DEF EnsureRunning, Moving, CallsMoving, Cascades
<1>2. /\ flight \in [Containers -> FlightStates]
      /\ UNCHANGED <<running, jobs>>
  BY DEF EnsureRunning, Inv, ServerOK
<1>3. /\ Spreads(m)
      /\ \/ container'[c] = "up" /\ flight' = [flight EXCEPT ![c] = "ok"]
         \/ c \in excused' /\ flight' = [flight EXCEPT ![c] = "failed"]
  <2>1. CASE SetContainer(c, "up", flight[c]) /\ flight' = [flight EXCEPT ![c] = "ok"]
    BY <1>1, <1>2, <2>1, SpreadTo
  <2>2. CASE CallFails(c) /\ flight' = [flight EXCEPT ![c] = "failed"]
    BY <1>2, <2>2, StaysPut DEF CallFails
  <2> QED
    BY <2>1, <2>2 DEF EnsureRunning
<1>4. CallsMoving(m)'
  <2> SUFFICES ASSUME NEW d \in Containers, flight'[d] # "none"
               PROVE  /\ m.to = "up" /\ flight'[d] # "connect"
                      /\ flight'[d] = "ok" => container'[d] = "up"
                      /\ flight'[d] = "failed" => d \in excused'
    BY DEF CallsMoving
  <2>1. CASE d = c
    BY <1>1, <1>2, <1>3, <2>1
  <2>2. CASE d # c
    <3>1. flight'[d] = flight[d]
      BY <1>2, <1>3, <2>2
    <3> QED
      BY <1>3, <2>2, <3>1 DEF Moving, CallsMoving, Spreads
  <2> QED
    BY <2>1, <2>2
<1>5. \A v \in Workers : Continues(m, v)
  <2> SUFFICES ASSUME NEW v \in Workers, jobs[v].pc = "ensuring", flight[Target(v)] = "ok"
               PROVE  flight'[Target(v)] = "ok"
    BY <1>2 DEF Continues
  <2>1. Target(v) # c
    BY <1>1
  <2> QED
    BY <1>2, <1>3, <2>1, AtWork DEF Inv, JobsOK, JobOK
<1> QED
  BY <1>3, <1>4, <1>5, JobsMoveOn, MovesOn

\* It returns to all that wait for it.
LEMMA MovingReturn ==
  ASSUME Inv, NEW m \in Moves, Moving(m), NEW c \in Containers, StartReturns(c)
  PROVE  Moving(m)'
<1>1. Spreads(m)
  BY StaysPut DEF StartReturns
<1>2. /\ flight' = [flight EXCEPT ![c] = "none"] /\ flight \in [Containers -> FlightStates]
      /\ m.to = "up" /\ flight[c] \in {"ok", "failed"} /\ JobsOK
      /\ flight[c] = "ok" => container[c] = m.to
      /\ flight[c] = "failed" => c \in excused
      /\ container' = container /\ excused' = excused
  BY DEF StartReturns, Inv, ServerOK, Moving, CallsMoving, dockerVars
<1>3. CallsMoving(m)'
  BY <1>2 DEF Moving, CallsMoving
<1>4. ASSUME NEW v \in Workers PROVE Continues(m, v)
  <2>1. CASE v \notin Ensuring(c)
    <3>1. jobs'[v] = jobs[v] /\ (jobs[v].pc = "ensuring" => Target(v) # c)
      BY <2>1 DEF StartReturns, Ensuring
    <3>2. jobs[v].pc = "ensuring" => Target(v) \in Containers
      BY <1>2, AtWork DEF JobsOK, JobOK
    <3> QED
      BY <1>2, <3>1, <3>2 DEF Continues
  <2>2. CASE v \in Ensuring(c)
    <3>1. /\ jobs[v].pc = "ensuring" /\ Target(v) = c
          /\ jobs'[v] = IF flight[c] = "ok" THEN Goto(v, "mark") ELSE Skip(v)
      BY <2>2 DEF StartReturns, Ensuring
    <3>2. Busy(v) /\ GoesAlong(m, jobs[v]) /\ jobs[v] \in JobRecords
      BY <1>2, <3>1, AlongWhat DEF Busy, JobsOK, JobOK
    <3>3. CASE jobs[v].op \in Cascades
      <4>1. CASE flight[c] = "ok"
        BY <1>2, <3>1, <3>3, <4>1, GotoContinues
      <4>2. CASE flight[c] = "failed"
        BY <1>2, <3>1, <3>3, <4>2, SkipContinues
      <4> QED
        BY <1>2, <4>1, <4>2
    <3>4. CASE jobs[v].op \notin Cascades
      <4>1. jobs[v].op = "connect" /\ c = m.hub /\ flight[c] = "ok"
        BY <3>1, <3>2, <3>4 DEF GoesAlong, Target
      <4>2. /\ jobs'[v].op = "connect" /\ jobs'[v].pc = "mark" /\ jobs'[v].todo = jobs[v].todo
        BY <3>1, <3>2, <4>1 DEF Goto, JobRecords
      <4>3. GoesAlong(m, jobs[v])'
        BY <1>2, <3>1, <3>2, <3>4, <4>1, <4>2 DEF GoesAlong, Target
      <4> QED
        BY <4>1, <4>3 DEF Continues, Owes, Cascades
    <3> QED
      BY <3>3, <3>4
  <2> QED
    BY <2>1, <2>2
<1> QED
  BY <1>1, <1>3, <1>4, JobsMoveOn, MovesOn

\* The event of the hub begins the cascade; that of a dependant, one of its own.
LEMMA MovingWatch ==
  ASSUME Inv, NEW m \in Moves, Moving(m), Watch
  PROVE  Moving(m)'
<1> DEFINE e == Head(events)
<1>1. /\ events \in Seq(EventRecords) /\ events # <<>>
      /\ e \in Range(events) /\ Range(events) = {e} \cup Range(events')
      /\ e \in EventRecords /\ e.id \in Containers
      /\ e.kind = m.to /\ container[e.id] = m.to
  <2>1. events \in Seq(EventRecords) /\ events # <<>> /\ events' = Tail(events)
    BY DEF Inv, DockerOK, Watch
  <2>2. e \in Range(events) /\ Range(events) = {e} \cup Range(events') /\ Range(events) \subseteq EventRecords
    BY <2>1, RangeOf
  <2> QED
    BY <2>1, <2>2 DEF EventRecords, Moving, EventsMoving
<1>2. /\ UNCHANGED <<container, flight, moved, excused>> /\ JobsOK
      /\ running' = [running EXCEPT ![e.id] = e.kind = "up"]
      /\ running \in [Containers -> BOOLEAN] /\ m.to \in {"up", "down"}
  BY DEF Watch, Inv, ServerOK, Moves
<1>3. FlagsMoving(m)'
  <2> SUFFICES ASSUME NEW d \in Containers, Wrong(d)' PROVE container'[d] = m.to /\ Pending(d)'
    BY DEF FlagsMoving
  <2>1. d # e.id
    BY <1>1, <1>2 DEF Wrong
  <2>2. Wrong(d)
    BY <1>1, <1>2, <2>1 DEF Wrong
  <2> QED
    BY <1>1, <1>2, <2>1, <2>2 DEF Moving, FlagsMoving, Pending
<1>4. EventsMoving(m)' /\ CallsMoving(m)'
  BY <1>1, <1>2 DEF Moving, EventsMoving, CallsMoving
<1>5. PICK op \in Cascades, todo \in Seq(Containers) :
        /\ op \in Toward(m.to) /\ Spawn(op, todo)
        /\ e.id = m.hub => Reached(m.hub, m.to) \subseteq Range(todo)
  <2>1. CASE m.to = "up"
    <3>1. "cascadeStart" \in Toward(m.to) /\ "cascadeStart" \in Cascades
      BY <2>1 DEF Starts, Toward, Cascades
    <3>2. StartedWith(e.id) \in Seq(Containers)
      BY <1>1, DependantsAssumption, EmptySeq DEF StartedWith
    <3>3. Spawn("cascadeStart", StartedWith(e.id))
      BY <1>1, <2>1 DEF Watch
    <3> QED
      BY <2>1, <3>1, <3>2, <3>3, ReachedType
  <2>2. CASE m.to = "down"
    <3>1. "cascadeStop" \in Toward(m.to) /\ "cascadeStop" \in Cascades
      BY <2>2 DEF Stops, Toward, Cascades
    <3>2. Dependants[e.id] \in Seq(Containers)
      BY <1>1, DependantsAssumption
    <3>3. Spawn("cascadeStop", Dependants[e.id])
      BY <1>1, <2>2 DEF Watch
    <3> QED
      BY <2>2, <3>1, <3>2, <3>3, ReachedType
  <2> QED
    BY <1>2, <2>1, <2>2
<1>6. \A w \in Workers :
        \/ jobs'[w] = jobs[w]
        \/ jobs[w] = Idle /\ jobs'[w] = Job(op, todo)
  BY <1>2, <1>5, FirstFreeIsFree DEF Spawn, Free, JobsOK
<1>7. Job(op, todo).op = op /\ Job(op, todo).pc = "look" /\ Job(op, todo).todo = todo
  BY DEF Job
<1>8. JobsMoving(m)'
  <2> SUFFICES ASSUME NEW w \in Workers, Busy(w)' PROVE GoesAlong(m, jobs[w])'
    BY DEF JobsMoving
  <2>1. CASE jobs'[w] = jobs[w]
    BY <1>2, <2>1 DEF Moving, JobsMoving, Busy, GoesAlong
  <2>2. CASE jobs'[w] = Job(op, todo)
    BY <1>5, <1>7, <2>2 DEF GoesAlong
  <2> QED
    BY <1>6, <2>1, <2>2
<1>9. AllServed(m)'
  <2> SUFFICES ASSUME NEW d \in Reached(m.hub, m.to) \ excused PROVE Served(m, d)'
    BY <1>2 DEF AllServed
  <2>1. CASE container[d] = m.to
    BY <1>2, <2>1 DEF Served
  <2>2. ASSUME NEW f \in Range(events), f.id = m.hub PROVE Served(m, d)'
    <3>1. CASE f \in Range(events')
      BY <2>2, <3>1 DEF Served, Pending
    <3>2. CASE f = e
      <4>1. d \in Range(todo) /\ todo # <<>>
        BY <1>5, <2>2, <3>2, RangeOf
      <4>2. FirstFree \in Workers /\ jobs'[FirstFree] = Job(op, todo)
        BY <1>2, <1>5, <4>1, FirstFreeIsFree DEF Spawn, Free, JobsOK
      <4> QED
        BY <1>5, <1>7, <4>1, <4>2 DEF Served, Owes
    <3> QED
      BY <1>1, <3>1, <3>2
  <2>3. ASSUME NEW w \in Workers, Owes(jobs[w], d) PROVE Served(m, d)'
    <3>1. jobs[w] # Idle
      BY <2>3 DEF Idle, Owes, Cascades
    <3>2. jobs'[w] = jobs[w]
      BY <1>6, <3>1
    <3> QED
      BY <2>3, <3>2 DEF Served, Owes
  <2> QED
    BY <2>1, <2>2, <2>3 DEF Moving, AllServed, Served, Pending
<1> QED
  BY <1>2, <1>3, <1>4, <1>8, <1>9 DEF Moving

\* Every step of the server and the daemon lets a move spread.
LEMMA MovingOn ==
  ASSUME Inv, NEW m \in Moves, Moving(m),
         Watch \/ (\E w \in Workers : Step(w)) \/ (\E c \in Containers : StartCall(c))
  PROVE  Moving(m)'
BY MovingWatch, MovingLook, MovingStop, MovingJoin, MovingMark, MovingEnsure, MovingReturn
DEF Step, StartCall

-----------------------------------------------------------------------------
(* At rest *)

\* Settled, in terms of what is on its way.
LEMMA SettledMeans ==
  ASSUME Inv, Settled
  PROVE  /\ events = <<>> /\ (\A c : ~Pending(c))
         /\ \A c \in Containers : flight[c] = "none"
         /\ \A w \in Workers : jobs[w] = Idle /\ ~Busy(w) /\ \A d : ~Owes(jobs[w], d)
<1>1. events = <<>> /\ Range(events) = {}
  BY RangeOf DEF Settled, Inv, DockerOK
<1>2. \A w \in Workers : jobs[w] = Idle
  BY DEF Settled, Free
<1>3. Idle.op = "none"
  BY DEF Idle
<1> QED
  BY <1>1, <1>2, <1>3 DEF Settled, Pending, Busy, Owes, Cascades

\* What holds when everything has settled and nothing raced.
LEMMA FollowSettles ==
  ASSUME Inv, FollowInv, Settled, ~raced
  PROVE  (\A c \in Containers : ~Wrong(c)) /\ Kept
<1>1. CASE AtRest
  BY <1>1 DEF AtRest
<1>2. ASSUME NEW m \in moved, Moving(m) PROVE (\A c \in Containers : ~Wrong(c)) /\ Kept
  <2>1. \A c \in Containers : ~Wrong(c)
    BY <1>2, SettledMeans DEF Moving, FlagsMoving
  <2>2. \A d \in Reached(m.hub, m.to) \ excused : container[d] = m.to
    BY <1>2, SettledMeans DEF Moving, AllServed, Served
  <2> QED
    BY <1>2, <2>1, <2>2 DEF Kept, Moving
<1> QED
  BY <1>1, <1>2 DEF FollowInv

\* What a change that is no race finds.
LEMMA CleanSlate ==
  ASSUME Inv, FollowInv, Change, ~raced'
  PROVE  Settled /\ (\A c \in Containers : ~Wrong(c)) /\ (raced \/ Kept)
<1>1. Settled
  BY DEF Change
<1>2. CASE raced
  <2>1. FlagsTrue
    BY <1>1, <1>2 DEF Change, FlagsTrue
  <2> QED
    BY <1>1, <1>2, <2>1, WrongMeans DEF FlagsTrue
<1>3. CASE ~raced
  BY <1>1, <1>3, FollowSettles
<1> QED
  BY <1>2, <1>3

\* A hub moves while nothing else does.
LEMMA MoveBegins ==
  ASSUME Inv, events = <<>>, \A d \in Containers : ~Wrong(d), NEW m \in Moves, NEW op,
         SetContainer(m.hub, m.to, op), moved' = {m}, UNCHANGED running,
         JobsMoving(m)', CallsMoving(m)',
         \/ container[m.hub] # m.to
         \/ \E w \in Workers : /\ jobs'[w].op \in {"cronStart", "cronStop", "idleStop"}
                               /\ jobs'[w].pc = "mark"
  PROVE  Moving(m)'
<1>1. /\ m.hub \in Containers /\ container \in [Containers -> {"up", "down"}]
      /\ <<>> \in Seq(EventRecords)
      /\ container' = [container EXCEPT ![m.hub] = m.to]
  BY EmptySeq DEF Moves, Inv, DockerOK, SetContainer
<1>2. \A d \in Containers : container'[d] = IF d = m.hub THEN m.to ELSE container[d]
  BY <1>1
<1>3. Range(<<>>) = {}
  BY <1>1, RangeOf
<1>4. CASE container[m.hub] # m.to
  <2> DEFINE e == [kind |-> m.to, id |-> m.hub]
  <2>1. e \in EventRecords /\ e.kind = m.to /\ e.id = m.hub
    BY DEF EventRecords, Moves
  <2>2. events' = Append(<<>>, e)
    BY <1>4 DEF SetContainer
  <2>3. Range(events') = {e}
    <3>1. \A f \in EventRecords : Range(Append(<<>>, f)) = Range(<<>>) \cup {f}
      BY <1>1, RangeOf
    <3> QED
      BY <1>3, <2>1, <2>2, <3>1
  <2>4. EventsMoving(m)' /\ Pending(m.hub)'
    BY <1>1, <1>2, <2>1, <2>3 DEF EventsMoving, Pending
  <2>5. FlagsMoving(m)'
    <3> SUFFICES ASSUME NEW d \in Containers, Wrong(d)' PROVE container'[d] = m.to /\ Pending(d)'
      BY DEF FlagsMoving
    <3>1. d = m.hub
      BY <1>2 DEF Wrong
    <3> QED
      BY <1>2, <2>4, <3>1
  <2>6. AllServed(m)'
    BY <2>4 DEF AllServed, Served
  <2> QED
    BY <1>1, <1>2, <2>4, <2>5, <2>6 DEF Moving
<1>5. CASE container[m.hub] = m.to
  <2>1. events' = <<>> /\ container' = container
    BY <1>1, <1>5 DEF SetContainer
  <2>2. EventsMoving(m)' /\ FlagsMoving(m)'
    BY <1>3, <2>1 DEF EventsMoving, FlagsMoving, Wrong
  <2>3. AllServed(m)'
    <3> SUFFICES ASSUME NEW d \in Reached(m.hub, m.to) PROVE Served(m, d)'
      BY DEF AllServed
    <3> QED
      BY <1>5 DEF Served, Owes
  <2> QED
    BY <1>5, <2>1, <2>2, <2>3 DEF Moving
<1> QED
  BY <1>4, <1>5

\* A change of a container by a user, or a crash of it.
LEMMA OutsideFollows ==
  ASSUME Inv, FollowInv, NEW c \in Containers, Outside(c), ~raced'
  PROVE  \E m \in moved' : Moving(m)'
<1>1. Settled /\ (\A d \in Containers : ~Wrong(d))
  BY CleanSlate DEF Outside
<1>2. container[c] \in {"up", "down"}
  BY DEF Inv, DockerOK
<1>3. PICK to \in {"up", "down"} :
        to = (IF container[c] = "up" THEN "down" ELSE "up") /\ container[c] # to
  BY <1>2
<1>4. PICK m \in Moves : m = [hub |-> c, to |-> to, changed |-> container[c] # to]
  <2>1. [hub |-> c, to |-> to, changed |-> container[c] # to] \in Moves
    BY DEF Moves
  <2> QED
    BY <2>1
<1>5. SetContainer(m.hub, m.to, "outside") /\ UNCHANGED <<running, jobs, flight>>
  BY <1>3, <1>4 DEF Outside, serverVars
<1>6. moved' = {m}
  BY <1>3, <1>4, <1>5 DEF SetContainer, Cascades
<1>7. JobsMoving(m)' /\ CallsMoving(m)'
  BY <1>1, <1>5, SettledMeans DEF JobsMoving, CallsMoving, Busy
<1>8. Moving(m)'
  BY <1>1, <1>3, <1>4, <1>5, <1>6, <1>7, SettledMeans, MoveBegins
<1> QED
  BY <1>6, <1>8

\* A request, which moves nothing yet.
LEMMA RequestFollows ==
  ASSUME Inv, FollowInv, NEW c \in Containers,
         NEW op \in {"connect", "idleStop", "cronStart", "cronStop"},
         Request(op, c), ~raced'
  PROVE  AtRest'
<1>1. Settled /\ (\A d \in Containers : ~Wrong(d)) /\ (raced \/ Kept)
  BY CleanSlate DEF Request
<1>2. UNCHANGED <<container, events, running, flight, excused>>
  BY DEF Request, dockerVars
<1>3. Kept'
  <2>1. CASE raced
    BY <2>1 DEF Request, Forget, Kept
  <2>2. CASE ~raced
    BY <1>1, <1>2, <2>2 DEF Request, Forget, Kept
  <2> QED
    BY <2>1, <2>2
<1>4. jobs' = [jobs EXCEPT ![FirstFree] = Job(op, <<c>>)] /\ FirstFree \in Workers
  <2>1. <<c>> # <<>>
    OBVIOUS
  <2> QED
    BY <2>1, FirstFreeIsFree DEF Request, Spawn, Free
<1>5. \A w \in Workers : jobs'[w] = IF w = FirstFree THEN Job(op, <<c>>) ELSE Idle
  BY <1>1, <1>4, SettledMeans DEF Inv, JobsOK
<1>6. /\ Job(op, <<c>>).op = op /\ Job(op, <<c>>).pc = "look" /\ Len(Job(op, <<c>>).todo) = 1
      /\ Idle.op = "none"
  BY DEF Job, Idle
<1>7. Alone' /\ \A w \in Workers : Busy(w)' => RequestJob(jobs[w])'
  BY <1>5, <1>6 DEF Alone, Busy, RequestJob, Cascades
<1>8. RequestCalls'
  BY <1>1, <1>2, SettledMeans DEF RequestCalls
<1> QED
  BY <1>1, <1>2, <1>3, <1>7, <1>8, SettledMeans DEF AtRest, Wrong

-----------------------------------------------------------------------------
(* The one request *)

\* Its goroutine, and the start call if there is one.
LEMMA TheRequest ==
  ASSUME Inv, AtRest, NEW w \in Workers, Busy(w)
  PROVE  /\ RequestJob(jobs[w]) /\ Target(w) \in Containers /\ jobs[w] \in JobRecords
         /\ Skip(w) = Idle /\ Idle.op = "none"
         /\ \A v \in Workers : v # w => ~Busy(v)
         /\ \A c \in Containers : flight[c] # "none" =>
              /\ jobs[w].op = "connect" /\ jobs[w].pc = "ensuring" /\ Target(w) = c
<1>1. RequestJob(jobs[w]) /\ Target(w) \in Containers /\ jobs[w] \in JobRecords
  BY AtWork DEF AtRest, Busy, Inv, JobsOK
<1>2. Skip(w) = Idle /\ Idle.op = "none"
  BY <1>1 DEF RequestJob, Skip, Idle
<1>3. \A v \in Workers : v # w => ~Busy(v)
  BY DEF AtRest, Alone
<1>4. ASSUME NEW c \in Containers, flight[c] # "none"
      PROVE  jobs[w].op = "connect" /\ jobs[w].pc = "ensuring" /\ Target(w) = c
  <2>1. PICK v \in Workers :
          jobs[v].op = "connect" /\ jobs[v].pc = "ensuring" /\ Target(v) = c
    BY <1>4 DEF AtRest, RequestCalls
  <2>2. v = w
    BY <1>3, <2>1 DEF Busy
  <2> QED
    BY <2>1, <2>2
<1> QED
  BY <1>1, <1>2, <1>3, <1>4

\* A step of it that moves nothing.
LEMMA RestOn ==
  ASSUME Inv, AtRest, NEW w \in Workers, Busy(w),
         UNCHANGED <<dockerVars, running, moved>>, excused \subseteq excused',
         \A v \in Workers : v # w => jobs'[v] = jobs[v],
         Busy(w)' => RequestJob(jobs[w])',
         RequestCalls'
  PROVE  AtRest'
<1>1. /\ UNCHANGED <<container, events, running, moved>>
  BY DEF dockerVars
<1>2. \A v \in Workers : v # w => ~Busy(v)'
  BY TheRequest DEF Busy
<1>3. Alone' /\ \A v \in Workers : Busy(v)' => RequestJob(jobs[v])'
  BY <1>2 DEF Alone
<1>4. Kept'
  BY <1>1 DEF AtRest, Kept
<1> QED
  BY <1>1, <1>3, <1>4 DEF AtRest, Wrong

\* Its first look, and the start that it joins.
LEMMA RestLook ==
  ASSUME Inv, AtRest, NEW w \in Workers,
         LookToStop(w) \/ LookToCronStart(w) \/ JoinStart(w)
  PROVE  AtRest'
<1>1. Busy(w) /\ jobs[w].pc = "look" /\ JobsOK
  BY DEF LookToStop, LookToCronStart, JoinStart, At, Busy, Starts, Stops, Inv
<1>2. /\ RequestJob(jobs[w]) /\ Target(w) \in Containers /\ jobs[w] \in JobRecords
      /\ Skip(w) = Idle /\ Idle.op = "none"
      /\ \A c \in Containers : flight[c] = "none"
  BY <1>1, TheRequest
<1>3. /\ UNCHANGED <<dockerVars, running, moved, excused>>
      /\ \A v \in Workers : v # w => jobs'[v] = jobs[v]
  BY <1>1 DEF LookToStop, LookToCronStart, JoinStart, JobsOK
<1>4. \A label : LET j == Goto(w, label) IN
        /\ j.op = jobs[w].op /\ j.pc = label /\ j.todo = jobs[w].todo
  BY <1>2 DEF Goto, JobRecords
<1>5. CASE LookToStop(w) \/ LookToCronStart(w)
  <2>1. jobs'[w] = Idle
          \/ (jobs'[w] = Goto(w, "call") /\ (jobs[w].op \in Stops => running[Target(w)]))
    <3>1. CASE LookToStop(w)
      <4>1. CASE LeftAlone(w)
        <5>1. jobs'[w] = Skip(w)
          BY <1>1, <3>1, <4>1 DEF LookToStop, JobsOK
        <5> QED
          BY <1>2, <5>1
      <4>2. CASE ~LeftAlone(w)
        <5>1. jobs'[w] = Goto(w, "call")
          BY <1>1, <3>1, <4>2 DEF LookToStop, JobsOK
        <5> QED
          BY <4>2, <5>1, Zenon DEF LeftAlone
      <4> QED
        BY <4>1, <4>2
    <3>2. CASE LookToCronStart(w)
      BY <1>1, <1>2, <3>2 DEF LookToCronStart, At, JobsOK, Stops
    <3> QED
      BY <1>5, <3>1, <3>2
  <2>2. Busy(w)' => RequestJob(jobs[w])'
    <3>1. CASE jobs'[w] = Idle
      BY <1>2, <3>1 DEF Busy
    <3>2. CASE jobs'[w] = Goto(w, "call") /\ (jobs[w].op \in Stops => running[Target(w)])
      <4>1. jobs[w].op \in Stops => container[Target(w)] = "up"
        BY <1>2, <3>2 DEF AtRest, Wrong, Inv, DockerOK
      <4> QED
        BY <1>2, <1>3, <1>4, <3>2, <4>1 DEF RequestJob, Target, dockerVars
    <3> QED
      BY <2>1, <3>1, <3>2
  <2>3. RequestCalls'
    BY <1>2, <1>5 DEF LookToStop, LookToCronStart, RequestCalls
  <2> QED
    BY <1>1, <1>3, <2>2, <2>3, RestOn
<1>6. CASE JoinStart(w)
  <2>1. jobs[w].op = "connect" /\ jobs'[w] = Goto(w, "ensuring")
    BY <1>1, <1>2, <1>6 DEF JoinStart, At, RequestJob, Cascades, JobsOK
  <2>2. Busy(w)' => RequestJob(jobs[w])'
    BY <1>2, <1>4, <2>1 DEF RequestJob
  <2>3. RequestCalls'
    <3>1. \A c \in Containers : flight'[c] = IF c = Target(w) THEN "connect" ELSE "none"
      BY <1>2, <1>6, <2>1 DEF JoinStart, Inv, ServerOK
    <3>2. jobs'[w].op = "connect" /\ jobs'[w].pc = "ensuring" /\ Target(w)' = Target(w)
      BY <1>4, <2>1 DEF Target
    <3> QED
      BY <3>1, <3>2 DEF RequestCalls
  <2> QED
    BY <1>1, <1>3, <2>2, <2>3, RestOn
<1> QED
  BY <1>5, <1>6

\* Its stop, or the scheduler's start: the hub moves.
LEMMA RestCall ==
  ASSUME Inv, AtRest, NEW w \in Workers, Call(w)
  PROVE  AtRest' \/ \E m \in moved' : Moving(m)'
<1>1. Busy(w) /\ jobs[w].pc = "call" /\ JobsOK
  BY DEF Call, At, Busy, Stops, Inv
<1>2. /\ RequestJob(jobs[w]) /\ Target(w) \in Containers /\ jobs[w] \in JobRecords
      /\ Skip(w) = Idle /\ Idle.op = "none"
      /\ \A c \in Containers : flight[c] = "none"
      /\ \A v \in Workers : v # w => ~Busy(v)
  BY <1>1, TheRequest
<1>3. /\ UNCHANGED <<running, flight>>
      /\ \A v \in Workers : v # w => jobs'[v] = jobs[v]
  BY <1>1 DEF Call, JobsOK
<1>4. PICK to \in {"up", "down"} : to = IF jobs[w].op = "cronStart" THEN "up" ELSE "down"
  OBVIOUS
<1>5. CASE SetContainer(Target(w), to, jobs[w].op) /\ jobs' = [jobs EXCEPT ![w] = Goto(w, "mark")]
  <2>1. PICK m \in Moves :
          m = [hub |-> Target(w), to |-> to, changed |-> container[Target(w)] # to]
    <3>1. [hub |-> Target(w), to |-> to, changed |-> container[Target(w)] # to] \in Moves
      BY <1>2 DEF Moves
    <3> QED
      BY <3>1
  <2>2. m.hub = Target(w) /\ m.to = to
    BY <2>1
  <2>3. /\ jobs'[w].op = jobs[w].op /\ jobs'[w].pc = "mark" /\ jobs'[w].todo = jobs[w].todo
    BY <1>1, <1>2, <1>5 DEF Goto, JobRecords, JobsOK
  <2>4. jobs[w].op \in {"cronStart", "cronStop", "idleStop"} /\ jobs[w].op \in Toward(to)
    BY <1>2, <1>4 DEF Call, At, RequestJob, Starts, Stops, Cascades, Toward
  <2>5. jobs[w].op = "cronStart" \/ container[Target(w)] # to
    BY <1>1, <1>2, <1>4 DEF Call, At, RequestJob, Target
  <2>6. moved' = {m}
    BY <1>2, <1>5, <2>1, <2>5 DEF SetContainer, RequestJob
  <2>7. container'[Target(w)] = to
    BY <1>2, <1>5 DEF SetContainer, Inv, DockerOK
  <2>8. JobsMoving(m)'
    <3> SUFFICES ASSUME NEW v \in Workers, Busy(v)' PROVE GoesAlong(m, jobs[v])'
      BY DEF JobsMoving
    <3>1. v = w
      BY <1>2, <1>3 DEF Busy
    <3> QED
      BY <1>2, <2>2, <2>3, <2>4, <2>7, <3>1 DEF GoesAlong, Target, RequestJob
  <2>9. CallsMoving(m)'
    BY <1>2, <1>3 DEF CallsMoving
  <2>10. events = <<>> /\ \A d \in Containers : ~Wrong(d)
    BY DEF AtRest
  <2>11. SetContainer(m.hub, m.to, jobs[w].op) /\ UNCHANGED running
    BY <1>3, <1>5, <2>2
  <2>12. Moving(m)'
    BY <2>3, <2>4, <2>6, <2>8, <2>9, <2>10, <2>11, MoveBegins
  <2> QED
    BY <2>6, <2>12
<1>6. CASE CallFails(Target(w)) /\ jobs' = [jobs EXCEPT ![w] = Skip(w)]
  <2>1. jobs'[w] = Idle
    BY <1>1, <1>2, <1>6 DEF JobsOK
  <2>2. UNCHANGED <<dockerVars, running, moved>> /\ excused \subseteq excused'
    BY <1>3, <1>6 DEF CallFails
  <2>3. RequestCalls'
    BY <1>2, <1>3 DEF RequestCalls
  <2> QED
    BY <1>1, <1>2, <1>3, <2>1, <2>2, <2>3, RestOn DEF Busy
<1> QED
  BY <1>4, <1>5, <1>6 DEF Call

\* A connection's start call: the hub moves, or was up, or the call fails.
LEMMA RestEnsure ==
  ASSUME Inv, AtRest, NEW c \in Containers, EnsureRunning(c)
  PROVE  AtRest' \/ \E m \in moved' : Moving(m)'
<1>1. PICK w \in Workers : /\ jobs[w].op = "connect" /\ jobs[w].pc = "ensuring"
                           /\ Target(w) = c /\ Busy(w) /\ flight[c] = "connect"
  BY DEF EnsureRunning, AtRest, RequestCalls, Busy
<1>2. /\ RequestJob(jobs[w])
      /\ \A v \in Workers : v # w => ~Busy(v)
      /\ \A d \in Containers : d # c => flight[d] = "none"
  BY <1>1, TheRequest
<1>3. UNCHANGED <<running, jobs>> /\ flight \in [Containers -> FlightStates]
  BY DEF EnsureRunning, Inv, ServerOK
<1>4. Busy(w)' => (RequestJob(jobs[w])' <=> RequestJob(jobs[w]))
  BY <1>1, <1>3 DEF RequestJob
<1>5. CASE CallFails(c) /\ flight' = [flight EXCEPT ![c] = "failed"]
  <2>1. RequestCalls'
    BY <1>1, <1>2, <1>3, <1>5 DEF RequestCalls, Target
  <2>2. UNCHANGED <<dockerVars, moved>> /\ excused \subseteq excused'
    BY <1>5 DEF CallFails
  <2> QED
    BY <1>1, <1>2, <1>3, <1>4, <2>1, <2>2, RestOn
<1>6. CASE SetContainer(c, "up", flight[c]) /\ flight' = [flight EXCEPT ![c] = "ok"]
  <2>1. \A d \in Containers : flight'[d] = IF d = c THEN "ok" ELSE "none"
    BY <1>2, <1>3, <1>6
  <2>2. container'[c] = "up" /\ container \in [Containers -> {"up", "down"}]
    BY <1>6 DEF SetContainer, Inv, DockerOK
  <2>3. CASE container[c] = "up"
    <3>1. UNCHANGED <<dockerVars, moved, excused>>
      BY <1>1, <1>6, <2>2, <2>3 DEF SetContainer, dockerVars, Cascades
    <3>2. RequestCalls'
      BY <1>1, <1>3, <2>1, <2>2 DEF RequestCalls, Target
    <3> QED
      BY <1>1, <1>2, <1>3, <1>4, <3>1, <3>2, RestOn
  <2>4. CASE container[c] # "up"
    <3>1. PICK m \in Moves : m = [hub |-> c, to |-> "up", changed |-> container[c] # "up"]
      <4>1. [hub |-> c, to |-> "up", changed |-> container[c] # "up"] \in Moves
        BY DEF Moves
      <4> QED
        BY <4>1
    <3>2. m.hub = c /\ m.to = "up"
      BY <3>1
    <3>3. moved' = {m}
      BY <1>1, <1>6, <2>4, <3>1 DEF SetContainer, Cascades
    <3>4. JobsMoving(m)'
      <4> SUFFICES ASSUME NEW v \in Workers, Busy(v)' PROVE GoesAlong(m, jobs[v])'
        BY DEF JobsMoving
      <4>1. v = w
        BY <1>2, <1>3 DEF Busy
      <4> QED
        BY <1>1, <1>2, <1>3, <2>1, <3>2, <4>1
        DEF GoesAlong, RequestJob, Toward, Starts, Cascades, Target
    <3>5. CallsMoving(m)'
      BY <2>1, <2>2, <3>2 DEF CallsMoving
    <3>6. events = <<>> /\ \A d \in Containers : ~Wrong(d)
      BY DEF AtRest
    <3>7. SetContainer(m.hub, m.to, flight[c]) /\ container[m.hub] # m.to
      BY <1>6, <2>4, <3>2
    <3> QED
      BY <1>3, <3>3, <3>4, <3>5, <3>6, <3>7, MoveBegins
  <2> QED
    BY <2>3, <2>4
<1> QED
  BY <1>5, <1>6 DEF EnsureRunning

\* The connection has its answer.
LEMMA RestReturn ==
  ASSUME Inv, AtRest, NEW c \in Containers, StartReturns(c)
  PROVE  AtRest'
<1>1. PICK w \in Workers : /\ jobs[w].op = "connect" /\ jobs[w].pc = "ensuring"
                           /\ Target(w) = c /\ Busy(w)
  BY DEF StartReturns, AtRest, RequestCalls, Busy
<1>2. /\ RequestJob(jobs[w]) /\ jobs[w] \in JobRecords
      /\ Skip(w) = Idle /\ Idle.op = "none"
      /\ \A v \in Workers : v # w => ~Busy(v)
      /\ \A d \in Containers : d # c => flight[d] = "none"
  BY <1>1, TheRequest
<1>3. UNCHANGED <<dockerVars, running, moved, excused>> /\ w \in Ensuring(c)
  BY <1>1 DEF StartReturns, Ensuring
<1>4. \A v \in Workers : v # w => jobs'[v] = jobs[v]
  <2> SUFFICES ASSUME NEW v \in Workers, v # w PROVE jobs'[v] = jobs[v]
    OBVIOUS
  <2>1. v \notin Ensuring(c)
    BY <1>2 DEF Ensuring, Busy, Inv, JobsOK, JobOK
  <2> QED
    BY <2>1 DEF StartReturns
<1>5. Busy(w)' => RequestJob(jobs[w])'
  <2>1. jobs'[w] = IF flight[c] = "ok" THEN Goto(w, "mark") ELSE Skip(w)
    BY <1>3 DEF StartReturns
  <2>2. CASE flight[c] = "ok"
    <3>1. jobs'[w].op = "connect" /\ jobs'[w].pc = "mark" /\ jobs'[w].todo = jobs[w].todo
      BY <1>1, <1>2, <2>1, <2>2 DEF Goto, JobRecords
    <3>2. container'[c] = "up"
      BY <1>3, <2>2 DEF AtRest, RequestCalls, dockerVars
    <3> QED
      BY <1>1, <1>2, <3>1, <3>2 DEF RequestJob, Target
  <2>3. CASE flight[c] # "ok"
    BY <1>2, <2>1, <2>3 DEF Busy
  <2> QED
    BY <2>2, <2>3
<1>6. RequestCalls'
  <2>1. \A d \in Containers : flight'[d] = "none"
    BY <1>2 DEF StartReturns, Inv, ServerOK
  <2> QED
    BY <2>1 DEF RequestCalls
<1> QED
  BY <1>1, <1>3, <1>4, <1>5, <1>6, RestOn

\* It marks a container that it found up.
LEMMA RestMark ==
  ASSUME Inv, AtRest, NEW w \in Workers, Mark(w)
  PROVE  AtRest'
<1>1. Busy(w) /\ jobs[w].pc = "mark" /\ JobsOK
  BY DEF Mark, Busy, Inv, JobsOK, JobOK
<1>2. /\ RequestJob(jobs[w]) /\ Target(w) \in Containers
      /\ Skip(w) = Idle /\ Idle.op = "none"
      /\ \A c \in Containers : flight[c] = "none"
  BY <1>1, TheRequest
<1>3. jobs[w].op = "connect" /\ container[Target(w)] = "up"
  BY <1>1, <1>2 DEF RequestJob, Target
<1>4. running' = running
  <2>1. running[Target(w)] = TRUE /\ running \in [Containers -> BOOLEAN]
    BY <1>2, <1>3 DEF AtRest, Wrong, Inv, ServerOK
  <2>2. running' = [running EXCEPT ![Target(w)] = TRUE]
    BY <1>3 DEF Mark, Cascades, Starts
  <2> QED
    BY <2>1, <2>2
<1>5. jobs'[w] = Idle /\ \A v \in Workers : v # w => jobs'[v] = jobs[v]
  BY <1>1, <1>2, <1>3 DEF Mark, JobsOK
<1>6. RequestCalls'
  BY <1>2 DEF Mark, RequestCalls
<1> QED
  BY <1>1, <1>2, <1>4, <1>5, <1>6, RestOn DEF Mark, Busy

-----------------------------------------------------------------------------
(* The theorem *)

\* Every step keeps the system at rest or starts a move, or it races.
LEMMA NextFollow ==
  ASSUME RelistsExcused, Inv, FollowInv, [Next]_vars
  PROVE  FollowInv'
<1> SUFFICES ASSUME ~raced' PROVE AtRest' \/ \E m \in moved' : Moving(m)'
  BY DEF FollowInv
<1>1. CASE FromOutside
  <2>1. ~StreamBreaks /\ \A c \in Containers : ~Resend(c)
    BY DEF StreamBreaks, Resend
  <2>2. PICK c \in Containers :
          \/ Outside(c)
          \/ \E op \in {"connect", "idleStop", "cronStart", "cronStop"} : Request(op, c)
    BY <1>1, <2>1 DEF FromOutside, Connect, IdleStop, CronStart, CronStop
  <2> QED
    BY <2>2, OutsideFollows, RequestFollows
<1>2. CASE Watch \/ (\E w \in Workers : Step(w)) \/ (\E c \in Containers : StartCall(c))
  <2>1. ~raced
    BY <1>2 DEF Watch, Step, LookToStop, LookToCronStart, Call, JoinStart, Mark, StartCall,
                EnsureRunning, StartReturns
  <2>2. CASE AtRest
    <3>1. ~Watch
      BY <2>2 DEF AtRest, Watch
    <3> QED
      BY <1>2, <2>2, <3>1, RestLook, RestCall, RestMark, RestEnsure, RestReturn
      DEF Step, StartCall
  <2>3. ASSUME NEW m \in moved, Moving(m) PROVE \E n \in moved' : Moving(n)'
    <3>1. m \in Moves
      BY DEF Inv, HistoryOK, Moves
    <3>2. Moving(m)'
      BY <1>2, <2>3, <3>1, MovingOn
    <3> QED
      BY <3>2 DEF Moving
  <2> QED
    BY <2>1, <2>2, <2>3 DEF FollowInv
<1>3. CASE UNCHANGED vars
  <2>1. AtRest => AtRest'
    BY <1>3 DEF vars, AtRest, Wrong, Kept, Alone, Busy, RequestJob, RequestCalls, Target
  <2>2. ASSUME NEW m \in moved, Moving(m) PROVE Moving(m)' /\ m \in moved'
    BY <1>3, <2>2 DEF vars, Moving, FlagsMoving, EventsMoving, JobsMoving, CallsMoving, AllServed,
       Wrong, Pending, Busy, GoesAlong, Served, Owes
  <2>3. ~raced
    BY <1>3 DEF vars
  <2> QED
    BY <2>1, <2>2, <2>3 DEF FollowInv
<1> QED
  BY <1>1, <1>2, <1>3 DEF Next

\* However deep the dependants are nested, even in rings, and however many goroutines
\* walk them: once a change that met no other has spread, the flags are true and every
\* dependant that it reaches and for which no call failed is where the hub is. A report
\* of the Kubernetes watch that repeats itself counts as another change.
THEOREM DependantsFollowCorrect == RelistsExcused => (Spec => []DependantsFollow)
<1> SUFFICES ASSUME RelistsExcused PROVE Spec => []DependantsFollow
  OBVIOUS
<1>1. Init => FollowInv
  <2> SUFFICES ASSUME Init PROVE AtRest
    BY DEF FollowInv
  <2>1. /\ events = <<>> /\ (\A w \in Workers : jobs[w] = Idle) /\ moved = {}
        /\ (\A c \in Containers : flight[c] = "none")
    BY DEF Init
  <2>2. \A c \in Containers : ~Wrong(c)
    BY DEF Init, Wrong
  <2>3. Idle.op = "none"
    BY DEF Idle
  <2> QED
    BY <2>1, <2>2, <2>3 DEF AtRest, Kept, Alone, Busy, RequestCalls
<1>2. Inv /\ FollowInv /\ [Next]_vars => FollowInv'
  BY NextFollow
<1>3. Inv /\ FollowInv => DependantsFollow
  <2> SUFFICES ASSUME Inv, FollowInv, Settled, ~raced PROVE FlagsTrue /\ Kept
    BY DEF DependantsFollow, Kept
  <2> QED
    BY FollowSettles, WrongMeans DEF FlagsTrue
<1> QED
  BY <1>1, <1>2, <1>3, InvCorrect, PTL DEF Spec
=============================================================================
