------------------------ MODULE PortAllocator_proofs ------------------------
(* Theorems about PortAllocator, for any containers, labels and interleaving. *)
EXTENDS PortAllocator, FiniteSetTheorems, SequenceTheorems, TLAPS

\* Once a registration has made its claims they stand, and while it holds the
\* mutex it only visits hosts of its own container.
Claims ==
  \A g \in Goroutines :
    /\ pc[g] \in {"claimUdp", "hosts", "tcpHosts"} => Explicit[subject[g]] \subseteq claimed
    /\ pc[g] \in {"hosts", "tcpHosts"} => ExplicitUDP[subject[g]] \subseteq claimed

OwnHosts ==
  \A g \in Goroutines : lock = g =>
    /\ pc[g] \in {"hosts", "tcpHosts"}
    /\ \A i \in 1..Len(todo[g]) : todo[g][i] \in HostsOf(subject[g])

Inv == TypeOK /\ PortsDistinct /\ NoHoles /\ NoSelfConflict /\ Claims /\ OwnHosts

\* The hosts of a container are domains, apart from empty ones.
LEMMA HostsInDomains ==
  ASSUME NEW c \in Containers, NEW d \in HostsOf(c), d # None
  PROVE  d \in Domains
BY HostsAssumption, LenProperties DEF HostsOf

\* The empty allocator satisfies the invariant.
LEMMA InitInv == Init => Inv
<1> SUFFICES ASSUME Init PROVE Inv
  OBVIOUS
<1>1. <<>> \in Seq(Domains \cup {None}) /\ IsFiniteSet({})
  BY FS_EmptySet
<1>2. TypeOK
  BY <1>1 DEF Init, TypeOK
<1>3. PortsDistinct /\ NoHoles /\ NoSelfConflict /\ Claims
  <2>1. \A d \in Domains : assigned[d] = None
    BY DEF Init
  <2>2. NoSelfConflict
    BY <2>1, HostsInDomains DEF NoSelfConflict
  <2>3. PortsDistinct /\ NoHoles
    BY <2>1 DEF PortsDistinct, NoHoles
  <2>4. Claims
    BY DEF Init, Claims
  <2> QED
    BY <2>2, <2>3, <2>4
<1>4. OwnHosts
  BY NoneAssumption DEF Init, OwnHosts
<1> QED
  BY <1>2, <1>3, <1>4 DEF Inv

\* A restart begins with an empty allocator again.
LEMMA RestartInv == Inv /\ Restart => Inv'
<1> SUFFICES ASSUME Inv, Restart PROVE Inv'
  OBVIOUS
<1>1. <<>> \in Seq(Domains \cup {None}) /\ IsFiniteSet({})
  BY FS_EmptySet
<1>2. TypeOK'
  BY <1>1 DEF Inv, Restart, TypeOK
<1>3. PortsDistinct' /\ NoHoles' /\ NoSelfConflict' /\ Claims'
  <2>1. \A d \in Domains : assigned'[d] = None
    BY DEF Restart
  <2>2. NoSelfConflict'
    BY <2>1, HostsInDomains DEF NoSelfConflict
  <2>3. PortsDistinct' /\ NoHoles'
    BY <2>1 DEF PortsDistinct, NoHoles
  <2>4. Claims'
    BY DEF Restart, Claims
  <2> QED
    BY <2>2, <2>3, <2>4
<1>4. OwnHosts'
  BY NoneAssumption DEF Restart, OwnHosts
<1> QED
  BY <1>2, <1>3, <1>4 DEF Inv

\* Beginning a registration claims and assigns nothing.
LEMMA BeginInv ==
  ASSUME Inv, NEW g \in Goroutines, NEW c \in Containers, Begin(g, c)
  PROVE  Inv'
<1>1. TypeOK'
  BY DEF Inv, Begin, Goto, TypeOK
<1>2. PortsDistinct' /\ NoHoles' /\ NoSelfConflict'
  BY DEF Inv, Begin, PortsDistinct, NoHoles, NoSelfConflict
<1>3. Claims' /\ OwnHosts'
  BY DEF Inv, Begin, Goto, Claims, OwnHosts, TypeOK
<1> QED
  BY <1>1, <1>2, <1>3 DEF Inv

\* A claim only adds the container's own explicit ports.
LEMMA ClaimInv ==
  ASSUME Inv, NEW g \in Goroutines, ClaimPorts(g)
  PROVE  Inv'
<1> DEFINE ports == IF pc[g] = "claim" THEN Explicit[subject[g]] ELSE ExplicitUDP[subject[g]]
<1>1. subject[g] \in Containers
  BY DEF Inv, TypeOK, ClaimPorts
<1>2. ports \subseteq Nat /\ IsFiniteSet(ports) /\ claimed' = claimed \cup ports
  BY <1>1, ExplicitAssumption DEF ClaimPorts
<1>3. claimed' \subseteq Nat /\ IsFiniteSet(claimed') /\ claimed \subseteq claimed'
  BY <1>2, FS_Union DEF Inv, TypeOK
<1>4. TypeOK'
  BY <1>3 DEF Inv, ClaimPorts, Goto, TypeOK
<1>5. PortsDistinct' /\ NoHoles' /\ NoSelfConflict'
  BY <1>3 DEF Inv, ClaimPorts, PortsDistinct, NoHoles, NoSelfConflict
<1>6. Claims'
  BY <1>2, <1>3 DEF Inv, ClaimPorts, Goto, Claims, TypeOK
<1>7. OwnHosts'
  BY NoneAssumption DEF Inv, ClaimPorts, OwnHosts
<1> QED
  BY <1>4, <1>5, <1>6, <1>7 DEF Inv

\* Taking the mutex, going on to the next spec and releasing the mutex keep the
\* list within the container's hosts.
LEMMA ListInv ==
  ASSUME Inv, NEW g \in Goroutines, AllocateBegin(g) \/ ReuseOrSkip(g) \/ AllocateEnd(g)
  PROVE  Inv'
<1>1. CASE AllocateBegin(g)
  <2>1. subject[g] \in Containers
    BY <1>1 DEF Inv, TypeOK, AllocateBegin
  <2>2. /\ Hosts[subject[g]] \in Seq(Domains \cup {None})
        /\ TCPHosts[subject[g]] \in Seq(Domains \cup {None})
    BY <2>1, HostsAssumption
  <2>3. TypeOK'
    BY <1>1, <2>2 DEF Inv, AllocateBegin, TypeOK
  <2>4. PortsDistinct' /\ NoHoles' /\ NoSelfConflict' /\ Claims'
    BY <1>1 DEF Inv, AllocateBegin, PortsDistinct, NoHoles, NoSelfConflict, Claims
  <2>5. OwnHosts'
    BY <1>1, <2>2 DEF Inv, AllocateBegin, OwnHosts, HostsOf, TypeOK
  <2> QED
    BY <2>3, <2>4, <2>5 DEF Inv
<1>2. CASE ReuseOrSkip(g)
  <2> DEFINE t == todo[g]
  <2>1. t \in Seq(Domains \cup {None}) /\ t # <<>>
    BY <1>2 DEF Inv, TypeOK, ReuseOrSkip
  <2>2. /\ Tail(t) \in Seq(Domains \cup {None})
        /\ \A i \in 1..Len(Tail(t)) : i + 1 \in 1..Len(t) /\ Tail(t)[i] = t[i + 1]
    BY <2>1, HeadTailProperties, LenProperties, EmptySeq
  <2>3. TypeOK'
    BY <1>2, <2>2 DEF Inv, ReuseOrSkip, TypeOK
  <2>4. PortsDistinct' /\ NoHoles' /\ NoSelfConflict' /\ Claims'
    BY <1>2 DEF Inv, ReuseOrSkip, PortsDistinct, NoHoles, NoSelfConflict, Claims
  <2>5. OwnHosts'
    BY <1>2, <2>2 DEF Inv, ReuseOrSkip, OwnHosts, TypeOK
  <2> QED
    BY <2>3, <2>4, <2>5 DEF Inv
<1>3. CASE AllocateEnd(g)
  <2>1. subject[g] \in Containers /\ pc[g] \in {"hosts", "tcpHosts"}
    BY <1>3 DEF Inv, AllocateEnd, OwnHosts, TypeOK
  <2>2. TypeOK'
    BY <1>3, <2>1 DEF Inv, AllocateEnd, Goto, TypeOK
  <2>3. PortsDistinct' /\ NoHoles' /\ NoSelfConflict'
    BY <1>3 DEF Inv, AllocateEnd, PortsDistinct, NoHoles, NoSelfConflict
  <2>4. Claims' /\ OwnHosts'
    BY <1>3, <2>1, NoneAssumption DEF Inv, AllocateEnd, Goto, Claims, OwnHosts, TypeOK
  <2> QED
    BY <2>2, <2>3, <2>4 DEF Inv
<1> QED
  BY <1>1, <1>2, <1>3

\* A new port is the smallest that nobody has claimed: it differs from every
\* port handed out and from those the container declares.
LEMMA AllocateInv ==
  ASSUME Inv, NEW g \in Goroutines, AllocateNew(g)
  PROVE  Inv'
<1> DEFINE t == todo[g]
           d == Head(t)
<1>1. t \in Seq(Domains \cup {None}) /\ t # <<>> /\ lock = g
  BY DEF Inv, TypeOK, AllocateNew
<1>2. /\ Tail(t) \in Seq(Domains \cup {None}) /\ d \in Domains \cup {None}
      /\ \A i \in 1..Len(Tail(t)) : i + 1 \in 1..Len(t) /\ Tail(t)[i] = t[i + 1]
      /\ 1 \in 1..Len(t) /\ d = t[1]
  BY <1>1, HeadTailProperties, LenProperties, EmptySeq
<1>3. d \in Domains /\ assigned[d] = None
  BY <1>2 DEF AllocateNew, MustAssign
<1>4. Cardinality(claimed) \in Nat
  BY FS_CardinalityType DEF Inv, TypeOK
<1>5. PICK p \in Base..(Base + Cardinality(claimed)) : NextFree(p) /\ Assign(d, p)
  BY DEF AllocateNew
<1>6. /\ p \in Nat /\ p >= Base /\ p \notin claimed
      /\ \A q \in Base..(p - 1) : q \in claimed
      /\ assigned' = [assigned EXCEPT ![d] = p] /\ claimed' = claimed \cup {p}
  BY <1>4, <1>5, BaseAssumption DEF NextFree, Assign
<1>7. claimed' \subseteq Nat /\ IsFiniteSet(claimed') /\ claimed \subseteq claimed' /\ p \in claimed'
  BY <1>6, FS_AddElement DEF Inv, TypeOK
<1>8. assigned'[d] = p /\ \A e \in Domains : e # d => assigned'[e] = assigned[e]
  BY <1>3, <1>6 DEF Inv, TypeOK
<1>9. TypeOK'
  BY <1>2, <1>3, <1>6, <1>7, <1>8 DEF Inv, AllocateNew, TypeOK
<1>10. PortsDistinct'
  <2>1. \A e \in Domains : assigned[e] # None => assigned[e] # p
    BY <1>6 DEF Inv, TypeOK
  <2> QED
    BY <1>8, <2>1 DEF Inv, PortsDistinct
<1>11. NoHoles'
  BY <1>6, <1>7, <1>8 DEF Inv, NoHoles
<1>12. NoSelfConflict'
  <2> SUFFICES ASSUME NEW c \in Containers, NEW e \in HostsOf(c), e # None, assigned'[e] # None,
                      \A b \in Containers \ {c} : e \notin HostsOf(b)
               PROVE  assigned'[e] \notin Explicit[c] \cup ExplicitUDP[c]
    BY DEF NoSelfConflict
  <2>1. CASE e = d
    <3>1. subject[g] \in Containers /\ d \in HostsOf(subject[g]) /\ pc[g] \in {"hosts", "tcpHosts"}
      BY <1>1, <1>2 DEF Inv, OwnHosts, TypeOK
    <3>2. subject[g] = c
      BY <2>1, <3>1
    <3>3. Explicit[c] \cup ExplicitUDP[c] \subseteq claimed
      BY <3>1, <3>2 DEF Inv, Claims
    <3> QED
      BY <1>6, <1>8, <2>1, <3>3
  <2>2. CASE e # d
    <3>1. e \in Domains
      BY HostsInDomains
    <3> QED
      BY <1>8, <2>2, <3>1 DEF Inv, NoSelfConflict
  <2> QED
    BY <2>1, <2>2
<1>13. Claims'
  BY <1>7 DEF Inv, AllocateNew, Claims
<1>14. OwnHosts'
  BY <1>2 DEF Inv, AllocateNew, OwnHosts, TypeOK
<1> QED
  BY <1>9, <1>10, <1>11, <1>12, <1>13, <1>14 DEF Inv

\* The invariant is inductive.
LEMMA NextInv == Inv /\ [Next]_vars => Inv'
<1> SUFFICES ASSUME Inv, [Next]_vars PROVE Inv'
  OBVIOUS
<1>1. CASE Restart
  BY <1>1, RestartInv
<1>2. ASSUME NEW g \in Goroutines, Register(g) PROVE Inv'
  BY <1>2, BeginInv, ClaimInv, ListInv, AllocateInv DEF Register
<1>3. CASE UNCHANGED vars
  BY <1>3 DEF vars, Inv, TypeOK, PortsDistinct, NoHoles, NoSelfConflict, Claims, OwnHosts
<1> QED
  BY <1>1, <1>2, <1>3 DEF Next

\* The allocator is well typed: what it hands out is claimed, from Base on.
THEOREM TypeCorrect == Spec => []TypeOK
<1>1. Inv => TypeOK
  BY DEF Inv
<1> QED
  BY <1>1, InitInv, NextInv, PTL DEF Spec

\* No two domains ever share a listen port.
THEOREM PortsDistinctCorrect == Spec => []PortsDistinct
<1>1. Inv => PortsDistinct
  BY DEF Inv
<1> QED
  BY <1>1, InitInv, NextInv, PTL DEF Spec

\* Ports are handed out without holes.
THEOREM NoHolesCorrect == Spec => []NoHoles
<1>1. Inv => NoHoles
  BY DEF Inv
<1> QED
  BY <1>1, InitInv, NextInv, PTL DEF Spec

\* A container's own hosts never get one of its explicit ports.
THEOREM NoSelfConflictCorrect == Spec => []NoSelfConflict
<1>1. Inv => NoSelfConflict
  BY DEF Inv
<1> QED
  BY <1>1, InitInv, NextInv, PTL DEF Spec

\* Within a run of the proxy a domain never changes its port.
THEOREM MappingStableCorrect == Spec => MappingStable
<1> DEFINE Keeps == boots' = boots =>
                      \A d \in Domains : assigned[d] # None => assigned'[d] = assigned[d]
<1>1. Inv /\ [Next]_vars => [Keeps]_vars
  <2> SUFFICES ASSUME Inv, Next, boots' = boots, NEW d \in Domains, assigned[d] # None
               PROVE  assigned'[d] = assigned[d]
    BY DEF vars
  <2>1. ~Restart
    BY DEF Inv, TypeOK, Restart
  <2>2. PICK g \in Goroutines : Register(g)
    BY <2>1 DEF Next
  <2>3. CASE AllocateNew(g)
    <3>1. PICK p : assigned' = [assigned EXCEPT ![Head(todo[g])] = p]
      BY <2>3 DEF AllocateNew, Assign
    <3>2. Head(todo[g]) # d
      BY <2>3 DEF AllocateNew, MustAssign
    <3> QED
      BY <3>1, <3>2 DEF Inv, TypeOK
  <2>4. CASE ~AllocateNew(g)
    BY <2>2, <2>4 DEF Register, Begin, ClaimPorts, AllocateBegin, ReuseOrSkip, AllocateEnd
  <2> QED
    BY <2>3, <2>4
<1> QED
  BY <1>1, InitInv, NextInv, PTL DEF Spec, MappingStable
=============================================================================
