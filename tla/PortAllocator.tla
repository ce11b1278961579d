---------------------------- MODULE PortAllocator ----------------------------
(***************************************************************************)
(* Listen ports for Traefik host entries: types.PortAllocator              *)
(* (internal/types/portalloc.go) as containerToTargetInfo and its          *)
(* siblings use it.                                                        *)
(*                                                                         *)
(* A registration claims the container's explicit TCP and UDP ports, then  *)
(* allocates a port for each of its HTTP and then TCP hosts.  Each of these*)
(* calls holds the allocator's mutex; between them registrations by the    *)
(* event watcher and by a reload interleave.  The allocator is memory only:*)
(* a restart of the proxy begins with an empty one.                        *)
(***************************************************************************)
EXTENDS Integers, Sequences, FiniteSets

CONSTANTS
  Base,        \* LISTEN_START_PORT
  Containers,  \* containers, services and config entries
  Domains,     \* host names
  Explicit,    \* Explicit[c]: listen ports of the ports label
  ExplicitUDP, \* ExplicitUDP[c]: listen ports of the udp-ports label
  Hosts,       \* Hosts[c]: domains of traefik-hosts, in order
  TCPHosts,    \* TCPHosts[c]: domains of traefik-tcp-hosts, in order
  Goroutines,  \* the event watcher and reloads
  MaxBoots,    \* bound: times the proxy is started
  None         \* no container, no port, no goroutine, an empty domain

ASSUME BaseAssumption == Base \in Nat
ASSUME ExplicitAssumption ==
  \A c \in Containers :
    /\ Explicit[c] \subseteq Nat /\ IsFiniteSet(Explicit[c])
    /\ ExplicitUDP[c] \subseteq Nat /\ IsFiniteSet(ExplicitUDP[c])
ASSUME HostsAssumption ==
  \A c \in Containers :
    Hosts[c] \in Seq(Domains \cup {None}) /\ TCPHosts[c] \in Seq(Domains \cup {None})
ASSUME NoneAssumption == None \notin Containers \cup Domains \cup Goroutines \cup Nat

VARIABLES
  claimed,   \* a.claimed
  assigned,  \* a.assigned, None for a domain that is not in the map
  lock,      \* the goroutine that holds a.mu, or None
  pc,        \* where each registration is
  subject,   \* the container it registers
  todo,      \* host specs the AllocatePortMappings call has still to visit
  boots,     \* starts of the proxy
  earlier    \* history: assigned when an earlier run had met every host

vars == <<claimed, assigned, lock, pc, subject, todo, boots, earlier>>

Goto(g, label) == pc' = [pc EXCEPT ![g] = label]

\* containerToTargetInfo for some container, from an event or a discovery.
Begin(g, c) ==
  /\ pc[g] = "idle"
  /\ subject' = [subject EXCEPT ![g] = c]
  /\ Goto(g, "claim")
  /\ UNCHANGED <<claimed, assigned, lock, todo, boots, earlier>>

ClaimTCPOnly(g) ==  \* regression: UDP ports are not claimed
  /\ pc[g] \in {"claim", "claimUdp"} /\ lock = None
  /\ claimed' = claimed \cup (IF pc[g] = "claim" THEN Explicit[subject[g]] ELSE {})
  /\ Goto(g, IF pc[g] = "claim" THEN "claimUdp" ELSE "hosts")
  /\ UNCHANGED <<assigned, lock, subject, todo, boots, earlier>>

\* ClaimPorts(ports), then ClaimPorts(udpPorts).
ClaimPorts(g) ==
  /\ pc[g] \in {"claim", "claimUdp"} /\ lock = None
  /\ claimed' = claimed \cup
       (IF pc[g] = "claim" THEN Explicit[subject[g]] ELSE ExplicitUDP[subject[g]])
  /\ Goto(g, IF pc[g] = "claim" THEN "claimUdp" ELSE "hosts")
  /\ UNCHANGED <<assigned, lock, subject, todo, boots, earlier>>

\* AllocatePortMappings takes the mutex for a whole list of specs.
AllocateBegin(g) ==
  /\ pc[g] \in {"hosts", "tcpHosts"} /\ lock = None
  /\ lock' = g
  /\ todo' = [todo EXCEPT ![g] = IF pc[g] = "hosts" THEN Hosts[subject[g]] ELSE TCPHosts[subject[g]]]
  /\ UNCHANGED <<claimed, assigned, pc, subject, boots, earlier>>

MustAssignAgain(d) == d # None  \* regression: nothing is reused
MustAssign(d) == d # None /\ assigned[d] = None

\* A spec without a domain, or whose domain has its port already.
ReuseOrSkip(g) ==
  /\ lock = g /\ todo[g] # <<>>
  /\ ~MustAssign(Head(todo[g]))
  /\ todo' = [todo EXCEPT ![g] = Tail(@)]
  /\ UNCHANGED <<claimed, assigned, lock, pc, subject, boots, earlier>>

AnyFree(p) == p \notin claimed  \* regression: not the next one

\* nextFree counts up from base to the first port that is not claimed.
NextFree(p) == p \notin claimed /\ \A q \in Base..(p - 1) : q \in claimed

AssignOnly(d, p) ==  \* regression: the port is not claimed
  /\ assigned' = [assigned EXCEPT ![d] = p]
  /\ UNCHANGED claimed

Assign(d, p) ==
  /\ assigned' = [assigned EXCEPT ![d] = p]
  /\ claimed' = claimed \cup {p}

AllocateNew(g) ==
  /\ lock = g /\ todo[g] # <<>>
  /\ MustAssign(Head(todo[g]))
  /\ \E p \in Base..(Base + Cardinality(claimed)) : NextFree(p) /\ Assign(Head(todo[g]), p)
  /\ todo' = [todo EXCEPT ![g] = Tail(@)]
  /\ UNCHANGED <<lock, pc, subject, boots, earlier>>

\* The list is done and the mutex released; TCP hosts follow HTTP hosts.
AllocateEnd(g) ==
  /\ lock = g /\ todo[g] = <<>>
  /\ lock' = None
  /\ Goto(g, IF pc[g] = "hosts" THEN "tcpHosts" ELSE "idle")
  /\ UNCHANGED <<claimed, assigned, subject, todo, boots, earlier>>

HostsOf(c) == {Hosts[c][i] : i \in DOMAIN Hosts[c]} \cup {TCPHosts[c][i] : i \in DOMAIN TCPHosts[c]}
AllHosts == UNION {HostsOf(c) : c \in Containers} \ {None}

\* The proxy is stopped, or crashes, and starts with NewPortAllocator.
Restart ==
  /\ boots < MaxBoots /\ boots' = boots + 1
  /\ earlier' = IF \A d \in AllHosts : assigned[d] # None THEN assigned ELSE earlier
  /\ claimed' = {} /\ assigned' = [d \in Domains |-> None]
  /\ lock' = None
  /\ pc' = [g \in Goroutines |-> "idle"]
  /\ subject' = [g \in Goroutines |-> None]
  /\ todo' = [g \in Goroutines |-> <<>>]

Register(g) ==
  \/ \E c \in Containers : Begin(g, c)
  \/ ClaimPorts(g) \/ AllocateBegin(g) \/ ReuseOrSkip(g) \/ AllocateNew(g) \/ AllocateEnd(g)

Next == Restart \/ \E g \in Goroutines : Register(g)

Init ==
  /\ claimed = {} /\ assigned = [d \in Domains |-> None] /\ lock = None
  /\ pc = [g \in Goroutines |-> "idle"]
  /\ subject = [g \in Goroutines |-> None]
  /\ todo = [g \in Goroutines |-> <<>>]
  /\ boots = 1 /\ earlier = [d \in Domains |-> None]

Spec == Init /\ [][Next]_vars

-----------------------------------------------------------------------------
(* Properties *)

\* Every variable keeps its type, and a registration past "idle" has a container;
\* every port the allocator hands out is a claimed one, from Base on.
TypeOK ==
  /\ claimed \subseteq Nat /\ IsFiniteSet(claimed)
  /\ assigned \in [Domains -> Nat \cup {None}]
  /\ lock \in Goroutines \cup {None}
  /\ pc \in [Goroutines -> {"idle", "claim", "claimUdp", "hosts", "tcpHosts"}]
  /\ subject \in [Goroutines -> Containers \cup {None}]
  /\ todo \in [Goroutines -> Seq(Domains \cup {None})]
  /\ boots \in Nat
  /\ earlier \in [Domains -> Nat \cup {None}]
  /\ \A g \in Goroutines : pc[g] # "idle" => subject[g] \in Containers
  /\ \A d \in Domains : assigned[d] # None => assigned[d] \in claimed /\ assigned[d] >= Base

\* Two domains never share a listen port, however registrations interleave: the
\* second RegisterTarget would be refused as a port conflict.
PortsDistinct ==
  \A d, e \in Domains : d # e /\ assigned[d] # None => assigned[d] # assigned[e]

\* The ports handed out leave no hole: everything below them is claimed.
NoHoles ==
  \A d \in Domains : assigned[d] # None => \A q \in Base..(assigned[d] - 1) : q \in claimed

\* A host that only one container names gets none of the ports this container
\* declares explicitly: it would take two of its own mappings for one listener.
NoSelfConflict ==
  \A c \in Containers : \A d \in HostsOf(c) :
    /\ d # None /\ assigned[d] # None
    /\ \A e \in Containers \ {c} : d \notin HostsOf(e)
    => assigned[d] \notin Explicit[c] \cup ExplicitUDP[c]

\* Within a run of the proxy a domain keeps its port: Traefik routes and open
\* listeners refer to it.
MappingStable ==
  [][boots' = boots => \A d \in Domains : assigned[d] # None => assigned'[d] = assigned[d]]_vars

-----------------------------------------------------------------------------
(* What the documentation says and the code does not do *)

\* requirements/2026-06-04-dynamic-port-allocation-traefik-hosts.md:57, "the same
\* set of containers always receives the same ports after a restart".
SamePortsAfterRestart ==
  (\A d \in AllHosts : assigned[d] # None /\ earlier[d] # None)
    => \A d \in AllHosts : assigned[d] = earlier[d]
=============================================================================
