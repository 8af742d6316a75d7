--------------------------- MODULE ListenerProofs ---------------------------
(***************************************************************************)
(* Proofs, for any number of servers, connections and addresses, any width *)
(* of m_nNextConnId and any number of values of a byte, that connections   *)
(* report the addresses that they really have and that a server finds its  *)
(* connections by their names until its numbers run out.                   *)
(***************************************************************************)
EXTENDS ListenerProps, TLAPS

USE ListenerAssumption DEF ListenerAssumption

(* The connections of s that wait for it or are up. *)
Reaches(c, s) == conn[c].place \in {"waiting", "up"} /\ conn[c].server = s

(* A socket that listens belongs to a server that was started, and its
   address has the port and the host that its server asked for. *)
SocketInv(s) ==
    /\ sock[s].listens \/ sock[s].asked => server[s].place = "made"
    /\ sock[s].listens => server[s].listening
    /\ sock[s].asked =>
          /\ server[s].name.port = server[s].given % (Base * Base)
          /\ server[s].name.port \in {0, sock[s].bound.port}
          /\ server[s].name.host = sock[s].bound.host

(* A connection that waits or is up came to an address of its server's socket, and that socket
   listens as long as it reaches the server. *)
ReachInv(c) ==
    /\ conn[c].place \in {"waiting", "up"} => conn[c].server \in Servers /\ conn[c].dest.host \in Hosts
    /\ \A s \in Servers : Reaches(c, s) => sock[s].listens /\ Same(sock[s].bound, conn[c].dest)
    /\ Up(c) => conn[c].local = FromKernel(conn[c].dest) /\ conn[c].peer = FromKernel(conn[c].source)

AddressInv ==
    /\ \A s \in Servers : SocketInv(s)
    /\ \A c \in Conns : ReachInv(c)

(* The numbers that s has given to connections so far. *)
Given(s) == {(1 + k) % IdRange : k \in 0 .. server[s].accepted - 1}

(* Whatever has become of its numbers, a server keeps none but its own
   connections, and none that still waits. *)
OwnConns(s) ==
    \A e \in server[s].map :
        conn[e[2]].server = s /\ conn[e[2]].place \notin {"none", "waiting"}

(* As long as no number was given twice, the map is a table of the
   connections that are up. *)
Table(s) ==
    /\ server[s].nextId = (1 + server[s].accepted) % IdRange
    /\ server[s].accepted <= IdRange =>
          /\ \A e \in server[s].map : Up(e[2]) /\ e[1] = conn[e[2]].id /\ e[1] \in Given(s)
          /\ \A c \in Conns : Up(c) /\ conn[c].server = s => <<conn[c].id, c>> \in server[s].map
          /\ \A e, f \in server[s].map : e[1] = f[1] => e = f

(* Only a server whose numbers have run out fails the assert. *)
FailedInv == failed => \E s \in Servers : server[s].accepted > IdRange

NameInv ==
    /\ \A s \in Servers : OwnConns(s) /\ Table(s)
    /\ FailedInv

IInv == TypeOK /\ AddressInv /\ NameInv
-----------------------------------------------------------------------------
(* The quotient and the remainder of a division by b are what they are for
   one pair of numbers only. *)
LEMMA DivisionUnique ==
    ASSUME NEW b \in Nat, b > 0, NEW q \in Nat, NEW r \in 0 .. b - 1
    PROVE  /\ (q * b + r) % b = r
           /\ (q * b + r) \div b = q
<1> DEFINE n == q * b + r
           d == n \div b
           m == n % b
<1>1. n \in Nat /\ q * b \in Nat
  OBVIOUS
<1>2. d \in Nat /\ m \in 0 .. b - 1 /\ n = b * d + m
  BY <1>1
<1>3. (q - d) * b = m - r
  <2>1. q * b + r = b * d + m
    BY <1>2
  <2> HIDE DEF d, m
  <2>2. (q - d) * b = q * b - b * d
    BY <1>1, <1>2
  <2> QED
    BY <1>1, <1>2, <2>1, <2>2
<1> HIDE DEF d, m
<1>4. ASSUME NEW k \in Int, k > 0
      PROVE  k * b >= b
  <2>1. (k - 1) * b >= 0
    BY <1>1, <1>4
  <2>2. (k - 1) * b = k * b - b
    BY <1>1
  <2> QED
    BY <1>1, <2>1, <2>2
<1>5. ~(q - d > 0)
  <2> SUFFICES ASSUME q - d > 0 PROVE FALSE
    OBVIOUS
  <2>1. (q - d) * b >= b
    BY <1>2, <1>4
  <2> QED
    BY <1>2, <1>3, <2>1
<1>6. ~(d - q > 0)
  <2> SUFFICES ASSUME d - q > 0 PROVE FALSE
    OBVIOUS
  <2>1. (d - q) * b >= b
    BY <1>2, <1>4
  <2>2. (d - q) * b = -((q - d) * b)
    BY <1>1, <1>2
  <2>3. (d - q) * b = r - m
    BY <1>2, <1>3, <2>2
  <2> QED
    BY <1>2, <2>1, <2>3
<1>7. d = q
  BY <1>2, <1>5, <1>6
<1>8. m = r
  <2>1. (q - d) * b = 0
    BY <1>1, <1>7
  <2> QED
    BY <1>2, <1>3, <2>1
<1> QED
  BY <1>7, <1>8 DEF d, m, n

(* Swapping the two bytes of a port twice gives the port. *)
LEMMA SwappedTwice ==
    ASSUME NEW n \in Ports
    PROVE  Swapped16(n) \in Ports /\ Swapped16(Swapped16(n)) = n
<1> DEFINE q == n \div Base
           r == n % Base
<1>1. n \in Nat /\ n < Base * Base /\ Base \in Nat /\ Base > 0
  BY DEF Ports
<1>2. q \in Nat /\ r \in 0 .. Base - 1 /\ n = Base * q + r
  BY <1>1
<1> HIDE DEF q, r
<1>3. q \in 0 .. Base - 1
  <2> SUFFICES ASSUME q >= Base PROVE FALSE
    BY <1>1, <1>2
  <2>1. Base * (q - Base) >= 0
    BY <1>1, <1>2
  <2>2. Base * (q - Base) = Base * q - Base * Base
    BY <1>1, <1>2
  <2> QED
    BY <1>1, <1>2, <2>1, <2>2
<1>4. Swapped16(n) = r * Base + q
  BY DEF Swapped16, q, r
<1>5. Swapped16(n) \in Ports
  <2>1. (Base - 1 - r) * Base >= 0
    BY <1>1, <1>2
  <2>2. (Base - 1 - r) * Base = Base * Base - Base - r * Base
    BY <1>1, <1>2
  <2>3. r * Base \in Nat
    BY <1>1, <1>2
  <2> QED
    BY <1>1, <1>2, <1>3, <1>4, <2>1, <2>2, <2>3 DEF Ports
<1>6. Swapped16(r * Base + q) = q * Base + r
  BY <1>2, <1>3, DivisionUnique DEF Swapped16
<1> QED
  BY <1>1, <1>2, <1>4, <1>5, <1>6

(* The conversions of a port: what a user's number becomes, the kernel reads
   and a name shows. *)
LEMMA PortFacts ==
    ASSUME NEW n \in Nat
    PROVE  /\ n % (Base * Base) \in Ports
           /\ HostToNetwork16(n) \in Ports
           /\ Swapped16(HostToNetwork16(n)) = n % (Base * Base)
<1>1. Base * Base \in Nat /\ Base * Base > 0
  OBVIOUS
<1>2. n % (Base * Base) \in Ports
  BY <1>1 DEF Ports
<1> QED
  BY <1>2, SwappedTwice DEF HostToNetwork16

(* Ports holds zero. *)
LEMMA ZeroPort == 0 \in Ports
BY DEF Ports

(* A kernel address survives the way into a sockaddr_in and back. *)
LEMMA RoundTrip ==
    ASSUME NEW addr \in Address
    PROVE  FromKernel(addr) \in Address /\ ToHostPort(FromKernel(addr)) = addr
BY SwappedTwice DEF Address, FromKernel, ToHostPort, NetworkToHost16

(* The next number is one more than the last, counted round. *)
LEMMA NextNumber ==
    ASSUME NEW a \in Nat
    PROVE  NextConnId((1 + a) % IdRange) = (1 + (a + 1)) % IdRange
<1> DEFINE d == (1 + a) \div IdRange
           m == (1 + a) % IdRange
<1>1. IdRange \in Nat /\ IdRange > 0
  OBVIOUS
<1>2. d \in Nat /\ m \in 0 .. IdRange - 1 /\ 1 + a = IdRange * d + m
  BY <1>1
<1> HIDE DEF d, m
<1>3. IdRange * d = d * IdRange /\ (d + 1) * IdRange = d * IdRange + IdRange
  BY <1>1, <1>2
<1>4. CASE m + 1 < IdRange
  <2>0. m + 1 \in 0 .. IdRange - 1
    BY <1>1, <1>2, <1>4
  <2>1. (0 * IdRange + (m + 1)) % IdRange = m + 1
    BY <1>1, <1>2, <2>0, DivisionUnique
  <2>2. (d * IdRange + (m + 1)) % IdRange = m + 1
    BY <1>1, <1>2, <2>0, DivisionUnique
  <2>3. 1 + (a + 1) = d * IdRange + (m + 1)
    BY <1>2, <1>3
  <2>4. 0 * IdRange + (m + 1) = m + 1
    BY <1>1, <1>2
  <2>5. (m + 1) % IdRange = (1 + (a + 1)) % IdRange
    BY <2>1, <2>2, <2>3, <2>4
  <2> QED
    BY <2>5 DEF NextConnId, m
<1>5. CASE m + 1 = IdRange
  <2>1. (1 * IdRange + 0) % IdRange = 0
    BY <1>1, DivisionUnique
  <2>2. ((d + 1) * IdRange + 0) % IdRange = 0
    BY <1>1, <1>2, DivisionUnique
  <2>3. 1 + (a + 1) = (d + 1) * IdRange + 0
    BY <1>1, <1>2, <1>3, <1>5
  <2>4. m + 1 = 1 * IdRange + 0
    BY <1>1, <1>5
  <2>5. (m + 1) % IdRange = (1 + (a + 1)) % IdRange
    BY <2>1, <2>2, <2>3, <2>4
  <2> QED
    BY <2>5 DEF NextConnId, m
<1> QED
  BY <1>1, <1>2, <1>4, <1>5

(* The first IdRange numbers that a server gives are different. *)
LEMMA NumbersDiffer ==
    ASSUME NEW a \in Nat, a < IdRange, NEW k \in 0 .. a - 1
    PROVE  (1 + k) % IdRange # (1 + a) % IdRange
<1>1. IdRange \in Nat /\ IdRange > 1 /\ 1 + k < IdRange
  OBVIOUS
<1>2. (1 + k) % IdRange = 1 + k
  BY <1>1
<1>3. CASE 1 + a < IdRange
  <2>1. (1 + a) % IdRange = 1 + a
    BY <1>1, <1>3
  <2> QED
    BY <1>2, <2>1
<1>4. CASE 1 + a = IdRange
  <2>1. (1 * IdRange + 0) % IdRange = 0
    BY <1>1, DivisionUnique
  <2>2. 1 + a = 1 * IdRange + 0
    BY <1>1, <1>4
  <2>3. (1 + a) % IdRange = 0
    BY <2>1, <2>2
  <2> QED
    BY <1>2, <2>3
<1> QED
  BY <1>1, <1>3, <1>4
-----------------------------------------------------------------------------
(* bind(2) and listen(2): what they make of a socket. *)
LEMMA FreeFacts ==
    ASSUME NEW s, NEW addr \in Address, NEW a \in Free(s, addr)
    PROVE  /\ a \in Address /\ a.host = addr.host
           /\ addr.port \in {0, a.port}
BY ZeroPort DEF Free, Chosen, Address

(* Only what is in cs and not held is lost. *)
LEMMA LostFacts ==
    ASSUME TypeOK, NEW cs, NEW d \in Conns
    PROVE  /\ LostIn(cs, d) \in Connection
           /\ LostIn(cs, d).server = conn[d].server
           /\ LostIn(cs, d).id = conn[d].id
           /\ LostIn(cs, d).dest = conn[d].dest
           /\ LostIn(cs, d).source = conn[d].source
           /\ LostIn(cs, d).local = conn[d].local
           /\ LostIn(cs, d).peer = conn[d].peer
           /\ \/ LostIn(cs, d).place = conn[d].place /\ (d \notin cs \/ d \in held)
              \/ LostIn(cs, d).place = "lost" /\ d \in cs
BY DEF LostIn, TypeOK, Connection
-----------------------------------------------------------------------------
(* The type invariant. *)

LEMMA InitTypes == Init => TypeOK
<1> SUFFICES ASSUME Init PROVE TypeOK
  OBVIOUS
<1>1. Unbound \in Address /\ 0 \in Ids /\ 1 \in Ids
  BY ZeroPort DEF Unbound, Address, Ids
<1>2. NoServer \in Server
  BY <1>1, ZeroPort DEF NoServer, Server, Address
<1>3. NewSocket \in Socket
  BY <1>1 DEF NewSocket, Socket
<1>4. NoConn \in Connection
  BY <1>1 DEF NoConn, Connection
<1> QED
  BY <1>2, <1>3, <1>4 DEF Init, TypeOK

LEMMA BindTypes ==
    ASSUME TypeOK, NEW s \in Servers, NEW addr \in Address, Bind(s, Kernel(addr))
    PROVE  sock' \in [Servers -> Socket]
<1>1. Kernel(addr) \in Address
  BY SwappedTwice DEF Kernel, Address
<1>2. \A a \in Free(s, Kernel(addr)) : a \in Address
  BY <1>1, FreeFacts
<1>3. \A a \in Address : [bound |-> a, listens |-> FALSE, asked |-> TRUE] \in Socket
  BY DEF Socket
<1>4. CASE \E a \in Free(s, Kernel(addr)) :
          sock' = [sock EXCEPT ![s] = [bound |-> a, listens |-> FALSE, asked |-> TRUE]]
  BY <1>2, <1>3, <1>4 DEF TypeOK
<1>5. CASE UNCHANGED sock
  BY <1>5 DEF TypeOK
<1> QED
  BY <1>4, <1>5 DEF Bind

LEMMA ListenTypes ==
    ASSUME TypeOK, NEW s \in Servers, Listen(s)
    PROVE  sock' \in [Servers -> Socket]
<1>1. sock[s] \in Socket /\ sock[s].bound \in Address
  BY DEF TypeOK, Socket
<1>2. \A a \in Free(s, sock[s].bound) : a \in Address
  BY <1>1, FreeFacts
<1>3. ASSUME NEW a \in Free(s, sock[s].bound),
             sock' = [sock EXCEPT ![s].bound = a, ![s].listens = TRUE]
      PROVE  sock' \in [Servers -> Socket]
  <2> DEFINE r == [sock[s] EXCEPT !.bound = a, !.listens = TRUE]
  <2>1. r \in Socket
    BY <1>1, <1>2 DEF Socket
  <2>2. sock' = [sock EXCEPT ![s] = r]
    BY <1>3
  <2> QED
    BY <2>1, <2>2 DEF TypeOK
<1> QED
  BY <1>3 DEF Listen, TypeOK

(* What CInetAddress makes of what the user passes. *)
LEMMA AddressTypes ==
    ASSUME NEW n \in Numbers
    PROVE  /\ AnyHost(n) \in Address
           /\ \A text \in Texts : FromHostPort(text, n) \in Address
BY PortFacts DEF AnyHost, FromHostPort, Address

LEMMA NewServerTypes ==
    ASSUME TypeOK, NEW s \in Servers, NEW n \in Numbers, NEW addr \in Address,
           NewServer(s, addr, n)
    PROVE  TypeOK'
<1>1. ToHostPort(addr) \in Address
  BY SwappedTwice DEF ToHostPort, NetworkToHost16, Address
<1>2. server' \in [Servers -> Server]
  <2> DEFINE r == [server[s] EXCEPT !.place = "made", !.given = n, !.name = ToHostPort(addr)]
  <2>1. r \in Server
    BY <1>1 DEF TypeOK, Server
  <2>2. server' = [server EXCEPT ![s] = r]
    BY DEF NewServer, ServerName
  <2> QED
    BY <2>1, <2>2 DEF TypeOK
<1>3. sock' \in [Servers -> Socket]
  BY BindTypes DEF NewServer, NewAcceptor, BindAddredd
<1> QED
  BY <1>2, <1>3 DEF NewServer, TypeOK

LEMMA StartTypes ==
    ASSUME TypeOK, NEW s \in Servers, Start(s)
    PROVE  TypeOK'
<1>1. sock' \in [Servers -> Socket]
  BY ListenTypes DEF Start
<1>2. server' \in [Servers -> Server]
  <2>1. [server[s] EXCEPT !.listening = TRUE] \in Server
    BY DEF TypeOK, Server
  <2> QED
    BY <2>1 DEF Start, TypeOK
<1> QED
  BY <1>1, <1>2 DEF Start, TypeOK

LEMMA PeerConnectsTypes ==
    ASSUME TypeOK, NEW c \in Conns, NEW s \in Servers, NEW h \in Hosts, NEW p \in Ports,
           NEW source \in Sources, PeerConnects(c, s, [host |-> h, port |-> p], source)
    PROVE  TypeOK'
<1>1. [host |-> h, port |-> p] \in Address /\ source \in Address
  BY DEF Address
<1>2. Unbound \in Address /\ 0 \in Ids
  BY ZeroPort DEF Unbound, Address, Ids
<1>3. [NoConn EXCEPT !.place = "waiting", !.server = s,
                     !.dest = [host |-> h, port |-> p], !.source = source] \in Connection
  BY <1>1, <1>2 DEF Connection, NoConn
<1>4. conn' \in [Conns -> Connection]
  BY <1>3 DEF PeerConnects, TypeOK
<1> QED
  BY <1>4 DEF PeerConnects, TypeOK

(* Updates of a CTcpServer keep it one. *)
LEMMA ServerUpdate ==
    ASSUME NEW r \in Server, NEW m \in SUBSET (Ids \X Conns), NEW i \in Ids, NEW n \in Nat
    PROVE  [r EXCEPT !.map = m, !.nextId = i, !.accepted = n] \in Server
BY DEF Server

LEMMA SmallerMap ==
    ASSUME NEW r \in Server, NEW old
    PROVE  [r EXCEPT !.map = r.map \ old] \in Server
<1> DEFINE m == r.map \ old
<1>1. m \in SUBSET (Ids \X Conns)
  BY DEF Server
<1> HIDE DEF m
<1>2. [r EXCEPT !.map = m] \in Server
  BY <1>1 DEF Server
<1> QED
  BY <1>2 DEF m

LEMMA NewConnectionTypes ==
    ASSUME TypeOK, NEW s \in Servers, NEW c \in Conns, NewConnection(s, c)
    PROVE  TypeOK'
<1>1. server[s] \in Server /\ conn[c] \in Connection
  BY DEF TypeOK
<1>2. server[s].nextId \in Ids /\ NextConnId(server[s].nextId) \in Ids
  BY <1>1 DEF Server, Ids, NextConnId
<1>3. (server[s].map \ Entries(s, server[s].nextId)) \cup {<<server[s].nextId, c>>}
        \in SUBSET (Ids \X Conns)
  BY <1>1, <1>2 DEF Server
<1>4. server' \in [Servers -> Server]
  <2> DEFINE m == (server[s].map \ Entries(s, server[s].nextId)) \cup {<<server[s].nextId, c>>}
             r == [server[s] EXCEPT !.map = m, !.nextId = NextConnId(server[s].nextId),
                                    !.accepted = server[s].accepted + 1]
  <2>1. m \in SUBSET (Ids \X Conns)
    BY <1>3
  <2>2. server' = [server EXCEPT ![s] = r]
    BY DEF NewConnection
  <2> HIDE DEF m
  <2>3. r \in Server
    <3>1. server[s].accepted + 1 \in Nat
      BY <1>1 DEF Server
    <3> QED
      BY <1>1, <1>2, <2>1, <3>1, ServerUpdate
  <2> QED
    BY <2>2, <2>3 DEF TypeOK
<1>5. PeerAddr(c) \in Address /\ GetLocalAddr(c) \in Address
  BY <1>1, RoundTrip DEF PeerAddr, GetLocalAddr, Connection
<1>6. [conn[c] EXCEPT !.place = "up", !.id = server[s].nextId,
                      !.peer = PeerAddr(c), !.local = GetLocalAddr(c)] \in Connection
  BY <1>1, <1>2, <1>5 DEF Connection
<1>7. conn' \in [Conns -> Connection]
  BY <1>6, LostFacts DEF NewConnection
<1> QED
  BY <1>4, <1>7 DEF NewConnection, TypeOK

LEMMA RemoveConnectionTypes ==
    ASSUME TypeOK, NEW c \in Conns, RemoveConnection(c)
    PROVE  TypeOK'
<1> DEFINE s == conn[c].server
           old == Entries(s, conn[c].id)
<1>1. CASE old = {}
  BY <1>1 DEF RemoveConnection, TypeOK
<1>2. CASE old # {}
  <2>1. server' = [server EXCEPT ![s].map = @ \ old]
    BY <1>2 DEF RemoveConnection
  <2>2. server' \in [Servers -> Server]
    <3>1. \A t \in Servers : [server[t] EXCEPT !.map = server[t].map \ old] \in Server
      BY SmallerMap DEF TypeOK
    <3> QED
      BY <2>1, <3>1 DEF TypeOK
  <2>3. [conn[c] EXCEPT !.place = "gone"] \in Connection
    BY DEF TypeOK, Connection
  <2>4. conn' \in [Conns -> Connection]
    <3> DEFINE cs == {e[2] : e \in old}
    <3>1. conn' = [d \in Conns |-> IF d = c THEN [conn[c] EXCEPT !.place = "gone"]
                                   ELSE LostIn(cs, d)]
      BY <1>2, Zenon DEF RemoveConnection
    <3> HIDE DEF cs
    <3> QED
      BY <2>3, <3>1, LostFacts
  <2> QED
    BY <1>2, <2>2, <2>4 DEF RemoveConnection, TypeOK
<1> QED
  BY <1>1, <1>2

LEMMA DestroyServerTypes ==
    ASSUME TypeOK, NEW s \in Servers, DestroyServer(s)
    PROVE  TypeOK'
<1>1. server' \in [Servers -> Server]
  <2>1. [server[s] EXCEPT !.place = "gone", !.map = {}] \in Server
    BY DEF TypeOK, Server
  <2>2. server' = [server EXCEPT ![s] = [server[s] EXCEPT !.place = "gone", !.map = {}]]
    BY DEF DestroyServer
  <2> QED
    BY <2>1, <2>2 DEF TypeOK
<1>2. NewSocket \in Socket
  BY ZeroPort DEF NewSocket, Socket, Unbound, Address
<1>3. sock' \in [Servers -> Socket]
  BY <1>2 DEF DestroyServer, Close, TypeOK
<1>4. conn' \in [Conns -> Connection]
  BY DEF DestroyServer, TypeOK, Connection
<1> QED
  BY <1>1, <1>3, <1>4 DEF DestroyServer, TypeOK

LEMMA TypesStep == TypeOK /\ [Next]_vars => TypeOK'
<1> SUFFICES ASSUME TypeOK, [Next]_vars PROVE TypeOK'
  OBVIOUS
<1>1. ASSUME NEW s \in Servers, NEW n \in Numbers, NewServer(s, AnyHost(n), n)
      PROVE  TypeOK'
  BY <1>1, AddressTypes, NewServerTypes
<1>2. ASSUME NEW s \in Servers, NEW text \in Texts, NEW n \in Numbers,
             NewServer(s, FromHostPort(text, n), n)
      PROVE  TypeOK'
  BY <1>2, AddressTypes, NewServerTypes
<1>3. ASSUME NEW c \in Conns, Hold(c)
      PROVE  TypeOK'
  BY <1>3 DEF Hold, TypeOK
<1>4. ASSUME NEW c \in Conns, Release(c)
      PROVE  TypeOK'
  <2>1. conn' \in [Conns -> Connection]
    BY <1>4 DEF Release, TypeOK, Connection
  <2> QED
    BY <1>4, <2>1 DEF Release, TypeOK
<1>5. CASE UNCHANGED vars
  BY <1>5 DEF vars, TypeOK
<1> QED
  BY <1>1, <1>2, <1>3, <1>4, <1>5, StartTypes, PeerConnectsTypes, NewConnectionTypes,
     RemoveConnectionTypes, DestroyServerTypes DEF Next

(* Type correctness: ports have 16 bits and numbers of connections stay in
   their range on every way through the conversions and the counter
   (CInetAddress.cpp:15-40, CTcpServer.cpp:57). *)
THEOREM TypeCorrect == Spec => []TypeOK
BY InitTypes, TypesStep, PTL DEF Spec
-----------------------------------------------------------------------------
(* What each action does to the members of servers, sockets and connections,
   read off the updates. *)

LEMMA NewServerFacts ==
    ASSUME TypeOK, NEW s \in Servers, NEW n \in Numbers, NEW addr \in Address,
           NewServer(s, addr, n)
    PROVE  /\ server[s].place = "none"
           /\ server'[s].place = "made" /\ server'[s].listening = server[s].listening
           /\ server'[s].given = n /\ server'[s].name = ToHostPort(addr)
           /\ server'[s].nextId = server[s].nextId /\ server'[s].map = server[s].map
           /\ server'[s].accepted = server[s].accepted
           /\ \A t \in Servers \ {s} : server'[t] = server[t] /\ sock'[t] = sock[t]
           /\ \/ sock' = sock
              \/ /\ sock'[s].bound.host = Kernel(addr).host
                 /\ Kernel(addr).port \in {0, sock'[s].bound.port}
                 /\ ~sock'[s].listens
           /\ UNCHANGED <<conn, held, failed>>
<1>1. server' = [server EXCEPT ![s].place = "made", ![s].given = n,
                               ![s].name = ToHostPort(addr)]
  BY DEF NewServer, ServerName
<1>2. Bind(s, Kernel(addr))
  BY DEF NewServer, NewAcceptor, BindAddredd
<1>3. Kernel(addr) \in Address
  BY SwappedTwice DEF Kernel, Address
<1>4. ASSUME NEW a \in Free(s, Kernel(addr)),
             sock' = [sock EXCEPT ![s] = [bound |-> a, listens |-> FALSE, asked |-> TRUE]]
      PROVE  /\ \A t \in Servers \ {s} : sock'[t] = sock[t]
             /\ sock'[s].bound.host = Kernel(addr).host
             /\ Kernel(addr).port \in {0, sock'[s].bound.port}
             /\ ~sock'[s].listens
  BY <1>3, <1>4, FreeFacts DEF TypeOK
<1>5. /\ \A t \in Servers \ {s} : sock'[t] = sock[t]
      /\ \/ sock' = sock
         \/ /\ sock'[s].bound.host = Kernel(addr).host
            /\ Kernel(addr).port \in {0, sock'[s].bound.port}
            /\ ~sock'[s].listens
  BY <1>2, <1>4 DEF Bind
<1>6. server[s].place = "none" /\ UNCHANGED <<conn, held, failed>>
  BY DEF NewServer
<1> QED
  BY <1>1, <1>5, <1>6 DEF TypeOK, Server

LEMMA StartFacts ==
    ASSUME TypeOK, NEW s \in Servers, Start(s)
    PROVE  /\ server[s].place = "made" /\ ~server[s].listening
           /\ server'[s].place = "made" /\ server'[s].listening
           /\ server'[s].given = server[s].given /\ server'[s].name = server[s].name
           /\ server'[s].nextId = server[s].nextId /\ server'[s].map = server[s].map
           /\ server'[s].accepted = server[s].accepted
           /\ \A t \in Servers \ {s} : server'[t] = server[t] /\ sock'[t] = sock[t]
           /\ \/ sock' = sock
              \/ /\ sock'[s].bound.host = sock[s].bound.host
                 /\ sock[s].bound.port \in {0, sock'[s].bound.port}
                 /\ sock'[s].asked = sock[s].asked
           /\ UNCHANGED <<conn, held, failed>>
<1>1. /\ server' = [server EXCEPT ![s].listening = TRUE]
      /\ Listen(s)
      /\ server[s].place = "made" /\ ~server[s].listening
      /\ UNCHANGED <<conn, held, failed>>
  BY DEF Start, IsListenning
<1>2. sock[s] \in Socket /\ sock[s].bound \in Address
  BY DEF TypeOK, Socket
<1>3. ASSUME NEW a \in Free(s, sock[s].bound),
             sock' = [sock EXCEPT ![s].bound = a, ![s].listens = TRUE]
      PROVE  /\ \A t \in Servers \ {s} : sock'[t] = sock[t]
             /\ sock'[s].bound.host = sock[s].bound.host
             /\ sock[s].bound.port \in {0, sock'[s].bound.port}
             /\ sock'[s].asked = sock[s].asked
  BY <1>2, <1>3, FreeFacts DEF TypeOK, Socket
<1>4. /\ \A t \in Servers \ {s} : sock'[t] = sock[t]
      /\ \/ sock' = sock
         \/ /\ sock'[s].bound.host = sock[s].bound.host
            /\ sock[s].bound.port \in {0, sock'[s].bound.port}
            /\ sock'[s].asked = sock[s].asked
  BY <1>1, <1>3 DEF Listen
<1> QED
  BY <1>1, <1>4 DEF TypeOK, Server

LEMMA PeerConnectsFacts ==
    ASSUME TypeOK, NEW c \in Conns, NEW s \in Servers, NEW dest, NEW source,
           PeerConnects(c, s, dest, source)
    PROVE  /\ conn[c].place = "none"
           /\ conn'[c].place = "waiting" /\ conn'[c].server = s
           /\ conn'[c].dest = dest /\ conn'[c].source = source
           /\ \A d \in Conns \ {c} : conn'[d] = conn[d]
           /\ sock[s].listens /\ Same(sock[s].bound, dest)
           /\ UNCHANGED <<server, sock, held, failed>>
BY DEF PeerConnects, NoConn, TypeOK

LEMMA NewConnectionFacts ==
    ASSUME TypeOK, NEW s \in Servers, NEW c \in Conns, NewConnection(s, c)
    PROVE  LET id == server[s].nextId
               old == Entries(s, id)
           IN /\ server[s].place = "made" /\ conn[c].place = "waiting" /\ conn[c].server = s
              /\ server'[s].place = "made" /\ server'[s].listening = server[s].listening
              /\ server'[s].given = server[s].given /\ server'[s].name = server[s].name
              /\ server'[s].nextId = NextConnId(id)
              /\ server'[s].map = (server[s].map \ old) \cup {<<id, c>>}
              /\ server'[s].accepted = server[s].accepted + 1
              /\ \A t \in Servers \ {s} : server'[t] = server[t]
              /\ conn'[c].place = "up" /\ conn'[c].server = s /\ conn'[c].id = id
              /\ conn'[c].dest = conn[c].dest /\ conn'[c].source = conn[c].source
              /\ conn'[c].local = FromKernel(conn[c].dest)
              /\ conn'[c].peer = FromKernel(conn[c].source)
              /\ \A d \in Conns \ {c} : conn'[d] = LostIn({e[2] : e \in old}, d)
              /\ UNCHANGED <<sock, held, failed>>
<1> DEFINE id == server[s].nextId
           old == Entries(s, id)
           m == (server[s].map \ old) \cup {<<id, c>>}
           r == [server[s] EXCEPT !.map = m, !.nextId = NextConnId(id),
                                  !.accepted = server[s].accepted + 1]
           k == [conn[c] EXCEPT !.place = "up", !.id = id,
                                !.peer = PeerAddr(c), !.local = GetLocalAddr(c)]
           cs == {e[2] : e \in old}
<1>1. /\ server' = [server EXCEPT ![s] = r]
      /\ server[s].place = "made" /\ conn[c].place = "waiting" /\ conn[c].server = s
      /\ UNCHANGED <<sock, held, failed>>
  BY DEF NewConnection
<1>2. conn' = [d \in Conns |-> IF d = c THEN k ELSE LostIn(cs, d)]
  BY Zenon DEF NewConnection
<1> HIDE DEF cs, id, old
<1>3. /\ server'[s].place = "made" /\ server'[s].listening = server[s].listening
      /\ server'[s].given = server[s].given /\ server'[s].name = server[s].name
      /\ server'[s].nextId = NextConnId(id)
      /\ server'[s].map = m
      /\ server'[s].accepted = server[s].accepted + 1
      /\ \A t \in Servers \ {s} : server'[t] = server[t]
  BY <1>1 DEF TypeOK, Server
<1>4. /\ conn'[c].place = "up" /\ conn'[c].server = s /\ conn'[c].id = id
      /\ conn'[c].dest = conn[c].dest /\ conn'[c].source = conn[c].source
      /\ conn'[c].local = FromKernel(conn[c].dest)
      /\ conn'[c].peer = FromKernel(conn[c].source)
      /\ \A d \in Conns \ {c} : conn'[d] = LostIn(cs, d)
  BY <1>1, <1>2 DEF TypeOK, Connection, PeerAddr, GetLocalAddr
<1> QED
  BY <1>1, <1>3, <1>4 DEF cs, id, old

LEMMA RemoveConnectionFacts ==
    ASSUME TypeOK, NEW c \in Conns, RemoveConnection(c), conn[c].server \in Servers
    PROVE  LET s == conn[c].server
               old == Entries(s, conn[c].id)
           IN /\ conn[c].place = "up" /\ server[s].place = "made"
              /\ old = {} => failed' = TRUE /\ UNCHANGED <<server, conn>>
              /\ old # {} =>
                    /\ server'[s].place = "made" /\ server'[s].listening = server[s].listening
                    /\ server'[s].given = server[s].given /\ server'[s].name = server[s].name
                    /\ server'[s].nextId = server[s].nextId
                    /\ server'[s].map = server[s].map \ old
                    /\ server'[s].accepted = server[s].accepted
                    /\ \A t \in Servers \ {s} : server'[t] = server[t]
                    /\ conn'[c].place = "gone" /\ conn'[c].server = s
                    /\ conn'[c].dest = conn[c].dest
                    /\ \A d \in Conns \ {c} : conn'[d] = LostIn({e[2] : e \in old}, d)
                    /\ UNCHANGED failed
              /\ UNCHANGED <<sock, held>>
<1> DEFINE s == conn[c].server
           old == Entries(s, conn[c].id)
           cs == {e[2] : e \in old}
<1>1. /\ conn[c].place = "up" /\ server[s].place = "made"
      /\ old = {} => failed' = TRUE /\ UNCHANGED <<server, conn>>
      /\ old # {} => server' = [server EXCEPT ![s].map = @ \ old] /\ UNCHANGED failed
      /\ UNCHANGED <<sock, held>>
  BY DEF RemoveConnection
<1>2. old # {} => conn' = [d \in Conns |-> IF d = c THEN [conn[c] EXCEPT !.place = "gone"]
                                           ELSE LostIn(cs, d)]
  BY Zenon DEF RemoveConnection
<1> HIDE DEF cs, old
<1>3. old # {} =>
        /\ server'[s].place = "made" /\ server'[s].listening = server[s].listening
        /\ server'[s].given = server[s].given /\ server'[s].name = server[s].name
        /\ server'[s].nextId = server[s].nextId
        /\ server'[s].map = server[s].map \ old
        /\ server'[s].accepted = server[s].accepted
        /\ \A t \in Servers \ {s} : server'[t] = server[t]
  BY <1>1 DEF TypeOK, Server
<1>4. old # {} =>
        /\ conn'[c].place = "gone" /\ conn'[c].server = s
        /\ conn'[c].dest = conn[c].dest
        /\ \A d \in Conns \ {c} : conn'[d] = LostIn(cs, d)
  BY <1>2 DEF TypeOK, Connection
<1> QED
  BY <1>1, <1>3, <1>4 DEF cs, old

LEMMA DestroyServerFacts ==
    ASSUME TypeOK, NEW s \in Servers, DestroyServer(s)
    PROVE  /\ server[s].place = "made"
           /\ server'[s].place = "gone" /\ server'[s].map = {}
           /\ server'[s].nextId = server[s].nextId
           /\ server'[s].accepted = server[s].accepted
           /\ \A t \in Servers \ {s} : server'[t] = server[t] /\ sock'[t] = sock[t]
           /\ ~sock'[s].listens /\ ~sock'[s].asked
           /\ \A c \in Conns :
                 \/ conn[c].server # s /\ conn'[c] = conn[c]
                 \/ /\ conn[c].server = s /\ conn'[c].server = s
                    /\ conn'[c].place = "gone" /\ conn'[c].dest = conn[c].dest
           /\ UNCHANGED <<held, failed>>
<1>1. /\ server' = [server EXCEPT ![s] = [server[s] EXCEPT !.place = "gone", !.map = {}]]
      /\ sock' = [sock EXCEPT ![s] = NewSocket]
      /\ server[s].place = "made" /\ UNCHANGED <<held, failed>>
  BY DEF DestroyServer, Close
<1>2. conn' = [c \in Conns |-> IF conn[c].server = s THEN [conn[c] EXCEPT !.place = "gone"]
                               ELSE conn[c]]
  BY DEF DestroyServer
<1>3. \A c \in Conns :
        \/ conn[c].server # s /\ conn'[c] = conn[c]
        \/ /\ conn[c].server = s /\ conn'[c].server = s
           /\ conn'[c].place = "gone" /\ conn'[c].dest = conn[c].dest
  BY <1>2 DEF TypeOK, Connection
<1>4. /\ server'[s].place = "gone" /\ server'[s].map = {}
      /\ server'[s].nextId = server[s].nextId
      /\ server'[s].accepted = server[s].accepted
      /\ \A t \in Servers \ {s} : server'[t] = server[t] /\ sock'[t] = sock[t]
      /\ ~sock'[s].listens /\ ~sock'[s].asked
  BY <1>1 DEF TypeOK, Server, NewSocket
<1> QED
  BY <1>1, <1>3, <1>4

LEMMA ReleaseFacts ==
    ASSUME TypeOK, NEW c \in Conns, Release(c)
    PROVE  /\ held' = held \ {c}
           /\ \/ conn' = conn
              \/ /\ conn[c].place = "up"
                 /\ <<conn[c].id, c>> \notin server[conn[c].server].map
                 /\ conn'[c].place = "lost" /\ conn'[c].server = conn[c].server
                 /\ conn'[c].dest = conn[c].dest
                 /\ \A d \in Conns \ {c} : conn'[d] = conn[d]
           /\ UNCHANGED <<server, sock, failed>>
BY DEF Release, TypeOK, Connection
-----------------------------------------------------------------------------
(* The addresses. *)

LEMMA InitAddresses == Init => AddressInv
BY DEF Init, AddressInv, SocketInv, ReachInv, Reaches, Up, NewSocket, NoConn

(* What SocketInv says of a server and its socket stays true of them. *)
LEMMA SocketKept ==
    ASSUME NEW t \in Servers, SocketInv(t), server'[t] = server[t], sock'[t] = sock[t]
    PROVE  SocketInv(t)'
BY DEF SocketInv

(* A new CTcpServer: its name shows the port as the kernel reads it. *)
LEMMA NewServerAddresses ==
    ASSUME TypeOK, AddressInv, NEW s \in Servers, NEW n \in Numbers, NEW addr \in Address,
           addr.port = HostToNetwork16(n), NewServer(s, addr, n)
    PROVE  AddressInv'
<1>1. n % (Base * Base) \in Ports /\ n \in Nat
  BY PortFacts
<1>2. /\ ToHostPort(addr).host = addr.host /\ Kernel(addr).host = addr.host
      /\ ToHostPort(addr).port = n % (Base * Base)
      /\ Kernel(addr).port = n % (Base * Base)
  BY <1>1, PortFacts DEF ToHostPort, Kernel, NetworkToHost16
<1>3. ~sock[s].listens
  BY NewServerFacts DEF AddressInv, SocketInv
<1>4. SocketInv(s)'
  <2>1. CASE sock' = sock
    <3>1. ~sock[s].asked
      BY NewServerFacts DEF AddressInv, SocketInv
    <3> QED
      BY <1>3, <2>1, <3>1 DEF SocketInv
  <2>2. CASE /\ sock'[s].bound.host = Kernel(addr).host
             /\ Kernel(addr).port \in {0, sock'[s].bound.port}
             /\ ~sock'[s].listens
    BY <1>2, <2>2, NewServerFacts DEF SocketInv
  <2> QED
    BY <2>1, <2>2, NewServerFacts
<1>5. ASSUME NEW t \in Servers, t # s
      PROVE  SocketInv(t)'
  BY <1>5, NewServerFacts DEF AddressInv, SocketInv
<1>6. ASSUME NEW c \in Conns
      PROVE  ReachInv(c)'
  <2>1. conn' = conn
    BY NewServerFacts
  <2>2. ASSUME NEW t \in Servers, Reaches(c, t)
        PROVE  sock'[t].listens /\ Same(sock'[t].bound, conn[c].dest)
    <3>1. t # s
      BY <1>3, <2>2 DEF AddressInv, ReachInv
    <3>2. sock'[t] = sock[t]
      BY <3>1, NewServerFacts
    <3> QED
      BY <2>2, <3>2 DEF AddressInv, ReachInv
  <2> QED
    BY <2>1, <2>2 DEF AddressInv, ReachInv, Reaches, Up
<1> QED
  BY <1>4, <1>5, <1>6 DEF AddressInv

(* listen(2): a server that did not listen reaches nobody yet. *)
LEMMA StartAddresses ==
    ASSUME TypeOK, AddressInv, NEW s \in Servers, Start(s)
    PROVE  AddressInv'
<1>1. ~sock[s].listens
  BY StartFacts DEF AddressInv, SocketInv
<1>2. SocketInv(s)'
  <2>1. CASE sock' = sock
    BY <1>1, <2>1, StartFacts DEF AddressInv, SocketInv
  <2>2. CASE /\ sock'[s].bound.host = sock[s].bound.host
             /\ sock[s].bound.port \in {0, sock'[s].bound.port}
             /\ sock'[s].asked = sock[s].asked
    BY <2>2, StartFacts DEF AddressInv, SocketInv
  <2> QED
    BY <2>1, <2>2, StartFacts
<1>3. ASSUME NEW t \in Servers, t # s
      PROVE  SocketInv(t)'
  BY <1>3, StartFacts DEF AddressInv, SocketInv
<1>4. ASSUME NEW c \in Conns
      PROVE  ReachInv(c)'
  <2>1. ASSUME NEW t \in Servers, Reaches(c, t)
        PROVE  sock'[t].listens /\ Same(sock'[t].bound, conn[c].dest)
    <3>1. t # s
      BY <1>1, <2>1 DEF AddressInv, ReachInv
    <3> QED
      BY <2>1, <3>1, StartFacts DEF AddressInv, ReachInv
  <2> QED
    BY <2>1, StartFacts DEF AddressInv, ReachInv, Reaches, Up
<1> QED
  BY <1>2, <1>3, <1>4 DEF AddressInv

LEMMA PeerConnectsAddresses ==
    ASSUME TypeOK, AddressInv, NEW c \in Conns, NEW s \in Servers, NEW dest, NEW source,
           dest.host \in Hosts, PeerConnects(c, s, dest, source)
    PROVE  AddressInv'
<1>1. \A t \in Servers : SocketInv(t)'
  BY PeerConnectsFacts DEF AddressInv, SocketInv
<1>2. ReachInv(c)'
  BY PeerConnectsFacts DEF ReachInv, Reaches, Up
<1>3. ASSUME NEW d \in Conns, d # c
      PROVE  ReachInv(d)'
  BY <1>3, PeerConnectsFacts DEF AddressInv, ReachInv, Reaches, Up
<1> QED
  BY <1>1, <1>2, <1>3 DEF AddressInv

(* A connection that may have been lost keeps what ReachInv says. *)
LEMMA LostReaches ==
    ASSUME TypeOK, NEW d \in Conns, ReachInv(d), NEW cs, sock' = sock,
           conn'[d] = LostIn(cs, d)
    PROVE  ReachInv(d)'
<1> DEFINE r == LostIn(cs, d)
<1>1. /\ r.server = conn[d].server /\ r.dest = conn[d].dest /\ r.source = conn[d].source
      /\ r.local = conn[d].local /\ r.peer = conn[d].peer
      /\ \/ r.place = conn[d].place
         \/ r.place = "lost"
  BY LostFacts
<1> HIDE DEF r
<1>2. conn'[d] = r
  BY DEF r
<1> QED
  BY <1>1, <1>2 DEF ReachInv, Reaches, Up

LEMMA NewConnectionAddresses ==
    ASSUME TypeOK, AddressInv, NEW s \in Servers, NEW c \in Conns, NewConnection(s, c)
    PROVE  AddressInv'
<1> DEFINE cs == {e[2] : e \in Entries(s, server[s].nextId)}
<1>1. ReachInv(c)'
  BY NewConnectionFacts DEF AddressInv, ReachInv, Reaches, Up
<1>2. ASSUME NEW d \in Conns, d # c
      PROVE  ReachInv(d)'
  <2>1. conn'[d] = LostIn(cs, d) /\ sock' = sock
    BY <1>2, NewConnectionFacts
  <2> HIDE DEF cs
  <2> QED
    BY <2>1, LostReaches DEF AddressInv
<1>3. \A t \in Servers : SocketInv(t)'
  BY NewConnectionFacts DEF AddressInv, SocketInv
<1> QED
  BY <1>1, <1>2, <1>3 DEF AddressInv

(* The server of a connection that is up is one. *)
LEMMA UpHasServer ==
    ASSUME AddressInv, NEW c \in Conns, Up(c)
    PROVE  conn[c].server \in Servers
BY DEF AddressInv, ReachInv, Up

LEMMA RemoveConnectionAddresses ==
    ASSUME TypeOK, AddressInv, NEW c \in Conns, RemoveConnection(c)
    PROVE  AddressInv'
<1> DEFINE s == conn[c].server
           old == Entries(s, conn[c].id)
           cs == {e[2] : e \in old}
<1>1. s \in Servers
  BY UpHasServer DEF RemoveConnection, Up
<1>2. CASE old = {}
  <2>1. UNCHANGED <<server, conn, sock>>
    BY <1>1, <1>2, RemoveConnectionFacts
  <2> QED
    BY <2>1 DEF AddressInv, SocketInv, ReachInv, Reaches, Up
<1>3. CASE old # {}
  <2>1. /\ sock' = sock
        /\ conn'[c].place = "gone" /\ conn'[c].server = s /\ conn'[c].dest = conn[c].dest
        /\ conn[c].place = "up"
        /\ \A d \in Conns \ {c} : conn'[d] = LostIn(cs, d)
    BY <1>1, <1>3, RemoveConnectionFacts
  <2>2. ReachInv(c)'
    BY <2>1 DEF AddressInv, ReachInv, Reaches, Up
  <2>3. \A t \in Servers : SocketInv(t)'
    <3>1. /\ server'[s].place = "made" /\ server'[s].listening = server[s].listening
          /\ server'[s].given = server[s].given /\ server'[s].name = server[s].name
          /\ \A t \in Servers \ {s} : server'[t] = server[t]
          /\ server[s].place = "made"
      BY <1>1, <1>3, RemoveConnectionFacts
    <3>2. ASSUME NEW t \in Servers, t = s
          PROVE  SocketInv(t)'
      BY <2>1, <3>1, <3>2 DEF AddressInv, SocketInv
    <3>3. ASSUME NEW t \in Servers, t # s
          PROVE  SocketInv(t)'
      <4>1. SocketInv(t)
        BY DEF AddressInv
      <4>2. server'[t] = server[t] /\ sock'[t] = sock[t]
        BY <2>1, <3>1, <3>3
      <4> QED
        BY <4>1, <4>2, SocketKept
    <3> QED
      BY <3>2, <3>3
  <2> HIDE DEF cs
  <2>4. ASSUME NEW d \in Conns, d # c
        PROVE  ReachInv(d)'
    BY <2>1, <2>4, LostReaches DEF AddressInv
  <2> QED
    BY <2>2, <2>3, <2>4 DEF AddressInv
<1> QED
  BY <1>2, <1>3

LEMMA DestroyServerAddresses ==
    ASSUME TypeOK, AddressInv, NEW s \in Servers, DestroyServer(s)
    PROVE  AddressInv'
<1>1. ASSUME NEW t \in Servers
      PROVE  SocketInv(t)'
  BY <1>1, DestroyServerFacts DEF AddressInv, SocketInv
<1>2. ASSUME NEW c \in Conns
      PROVE  ReachInv(c)'
  <2>1. CASE conn[c].server # s /\ conn'[c] = conn[c]
    BY <2>1, DestroyServerFacts DEF AddressInv, ReachInv, Reaches, Up
  <2>2. CASE /\ conn[c].server = s /\ conn'[c].server = s
             /\ conn'[c].place = "gone" /\ conn'[c].dest = conn[c].dest
    BY <2>2 DEF ReachInv, Reaches, Up
  <2> QED
    BY <2>1, <2>2, DestroyServerFacts
<1> QED
  BY <1>1, <1>2 DEF AddressInv

LEMMA ReleaseAddresses ==
    ASSUME TypeOK, AddressInv, NEW c \in Conns, Release(c)
    PROVE  AddressInv'
<1>1. UNCHANGED <<server, sock>>
  BY DEF Release
<1>2. \A t \in Servers : SocketInv(t)'
  BY <1>1 DEF AddressInv, SocketInv
<1>3. ASSUME NEW d \in Conns
      PROVE  ReachInv(d)'
  <2>1. ReachInv(d)
    BY DEF AddressInv
  <2>2. CASE conn'[d] = conn[d]
    BY <1>1, <2>1, <2>2 DEF ReachInv, Reaches, Up
  <2>3. CASE conn'[d].place = "lost"
    BY <2>3 DEF ReachInv, Reaches, Up
  <2> QED
    BY <2>2, <2>3, ReleaseFacts
<1> QED
  BY <1>2, <1>3 DEF AddressInv

LEMMA AddressesStep ==
    ASSUME TypeOK, AddressInv, [Next]_vars
    PROVE  AddressInv'
<1>1. ASSUME NEW s \in Servers, NEW n \in Numbers, NewServer(s, AnyHost(n), n)
      PROVE  AddressInv'
  <2>1. AnyHost(n).port = HostToNetwork16(n) /\ AnyHost(n) \in Address
    BY AddressTypes DEF AnyHost
  <2> QED
    BY <1>1, <2>1, NewServerAddresses
<1>2. ASSUME NEW s \in Servers, NEW text \in Texts, NEW n \in Numbers,
             NewServer(s, FromHostPort(text, n), n)
      PROVE  AddressInv'
  <2>1. /\ FromHostPort(text, n).port = HostToNetwork16(n)
        /\ FromHostPort(text, n) \in Address
    BY AddressTypes DEF FromHostPort
  <2> QED
    BY <1>2, <2>1, NewServerAddresses
<1>3. ASSUME NEW c \in Conns, NEW s \in Servers, NEW h \in Hosts, NEW p \in Ports,
             NEW source \in Sources, PeerConnects(c, s, [host |-> h, port |-> p], source)
      PROVE  AddressInv'
  BY <1>3, PeerConnectsAddresses
<1>4. ASSUME NEW c \in Conns, Hold(c)
      PROVE  AddressInv'
  BY <1>4 DEF Hold, AddressInv, SocketInv, ReachInv, Reaches, Up
<1>5. CASE UNCHANGED vars
  BY <1>5 DEF vars, AddressInv, SocketInv, ReachInv, Reaches, Up
<1> QED
  BY <1>1, <1>2, <1>3, <1>4, <1>5, StartAddresses, NewConnectionAddresses,
     RemoveConnectionAddresses, DestroyServerAddresses, ReleaseAddresses DEF Next
-----------------------------------------------------------------------------
(* The names. *)

LEMMA InitNames == Init => NameInv
<1> SUFFICES ASSUME Init PROVE NameInv
  OBVIOUS
<1>1. \A s \in Servers : server[s] = NoServer
  BY DEF Init
<1>2. \A c \in Conns : ~Up(c)
  BY DEF Init, Up, NoConn
<1>3. (1 + 0) % IdRange = 1
  BY SMT
<1>4. /\ NoServer.map = {} /\ NoServer.nextId = 1 /\ NoServer.accepted = 0
  BY DEF NoServer
<1>5. \A s \in Servers : OwnConns(s) /\ Table(s)
  BY <1>1, <1>2, <1>3, <1>4 DEF OwnConns, Table
<1> QED
  BY <1>1, <1>4, <1>5 DEF NameInv, FailedInv, Init

(* In a table, the entries under the number of a connection are its own. *)
LEMMA TableEntries ==
    ASSUME TypeOK, NEW s \in Servers, Table(s), server[s].accepted <= IdRange,
           NEW c \in Conns, Up(c), conn[c].server = s
    PROVE  Entries(s, conn[c].id) = {<<conn[c].id, c>>}
<1>1. <<conn[c].id, c>> \in server[s].map
  BY DEF Table
<1>2. \A e \in server[s].map : e[1] = conn[c].id => e = <<conn[c].id, c>>
  BY <1>1 DEF Table
<1> QED
  BY <1>1, <1>2 DEF Entries

(* A number that was not given yet has no entry. *)
LEMMA FreshNumber ==
    ASSUME TypeOK, NEW s \in Servers, Table(s), server[s].accepted < IdRange
    PROVE  /\ Entries(s, server[s].nextId) = {}
           /\ server[s].nextId \notin Given(s)
<1>1. server[s].accepted \in Nat
  BY DEF TypeOK, Server
<1>2. server[s].nextId \notin Given(s)
  BY <1>1, NumbersDiffer DEF Table, Given
<1>3. \A e \in server[s].map : e[1] \in Given(s)
  BY <1>1 DEF Table
<1> QED
  BY <1>2, <1>3 DEF Entries

(* A step that touches neither maps, nor numbers, nor connections. *)
LEMMA NamesUntouched ==
    ASSUME NameInv, conn' = conn, failed' = failed,
           \A t \in Servers : /\ server'[t].map = server[t].map
                              /\ server'[t].nextId = server[t].nextId
                              /\ server'[t].accepted = server[t].accepted
    PROVE  NameInv'
<1>1. \A t \in Servers : Given(t)' = Given(t)
  BY DEF Given
<1> QED
  BY <1>1 DEF NameInv, OwnConns, Table, FailedInv, Up

LEMMA NewServerNames ==
    ASSUME TypeOK, NameInv, NEW s \in Servers, NEW n \in Numbers, NEW addr \in Address,
           NewServer(s, addr, n)
    PROVE  NameInv'
<1>1. conn' = conn /\ failed' = failed
  BY NewServerFacts
<1>2. \A t \in Servers : /\ server'[t].map = server[t].map
                         /\ server'[t].nextId = server[t].nextId
                         /\ server'[t].accepted = server[t].accepted
  BY NewServerFacts
<1> QED
  BY <1>1, <1>2, NamesUntouched

LEMMA StartNames ==
    ASSUME TypeOK, NameInv, NEW s \in Servers, Start(s)
    PROVE  NameInv'
<1>1. conn' = conn /\ failed' = failed
  BY StartFacts
<1>2. \A t \in Servers : /\ server'[t].map = server[t].map
                         /\ server'[t].nextId = server[t].nextId
                         /\ server'[t].accepted = server[t].accepted
  BY StartFacts
<1> QED
  BY <1>1, <1>2, NamesUntouched

(* A peer that connects is nobody's connection yet. *)
LEMMA PeerConnectsNames ==
    ASSUME TypeOK, NameInv, NEW c \in Conns, NEW s \in Servers, NEW dest, NEW source,
           PeerConnects(c, s, dest, source)
    PROVE  NameInv'
<1>1. /\ conn[c].place = "none" /\ conn'[c].place = "waiting"
      /\ \A d \in Conns \ {c} : conn'[d] = conn[d]
      /\ UNCHANGED <<server, failed>>
  BY PeerConnectsFacts
<1>2. \A t \in Servers : \A e \in server[t].map : e[2] \in Conns
  BY DEF TypeOK, Server
<1>3. ASSUME NEW t \in Servers
      PROVE  OwnConns(t)' /\ Table(t)'
  <2>1. \A e \in server[t].map : e[2] # c
    BY <1>1 DEF NameInv, OwnConns
  <2>2. \A d \in Conns : Up(d)' <=> Up(d)
    BY <1>1 DEF Up
  <2>3. \A d \in Conns : Up(d) => conn'[d] = conn[d]
    BY <1>1 DEF Up
  <2>4. OwnConns(t) /\ Table(t)
    BY DEF NameInv
  <2>5. OwnConns(t)'
    BY <1>1, <1>2, <2>1, <2>4 DEF OwnConns
  <2>6. Given(t)' = Given(t)
    BY <1>1 DEF Given
  <2>7. Table(t)'
    BY <1>1, <1>2, <2>2, <2>3, <2>4, <2>6 DEF Table
  <2> QED
    BY <2>5, <2>7
<1> QED
  BY <1>1, <1>3 DEF NameInv, FailedInv

LEMMA NewConnectionNames ==
    ASSUME TypeOK, NameInv, NEW s \in Servers, NEW c \in Conns, NewConnection(s, c)
    PROVE  NameInv'
<1> DEFINE id == server[s].nextId
           old == Entries(s, id)
           cs == {e[2] : e \in old}
           n == server[s].accepted
<1>1. /\ conn[c].place = "waiting" /\ conn[c].server = s
      /\ server'[s].nextId = NextConnId(id)
      /\ server'[s].map = (server[s].map \ old) \cup {<<id, c>>}
      /\ server'[s].accepted = n + 1
      /\ \A t \in Servers \ {s} : server'[t] = server[t]
      /\ conn'[c].place = "up" /\ conn'[c].server = s /\ conn'[c].id = id
      /\ \A d \in Conns \ {c} : conn'[d] = LostIn(cs, d)
      /\ failed' = failed
  BY NewConnectionFacts
<1>2. n \in Nat /\ id \in Ids
  BY DEF TypeOK, Server
<1>3. \A t \in Servers : \A e \in server[t].map : e[2] \in Conns /\ e[2] # c
  BY <1>1 DEF TypeOK, Server, NameInv, OwnConns
<1>4. \A d \in cs : d \in Conns /\ conn[d].server = s
  BY DEF TypeOK, Server, NameInv, OwnConns, Entries
<1> HIDE DEF id, old, cs, n
<1>5. \A d \in Conns \ {c} :
        /\ conn'[d].server = conn[d].server /\ conn'[d].id = conn[d].id
        /\ \/ conn'[d].place = conn[d].place
           \/ conn'[d].place = "lost" /\ d \in cs
  BY <1>1, LostFacts
<1>6. ASSUME NEW t \in Servers
      PROVE  OwnConns(t)'
  <2>1. \A e \in server[t].map :
          conn[e[2]].server = t /\ conn[e[2]].place \notin {"none", "waiting"}
    BY DEF NameInv, OwnConns
  <2>2. \A e \in server[t].map :
          conn'[e[2]].server = t /\ conn'[e[2]].place \notin {"none", "waiting"}
    BY <1>3, <1>5, <2>1
  <2>3. CASE t = s
    BY <1>1, <2>2, <2>3 DEF OwnConns
  <2>4. CASE t # s
    BY <1>1, <2>2, <2>4 DEF OwnConns
  <2> QED
    BY <2>3, <2>4
<1>7. ASSUME NEW t \in Servers, t # s
      PROVE  Table(t)'
  <2>1. server'[t] = server[t] /\ Table(t)
    BY <1>1, <1>7 DEF NameInv
  <2>2. \A d \in Conns : conn[d].server = t \/ conn'[d].server = t =>
          conn'[d].place = conn[d].place /\ conn'[d].id = conn[d].id /\ conn'[d].server = t
    BY <1>1, <1>4, <1>5, <1>7
  <2>3. \A e \in server[t].map : e[2] \in Conns /\ conn[e[2]].server = t
    BY <1>3 DEF NameInv, OwnConns
  <2>4. Given(t)' = Given(t)
    BY <2>1 DEF Given
  <2> QED
    BY <1>5, <1>1, <1>7, <2>1, <2>2, <2>3, <2>4 DEF Table, Up
<1>8. Table(s)'
  <2>1. Table(s)
    BY DEF NameInv
  <2>2. server'[s].nextId = (1 + server'[s].accepted) % IdRange
    BY <1>1, <1>2, <2>1, NextNumber DEF Table, n, id
  <2>3. ASSUME n < IdRange
        PROVE  /\ \A e \in server'[s].map :
                     Up(e[2])' /\ e[1] = conn'[e[2]].id /\ e[1] \in Given(s)'
               /\ \A d \in Conns : Up(d)' /\ conn'[d].server = s =>
                     <<conn'[d].id, d>> \in server'[s].map
               /\ \A e, f \in server'[s].map : e[1] = f[1] => e = f
    <3>1. old = {} /\ id \notin Given(s)
      BY <2>1, <2>3, FreshNumber DEF old, id, n
    <3>2. cs = {}
      BY <3>1 DEF cs
    <3>3. \A d \in Conns \ {c} : conn'[d].place = conn[d].place
      BY <1>5, <3>2
    <3>4. id \in Given(s)' /\ Given(s) \subseteq Given(s)'
      BY <1>1, <1>2, <2>1 DEF Given, Table, n, id
    <3>5. server'[s].map = server[s].map \cup {<<id, c>>}
      BY <1>1, <3>1
    <3>6. n <= IdRange
      BY <1>2, <2>3
    <3>7. /\ \A e \in server[s].map : Up(e[2]) /\ e[1] = conn[e[2]].id /\ e[1] \in Given(s)
          /\ \A d \in Conns : Up(d) /\ conn[d].server = s => <<conn[d].id, d>> \in server[s].map
          /\ \A e, f \in server[s].map : e[1] = f[1] => e = f
      BY <2>1, <3>6 DEF Table, n
    <3>8. \A e \in server[s].map : Up(e[2])' /\ e[1] = conn'[e[2]].id /\ e[1] \in Given(s)'
      BY <1>3, <1>5, <3>3, <3>4, <3>7 DEF Up
    <3>9. \A e \in server'[s].map : Up(e[2])' /\ e[1] = conn'[e[2]].id /\ e[1] \in Given(s)'
      BY <1>1, <3>4, <3>5, <3>8 DEF Up
    <3>10. \A d \in Conns : Up(d)' /\ conn'[d].server = s => <<conn'[d].id, d>> \in server'[s].map
      BY <1>1, <1>5, <3>3, <3>5, <3>7 DEF Up
    <3>11. \A e \in server[s].map : e[1] # id
      BY <3>1, <3>7
    <3>12. \A e, f \in server'[s].map : e[1] = f[1] => e = f
      BY <3>5, <3>7, <3>11
    <3> QED
      BY <3>9, <3>10, <3>12
  <2>4. server'[s].accepted <= IdRange => n < IdRange
    BY <1>1, <1>2
  <2> QED
    BY <2>2, <2>3, <2>4 DEF Table
<1>9. FailedInv'
  BY <1>1, <1>2 DEF NameInv, FailedInv, TypeOK, Server, n
<1>10. \A t \in Servers : OwnConns(t)' /\ Table(t)'
  BY <1>6, <1>7, <1>8
<1> QED
  BY <1>9, <1>10 DEF NameInv

LEMMA RemoveConnectionNames ==
    ASSUME TypeOK, NameInv, NEW c \in Conns, RemoveConnection(c), conn[c].server \in Servers
    PROVE  NameInv'
<1> DEFINE s == conn[c].server
           id == conn[c].id
           old == Entries(s, id)
           cs == {e[2] : e \in old}
<1>1. /\ conn[c].place = "up"
      /\ old = {} => failed' = TRUE /\ UNCHANGED <<server, conn>>
      /\ old # {} =>
            /\ server'[s].map = server[s].map \ old
            /\ server'[s].nextId = server[s].nextId
            /\ server'[s].accepted = server[s].accepted
            /\ \A t \in Servers \ {s} : server'[t] = server[t]
            /\ conn'[c].place = "gone" /\ conn'[c].server = s
            /\ \A d \in Conns \ {c} : conn'[d] = LostIn(cs, d)
            /\ failed' = failed
  BY RemoveConnectionFacts
<1>2. server[s].accepted <= IdRange => old = {<<id, c>>}
  BY <1>1, TableEntries DEF NameInv, Up
<1>3. server[s].accepted \in Nat /\ IdRange \in Nat /\ s \in Servers
  BY DEF TypeOK, Server
<1>4. \A t \in Servers : \A e \in server[t].map :
         e[2] \in Conns /\ conn[e[2]].server = t /\ conn[e[2]].place \notin {"none", "waiting"}
  BY DEF TypeOK, Server, NameInv, OwnConns
<1>5. \A d \in cs : d \in Conns /\ conn[d].server = s
  BY <1>3, <1>4 DEF Entries
<1>6. cs = {e[2] : e \in old} /\ conn[c].server = s
  OBVIOUS
<1> HIDE DEF s, id, old, cs
<1>7. CASE old = {}
  <2>1. server[s].accepted > IdRange
    <3>1. ~(server[s].accepted <= IdRange)
      BY <1>2, <1>7, Zenon
    <3> QED
      BY <1>3, <3>1
  <2>2. \A t \in Servers : OwnConns(t)' /\ Table(t)'
    <3>1. \A t \in Servers : Given(t)' = Given(t)
      BY <1>1, <1>7 DEF Given
    <3> QED
      BY <1>1, <1>7, <3>1 DEF NameInv, OwnConns, Table, Up
  <2>3. FailedInv'
    BY <1>1, <1>3, <1>7, <2>1 DEF FailedInv
  <2> QED
    BY <2>2, <2>3 DEF NameInv
<1>8. CASE old # {}
  <2>1. \A d \in Conns \ {c} :
          /\ conn'[d].server = conn[d].server /\ conn'[d].id = conn[d].id
          /\ \/ conn'[d].place = conn[d].place
             \/ conn'[d].place = "lost" /\ d \in cs
    BY <1>1, <1>8, LostFacts
  <2>2. ASSUME NEW t \in Servers
        PROVE  OwnConns(t)'
    <3>1. server'[t].map \subseteq server[t].map
      BY <1>1, <1>8
    <3>2. \A e \in server[t].map :
            conn'[e[2]].server = t /\ conn'[e[2]].place \notin {"none", "waiting"}
      BY <1>1, <1>4, <1>6, <1>8, <2>1
    <3> QED
      BY <3>1, <3>2 DEF OwnConns
  <2>3. ASSUME NEW t \in Servers, t # s
        PROVE  Table(t)'
    <3>1. server'[t] = server[t] /\ Table(t)
      BY <1>1, <1>8, <2>3 DEF NameInv
    <3>2. \A d \in Conns : conn[d].server = t \/ conn'[d].server = t =>
            conn'[d].place = conn[d].place /\ conn'[d].id = conn[d].id /\ conn'[d].server = t
      BY <1>1, <1>5, <1>6, <1>8, <2>1, <2>3
    <3>3. \A d \in Conns : conn'[d].server = t => conn[d].server = t
      BY <1>1, <1>6, <1>8, <2>1, <2>3
    <3>4. Given(t)' = Given(t)
      BY <3>1 DEF Given
    <3> QED
      BY <1>4, <3>1, <3>2, <3>3, <3>4 DEF Table, Up
  <2>4. ASSUME NEW t \in Servers, t = s
        PROVE  Table(t)'
    <3>1. Table(t) /\ server'[t].nextId = server[t].nextId
          /\ server'[t].accepted = server[t].accepted
      BY <1>1, <1>8, <2>4 DEF NameInv
    <3>2. Given(t)' = Given(t)
      BY <3>1 DEF Given
    <3>3. ASSUME server[t].accepted <= IdRange
          PROVE  /\ \A e \in server'[t].map :
                       Up(e[2])' /\ e[1] = conn'[e[2]].id /\ e[1] \in Given(t)'
                 /\ \A d \in Conns : Up(d)' /\ conn'[d].server = t =>
                       <<conn'[d].id, d>> \in server'[t].map
                 /\ \A e, f \in server'[t].map : e[1] = f[1] => e = f
      <4>1. old = {<<id, c>>} /\ cs = {c}
        <5>1. old = {<<id, c>>}
          BY <1>2, <2>4, <3>3
        <5>2. \A x : x \in cs <=> x = c
          BY <1>6, <5>1
        <5> QED
          BY <5>1, <5>2
      <4>2. server'[t].map = server[t].map \ {<<id, c>>}
        BY <1>1, <1>8, <2>4, <4>1
      <4>3. \A d \in Conns \ {c} : conn'[d].place = conn[d].place
        BY <2>1, <4>1
      <4>4. /\ \A e \in server[t].map : Up(e[2]) /\ e[1] = conn[e[2]].id /\ e[1] \in Given(t)
            /\ \A d \in Conns : Up(d) /\ conn[d].server = t => <<conn[d].id, d>> \in server[t].map
            /\ \A e, f \in server[t].map : e[1] = f[1] => e = f
        BY <3>1, <3>3 DEF Table
      <4>5. \A e \in server'[t].map : e[2] # c
        <5> SUFFICES ASSUME NEW e \in server'[t].map, e[2] = c
                     PROVE  FALSE
          OBVIOUS
        <5>1. e \in server[t].map /\ e # <<id, c>>
          BY <4>2
        <5>2. e = <<e[1], e[2]>>
          BY <5>1 DEF TypeOK, Server
        <5>3. e[1] = conn[c].id
          BY <4>4, <5>1
        <5> QED
          BY <5>1, <5>2, <5>3 DEF id
      <4>6. \A e \in server'[t].map : Up(e[2])' /\ e[1] = conn'[e[2]].id /\ e[1] \in Given(t)'
        BY <1>4, <2>1, <3>2, <4>2, <4>3, <4>4, <4>5 DEF Up
      <4>7. \A d \in Conns : Up(d)' /\ conn'[d].server = t => <<conn'[d].id, d>> \in server'[t].map
        <5> SUFFICES ASSUME NEW d \in Conns, Up(d)', conn'[d].server = t
                     PROVE  <<conn'[d].id, d>> \in server'[t].map
          OBVIOUS
        <5>1. d # c
          BY <1>1, <1>8 DEF Up
        <5>2. <<conn[d].id, d>> \in server[t].map /\ conn'[d].id = conn[d].id
          BY <2>1, <4>3, <4>4, <5>1 DEF Up
        <5> QED
          BY <4>2, <5>1, <5>2
      <4> QED
        BY <4>2, <4>4, <4>6, <4>7
    <3> QED
      BY <3>1, <3>3 DEF Table
  <2>5. FailedInv'
    <3>1. \A t \in Servers : server'[t].accepted = server[t].accepted
      BY <1>1, <1>8
    <3> QED
      BY <1>1, <1>8, <3>1 DEF NameInv, FailedInv
  <2>6. \A t \in Servers : OwnConns(t)' /\ Table(t)'
    BY <2>2, <2>3, <2>4
  <2> QED
    BY <2>5, <2>6 DEF NameInv
<1> QED
  BY <1>7, <1>8

LEMMA DestroyServerNames ==
    ASSUME TypeOK, NameInv, NEW s \in Servers, DestroyServer(s)
    PROVE  NameInv'
<1>1. \A t \in Servers : /\ server'[t].nextId = server[t].nextId
                         /\ server'[t].accepted = server[t].accepted
                         /\ t # s => server'[t] = server[t]
  BY DestroyServerFacts
<1>2. server'[s].map = {} /\ failed' = failed
  BY DestroyServerFacts
<1>3. \A c \in Conns : /\ conn[c].server # s => conn'[c] = conn[c]
                       /\ conn[c].server = s => conn'[c].server = s /\ conn'[c].place = "gone"
  BY DestroyServerFacts
<1>4. \A t \in Servers : Given(t)' = Given(t)
  BY <1>1 DEF Given
<1>5. \A t \in Servers : \A e \in server[t].map : e[2] \in Conns /\ conn[e[2]].server = t
  BY DEF TypeOK, Server, NameInv, OwnConns
<1>6. OwnConns(s)' /\ Table(s)'
  BY <1>1, <1>2, <1>3 DEF NameInv, OwnConns, Table, Up
<1>7. ASSUME NEW t \in Servers, t # s
      PROVE  OwnConns(t)' /\ Table(t)'
  <2>1. server'[t] = server[t] /\ OwnConns(t) /\ Table(t) /\ Given(t)' = Given(t)
    BY <1>1, <1>4, <1>7 DEF NameInv
  <2>2. \A c \in Conns : conn[c].server = t \/ conn'[c].server = t => conn'[c] = conn[c]
    BY <1>3, <1>7
  <2>3. OwnConns(t)'
    BY <1>5, <2>1, <2>2 DEF OwnConns
  <2>4. Table(t)'
    BY <1>5, <2>1, <2>2 DEF Table, Up
  <2> QED
    BY <2>3, <2>4
<1>8. FailedInv'
  BY <1>1, <1>2 DEF NameInv, FailedInv
<1>9. \A t \in Servers : OwnConns(t)' /\ Table(t)'
  BY <1>6, <1>7
<1> QED
  BY <1>8, <1>9 DEF NameInv

(* Who drops the last pointer of a connection that is in no map. *)
LEMMA ReleaseNames ==
    ASSUME TypeOK, AddressInv, NameInv, NEW c \in Conns, Release(c)
    PROVE  NameInv'
<1>1. UNCHANGED <<server, failed>>
  BY DEF Release
<1>2. CASE conn' = conn
  BY <1>1, <1>2, NamesUntouched
<1>3. CASE /\ conn[c].place = "up"
           /\ <<conn[c].id, c>> \notin server[conn[c].server].map
           /\ conn'[c].place = "lost" /\ conn'[c].server = conn[c].server
           /\ \A d \in Conns \ {c} : conn'[d] = conn[d]
  <2>1. conn[c].server \in Servers
    BY <1>3, UpHasServer DEF Up
  <2>2. ASSUME NEW t \in Servers
        PROVE  OwnConns(t)' /\ Table(t)'
    <3>1. OwnConns(t) /\ Table(t) /\ \A e \in server[t].map : e[2] \in Conns
      BY DEF TypeOK, Server, NameInv
    <3>2. OwnConns(t)'
      BY <1>1, <1>3, <3>1 DEF OwnConns
    <3>3. Given(t)' = Given(t)
      BY <1>1 DEF Given
    <3>4. server[t].accepted <= IdRange => conn[c].server # t
      BY <1>3, <3>1 DEF Table, Up
    <3>5. server[t].accepted <= IdRange => \A e \in server[t].map : e[2] # c
      BY <3>1, <3>4 DEF OwnConns
    <3>6. Table(t)'
      BY <1>1, <1>3, <3>1, <3>3, <3>4, <3>5 DEF Table, Up
    <3> QED
      BY <3>2, <3>6
  <2> QED
    BY <1>1, <2>2 DEF NameInv, FailedInv
<1> QED
  BY <1>2, <1>3, ReleaseFacts

LEMMA NamesStep ==
    ASSUME TypeOK, AddressInv, NameInv, [Next]_vars
    PROVE  NameInv'
<1>1. ASSUME NEW s \in Servers, NEW n \in Numbers, NewServer(s, AnyHost(n), n)
      PROVE  NameInv'
  BY <1>1, AddressTypes, NewServerNames
<1>2. ASSUME NEW s \in Servers, NEW text \in Texts, NEW n \in Numbers,
             NewServer(s, FromHostPort(text, n), n)
      PROVE  NameInv'
  BY <1>2, AddressTypes, NewServerNames
<1>3. ASSUME NEW c \in Conns, RemoveConnection(c)
      PROVE  NameInv'
  <2>1. conn[c].server \in Servers
    BY <1>3, UpHasServer DEF RemoveConnection, Up
  <2> QED
    BY <1>3, <2>1, RemoveConnectionNames
<1>4. ASSUME NEW c \in Conns, Hold(c)
      PROVE  NameInv'
  <2>1. UNCHANGED <<server, conn, failed>>
    BY <1>4 DEF Hold
  <2> QED
    BY <2>1, NamesUntouched
<1>5. CASE UNCHANGED vars
  <2>1. UNCHANGED <<server, conn, failed>>
    BY <1>5 DEF vars
  <2> QED
    BY <2>1, NamesUntouched
<1> QED
  BY <1>1, <1>2, <1>3, <1>4, <1>5, StartNames, PeerConnectsNames, NewConnectionNames,
     DestroyServerNames, ReleaseNames DEF Next
-----------------------------------------------------------------------------
(* The invariant that the theorems below rest on. *)
THEOREM Invariance == Spec => []IInv
<1>1. Init => IInv
  BY InitTypes, InitAddresses, InitNames DEF IInv
<1>2. IInv /\ [Next]_vars => IInv'
  BY TypesStep, AddressesStep, NamesStep DEF IInv
<1> QED
  BY <1>1, <1>2, PTL DEF Spec

(* A connection reports the addresses that its peer connected to and from,
   and its port is the one that the user asked for and that the server's name
   shows, unless bind(2) failed, for any number of values of a byte
   (CInetAddress.cpp:15-40, SocketsOps.cpp:67-83, 136-165). *)
THEOREM AddressesReported == Spec => []AddressesAgree
<1>1. IInv => AddressesAgree
  <2> SUFFICES ASSUME IInv, NEW c \in Conns, Up(c)
               PROVE  LET s == conn[c].server IN
                      /\ ToHostPort(conn[c].local) = conn[c].dest
                      /\ ToHostPort(conn[c].peer) = conn[c].source
                      /\ sock[s].asked =>
                            /\ {server[s].name.port, server[s].given % (Base * Base)}
                                  \subseteq {0, ToHostPort(conn[c].local).port}
                            /\ server[s].name.host \in {InAddrAny, ToHostPort(conn[c].local).host}
    BY DEF AddressesAgree
  <2> DEFINE s == conn[c].server
  <2>1. /\ s \in Servers
        /\ conn[c].dest \in Address /\ conn[c].source \in Address
        /\ conn[c].dest.host \in Hosts
    BY UpHasServer DEF IInv, AddressInv, ReachInv, Up, TypeOK, Connection
  <2>2. /\ conn[c].local = FromKernel(conn[c].dest)
        /\ conn[c].peer = FromKernel(conn[c].source)
        /\ Same(sock[s].bound, conn[c].dest)
    BY <2>1 DEF IInv, AddressInv, ReachInv, Reaches, Up
  <2>3. ToHostPort(conn[c].local) = conn[c].dest /\ ToHostPort(conn[c].peer) = conn[c].source
    BY <2>1, <2>2, RoundTrip
  <2>4. sock[s].asked =>
          /\ server[s].name.port = server[s].given % (Base * Base)
          /\ server[s].name.port \in {0, sock[s].bound.port}
          /\ server[s].name.host = sock[s].bound.host
    BY <2>1 DEF IInv, AddressInv, SocketInv
  <2>5. /\ sock[s].bound.port = conn[c].dest.port
        /\ sock[s].bound.host \in {InAddrAny, conn[c].dest.host}
    BY <2>1, <2>2 DEF Same
  <2> QED
    BY <2>3, <2>4, <2>5
<1> QED
  BY <1>1, Invariance, PTL

(* Until its numbers run out, a server finds each of its connections by its
   name, and the assert of __RemoveConnection holds, for any number of
   connections and any width of m_nNextConnId (CTcpServer.cpp:55-79). *)
THEOREM NamesFindConnections == Spec => []ConnectionsFound
<1>1. IInv => ConnectionsFound
  BY TableEntries DEF IInv, NameInv, FailedInv, ConnectionsFound
<1> QED
  BY <1>1, Invariance, PTL
=============================================================================
