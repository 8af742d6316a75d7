------------------------------ MODULE Listener ------------------------------
(***************************************************************************)
(* Several CTcpServer objects of one process as their peers reach them: an *)
(* address on its way from the user's CInetAddress through socket(2),      *)
(* bind(2), listen(2) and accept(2) (net/SocketsOps.cpp, net/CSocket.cpp,  *)
(* net/CAcceptor.cpp) to the two addresses of a connection, and the names  *)
(* under which a server keeps its connections (net/CTcpServer.cpp).        *)
(*                                                                         *)
(* The functions named OrDie report what fails and go on.  The host is     *)
(* little-endian, and m_nNextConnId wraps around after IdRange values.     *)
(* What becomes of one connection is the subject of TcpServer, which takes *)
(* from here that a server finds its connections by their names.           *)
(***************************************************************************)
EXTENDS Integers

CONSTANTS Servers,     (* CTcpServer objects *)
          Conns,       (* CTcpConnection objects *)
          Hosts,       (* the addresses of this machine *)
          Texts,       (* what users pass for an address; inet_pton reads
                          those of Hosts *)
          Numbers,     (* what users pass for a port: a uint64_t *)
          Base,        (* values of a byte *)
          IdRange,     (* values of m_nNextConnId *)
          Sources      (* addresses that peers connect from *)

InAddrAny == "any"
Ports == 0 .. Base * Base - 1

ASSUME ListenerAssumption ==
    /\ Base \in Nat \ {0}
    /\ IdRange \in Nat \ {0, 1}
    /\ Numbers \subseteq Nat
    /\ InAddrAny \notin Hosts
    /\ Sources \subseteq [host : Hosts, port : Ports]

VARIABLES
    server,   (* server[s]: a CTcpServer with its CAcceptor *)
    sock,     (* sock[s]: its listening socket in the kernel *)
    conn,     (* conn[c]: a connection, from its peer's connect(2) on *)
    held,     (* connections the user holds a shared_ptr of *)
    failed    (* the assert of __RemoveConnection has failed *)

vars == <<server, sock, conn, held, failed>>

NoServer ==
    [place     |-> "none",  (* none, made or gone *)
     listening |-> FALSE,   (* m_bListenning *)
     given     |-> 0,       (* the port that the user asked for (history) *)
     name      |-> [host |-> InAddrAny, port |-> 0],  (* m_sName *)
     nextId    |-> 1,       (* m_nNextConnId *)
     map       |-> {},      (* m_mConnectionMap: pairs of an id and a connection *)
     accepted  |-> 0]       (* connections so far (history) *)

Unbound == [host |-> InAddrAny, port |-> 0]
(* What socket(2) gives. *)
NewSocket == [bound |-> Unbound, listens |-> FALSE, asked |-> FALSE]

NoConn ==
    [place  |-> "none",     (* none, waiting, up, lost or gone *)
     server |-> "none",
     id     |-> 0,          (* what follows the # in m_sName *)
     dest   |-> Unbound,    (* where the peer connected to, and from *)
     source |-> Unbound,
     local  |-> Unbound,    (* m_iLocalAddr and m_iPeerAddr, sockaddr_in *)
     peer   |-> Unbound]

Init ==
    /\ server = [s \in Servers |-> NoServer]
    /\ sock = [s \in Servers |-> NewSocket]
    /\ conn = [c \in Conns |-> NoConn]
    /\ held = {}
    /\ failed = FALSE
-----------------------------------------------------------------------------
(* A sockaddr_in has its port as the number whose bytes in memory are in
   network order; a kernel address has the port itself. *)

Swapped16(n) == (n % Base) * Base + n \div Base

(* Mutant: the bytes are left as they are. *)
HostToNetwork16Same(n) == n % (Base * Base)

(* HostToNetwork16 and NetworkToHost16; the argument becomes a uint16_t. *)
HostToNetwork16(n) == Swapped16(n % (Base * Base))
NetworkToHost16(n) == Swapped16(n)

(* CInetAddress of an address and a port: one that inet_pton(3) cannot read
   is reported and leaves the zeros, which are INADDR_ANY. *)
FromHostPort(text, n) ==
    [host |-> IF text \in Hosts THEN text ELSE InAddrAny, port |-> HostToNetwork16(n)]

(* CInetAddress of a port. *)
AnyHost(n) == [host |-> InAddrAny, port |-> HostToNetwork16(n)]

(* The text of a sockaddr_in. *)
ToHostPort(addr) == [host |-> addr.host, port |-> NetworkToHost16(addr.port)]

(* How the kernel reads a sockaddr_in, and writes one. *)
Kernel(addr) == [host |-> addr.host, port |-> Swapped16(addr.port)]
FromKernel(addr) == [host |-> addr.host, port |-> Swapped16(addr.port)]
-----------------------------------------------------------------------------
(* The kernel. *)

Same(a, b) == a.port = b.port /\ (a.host = b.host \/ InAddrAny \in {a.host, b.host})

(* Sockets with SO_REUSEADDR share an address until one of them listens. *)
Taken(s, addr) ==
    \E t \in Servers \ {s} : sock[t].listens /\ Same(sock[t].bound, addr)

(* A port of 0 lets the kernel choose. *)
Chosen(addr) ==
    IF addr.port # 0 THEN {addr} ELSE {[addr EXCEPT !.port = p] : p \in Ports \ {0}}

(* The addresses that the socket of s may have after bind(2), or after
   listen(2) when it has none. *)
Free(s, addr) == {a \in Chosen(addr) : ~Taken(s, a)}

Bind(s, addr) ==
    \/ \E a \in Free(s, addr) :
          sock' = [sock EXCEPT ![s] = [bound |-> a, listens |-> FALSE, asked |-> TRUE]]
    \/ UNCHANGED sock

Listen(s) ==
    \/ \E a \in Free(s, sock[s].bound) :
          sock' = [sock EXCEPT ![s].bound = a, ![s].listens = TRUE]
    \/ UNCHANGED sock
-----------------------------------------------------------------------------
Running == ~failed

(* CAcceptor's constructor: the socket, SO_REUSEADDR and bind(2). *)
BindAddredd(s, addr) == Bind(s, Kernel(addr))
NewAcceptor(s, addr) == BindAddredd(s, addr)

(* m_sName: the address that the user asked for. *)
ServerName(addr) == ToHostPort(addr)

IsListenning(s) == server[s].listening

NewServer(s, addr, n) ==
    /\ Running
    /\ server[s].place = "none"
    /\ server' = [server EXCEPT ![s].place = "made", ![s].given = n,
                               ![s].name = ServerName(addr)]
    /\ NewAcceptor(s, addr)
    /\ UNCHANGED <<conn, held, failed>>

(* Start, with StartListen; bound: each call is over, its functor included,
   before the next one tests IsListenning. *)
Start(s) ==
    /\ Running
    /\ server[s].place = "made"
    /\ ~IsListenning(s)
    /\ server' = [server EXCEPT ![s].listening = TRUE]
    /\ Listen(s)
    /\ UNCHANGED <<conn, held, failed>>

(* A peer connects to an address of this machine where a socket listens. *)
PeerConnects(c, s, dest, source) ==
    /\ Running
    /\ conn[c].place = "none"
    /\ sock[s].listens
    /\ Same(sock[s].bound, dest)
    /\ conn' = [conn EXCEPT ![c] = [NoConn EXCEPT !.place = "waiting", !.server = s,
                                                  !.dest = dest, !.source = source]]
    /\ UNCHANGED <<server, sock, held, failed>>

(* The addresses that accept(2) and getsockname(2) give. *)
PeerAddr(c) == FromKernel(conn[c].source)
GetLocalAddr(c) == FromKernel(conn[c].dest)

(* Mutant: the next connection is given the same number. *)
NextConnIdSame(n) == n

(* ++m_nNextConnId. *)
NextConnId(n) == (n + 1) % IdRange

(* The entries that are in the map of s under a number. *)
Entries(s, id) == {e \in server[s].map : e[1] = id}

(* A connection that no shared_ptr is left of is destroyed, and its channel
   stays in the poller. *)
LostIn(cs, d) == IF d \in cs \ held THEN [conn[d] EXCEPT !.place = "lost"] ELSE conn[d]

(* __NewConnection: an entry under the same name is assigned to. *)
NewConnection(s, c) ==
    LET id == server[s].nextId
        old == Entries(s, id)
    IN /\ Running
       /\ server[s].place = "made"
       /\ server[s].listening
       /\ conn[c].place = "waiting"
       /\ conn[c].server = s
       /\ server' = [server EXCEPT ![s].map = (@ \ old) \cup {<<id, c>>},
                                   ![s].nextId = NextConnId(@),
                                   ![s].accepted = @ + 1]
       /\ conn' = [d \in Conns |->
                     IF d = c
                     THEN [conn[c] EXCEPT !.place = "up", !.id = id,
                                          !.peer = PeerAddr(c), !.local = GetLocalAddr(c)]
                     ELSE LostIn({e[2] : e \in old}, d)]
       /\ UNCHANGED <<sock, held, failed>>

(* __RemoveConnection, when the connection is closed. *)
RemoveConnection(c) ==
    LET s == conn[c].server
        old == Entries(s, conn[c].id)
    IN /\ Running
       /\ conn[c].place = "up"
       /\ server[s].place = "made"
       /\ IF old = {}
          THEN failed' = TRUE /\ UNCHANGED <<server, conn>>
          ELSE /\ server' = [server EXCEPT ![s].map = @ \ old]
               /\ conn' = [d \in Conns |->
                             IF d = c THEN [conn[c] EXCEPT !.place = "gone"]
                             ELSE LostIn({e[2] : e \in old}, d)]
               /\ UNCHANGED failed
       /\ UNCHANGED <<sock, held>>

Close(s) == sock' = [sock EXCEPT ![s] = NewSocket]

(* ~CTcpServer and ~CAcceptor, which closes the socket; who still waited is
   reset, and the connections of the map are let go. *)
DestroyServer(s) ==
    /\ Running
    /\ server[s].place = "made"
    /\ server' = [server EXCEPT ![s].place = "gone", ![s].map = {}]
    /\ Close(s)
    /\ conn' = [c \in Conns |->
                  IF conn[c].server = s THEN [conn[c] EXCEPT !.place = "gone"] ELSE conn[c]]
    /\ UNCHANGED <<held, failed>>

(* The user keeps a shared_ptr of a connection, and drops it. *)
Hold(c) ==
    /\ Running
    /\ conn[c].place = "up"
    /\ held' = held \cup {c}
    /\ UNCHANGED <<server, sock, conn, failed>>

Release(c) ==
    /\ Running
    /\ c \in held
    /\ held' = held \ {c}
    /\ IF conn[c].place = "up" /\ <<conn[c].id, c>> \notin server[conn[c].server].map
       THEN conn' = [conn EXCEPT ![c].place = "lost"]
       ELSE UNCHANGED conn
    /\ UNCHANGED <<server, sock, failed>>

Next ==
    \/ \E s \in Servers :
          \/ \E n \in Numbers : NewServer(s, AnyHost(n), n)
          \/ \E text \in Texts, n \in Numbers : NewServer(s, FromHostPort(text, n), n)
          \/ Start(s)
          \/ DestroyServer(s)
    \/ \E c \in Conns, s \in Servers :
          \/ \E h \in Hosts, p \in Ports, source \in Sources :
                PeerConnects(c, s, [host |-> h, port |-> p], source)
          \/ NewConnection(s, c)
    \/ \E c \in Conns : RemoveConnection(c) \/ Hold(c) \/ Release(c)

Spec == Init /\ [][Next]_vars
=============================================================================
