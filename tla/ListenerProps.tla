--------------------------- MODULE ListenerProps ----------------------------
(* The properties of Listener. *)
EXTENDS Listener

Address == [host : Hosts \cup {InAddrAny}, port : Ports]

Ids == 0 .. IdRange - 1

(* A CTcpServer, a listening socket and a connection. *)
Server ==
    [place : {"none", "made", "gone"}, listening : BOOLEAN,
     given : Numbers \cup {0}, name : Address,
     nextId : Ids, map : SUBSET (Ids \X Conns), accepted : Nat]

Socket == [bound : Address, listens : BOOLEAN, asked : BOOLEAN]

Connection ==
    [place : {"none", "waiting", "up", "lost", "gone"}, server : Servers \cup {"none"},
     id : Ids, dest : Address, source : Address, local : Address, peer : Address]

TypeOK ==
    /\ server \in [Servers -> Server]
    /\ sock \in [Servers -> Socket]
    /\ conn \in [Conns -> Connection]
    /\ held \subseteq Conns
    /\ failed \in BOOLEAN

Up(c) == conn[c].place = "up"

(* The addresses that a connection reports are those that its peer connected
   to and from, and its port is the one that the user asked for, or its last
   16 bits, and the one in the server's name, whenever bind(2) did not fail: the conversions
   of the byte order on the way from CInetAddress to the kernel and back undo
   each other.  A server whose bind(2) failed goes on and serves some other
   port (CInetAddress.cpp:15-40, SocketsOps.cpp:67-83, 136-165). *)
AddressesAgree ==
    \A c \in Conns : Up(c) =>
        LET s == conn[c].server IN
        /\ ToHostPort(conn[c].local) = conn[c].dest
        /\ ToHostPort(conn[c].peer) = conn[c].source
        /\ sock[s].asked =>
              /\ {server[s].name.port, server[s].given % (Base * Base)}
                    \subseteq {0, ToHostPort(conn[c].local).port}
              /\ server[s].name.host \in {InAddrAny, ToHostPort(conn[c].local).host}

(* Until m_nNextConnId has gone through all of its values, a server finds
   each of its connections by its name, and only that one, so that the assert
   of __RemoveConnection holds (CTcpServer.cpp:55-79).  Beyond that a new
   connection takes the entry of an old one, and the assert may fail. *)
ConnectionsFound ==
    /\ \A s \in Servers : server[s].place = "made" /\ server[s].accepted <= IdRange =>
          \A c \in Conns : Up(c) /\ conn[c].server = s =>
              Entries(s, conn[c].id) = {<<conn[c].id, c>>}
    /\ failed => \E s \in Servers : server[s].accepted > IdRange
=============================================================================
