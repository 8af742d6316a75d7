--------------------------- MODULE TcpServerProps ---------------------------
(* The properties of TcpServer. *)
EXTENDS TcpServer

Messages == [id : 1..MaxSends, by : Threads \cup {Owner}]
Part == Messages \X {1, 2}

Connection ==
    [state : States, fd : Fds \cup {0}, events : SUBSET {"in", "out"}, poll : Polling,
     out : Seq(Part), wire : Seq(Part), sent : Seq(Messages), shut : BOOLEAN,
     heard : {"nothing", "up", "message", "down"},
     peer : Peers, unread : BOOLEAN, full : BOOLEAN]

Functors ==
    [op : {"listen"}] \cup [op : {"destroy", "shutdown"}, conn : Conns]
        \cup [op : {"send"}, conn : Conns, msg : Messages]

Calls == Functors \cup {Idle} \cup [op : {"setstate"}, conn : Conns]

TypeOK ==
    /\ conn \in [Conns -> Connection]
    /\ listening \in BOOLEAN
    /\ reading \in BOOLEAN
    /\ backlog \subseteq Conns
    /\ accepting \in BOOLEAN
    /\ connMap \subseteq Conns
    /\ held \subseteq Conns
    /\ pc \in {"setup", "poll", "dispatch", "event", "up", "message", "down", "functors", "gone"}
    /\ cur \in Conns \cup {NoConn}
    /\ DOMAIN active \subseteq Conns
    /\ active \in [DOMAIN active -> SUBSET {"in", "out", "hup"}]
    /\ pending \in Seq(Functors)
    /\ batch \in Seq(Functors)
    /\ done \subseteq Conns
    /\ call \in [Threads -> Calls]
    /\ sends \in 0..MaxSends
    /\ failed \in {"none", "UpdateChannel", "RemoveChannel", "HandleClose", "ConnectDestroyed"}

Registered(c) == conn[c].poll \in {"polled", "muted"}

(* No raw CChannel pointer outlives its connection: the poller's map, the
   active channels that are still to be handled and the one being handled
   belong to live connections that are still registered.  This is what
   QueueInLoop in __RemoveConnection is for: the removal waits until the
   events of this poll are done (CTcpServer.cpp:71-78, CPoller.cpp:82-128).
   ~CTcpServer does leave such pointers, in a poller that must not poll any
   more. *)
NoDanglingChannel ==
    /\ pc # "gone" => \A c \in Conns : Registered(c) => Alive(c)
    /\ \A c \in DOMAIN active : Registered(c)
    /\ pc \in {"event", "message"} => Registered(cur)

(* Every connection that the server knows is polled, and one that is polled
   or muted and not known any more has exactly one ConnectDestroyed to come. *)
Destroys(s, c) ==
    Cardinality({i \in DOMAIN s : s[i] = [op |-> "destroy", conn |-> c]})

DestroyFunctors(c) == Destroys(pending, c) + Destroys(batch, c)

DestroyedOnce ==
    pc # "gone" => \A c \in Conns :
        DestroyFunctors(c) =
            IF Registered(c) /\ c \notin connMap /\ ~(pc = "down" /\ cur = c) THEN 1 ELSE 0

Stream(k) == k.wire \o k.out

(* The bytes of a connection reach the kernel in the order of the calls of
   __SendInLoop, without a gap and each once, whatever was written at once
   and whatever was buffered; and messages of one thread keep their order
   (CTcpConnection.cpp:199-231). *)
StreamInOrder ==
    \A c \in Conns :
        LET k == conn[c] IN
        /\ Len(Stream(k)) = 2 * Len(k.sent)
        /\ \A i \in DOMAIN k.sent :
              SubSeq(Stream(k), 2 * i - 1, 2 * i) = Parts(k.sent[i])
        /\ \A i, j \in DOMAIN k.sent :
              i < j /\ k.sent[i].by = k.sent[j].by => k.sent[i].id < k.sent[j].id

(* The user hears of a connection in order: up once, then messages, then
   down once, then nothing. *)
CallbackOrder ==
    [][\A c \in Conns : conn'[c].heard # conn[c].heard =>
          <<conn[c].heard, conn'[c].heard>> \in
              {<<"nothing", "up">>, <<"up", "message">>, <<"up", "down">>, <<"message", "down">>}]_vars

(* As long as connections are used by callbacks only, no assert of
   CTcpConnection, CTcpServer or CPoller fails. *)
AssertsHold == failed = "none"

(* With other threads, the only assert to fail is that of UpdateChannel for
   a channel that the poller no longer knows. *)
OtherAssertsHold == failed \in {"none", "UpdateChannel"}

(* Of a connection that is shutting down, the end of the stream is on its way
   exactly when no output is being written: ShutDown leaves it to __HandleWrite
   while POLLOUT is asked for, and __HandleWrite sends it after the last byte
   (CTcpConnection.cpp:112-115, 236). *)
FinAfterOutput ==
    \A c \in Conns :
        conn[c].state = "eDisconnecting" /\ conn[c].poll = "polled" =>
            (conn[c].shut <=> ~IsWriting(conn[c]))

(* What the poller knows of the connections' channels. *)
EverPolled == {c \in Conns : conn[c].poll # "new"}
Descriptors == [c \in {d \in Conns : Registered(d)} |-> conn[c].fd]
Wanted == [c \in Conns |-> conn[c].events]
Interest == [c \in Polled |-> conn[c].events]

(* The connections use the poller as it takes for granted, and it does what
   they count on: a connection is registered once, under a descriptor that no
   other channel has, changes what it asks for while it is registered only,
   and is removed when it asks for nothing and no callback of this poll is to
   come, whatever its peer, the user and other threads do (CTcpServer.cpp:46-79,
   CTcpConnection.cpp:135-172, CPoller.cpp:45-128). *)
Poller == INSTANCE PollSet WITH
    Channels <- Conns, Events <- {"in", "out"},
    known <- EverPolled, fds <- Descriptors, asked <- Wanted, interest <- Interest,
    active <- DOMAIN active
UsesPollSet == Poller!Spec

Looping == Running /\ pc \notin {"setup", "gone"}

(* While the loop goes on, peers are left waiting in the backlog only if in
   the end every descriptor stays with a connection that its peer leaves open
   or that the user keeps.  An accept that fails, for want of descriptors or
   because its peer has gone, is tried again at the next poll, whatever the
   connections do meanwhile; and a connection that is over gives its
   descriptor back (CAcceptor.cpp:45-57, SocketsOps.cpp:79-118,
   CTcpServer.cpp:71-78). *)
Occupied(fd) ==
    \E c \in Conns :
        Alive(c) /\ conn[c].fd = fd /\ (conn[c].peer = "open" \/ c \in held)
PeersAreAccepted ==
    <>[](Looping /\ backlog # {}) => <>[](\A fd \in Fds : Occupied(fd))

(* While the loop goes on, in the end no connection that its peer has closed
   is left, unless the user keeps it: the close is read, the server forgets
   the connection, ConnectDestroyed runs and the last shared_ptr goes,
   whatever else the loop has to do (CTcpConnection.cpp:126-172,
   CTcpServer.cpp:71-79). *)
ClosedIsDestroyed ==
    <>[]Looping => <>[](\A c \in Conns : Alive(c) => conn[c].peer = "open" \/ c \in held)

(* What __SendInLoop could not write it is "going to write" later
   (CTcpConnection.cpp:210): buffered output of a connection that stays open
   is written. *)
OutputDrains ==
    \A c \in Conns :
        (Looping /\ conn[c].out # <<>>)
            ~> (conn[c].out = <<>> \/ Broken(conn[c]) \/ conn[c].poll # "polled" \/ ~Looping)
=============================================================================
