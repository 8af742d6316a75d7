----------------------------- MODULE TcpServer ------------------------------
(***************************************************************************)
(* CTcpServer with its CAcceptor and connections (net/CTcpServer.cpp,      *)
(* net/CAcceptor.cpp, net/CTcpConnection.cpp) in one loop thread, the      *)
(* user's callbacks, and other threads that use connections.               *)
(*                                                                         *)
(* The loop is EventLoop with its wakeups left out: functors are run once  *)
(* and in order (ImplementsFunctorQueue), and the poll does not outlast    *)
(* them (QueuedFunctorRuns).  The poller is PollSet.  A connection is an   *)
(* object under shared_ptrs: it lives while the server's map, a queued     *)
(* ConnectDestroyed or the user holds one (Alive), its destructor closes   *)
(* the descriptor, and channels, events and the functors of Send and       *)
(* ShutDown hold a raw pointer only.  The user keeps a shared_ptr at least *)
(* until the functors of its own calls have run.  The first assert to fail *)
(* ends the process and is remembered in failed.                           *)
(***************************************************************************)
EXTENDS TcpConnection, FiniteSets

CONSTANTS Conns,     (* CTcpConnection objects *)
          Threads,   (* threads other than the loop's *)
          Owner,     (* the loop's thread *)
          Fds,       (* descriptors for accepted sockets *)
          MaxSends   (* bound: calls of Send that find the connection up *)

ASSUME ServerAssumption ==
    /\ Owner \notin Threads
    /\ MaxSends \in Nat

VARIABLES
    conn,       (* conn[c]: the connection, see TcpConnection *)
    listening,  (* m_bListenning; the kernel listens *)
    reading,    (* the acceptor's channel is enabled for reading *)
    backlog,    (* connections that the kernel holds for accept(2) *)
    accepting,  (* poll(2) reported the listening socket, not yet handled *)
    connMap,    (* m_mConnectionMap *)
    held,       (* connections the user holds a shared_ptr of *)
    pc,         (* where the loop thread is *)
    cur,        (* the connection whose callback or functor is running *)
    active,     (* active[c]: the events that poll(2) reported of c, not yet
                   handled *)
    pending,    (* m_vPendingFunctors *)
    batch,      (* vFunctors of __DoPendingFunctors not yet run *)
    done,       (* connections whose ConnectDestroyed this batch has run *)
    call,       (* call[t]: what thread t is in the middle of *)
    sends,      (* number of messages so far *)
    failed      (* the assert that ended the process *)

acceptor == <<listening, reading, backlog, accepting>>
userVars == <<held, call, sends>>
loopVars == <<pc, cur, active, batch, done>>
vars == <<conn, acceptor, connMap, loopVars, pending, userVars, failed>>

Idle == [op |-> "none"]
NoConn == "noconn"

(* The loop thread runs user code: outside StartLoop, in the connection
   callbacks and in the message callback. *)
UserCode == {"setup", "up", "message", "down"}

Queued == {pending[i] : i \in DOMAIN pending} \cup {batch[i] : i \in DOMAIN batch}

(* Some shared_ptr of c exists.  The vector of a batch keeps its functors
   until the last one has run. *)
Alive(c) ==
    \/ c \in connMap \cup held \cup done
    \/ \E f \in Queued : f.op = "destroy" /\ f.conn = c

Init ==
    /\ conn = [c \in Conns |-> NoConnection]
    /\ listening = FALSE
    /\ reading = FALSE
    /\ backlog = {}
    /\ accepting = FALSE
    /\ connMap = {}
    /\ held = {}
    /\ pc = "setup"
    /\ cur = NoConn
    /\ active = [c \in {} |-> {}]
    /\ pending = <<>>
    /\ batch = <<>>
    /\ done = {}
    /\ call = [t \in Threads |-> Idle]
    /\ sends = 0
    /\ failed = "none"

(* Step, unless the assert called name fails. *)
Assert_(name, holds, Step) ==
    IF holds THEN Step /\ UNCHANGED failed
    ELSE failed' = name /\ UNCHANGED <<conn, acceptor, connMap, loopVars, pending, userVars>>

Running == failed = "none"

(* Mutant: the functor is put in front of the others. *)
QueueInLoopFront(f) == pending' = <<f>> \o pending

QueueInLoop(f) == pending' = Append(pending, f)
Set(c, k) == conn' = [conn EXCEPT ![c] = k]
-----------------------------------------------------------------------------
(* CEventLoop::StartLoop. *)

StartLoop ==
    /\ Running
    /\ pc = "setup"
    /\ pc' = "poll"
    /\ UNCHANGED <<conn, acceptor, connMap, cur, active, batch, done, pending, userVars, failed>>

(* The loop has seen a QuitLoop before the next poll. *)
LeaveLoop ==
    /\ Running
    /\ pc = "poll"
    /\ pc' = "setup"
    /\ UNCHANGED <<conn, acceptor, connMap, cur, active, batch, done, pending, userVars, failed>>

(* ~CTcpServer, for good and outside StartLoop: the map lets its connections
   go without ConnectDestroyed, and their channels stay in the poller. *)
DestroyServer ==
    /\ Running
    /\ pc = "setup"
    /\ pc' = "gone"
    /\ listening' = FALSE
    /\ backlog' = {}
    /\ connMap' = {}
    /\ UNCHANGED <<conn, reading, accepting, cur, active, batch, done, pending, userVars, failed>>

(* What poll(2) may report of a connection.  A reset shows as a hangup with
   or without readable input. *)
Reports(k) ==
    LET in  == IF "in" \in k.events /\ (k.unread \/ k.peer # "open") THEN {"in"} ELSE {}
        out == IF "out" \in k.events /\ (~k.full \/ Broken(k)) THEN {"out"} ELSE {}
    IN {in \cup out} \cup (IF k.peer \in {"reset", "eof"} THEN {{"hup"}} ELSE {})

Polled == {c \in Conns : conn[c].poll = "polled"}

Poll ==
    /\ Running
    /\ pc = "poll"
    /\ \E r \in [Polled -> SUBSET {"in", "out", "hup"}] :
          /\ \A c \in Polled : r[c] \in Reports(conn[c])
          /\ active' = [c \in {d \in Polled : r[d] # {}} |-> r[c]]
    /\ accepting' = (reading /\ backlog # {})
    /\ pc' = "dispatch"
    /\ UNCHANGED <<conn, listening, reading, backlog, connMap, cur, batch, done, pending, userVars, failed>>

(* CChannel::HandleEvent of an active connection begins and ends. *)
BeginEvent(c) ==
    /\ Running
    /\ pc = "dispatch"
    /\ c \in DOMAIN active
    /\ cur' = c
    /\ pc' = "event"
    /\ UNCHANGED <<conn, acceptor, connMap, active, batch, done, pending, userVars, failed>>

Handled(ev) == active' = [active EXCEPT ![cur] = @ \ {ev}]

EndEvent ==
    /\ Running
    /\ pc = "event"
    /\ active[cur] = {}
    /\ active' = [c \in DOMAIN active \ {cur} |-> active[c]]
    /\ cur' = NoConn
    /\ pc' = "dispatch"
    /\ UNCHANGED <<conn, acceptor, connMap, batch, done, pending, userVars, failed>>

BeginPendingFunctors ==
    /\ Running
    /\ pc = "dispatch"
    /\ DOMAIN active = {}
    /\ ~accepting
    /\ batch' = pending
    /\ pending' = <<>>
    /\ pc' = "functors"
    /\ UNCHANGED <<conn, acceptor, connMap, cur, active, done, userVars, failed>>

(* The vector of the batch goes, with the shared_ptrs in it. *)
EndPendingFunctors ==
    /\ Running
    /\ pc = "functors"
    /\ batch = <<>>
    /\ done' = {}
    /\ pc' = "poll"
    /\ UNCHANGED <<conn, acceptor, connMap, cur, active, batch, pending, userVars, failed>>
-----------------------------------------------------------------------------
(* The numbers that accept(2) may give to a new descriptor: ~CSocket closes
   that of a connection with it. *)
FreeFds == {fd \in Fds : \A c \in Conns : Alive(c) => conn[c].fd # fd}

(* Mutant: the connection is not entered into the map. *)
NewConnectionForgets(c, fd) ==
    /\ Set(c, Established(NewConnection(fd)))
    /\ cur' = c
    /\ pc' = "up"
    /\ UNCHANGED <<connMap, active, batch, done, pending, userVars>>

(* CTcpServer::__NewConnection; the names of connections differ. *)
ServerNewConnection(c, fd) ==
    /\ Set(c, Established(NewConnection(fd)))
    /\ connMap' = connMap \cup {c}
    /\ cur' = c
    /\ pc' = "up"
    /\ UNCHANGED <<active, batch, done, pending, userVars>>

(* CAcceptor::__HandleRead: one accept for each event, in any order with the
   events of the connections. *)
AcceptConnection(c, fd) ==
    /\ Running
    /\ pc = "dispatch"
    /\ accepting
    /\ c \in backlog
    /\ fd \in FreeFds
    /\ Assert_("UpdateChannel",
               \A d \in Conns : conn[d].poll \in {"polled", "muted"} => conn[d].fd # fd,
               /\ ServerNewConnection(c, fd)
               /\ accepting' = FALSE
               /\ backlog' = backlog \ {c}
               /\ UNCHANGED <<listening, reading>>)

(* Mutant: the acceptor's channel is disabled for good. *)
AcceptFailsForGood ==
    /\ Running
    /\ pc = "dispatch"
    /\ accepting
    /\ backlog = {} \/ FreeFds = {}
    /\ accepting' = FALSE
    /\ reading' = FALSE
    /\ UNCHANGED <<conn, listening, backlog, connMap, loopVars, pending, userVars, failed>>

(* sockets::Accept fails when the connection has gone meanwhile, or for want
   of descriptors; that is reported, and the socket stays as it is. *)
AcceptFails ==
    /\ Running
    /\ pc = "dispatch"
    /\ accepting
    /\ backlog = {} \/ FreeFds = {}
    /\ accepting' = FALSE
    /\ UNCHANGED <<conn, listening, reading, backlog, connMap, loopVars, pending, userVars, failed>>

UpReturns ==
    /\ Running
    /\ pc = "up"
    /\ cur' = NoConn
    /\ pc' = "dispatch"
    /\ UNCHANGED <<conn, acceptor, connMap, active, batch, done, pending, userVars, failed>>
-----------------------------------------------------------------------------
(* The callbacks of a connection's channel. *)

(* Mutants: the connection is destroyed at once instead of after the events
   of this poll; the functor of ConnectDestroyed is queued for a connection
   that stays in the map. *)
HandleCloseAtOnce(c, k, ev) ==
    /\ Set(c, Removed(Down(k)))
    /\ connMap' = connMap \ {c}
    /\ Handled(ev)
    /\ UNCHANGED <<acceptor, pc, cur, batch, done, pending, userVars, failed>>

HandleCloseKeeps(c, k, ev) ==
    /\ Set(c, Closing(k))
    /\ QueueInLoop([op |-> "destroy", conn |-> c])
    /\ Handled(ev)
    /\ UNCHANGED <<acceptor, connMap, pc, cur, batch, done, userVars, failed>>

(* __HandleClose, with the close callback CTcpServer::__RemoveConnection. *)
HandleClose(c, k, ev) ==
    Assert_("HandleClose",
            k.state \in {"eConnected", "eDisconnecting"} /\ c \in connMap,
            /\ Set(c, Closing(k))
            /\ connMap' = connMap \ {c}
            /\ QueueInLoop([op |-> "destroy", conn |-> c])
            /\ Handled(ev)
            /\ UNCHANGED <<acceptor, pc, cur, batch, done, userVars>>)

HandleHangup ==
    /\ Running
    /\ pc = "event"
    /\ "hup" \in active[cur]
    /\ HandleClose(cur, conn[cur], "hup")

(* __HandleRead: input for the message callback, the end of the stream, or
   an error, which is only reported.  After a reset the read fails once,
   unless __HandleError has fetched the socket's error before it. *)
ReadMessage ==
    /\ Running
    /\ pc = "event"
    /\ "in" \in active[cur]
    /\ conn[cur].unread
    /\ Set(cur, [conn[cur] EXCEPT !.unread = FALSE, !.heard = "message"])
    /\ Handled("in")
    /\ pc' = "message"
    /\ UNCHANGED <<acceptor, connMap, cur, batch, done, pending, userVars, failed>>

MessageReturns ==
    /\ Running
    /\ pc = "message"
    /\ pc' = "event"
    /\ UNCHANGED <<conn, acceptor, connMap, cur, active, batch, done, pending, userVars, failed>>

ReadError ==
    /\ Running
    /\ pc = "event"
    /\ "in" \in active[cur]
    /\ ~conn[cur].unread
    /\ conn[cur].peer = "reset"
    /\ Set(cur, GetSocketError(conn[cur]))
    /\ Handled("in")
    /\ UNCHANGED <<acceptor, connMap, pc, cur, batch, done, pending, userVars, failed>>

(* Mutant: the end of the stream is an error to report. *)
ReadEndReported ==
    /\ Running
    /\ pc = "event"
    /\ "in" \in active[cur]
    /\ ~conn[cur].unread
    /\ conn[cur].peer # "open"
    /\ Handled("in")
    /\ UNCHANGED <<conn, acceptor, connMap, pc, cur, batch, done, pending, userVars, failed>>

ReadEnd ==
    /\ Running
    /\ pc = "event"
    /\ "in" \in active[cur]
    /\ ~conn[cur].unread
    /\ conn[cur].peer # "open"
    /\ HandleClose(cur, conn[cur], "in")

(* __HandleWrite, after the read callback of the same event. *)
WriteEvent ==
    /\ Running
    /\ pc = "event"
    /\ active[cur] = {"out"}
    /\ \E k \in HandleWrite(conn[cur]) : Set(cur, k)
    /\ Handled("out")
    /\ UNCHANGED <<acceptor, connMap, pc, cur, batch, done, pending, userVars, failed>>
-----------------------------------------------------------------------------
(* The functors. *)

(* CAcceptor::StartListen. *)
StartListen == listening' = TRUE /\ reading' = TRUE /\ UNCHANGED <<backlog, accepting>>

NextFunctor(op) ==
    /\ Running
    /\ pc = "functors"
    /\ batch # <<>>
    /\ Head(batch).op = op

(* ConnectDestroyed up to the connection callback. *)
RunDestroy ==
    /\ NextFunctor("destroy")
    /\ LET c == Head(batch).conn IN
       Assert_("ConnectDestroyed",
               conn[c].state \in {"eConnected", "eDisconnecting"},
               /\ Set(c, Down(conn[c]))
               /\ batch' = Tail(batch)
               /\ done' = done \cup {c}
               /\ cur' = c
               /\ pc' = "down"
               /\ UNCHANGED <<acceptor, connMap, active, pending, userVars>>)

(* RemoveChannel, after the connection callback. *)
DownReturns ==
    /\ Running
    /\ pc = "down"
    /\ Assert_("RemoveChannel",
               conn[cur].poll = "muted" /\ conn[cur].events = {},
               /\ Set(cur, Removed(conn[cur]))
               /\ cur' = NoConn
               /\ pc' = "functors"
               /\ UNCHANGED <<acceptor, connMap, active, batch, done, pending, userVars>>)

(* UpdateChannel asserts that the poller knows the channel. *)
Unknown(k, r) == k.poll = "removed" /\ r.events # k.events

RunSend ==
    /\ NextFunctor("send")
    /\ LET c == Head(batch).conn IN
       \E r \in SendInLoop(conn[c], Head(batch).msg) :
          Assert_("UpdateChannel",
                  ~Unknown(conn[c], r),
                  /\ Set(c, r)
                  /\ batch' = Tail(batch)
                  /\ UNCHANGED <<acceptor, connMap, pc, cur, active, done, pending, userVars>>)

RunShutdown ==
    /\ NextFunctor("shutdown")
    /\ LET c == Head(batch).conn IN Set(c, ShutdownInLoop(conn[c]))
    /\ batch' = Tail(batch)
    /\ UNCHANGED <<acceptor, connMap, pc, cur, active, done, pending, userVars, failed>>

RunListen ==
    /\ NextFunctor("listen")
    /\ StartListen
    /\ batch' = Tail(batch)
    /\ UNCHANGED <<conn, connMap, pc, cur, active, done, pending, userVars, failed>>
-----------------------------------------------------------------------------
(* The user in the loop thread. *)

InUserCode == Running /\ pc \in UserCode

(* The connections that user code has a pointer of. *)
Known(c) == c \in held \cup {cur}

(* CTcpServer::Start: RunInLoop calls StartListen at once. *)
StartOwner ==
    /\ InUserCode
    /\ ~listening
    /\ StartListen
    /\ UNCHANGED <<conn, connMap, loopVars, pending, userVars, failed>>

(* rMessage, told apart by a number and by who sent it. *)
Message(t) == [id |-> sends + 1, by |-> t]

SendOwner(c) ==
    /\ InUserCode
    /\ Known(c)
    /\ conn[c].state = "eConnected"
    /\ sends < MaxSends
    /\ \E r \in SendInLoop(conn[c], Message(Owner)) :
          Assert_("UpdateChannel",
                  ~Unknown(conn[c], r),
                  /\ Set(c, r)
                  /\ sends' = sends + 1
                  /\ UNCHANGED <<acceptor, connMap, loopVars, pending, held, call>>)

ShutDownOwner(c) ==
    /\ InUserCode
    /\ Known(c)
    /\ conn[c].state = "eConnected"
    /\ Set(c, ShutdownInLoop([conn[c] EXCEPT !.state = "eDisconnecting"]))
    /\ UNCHANGED <<acceptor, connMap, loopVars, pending, userVars, failed>>

(* The user keeps the shared_ptr that its callback was given. *)
Hold ==
    /\ InUserCode
    /\ cur # NoConn
    /\ held' = held \cup {cur}
    /\ UNCHANGED <<conn, acceptor, connMap, loopVars, pending, call, sends, failed>>

(* Nothing that the user asked of c is still to be done. *)
Settled(c) ==
    /\ \A t \in Threads : call[t] # Idle => call[t].conn # c
    /\ \A f \in Queued : f.op \in {"send", "shutdown"} => f.conn # c

Release(c) ==
    /\ Running
    /\ c \in held
    /\ Settled(c)
    /\ held' = held \ {c}
    /\ UNCHANGED <<conn, acceptor, connMap, loopVars, pending, call, sends, failed>>
-----------------------------------------------------------------------------
(* The user in another thread.  m_eState is read, written and acted upon in
   separate steps; the loop runs in between. *)

(* CTcpServer::Start; bound: one such functor is queued at a time. *)
StartThread(t) ==
    /\ Running
    /\ pc # "gone"
    /\ ~listening
    /\ \A f \in Queued : f.op # "listen"
    /\ QueueInLoop([op |-> "listen"])
    /\ UNCHANGED <<conn, acceptor, connMap, loopVars, userVars, failed>>

SendChecks(t, c) ==
    /\ Running
    /\ call[t] = Idle
    /\ c \in held
    /\ conn[c].state = "eConnected"
    /\ sends < MaxSends
    /\ sends' = sends + 1
    /\ call' = [call EXCEPT ![t] = [op |-> "send", conn |-> c, msg |-> Message(t)]]
    /\ UNCHANGED <<conn, acceptor, connMap, loopVars, pending, held, failed>>

ShutDownChecks(t, c) ==
    /\ Running
    /\ call[t] = Idle
    /\ c \in held
    /\ conn[c].state = "eConnected"
    /\ call' = [call EXCEPT ![t] = [op |-> "setstate", conn |-> c]]
    /\ UNCHANGED <<conn, acceptor, connMap, loopVars, pending, held, sends, failed>>

ShutDownSetsState(t) ==
    /\ Running
    /\ call[t].op = "setstate"
    /\ LET c == call[t].conn IN
       /\ Set(c, [conn[c] EXCEPT !.state = "eDisconnecting"])
       /\ call' = [call EXCEPT ![t] = [op |-> "shutdown", conn |-> c]]
    /\ UNCHANGED <<acceptor, connMap, loopVars, pending, held, sends, failed>>

CallQueues(t) ==
    /\ Running
    /\ call[t].op \in {"send", "shutdown"}
    /\ QueueInLoop(call[t])
    /\ call' = [call EXCEPT ![t] = Idle]
    /\ UNCHANGED <<conn, acceptor, connMap, loopVars, held, sends, failed>>
-----------------------------------------------------------------------------
(* The peers and the kernel. *)

(* A peer connects, and gives up before it is accepted. *)
PeerConnects(c) ==
    /\ Running
    /\ listening
    /\ conn[c].state = "none"
    /\ backlog' = backlog \cup {c}
    /\ UNCHANGED <<conn, listening, reading, accepting, connMap, loopVars, pending, userVars, failed>>

PeerGivesUp(c) ==
    /\ Running
    /\ backlog' = backlog \ {c}
    /\ UNCHANGED <<conn, listening, reading, accepting, connMap, loopVars, pending, userVars, failed>>

Peer(c, k) ==
    /\ Running
    /\ Set(c, k)
    /\ UNCHANGED <<acceptor, connMap, loopVars, pending, userVars, failed>>

Open(c) == Alive(c) /\ conn[c].peer = "open"

PeerSends(c) == Open(c) /\ Peer(c, [conn[c] EXCEPT !.unread = TRUE])
PeerFinishes(c) == Open(c) /\ Peer(c, [conn[c] EXCEPT !.peer = "fin"])
PeerResets(c) == Open(c) /\ Peer(c, [conn[c] EXCEPT !.peer = "reset"])
PeerReads(c) == Alive(c) /\ conn[c].full /\ Peer(c, [conn[c] EXCEPT !.full = FALSE])
-----------------------------------------------------------------------------
LoopStep ==
    \/ Poll \/ (\E c \in Conns : BeginEvent(c)) \/ EndEvent
    \/ BeginPendingFunctors \/ EndPendingFunctors
    \/ (\E c \in Conns, fd \in Fds : AcceptConnection(c, fd)) \/ AcceptFails
    \/ UpReturns \/ MessageReturns \/ DownReturns
    \/ HandleHangup \/ ReadMessage \/ ReadError \/ ReadEnd \/ WriteEvent
    \/ RunDestroy \/ RunSend \/ RunShutdown \/ RunListen

OwnerStep ==
    \/ StartLoop \/ LeaveLoop \/ DestroyServer \/ StartOwner \/ Hold
    \/ \E c \in Conns : SendOwner(c) \/ ShutDownOwner(c) \/ Release(c)

ThreadStep(t) ==
    \/ StartThread(t)
    \/ \E c \in Conns : SendChecks(t, c) \/ ShutDownChecks(t, c)
    \/ ShutDownSetsState(t) \/ CallQueues(t)

PeerStep(c) ==
    \/ PeerConnects(c) \/ PeerGivesUp(c)
    \/ PeerSends(c) \/ PeerFinishes(c) \/ PeerResets(c) \/ PeerReads(c)

Next ==
    \/ LoopStep
    \/ OwnerStep
    \/ \E t \in Threads : ThreadStep(t)
    \/ \E c \in Conns : PeerStep(c)

Spec == Init /\ [][Next]_vars

(* The loop goes on and user code returns, a thread finishes the call that it
   has begun, and a peer makes room by reading.  Nobody has to call, to
   connect, to send or to hang up. *)
Fairness ==
    /\ WF_vars(LoopStep)
    /\ \A t \in Threads : WF_vars(ShutDownSetsState(t) \/ CallQueues(t))
    /\ \A c \in Conns : WF_vars(PeerReads(c))

FairSpec == Spec /\ Fairness
=============================================================================
