--------------------------- MODULE TcpConnection ----------------------------
(***************************************************************************)
(* CTcpConnection (net/CTcpConnection.cpp) as seen by the loop thread: one *)
(* record per connection and what each function makes of it.  A record     *)
(* holds the members of the object, of its channel and of its output       *)
(* buffer, and the peer's side of the socket.  TcpServer calls these from  *)
(* the loop, the server and other threads.                                 *)
(*                                                                         *)
(* A message is sent in two parts, so that a write can be short; the input *)
(* buffer is Buffer's subject and only unread input matters here.          *)
(***************************************************************************)
EXTENDS Naturals, Sequences

CONSTANTS
    BacklogEvents  (* what __SendInLoop may ask to be polled for when output
                      is left: SetEnableReading, {"in"}, is the code; with
                      "out" in the set __HandleWrite is exercised as well *)

ASSUME BacklogAssumption == BacklogEvents \subseteq {"in", "out"} /\ BacklogEvents # {}

(* ESTATE, with "none" before the constructor. *)
States == {"none", "eConnecting", "eConnected", "eDisconnecting", "eDisconnected"}

(* The channel in the poller, as in PollSet: muted from its first DisableAll
   on, whatever is enabled later. *)
Polling == {"new", "polled", "muted", "removed"}

Peers == {"open", "fin", "reset", "eof"}

(* CTcpConnection after its constructor: fd is open, nothing is polled. *)
NewConnection(fd) ==
    [state  |-> "eConnecting",
     fd     |-> fd,
     events |-> {},        (* the channel's m_nEvents *)
     poll   |-> "new",     (* the channel in the poller *)
     out    |-> <<>>,      (* m_iOutputBuffer *)
     wire   |-> <<>>,      (* parts handed to the kernel (history) *)
     sent   |-> <<>>,      (* messages given to __SendInLoop (history) *)
     shut   |-> FALSE,     (* shutdown(SHUT_WR) done *)
     heard  |-> "nothing", (* last callback of the user (history) *)
     peer   |-> "open",    (* what the peer did to the connection *)
     unread |-> FALSE,     (* input waits in the kernel *)
     full   |-> FALSE]     (* the kernel takes no more output *)

NoConnection == [NewConnection(0) EXCEPT !.state = "none"]

Parts(m) == <<<<m, 1>>, <<m, 2>>>>

IsWriting(k) == "out" \in k.events

(* A write fails for good on a half-closed or dead connection. *)
Broken(k) == k.shut \/ k.peer \in {"reset", "eof"}

(* The lengths of data that write(2) may take; none when it fails. *)
Writes(k, data) ==
    IF k.full \/ Broken(k) THEN {0} ELSE 1..Len(data)

(* write(2) took the first n parts of data; less than all means no room. *)
Wrote(k, data, n) ==
    [k EXCEPT !.wire = @ \o SubSeq(data, 1, n),
              !.full = @ \/ (~Broken(k) /\ n < Len(data))]

Rest(data, n) == SubSeq(data, n + 1, Len(data))
-----------------------------------------------------------------------------
(* Mutant: a channel that asks for no events keeps being polled. *)
AskedNoMute(k, ev) == [k EXCEPT !.events = ev, !.poll = IF @ = "new" THEN "polled" ELSE @]

(* CChannel's SetEnable and Disable functions with UpdateChannel. *)
Asked(k, ev) ==
    [k EXCEPT !.events = ev,
              !.poll = IF @ = "new" THEN "polled" ELSE IF ev = {} THEN "muted" ELSE @]

(* __HandleError: fetching the socket's error clears it. *)
GetSocketError(k) == [k EXCEPT !.peer = "eof"]

(* shutdown(2) of the sending side. *)
ShutdownWrite(k) == [k EXCEPT !.shut = TRUE]

(* Mutant: output that is being written is not waited for. *)
ShutdownInLoopAtOnce(k) == ShutdownWrite(k)

(* __ShutdownInLoop. *)
ShutdownInLoop(k) == IF IsWriting(k) THEN k ELSE ShutdownWrite(k)

(* The records that __SendInLoop may leave: what the kernel does not take
   goes to the output buffer, and the channel asks for more. *)
Buffered(k, data) ==
    LET b == [k EXCEPT !.out = @ \o data] IN
    IF data = <<>> \/ IsWriting(k) THEN {b}
    ELSE {Asked(b, k.events \cup {ev}) : ev \in BacklogEvents}

SendInLoop(k, m) ==
    LET s == [k EXCEPT !.sent = Append(@, m)] IN
    IF ~IsWriting(k) /\ k.out = <<>>
    THEN UNION {Buffered(Wrote(s, Parts(m), n), Rest(Parts(m), n)) : n \in Writes(k, Parts(m))}
    ELSE Buffered(s, Parts(m))

(* __HandleWrite. *)
HandleWrite(k) ==
    IF ~IsWriting(k) THEN {k}
    ELSE {LET w == [Wrote(k, k.out, n) EXCEPT !.out = Rest(k.out, n)] IN
          IF n = 0 \/ w.out # <<>> THEN w
          ELSE LET d == Asked(w, w.events \ {"out"}) IN
               IF d.state = "eDisconnecting" THEN ShutdownInLoop(d) ELSE d
          : n \in Writes(k, k.out)}

IsConnected(k) == k.state = "eConnected"

(* The connection callback: its user asks IsConnected what happened. *)
Told(k) == [k EXCEPT !.heard = IF IsConnected(k) THEN "up" ELSE "down"]

(* ConnectEstablished. *)
Established(k) ==
    Told(Asked([k EXCEPT !.state = "eConnected"], k.events \cup {"in"}))

(* __HandleClose up to the close callback. *)
Closing(k) == Asked(k, {})

(* Mutant: the state is set after the callback. *)
DownLate(k) == [Told(Asked(k, {})) EXCEPT !.state = "eDisconnected"]

(* ConnectDestroyed with its connection callback, and its last line. *)
Down(k) == Told(Asked([k EXCEPT !.state = "eDisconnected"], {}))
Removed(k) == [k EXCEPT !.poll = "removed"]
=============================================================================
