------------------------------ MODULE PollSet -------------------------------
(***************************************************************************)
(* What CPoller promises CEventLoop and the channels: each channel is      *)
(* polled for the events it last asked for, until it first asks for none;  *)
(* from then on it is never reported again.  And what it takes for granted *)
(* of who uses it: a new channel has a descriptor of its own and something *)
(* to ask for, a channel is removed once it asks for nothing and when no   *)
(* reported channel is left to be handled, and it is not used after that.  *)
(* The pollfd array, the indices, the map and the negative descriptors are *)
(* absent.                                                                 *)
(***************************************************************************)

CONSTANTS Channels, Fds, Events

VARIABLES known,      (* the channels that ever called UpdateChannel *)
          fds,        (* fds[c]: the descriptor of a registered channel *)
          asked,      (* asked[c]: the events that c last asked for *)
          interest,   (* interest[c]: the events that poll(2) waits for *)
          active      (* the channels reported and not yet handled *)

vars == <<known, fds, asked, interest, active>>

Init ==
    /\ known = {}
    /\ fds = [c \in {} |-> 0]
    /\ asked = [c \in Channels |-> {}]
    /\ interest = [c \in {} |-> {}]
    /\ active = {}

(* The channels polled once c has asked for ev. *)
Watched(c, ev) ==
    IF c \notin known THEN DOMAIN interest \cup {c}
    ELSE IF ev = {} THEN DOMAIN interest \ {c}
    ELSE DOMAIN interest

Ask(c, ev) ==
    /\ known' = known \cup {c}
    /\ asked' = [asked EXCEPT ![c] = ev]
    /\ interest' = [d \in Watched(c, ev) |-> IF d = c THEN ev ELSE interest[d]]
    /\ UNCHANGED active

Register(c, fd, ev) ==
    /\ c \notin known
    /\ \A d \in DOMAIN fds : fds[d] # fd
    /\ ev # {}
    /\ fds' = [d \in DOMAIN fds \cup {c} |-> IF d = c THEN fd ELSE fds[d]]
    /\ Ask(c, ev)

Update(c, ev) ==
    /\ c \in DOMAIN fds
    /\ UNCHANGED fds
    /\ Ask(c, ev)

Remove(c) ==
    /\ c \in DOMAIN fds
    /\ asked[c] = {}
    /\ active = {}
    /\ fds' = [d \in DOMAIN fds \ {c} |-> fds[d]]
    /\ UNCHANGED <<known, asked, interest, active>>

Report ==
    /\ active = {}
    /\ active' \in SUBSET DOMAIN interest
    /\ UNCHANGED <<known, fds, asked, interest>>

Handle(c) ==
    /\ c \in active
    /\ active' = active \ {c}
    /\ UNCHANGED <<known, fds, asked, interest>>

Next ==
    \/ \E c \in Channels :
          \/ \E ev \in SUBSET Events : Update(c, ev) \/ \E fd \in Fds : Register(c, fd, ev)
          \/ Remove(c)
          \/ Handle(c)
    \/ Report

Spec == Init /\ [][Next]_vars
=============================================================================
