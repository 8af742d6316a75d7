------------------------------- MODULE Poller -------------------------------
(***************************************************************************)
(* CPoller and the bookkeeping half of CChannel (net/CPoller.cpp,          *)
(* net/CChannel.cpp): the pollfd array handed to poll(2), the map from     *)
(* descriptors to channels, and the index that each channel keeps of its   *)
(* own pollfd.  Everything here runs in the loop thread, one call after    *)
(* the other: while the active channels are handled their callbacks change *)
(* the interests of any channel, and channels are removed between two      *)
(* polls only, because CTcpServer::__RemoveConnection queues the call of   *)
(* ConnectDestroyed.  A descriptor is closed after its channel is removed, *)
(* so its number may come back with another channel.                       *)
(***************************************************************************)
EXTENDS Integers, Sequences

CONSTANTS Channels,   (* CChannel objects *)
          Fd          (* Fd[c]: m_nFd, the descriptor of channel c *)

ASSUME FdAssumption == Fd \in [Channels -> Nat]

VARIABLES
    pollFds,       (* m_vPollFds, without revents *)
    channelsMap,   (* m_mChannelsMap *)
    events,        (* events[c]: m_nEvents *)
    index,         (* index[c]: m_nIndex, counted from 0 *)
    active         (* m_vActiveChannels not yet handled *)

channelVars == <<events, index>>     (* what a CChannel keeps *)
tables == <<pollFds, channelsMap, channelVars>>
vars == <<tables, active>>

Events == {"in", "out"}     (* POLLIN | POLLPRI, POLLOUT *)

(* The descriptor stored for a muted channel, which poll(2) skips. *)
Ignored(fd) == -fd - 1

Registered(c) == Fd[c] \in DOMAIN channelsMap /\ channelsMap[Fd[c]] = c

Init ==
    /\ pollFds = <<>>
    /\ channelsMap = [fd \in {} |-> {}]
    /\ events = [c \in Channels |-> {}]
    /\ index = [c \in Channels |-> -1]
    /\ active = <<>>
-----------------------------------------------------------------------------
(* UpdateChannel. *)

AddPollFd(c, ev) ==
    /\ index[c] < 0
    /\ pollFds' = Append(pollFds, [fd |-> Fd[c], events |-> ev])
    /\ index' = [index EXCEPT ![c] = Len(pollFds)]
    /\ channelsMap' = [fd \in DOMAIN channelsMap \cup {Fd[c]} |->
                          IF fd = Fd[c] THEN c ELSE channelsMap[fd]]

(* Mutant: events are stored for a channel that has none left only. *)
ModifyPollFdStale(c, ev) ==
    /\ index[c] >= 0
    /\ pollFds' = IF ev = {}
                  THEN [pollFds EXCEPT ![index[c] + 1] =
                           [fd |-> Ignored(Fd[c]), events |-> {}]]
                  ELSE pollFds
    /\ UNCHANGED <<index, channelsMap>>

(* A pollfd that was muted stays so: nothing stores the descriptor again. *)
ModifyPollFd(c, ev) ==
    /\ index[c] >= 0
    /\ pollFds' = [pollFds EXCEPT ![index[c] + 1] =
                      [fd |-> IF ev = {} THEN Ignored(Fd[c]) ELSE @.fd, events |-> ev]]
    /\ UNCHANGED <<index, channelsMap>>

(* The channel stores its new interests and calls UpdateChannel.  A new
   channel's descriptor is its own, and a removed channel is not used. *)
UpdateChannel(c, ev) ==
    /\ Registered(c) \/ (index[c] = -1 /\ Fd[c] \notin DOMAIN channelsMap)
    /\ events' = [events EXCEPT ![c] = ev]
    /\ AddPollFd(c, ev) \/ ModifyPollFd(c, ev)
    /\ UNCHANGED active

SetEnableReading(c) == UpdateChannel(c, events[c] \cup {"in"})
SetEnableWriting(c) == UpdateChannel(c, events[c] \cup {"out"})

(* No caller withdraws interests of a channel that never had one. *)
DisableWriting(c) == index[c] >= 0 /\ UpdateChannel(c, events[c] \ {"out"})
DisableAll(c) == index[c] >= 0 /\ UpdateChannel(c, {})
-----------------------------------------------------------------------------
(* RemoveChannel moves the last pollfd into the hole. *)

IsNoneEvent(c) == events[c] = {}

LastPollFd == pollFds[Len(pollFds)]

(* The channel of the last pollfd, muted or not: Ignored is its own inverse. *)
ChannelAtEnd ==
    channelsMap[IF LastPollFd.fd < 0 THEN Ignored(LastPollFd.fd) ELSE LastPollFd.fd]

(* Mutant: the channel that moves keeps its old index. *)
RemoveChannelForgetful(c) ==
    /\ Registered(c)
    /\ IsNoneEvent(c)
    /\ active = <<>>
    /\ channelsMap' = [fd \in DOMAIN channelsMap \ {Fd[c]} |-> channelsMap[fd]]
    /\ pollFds' = [i \in 1..Len(pollFds) - 1 |->
                      IF i = index[c] + 1 THEN LastPollFd ELSE pollFds[i]]
    /\ UNCHANGED <<index, events, active>>

(* Mutant: the vector keeps its length, and its last pollfd is there twice. *)
RemoveChannelKeepsLast(c) ==
    /\ Registered(c)
    /\ IsNoneEvent(c)
    /\ active = <<>>
    /\ channelsMap' = [fd \in DOMAIN channelsMap \ {Fd[c]} |-> channelsMap[fd]]
    /\ IF index[c] = Len(pollFds) - 1
       THEN UNCHANGED index
       ELSE index' = [index EXCEPT ![ChannelAtEnd] = index[c]]
    /\ pollFds' = [pollFds EXCEPT ![index[c] + 1] = LastPollFd]
    /\ UNCHANGED <<events, active>>

RemoveChannel(c) ==
    /\ Registered(c)
    /\ IsNoneEvent(c)
    /\ active = <<>>
    /\ channelsMap' = [fd \in DOMAIN channelsMap \ {Fd[c]} |-> channelsMap[fd]]
    /\ IF index[c] = Len(pollFds) - 1
       THEN UNCHANGED index
       ELSE index' = [index EXCEPT ![ChannelAtEnd] = index[c]]
    /\ pollFds' = [i \in 1..Len(pollFds) - 1 |->
                      IF i = index[c] + 1 THEN LastPollFd ELSE pollFds[i]]
    /\ UNCHANGED <<events, active>>
-----------------------------------------------------------------------------
(* Poll and the dispatch of what it found. *)

(* poll(2) finds n of the descriptors that it does not skip, for the events
   they ask for, an error or a hangup; __FillActiveChannels looks up their
   channels in the order of the array. *)
Poll ==
    /\ active = <<>>
    /\ \E n \in 1..Len(pollFds) : \E at \in [1..n -> DOMAIN pollFds] :
          /\ \A k \in 1..n : pollFds[at[k]].fd >= 0
          /\ \A k, m \in 1..n : k < m => at[k] < at[m]
          /\ active' = [k \in 1..n |-> channelsMap[pollFds[at[k]].fd]]
    /\ UNCHANGED tables

(* HandleEvent of the next active channel; what its callbacks do to the
   interests of channels are steps of their own. *)
HandleEvent ==
    /\ active # <<>>
    /\ active' = Tail(active)
    /\ UNCHANGED tables
-----------------------------------------------------------------------------
Next ==
    \/ \E c \in Channels :
          \/ SetEnableReading(c) \/ SetEnableWriting(c)
          \/ DisableWriting(c) \/ DisableAll(c)
          \/ RemoveChannel(c)
    \/ Poll
    \/ HandleEvent

Spec == Init /\ [][Next]_vars
=============================================================================
