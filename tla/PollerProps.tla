---------------------------- MODULE PollerProps -----------------------------
(* The properties of Poller. *)
EXTENDS Poller

(* Every member has its type; an index is -1 or one that the array had. *)
TypeOK ==
    /\ pollFds \in Seq([fd : Int, events : SUBSET Events])
    /\ DOMAIN channelsMap \subseteq {Fd[c] : c \in Channels}
    /\ \A fd \in DOMAIN channelsMap : channelsMap[fd] \in Channels
    /\ events \in [Channels -> SUBSET Events]
    /\ index \in [Channels -> Int]
    /\ active \in Seq(Channels)

(* What UpdateChannel asserts of a channel it finds in the map
   (CPoller.cpp:66, 68). *)
UpdateAsserts(c) ==
    /\ index[c] \in 0..Len(pollFds) - 1
    /\ pollFds[index[c] + 1].fd \in {Fd[c], Ignored(Fd[c])}

(* What RemoveChannel asserts of a channel that has no interests
   (CPoller.cpp:108, 110). *)
RemoveAsserts(c) ==
    /\ index[c] \in 0..Len(pollFds) - 1
    /\ pollFds[index[c] + 1] = [fd |-> Ignored(Fd[c]), events |-> events[c]]

(* What __FillActiveChannels asserts of a pollfd with events
   (CPoller.cpp:91, 93). *)
FillAsserts(fd) == fd \in DOMAIN channelsMap /\ Fd[channelsMap[fd]] = fd

(* The three tables agree whatever was added, muted and removed in whatever
   order: no assert of CPoller about a channel it knows can fail.  A removal
   moves another channel's pollfd, which may be a muted one, and a number
   comes back with a new channel. *)
AssertsHold ==
    /\ \A c \in Channels : Registered(c) => UpdateAsserts(c)
    /\ \A c \in Channels : Registered(c) /\ events[c] = {} => RemoveAsserts(c)
    /\ \A i \in DOMAIN pollFds : pollFds[i].fd >= 0 => FillAsserts(pollFds[i].fd)

(* What poll(2) is asked: the array alone, without the indices. *)
Watched == {i \in DOMAIN pollFds : pollFds[i].fd >= 0}
Interest ==
    [c \in {channelsMap[pollFds[i].fd] : i \in Watched} |->
        UNION {pollFds[i].events : i \in {j \in Watched : pollFds[j].fd = Fd[c]}}]

(* A poll reports each channel once, whatever was removed and added before:
   HandleEvent is never called twice for the same events (CPoller.cpp:82-97). *)
ReportedOnce == \A i, j \in DOMAIN active : active[i] = active[j] => i = j

(* The channels that ever called UpdateChannel, those in the map, their
   descriptors, and the reported ones that are not yet handled. *)
Known == {c \in Channels : index[c] >= 0}
InMap == {c \in Channels : Registered(c)}
Descriptors == [c \in InMap |-> Fd[c]]
ToHandle == {active[i] : i \in DOMAIN active}

(* The array asks poll(2) for exactly the interests of the channels, no
   other channel's pollfd is disturbed by an update or a removal, and only
   channels that are watched are reported (CPoller.cpp:45-128). *)
Promise == INSTANCE PollSet
              WITH known <- Known, fds <- Descriptors, asked <- events,
                   interest <- Interest, active <- ToHandle,
                   Fds <- {Fd[c] : c \in Channels}
ImplementsPollSet == Promise!Spec
=============================================================================
