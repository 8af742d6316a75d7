---------------------------- MODULE PollerProofs ----------------------------
(***************************************************************************)
(* Proofs, for any channels and descriptors, that CPoller's three tables   *)
(* agree, so that none of its asserts about a known channel can fail, and  *)
(* that they implement PollSet.                                            *)
(***************************************************************************)
EXTENDS PollerProps, TLAPS

(* A registered channel's index leads to its own pollfd, which holds its
   events and is muted if there are none. *)
IndexInv ==
    \A c \in Channels : Registered(c) =>
        /\ index[c] + 1 \in DOMAIN pollFds
        /\ pollFds[index[c] + 1].fd \in {Fd[c], Ignored(Fd[c])}
        /\ pollFds[index[c] + 1].events = events[c]
        /\ events[c] = {} => pollFds[index[c] + 1].fd = Ignored(Fd[c])

(* Every pollfd is some registered channel's. *)
OwnerInv ==
    \A i \in DOMAIN pollFds : \E c \in Channels : Registered(c) /\ index[c] = i - 1

IInv == IndexInv /\ OwnerInv

PollFd == [fd : Int, events : SUBSET Events]

USE FdAssumption

-----------------------------------------------------------------------------
(* Muting a descriptor loses nothing: the stored number tells both the
   descriptor and that it is muted, for descriptor 0 too. *)
LEMMA IgnoredIsInverse ==
    ASSUME NEW fd \in Nat
    PROVE  Ignored(fd) \in Int /\ Ignored(fd) < 0 /\ Ignored(Ignored(fd)) = fd
  BY DEF Ignored

(* Two registered channels with one index are one channel. *)
LEMMA IndexInjective ==
    ASSUME IndexInv, NEW c \in Channels, NEW d \in Channels,
           Registered(c), Registered(d), index[c] = index[d]
    PROVE  c = d
<1>1. Fd[c] \in Nat /\ Fd[d] \in Nat
  OBVIOUS
<1>2. Fd[c] = Fd[d]
  BY <1>1 DEF IndexInv, Ignored
<1> QED
  BY <1>2 DEF Registered

(* The channel that RemoveChannel finds through the last pollfd is the
   registered one whose index is the last. *)
LEMMA ChannelAtEndIsLast ==
    ASSUME TypeOK, IInv, Len(pollFds) > 0
    PROVE  /\ ChannelAtEnd \in Channels
           /\ Registered(ChannelAtEnd)
           /\ index[ChannelAtEnd] = Len(pollFds) - 1
<1>1. Len(pollFds) \in DOMAIN pollFds
  BY DEF TypeOK
<1>2. PICK c \in Channels : Registered(c) /\ index[c] = Len(pollFds) - 1
  BY <1>1 DEF IInv, OwnerInv
<1>3. LastPollFd.fd \in {Fd[c], Ignored(Fd[c])}
  BY <1>1, <1>2 DEF IInv, IndexInv, LastPollFd, TypeOK
<1>4. Fd[c] \in Nat
  OBVIOUS
<1>5. ChannelAtEnd = channelsMap[Fd[c]]
  BY <1>3, <1>4 DEF ChannelAtEnd, Ignored
<1> QED
  BY <1>2, <1>5 DEF Registered

-----------------------------------------------------------------------------
(* What UpdateChannel does to the tables, for a new channel and for one that
   the map knows. *)
LEMMA AddKeepsInv ==
    ASSUME TypeOK, IInv, NEW c \in Channels, NEW ev \in SUBSET Events, ev # {},
           Fd[c] \notin DOMAIN channelsMap, AddPollFd(c, ev),
           events' = [events EXCEPT ![c] = ev], UNCHANGED active
    PROVE  TypeOK' /\ IInv'
<1> DEFINE n == Len(pollFds)
<1>1. /\ [fd |-> Fd[c], events |-> ev] \in PollFd
      /\ pollFds \in Seq(PollFd) /\ n \in Nat
  BY DEF TypeOK, PollFd
<1>2. /\ pollFds' \in Seq(PollFd)
      /\ DOMAIN pollFds' = 1..n + 1
      /\ pollFds'[n + 1] = [fd |-> Fd[c], events |-> ev]
      /\ \A i \in DOMAIN pollFds : pollFds'[i] = pollFds[i]
  BY <1>1 DEF AddPollFd
<1>3. /\ events' \in [Channels -> SUBSET Events] /\ events'[c] = ev
      /\ \A d \in Channels : d # c => events'[d] = events[d]
  BY DEF TypeOK
<1>4. /\ index' \in [Channels -> Int] /\ index'[c] = n
      /\ \A d \in Channels : d # c => index'[d] = index[d]
  BY <1>1 DEF TypeOK, AddPollFd
<1>5. /\ DOMAIN channelsMap' = DOMAIN channelsMap \cup {Fd[c]}
      /\ channelsMap'[Fd[c]] = c
      /\ \A fd \in DOMAIN channelsMap : channelsMap'[fd] = channelsMap[fd]
  BY DEF AddPollFd
<1>6. Registered(c)' /\ \A d \in Channels : d # c => (Registered(d)' <=> Registered(d))
  BY <1>5 DEF Registered
<1>7. TypeOK'
  BY <1>2, <1>3, <1>4, <1>5 DEF TypeOK, PollFd
<1>8. IndexInv'
  BY <1>1, <1>2, <1>3, <1>4, <1>6 DEF IInv, IndexInv
<1>9. OwnerInv'
  <2> SUFFICES ASSUME NEW i \in DOMAIN pollFds'
               PROVE  \E d \in Channels : Registered(d)' /\ index'[d] = i - 1
    BY DEF OwnerInv
  <2>1. CASE i = n + 1
    BY <1>4, <1>6, <2>1
  <2>2. CASE i # n + 1
    <3>1. i \in DOMAIN pollFds
      BY <1>1, <1>2, <2>2
    <3>2. PICK d \in Channels : Registered(d) /\ index[d] = i - 1
      BY <3>1 DEF IInv, OwnerInv
    <3>3. d # c
      BY <3>2 DEF Registered
    <3> QED
      BY <1>4, <1>6, <3>2, <3>3
  <2> QED
    BY <2>1, <2>2
<1> QED
  BY <1>7, <1>8, <1>9 DEF IInv

LEMMA ModifyKeepsInv ==
    ASSUME TypeOK, IInv, NEW c \in Channels, NEW ev \in SUBSET Events,
           Registered(c), ModifyPollFd(c, ev),
           events' = [events EXCEPT ![c] = ev], UNCHANGED active
    PROVE  TypeOK' /\ IInv'
<1> DEFINE k == index[c] + 1
           e == [fd |-> IF ev = {} THEN Ignored(Fd[c]) ELSE pollFds[k].fd, events |-> ev]
<1>1. /\ pollFds \in Seq(PollFd) /\ k \in DOMAIN pollFds
      /\ pollFds[k] \in PollFd
      /\ pollFds[k].fd \in {Fd[c], Ignored(Fd[c])}
  <2>1. pollFds \in Seq(PollFd)
    BY DEF TypeOK, PollFd
  <2>2. k \in DOMAIN pollFds /\ pollFds[k].fd \in {Fd[c], Ignored(Fd[c])}
    BY DEF IInv, IndexInv
  <2>3. pollFds[k] \in PollFd
    BY <2>1, <2>2
  <2> QED
    BY <2>1, <2>2, <2>3
<1>2. Fd[c] \in Nat /\ Ignored(Fd[c]) \in Int
  BY DEF Ignored
<1>3. e \in PollFd /\ e.fd \in {Fd[c], Ignored(Fd[c])} /\ e.events = ev
      /\ (ev = {} => e.fd = Ignored(Fd[c]))
  BY <1>1, <1>2 DEF PollFd
<1>4. /\ pollFds' \in Seq(PollFd) /\ DOMAIN pollFds' = DOMAIN pollFds
      /\ pollFds'[k] = e
      /\ \A i \in DOMAIN pollFds : i # k => pollFds'[i] = pollFds[i]
  <2>1. pollFds' = [pollFds EXCEPT ![k] = e]
    BY DEF ModifyPollFd
  <2> QED
    BY <1>1, <1>3, <2>1
<1>5. /\ events' \in [Channels -> SUBSET Events] /\ events'[c] = ev
      /\ \A d \in Channels : d # c => events'[d] = events[d]
  BY DEF TypeOK
<1>6. UNCHANGED <<index, channelsMap>>
  BY DEF ModifyPollFd
<1>7. \A d \in Channels : Registered(d)' <=> Registered(d)
  BY <1>6 DEF Registered
<1>8. \A d \in Channels : Registered(d) /\ d # c => index[d] + 1 # k
  BY IndexInjective DEF IInv, TypeOK
<1>9. TypeOK'
  BY <1>4, <1>5, <1>6 DEF TypeOK, PollFd
<1>10. IndexInv'
  BY <1>1, <1>3, <1>4, <1>5, <1>6, <1>7, <1>8 DEF IInv, IndexInv
<1>11. OwnerInv'
  BY <1>4, <1>6, <1>7 DEF IInv, OwnerInv
<1> QED
  BY <1>9, <1>10, <1>11 DEF IInv

LEMMA RemoveKeepsInv ==
    ASSUME TypeOK, IInv, NEW c \in Channels, RemoveChannel(c)
    PROVE  TypeOK' /\ IInv'
<1> DEFINE n == Len(pollFds)
           k == index[c] + 1
           last == ChannelAtEnd
<1>1. /\ pollFds \in Seq(PollFd) /\ n \in Nat /\ n > 0
      /\ k \in 1..n /\ Registered(c)
  BY DEF TypeOK, PollFd, IInv, IndexInv, RemoveChannel, IsNoneEvent
<1>2. last \in Channels /\ Registered(last) /\ index[last] = n - 1
  BY <1>1, ChannelAtEndIsLast
<1>3. \A d \in Channels : Registered(d) =>
         /\ index[d] + 1 \in 1..n
         /\ d # c => index[d] + 1 # k
         /\ d # last => index[d] + 1 # n
  <2> SUFFICES ASSUME NEW d \in Channels, Registered(d)
               PROVE  /\ index[d] + 1 \in 1..n
                      /\ d # c => index[d] + 1 # k
                      /\ d # last => index[d] + 1 # n
    OBVIOUS
  <2>1. index[d] \in Int /\ index[c] \in Int /\ index[last] = n - 1
    BY <1>2 DEF TypeOK
  <2>2. index[d] + 1 \in 1..n
    BY <1>1 DEF IInv, IndexInv
  <2>3. d # c => index[d] # index[c]
    BY <1>1, IndexInjective DEF IInv
  <2>4. d # last => index[d] # index[last]
    BY <1>2, IndexInjective DEF IInv
  <2> QED
    BY <1>1, <2>1, <2>2, <2>3, <2>4
<1>4. /\ pollFds' \in Seq(PollFd) /\ DOMAIN pollFds' = 1..n - 1
      /\ \A i \in 1..n - 1 : pollFds'[i] = IF i = k THEN pollFds[n] ELSE pollFds[i]
  <2>1. pollFds' = [i \in 1..n - 1 |-> IF i = k THEN pollFds[n] ELSE pollFds[i]]
    BY DEF RemoveChannel, LastPollFd
  <2>2. \A i \in 1..n : pollFds[i] \in PollFd
    BY <1>1
  <2> QED
    BY <1>1, <2>1, <2>2
<1>5. /\ DOMAIN channelsMap' = DOMAIN channelsMap \ {Fd[c]}
      /\ \A fd \in DOMAIN channelsMap' : channelsMap'[fd] = channelsMap[fd]
      /\ UNCHANGED <<events, active>>
  BY DEF RemoveChannel
<1>6. ~Registered(c)' /\ \A d \in Channels : d # c => (Registered(d)' <=> Registered(d))
  BY <1>1, <1>5 DEF Registered
<1>7. /\ index' \in [Channels -> Int]
      /\ \A d \in Channels : Registered(d) /\ d # c =>
            index'[d] = IF d = last THEN k - 1 ELSE index[d]
  <2>1. CASE index[c] = n - 1
    <3>1. c = last
      BY <1>1, <1>2, <2>1, IndexInjective DEF IInv
    <3> QED
      BY <2>1, <3>1 DEF RemoveChannel, TypeOK
  <2>2. CASE index[c] # n - 1
    <3>1. index' = [index EXCEPT ![last] = index[c]]
      BY <2>2 DEF RemoveChannel
    <3> QED
      BY <1>2, <3>1 DEF TypeOK
  <2> QED
    BY <2>1, <2>2
<1>8. TypeOK'
  BY <1>4, <1>5, <1>7 DEF TypeOK, PollFd
<1>9. IndexInv'
  <2> SUFFICES ASSUME NEW d \in Channels, Registered(d)'
               PROVE  /\ index'[d] + 1 \in DOMAIN pollFds'
                      /\ pollFds'[index'[d] + 1] = pollFds[index[d] + 1]
    BY <1>5, <1>6 DEF IInv, IndexInv
  <2>1. Registered(d) /\ d # c
    BY <1>6
  <2>2. index[d] \in Int /\ index[c] \in Int
    BY DEF TypeOK
  <2>3. CASE d = last
    <3>1. index'[d] = k - 1
      BY <1>7, <2>1, <2>3
    <3>2. n # k
      BY <1>2, <1>3, <2>1, <2>3
    <3>3. k \in 1..n - 1 /\ index'[d] + 1 = k
      BY <1>1, <2>2, <3>1, <3>2
    <3>4. index[d] + 1 = n
      BY <1>1, <1>2, <2>3
    <3> QED
      BY <1>4, <3>3, <3>4
  <2>4. CASE d # last
    <3>1. index'[d] = index[d]
      BY <1>7, <2>1, <2>4
    <3>2. index[d] + 1 \in 1..n /\ index[d] + 1 # k /\ index[d] + 1 # n
      BY <1>3, <2>1, <2>4
    <3>3. index[d] + 1 \in 1..n - 1
      BY <1>1, <2>2, <3>2
    <3> QED
      BY <1>4, <3>1, <3>2, <3>3
  <2> QED
    BY <2>3, <2>4
<1>10. OwnerInv'
  <2> SUFFICES ASSUME NEW i \in 1..n - 1
               PROVE  \E d \in Channels : Registered(d)' /\ index'[d] = i - 1
    BY <1>4 DEF OwnerInv
  <2>1. CASE i = k
    <3>1. last # c
      BY <1>1, <1>2, <2>1
    <3> QED
      BY <1>1, <1>2, <1>6, <1>7, <2>1, <3>1
  <2>2. CASE i # k
    <3>0. i \in DOMAIN pollFds
      BY <1>1
    <3>1. PICK d \in Channels : Registered(d) /\ index[d] = i - 1
      BY <3>0 DEF IInv, OwnerInv
    <3>2. d # c /\ d # last
      BY <1>1, <1>2, <2>2, <3>1
    <3> QED
      BY <1>6, <1>7, <3>1, <3>2
  <2> QED
    BY <2>1, <2>2
<1> QED
  BY <1>8, <1>9, <1>10 DEF IInv

(* UpdateChannel finds the channel where its index says, or adds one that
   asks for something. *)
LEMMA UpdateKeepsInv ==
    ASSUME TypeOK, IInv, NEW c \in Channels, NEW ev \in SUBSET Events,
           index[c] >= 0 \/ ev # {}, UpdateChannel(c, ev)
    PROVE  TypeOK' /\ IInv'
<1>1. index[c] \in Int
  BY DEF TypeOK
<1>2. UNCHANGED active /\ events' = [events EXCEPT ![c] = ev]
  BY DEF UpdateChannel
<1>3. CASE index[c] >= 0
  <2>1. Registered(c) /\ ModifyPollFd(c, ev)
    BY <1>1, <1>3 DEF UpdateChannel, AddPollFd
  <2> QED
    BY <1>2, <2>1, ModifyKeepsInv
<1>4. CASE index[c] < 0
  <2>1. ~Registered(c)
    BY <1>1, <1>4 DEF IInv, IndexInv, TypeOK
  <2>2. Fd[c] \notin DOMAIN channelsMap /\ AddPollFd(c, ev) /\ ev # {}
    BY <1>1, <1>4, <2>1 DEF UpdateChannel, ModifyPollFd
  <2> QED
    BY <1>2, <2>2, AddKeepsInv
<1> QED
  BY <1>1, <1>3, <1>4

LEMMA PollKeepsInv == TypeOK /\ IInv /\ (Poll \/ HandleEvent) => TypeOK' /\ IInv'
<1> SUFFICES ASSUME TypeOK, IInv, Poll \/ HandleEvent
             PROVE  TypeOK' /\ IInv'
  OBVIOUS
<1>1. UNCHANGED tables
  BY DEF Poll, HandleEvent
<1>2. IInv'
  BY <1>1 DEF tables, channelVars, IInv, IndexInv, OwnerInv, Registered
<1>3. active' \in Seq(Channels)
  <2>1. CASE HandleEvent
    BY <2>1 DEF HandleEvent, TypeOK
  <2>2. CASE Poll
    <3>0. PICK n \in 1..Len(pollFds) : \E at \in [1..n -> DOMAIN pollFds] :
             /\ \A k \in 1..n : pollFds[at[k]].fd >= 0
             /\ active' = [k \in 1..n |-> channelsMap[pollFds[at[k]].fd]]
      BY <2>2 DEF Poll
    <3>1. PICK at \in [1..n -> DOMAIN pollFds] :
             /\ \A k \in 1..n : pollFds[at[k]].fd >= 0
             /\ active' = [k \in 1..n |-> channelsMap[pollFds[at[k]].fd]]
      BY <3>0
    <3>2. ASSUME NEW k \in 1..n
          PROVE  channelsMap[pollFds[at[k]].fd] \in Channels
      <4>1. at[k] \in DOMAIN pollFds /\ pollFds[at[k]].fd >= 0
        BY <3>1
      <4>2. PICK c \in Channels : Registered(c) /\ index[c] = at[k] - 1
        BY <4>1 DEF IInv, OwnerInv
      <4>3. at[k] \in Int
        BY <4>1 DEF TypeOK
      <4>4. index[c] + 1 = at[k]
        BY <4>2, <4>3
      <4>5. pollFds[at[k]].fd \in {Fd[c], Ignored(Fd[c])} /\ Fd[c] \in Nat
        BY <4>2, <4>4 DEF IInv, IndexInv
      <4>6. pollFds[at[k]].fd = Fd[c]
        BY <4>1, <4>5 DEF Ignored
      <4> QED
        BY <4>2, <4>6 DEF Registered
    <3>3. n \in Nat
      BY DEF TypeOK
    <3> QED
      BY <3>1, <3>2, <3>3
  <2> QED
    BY <2>1, <2>2
<1> QED
  BY <1>1, <1>2, <1>3 DEF tables, channelVars, TypeOK

LEMMA InvStep == TypeOK /\ IInv /\ [Next]_vars => TypeOK' /\ IInv'
<1> SUFFICES ASSUME TypeOK, IInv, [Next]_vars
             PROVE  TypeOK' /\ IInv'
  OBVIOUS
<1>1. ASSUME NEW c \in Channels
      PROVE  /\ events[c] \cup {"in"} \in SUBSET Events
             /\ events[c] \cup {"out"} \in SUBSET Events
             /\ events[c] \ {"out"} \in SUBSET Events
             /\ {} \in SUBSET Events
             /\ events[c] \cup {"in"} # {} /\ events[c] \cup {"out"} # {}
  BY DEF TypeOK, Events
<1>2. ASSUME NEW c \in Channels, SetEnableReading(c) PROVE TypeOK' /\ IInv'
  BY <1>1, <1>2, UpdateKeepsInv DEF SetEnableReading
<1>3. ASSUME NEW c \in Channels, SetEnableWriting(c) PROVE TypeOK' /\ IInv'
  BY <1>1, <1>3, UpdateKeepsInv DEF SetEnableWriting
<1>4. ASSUME NEW c \in Channels, DisableWriting(c) PROVE TypeOK' /\ IInv'
  BY <1>1, <1>4, UpdateKeepsInv DEF DisableWriting
<1>5. ASSUME NEW c \in Channels, DisableAll(c) PROVE TypeOK' /\ IInv'
  BY <1>1, <1>5, UpdateKeepsInv DEF DisableAll
<1>6. ASSUME NEW c \in Channels, RemoveChannel(c) PROVE TypeOK' /\ IInv'
  BY <1>6, RemoveKeepsInv
<1>7. CASE Poll \/ HandleEvent
  BY <1>7, PollKeepsInv
<1>8. CASE UNCHANGED vars
  BY <1>8 DEF vars, tables, channelVars, TypeOK, IInv, IndexInv, OwnerInv, Registered
<1> QED
  BY <1>2, <1>3, <1>4, <1>5, <1>6, <1>7, <1>8 DEF Next

LEMMA InvInit == Init => TypeOK /\ IInv
<1> SUFFICES ASSUME Init
             PROVE  TypeOK /\ IInv
  OBVIOUS
<1>1. pollFds = <<>> /\ active = <<>> /\ DOMAIN channelsMap = {}
  BY DEF Init
<1>2. events \in [Channels -> SUBSET Events] /\ index \in [Channels -> Int]
  BY DEF Init
<1> QED
  BY <1>1, <1>2 DEF TypeOK, IInv, IndexInv, OwnerInv, Registered

LEMMA Invariance == Spec => [](TypeOK /\ IInv)
  BY InvInit, InvStep, PTL DEF Spec

(* CPoller's and CChannel's members keep their types: in particular what
   Poll reports are channels, never a hole of the map. *)
THEOREM TypeCorrect == Spec => []TypeOK
  BY Invariance, PTL

(* No sequence of interests, removals and reused descriptors makes an assert
   of UpdateChannel, RemoveChannel or __FillActiveChannels fail. *)
THEOREM AssertsNeverFail == Spec => []AssertsHold
<1>1. TypeOK /\ IInv => AssertsHold
  <2> SUFFICES ASSUME TypeOK, IInv
               PROVE  AssertsHold
    OBVIOUS
  <2>1. ASSUME NEW c \in Channels, Registered(c)
        PROVE  UpdateAsserts(c) /\ (events[c] = {} => RemoveAsserts(c))
    <3> DEFINE e == pollFds[index[c] + 1]
    <3>1. /\ index[c] + 1 \in DOMAIN pollFds /\ index[c] \in Int
          /\ e.fd \in {Fd[c], Ignored(Fd[c])} /\ e.events = events[c]
          /\ events[c] = {} => e.fd = Ignored(Fd[c])
      BY <2>1 DEF IInv, IndexInv, TypeOK
    <3>2. index[c] \in 0..Len(pollFds) - 1
      BY <3>1 DEF TypeOK
    <3>3. e \in PollFd
      <4>1. pollFds \in Seq(PollFd) /\ index[c] + 1 \in DOMAIN pollFds
        BY <3>1 DEF TypeOK, PollFd
      <4> QED
        BY <4>1
    <3>4. events[c] = {} => e = [fd |-> Ignored(Fd[c]), events |-> events[c]]
      BY <3>1, <3>3 DEF PollFd
    <3> QED
      BY <3>1, <3>2, <3>4 DEF UpdateAsserts, RemoveAsserts
  <2>2. ASSUME NEW i \in DOMAIN pollFds, pollFds[i].fd >= 0
        PROVE  FillAsserts(pollFds[i].fd)
    <3>1. PICK c \in Channels : Registered(c) /\ index[c] = i - 1
      BY DEF IInv, OwnerInv
    <3>2. i \in Int
      BY DEF TypeOK
    <3>3. index[c] + 1 = i
      BY <3>1, <3>2
    <3>4. pollFds[i].fd \in {Fd[c], Ignored(Fd[c])} /\ Fd[c] \in Nat
      BY <3>1, <3>3 DEF IInv, IndexInv
    <3>5. pollFds[i].fd = Fd[c]
      BY <2>2, <3>4 DEF Ignored
    <3> QED
      BY <3>1, <3>5 DEF FillAsserts, Registered
  <2> QED
    BY <2>1, <2>2 DEF AssertsHold
<1> QED
  BY <1>1, Invariance, PTL
-----------------------------------------------------------------------------
(* The channels whose pollfd is not muted. *)
Polled == {c \in Channels : Registered(c) /\ pollFds[index[c] + 1].fd = Fd[c]}

(* The array asks for what the channels asked for, if it asks at all. *)
InterestAgrees == Interest = [c \in Polled |-> events[c]]

(* The array as poll(2) reads it, by the channels: Interest looks a pollfd's
   channel up in the map, and the index leads back. *)
LEMMA InterestIs ==
    ASSUME TypeOK, IInv
    PROVE  InterestAgrees
<1>1. ASSUME NEW i \in Watched
      PROVE  /\ channelsMap[pollFds[i].fd] \in Polled
             /\ index[channelsMap[pollFds[i].fd]] = i - 1
             /\ Fd[channelsMap[pollFds[i].fd]] = pollFds[i].fd
  <2>1. i \in DOMAIN pollFds /\ pollFds[i].fd >= 0 /\ i \in Int
    BY DEF Watched, TypeOK
  <2>2. PICK c \in Channels : Registered(c) /\ index[c] = i - 1
    BY <2>1 DEF IInv, OwnerInv
  <2>3. index[c] + 1 = i
    BY <2>1, <2>2
  <2>4. pollFds[i].fd \in {Fd[c], Ignored(Fd[c])} /\ Fd[c] \in Nat
    BY <2>2, <2>3 DEF IInv, IndexInv
  <2>5. pollFds[i].fd = Fd[c]
    BY <2>1, <2>4 DEF Ignored
  <2>6. channelsMap[pollFds[i].fd] = c
    BY <2>2, <2>5 DEF Registered
  <2> QED
    BY <2>2, <2>3, <2>5, <2>6 DEF Polled
<1>2. ASSUME NEW c \in Polled
      PROVE  /\ index[c] + 1 \in Watched
             /\ channelsMap[pollFds[index[c] + 1].fd] = c
             /\ {j \in Watched : pollFds[j].fd = Fd[c]} = {index[c] + 1}
             /\ pollFds[index[c] + 1].events = events[c]
  <2>1. c \in Channels /\ Registered(c) /\ pollFds[index[c] + 1].fd = Fd[c] /\ Fd[c] \in Nat
    BY DEF Polled
  <2>2. index[c] + 1 \in DOMAIN pollFds /\ pollFds[index[c] + 1].events = events[c]
    BY <2>1 DEF IInv, IndexInv
  <2>3. index[c] + 1 \in Watched /\ channelsMap[pollFds[index[c] + 1].fd] = c
    BY <2>1, <2>2 DEF Watched, Registered
  <2>4. ASSUME NEW j \in Watched, pollFds[j].fd = Fd[c]
        PROVE  j = index[c] + 1
    <3>1. channelsMap[pollFds[j].fd] = c
      BY <2>1, <2>4 DEF Registered
    <3>2. index[c] = j - 1
      BY <1>1, <3>1
    <3>3. j \in Int
      BY DEF Watched, TypeOK
    <3> QED
      BY <3>2, <3>3
  <2> QED
    BY <2>1, <2>2, <2>3, <2>4
<1>3. {channelsMap[pollFds[i].fd] : i \in Watched} = Polled
  BY <1>1, <1>2
<1>4. ASSUME NEW c \in Polled
      PROVE  UNION {pollFds[i].events : i \in {j \in Watched : pollFds[j].fd = Fd[c]}} = events[c]
  <2>1. {pollFds[i].events : i \in {j \in Watched : pollFds[j].fd = Fd[c]}} = {events[c]}
    BY <1>2
  <2> QED
    BY <2>1
<1> QED
  BY <1>3, <1>4 DEF Interest, InterestAgrees

(* The same of the next state. *)
LEMMA InterestIsNext == TypeOK' /\ IInv' => InterestAgrees'
<1>1. TypeOK /\ IInv => InterestAgrees
  BY InterestIs
<1> QED
  BY <1>1, PTL

(* UpdateChannel registers a channel that is new and changes what one that the
   map knows asks for. *)
LEMMA UpdateAsks ==
    ASSUME TypeOK, IInv, NEW c \in Channels, NEW ev \in SUBSET Events,
           index[c] >= 0 \/ ev # {}, UpdateChannel(c, ev)
    PROVE  /\ Known' = Known \cup {c}
           /\ events' = [events EXCEPT ![c] = ev]
           /\ Polled' = IF c \notin Known THEN Polled \cup {c}
                        ELSE IF ev = {} THEN Polled \ {c} ELSE Polled
           /\ InMap' = InMap \cup {c}
           /\ c \notin Known => \A d \in InMap : Fd[d] # Fd[c]
           /\ c \in Known => c \in InMap
<1>1. index[c] \in Int /\ events' = [events EXCEPT ![c] = ev] /\ Fd[c] \in Nat
  BY DEF TypeOK, UpdateChannel
<1>2. TypeOK' /\ IInv'
  BY UpdateKeepsInv
<1>3. \A d \in Channels : Registered(d) => index[d] + 1 \in DOMAIN pollFds /\ index[d] \in Nat
  BY DEF IInv, IndexInv, TypeOK
<1>4. CASE index[c] < 0
  <2>1. ~Registered(c)
    BY <1>1, <1>3, <1>4
  <2>2. Fd[c] \notin DOMAIN channelsMap /\ AddPollFd(c, ev)
    BY <1>1, <1>4, <2>1 DEF UpdateChannel, ModifyPollFd
  <2> DEFINE n == Len(pollFds)
  <2>3. /\ pollFds \in Seq(PollFd) /\ n \in Nat
        /\ pollFds' = Append(pollFds, [fd |-> Fd[c], events |-> ev])
    BY <2>2 DEF TypeOK, PollFd, AddPollFd
  <2>4. [fd |-> Fd[c], events |-> ev] \in PollFd
    BY <1>1 DEF PollFd
  <2>5. /\ pollFds'[n + 1].fd = Fd[c]
        /\ \A i \in DOMAIN pollFds : pollFds'[i] = pollFds[i]
    BY <2>3, <2>4
  <2>6. index'[c] = n /\ \A d \in Channels : d # c => index'[d] = index[d]
    BY <2>2, <2>3 DEF AddPollFd, TypeOK
  <2>7. Registered(c)' /\ \A d \in Channels : d # c => (Registered(d)' <=> Registered(d))
    <3>1. /\ DOMAIN channelsMap' = DOMAIN channelsMap \cup {Fd[c]}
          /\ channelsMap'[Fd[c]] = c
          /\ \A fd \in DOMAIN channelsMap : channelsMap'[fd] = channelsMap[fd]
      BY <2>2 DEF AddPollFd
    <3> QED
      BY <2>2, <3>1 DEF Registered
  <2>8. c \notin Known /\ \A d \in InMap : Fd[d] # Fd[c]
    BY <1>4, <1>1, <2>2 DEF Known, InMap, Registered
  <2>9. Known' = Known \cup {c}
    BY <2>3, <2>6 DEF Known
  <2>10. Polled' = Polled \cup {c}
    <3>1. c \in Polled'
      BY <2>5, <2>6, <2>7 DEF Polled
    <3>2. ASSUME NEW d \in Channels, d # c
          PROVE  d \in Polled' <=> d \in Polled
      BY <1>3, <2>5, <2>6, <2>7, <3>2 DEF Polled
    <3> QED
      BY <3>1, <3>2 DEF Polled
  <2>11. InMap' = InMap \cup {c}
    BY <2>7 DEF InMap
  <2> QED
    BY <1>1, <2>8, <2>9, <2>10, <2>11
<1>5. CASE index[c] >= 0
  <2>1. Registered(c) /\ ModifyPollFd(c, ev)
    BY <1>1, <1>5 DEF UpdateChannel, AddPollFd
  <2> DEFINE k == index[c] + 1
             e == [fd |-> IF ev = {} THEN Ignored(Fd[c]) ELSE pollFds[k].fd, events |-> ev]
  <2>2. UNCHANGED <<index, channelsMap>> /\ pollFds' = [pollFds EXCEPT ![k] = e]
    BY <2>1 DEF ModifyPollFd
  <2>3. \A d \in Channels : Registered(d)' <=> Registered(d)
    BY <2>2 DEF Registered
  <2>4. k \in DOMAIN pollFds
    BY <1>3, <2>1
  <2>5. /\ pollFds'[k].fd = IF ev = {} THEN Ignored(Fd[c]) ELSE pollFds[k].fd
        /\ \A i \in DOMAIN pollFds : i # k => pollFds'[i] = pollFds[i]
    BY <2>2, <2>4 DEF TypeOK
  <2>6. \A d \in Channels : Registered(d) /\ d # c => index[d] + 1 # k
    BY <1>1, <1>3, <2>1, IndexInjective DEF IInv
  <2>7. Ignored(Fd[c]) # Fd[c]
    BY <1>1 DEF Ignored
  <2>8. c \in Known /\ Known' = Known \cup {c}
    BY <1>5, <2>2 DEF Known
  <2>9. ASSUME NEW d \in Channels, d # c
        PROVE  d \in Polled' <=> d \in Polled
    BY <1>3, <2>2, <2>3, <2>5, <2>6, <2>9 DEF Polled
  <2>10. c \in Polled' <=> (c \in Polled /\ ev # {})
    BY <2>1, <2>2, <2>3, <2>5, <2>7 DEF Polled
  <2>11. Polled' = IF ev = {} THEN Polled \ {c} ELSE Polled
    <3>1. Polled \subseteq Channels /\ Polled' \subseteq Channels
      BY DEF Polled
    <3> QED
      BY <2>9, <2>10, <3>1
  <2>12. InMap' = InMap /\ c \in InMap
    BY <2>1, <2>3 DEF InMap
  <2> QED
    BY <1>1, <2>8, <2>11, <2>12
<1> QED
  BY <1>1, <1>4, <1>5

(* RemoveChannel changes nothing of what is polled: the channel was muted, and
   the pollfd that moves goes on standing for its channel. *)
LEMMA RemoveForgets ==
    ASSUME TypeOK, IInv, NEW c \in Channels, RemoveChannel(c)
    PROVE  /\ Known' = Known /\ Polled' = Polled /\ UNCHANGED <<events, active>>
           /\ c \in InMap /\ InMap' = InMap \ {c}
           /\ events[c] = {} /\ active = <<>>
<1> DEFINE n == Len(pollFds)
           k == index[c] + 1
           last == ChannelAtEnd
<1>1. /\ pollFds \in Seq(PollFd) /\ n \in Nat /\ n > 0
      /\ k \in 1..n /\ Registered(c) /\ pollFds[k].fd # Fd[c]
      /\ UNCHANGED <<events, active>>
  <2>1. Registered(c) /\ events[c] = {} /\ UNCHANGED <<events, active>>
    BY DEF RemoveChannel, IsNoneEvent
  <2>2. k \in DOMAIN pollFds /\ pollFds[k].fd = Ignored(Fd[c]) /\ Fd[c] \in Nat
    BY <2>1 DEF IInv, IndexInv
  <2> QED
    BY <2>1, <2>2 DEF TypeOK, PollFd, Ignored
<1>2. last \in Channels /\ Registered(last) /\ index[last] = n - 1
  BY <1>1, ChannelAtEndIsLast
<1>3. \A d \in Channels : index[d] \in Int /\ (Registered(d) => index[d] + 1 \in 1..n)
  BY <1>1 DEF IInv, IndexInv, TypeOK
<1>4. \A d \in Channels : Registered(d) /\ Registered(c) /\ index[d] = index[c] => d = c
  BY IndexInjective DEF IInv
<1>5. \A d \in Channels : Registered(d) /\ index[d] = n - 1 => d = last
  BY <1>2, IndexInjective DEF IInv
<1>6. \A i \in 1..n - 1 : pollFds'[i] = IF i = k THEN pollFds[n] ELSE pollFds[i]
  BY DEF RemoveChannel, LastPollFd
<1>7. ~Registered(c)' /\ \A d \in Channels : d # c => (Registered(d)' <=> Registered(d))
  BY <1>1 DEF Registered, RemoveChannel
<1>8. index' = [index EXCEPT ![last] = index[c]] \/ (UNCHANGED index /\ index[c] = n - 1)
  BY DEF RemoveChannel
<1> HIDE DEF n, k, last
<1>9. ASSUME NEW d \in Channels, d # c, Registered(d)
      PROVE  /\ index'[d] >= 0
             /\ pollFds'[index'[d] + 1] = pollFds[index[d] + 1]
  <2>1. index[d] \in Int /\ index[c] \in Int /\ index[d] + 1 \in 1..n /\ index[d] + 1 # k /\ k \in 1..n /\ n \in Nat
        /\ k = index[c] + 1
    BY <1>1, <1>3, <1>4, <1>9 DEF k
  <2>2. CASE d = last /\ index' = [index EXCEPT ![last] = index[c]]
    <3>1. index'[d] = index[c] /\ index[d] = n - 1
      BY <1>2, <2>2 DEF TypeOK
    <3>2. index'[d] + 1 = k /\ index[d] + 1 = n /\ index'[d] >= 0 /\ k \in 1..n - 1
      BY <2>1, <3>1
    <3> QED
      BY <1>6, <3>2
  <2>3. CASE ~(d = last /\ index' = [index EXCEPT ![last] = index[c]])
    <3>1. index'[d] = index[d]
      BY <1>8, <2>3 DEF TypeOK
    <3>2. index[d] + 1 # n
      <4>1. CASE d = last
        <5>1. index[c] = n - 1
          BY <1>8, <2>3, <4>1
        <5> QED
          BY <2>1, <5>1
      <4>2. CASE d # last
        <5>1. index[d] # n - 1
          BY <1>5, <1>9, <4>2
        <5> QED
          BY <2>1, <5>1
      <4> QED
        BY <4>1, <4>2
    <3> QED
      BY <1>6, <2>1, <3>1, <3>2
  <2> QED
    BY <2>2, <2>3
<1>10. \A d \in Channels : index'[d] >= 0 <=> index[d] >= 0
  <2>1. index[c] \in Nat /\ index[last] \in Nat
    BY <1>1, <1>2, <1>3 DEF k
  <2>2. CASE index' = [index EXCEPT ![last] = index[c]]
    BY <1>2, <2>1, <2>2 DEF TypeOK
  <2>3. CASE UNCHANGED index
    BY <2>3
  <2> QED
    BY <1>8, <2>2, <2>3
<1>11. Known' = Known
  BY <1>10 DEF Known
<1>12. Polled' = Polled
  <2>1. c \notin Polled /\ c \notin Polled'
    BY <1>1, <1>7 DEF Polled, k
  <2>2. ASSUME NEW d \in Channels, d # c
        PROVE  d \in Polled' <=> d \in Polled
    BY <1>7, <1>9, <2>2 DEF Polled
  <2> QED
    BY <2>1, <2>2 DEF Polled
<1>13. c \in InMap /\ InMap' = InMap \ {c}
  BY <1>1, <1>7 DEF InMap
<1> QED
  BY <1>1, <1>11, <1>12, <1>13 DEF RemoveChannel, IsNoneEvent

(* What poll(2) finds is looked up in the map: polled channels, each once. *)
LEMMA PollReports ==
    ASSUME TypeOK, IInv, Poll
    PROVE  /\ active = <<>> /\ UNCHANGED tables
           /\ active' \in Seq(Polled)
           /\ \A i, j \in DOMAIN active' : active'[i] = active'[j] => i = j
<1>1. PICK n \in 1..Len(pollFds) : \E at \in [1..n -> DOMAIN pollFds] :
         /\ \A k \in 1..n : pollFds[at[k]].fd >= 0
         /\ \A k, m \in 1..n : k < m => at[k] < at[m]
         /\ active' = [k \in 1..n |-> channelsMap[pollFds[at[k]].fd]]
  BY DEF Poll
<1>2. PICK at \in [1..n -> DOMAIN pollFds] :
         /\ \A k \in 1..n : pollFds[at[k]].fd >= 0
         /\ \A k, m \in 1..n : k < m => at[k] < at[m]
         /\ active' = [k \in 1..n |-> channelsMap[pollFds[at[k]].fd]]
  BY <1>1
<1>3. ASSUME NEW k \in 1..n
      PROVE  /\ at[k] \in Nat /\ active'[k] \in Polled
             /\ index[active'[k]] = at[k] - 1
  <2>1. at[k] \in DOMAIN pollFds /\ at[k] \in Nat /\ pollFds[at[k]].fd >= 0
    BY <1>2 DEF TypeOK
  <2>2. PICK c \in Channels : Registered(c) /\ index[c] = at[k] - 1
    BY <2>1 DEF IInv, OwnerInv
  <2>3. index[c] + 1 = at[k]
    BY <2>1, <2>2
  <2>4. pollFds[at[k]].fd \in {Fd[c], Ignored(Fd[c])} /\ Fd[c] \in Nat
    BY <2>2, <2>3 DEF IInv, IndexInv
  <2>5. pollFds[at[k]].fd = Fd[c]
    BY <2>1, <2>4 DEF Ignored
  <2>6. active'[k] = c
    BY <1>2, <2>2, <2>5 DEF Registered
  <2> QED
    BY <2>1, <2>2, <2>3, <2>5, <2>6 DEF Polled
<1>4. n \in Nat /\ DOMAIN active' = 1..n
  BY <1>2 DEF TypeOK
<1>5. active' \in Seq(Polled)
  <2>1. active' = [k \in 1..n |-> active'[k]]
    BY <1>2
  <2>2. \A k \in 1..n : active'[k] \in Polled
    BY <1>3
  <2>3. [k \in 1..n |-> active'[k]] \in [1..n -> Polled]
    BY <2>2
  <2> QED
    BY <1>4, <2>1, <2>3
<1>6. ASSUME NEW i \in 1..n, NEW j \in 1..n, active'[i] = active'[j]
      PROVE  i = j
  <2>1. at[i] = at[j]
    <3>1. /\ at[i] \in Nat /\ index[active'[i]] = at[i] - 1
          /\ at[j] \in Nat /\ index[active'[j]] = at[j] - 1
      BY <1>3
    <3>2. index[active'[i]] = index[active'[j]]
      BY <1>6
    <3> QED
      BY <3>1, <3>2
  <2>2. ~(i < j) /\ ~(j < i)
    BY <1>2, <1>3, <2>1
  <2> QED
    BY <1>4, <2>2
<1> QED
  BY <1>4, <1>5, <1>6 DEF Poll

(* A poll reports a channel once, and handling the reports keeps it so: no
   event is handed to HandleEvent twice (CPoller.cpp:82-97). *)
LEMMA OnceInvariance == Spec => []ReportedOnce
<1>1. Init => ReportedOnce
  BY DEF Init, ReportedOnce
<1>2. TypeOK /\ IInv /\ ReportedOnce /\ [Next]_vars => ReportedOnce'
  <2> SUFFICES ASSUME TypeOK, IInv, ReportedOnce, [Next]_vars
               PROVE  ReportedOnce'
    OBVIOUS
  <2>1. CASE UNCHANGED active
    BY <2>1 DEF ReportedOnce
  <2>2. CASE Poll
    BY <2>2, PollReports DEF ReportedOnce
  <2>3. CASE HandleEvent
    <3>1. active \in Seq(Channels) /\ active # <<>> /\ active' = Tail(active)
      BY <2>3 DEF HandleEvent, TypeOK
    <3>2. \A i \in DOMAIN active' : i + 1 \in DOMAIN active /\ active'[i] = active[i + 1]
      BY <3>1
    <3>3. DOMAIN active' \subseteq Int
      BY <3>1
    <3> QED
      BY <3>2, <3>3 DEF ReportedOnce
  <2> QED
    BY <2>1, <2>2, <2>3 DEF Next, SetEnableReading, SetEnableWriting, DisableWriting,
       DisableAll, UpdateChannel, RemoveChannel, vars
<1> QED
  BY <1>1, <1>2, Invariance, PTL DEF Spec

THEOREM NoChannelTwice == Spec => []ReportedOnce
  BY OnceInvariance

(* HandleEvent takes one of the channels to handle, and it does not come again. *)
LEMMA HandleTakesOne ==
    ASSUME TypeOK, ReportedOnce, HandleEvent
    PROVE  \E c \in Channels : c \in ToHandle /\ ToHandle' = ToHandle \ {c}
<1>1. active \in Seq(Channels) /\ active # <<>> /\ active' = Tail(active)
  BY DEF HandleEvent, TypeOK
<1>2. 1 \in DOMAIN active /\ active[1] \in Channels /\ DOMAIN active \subseteq Int
  BY <1>1
<1>3. /\ \A i \in DOMAIN active' : i + 1 \in DOMAIN active /\ active'[i] = active[i + 1]
      /\ \A i \in DOMAIN active : i # 1 => i - 1 \in DOMAIN active' /\ active'[i - 1] = active[i]
      /\ \A i \in DOMAIN active' : i + 1 # 1
  BY <1>1
<1>4. ToHandle' = ToHandle \ {active[1]}
  <2>1. \A i \in DOMAIN active' : active'[i] \in ToHandle /\ active'[i] # active[1]
    BY <1>2, <1>3 DEF ReportedOnce, ToHandle
  <2>2. \A i \in DOMAIN active : active[i] # active[1] => active[i] \in ToHandle'
    BY <1>2, <1>3 DEF ToHandle
  <2> QED
    BY <2>1, <2>2 DEF ToHandle
<1>5. active[1] \in Channels /\ active[1] \in ToHandle
  BY <1>2 DEF ToHandle
<1> QED
  BY <1>4, <1>5

(* CPoller keeps the promise of PollSet: whatever is added, updated, muted and
   removed, the array asks poll(2) for what each channel last asked for until it
   asked for nothing, and only such channels are reported, each once
   (CPoller.cpp:45-128). *)
THEOREM PollSetImplemented == Spec => ImplementsPollSet
<1>1. ASSUME Init, TypeOK, IInv
      PROVE  Promise!Init
  <2>1. Polled = {} /\ Known = {} /\ InMap = {} /\ ToHandle = {}
    BY <1>1 DEF Init, Polled, Known, InMap, ToHandle, Registered
  <2>2. Interest = [c \in {} |-> {}]
    BY <1>1, <2>1, InterestIs DEF InterestAgrees
  <2>3. Descriptors = [c \in {} |-> 0]
    BY <2>1 DEF Descriptors
  <2> QED
    BY <1>1, <2>1, <2>2, <2>3 DEF Promise!Init, Init
<1>2. ASSUME TypeOK, IInv, ReportedOnce, [Next]_vars
      PROVE  [Promise!Next]_Promise!vars
  <2> DEFINE Fds == {Fd[c] : c \in Channels}
  <2>1. /\ TypeOK' /\ IInv'
        /\ Interest = [c \in Polled |-> events[c]]
    BY <1>2, InvStep, InterestIs DEF InterestAgrees
  <2>2. Interest' = [c \in Polled' |-> events'[c]]
    BY <2>1, InterestIsNext DEF InterestAgrees
  <2>3. /\ DOMAIN Descriptors = InMap /\ \A c \in InMap : Descriptors[c] = Fd[c]
        /\ Descriptors' = [c \in InMap' |-> Fd[c]]
        /\ InMap' = InMap => Descriptors' = Descriptors
    BY DEF Descriptors
  <2>4. ASSUME NEW c \in Channels, NEW ev \in SUBSET Events, index[c] >= 0 \/ ev # {},
               UpdateChannel(c, ev)
        PROVE  Promise!Update(c, ev) \/ \E fd \in Fds : Promise!Register(c, fd, ev)
    <3>1. /\ Known' = Known \cup {c}
          /\ events' = [events EXCEPT ![c] = ev]
          /\ Polled' = IF c \notin Known THEN Polled \cup {c}
                       ELSE IF ev = {} THEN Polled \ {c} ELSE Polled
          /\ InMap' = InMap \cup {c}
          /\ c \notin Known => \A d \in InMap : Fd[d] # Fd[c]
          /\ c \in Known => c \in InMap
          /\ UNCHANGED active
      BY <1>2, <2>4, UpdateAsks DEF UpdateChannel
    <3>2. DOMAIN Interest = Polled
      BY <2>1
    <3>3. Polled' = Promise!Watched(c, ev)
      BY <3>1, <3>2 DEF Promise!Watched
    <3>4. Interest' = [d \in Polled' |-> IF d = c THEN ev ELSE Interest[d]]
      <4>1. ASSUME NEW d \in Polled'
            PROVE  events'[d] = IF d = c THEN ev ELSE Interest[d]
        <5>1. d \in Channels /\ (d # c => d \in Polled)
          BY <3>1 DEF Polled
        <5> QED
          BY <2>1, <3>1, <5>1, <1>2 DEF TypeOK
      <4> QED
        BY <2>2, <4>1
    <3>5. ToHandle' = ToHandle
      BY <3>1 DEF ToHandle
    <3>6. Promise!Ask(c, ev)
      BY <3>1, <3>3, <3>4, <3>5 DEF Promise!Ask
    <3>7. CASE c \in Known
      <4>1. c \in DOMAIN Descriptors /\ Descriptors' = Descriptors
        BY <2>3, <3>1, <3>7
      <4> QED
        BY <2>3, <3>6, <4>1 DEF Promise!Update
    <3>8. CASE c \notin Known
      <4>1. Descriptors' = [d \in DOMAIN Descriptors \cup {c} |-> IF d = c THEN Fd[c] ELSE Descriptors[d]]
        <5>1. \A d \in InMap \cup {c} : Fd[d] = IF d = c THEN Fd[c] ELSE Descriptors[d]
          BY <2>3
        <5> QED
          BY <2>3, <3>1, <5>1
      <4>2. ev # {} /\ \A d \in DOMAIN Descriptors : Descriptors[d] # Fd[c]
        BY <2>3, <2>4, <3>1, <3>8 DEF Known
      <4>3. Promise!Register(c, Fd[c], ev)
        BY <2>3, <3>6, <3>8, <4>1, <4>2 DEF Promise!Register
      <4> QED
        BY <4>3
    <3> QED
      BY <3>7, <3>8
  <2>5. CASE Next
    <3>1. ASSUME NEW c \in Channels
          PROVE  /\ events[c] \cup {"in"} \in SUBSET Events
                 /\ events[c] \cup {"out"} \in SUBSET Events
                 /\ events[c] \ {"out"} \in SUBSET Events
                 /\ {} \in SUBSET Events
                 /\ events[c] \cup {"in"} # {} /\ events[c] \cup {"out"} # {}
      BY <1>2 DEF TypeOK, Events
    <3>2. ASSUME NEW c \in Channels,
                 SetEnableReading(c) \/ SetEnableWriting(c) \/ DisableWriting(c) \/ DisableAll(c)
          PROVE  \E ev \in SUBSET Events :
                    Promise!Update(c, ev) \/ \E fd \in Fds : Promise!Register(c, fd, ev)
      <4> HIDE DEF Fds
      <4> QED
        BY <2>4, <3>1, <3>2 DEF SetEnableReading, SetEnableWriting, DisableWriting, DisableAll
    <3>3. ASSUME NEW c \in Channels, RemoveChannel(c)
          PROVE  Promise!Remove(c)
      <4>1. /\ Known' = Known /\ Polled' = Polled /\ UNCHANGED <<events, active>>
            /\ c \in InMap /\ InMap' = InMap \ {c}
            /\ events[c] = {} /\ active = <<>>
        BY <1>2, <3>3, RemoveForgets
      <4>2. Interest' = Interest
        BY <2>1, <2>2, <4>1
      <4>3. Descriptors' = [d \in DOMAIN Descriptors \ {c} |-> Descriptors[d]]
        BY <2>3, <4>1
      <4>4. ToHandle = {} /\ ToHandle' = ToHandle
        BY <4>1 DEF ToHandle
      <4> QED
        BY <2>3, <4>1, <4>2, <4>3, <4>4 DEF Promise!Remove
    <3>4. CASE Poll \/ HandleEvent
      <4>1. Known' = Known /\ Polled' = Polled /\ events' = events /\ InMap' = InMap
        BY <3>4 DEF Poll, HandleEvent, tables, channelVars, Known, Polled, InMap, Registered
      <4>2. Interest' = Interest /\ DOMAIN Interest = Polled /\ Descriptors' = Descriptors
        BY <2>1, <2>2, <2>3, <4>1
      <4>3. CASE Poll
        <5>1. active = <<>> /\ active' \in Seq(Polled)
          BY <1>2, <4>3, PollReports
        <5>2. ToHandle = {} /\ ToHandle' \in SUBSET DOMAIN Interest
          BY <4>2, <5>1 DEF ToHandle
        <5> QED
          BY <2>3, <4>1, <4>2, <5>2 DEF Promise!Report, Promise!Next
      <4>4. CASE HandleEvent
        <5>1. PICK c \in Channels : c \in ToHandle /\ ToHandle' = ToHandle \ {c}
          BY <1>2, <4>4, HandleTakesOne
        <5>2. Promise!Handle(c)
          BY <2>3, <4>1, <4>2, <5>1 DEF Promise!Handle
        <5> QED
          BY <5>2 DEF Promise!Next
      <4> QED
        BY <3>4, <4>3, <4>4
    <3> QED
      BY <2>5, <3>2, <3>3, <3>4 DEF Next, Promise!Next
  <2>6. CASE UNCHANGED vars
    <3>1. UNCHANGED <<pollFds, channelsMap, events, index, active>>
      BY <2>6 DEF vars, tables, channelVars
    <3>2. Known' = Known /\ Interest' = Interest /\ InMap' = InMap /\ ToHandle' = ToHandle
      BY <3>1 DEF Known, Interest, Watched, InMap, Registered, ToHandle
    <3>3. Descriptors' = Descriptors
      BY <2>3, <3>2
    <3> QED
      BY <2>3, <3>1, <3>2, <3>3 DEF Promise!vars
  <2> QED
    BY <1>2, <2>5, <2>6
<1> QED
  BY <1>1, <1>2, InvInit, Invariance, OnceInvariance, PTL
     DEF Spec, ImplementsPollSet, Promise!Spec
=============================================================================
