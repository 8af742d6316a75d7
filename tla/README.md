# neconet: specification and verification

neconet is a small C++ network library in the reactor style: one event loop per
thread, channels for descriptors, a `poll(2)` poller, a timer queue, and a TCP
server whose connections live in a loop. This directory holds TLA+ modules that
model it, TLC configurations that check them on small instances, and theorems
that the TLA+ proof system (TLAPS) proves for all instances. `src/` below is
the repository.

The build that is described is the repository's debug build: asserts are on and
end the process, and the compiler does not optimise memory accesses away.

## 1. Inventory

| component | state | operations | talks to |
|---|---|---|---|
| `CEventLoop` | flags `m_bInLooping`, `m_bQuit`, `m_bCallingPendingFunctors`, active channels, pending functors (under a mutex), eventfd | `StartLoop`, `QuitLoop`, `RunInLoop`, `QueueInLoop`, `Wakeup`, `__HandleRead`, `__DoPendingFunctors` | poller, channels, every other thread |
| `CPoller`, `CChannel` | pollfd array, descriptor map, each channel's events and index | `Poll`, `UpdateChannel`, `RemoveChannel`, `SetEnable…`, `Disable…`, `HandleEvent` | loop, owners of channels |
| `CBuffer` | vector, reader and writer index | `Append`, `Retrieve…`, `Prepend`, `ReadFd`, `EnsureWriteableBytes` | connections and their users |
| `CTcpConnection` | `m_eState`, channel, socket, two buffers | `ConnectEstablished`, `Send`, `ShutDown`, `__Handle…`, `ConnectDestroyed` | loop, server, user callbacks, other threads |
| `CTcpServer`, `CAcceptor` | connection map and next number, listening flag | `Start`, `__NewConnection`, `__RemoveConnection`, `StartListen`, `__HandleRead`, destructors | loop, connections, kernel |
| `CTimerQueue`, `CTimer` | set of timers, one timerfd | `AddTimer`, `__HandleRead`, `__GetExpired`, `__ResetTimers` | loop, user callbacks, other threads |
| `CEventLoopThread` | pointer to the loop, thread, mutex, condition | `StartLoop`, thread function, destructor | loop, thread |
| `CThread`, `CThreadData`, `CCountDownLatch`, `CMutexLock`, `CCondition` | started, joined, tid, name, count, holder | constructors, `Start`, `ThreadJoin`, destructors, `RunInThread`, `Wait`, `CountDown`, `Lock`, `Notify` | pthreads |
| `CSocket`, `SocketsOps`, `CInetAddress` | a descriptor or an address | wrappers of system calls | kernel |
| `CTimestamp` | microseconds since the epoch | `AddTime`, `TimeDifference`, comparison, formatting | timers |
| `CurrentThread`, `CAtomic` | each thread's cached id and name, one counter | `CacheTid`, `IncrementAndGet`, stack traces, sleeping | threads |
| `CException`, `Types`, `main`, `test` | none of their own | an exception with a stack trace; an echo server | |

What is hard in them, and what makes each correct:

* **Loop**: other threads push and stop while the loop is anywhere between its
  tests and its poll, and one eventfd read swallows several wakeups. Correct:
  the loop never sleeps on work it was told of; functors run once, in order; a
  stop stops.
* **Poller**: three tables refer to each other through indices and negated
  descriptors, a removal moves another channel's entry, numbers are reused.
  Correct: the array asks the kernel for exactly what the channels asked for.
* **Buffer**: one vector with headroom, moving and growing at exact
  boundaries. Correct: bytes come out as they went in.
* **Connection and server**: raw pointers beside shared ones, closing inside an
  event, a state tested in one thread and used in another, output that does not
  fit. Correct: nothing dangles, each connection is destroyed once, the stream
  is in order, closed connections go, kept output is sent.
* **Timers**: one timerfd, two clocks, raw pointers between set and list.
  Correct: no timer is lost, doubled or left behind by the timerfd.
* **Loop thread**: a handshake over two conditions and a stop that races with
  the start. Correct: the owner gets a live loop and its destructor returns.
* **Threads**: a new thread is given addresses inside the object that starts it,
  and may outlive it; creation may fail, functions may throw. Correct: nothing is
  used after it is gone, each thread is joined or detached once, `Start` and
  `ThreadJoin` return.
* **Addresses and names**: ports change their byte order five times on their way,
  the functions named `OrDie` do not die, numbers of connections wrap around.
  Correct: a connection reports the addresses it really has, a server finds its
  connections by their names.

`PROJECT.json` lists every hazard at its line with the properties that cover it.

## 2. Modules

| module | models |
|---|---|
| `EventLoop` | `CEventLoop`: the loop thread as a state machine, any number of threads that queue and stop, the eventfd |
| `FunctorQueue` | abstract: a first-in first-out queue of functors |
| `EventLoopProps`, `EventLoopProofs`, `MCEventLoop` | properties, proofs, TLC instance |
| `Poller` | `CPoller` and the bookkeeping of `CChannel` |
| `PollSet` | abstract: the contract between the poller and who uses it. A channel is registered once, under a descriptor of its own; it is polled for what it last asked for, until it first asks for nothing; it is removed when it asks for nothing and no reported channel is left to handle. `Poller` implements it, `TcpServer` keeps to it |
| `PollerProps`, `PollerProofs`, `MCPoller` | properties, proofs, TLC instance |
| `Buffer` | `CBuffer` byte by byte, on small vectors |
| `ByteQueue` | abstract: a queue of bytes with room for a header |
| `BufferProps`, `BufferProofs`, `MCBuffer` | properties, proofs, TLC instance |
| `TcpConnection` | what each function of `CTcpConnection` makes of a connection (operators on a record) |
| `TcpServer` | `CTcpServer`, `CAcceptor`, the connections of `TcpConnection`, the loop, user callbacks, other threads and peers, composed |
| `TcpServerProps`, `TcpServerProofs`, `MCTcpServer` | properties, proofs (lifetimes and asserts; the order of the stream and its end), TLC instance |
| `Listener`, `ListenerProps`, `ListenerProofs`, `MCListener` | several `CTcpServer`: `CInetAddress`, byte orders, `bind(2)` and `listen(2)` that fail, names of connections; properties; proofs; TLC instance |
| `Timestamp` | `CTimestamp` and the conversion to a timespec, as operators on numbers |
| `TimerQueue` | `CTimerQueue` and `CTimer` with both clocks |
| `TimerService` | abstract: no callback comes before its timer's expiration, timers found expired together run once each and in order of expirations, a repeated one counts its interval from when it was found expired |
| `TimerQueueProps`, `TimerQueueProofs`, `MCTimerQueue` | properties, proofs, TLC instance |
| `Monitor` | `CMutexLock` and `CCondition` as operators on a record |
| `Thread` | `CThread`, `CThreadData`, the latch and the thread's own variables, for several objects |
| `ThreadProps`, `ThreadProofs`, `MCThread` | properties, proofs, TLC instance |
| `EventLoopThread` | `CEventLoopThread`, the part of `CThread` that it uses and the latch, composed with `EventLoop` |
| `EventLoopThreadProps`, `EventLoopThreadProofs`, `MCEventLoopThread` | properties, proofs, TLC instance |

Definitions keep the source's names where TLA+ allows it (`SwapFunctors` is the
swap in `__DoPendingFunctors`, `timers` is `m_ssTimers`); every variable's
comment names the member it stands for, and the `map` in `PROJECT.json` gives
the lines of each definition. Definitions marked `Mutant` are plausible bugs:
each replaces one definition of the model, and the named property must then
fail. They are not part of any `Next`.

How state and steps correspond:

* **EventLoop.** `pc` is where the loop thread is in `StartLoop`. A critical
  section of `m_iMutex` holds one `push_back` or one `swap` and is one step; the
  decision to write the eventfd and the write are separate steps of another
  thread (`wpc`), so the loop may run in between. While a callback or functor
  runs, the loop thread may itself queue or stop any number of times. `ran` and
  `posted` are history.
* **Poller.** Descriptors are numbers because the code negates them. A step is
  one call of the loop thread; between `Poll` and the last `HandleEvent` any
  channel may change its interests. `RemoveChannel` is called only between
  polls (`__RemoveConnection` queues it): `Poller` takes this as its guard, and
  `TcpServer`, which has the calls of the poller but none of its tables, shows it
  with the rest of `PollSet` (`UsesPollSet`).
* **Buffer.** A call is one step. Failing asserts about space set `aborted`;
  asserts about a caller's arguments are the caller's duty and are guards.
* **TcpServer.** The loop appears without its wakeups, which `EventLoop` settles.
  All events that one poll reports of a connection are a set that `HandleEvent`
  works off in the code's order; user code runs between. A `Send` or `ShutDown`
  of another thread is a test of the state, for `ShutDown` a write of it, and a
  push, each a step. Messages have two parts, so a `write(2)` can be short.
  Object lifetime is `Alive`: the connection map, queued `ConnectDestroyed`
  functors and the user hold shared pointers, everything else is raw.
* **Listener.** A `sockaddr_in` holds its port in memory order and a kernel
  address holds the port itself; the host is little-endian and a byte has `Base`
  values. What becomes of one connection is left to `TcpServer`, which in turn
  takes from here that names differ.
* **TimerQueue.** Times are relative to now; a step lets one unit pass, and the
  wall clock may be set while the timerfd's clock goes on. Reading the timerfd
  and taking the expired timers is one step, each callback is one or more. An
  interval is a number of seconds with a fraction of a microsecond, which
  `AddTime` drops; `Timestamp` makes the timespec.
* **Thread.** Each object has a user and, once started, a thread of its own; both
  take one step for each access to what the other can see. A name is none, given,
  or the number that the counter gave. Tearing down is one step.
* **EventLoopThread.** The owner's and the thread's locks, tests, waits and
  notifications are steps; a wait may end without a notification. The steps of
  the loop are those of `EventLoop`.

## 3. Runs

| run | question | instance |
|---|---|---|
| `event_loop` | no sleep on a functor or a stop; the two vectors are one queue; functors run, stops stop | 2 threads, 2 channels, 3 functors, eventfd limit 2 |
| `poller` | tables agree, each channel is reported once, `PollSet` is implemented | 4 channels, one descriptor number used twice, descriptor 0 |
| `buffer` | bytes in order, where asserts fail | headroom 2, initial size 2, extra buffer 3, vector up to 6 bytes, calls up to 4 bytes, 2 byte values |
| `buffer_gap` | expected violation, see findings | same |
| `tcp_server_loop` | lifetimes, order of callbacks, asserts, half-close, the poller used as `PollSet` has it; callbacks only | 2 connections, 2 descriptors, 1 message, `BacklogEvents = {"in", "out"}` |
| `tcp_server_threads` | stream order and asserts with two other threads, closed connections are destroyed, waiting ones accepted, also after the descriptors were used up | 2 connections, 1 descriptor, 2 threads, 2 messages, `NotCrowdedAndBusy` |
| `tcp_server_backlog` | expected violation, see findings | 1 connection, no threads, 2 messages |
| `tcp_server_late_send` | expected violation, see findings | 1 connection, 2 threads, 2 messages |
| `listener` | addresses and names | 2 servers, 3 connections, 2 hosts, 2 values of a byte, ports 0 and 6 of 0 to 3 asked for, numbers wrap around after 2 |
| `timer_queue` | no timer lost, doubled or slept over; `TimerService` is implemented; every timer runs | 2 timers, delays -1 and 3, intervals of -1, 1 and 4 half microseconds or none, clock set once by ±2 |
| `event_loop_thread` | the handshake, the stop and the join; nobody waits for nobody; what the owner posts is run | 1 owner, 3 functors |
| `thread` | lifetimes, names, joins; nobody waits for nobody; `Start` and `ThreadJoin` return | 2 objects |

Why the bounds suffice. The loop's hazards need one functor before and one
after a swap and a thread on either side of its write; three functors and two
threads give every overlap of two swaps. In the poller a removal touches the
removed and the last entry, a third channel shows that others are left alone
and a fourth that a number comes back. In the buffer every relation of reader,
writer, headroom and end occurs with a vector of six bytes. Two connections
are needed for one to be removed while the other's event is handled and for a
descriptor to return; two messages of two parts for one to overtake the other. With one descriptor
between them a second peer waits while it is taken and `accept(2)` fails for want
of it. `tcp_server_threads` has both at once under the constraint
`NotCrowdedAndBusy` (`MCTcpServer`): peers other than the first connect only while
no message has been sent and no other thread is in a call, and while they are
there nobody begins either. It cuts off only steps of peers and users that begin
something; none of them is asked for by the fairness, so it makes no liveness
property true by stopping the loop.
Two timers suffice for one to be earlier than, equal to or added during the
other. Two `CThread` objects share the one counter and nothing else. Two servers
compete for one port, and the third connection is given the number of the first. Counters that would grow without end have named bounds (`MaxFunctors`,
`MaxSends`, `MaxJumps`, `MaxSize`, `MaxLate`, which makes all timers later than
it equal); they stand in guards and limit how much a behaviour does, not in
which order.

`CHECK_DEADLOCK FALSE` stands where the system may stop: after a failed assert,
when all channels are used up, and when a thread could not be created.

Symmetry is used in the two runs without liveness properties that have
interchangeable objects (`tcp_server_loop`, `listener`). `tcp_server_loop` allows
more than the code does: what `__SendInLoop` asks to be polled for is
`SetEnableReading`'s events, as in the code, or `POLLOUT`, since otherwise
`__HandleWrite` and the half-close in it are never executed. Its properties hold
of the code, and they say that these functions are right once somebody calls
them.

The type invariants of all modules but `TimerQueue` and the bound on a buffer's
growth (`GrowsOnlyWhenFull`) have theorems and no run.

### Fairness

* `EventLoop`: weak fairness of the loop's own steps (the thread is scheduled,
  callbacks return, `poll(2)` reports what is ready) and of a thread's write to
  the eventfd once it has pushed. Nobody has to call anything, and the poll
  timeout is given no fairness, except in `EveryFunctorRuns`, whose premise
  `PollIsFinite` says that the ten seconds of `g_nKPollTimeMs` pass.
* `TcpServer`: the loop's steps, a thread finishing the call it has begun, and a
  peer that reads what was sent. A peer need not send, close or connect, and one
  that waits may give up at any time.
* `TimerQueue`: the loop's steps and the passing of time.
* `EventLoopThread`: the owner's and the thread's steps, weak; strong for the
  two lock operations of the new thread, which a mutex that is released again
  and again by spurious wakeups of the owner must grant some time. The owner
  need not post or stop, and a thread need not be creatable.
* `Thread`: weak for the steps of a user within a call and of a new thread, strong
  for the two lock operations on the latch, again because of spurious wakeups.
  Nobody need start, join or destroy anything, and a thread function need not
  return: `CallsReturn` promises a return of `ThreadJoin` only if it does.

### Findings

1. **Buffer gap** (`buffer_gap`): `__MakeSpace` counts the headroom as usable
   and does not use it, so a few lengths end in a failed assert, e.g. an append
   of 1025 to 1032 bytes to a fresh buffer. `AbortsExactlyInTheGap` shows that a
   call for any of these lengths fails, and a call for any other succeeds.
2. **Backlog** (`tcp_server_backlog`): output that one `write(2)` did not take is
   kept and never written: `SetEnableReading` is called where `POLLOUT` is needed
   (`CTcpConnection.cpp:228`).
3. **Late send** (`tcp_server_late_send`): a send queued behind
   `ConnectDestroyed` that cannot be written in full ends the process in
   `UpdateChannel`. `OtherAssertsHold` shows that no other assert fails.

More that the model shows and no text of the repository contradicts:

* A stop that comes between the handshake of `CEventLoopThread` and `StartLoop` is
  cleared by it, and the join never returns (`StartAndJoinReturn` names it as the
  only such case).
* A channel that enables an event after it had none is never polled again
  (`PollSet` says so).
* When `m_nNextConnId` has gone through its 2^32 values, a new connection takes the
  map entry of one that is still up; the older one is destroyed with its channel
  still in the poller, or, if the user holds it, fails the assert of
  `__RemoveConnection` when it closes (`ConnectionsFound` holds until then only).
* A server whose `bind(2)` or `listen(2)` failed, or whose address `inet_pton(3)`
  could not read, goes on: it serves another address, or nobody
  (`AddressesAgree`).
* The end of the stream overtakes output that is still buffered, because that
  output is not being written (`FinAfterOutput` speaks of `IsWriting`).

## 4. Proofs

`tlapm` checks the proofs; they hold for all values of the constants that meet
the named assumptions.

* **EventLoopProofs** (`ConstantsAssumption`: the wakeup channel is not a user
  channel, the eventfd's limit is positive). `TypeCorrect`; `WakeupsNotLost` and
  `QuitNotLost`, from the invariant `IInv`. `NoLostWakeup` alone is not
  inductive, because it speaks of the poll only; `WakeInv` extends it over all
  places from the end of the swap to the poll: what is pushed there is announced,
  and `HandleRead` takes wakeups away only where a swap is still to come.
  `PendingInv` ties the flag `m_bCallingPendingFunctors` to the place of the loop,
  which the loop thread's own pushes depend on. `QueueImplemented`: the
  concatenation of the two vectors is a FIFO queue.
* **PollerProofs** (`FdAssumption`: descriptors are natural numbers).
  `TypeCorrect` and `AssertsNeverFail`, from `IInv`: a registered channel's index
  leads to its own pollfd (`IndexInv`) and every pollfd is some registered
  channel's (`OwnerInv`). The hard step is the removal, which finds the moved
  channel through a possibly negated descriptor (`ChannelAtEndIsLast`).
  `NoChannelTwice`: two pollfds with one descriptor would be one channel's, and a
  channel has one index. `PollSetImplemented`: the lookup of a polled channel's
  events in the array is a poll set; `UpdateChannel` is its `Register` or `Update`,
  `RemoveChannel` its `Remove`, which changes no polled channel's entry, and
  `HandleEvent` its `Handle`, because no channel is left in the list twice.
* **EventLoopThreadProofs** (`OwnerAssumption`: the owner is the loop's only other
  thread). The steps of its loop are `EventLoop`'s by definition (the lemma
  `LoopIsUsedAsModelled`), so `OwnerWakeupsNotLost` follows from `WakeupsNotLost`. `ThreadTypeCorrect`,
  `ThreadAssertsNeverFail` and `LoopReady` follow from `ThreadInv`, whose part
  `Handshake` says that everything the two threads share is determined by how far
  the new thread has got, and that it leaves the loop only when the owner stops it.
  `StartAndJoinGoOn` adds that the owner waits for a notification only while it is
  still to come, and for a loop that keeps its stop, or has cleared it; that the
  stop ends the poll it goes into is `QuitNotLost`, by way of `LoopIsUsedAsModelled`.
* **BufferProofs** (`SizesAssumption`: 0 is a byte, sizes are natural numbers;
  the bounds `MaxSize` and `MaxData` are constants too, so nothing depends on
  them). `BufferIsByteQueue`: the contents are a byte queue, as each step writes,
  reads or prepends (`Step`) by the lemmas on what growing, moving and copying do to
  the contents. `BufferTypeCorrect`, from `IInv`, which adds that the vector is
  never shorter than its headroom: `RetrieveAll` sets both indices to
  `CheapPrepend` without looking. `GrowthIsBounded`. `AbortsAreTheGap`, for each
  call and the length it is to make room for, in both directions: in the gap the
  call moves or keeps the contents, and one of the two asserts fails
  (`AbortInTheGap`, `GapAborts`); outside it the bytes have room, at once, after the
  move or after growing. A `ReadFd` appends only what did not fit, to a
  buffer it has filled, and that rest is in the gap then if and only if everything
  it read was in the gap before (`FilledFacts`).

* **ThreadProofs** (no assumption). `TypeCorrect`, and from `LifeCycle`
  `UseAfterFreeFree`, `JoinedOrDetachedOnce` and `NoAssertFails`. `LifeCycle` says,
  object by object, how the place of the user, the place of the new thread and
  what they share go together: the count and the holder of the latch
  (`LatchAgrees`), the flags (`FlagsAgree`), the `CThreadData` (`DataAgrees`). The
  heart of `UseAfterFreeFree` is that the user leaves the latch only after the new
  thread has given up its mutex. `CallsGoOn`: who waits for the notification does so
  only while the count has not come down, so the new thread is on its way to it. `DefaultNamesDistinct` rests on `NumbersDiffer`,
  about all pairs of objects, and on `NumberAgrees`.
* **TimerQueueProofs** (`TimestampAssumption` and `TimesAssumption` on the units, delays and
  settings of the clock). `TimespecExact` and `AddTimeDropsFraction` about the conversions
  of `Timestamp`; `TypeCorrect` and `TimerfdArmed`. `ArmedForEarliest` alone is not
  inductive: it needs that only timers that were made are in the set, in the list
  of expired ones or on their way to the loop (`InUse`), and that what `poll(2)`
  reported is handled before the next poll (`WhereInv`). `TimersOwnedOnce` counts
  places, and follows from `LivingInv`, which does not count: a timer is in one
  place at most (`Apart`), no sequence has it twice (`Distinct`), and its place
  and the number of its callbacks determine each other (`Fate`).
  `TimerServiceImplemented` needs besides that the callbacks still to run are in
  order of expirations (`TurnInv`): neither the clocks nor new timers change that,
  since what is in `vExpired` is nowhere else, and `~CTimerQueue` comes between two
  handlings only.
* **TcpServerProofs** (`BacklogAssumption`, `ServerAssumption`: the events that
  `__SendInLoop` asks for are some of those that exist, the loop's own thread is
  none of the others, and the bound on messages is a number).
  `IInv` says of each connection how its state, its channel, the map, the queued
  functors, the events being handled and the user's pointer go together
  (`Lifetime`), and what may wait in the queue (`QueueInv`) or in the call of a
  thread (`CallInv`). `NoDanglingChannel` is not inductive: it holds because a
  registered connection is in the map, has its one `ConnectDestroyed` coming
  (`DestroyedOnce`) or is in it (`RegisteredIsAlive`); and a descriptor that
  `accept(2)` returns is in nobody's channel only because registered
  connections are alive and so hold theirs. Theorems: `TypeCorrect`,
  `ChannelsDoNotDangle`, `ConnectionsDestroyedOnce`, `OtherAssertsNeverFail`,
  `CallbacksInOrder`, and `AssertsHoldInOneThread`, which assumes that there are
  no other threads: the one failure that remains is the finding of a late send.
  `StreamsInOrder` from `IInv` and `OrderInv`: a thread's messages have ascending numbers all the way from the
  connection through the batch and the queue to its call (`SentOrder`,
  `BatchOrder`, `PendingOrder`, `CallOrder`); that the parts written and buffered are
  whole messages is part of `Lifetime`. `StreamsEndAfterOutput`, again without
  other threads: the half-close and the state then change in one call, so
  `FinAfterOutput` is inductive together with the fact that no functor of
  `ShutDown` is queued (`FinInv`).
  `PollerIsUsedRightly`: a step changes what the poller knows of one connection at
  most, as one of the actions of `PollSet` does (`PollAsked`), or of none
  (`PollKept`). That a new connection's descriptor is in no other channel comes from
  `AcceptConnection` as above, and that no reported channel is left when one is
  removed from the place of the loop in its round (`Places`). With
  `PollSetImplemented` the two halves meet: what is proved of `CPoller` holds in
  this program.
* **ListenerProofs** (`ListenerAssumption`: a byte has some values, numbers do not
  wrap around at once, ports are numbers). `TypeCorrect`, and two theorems from
  `IInv`. `AddressesReported`: swapping the bytes twice gives the port back, for
  any number of values of a byte (`SwappedTwice`, from the uniqueness of quotient
  and remainder), and the address of a socket is final once a peer can reach it
  (`ReachInv`): `Start` refuses a second `listen(2)`, which could give it a port.
  In the model a call of `Start` is over, with its functor, before the next one
  tests `IsListenning`; two other threads that both call it before either functor
  has run would both get past the test (`CTcpServer.cpp:33-43`).
  `NamesFindConnections`: while fewer connections were made than there are
  numbers, the map is a table of the connections that are up (`Table`), as the
  number given next is not among those given before (`NumbersDiffer`). After that
  the map keeps only this: no entry is another server's connection or one that
  was never accepted (`OwnConns`).

Only model-checked: all liveness properties (the prover does not handle fairness
and ENABLED). What of them is safety is proved: `WakeupsNotLost`, `QuitNotLost`,
`TimerfdArmed`, `CallsGoOn` and `StartAndJoinGoOn` say that whoever waits is going to
be woken up or can go on. What a recursive definition
computes cannot be proved either (induction over data); no module has one.

## 5. Not modelled

* `m_bQuit` is a data race. The model takes the outcome of the unoptimised
  build, in which every test reads memory. `sockets::Accept` and
  `CreateNonblockingOrDie` lack a return statement on a path; the model takes what
  the unoptimised build returns, the descriptor.
* `CBuffer::Swap` and `CBuffer::Shrink` (no caller); `Shrink` leaves indices of the
  old vector.
* A loop that goes on after `~CTcpServer`, which leaves its connections' channels
  in the poller.
* The functors of `Send` and `ShutDown` hold a raw pointer; that the user keeps
  its shared pointer until they have run is assumed (`Release`).
* A failing `socket(2)`, eventfd or timerfd, which the code prints or aborts on;
  SIGPIPE, assumed ignored; `write(2)` errors other than a full socket, a
  half-closed and a dead connection.
* `CEventLoopThread`: destruction before `StartLoop`, and a callback that stops
  the loop before the destructor does, both of which use a pointer to nothing;
  the write to an eventfd that the loop has closed has no effect in the model.
* `CCondition::WaitForSeconds` (adds the seconds since the epoch twice; no
  caller), `AfterFork` (nothing forks), sleeping.
* The options `O_NONBLOCK` and `FD_CLOEXEC`, formatting, stack traces, `CException`,
  `Types.h` (names and casts), `test.cpp` (examples that nothing builds on), the
  files of the build.
* `AssertInLoopThread` only prints, so nothing depends on it; the loop-thread
  rule is built into which actions a thread has.

## 6. Plan

Done: all the components that keep state, and proofs of all safety properties
that the runs check.

Next: a composition of `TimerQueue` and `EventLoop`, with the timerfd as one of its
channels; `Shrink` and `Swap` of `CBuffer` if a caller appears.
