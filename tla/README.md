# TLA+ models of nutty

nutty is a small C++ network library for Linux: a reactor (`EventLoop`) per thread, timers, non-blocking TCP
connections with their buffers, a client and a server, and a few synchronisation helpers. This directory holds TLA+
modules of its components, TLC configurations that check them on small instances, and TLAPS proofs of all their
safety properties for instances of any size. `PROJECT.json` maps every definition to the lines it
models, and lists the runs, the properties with a mutation that breaks each of them, the hazards, the findings and the
theorems.

To check a run: `tlc -config EventLoop.cfg MCEventLoop`. To check the proofs: `tlapm EventLoopProofs.tla`.

## 1. Inventory

| Component | State | Operations | What is hard | What makes it correct |
|---|---|---|---|---|
| `base/EventLoop` | `quit_`, `pendingFunctors_` under `mutex_`, the eventfd, active watchers | `loop`, `quit`, `runInLoop`, `queueInLoop`, timer calls | any thread pushes and quits while the loop polls, dispatches or runs a batch | each functor runs once, in order; nobody sleeps on work; quit ends the loop |
| `base/EventLoopThread` | `loop_` under `mutex_`, `cv_`, the thread | constructor, destructor, `threadFunc` | member order, publication of the loop, quit before `loop()` | the loop is usable when the constructor returns; the destructor returns |
| `base/EventLoopThreadPool` | loops, `next_` | `start`, `getLoop` | used only on the base loop | round robin |
| `base/TimerQueue`, `Timer` | multimap of timers, `cancelingTimers_`, one timerfd | add, cancel, `handleRead`, restart | callbacks that add and cancel while a batch runs; calls queued from other threads; a stale timerfd | timers run when due, cancelled ones do not |
| `base/Watcher`, `PollPoller`, `EPollPoller` | `events_`, `started_`; array, index by descriptor, watchers; the kernel's list, `events_` array | enable, disable, update, add, remove, poll, dispatch | callbacks change watchers of the same batch; removal moves an entry; the array is too short | each watcher is told what it wants, once, and in the end |
| `net/Connector` | `connect_`, `connecting_`, `retry_`, delay, socket, watcher | `start`, `stop`, `restart`, retry, event handlers | retry timer against stop/start; queued reset of the watcher | one attempt at a time, never forgotten |
| `net/TcpConnection` | `state_`, watcher, `sendBuffer_`, `receiveBuffer_` | send, shutdown, forceClose, established, destroyed, handlers | races to close; references; short writes | callbacks paired, bytes in order, freed once unwatched |
| `net/SendBuffer` | list of buffers, size | append, prepare, hasSent | buffers made from a `ReceiveBuffer` | what is readable is what was appended |
| `net/ReceiveBuffer`, `Buffer` | buffers in use and spare, read and write positions | prepareReceive, hasReceived, read, peek, retrieve | readv across two buffers, reuse | holds the unread part of the stream |
| `net/TcpClient` | `started_`, `connection_`, the connector | connect, disconnect, callbacks, destructor | exchange and queueing are two steps; handshake against disconnect; reconnecting | wish, connector and connection agree |
| `net/TcpServer`, `Acceptor` | connections, pool, listening socket, spare descriptor | listen, accept, remove, destructor | removal on two loops; no descriptors left | every open connection has an owner; peers are served |
| `net/Socket`, `InetAddress` | a descriptor, an address | system calls | none of their own | outcomes are inputs of the other modules |
| `util/Semaphore` | `count_`, `mutex_`, `cv_` | notify, wait, try_wait, timed waits | timeout against notification | no waiter sleeps on a positive count |
| `util/BoundedBlockingQueue`, `BlockingQueue` | queue, one or two condition variables | put, take | one `notify_one` per value | nobody is forgotten |
| `util/CountDownLatch` | counter, `mutex_`, `cv_` | wait, countDown | used again after it has opened | who waits, waits for the other thread |
| `log/AsyncLogging`, `AsyncLogger` | `running_`, `asyncLoggers_`; four buffers per logger and two lists of full ones; the file | start, stop, append, the logging thread, rolling | buffers change hands in and outside the lock; stop without the lock | lines are written once, in order, and soon |
| `log/LogStream`, `LogMessage`, ... | text | formatting | – | – |
| `util/Singleton`, `FileUtil` | instance; file | get; read | – | – |

How they interact. Everything on a loop is single-threaded; the ways in are `queueInLoop` (used by timers, connections,
connector, client and server), poll events through watchers, and timers. A `TcpServer` accepts on its base loop, gives
the connection to a loop of its pool, and gets it back through a functor on the base loop when it closes. A `TcpClient`
receives a socket from its `Connector` in a callback and restarts the connector when the connection closes. A
`TcpConnection` is kept alive by its owner, by users and by the functors that are bound to a `shared_ptr`.

## 2. Modules

Data is abstracted to what the properties distinguish; control (order of steps, guards, early returns, ignored results)
is kept. Names are those of the code.

- **SerialExecutor** – what a loop promises: pushed functors are run once each, in order. The other modules use it as
  their picture of a loop (a queue whose head is run by one action).
- **EventLoop** – one action per synchronisation step: the push under the mutex and the eventfd write are two actions
  (`QueueInLoop`, `Wakeup`), a batch is swapped out and run functor by functor, and callbacks may call back while they
  are open. Polling returns any set of ready watchers, the eventfd's among them exactly if it is readable. `early`
  marks functors pushed by the loop's own thread before `loop()`, for which the code makes no wakeup.
- **EventLoopThread** – EXTENDS EventLoop; adds the owner (constructor and destructor) and `threadFunc`. The thread may
  take `mutex_` and notify before these members are constructed, as `thread_` is declared first. A `quit()` that has set
  `quit_` and comes to its write when the thread has already destroyed the loop reads the dead object (`threadId_`,
  `wakeupFd_`) and may write to a descriptor in use for something else; `FinishWakeup` treats that as a write that fails.
  No verdict depends on it, and none says that it is harmless.
- **TimerQueue** – the multimap is a set of pairs (expiration, timer); clock, timerfd (`armed`, `periodic`, `readable`)
  and the queue of remote requests are explicit. `Garbage` says what the uninitialised `it_interval` of `resetTimer()`
  may hold: nothing, a period, or a value the kernel rejects.
- **Connector** – the loop's iteration is kept (poll, callbacks, batch), since the order of a queued `resetWatcher` and
  a new attempt is what matters. `overtaken` records that an attempt began before a queued reset. `Others` leaves
  room on the same loop for the functors of a module that extends this one.
- **TcpConnection** – one connection with its owner's part in its life, users on and off the loop, and `SendBuffer` as
  the connection uses it. `undefined` records a use after deletion, after which nothing more is said.
- **ReceiveBuffer** – bytes are their stream positions; each buffer keeps its positions and storage, so that stale
  storage would be seen. The reading loops are recursive functions, one turn per
  buffer, compared with the stream itself.
- **TcpClient** – EXTENDS Connector; connect() and disconnect() are split at the exchange of `started_`, the queueing
  and the look at `connection_`. Of a connection it keeps the state and the calls back to the client. Users that call
  shutdown() on the connection itself are left to TcpConnection. A second connection replaces the first in `connection_`,
  which may thereby lose its last reference and be deleted while poll watches it; that deletion is not modelled, and
  from there on (`overlapped`) the properties about connections say nothing.
- **TcpServer** – server, acceptor and pool; one queue per loop; descriptors are counted. Users call `shutdown()` and
  `forceClose()` on connections, in place or from other threads (`MaxUserCalls` of these may wait for a connection). Of a
  connection only its state is kept, kDisconnecting included; buffers and the FIN are in TcpConnection. References that
  users keep count as descriptors of `others`. An open connection to which nothing in the model refers any more is
  deleted or kept by a user: when its peer closes, either is possible, the first being undefined.
- **Poller** – what a loop expects of a poller: a batch of watchers, each once and with what it wanted when poll() was
  called, unaffected by what callbacks do meanwhile. **PollPoller**, **EPollPoller** – the two classes: an array with an
  index by descriptor, and the kernel's list with an array for the answers. `FreedIndex` is what else than the old
  index the erased map node may hold when `removeWatcher()` reads it. **Watcher** – `update()` and the enable and disable
  functions, at any point between two polls, over either poller. Each event is "IN" or "OUT" (POLLPRI and POLLRDHUP go
  with POLLIN); a descriptor has one started watcher at a time (`Free`). The code sees to that as long as no watcher is
  deleted while it is registered; where that can happen (`Connector.cpp:68`, `TcpConnection.cpp:262`, the exceptions of
  `DanglingOnlyIfOvertaken` and `DeletedUnwatched`), a descriptor that is used again would break it, which is outside
  this module.
- **ConditionVariable** – `notify_one`. **Semaphore**, **BoundedBlockingQueue** – a critical section is one step; a notified
  or spuriously woken thread has to compete for the mutex again. A `BlockingQueue` is a queue without bound.
- **AsyncLogging** – loggers, the logging thread, the owner that starts and stops it, and the latch between them. Lines
  have a number and a length; buffers are sequences of lines; a file is known by its second. Writing goes buffer by
  buffer, so that appending and setting the clock come in between. `missed` marks a notification of `stop()` that came
  between the thread's test of `running_` and its wait. The sources are in no CMake target and do not compile as they
  stand (a full-width semicolon, namespaces, no `LogFile`); the model follows what they say.
- **EventLoopProofs** (EventLoop and EventLoopThread), **TimerQueueProofs**, **WatcherProofs**,
  **TcpConnectionProofs**, **TcpClientProofs** (Connector and TcpClient), **TcpServerProofs**, **BufferProofs** (ReceiveBuffer
  and AsyncLogging), **MonitorsProofs** (Semaphore, BoundedBlockingQueue) – theorems. The **MC...** modules are what the runs load.

## 3. Runs

| Run | Instance | Shows |
|---|---|---|
| `event_loop` | 2 callers, 3 functors, 1 I/O watcher, eventfd counter up to 2 | `ExactlyOnceFifo`, `NoLostWakeup`, `ImplementsExecutor`, `BatchOnlyShrinks`, `LoopResponds` |
| `event_loop_thread` | owner, 1 caller, functors that may quit | `LoopUsable`, `OwnerReturns` |
| `event_loop_thread_quit` | nobody but the destructor quits | *violation* of `QuitEndsThread` |
| `timer_queue` | 2 timers, repeating or not, 3 ticks | `ArmedInTime`, `CancelSticks`, `TimersFire` |
| `timer_queue_garbage` | 1 timer, rejected `it_interval` allowed | *violation* of `TimersFire` |
| `connector` | the delays of `Connector.h` | `OneRetryTimer`, `AttemptConsistent`, `KeepsTrying`, `DanglingOnlyIfOvertaken`, `Connected` |
| `tcp_connection` | user on the loop and user on a thread, 2 sends of up to 2 bytes | `CallbacksPaired`, `WritesWatched`, `StreamIntact`, `FinAfterData`, `DeadSendOnlyIfLate`, `DeletedUnwatched`, `ClosedIsDeleted`, `BufferDrains` |
| `receive_buffer` | buffers of 6 bytes, stream of 14 | `HoldsStream`, `ReadsInOrder`, `MemoryBounded` |
| `tcp_client` | callbacks on the loop and 1 thread, 2 connection objects | `StartedAgrees`, `LiveIsTracked`, `DisconnectHolds`, `DeadClientReleased` |
| `tcp_server` | up to 2 threads, 2 connections, 2 descriptors, 2 waiting user calls per connection | `OpenIsOwned`, `PendingServed` |
| `poller` | 3 watchers on 3 descriptors, or on 2 of them; either poller; an array of 1 | `ImplementsPoller`, `AllAreTold` |
| `monitors` | semaphore with 4 threads; queue with 3 threads and 1, 2 or any number of places; 2 loggers, 3 lines, 2 starts | `NotifyWakesEnough`, `NobodyForgotten`, `ValuesTaken`, `LinesInOrder`, `ReliesRightly`, `LoggingProceeds` |

Why the bounds are enough to be interesting:

- Event loop: two callers can both be between push and wakeup, three functors allow one in the batch, one queued while
  it runs and one pushed from outside. The eventfd counter is capped at 2, where the kernel's limit is 2^64 - 2: a bound
  of the instance, which the code does not reach. `NoLostWakeup` does not depend on it.
  The theorems remove these bounds for everything but liveness.
- Timer queue: two timers give every order of the batch, the map and the queued request; three ticks let a repeating
  timer restart, be cancelled inside its own batch, and meet a stale expiry.
- Connector: three queued functors hold a reset, a stop and a start in any order; the real delays are used, so the
  doubling reaches its cap.
- Connection: two bytes can be split by a short write; two sends give a queued one behind a buffered one; two functors
  queued by users suffice for send, shutdown and forceClose to overtake each other in pairs, beside the owner's.
- Client: a thread beside the loop's own, and two connection objects, are needed for a call to race another and for an
  old connection to close after a new one is there (the same properties hold with two threads, in 7.7 million states). Delays play no part and are set to 1, `MaxQueue` limits only callers' pushes.
- Server: two pool loops, so that round robin wraps and establishment, removal and destruction lie on different loops;
  two descriptors, so that a connection, the spare one and the rest of the program exhaust them (there are two
  connections at once when the spare one has been lost). Two waiting user calls per connection let a shutdown and a
  forced close, in either order, meet an establishment, a removal and a destruction. With three connections and
  descriptors and one waiting call, and connections symmetric, `OpenIsOwned` holds in 1.0 million states; so does
  `PendingServed` with one pool thread and no symmetry, in 0.7 million.
- Receive buffer: six bytes per buffer with new room offered below three gives two-vector reads that end anywhere, and
  fourteen bytes use every buffer again. With three as `kReceiveSize` the bound of `MemoryBounded` is reached, and one
  byte less would be violated.
- Pollers: with three entries the removed one can be first, in the middle or last, so that an entry moves or not; two
  watchers of one descriptor take turns; an array of one place overflows and is doubled twice. A descriptor is quiet, or
  writable and hung up, which gives an event that was asked for and one that was not.
- Logging: buffers hold two bytes (three less the one `append` keeps free), so that lines of 1, 2 and 3 bytes fit, fill a buffer and fit into
  none; three lines use the current buffer, the next one and a new one before the thread comes; files roll by size and by period; the
  clock goes forward and back; a second start meets the used latch.
- Semaphore: one thread can be notified late while another sleeps, a third notifies and a fourth comes in between.
  Queue: each thread may put and take, so both conditions have waiters while a third thread overtakes.

Deadlock checking is off where the system may really stop: once a connection, thread, server or client is gone, or when
all threads of the queue wait, which is what a blocking queue is for, or when a bound of the instance is reached.

### Findings

Two runs expect a violation.

1. `loop()` begins by clearing `quit_`. A `quit()` that arrives after the loop was published and before `loop()` is
   entered is erased, and `~EventLoopThread` joins for ever, though `loop()` is commented "blocking until quit".
   `OwnerReturns` shows that the destructor returns in the other case.
2. `resetTimer()` leaves `it_interval` uninitialised and ignores the result of `timerfd_settime`. If the kernel rejects
   the garbage, nothing is armed and the timer never runs. With garbage that the kernel accepts, timers still run
   (`TimersFire` in `timer_queue`): the spurious periodic expirations are harmless.

### Exceptions the properties name

Where the code has a case it does not handle and no document promises anything, the property states exactly when, and
dropping the exception makes TLC show a behaviour. What an exception names is documented by the property, not excluded by
it:

- `NoLostWakeup`: functors queued by the owner before `loop()` wait for the first poll to return.
- `LoopUsable`: somebody else quitting the loop makes the destructor dereference null.
- `DanglingOnlyIfOvertaken`, `Connected`: a reset queued by the former attempt deletes the watcher of the next one.
- `StreamIntact`, `WritesWatched`: the rest of a short write of a `ReceiveBuffer` is stored unreadable; the write event
  then fires without end. A `ReceiveBuffer` sent from another thread sends nothing.
- `DeadSendOnlyIfLate`: a queued send is bound to a plain `this`, and may find the connection deleted.
- `DeletedUnwatched`: `destroyedInLoop()` does nothing after `shutdown()`, so a connection whose owner is destroyed is
  deleted while poll watches it.
- `FinAfterData`: a FIN held back for buffered data is never sent, as `shutdownInLoop()` does nothing once the state is
  kDisconnecting.
- `WritesWatched`: `sendInLoop()` drops what it is given while the write event is enabled, hence only behind data that
  still waits.
- `ReadsInOrder`: with an offset and a count below what is held, `peek` cuts too early.
- `ImplementsPoller`, `AllAreTold`: nothing is said once the erased map node held another index (`corrupted`).
- `NotifyWakesEnough`: a timed wait that was notified and reports a timeout uses up the notification.
- `LoggingProceeds`: a `stop()` whose notification is missed waits in `join()` until somebody logs; what is in the buffers
  when logging stops stays there until it is started again.
- `LinesInOrder`: a line as long as a buffer is dropped.
- `ReliesRightly`: after a second `start()`, which finds the latch open, `stop()` may come before the thread asserts that
  `running_` is set.
- `StartedAgrees`: two overlapping calls may leave the connector doing the opposite of `started_`.
- `DisconnectHolds`: a handshake that ends between `disconnect()`'s look and its queued stop slips through.
- `LiveIsTracked`: a client that reconnects while its former connection is closing forgets the new one.
- `DeadClientReleased`: a client destroyed off its loop, or with a start or stop pending, may be handed a connection
  after its deletion. Even on its loop, its connection may still call `removeConnection()` on the deleted client: if it
  closes before its queued `destroyed()` runs, or had been shut down and is passed over by `destroyedInLoop()`.
- `OpenIsOwned`: a connection that is shut down and whose peer has not closed when `~TcpServer()` runs is passed over by
  `destroyedInLoop()` and stays open on its loop with nobody to close it (`examples/chat/codec.h:25` makes such ones).
- `PendingServed`: if another thread takes the descriptor that `handleRead()` has just given up, the acceptor is left
  without a spare one and its listening socket stays readable.

Also in the models, without a property: a removal queued on the base loop, or a connection of the base loop that closes, after
`~TcpServer()` calls the deleted server. `LoopEnds` lets a pool thread end with any functors unrun, which is a little
more than the code allows (a batch in progress is finished).

### Fairness

Safety runs assume none. For liveness, each module says what it takes for granted, and why:

- threads are scheduled and callbacks return; a mutex that is free again and again is obtained (strong fairness where
  another thread may take it in between);
- poll() returns when the eventfd is readable, reports a socket with news, and a due timerfd expires. The poll timeout
  is *not* used: `LoopResponds` holds with a poll that otherwise never returns;
- queued functors get their turn in each iteration (shown by `EventLoop`), hence strong fairness of `RunRequest`;
- Connector: the network does not fail for ever (strong fairness of an attempt that gets under way and of one that
  succeeds). This is an assumption about the world; without it no retry policy connects;
- pollers: the loop polls and dispatches again and again; which ready descriptors `epoll_wait` leaves out is open;
- logging: threads go on with what they have begun; nobody has to log, start or stop;
- TcpConnection: users drop their references, and a peer that does not close reads.

Nothing forces users to call anything, owners to destroy anything, or the poll timeout to expire.

## 4. Proofs

Each property below, unless said otherwise, is checked by a run and proved here for every value of the constants. A proof module has one or more
inductive invariants, each checked by TLC on the run's instance before it was proved; one lemma says that every action
keeps it, and the properties follow.

**EventLoopProofs**, for any sets of callers, functors and watchers and any eventfd limit (assumptions of `EventLoop`:
the loop's thread is not a caller, the limit is positive, the wakeup watcher is not an I/O watcher):

- `TypeCorrect` – types; every later step uses them.
- `FifoCorrect` – `ExactlyOnceFifo`. It is inductive only with `BatchUsedUp`: outside the batch the local vector is
  empty, so that swapping in the pending functors loses nothing. Each step then moves the head of one sequence to the
  end of another, which the lemmas on concatenation (`AppendConcat`, `MoveHead`, `HeadTailConcat`) cover.
- `WakeupCorrect` – `NoLostWakeup`, from `WakeupInv`: work the loop was not told of (`News`) comes with a readable eventfd or a
  thread on its way to writing it, at every point of the loop but one: while watchers are handled, because the swap
  comes next. And `callingPendingFunctors_` is set exactly inside `doPendingFunctors()`, which is what makes the test
  in `queueInLoop()` sound. The property itself speaks of poll only, and is not inductive.
- `ExecutorCorrect` – refinement: initial states are initial in `SerialExecutor`, and each step is a push, a run or a
  stutter under `queue <- functors \o pendingFunctors_` (`ExecutorStep`). Swapping the batch leaves the concatenation
  as it is, again because of `BatchUsedUp`.
- `BatchesOnlyShrink` – `BatchOnlyShrinks`, an action property, action by action from the types.
- `LoopIsUsable` – `LoopUsable` of EventLoopThread, from `ThreadInv`: `loop_` and the life of the loop follow `threadFunc()`,
  the constructor returns only after the loop was published, and nothing but the destructor gets the thread past
  `loop()` unless somebody else quits. It uses neither mutex nor condition variable, so it holds even though the thread
  may use them before they are constructed.

**TimerQueueProofs**, for any timers, times and intervals:

- `TypeCorrect`, and `KeysCorrect`: entries are filed under their timer's current expiration. `KeysInv` adds that
  the timers of a batch are out of the map while `restart()` changes them, and that there is no batch outside one.
- `ArmedCorrect` – `ArmedInTime`, assuming that the garbage in `it_interval` is never rejected; the assumption is needed,
  as the run `timer_queue_garbage` shows. A new first timer re-arms, any other is later than what is armed.
- `CancelCorrect` – `CancelSticks`, from `CancelInv`: a cancelled timer was added before, a queued add is for a timer that has
  not been added and is queued once, so that none comes after the cancellation; and the flag that makes `cancelInLoop`
  remember a timer of the batch is set as long as the batch lasts.

**WatcherProofs**, for any finite set of watchers, any descriptors and conditions, any freed indices and any initial
size of the array:

- `TablesMirrorWatchers` – while no freed index was used, each entry of PollPoller's array is where the index says and
  stands for the started watcher found under its descriptor, and each started watcher has one; the kernel's list mirrors
  the started watchers in the same way, so that no `epoll_ctl` fails. It needs that a descriptor has one started watcher
  at a time (`OneEach`, from `Free`). The interesting step is `removeWatcher()`: the last entry moves, and the cases that
  it is the removed one and that it is not come to the same tables.
- `PollersAgree` – `ImplementsPoller`, the refinement. Enabling, disabling, dispatching and the kernel's steps map to
  themselves. A poll of either class maps to `PollerPolls`, because entries of different descriptors stand for different
  watchers: the batch is a bijection onto a set of due watchers (`Batch`), and not empty as the array never is.

**TcpConnectionProofs**, for any users, sizes of data, number of sends and length of the queue:

- `Invariance` – three layers. `LifeInv`: until `establishedInLoop()` runs nobody else knows the connection, and it is
  first in the queue; the read event is enabled exactly while the connection is open. `DataInv`: the data properties
  together, with the fact that unreadable data is never behind readable. `RefInv`: a send queued in time has a `destroyed()`
  behind it, whose functor holds a reference; an owner that let go has called `destroyed()`, and that closes the
  connection unless it was in kDisconnecting.
- `CallbacksArePaired`, `WritesAreWatched`, `StreamIsIntact`, `FinComesLast`, `DeadSendIsLate`, `DeletedIsUnwatched` – the six
  invariants of the run. `StreamIntact` by the laws of concatenation, for every way a write may be cut short.
- `EndStaysFinal` – `EndIsFinal`, an action property that no run checks: what is queued when a connection ends has no
  effect on it, and nothing is written after the FIN. Action by action: a closed connection has no event enabled
  (`LifeInv`), and one that has sent its FIN has nothing left to write (`DataInv`).

**TcpClientProofs**, for any delays (the initial one positive and not above the largest), any bound on the queue and, for
the connector alone, any functors of other objects on the loop; for the client, any callers and connections, `null` not
being one (`NullAssumption`):

- `TimerCorrect`, `AttemptCorrect`, `TryingCorrect` – `OneRetryTimer`, `AttemptConsistent` and `KeepsTrying`, together with
  the types of the flags, form one inductive invariant (`AttemptInv`). None is inductive alone: `retry()` sets a timer
  without looking whether there is one, which is right only because an attempt in progress excludes a pending retry.
- `TypeCorrect` – types, the bounds of the delay among them.
- `DanglingCorrect` – `DanglingOnlyIfOvertaken`, from `WatchInv`: only the watcher of an attempt in progress is registered;
  if a reset is queued while a watcher is registered, the attempt overtook it; and as long as events of a stopped
  attempt are still to be handled, its reset waits for the next batch, so that a new attempt in between overtakes it.
- `ClientInvariance` – five layers, each resting on those before. `BaseInv`: types, and of the connector only what the client
  depends on. `CallsInv`: as long as calls do not overlap, at most one caller is between its exchange of `started_` and its
  `queueInLoop()`, and without one, the last start or stop in the queue, or else the connector itself, agrees with `started_`.
  `TrackInv`: a connection that is to be destroyed has been closed; after `disconnect()` an open connection has its
  `shutdown()` queued or somebody is still to look for it. `DeadInv`: a client destroyed on its loop leaves a connector that
  does not want a connection and has no call in its queue. `ConnectionReleased`: its connection, if kConnected, has its
  `destroyed()` queued, by `LiveIsTracked` at the moment of `~TcpClient()`.
- `StartedIsObeyed`, `LiveConnectionIsTracked`, `DisconnectIsKept`, `DeadClientIsReleased` – the four invariants of the run.
- `ConnectorInClient` – the connector's four guarantees hold for the connector of a client. Each step of the client is
  one of the connector by itself, or a call in place (of `startInLoop`, `restart` or `stopInLoop`) (`SeenByConnector`), and
  each keeps the two invariants above (`CallKeepsConnector`). The client's own functors between the connector's do no
  harm, as only a queued `resetWatcher` matters to them.

**TcpServerProofs**, for any number of pool threads, connections and descriptors (at least as many connection objects as
descriptors):

- `Invariance`, `OpenIsAlwaysOwned` – `OpenIsOwned` is not inductive: a `destroyed()` that ran before `established()` would do
  nothing, and the connection would then be opened for good. `TidyInv` says that `established()` is once in the queue of
  the connection's loop and ahead of every `destroyed()`; and that, as long as the server lives, a connection whose
  removal or destruction is queued is closed, so that `destroyed()` never meets one that is only shut down. `~TcpServer()`
  gives up the second, hence the exception. It queues several functors at once, in any order
  (it goes through a hash set), which `ConcatSeq` covers.

**BufferProofs**, for any buffer size and length of the stream; for any loggers, lines, sizes and times:

- Induction over data. The library's induction theorems are of no use here, as they take a predicate as parameter.
  `NatSet` says the same of a *set* of numbers that has 0 and successors, from the well-foundedness of `<`;
  `LoopExists` and `LoopInvariant` derive from it that a loop written as a recursive function exists and keeps its
  invariant turn by turn, and the lemmas on `FlattenSeq` follow in the same way.
- `HoldsTheStream` – `HoldsStream`, from `StreamInv`: the buffers in use are a window on the stream (`Window`), in which each
  holds the bytes of a stretch one capacity long, all but the last are full and all but the first unread; spare ones
  have both positions at 0; `size_` counts. `hasReceived()` finds the place where `readv()` stopped because of the last of
  these facts about spare buffers.
- `ReadsTheStreamInOrder` – `ReadsInOrder`: each turn of the loops of `read` and `peek` appends the next stretch of the stream
  (`TakeTurnOK`, `PeekTurnOK`, `PeekAtTurnOK`), and there are no more turns than buffers.
- `MemoryIsBounded` – `MemoryBounded`, inductive with `StreamInv`: a buffer is made only if none is spare and the last has less
  than `kReceiveSize` of room, so the buffers then in use are full but for that and for what was read of the first.
- `LoggingReliesRightly` – `ReliesRightly`, from `ControlInv` (before the first `stop()` the thread begins with `running_` set
  and the latch closed) and `LoggersInv` (a buffer that was given away is among those to be written, so at least as many
  come back as are missing; a logger that is not being written has both spare ones).
- `LinesStayInOrder` – `LinesInOrder`, from `LoggersInv` (spare buffers are empty) and `LinesInv`: every step either moves a boundary
  between files, full buffers and the current one, or appends the same line at the end of both sides.

**MonitorsProofs**, for any finite set of threads and any count or capacity:

- `OneNotifyIsEnough` – `NotifyWakesEnough` is inductive with the types: whoever sleeps is blocked. `NobodyIsForgotten` – the
  part of `NobodyForgotten` about values and the part about room are each inductive with the types. The argument
  counts threads, with the library's facts about cardinality.

### What TLC alone shows

All liveness properties (`LoopResponds`, `OwnerReturns`, `TimersFire`, `Connected`, `ClosedIsDeleted`, `BufferDrains`, `PendingServed`,
`AllAreTold`, `ValuesTaken`, `LoggingProceeds`): the prover has no rules for fairness. Every invariant, action property and
refinement that a run checks has a theorem.

## 5. Not modelled

- `Thread` (a cached thread id), `Socket` and `InetAddress` (system calls and formatting, whose outcomes are inputs),
  `Singleton` (`std::call_once`), `FileUtil` (file I/O), log formatting: no protocol of their own.
- `SendBuffer` with more than one buffer: `TcpConnection` never makes a second one, as it drops data while one waits.
- `handleEvents()` as a function of its own: the callbacks it makes are in the modules of the objects that set them.
- Deleting a watcher that is still in a batch: in `Connector` and `TcpConnection`, where it can happen.
- Examples and tests are uses of the library.

## 6. Plan

Order: what everything depends on first (loop, timers), then the components with the most interleavings (connection,
connector), then those that compose them (client, server), then helpers. Done: the modules of section 2 and the proofs of section 4. Next:

1. `SendBuffer` on its own, with several buffers, should the connection come to append while earlier data waits.
2. The safety facts that the liveness properties rest on (which action is enabled while something is owed), as invariants
   with theorems, so that only the step through fairness is left to TLC.
