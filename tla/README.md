# A TLA+ verification of trantor

trantor is a non-blocking TCP library in C++: a reactor (`EventLoop`) per
thread, connections, servers and clients on top of it, timers, TLS, resolvers,
task queues and an asynchronous logger. This directory models it in TLA+,
checks the models with TLC and proves theorems about eight of them with TLAPS.
Line numbers refer to `src/trantor/` (`Wepoll.c` is under `src/third_party/wepoll/`). `PROJECT.json` maps every definition to
the lines it translates.

Contents:
1. [The system](#1-the-system)
2. [Modules](#2-modules)
3. [Runs](#3-runs)
4. [Bounds](#4-bounds)
5. [Fairness](#5-fairness)
6. [Theorems](#6-theorems)
7. [Findings and known deviations](#7-findings-and-known-deviations)
8. [Hazards](#8-hazards)
9. [Not modelled](#9-not-modelled)
10. [Plan](#10-plan)

## 1. The system

One thread runs `EventLoop::loop()`: poll, handle the active channels one after
the other, run the queued functors, again. Everything a connection, server or
timer does happens in the thread of its loop. Other threads reach it only by
queueing a functor and waking the loop.

| Part | State | Operations | Talks to | What is hard |
|---|---|---|---|---|
| `MpscQueue` (`utils/LockFreeQueue.h`) | linked list, `head_`, `tail_` | `enqueue`, `dequeue`, `empty`, destructor | used by `EventLoop` | an enqueue is an exchange and a later store; nodes are freed while producers hold pointers |
| `EventLoop` | `looping_`, `quit_`, two functor queues, eventfd | `loop`, `queueInLoop`, `runOnQuit`, `quit`, `wakeup`, destructor | all | lost wake-ups and quits, exceptions, a loop run again, destruction by another thread |
| `Channel`, pollers | `events_`, `revents_`, `index_`, the tables of epoll, poll and kqueue | enable, disable, `remove`, `poll`, `handleEvent` | `EventLoop`, kernel | callbacks remove channels that are still in the list of the turn; an fd is used again |
| `TimerQueue` | heap, id set, timerfd | `addTimer`, `invalidateTimer`, `handleRead`, `reset` | `EventLoop` | a callback re-enters the queue or throws; a cancel races a pending add |
| `TcpConnectionImpl`, buffer nodes | status, channel, list of nodes, streams | `send*`, `writeCallback`, `shutdown`, `forceClose`, close path | loop, owner, peer | partial writes, two ways to send, streams without an end, close in the middle |
| `TcpClient`, `Connector` | client and connector status, socket, channel | `connect`, `stop`, `disconnect`, destructor | resolver, connection | three callbacks of one socket event, release during an attempt |
| `TcpServer`, `Acceptor` | set of connections, loops, wheels | accept, close, `stop` | connections in other loops | the end of a connection crosses two loops and meets `stop()` |
| `TimingWheel`, kick-off of idle connections | wheels of entries, clocks | tick, `insertEntry`, `extendLife`, `keepAlive` | connection, timer | cascade between wheels, entries inserted by destructors, two clocks |
| TLS providers, session cache | `writeBuffer_`, BIOs, handshake; LRU list and map | handshake, data, alert, close; `store`, expiry | connection, OpenSSL or Botan | records that do not fit, errors in a callback, a cache shared by loops |
| Resolvers | cache, timer, channels of c-ares; a mutex and a pool of workers | `resolve`, `onTimer`, `onRead` | loop, c-ares, `getaddrinfo` | callbacks that resolve again, the life of the resolver, a callback under the lock |
| wepoll (`Wepoll.c`) | port with update and delete queues, socket states, poll groups, reference locks, a red-black tree | `epoll_ctl`, `epoll_wait`, `epoll_close`, post | `EpollPoller` on Windows, the AFD driver | packets that arrive after a delete, changes while a thread waits, closing under users |
| `ConcurrentTaskQueue`, `SerialTaskQueue`, `EventLoopThread` | queue, mutex, condition; a loop in a thread, promises | run, sync, wait, stop, destructor | user threads | notifications that are missed, destructors that race the thread |
| `AsyncFileLogger` | three kinds of buffers, the thread, files | output, flush, thread, destructor, switch of files | file system | buffers change hands, time-outs, names used again after a restart |
| `MsgBuffer`, file nodes | vector, `head_`, `tail_`; file position | append, read, retrieve, add in front | connection | moving, growing and shrinking; the last chunk |
| `Logger`, `LogStream` | a line and its buffer; the text of the last second per thread; sinks | `<<`, constructor and destructor of a line, settings | sinks, `AsyncFileLogger` | the fixed buffer fills, cached times get stale, the vector of sinks grows |
| `Date`, `Utilities`, digests | pure functions; the state of a digest or of the random generator | printing and reading; update, finish | users | midnight, clock changes, the last block, bytes of UTF-8 |

What each part should guarantee: nothing queued is lost, repeated or reordered;
whatever waits is waited for by somebody; nothing is used after it was freed;
what is announced happens once; bounded tables stay bounded. Sections 3 and 6
say which definition states which of these.

## 2. Modules

Names of variables, operators and actions are those of the code, without the
trailing underscore. One action stands for one access to shared state where
threads race (`MpscQueue`, `EventLoop`, `ConcurrentTaskQueue`,
`EventLoopThread`, `AsyncFileLogger`, `NormalResolver`, `Wepoll`), and for a whole handler or functor where
everything runs in one loop thread. Data is reduced to what the properties tell
apart: a functor is a pair of thread and number, a message a few numbered
units, a socket a number.

| Module | Models | Correspondence |
|---|---|---|
| `FuncQueue` | what a functor queue promises | a FIFO whose enqueue takes its place and becomes visible in two steps |
| `MpscQueue` | `utils/LockFreeQueue.h` | `next`, `dataPtr` per node of a heap that reuses freed nodes; one action per atomic operation of `enqueue`, `dequeue` and the destructor; `chain` is a history of the list from `tail_` to `head_` |
| `EventLoop` | `net/EventLoop.cc` | `lpc` is the place in `loop()`, `pc[t]` that of thread `t` in a call; both functor queues are `FuncQueue`; user code in the loop thread makes any call or throws |
| `Channel` with `Pollers` | `net/Channel.*`, `net/inner/poller/*` | `Pollers` has `EpollPoller`, `PollPoller` and `KQueue` as operators on a `poller` record over a kernel interest list; `Channel` has the callbacks, the list of active channels and the order poll, dispatch, functors |
| `TimerQueue` | `net/inner/TimerQueue.cc`, `Timer.*` | heap as a set ordered by `when`, `timerIdSet`, `timerfd`; callbacks add, invalidate and throw |
| `TcpConnection` | `net/inner/TcpConnectionImpl.cc` without TLS, buffer nodes | list of nodes of four kinds (message, file, stream, async stream); every write takes any part; other threads go through `funcs`; `wire` is a history of what reached the socket |
| `FileBufferNode` | `net/inner/FileBufferNodeUnix.cc` and both ways `sendNodeInLoop` sends a file | position, bytes to send, chunk buffer; the file may be truncated meanwhile, and a read of it may fail |
| `TlsConnection` | `TLSProvider.h`, `OpenSSLProvider.cc`, `BotanTLSProvider.cc`, the TLS branches of the connection | handlers are operators from a connection record to the set of records they may leave, because they call one another and the socket takes any part each time; OpenSSL and Botan are known by the records they make; `provider` says which of the two runs |
| `SessionManager` | the session cache in `OpenSSLProvider.cc` | list, map, timers and reference counts; the unlock between the two parts of `store()` is a step boundary |
| `AresResolver` | `net/inner/AresResolver.*` | queries, cache, the one timer, the channel of c-ares and the owner's reference; callbacks call `resolve()` again |
| `NormalResolver` | `net/inner/NormalResolver.*` | resolve calls as a stack per thread (callbacks resolve again), the global mutex and cache, the tasks in the pool of workers; an address is the time of its answer |
| `Wepoll` | the port of `Wepoll.c` | `epoll_ctl`, `epoll_wait`, `epoll_close` and `epoll_post_signal` of several threads step by step between their critical sections; socket states, poll groups, update and delete queues, the reference lock; the AFD driver and the completion port are external |
| `RedBlackTree` | `tree_add` and `tree_del` of `Wepoll.c` | nodes with parent, left, right and colour; rotations and both fix-up loops, checked against the definition of a red-black search tree |
| `TcpClient` | `net/TcpClient.cc`, `net/inner/Connector.cc` | attempts with every outcome of `connect(2)`, the callbacks of one event in their order, asserts that end the program |
| `TcpServer` | `net/TcpServer.cc`, `Acceptor.cc` | per loop a batch of active channels and a queue of functors; `stop()` step by step in the loop or in another thread |
| `TimingWheel`, `IdleKickoff` | `utils/TimingWheel.*`, the idle timeout of `TcpConnectionImpl` | an entry pointer carries its path through the lower wheels, as the nested entries of the code do; `IdleKickoff` extends the wheel by a connection with a finer clock |
| `ConcurrentTaskQueue` | `utils/ConcurrentTaskQueue.*` | mutex, condition variable with spurious wake-ups, workers and users |
| `EventLoopThread`, `SerialTaskQueue` | `net/EventLoopThread.*`, `utils/SerialTaskQueue.*` | the thread function, promises and shared pointers step by step; the task queue extends it by nested tasks and waiting calls |
| `AsyncFileLogger`, `LoggerFile` | `utils/AsyncFileLogger.*` | buffers by identity, so that one in two places is seen; the directory outlives the process |
| `MsgBuffer`, `ByteQueue` | `utils/MsgBuffer.*`, what it promises | the vector with `head` and `tail`; `ByteQueue` is a plain sequence changed only at its ends |
| `LogStream`, `Logger` | `utils/LogStream.*`, `utils/Logger.*` | the fixed buffer of a line by its length, with the overflow into a string; the lines of several threads with their cached second, levels and sinks |
| `Hashing` | `utils/crypto/*.cc`, `secureRandomBytes()` | buffers, block counts and padding of MD5, SHA-1, SHA-256, SHA-3 and BLAKE2b for blocks of a few bytes; the blocks that reach the compression function are compared with the padded message |
| `Date` | `utils/Date.cc` | days, seconds and fractions in small radixes; a time zone whose clock changes; printing and reading of the database strings |
| `Strings` | `Utilities.cc`, `Funcs.h` | UTF-8 and wide characters, hexadecimal digits, `splitString()` against reference definitions |

Composition and refinement:

- `EventLoop` is built over `FuncQueue`, and `MpscQueue` is shown to implement
  `FuncQueue` (`VisibleQueue` is the refinement mapping: the objects of `chain`
  behind the dummy node, each with whether it is linked). What is shown of
  `EventLoop` therefore holds over the real queue.
- `MsgBuffer` is shown to implement `ByteQueue`.
- `Channel` composes with each of the three pollers of `Pollers`.
- `Wepoll` keeps its handle tree and the tree of sockets of a port as sets;
  `RedBlackTree` shows that the tree of the code is such a set in order.
- `SerialTaskQueue` extends `EventLoopThread`, and `IdleKickoff` extends
  `TimingWheel`: the client and its component take steps together.
- The higher modules keep the loop as "a batch of channels, then the functors
  in order", which is what `Channel` and `EventLoop` establish.

The `MC` modules instantiate these. Where one run holds several independent
parts (`MCLoopParts`, `MCTcpConnection`, `MCTcpClient`, `MCThreads`,
`MCUtilities`), a variable (`part`, `class`, `instance`) is chosen once, that
part runs, and the variables of the others stay at their one initial value. The
state space is the sum, not the product, and each property is about its part.
Several instances of one module (`MCEventLoop`, `MCTcpConnection`,
`MCTcpConnectionLive`, `MCTcpServer`) are combined in the same way.
`Mut...` operators are faulty variants of the definition that follows them;
they show that the properties can fail. Nothing else uses them.

## 3. Runs

| Run | Module | Distinct states | Properties |
|---|---|---|---|
| `loop_parts` | `MCLoopParts` | 532 000 | `NoUseAfterFree`, `ImplementsFuncQueue`, `PollerAgrees`, `HandledIsLive`, `WepollAgrees`, `TreeIsBalanced` |
| `event_loop` | `MCEventLoop` | 180 000 | `NoLostWakeup`, `NoLostQuit`, `FuncsInOrder`, `QueuedFuncRuns`, `DestroyReturns` |
| `tcp_connection` | `MCTcpConnection` | 1 073 000 | `WireOrder`, `NoStuckData`, `CloseOnce`, `NoTimerMissed`, `CancelledNeverRuns`, `KickedOnTime` |
| `tcp_connection_live` | `MCTcpConnectionLive` | 179 000 | `NothingSkipped`, `DataIsSent` |
| `tcp_client` | `MCTcpClient` | 88 000 | `NoDoubleClose`, `AttemptIsAnswered`, `ResolversAnswerRight`, `QueriesAreAnswered` |
| `tcp_server` | `MCTcpServer` | 29 000 | `StopIsSafe`, `StopReturns` |
| `threads` | `MCThreads` | 174 000 | `TasksAreTaken`, `SyncIsAnswered`, `DtorUsesLiveLoop`, `RecordsAreKept`, `ReachesFile` |
| `utilities` | `MCUtilities` | 802 000 | `IsByteQueue`, `FileIsSent`, `TlsDelivers`, `FinAfterAlert`, `SessionRefs`, `LineIsWhole`, `LinesGoOut`, `DigestInput`, `DateConversions`, `StringsAreKept` |
| `task_queue_stop` | `ConcurrentTaskQueue` | | `StopReturns`, violated |
| `send_file_range` | `FileBufferNode` | | `SendsTheRange`, violated |
| `date_round_trip` | `Date` | | `InverseOfToDbStringLocal`, violated |
| `botan_send` | `TlsConnection` | | `SentInTrunks`, violated |

What they show:

- **`loop_parts`**. No producer, consumer or destructor step touches a freed
  node although nodes are reused at once (`NoUseAfterFree`), and the list is the
  abstract FIFO. Whatever callbacks do to channels, the kernel watches exactly
  the enabled events, with the right channel, for all three pollers
  (`PollerAgrees`), and a channel that is removed before its turn in the batch is
  passed over (`HandledIsLive`; one that is removed in a callback of its own may
  still get the others of the same event). In a wepoll port that threads use and close at once
  (`WepollAgrees`), a request that was submitted has one packet on its way and a
  socket state that lives until then, what a caller asked to watch is submitted
  or stands in the queue of a thread that will, poll groups are counted right,
  and the port is freed after the last call has left it. The tree stays a search
  tree with the colours of a red-black tree through every sequence of insertions
  and removals (`TreeIsBalanced`).
- **`event_loop`**. The loop never sleeps on a functor it could see, or while
  `quit_` is set, without a wake-up on its way; functors run once and in the order of
  each thread, through exceptions and restarts, and all of them do run; a destructor
  in another thread that has set `quit_` on a loop past its reset of the flag comes
  to an end, wherever the loop is (`DestroyReturns`).
- **`tcp_connection`**, **`tcp_connection_live`**. Order on the wire per thread,
  no data that waits for nobody, one close; and without errors nothing is
  skipped, everything is sent unless the connection is closed, and the write
  side closes after it. Of the timers in the same loop: the timerfd is never set
  later than the first one and none falls out of the heap (`NoTimerMissed`), none
  runs after its cancellation was carried out, entries of two- and three-level
  wheels are released at their tick, and an idle connection is kicked within a
  second of the timeout (`KickedOnTime`).
- **`tcp_client`**. No socket is closed twice or polled when closed, no
  connection destroyed twice. An attempt whose channel watches its socket, or whose
  socket the `Connector` closed at once, is answered by a callback of the user, unless
  it is stopped, the client is released or an assertion fails (`AttemptIsAnswered`);
  the five errors on which `connect(2)` fails without an answer are in section 7. The c-ares resolver is
  alive whenever c-ares may call it and has one timer; the other one answers from
  its cache only what is still fresh (`ResolversAnswerRight`); both answer every
  query, unless a callback calls `resolve()` under the lock of `NormalResolver`.
- **`tcp_server`**. A connection is erased once and destroyed only after the
  batch its channel is in, `stop()` misses no connection (`StopIsSafe`), and
  returns.
- **`threads`**. A queued task has an awake worker or nobody sleeps, and tasks
  run once and in order (`TasksAreTaken`); `syncTaskInQueue()` returns unless the
  queue is stopped or every worker waits inside one (`SyncIsAnswered`); waiting
  calls wait for what they say and destructors use live loops
  (`DtorUsesLiveLoop`). Accepted log messages reach the file once, in order and
  without a flush; no record is lost except with a file that the limit removes.
- **`utilities`**. The buffer is a byte queue; a file is sent in order and
  to its end, or to where a `read(2)` of it failed; over OpenSSL and over Botan, TLS records and data keep their order
  through partial writes, nothing gets stuck, no message comes from a connection
  without a valid certificate (`TlsDelivers`), and the write side closes after the
  alert; each cached session has exactly the references it should. A log line
  holds each item whole, once and in order on both sides of the end of its fixed
  buffer (`LineIsWhole`), carries its own second and goes to sinks that exist
  (`LinesGoOut`). The blocks of a digest are those of the padded message, for every
  length of it, of which SHA-256 has those that fit its 32-bit counter
  (`DigestInput`). Dates and texts come back from their
  conversions as the same ones, outside the cases of section 7
  (`DateConversions`, `StringsAreKept`).

`CHECK_DEADLOCK FALSE` is set where the system may stop: a loop that was left, a
queue that was destroyed, a connection that is closed, or a bound that is used up.
In `loop_parts` deadlock is checked; a wepoll port whose threads have all
returned or wait for packets rests (`Resting`).

## 4. Bounds

Every bound is a constant whose name begins with `Max`, or a small set in the
`.cfg`.

| Run | Instance | Why this is enough for the interesting cases |
|---|---|---|
| `loop_parts` | 2 producers, 4 nodes, 3 items; 3 channels, 2 with the same fd; event list of 2; wepoll: 2 threads, poll groups of 1, 1 socket added up to twice, or once with events and 1 failing request; trees of up to 8 keys | a producer may stop between exchange and store while the other overtakes it and the consumer frees and reuses nodes; the event list fills and grows, an fd changes its channel, an index moves; a packet of the first socket state meets the second, one thread changes, deletes or closes what the other waits for, a group is full; 8 keys reach every case of both fix-up loops |
| `event_loop` | race: 2 threads with 1 functor each; order: 1 thread with 2 functors, exceptions; on quit: 1 functor on quit; destroyed: one thread queues or destroys, the loop thread queues, quits and registers a functor on quit | two foreign threads make every pair of racing calls; two functors of a thread show the order; the proofs cover any number |
| `tcp_connection` | loop thread and one other; 2 units per message; 2 + 1 sends; one unit per stream; every kind of node with errors, the other thread without async streams, and async streams of both threads with messages of the other one without errors; 2 timers, clock 0..3, delays and intervals 0 or 1, 2 pending functors; timeout 2 s in halves of a second; wheels of 3 and 2 buckets with 2 and 3 levels, 18 and 16 ticks | a message splits, the list holds a node of each thread, a third send finds it in every state; two timers of one batch of which one cancels the other, a timer that a callback adds, ties and past times, an addition and a cancellation that wait together (the proofs cover any number of timers and calls); every phase of the connection's clock against the tick, two rounds of the highest wheel, so that an entry of any delay is inserted at each of its positions |
| `tcp_connection_live` | the same without errors: every kind but files from the other thread, and async streams of the loop thread, on a connection that stays up; messages on one that is closed at any moment | a message that waits meets a close, a shutdown or a writable socket |
| `tcp_client` | 3 sockets, 4 calls; 2 names, 3 queries; `NormalResolver`: 1 worker, 1 name, 3 queries, clock 0..2, time-outs 0 and 1 | an old attempt, the current one and one made in a callback; a name that is asked twice, an entry that gets stale between the two looks at the cache, a callback that resolves again |
| `tcp_server` | 3 connections; own loop and 2 more with wheels, or a pool of 2 | connections in the loop of the server and in others, one accepted while another closes |
| `threads` | 2 workers, 1 user, 3 tasks; 2 functions per caller; 6 log buffers of 2 messages, a queue limit of 1, 4 messages; clock 0..2 in seconds, 4 records, limits 0 and 2, one failing rename | a task that queues a task, a worker that finds its task taken, both workers waiting in tasks of their own; buffers change hands more often than there are buffers; two processes within one second; the proof covers any number of workers, users and tasks |
| `utilities` | chunks of 1 and 2 bytes, at most 3 bytes, offset 2; files of up to 5 bytes read by 2; 3 units of data, 6 records; 2 loops, 3 keys, room for 1 session; log lines of 4 items around a buffer of 12 characters, integers of 8 bits; 2 threads, 2 channels, 2 lines each, 2 changes of settings; blocks of 8 bytes with a length of 4 bytes of 2 bits, messages up to 26 bytes; days of 4 seconds, fractions of 2 binary digits, 6 days, 3 time zones; 3 characters around each boundary of UTF-8, strings of up to 6 | the buffer moves, grows and shrinks; a range of one to three chunks; handshake, data, key update and alert in one connection; replaced, excess and expired sessions; an item that just fits and one that is a character too long; a line that begins in one second and ends in the next; every position of the padding and a length that carries into its second word; midnight, the gap and the repeated hour of a clock change |

Some instances leave out a combination in which the code is known to deviate
(section 7), so that the property says something about the rest:
the closing instances of `tcp_connection` and `tcp_connection_live` send messages
only; the others of `tcp_connection_live` send no files, and the loop thread no
streams but async ones; `tcp_server` has no timing
wheels together with a pool of its own; the timers, the idle connection, the
logger and Botan record the deviation in a history variable (`overlap`,
`dropped`, `unarmed`, `late`, `overtook`) that the
property names; `MsgBuffer` is constructed with at least `kBufferOffset` bytes.
`TcpClient` stops at a failed assertion (`aborted`).

## 5. Fairness

- `EventLoop`: weak fairness of the loop thread and of each thread inside a
  call. Nothing is assumed of the poll timeout, so a functor does not run merely
  because `poll()` returns after ten seconds.
- `TcpConnection`: the loop thread goes on, and a socket that is written to again
  and again takes something (strong fairness: the peer reads).
- `TcpServer`: every loop handles its batch and runs its functors in each turn
  (strong fairness of running functors, since new events may come in between),
  the thread inside `stop()` goes on, and an active acceptor is handled.
- `TcpClient`, `AresResolver`: the loop runs, its functors are called and timers
  expire; the kernel ends each attempt; c-ares gives a query up after its
  time-outs.
- `NormalResolver`: each of the three calls goes on, and gets the mutex if it is
  free again and again (strong fairness of its steps).
- `ConcurrentTaskQueue` (in `threads` and `task_queue_stop`): threads run and
  tasks return; the mutex is fair to those who wait for it (strong fairness of
  each worker, weak of each user). Spurious wake-ups may happen and need not.
- `AsyncFileLogger`: its thread runs and its wait ends after `kLogFlushTimeout`;
  the destructor goes on.

These are what an operating system gives a runnable thread. User calls, peers
closing, exceptions and releases are never fair: nobody has to make them.

## 6. Theorems

TLAPS proves these for every value of the constants, from the named
assumptions of the module only, or from what the theorem itself assumes.

**`MpscQueue_proofs`** (assumption: `NULL` is neither a node nor an item).
`TypeCorrect`, `NoUseAfterFreeHolds`, `DataIsLiveHolds`, `NothingLeaksHolds` and
`Refinement`, for any number of producers, nodes and items. None of these
properties is inductive: that a node is not freed under a producer follows only
from where that producer stands in the list. The invariant `Inv` describes the
list at every moment: the nodes from `tail_` to `head_` are allocated and
distinct (`ChainNodes`, `ChainEnds`); each is linked to its successor unless
exactly one producer still has that store to do (`ChainLinks`, `ProducerInv`);
the consumer holds the second node and its link (`ConsumerInv`); every node but
the dummy has one object (`DataInv`); and no allocated node is outside the list
and the producers' hands (`HeapInv`). For the refinement, each action is shown to
be an abstract step or a stutter of `VisibleQueue`: the exchange appends an
unready item, the store makes it ready, the consumer's advance takes the first.

**`EventLoop_proofs`** (assumptions: the loop thread is not among the others,
destroyers are foreign threads, bounds are natural numbers, exceptions are of
the two kinds). `TypeCorrect`, `NoLostWakeupHolds`, `NoLostQuitHolds`,
`FuncsInOrderHolds`, for any number of threads and functors.
`NoLostWakeup` speaks of the moment before `poll()`. It becomes inductive as
`WakeupInv`, which covers every place outside the part of the turn that ends
with a look at `funcs_`, together with `ControlInv` (when `looping_` is set and
when the loop thread can be inside a call of its own).

**`Utilities_proofs`**, the buffer (assumptions: sizes are natural numbers, chunks are byte
sequences; the theorems assume `kBufferOffset <= initLen`, without which
`InBounds` is false, see section 7). `InBoundsHolds` and `ByteQueueRefinement`,
for chunks, offsets and growth of any size. The invariant adds to `InBounds`
that the vector and `initCap` are never smaller than `kBufferOffset`: that is why
`retrieveAll()`, which shrinks the vector to `initCap` and puts `head` and `tail`
at the offset, stays inside. Lemmas about slices show
that moving bytes to the front or behind themselves leaves what is read the same.

**`Utilities_proofs`**, the task queue (assumptions: finitely many workers, at least
one, and none of them a user; `NoTask` is not a task). `TasksAreTakenHolds`, for
any number of workers, users and tasks, with `stop()` and spurious wake-ups at
any moment. `NoIdleWorker` compares the length of the queue with the number of
awake workers, so each action is followed by what it does to both: a submission
adds one task and wakes one waiter, taking a task removes one of each, and a
worker goes to wait only with the queue empty. The last is not visible in
`NoIdleWorker`: `MutexInv` adds that a worker between its test and its wait holds
the mutex, without which nothing is submitted. `TasksOnce` is strengthened by
`OrderInv`, which says of the tasks taken and queued so far, as one sequence,
that they are those submitted, each once and those of a thread in order (taking
leaves that sequence the same, submitting appends to it), and by `HandsInv`: what
was taken is with exactly one worker or finished. That the number of a new task
is within its type needs a counting lemma (`RoomForTask`).

**`TimerQueue_proofs`** (the theorems assume `Bounds`: the bounds are natural
numbers, delays and intervals are sets of them). `NoTimerMissedHolds` and
`CancelledNeverRunsHolds`, for any number of timers and of queued calls and a
clock of any length. `TimerfdArmed` needs only the types, and that the first time
of a heap is the same whichever timer `top()` picks (`TopTime`). The rest is not
inductive. A cancelled timer could come back through the functor queue: `FuncsInv`
says that a queued `addTimerInLoop()` comes before every other call for its timer,
which is in neither the heap nor the batch, and `CancelInv` that none is queued for a
cancelled one. A timer could run twice from the heap or the batch: `BatchInv` keeps
these apart, and `RunsInv` adds that a one-shot timer in one of them has not run.

**`TcpConnection_proofs`** and, for the lemmas on sequences, steps and order,
**`TcpConnectionOrder_proofs`** (assumptions: `LoopThread` is not among the threads,
the kinds are kinds of nodes, the bounds are natural numbers and a message has at
least one unit). `TypeCorrect`, `NeverStuck`, `ClosesOnce` and `SentInOrder`, for any
number of threads, calls and streams, messages of any length, writes that take any
part and closes at any moment. Every step is first reduced to one of a few
shapes (`Steps`): nothing is sent, a call is queued or sent, the loop runs a queued
one, a unit of an async stream is sent, the first node is written or dropped.
Four invariants are carried through them.
`IdsInv`: a node is in the list, in the queue or nowhere, once, and the queued sends of
a thread stand in the order of its calls. `StuckInv`: while data is in the list of a
connection that is up, writing is enabled, also between the callbacks of one turn,
where `NoStuckData` says nothing. `CloseInv`: whatever will call `handleClose()` finds
the connection open or its channel watched. `OrderInv` and `GapInv` make `WireOrder`
inductive: what the socket took, then the list, then the queue, go upwards for each
thread, although `sendInLoop()` puts its data into the last node, or into a new one,
or writes it at once; and the unit before each unit has been taken, is in the list
before it, or is still on its way in a functor.
Two theorems have a hypothesis, because without it the code does not keep the
property (section 7). `ClosesOnce` assumes `MessagesOnly`: a connection that may close
carries messages. `SentInOrder` assumes `StreamsInOrder`: a stream is sent through
once, or by one thread with no failing writes.

**`TcpClient_proofs`** (assumptions: `None` is no number, the bounds are natural
numbers, and the time-outs are). `ClosesEachOnce`, for any number of sockets and
calls, and `ResolversAreRight`, for both resolvers and any number of names,
queries and workers. That no socket is closed twice follows from who is responsible
for it (`SockInv`): nobody, the channel, the `Connector` after the channel was removed,
the `handleWrite()` that hands it over, or the connection, and only one of them. That
no connection is destroyed twice needs that the functors for it are queued once and
only when it is closed (`QueueOK`), and that a client that is gone has left its
connection a callback that does not name it (`ClientInv`). For c-ares, `ResolverInv`
says who keeps the resolver alive at each place of the loop's stack; for the
other, `NormalInv` relates the label of a call to the mutex, the cache and the time of
the address it returns.

**`TcpServer_proofs`** (assumptions: there is an I/O loop, those of a pool of the
server are distinct, and the acceptor's channel is no connection's). `StopSafe`, for
any number of connections and loops, with a pool of the server or the caller's loops,
and with `stop()` in either thread. `StopIsSafe` speaks of moments: that an erased
connection was in the set, that a destroyed one has no active channel. `ServerInv`
says of each function in the queue of a loop what it relies on (`FuncOK`), that it is
queued once and that a `forceClose()` stands behind the `connectEstablished()` of the
same connection (`OrderOK`); without that order `forceClose()` would find a connection
that is not up yet, do nothing, and `stop()` would wait for it. `StopMissesNone` does not hold in the
middle of the loop of `stop()` over the connections; the invariant is `MissesOnly`,
with the connections that are still to be closed left out.

Only model-checked: all liveness properties (`QueuedFuncRuns`, `DataIsSent`,
`DestroyReturns`, `AttemptIsAnswered`, `QueriesAreAnswered`, `StopReturns`,
`ReachesFile`, `SyncIsAnswered`), since fairness and `ENABLED` are out of the prover's reach; what
the pure functions compute (`DigestInput`, `DateConversions`, `StringsAreKept`,
`LineIsWhole`, `TreeIsBalanced`), since this needs induction over data; `WepollAgrees`
and `PollerAgrees`, which the run checks in one module with the recursive operators of
the tree; `NothingSkipped`, which compares the whole of what was sent with the whole
of what was taken and so needs induction over the list; and the safety properties of
the timing wheel, threads, logger, file nodes, TLS and sessions, of which section 10
lists those to be proved next.

## 7. Findings and known deviations

Four runs are expected to fail; each states what the repository says of the code.

- **`task_queue_stop`**: `ConcurrentTaskQueue::stop()` (`utils/ConcurrentTaskQueue.cc:86`)
  sets `stop_` and notifies without `taskMutex_`. A worker that has seen `stop_`
  false and an empty queue, and is about to wait, misses both; `join()` does not
  return. `ConcurrentTaskQueue.h:69`: "Stop all threads in the queue."
- **`send_file_range`**: `FileBufferNode::getData()`
  (`net/inner/FileBufferNodeUnix.cc:88`) reads `writableBytes()`, which stays the
  size of the first chunk. The last chunk of a range that is longer than the
  buffer and ends inside the file is filled with what follows the range.
  `TcpConnection.h:66-70` documents a length, which the `sendfile(2)` branch keeps.
- **`date_round_trip`**: `toDbStringLocal()` prints a date at midnight without a
  time (`utils/Date.cc:253`), and `fromDbStringLocal()` reads nothing from a string
  without one and returns the date of year 0 (line 287). `Date.h:288`: "Inverse of
  toDbStringLocal()".
- **`botan_send`**: `BotanTLSProvider::sendData()` limits the length of each piece
  but hands `channel_->send()` the start and the size of the whole data in every
  round (`tlsprovider/BotanTLSProvider.cc:234`). Data longer than 64 KiB goes out
  once for each piece. The comment at line 225: "Limit the size of the data we
  send in one go to avoid holding massive buffers in memory."

Other deviations between code and text were met while modelling. They are in the
models (or, where marked *, outside of them); the passing properties exclude
them by name or by the choice of instance. Paths are relative to `src/trantor/`.

Event loop, timers, channels:

- `quit()` before `loop()`, or between its stores to `looping_` and `quit_`, is
  erased (`net/EventLoop.cc:209`; `EventLoop.h:69` "Let the event loop quit.").
- A functor may run before `queueInLoop()` has returned (`EventLoop.cc:275`;
  `EventLoop.h:142` "the function f is executed after the method exiting").
- The drain of `funcsOnQuit_` stops at a node that is not linked, so a concurrent
  `runOnQuit()` hides functors registered before (`EventLoop.cc:255`).
- Exceptions other than `std::exception` skip the functors on quit
  (`EventLoop.cc:243`, against the comment at line 251).
- `~EventLoop()` waits for `looping_`, which is cleared before `funcsOnQuit_` is
  drained (`EventLoop.cc:131`, comment at 126): the functors on quit may run, and
  `loop()` return, in a loop that is destroyed. And if the `quit()` of the destructor is
  one that `loop()` erases, the destructor spins for ever. `DestroyReturns` is about
  the others. The loop of an `EventLoopThread` is destroyed by its own thread.
- `invalidateTimer()` does nothing on a loop that is not running, and in the loop
  thread it overtakes a queued `addTimerInLoop()` (`EventLoop.cc:334`).
- A callback that throws leaves `handleRead()` without `reset()`: expired timers
  are dropped and the timerfd is not set (`net/inner/TimerQueue.cc:92`).
- `PollPoller` stores a new channel un-ignored even without events, so that the
  assertion at `poller/PollPoller.cc:140` fails for `disableAll()` of a channel
  that was never enabled*.
- A second `disableAll()` on epoll adds the fd again with no events; KQueue lists a
  channel with two events twice and the second event overwrites `revents_`
  (`poller/KQueue.cc:96`); `resetAfterFork()` does nothing for epoll, though
  `EventLoop.h:93` says "Make the event loop works after calling the fork()
  function."
- The caller of `queueInLoop()` may still be in `wakeup()` when its own functor
  destroys the loop*.

Connections:

- A file whose first `sendfile()` gives `EAGAIN` is not put in the list and never
  sent (`net/inner/TcpConnectionImpl.cc:682`).
- A file whose `read(2)` fails counts as sent: `getData()` only logs the error
  (`FileBufferNodeUnix.cc:104`) and `sendNodeInLoop()` takes the empty chunk for the end
  (`TcpConnectionImpl.cc:704`). `FileIsSent` names the case (`readFailed`).
- `sendStream()` in the loop thread with a list that is not empty sends nothing
  (`TcpConnectionImpl.cc:628`).
- `send()` in the loop thread overtakes a queued `send()` of another thread
  (`TcpConnectionImpl.cc:435`, comment at 432). `WireOrder` is per thread.
- An async stream closed before its functor ran stays first in the list with
  writing disabled (`TcpConnectionImpl.cc:962`); history variable `early`.
- The functors of `sendFile()` and `sendStream()` (lines 606 and 635) do
  not look at `status_`: run after `handleClose()` they still write and may enable
  writing, while a message queued before them is dropped. Hence the closing
  instances send messages only, and `ClosesOnce` assumes it.
- A unit of an async stream whose write fails is dropped and the next ones are
  written; a unit that the loop thread sends overtakes one that another thread has
  queued for the same stream (`TcpConnectionImpl.cc:968`). Hence `StreamsInOrder`.
- `sendAsyncDataInLoop()` does not look at `status_` either: after `handleClose()` it may
  enable writing, which fails the assertion of `Channel::remove()`
  (`Channel.cc:43`) and may report the close twice (`TcpConnectionImpl.cc:1003`).
- `extendLife()` ignores activity within a second of the last update
  (`TcpConnectionImpl.cc:192`); `keepAlive()` leaves `idleTimeoutBackup_`
  (line 1012); overlapping streams save 0 as the timeout (line 930).
- The delay `maxTimeout` does not fit one wheel of `maxTimeout` buckets
  (`utils/TimingWheel.cc:35` and 97).

Client, server, resolver:

- `Connector::status_` is not reset when a connection ends, so that a second
  `connect()` fails the assertion at `net/inner/Connector.cc:68`; `stop()` with a
  connection up and a new `connect()` fails the one at `TcpClient.cc:210`.
- When `connect(2)` fails at once with one of five errors (`EAGAIN`, `EADDRINUSE`,
  `EADDRNOTAVAIL`, `ECONNREFUSED`, `ENETUNREACH`; `Connector.cc:97-102`) nobody is told
  and the socket stays open. `TcpClient.h:140`: "The callback is called when an error
  occurs during connecting to the server." `AttemptIsAnswered` leaves these attempts
  out, which the model has. `restart()` is empty (line 47)*.
- The callbacks of one failed event act on the channel of a new attempt that the
  first of them made (`Connector.cc:250`).
- A queued `startInLoop()` uses a plain `this` (`Connector.cc:45`; see the
  workaround at `TcpClient.cc:108`).
- With a pool of its own, a server's `stop()` destroys loops in which
  `connectDestroyed()` is still to be queued (`TcpServer.cc:173`), and with
  timing wheels it waits for such a loop for ever (line 178); in the loop thread
  it frees an acceptor whose channel may be active (line 139).
- `AresResolver::onSockStateChange()` frees channels inside their own dispatch
  (`AresResolver.cc:249`)*; a resolver with open sockets that is released in
  another thread fails `assertInLoopThread()`*; failed lookups are cached as
  0.0.0.0 (line 203)*.
- `NormalResolver` calls the callback of a cached address synchronously and under
  its mutex (`NormalResolver.cc:28-37`; `Resolver.h:39` "Resolve an address
  asynchronously."); a callback that calls `resolve()` then waits for itself.
  `QueriesAreAnswered` excepts the calls behind it.

TLS:

- `shutdown()` whose alert does not fit never closes the write side
  (`TcpConnectionImpl.cc:349-361`); `TlsDelivers` names the case (`waited`).
- `forceClose()`'s alert may enable writing after `disableAll()`; a failed
  handshake closes the write side before its alert
  (`tlsprovider/OpenSSLProvider.cc:715`); on a forced close or error
  `sendTLSData()` writes past older records. `TlsDelivers` ends there.
- Messages of one read are delivered after the callback closed the connection
  (`OpenSSLProvider.cc:748`); `send()` before the end of the handshake is an error
  that closes it (line 590).
- Botan writes a new record to the socket although older ones wait in
  `writeBuffer_` (history variable `overtook`); `send()` before the handshake or
  after the end of the channel throws; after a write that fails, data stays in
  `writeBuffer_` with writing not enabled (`BotanTLSProvider.cc`). The life of the
  provider behind a queued error callback is left out*.
- `serverSelectProtocol()` does not advance in the client's list when a protocol
  does not match (`OpenSSLProvider.cc:166-202`)*.
- The session that `get()` returns is used after the unlock, without a reference
  (`OpenSSLProvider.cc:425`)*; a stale timer of another loop may remove a newer
  session early.

Threads, logger, buffers:

- `SerialTaskQueue::stop()` uses a plain pointer to a loop that may end meanwhile
  (`SerialTaskQueue.cc:31`); a task handed over by a task runs inside it, before
  those that wait (line 42).
- `fileSeq_` starts at 0 in each process: names of two processes within a second
  meet (`AsyncFileLogger.cc:270`); history variable `again`.
- Workers of a `ConcurrentTaskQueue` that all wait in `syncTaskInQueue()` wait for
  ever (`TaskQueue.h:52`); `SyncIsAnswered` names the case (`AllWait`).
- `Logger`: a change of `setDisplayLocalTime()` does not change the text of the
  current second (`Logger.h:170`, `Logger.cc:110`); a change of the default sink is not seen by a
  channel that has its copy (`Logger.h:315`, history variable `late`); the vectors
  of sinks may move under a line that is being written (`Logger.cc:494`).
- SHA-1's two words of a count are of type `size_t` (`crypto/sha1.h:17`): the carry
  from the first comes after 64 bits instead of 32. One update, which is all the
  library makes of a message, counts right; several that add up to 512 MiB would
  not*. SHA-256 counts the bytes of an update in a `uint32_t` (`sha256.cc:105`): for 2^32
  bytes and more the loop does not end. The model has no step for these
  (`Sha256Ends`).
- `Date::roundDay()` keeps `tm_isdst` of the moment, so that it is an hour off on
  the day of a clock change (`Date.cc:76`); `toDbString()` uses the offset of
  January 1970 for every date; a date before 1970 with a fraction prints a negative
  fraction. `DateConversions` excepts these.
- `toUtf8()` makes three bytes of a character above 0xFFFF and `fromUtf8()` gives up
  at a sequence of four (`Utilities.cc:60-150`); `StringsAreKept` excepts them.
- A `MsgBuffer` constructed with 1 to 7 bytes puts `head_` behind the end of the
  vector at the first `retrieveAll()` (`MsgBuffer.cc:144`).

wepoll:

- `epoll_ctl(ADD)` that races `epoll_close()` fails the assertion that the port has
  a completion port (`Wepoll.c:1543`)*.
- A socket handle that the system uses again while the old socket state is still
  listed, requests that the driver completes into memory freed by a forced delete,
  and a cancellation that fails in `sock__delete()` are left out*.

## 8. Hazards

`PROJECT.json` lists the forty hazards that matter most, each at its line and
with the properties that would catch it. These are the others that the survey
met:

| Kind | Where | What | Covered by |
|---|---|---|---|
| ordering | `utils/SerialTaskQueue.cc:42` | A task handed over by a task overtakes every task that waits. | `DtorUsesLiveLoop` |
| ordering | `utils/LockFreeQueue.h:77` | dequeue() and empty() report an empty queue while later items are already linked behind an unlinked one; a user that takes this for "nothing queued" loses a functor. | `ImplementsFuncQueue`, `NoLostWakeup` |
| other | `utils/LockFreeQueue.h:106` | The dummy node has an uninitialized dataPtr_: nothing may ever read or delete it. | `NoUseAfterFree` |
| partial_failure | `net/EventLoop.cc:243` | Exceptions that are not std::exception skip the functors on quit, and a functor on quit that throws leaves the rest unrun. | `QueuedFuncRuns` |
| interleaving | `net/EventLoop.cc:255` | The drain of funcsOnQuit_ races runOnQuit() of other threads. | `QueuedFuncRuns` |
| liveness | `net/EventLoop.cc:349` | A functor that always queues another one keeps doRunInLoopFuncs() from returning to poll(). | The number of functors per thread is bounded in the model, so that self-requeueing forever is out of its scope. |
| ordering | `net/inner/TimerQueue.cc:221` | invalidateTimer() in the loop thread overtakes the queued addTimerInLoop() of another thread. | section 7 |
| partial_failure | `net/inner/TimerQueue.cc:92` | A callback throws between getExpired() and reset(). | `NoTimerMissed` |
| stale_state | `net/inner/TcpConnectionImpl.cc:968` | status_ is tested when an async stream is used, and not again when the queued functor runs, possibly after handleClose(). | section 7 |
| partial_failure | `net/inner/TcpConnectionImpl.cc:682` | EAGAIN on the first write of a node: the node must be kept and writing enabled. | `NothingSkipped` |
| protocol_sequence | `net/inner/TcpConnectionImpl.cc:628` | sendStream() while data is waiting in the list. | section 7 |
| numeric_edge | `net/inner/TcpConnectionImpl.cc:750` | nWritten is an int and is compared with static_cast<int>(length): a message of more than INT_MAX bytes may leave writing disabled with data in the list. | Not modelled: one unit of data stands for any number of bytes. |
| stale_state | `net/inner/TcpConnectionImpl.cc:930` | sendAsyncStream(true) saves idleTimeout_ in idleTimeoutBackup_; a second overlapping stream saves the 0 of the first, and the idle timeout is never restored. | `KickedOnTime` (section 7) |
| stale_state | `net/inner/TcpConnectionImpl.cc:679` | sendfile() that returns 0 for a file that was truncated meanwhile looks at errno, which it did not set. | Depends on what errno happens to hold. |
| protocol_sequence | `utils/ConcurrentTaskQueue.cc:84` | Two threads may both see stop_ false and both join the same threads. | No text of the repository says that stop() may be called from two threads; the model has the race (action Stop) but no property forbids it. |
| ordering | `net/EventLoopThread.cc:78` | loop() clears quit_ when it starts: a quit() between the start of the thread and loop() would be lost and join() would hang. | `DtorUsesLiveLoop` |
| interleaving | `net/EventLoopThread.h:51` | getLoop() reads loop_ without loopMutex_ while loopFuncs() sets it to null. | section 7 |
| protocol_sequence | `utils/SerialTaskQueue.cc:31` | A second stop(), or any call after the loop has ended, dereferences the null pointer of getLoop(). | A caller error that no text of the repository rules out or allows; the model makes no call then. |
| protocol_sequence | `net/inner/Connector.cc:68` | connect() after an attempt or a connection has ended finds a status_ that nobody reset. | section 7 |
| stale_state | `net/inner/Connector.cc:250` | Callbacks of one event of an old channel act on the channel of a new attempt made in the first callback. | `NoDoubleClose` |
| interleaving | `net/inner/Connector.cc:45` | A queued startInLoop() and the release of the client in the loop thread. | section 7 |
| protocol_sequence | `net/TcpClient.cc:193` | newConnection() replaces connection_ while an older connection is still up. | section 7 |
| ordering | `net/inner/Connector.cc:59` | The queued half of a stop() of another thread removes the channel of a connect() that the loop thread made after the stop(). | `AttemptIsAnswered` |
| interleaving | `net/TcpServer.cc:189` | A connection closes by itself while stop() forces it to close, in two loops. | `StopIsSafe` |
| stale_state | `net/TcpServer.cc:173` | The loops of the pool are destroyed while functions of the closing connections still name them. | section 7 |
| stale_state | `net/TcpServer.cc:139` | The channel of the acceptor is freed while it is active. | section 7 |
| stale_state | `net/TcpServer.cc:105` | The callbacks of a connection hold a plain this of the server; a connection that outlives the server calls them. | The lifetime of the server is the caller's; nothing in the code or docs states the order, so that there is no property to check. |
| resource_bound | `net/inner/Acceptor.cc:92` | Out of descriptors: the reserve descriptor is closed to accept and drop one connection; another thread may take it in between, and LOG_SYSERR runs before errno is read. | The table of descriptors is shared by the whole process and not modelled; accept() just fails in the model. |
| numeric_edge | `utils/TimingWheel.cc:97` | A delay at the capacity of the wheels plus the tick that is added. | `KickedOnTime` |
| ordering | `utils/TimingWheel.cc:55` | The bucket is swapped out before it is dropped, because the destructors of its entries insert into the wheels. | `KickedOnTime` |
| timeout_retry | `net/inner/TcpConnectionImpl.cc:192` | A read or write just after the wheel was updated is followed by a tick that drops the entry. | `KickedOnTime` |
| stale_state | `net/inner/TcpConnectionImpl.cc:195` | The weak pointer to the entry is dead by the time of the read or write that should extend it. | `KickedOnTime` |
| resource_bound | `utils/AsyncFileLogger.cc:89` | The queue of full buffers at its limit, while flush() and time-outs push more. | `RecordsAreKept` |
| crash_recovery | `utils/AsyncFileLogger.cc:52` | The destructor runs between two steps of the thread: what is in its hands, in the queue and in the buffer in use must all be written, in order. | `RecordsAreKept` |
| liveness | `utils/AsyncFileLogger.cc:55` | stopFlag_ is set and notified without the mutex, so that the thread may miss the notification just before it waits; the wait has a time-out. | `ReachesFile` |
| liveness | `utils/AsyncFileLogger.cc:151` | A message that fills no buffer waits for the time-out of the thread. | `ReachesFile` |
| partial_failure | `utils/AsyncFileLogger.cc:91` | Messages that are dropped at the end of a burst: lostCounter_ is reported by the next message only, and not by the destructor. | No text says that every loss is reported. |
| partial_failure | `utils/AsyncFileLogger.cc:275` | rename() fails: the name is in the queue of files although there is no such file. | `RecordsAreKept` |
| numeric_edge | `utils/AsyncFileLogger.cc:267` | fileSeq_ is taken modulo 1000000: then names repeat and their order is not that of time. | A million switches of one process are beyond the bounds of the runs. |
| interleaving | `utils/AsyncFileLogger.cc:268` | fileSeq_ is static and not protected: two loggers in one process switch at the same time. | The runs have one logger at a time; two at once with the same base name would also share the file itself. |
| numeric_edge | `utils/MsgBuffer.cc:144` | The vector shrinks below the offset at which head_ and tail_ are put. | `IsByteQueue` |
| protocol_sequence | `utils/MsgBuffer.cc:217` | addInFront() and ensureWritableBytes() copy the bytes within the vector to an overlapping range further behind. | `IsByteQueue` |
| resource_bound | `utils/MsgBuffer.cc:169` | readv() fills the buffer and goes on in the stack buffer, whose bytes are appended to a full buffer. | `IsByteQueue` |
| resource_bound | `utils/MsgBuffer.cc:142` | A grown buffer takes the larger initCap_ of the new one, so that retrieveAll() hardly ever gives memory back. | Not an error of the bytes; how much memory is held is not stated by the model. |
| numeric_edge | `utils/MsgBuffer.h:340` | operator[] allows offset = readableBytes(), one byte past the data. | A read that changes nothing; the caller's index is not modelled. |
| protocol_sequence | `net/inner/poller/KQueue.cc:179` | the difference to the old events decides which filters are added; old events left from a removed channel with the same fd, or from before a fork, would leave a new one without filters | `PollerAgrees` |
| ordering | `net/inner/poller/KQueue.cc:96` | a channel with a read and a write event is put in the list twice and the second event overwrites revents_, so the first is handled only when it is reported again | section 7 |
| protocol_sequence | `net/inner/poller/PollPoller.cc:140` | a new channel is stored un-ignored even if it has no events, and the assertion for removed channels wants it ignored: disableAll() of a channel that was never enabled, as in the destructor of an Acceptor that never listened, fails it | No property: the assertion is about debug builds only; see section 7. |
| resource_bound | `net/inner/poller/EpollPoller.cc:90` | the event list is full: what does not fit is left for the next call and the list is doubled | `PollerAgrees` |
| partial_failure | `net/inner/tlsprovider/OpenSSLProvider.cc:585` | the loop in sendData() stops when a record did not fit, and tells the caller how much of the data was taken | `TlsDelivers` |
| ordering | `net/inner/TcpConnectionImpl.cc:349` | shutdown() sends the closing alert and closes the write side at once, though the alert or data may not have fitted | `FinAfterAlert`, `TlsDelivers` |
| protocol_sequence | `net/inner/TcpConnectionImpl.cc:377` | forceClose() disables the events before it sends the alert; an alert that does not fit enables writing again and the channel is removed with an event | section 7 |
| liveness | `net/inner/TcpConnectionImpl.cc:358` | when the alert of shutdown() did not fit, status_ is Disconnecting when it is sent, so that nobody closes the write side | `TlsDelivers` |
| protocol_sequence | `net/inner/tlsprovider/OpenSSLProvider.cc:748` | the loop in processApplicationData() goes on to deliver messages after the callback has closed the connection | What a user may still be given after its own forceClose() is said nowhere; see section 7. |
| protocol_sequence | `net/inner/tlsprovider/OpenSSLProvider.cc:590` | send() before the handshake is finished is an error of SSL_write() that closes the connection | The model has it (SendUnit); that the user waits for the connection callback is not said anywhere. See section 7. |
| atomicity | `net/inner/tlsprovider/OpenSSLProvider.cc:415` | the mutex is released between the insertion and removeExcessSession(), and all loops share the cache | `SessionRefs` |
| partial_failure | `net/inner/tlsprovider/OpenSSLProvider.cc:395` | the reference to a session is dropped when it is replaced, is the oldest, or expires: each exactly once | `SessionRefs` |
| atomicity | `net/inner/tlsprovider/OpenSSLProvider.cc:425` | get() returns the session after the mutex is released, and startEncryption() uses it without a reference of its own: another loop may replace or expire it in between | The use is a data race with a free in another thread; every use would be a violation, and no document promises more. See section 7. |
| liveness | `net/inner/AresResolver.cc:141` | one timer is shared by all queries; a query that begins while onTimer() or a callback runs must find it active or set it | `ResolversAnswerRight`, `QueriesAreAnswered` |
| interleaving | `net/inner/AresResolver.h:103` | resolve() in another thread reads the cache, then queues: the same name may be asked twice and answered in any order | `QueriesAreAnswered`, `ResolversAnswerRight` |
| protocol_sequence | `net/inner/AresResolver.cc:249` | c-ares closes a socket while its channel is being handled: onSockStateChange() then destroys the Channel whose handler runs | Channel::handleEvent() touches the freed object only in later tests of revents_; see section 7. |
| partial_failure | `net/inner/AresResolver.cc:203` | a failed lookup is cached as the address 0.0.0.0 until the time-out | No document says what a failure looks like; see section 7. |
| stale_state | `utils/Logger.h:315` | A channel keeps the sink it was given; the default is changed afterwards. | `LinesGoOut` (section 7) |
| interleaving | `utils/Logger.cc:494` | Channels are set while other threads log: the vector of sinks moves. | `LinesGoOut`, for channels that are set before the first line (`prepared`); section 7 |
| numeric_edge | `utils/Utilities.cc` | Code points at the limits of one, two, three and four bytes. | `StringsAreKept` |
| resource_bound | `Wepoll.c` (poll groups) | A group is full and another is made; a socket leaves one that was full. | `WepollAgrees` |
| interleaving | `Wepoll.c:1543` | epoll_ctl(ADD) races epoll_close(). | section 7 |

## 9. Not modelled

- `EventLoopThreadPool`: a vector of `EventLoopThread`s, started, waited for and
  indexed round robin. Each thread is module `EventLoopThread`, and the loops of a
  server's pool are in `TcpServer`.
- `moveToCurrentThread()`, the pipe and Windows forms of `wakeup()`, the
  `getTimeout()`/`processTimers()` form of the timer queue and the Windows file
  node: other platforms. Of wepoll: its initialization, the mapping of error codes
  and the search for the base socket.
- The construction of an `SSLContext` and the checks of names and certificates, in
  both providers: one choice, valid or not. `startEncryption()` on a connection
  that has already sent data in the clear.
- `Connector::retry()`, which no `TcpClient` reaches. A socket that is connected to
  itself is an attempt that fails, as in `handleWrite()`.
- The reserve descriptor of the acceptor; descriptors are process-wide.
- `InetAddress`, `Socket`, `TLSPolicy`, `Certificate`: settings, accessors or
  wrappers around one system call. The compression functions of the digests, whose
  values enumeration does not reach; their OpenSSL and Botan forms. The printing
  formats of `Date` other than the database strings. spdlog as a sink.
- Steps that are coarser than the code, in places where a finer one would be a data
  race on a `std::vector` or a `std::function` and so undefined: the growth of the
  vector of sinks in `Logger::outputFunc_(index)` is one step (`Lookup`), and so are the
  two assignments of `setOutputFunction()`. `LinesGoOut` therefore speaks of lines while
  no sink is set. `port_delete()` of wepoll frees its poll groups, and with them their
  AFD handles, in one step, when no other thread can be in the port.
- Rounding of doubles: `Date::after()` is exact below 2^53 microseconds, the year 2255.
- Sizes beyond an `int` in the write path: a unit stands for any number of bytes.

External code is modelled by how it is used: the kernel's interest list, sockets
and clock, condition variables with spurious wake-ups, the records of OpenSSL and
Botan, the callbacks of c-ares, `getaddrinfo()`, the AFD driver and completion
ports, the C library's local time, the file system.

## 10. Plan

Done, in this order: functor queue and loop (everything rests on them), timers,
connection, threads, client and server, idle kick-off, logger, buffer, channels
and pollers, TLS, session cache, resolvers, file nodes, wepoll and its tree, log
lines and sinks, digests, dates, strings, Botan; proofs of the functor queue, the
loop, the buffer, the task queue, the timers, the connection, the client with its
resolvers, and the server.

Next, modelling:

1. `EventLoopThreadPool` and its use in `TcpServer`;
2. `startEncryption()` on a running connection, joining `TcpConnection` and
   `TlsConnection`;
3. the other form of `TimerQueue`;
4. an abstract specification of an ordered byte stream, implemented by
   `TcpConnection` and by `TlsConnection`.

Next, proofs, in the order of what they add to the runs:

1. `FileBufferNode`: `FileIsSent` for any sizes;
2. `EventLoopThread`: `DtorUsesLiveLoop` for any number of callers;
3. `SessionManager`: `SessionRefs`;
4. `TcpConnection`: `NothingSkipped`;
5. `IdleKickoff`: `KickedOnTime` for any timeout.
