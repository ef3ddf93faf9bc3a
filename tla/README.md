# TinyNetwork in TLA+

TinyNetwork is a reactor library in C++: one `EventLoop` per thread, a `TcpServer`
whose acceptor lives in a base loop and whose connections live in a pool of IO
loops, and an asynchronous logger.  This directory holds TLA+ modules of its
concurrent core, the configurations with which TLC checks them on small
instances, and proofs, checked by TLAPS, that the most important properties hold
for every value of the constants.

All source paths below are relative to the repository; line numbers of every
definition are in `PROJECT.json` (`map`).

## 1. Inventory

| Component | State | Operations | Interacts with | Correct when |
|---|---|---|---|---|
| `EventLoop` (`src/net/EventLoop.cpp`) | `looping_`, `quit_`, `callingPendingFunctors_`, `pendingFunctors_` under `mutex_`, `wakeupFd_`, active channels | `loop`, `quit`, `runInLoop`, `queueInLoop`, `wakeup`, `handleRead`, `doPendingFunctors` | any thread queues functors; poller reports channels; handlers and functors call back into it | no functor lost, repeated or reordered; never asleep on announced work; `quit` ends it |
| `Channel`, `EpollPoller` (`src/net/Channel.cpp`, `src/net/poller/`) | interest, `index_` (kNew, kAdded, kDeleted), `revents_`, `tie_`; epoll's set | `enable*`, `disable*`, `remove`, `handleEvent`; `poll`, `updateChannel`, `removeChannel` | the loop's thread only | epoll knows what the channel asks for; no callback on a dead owner |
| `TcpConnection` (`src/net/TcpConnection.cpp`) | `state_` (atomic), both buffers, channel | `send`, `shutdown` from any thread; `connectionEstablished`, `connectDestroyed`, `handleRead/Write/Close/Error` in the loop | user callbacks, the kernel, the peer, `TcpServer`'s close callback | bytes arrive complete and in order; one "up" then one "down"; half-close after the data |
| `Buffer` (`include/net/Buffer.h`, `src/net/Buffer.cpp`) | vector, `readerIndex_`, `writerIndex_` | `append`, `retrieve*`, `readFd`, `writeFd` | one connection | a FIFO of bytes; indices in the vector |
| `TcpServer`, `Acceptor` (`src/net/TcpServer.cpp`, `src/net/Acceptor.cpp`) | `connections_`, `started_`, `nextConnId_`; `listenning_` | `setThreadNum`, `start`, `newConnection`, `removeConnection(InLoop)`, destructor; `listen`, `handleRead` | base loop and IO loops through functors | a connection lives while its channel is known to anyone; every one is ended and freed |
| `EventLoopThreadPool` (`src/net/EventLoopThreadPool.cpp`) | `loops_`, `next_` | `start`, `getNextLoop` | `TcpServer`, `EventLoopThread` | round robin |
| `EventLoopThread`, `Thread` (`src/net/EventLoopThread.cpp`, `src/base/Thread.cpp`) | `loop_` under `mutex_`, read without it by the destructor; `started_`, `joined_` | `startLoop`, `threadFunc`, destructor; `start`, `join` | the pool, the `EventLoop` on its stack, anyone who stops that loop | the loop is handed over alive; the destructor quits a live loop, returns, and leaves no thread behind |
| `ThreadPool`, `Thread` (`src/base/`) | `queue_`, `running_`, workers | `start`, `add`, `stop`, destructor | application | tasks are taken once, in order; the destructor returns and leaves no worker |
| `AsyncLogging`, `FixedBuffer`, `LogFile`, `FileUtil` (`src/logger/`) | current, next and full buffers under `mutex_`; the file, its size, the time of the last roll | `append`, `ThreadFunc`, `stop`; `append`, `rollFile`, `flush` | any thread logs; one logging thread writes | no line lost or overtaken while the thread runs; files roll and are flushed in time |
| `Logger`, `LogStream` (`src/logger/Logging.cpp`, `src/logger/LogStream.cpp`) | `g_logLevel`, `g_output`, `g_flush`; one line's `FixedBuffer` and level | `LOG_*`, `operator<<`, `formatInteger`, `finish`, `~Logger`, `setLogLevel` | `g_output`, which may be `AsyncLogging::append`; `g_flush` and `abort()` | no line leaves its array; a line with room is whole; a fatal line is out before the process ends |
| `Timer`, `TimerQueue` (`src/timer/`) | declared only: `TimerQueue.cpp` is empty | `addTimer`, without a definition | `EventLoop` constructs a `TimerQueue` (`EventLoop.cpp:26`), and its `runAt`, `runAfter` and `runEvery` call `addTimer` (`Eventloop.h:45-57`) | |
| `Timestamp`, `CurrentThread`, `Socket`, `InetAddress`, callback types, `noncopyable` | values and wrappers | | | |

What is hard about this code:

- *Interleaving.*  `queueInLoop` pushes under a lock and writes the eventfd after it;
  `doPendingFunctors` swaps the vector and goes back to `epoll_wait`; `shutdown()` tests
  and assigns `state_` in two steps; `~EventLoopThread` reads `loop_` while the thread clears it.
- *Waiting.*  `startLoop()` waits for a notification that comes once, `quit()` is undone by `loop()`,
  `stop()` notifies without the mutex, and destructors join threads that wait for something.
- *Ordering.*  Direct writes, the output buffer and queued sends must not overtake each
  other; half-close, write-complete and "down" have to come after what they close.
- *Lifetime.*  A connection is kept by `connections_` and by functors in two loops while
  epoll holds a raw pointer to its channel; `TcpServer` is bound by a raw `this`.
- *Failure.*  Partial writes, EPIPE and ECONNRESET, a failing `readv`, a peer that resets
  at any moment, `accept()` without descriptors, a destructor in the middle of traffic.
- *Arithmetic.*  `size_t` and `int` in `Buffer::makeSpace` and `readFd`, the wrap of `next_`, digits of
  negative numbers in `formatInteger`.
- *Limits.*  An array of events that is full, a log line that is full, spare buffers, descriptors.

`PROJECT.json` lists each of these at its line (`hazards`) with the properties that cover it.

## 2. Modules

| Module | Models | Kind |
|---|---|---|
| `FunctorQueue` | what an event loop and a `ThreadPool` promise: a FIFO queue of functors | abstract |
| `EventLoop` | `loop()`, the wakeup protocol, `EpollPoller::poll`, callers in other threads | detailed; implements `FunctorQueue` |
| `EventLoopThread` | the owner, the thread and the loop on its stack | composition with all of `EventLoop` |
| `TcpConnection`, `MCTcpConnection` | one connection: loop's thread, user threads, kernel, peer | detailed, on top of a FIFO loop |
| `ByteQueue` | what a Buffer promises: a FIFO queue of bytes | abstract |
| `Buffer`, `MCBuffer` | indices, growth, moves to the front, `extrabuff`, failed read | detailed; implements `ByteQueue` |
| `TcpServer`, `MCTcpServer` | acceptor, pool, connections across loops, destruction | composition over FIFO loops |
| `ThreadPool` | workers, queue, `start()`, `~ThreadPool`, with the `Thread`s they are | detailed; implements `FunctorQueue` |
| `LineLog` | what the asynchronous log promises: lines in order | abstract |
| `AsyncLogging` | appending threads, the logging thread, `FixedBuffer` | detailed; implements `LineLog` |
| `LogFile` | `LogFile` and `FileUtil`: rolling, flushing, the loop over short writes | detailed |
| `LogLine`, `MCLogLine` | `Logger` and `LogStream`: one line, its pieces and its end | detailed |
| `EventLoopProofs` (`EventLoop` and `EventLoopThread`), `TcpConnectionProofs`, `BufferProofs`, `TcpServerProofs`, `ThreadPoolProofs`, `AsyncLoggingProofs`, `LogFileProofs`, `LogLineProofs` | | proofs |

The layers rest on each other by their promises.  `EventLoop` shows that the loop is a FIFO
queue that wakes up for what is queued; `TcpConnection` and `TcpServer` take a loop to be
that, and leave the eventfd out.  `Buffer` shows that a Buffer is a FIFO of bytes;
`TcpConnection` has its output buffer as a sequence.  `TcpServer` takes a connection to be
what `TcpConnection` describes: established, possibly half-shut, down, destroyed.  `AsyncLogging`
writes whole buffers; what becomes of one in the file is `LogFile`'s, and how a line came about
`LogLine`'s.  `EventLoopThread` is the exception: it has the whole loop, eventfd and all, because its
destructor depends on how `quit()` and `loop()` treat each other.

### EventLoop

A step is a critical section or one access to an atomic or to the eventfd, so that callers
(`QueueInLoop`, then `Wakeup`; `Quit`) interleave with every statement of `loop()` and
`doPendingFunctors()` (`TestQuit`, `PollReturn`/`PollTimeout`, `HandleRead`, `HandleIo`,
`BeginPending`, `SwapPending`, `RunFunctor`, `CallbackReturn`, `EndPending`).  Wherever the
code calls into the application (`loopPc` "created", "io", "body") it may queue functors and
quit (`OwnQueueInLoop`, `OwnQuit`).  `functors` is the local vector of
`doPendingFunctors`; `Queue` is it followed by `pendingFunctors_`, and is what the refinement
mapping to `FunctorQueue` uses.  `early` remembers functors queued by the loop's thread before
`loop()`: `queueInLoop` writes no wakeup for these.  `events_` is the size of the poller's array: `epoll_wait`
reports no more channels than that, so a busy channel can keep the eventfd out of a round, and an array that
was filled is doubled.

### EventLoopThread

The module extends `EventLoop`, with a `ThreadSpec` of its own, and lets the loop take its steps only where `threadFunc` does
(`RunLoop`): those of the application's callback before `loop_` is published, those of `loop()` after
it.  Around them are the owner's steps (`StartLoop`, `Started`, `TestLoop`; `Destroy`, `FindLoop`, `QuitLoop`,
`Join`), where every unprotected access to `loop_` is one of its own, the thread's (`Post`, `Publish`,
`ClearLoop`, `EndThread`), and other threads that use the loop while it exists (`UseLoop`).  The destructor reads `loop_`
twice, without `mutex_`, and the compiler may keep the first value; a `quit()` on a loop that is gone by then
ends the owner in "lost".  Two hangs that the code has are in the model, and the properties name them:
`forgotten` records that the destructor's `quit()` came before `loop()` set `quit_` to false, after which
`join()` waits for good (`DestructorReturns`), and `LoopStarts` excepts a loop that ended before the owner looked at `loop_`.

### TcpConnection

The loop takes functors from `queue` one by one; between them `Poll` reports events, which the
handlers take in the order of `Channel::handleEventWithGuard` (hang-up, read, write).  A handler
runs to the application's callback in one step and from it in another, as callbacks send and
shut down.  A call from another thread is split where it touches `state_` and the queue.
`UpdateChannel` is `EpollPoller::updateChannel` with the channel's index; `SendInLoop` is the
whole of `sendInLoop`, with `write()` taking any part of what it is offered, or failing when the
write side is shut or the peer has reset.  `wire`, `accepted`, `ups`, `downs`, `destroyed` and
`reused` and `revived` are history.  The `TcpServer` appears as far as it ends the connection
(`RemoveConnectionInLoop`, `DestroyServer`).  `shutdown()` tests and assigns `state_` in two steps, and
`handleClose` may come between them: a connection that is down becomes kDisconnecting again, and a second
`handleClose` takes it down twice.  `revived` records exactly that, and `UpThenDownOnce` and `SendersInOrder` except
it; `StreamIntact` holds even then.

### Buffer

The vector is a sequence of cells, and every call of the class is one step, since a Buffer
belongs to one thread.  The integer conversions are modelled: `AsSize` and `AsInt` stand
for the wrap of `size_t` and the narrowing to `makeSpace`'s `int`.  `ReadFdError` is `readFd`
after a failing `readv`: its `-1` is kept in a `size_t`, the error branch is not taken and
`2^64 - 1 - writable` bytes are "appended"; the module takes the outcome in which `std::copy`
ignores the length, and `TcpConnection` has both that and a crash.

### TcpServer

Loops are where the code has them: the base loop with the acceptor's channel and
`connections_`, IO loops as many as `setThreadNum` asked for.  Each one polls (`Poll`), handles
the active channels (`HandleAccept`, `HandleClose`), swaps its pending functors (`SwapPending`),
runs them (`Listen`, `ConnectionEstablished`, `RemoveConnectionInLoop`, `ConnectDestroyed`) and
destroys the vector (`EndBatch`), which is when the `shared_ptr`s bound in them go.  A functor
meant for the loop whose thread calls `runInLoop` is run on the spot.  `Held(c)` says who has a
`shared_ptr` of connection `c`: `connections_`, functors, and threads that are in a call on it.
`~TcpServer` is three actions, with IO loops running between them.  IO loops go on after the server
is gone because the code never deletes its `EventLoopThread`s (`threads_` of the pool stays empty).

Of a connection the module keeps what decides its life: `state_`, whether epoll knows its channel
(`registered`) and, as history, how often its user saw "up" and "down" and `connectDestroyed` ran.
In the connection's own loop `shutdown()` is one step (`OwnShutdown`).  Another thread's call is as many steps as
it touches things others see: the test of `state_` (`CallSend`, `CallShutdown`), the assignment (`SetDisconnecting`),
the push (`PushSend`, `PushShutdown`), with every loop running in between; then the functor
(`SendInLoop`, `ShutdownInLoop`) runs in the connection's loop.  So a connection that went down after the
test becomes kDisconnecting again, as in `TcpConnection`, and a `sendInLoop` that finds it, or one that was destroyed while
kDisconnecting, may ask for EPOLLOUT and so register its channel once more: `readded` (history) records that.  Such a
channel may, but need not, be reported (`MayReport`): it asks for EPOLLOUT alone, and is out again once written.
A second `handleClose` then takes the connection down twice and calls `removeConnection` twice, and no one holds the
connection for it.  The properties except `readded` connections where that matters, and only there.

Functors of `send()` and `shutdown()` are bound to a raw `this` of the connection; `removeConnection` and
`Acceptor::listen` to one of the server.  A functor or handler that uses an object which is gone sets
`deadCall`, after which the model stops: what follows is undefined behaviour.

### ThreadPool

The owner's calls (`Start`, `StartThread` and the new thread's `Post`, `StartReturns`, `Stop`,
`Destroy`, `Joined`), `Add` from any thread, a running task included, and the worker's critical
section (`Take`), with the task (`Run`) outside of it.  `start()` assigns false to `running_`, and
nothing assigns true: a worker that finds the queue empty ends.  The model says so (`Leave`) and
keeps the wait on `cond_` and both notifications, which are never needed.  The pool is thus a way to
run what was given before `start()`; a task added later is taken only while a worker is left
(`EarlyTasksRun` is about the former).

### AsyncLogging

Buffers are where the code has them: current, next, full (`buffers_`), being written, and two spare
ones of the logging thread.  `AppendLine` is `append()`, one critical section; the thread's loop is
`TestRunning`, `Lock` and the wait (`Timeout`, or a notification), `Swap`, `WriteBuffer` for each
buffer, `Recycle`.  A `FixedBuffer` is a few cells and a cursor.  `length()` is the size of the array,
so all cells are written, those from an earlier use of the buffer too; `written` is the file's lines by
their first appearance.  `Pending`, what is fresh in the buffers from the oldest to the current one, is
the refinement mapping to `LineLog`.

### LogFile

An `append()` is `BeginAppend`, `Fwrite` for every call of `fwrite()`, and what `appendInLock()` decides
afterwards: nothing, `Check` or `Roll`, each with its own reading of the clock, which may tick between
them.  `stale`, `overdue` and `late` are history: how many appends began with a file of an earlier day,
with an old buffer, with a file too large for a second or more.  `Roll` may fail to open its file, which
ends the process (`crashed`).  File names are not modelled beyond one per second.

### LogLine

A line is the cursor of its array and its pieces; a piece is a length and, for an integer, its characters: the digits, as `IntegersReadBack` is about what they say.
`AppendText` is `FixedBuffer::append`, which leaves out what does not fit, `FormatInteger` the loop over
digits with C++'s rounding and the table that is read on both sides of its zero; `BeginLine` and `EndLine` include
the header and the end that the `Logger` puts around a message.  `offered` is the line that an endless
buffer would hold.  `~Logger` hands the line to `g_output` (`EndLine`), and after a fatal one calls `g_flush` and `abort()` (`Return`,
`FlushAndAbort`).

## 3. Runs

All run to the end of the state space of their instance.  Type invariants (`TypeOK`) are proved rather than
run, except where `SparesSuffice` (`AsyncLogging`) and `IntegersReadBack` (`LogLine`) have them as a conjunct.

| Run | Instance | Shows |
|---|---|---|
| `event_loop` | 2 other threads, 3 functors, an array of 1 event | no lost wakeup (`NoLostWakeup`); FIFO (`FunctorsInOrder`, a refinement); a queued functor runs without the help of a timeout, one queued before `loop()` with it (`QueuedFunctorsRun`); with the timeout `quit()` ends the loop (`QuitEndsLoop`) |
| `event_loop_thread` | 2 other threads, 1 functor, an array of 2 events | `QuitsLiveLoop`, `DestroyedIsDone`; `LoopStarts`, `DestructorReturns` |
| `connection` | loop's thread with 1 message of 2 cells, another one with 2 of 1 cell, both shut down | `StreamIntact`, `WriteInterest`, `UpThenDownOnce` (and nothing after "down"), `SendersInOrder`; `HalfCloseAfterDrain`, `CompleteWhenDrained`; `OutputDrains`, `HalfClosesUnlessOutputWaits` |
| `buffer` | 3-cell vector with 2 cells of prepend, `extrabuff` of 2, vectors up to 9 | `IndexInv`, `BytesInOrder` (a refinement) |
| `tcp_server` | 0 to 2 IO loops, 2 descriptors, `start()` by two threads, another thread that sends and shuts down; 3 clients and calls of that thread together | `ChannelsAreAlive`, `EndsProperly`, `PoolStartedOnce`; `ClientsAreAccepted`, `ClosedAreFreed`, `DestroyedServerLeavesNothing` |
| `thread_pool` | 0 to 2 workers, 4 tasks, one of which throws | `TasksInOrder` (a refinement), `DestroyedPoolIsDone`; `EarlyTasksRun`, `PoolEnds` |
| `async_logging` | 5 lines, one longer than a buffer, buffers of 3 cells | `SparesSuffice`, `LinesInOrder` (a refinement); `LinesAreWritten`, `StopEnds` |
| `log_file` | two midnights, appends of 1 and 2 bytes, a check at every third, files of 5 bytes | `AppendIsWhole`, `DayRolls`, `FlushesInTime`, `SizeRolls` |
| `log_line` | 2 lines of up to 6 pieces in 110 bytes, numbers at the boundaries of their digits and of 16 bits | `LineFits`, `LinesAreWhole`, `IntegersReadBack`; `FatalLineIsOut` |
| `shutdown_with_pending_output` | loop's thread sends 2 cells and shuts down | violated: `ShutdownHalfCloses` |
| `reset` | nobody sends, the peer resets | violated: `ResetIsHandled` |
| `send_of_a_temporary` | one message from each of two threads, strings reused | violated: `SentAsPassed` |

Why these bounds are enough to be of interest.  *EventLoop*: two threads let one be between its
push and its write while another's wakeup is consumed; three functors let a callback queue one
during a batch while another one waits in the vector; an array of one event lets another channel keep the
eventfd out.  *EventLoopThread*: two threads let one quit while the other is between its push and its write;
what the destructor meets does not depend on how many functors there are.  *TcpConnection*: a message of
two cells can be cut by `write()` and two more arrive behind it; two senders give every order between a
queued and a direct send, and both may be inside `shutdown()` when the peer closes.  *Buffer*:
with 2 + 3 cells every one of the paths (room at the end, move to the front, growth, extrabuff
with and without growth) is taken at its boundary, and the byte strings are long enough for both
sides of it.  *TcpServer*: three clients (of the `MaxInputs` = 3 that clients and calls share) make the round robin of two loops wrap, two
descriptors make `accept()` fail and succeed again, two callers race in `start()`; one client with a `send()` and a `shutdown()`
is what it takes to revive a connection and register it again, two clients with one call have it race with another
connection's end.  One thread is enough for that, as its queued `sendInLoop` outlives its call; with two the same properties
hold (473 541 states), at half again the time.  `started_` is whether it was above 0, which is all `start()` asks of it.  *ThreadPool*:
two workers let one end, or throw, while the other takes; four tasks let one be added to an empty and to
a waiting queue.  *AsyncLogging*: a buffer of three cells takes two lines (`avail() > len`), so that five
lines fill two buffers behind the current one, use `nextBuffer_` up and reuse a buffer with old lines in
it.  *LogFile*: a file of 5 bytes can be too large in one second and can take three stale appends of a
byte, which is `checkEveryN_`; two midnights let a roll follow a roll.  *LogLine*: a header of 30 bytes and
texts of 30 leave 80, 50 or 20, so that a text, a number, and the file's name and the number of the line at its
end each fit in some lines and not in others.  In *Buffer*, small `SizeT` and `IntMax` (64 and 16) keep their
relation to the vector's bound, which is all the code depends on.

Deadlock is not checked: each of these systems may come to rest (a loop that has quit, a
connection destroyed, a server gone, the bound on clients used up).

Every property of a passing run is refuted when one definition is replaced by a faulty variant
of it (in the modules, each marked as such): `PROJECT.json`, `mutants`.

### Fairness

- *EventLoop*: the scheduler runs every thread, callbacks return, and a thread that pushed goes on
  to its `write`.  The eventfd is level-triggered, so `epoll_wait` returns while it is readable; no
  other channel has to become ready.  The 10 s timeout is assumed only where a property says `Timed =>`.
- *TcpConnection*: weak fairness of handlers, of callbacks' return and of `epoll_wait`; strong
  fairness of the functors, which `QueuedFunctorsRun` provides, and of the report of a writable
  socket, as the peer goes on reading.  Nobody has to send, shut down or close.
- *TcpServer*: weak fairness of each loop's step and of threads inside `start()`, `~TcpServer`, `send()` and
  `shutdown()`; nothing is assumed of clients, of users beginning a call or of the application's decision to
  destroy the server.  `ClosedAreFreed` is stated as "again and again all closed connections are finished": clients are
  finitely many here and `Finished` is stable, so that is "each of them once, and for good".
- *ThreadPool*: every thread runs, and tasks return or throw.  Nobody has to add or destroy.
- *EventLoopThread*: owner and thread run, callbacks return, and `epoll_wait` times out after its 10 s (a
  `quit()` of another thread writes no wakeup).  Nobody has to stop or destroy, and `cond_` wakes nobody without reason.
- *AsyncLogging*: the logging thread runs, and `wait_for` times out; nobody has to append or stop.
- *LogLine*: a statement that logs ends, and so does `~Logger`; nobody has to begin a line.
- *Buffer* and *LogFile*: none, their properties are safety properties.  `FileUtil::append` loops as long as
  the disk is full; the model has that loop and no property says that it ends.

## 4. Proofs

Every safety property of every passing run is a theorem, for every value of the constants.  Assumed are only the
named `ASSUME`s of the modules, which TLC evaluates in the runs: types of the constants, `Loop` not a user thread, `None`
not a buffer, sizes of the Buffer below `IntMax`, and `NumbersFit`, that an integer has fewer than `kMaxNumericSize`
characters (`NumbersAreShort` shows that integers of 64 bits do).  The one theorem with a hypothesis is
`SendersStayInOrder`, on which below.

**EventLoop** (`EventLoopProofs`).  `NoLostWakeup` speaks only of the moment in `epoll_wait` and is
not inductive: a step that enters `epoll_wait` needs to know that what was pushed earlier was
announced.  `WakeupInv` adds that the batch is empty outside of the loop over it, that
`callingPendingFunctors_` marks exactly that region (it decides whether the loop's own thread
writes a wakeup) and that outside the handlers, where `doPendingFunctors` is still to come,
pending work is announced.  From it: `TypeCorrect`, `WakeupInvariant`, `NoWakeupIsLost`, and
`FunctorsRunInOrder`, that every step of the loop is a step of `FunctorQueue` or a stutter.

**EventLoopThread** (in `EventLoopProofs`).  What the destructor may find depends on why the loop ended.
`ThreadInv` says that `loop_` is set exactly while the thread is in `loop()` (`LoopPointer`), that only the
application's `quit()` or the destructor's ends it (`LoopProgress`), and where owner and thread can be at the same time
(`OwnerProgress`).  Of the loop itself the proof uses two facts: it leaves `loop()` only with `quit_` set, and other threads
do not move it.  From it: `LiveLoopIsQuit` and `NothingOutlivesTheObject`.  Every step of the composition is one of the
loop's own or leaves its state alone (`ThreadStepsOfLoop`), so that what is proved of `EventLoop` holds inside of an
`EventLoopThread` too: `LoopOfThreadKeepsPromise`.

**TcpConnection** (`TcpConnectionProofs`).  `StreamIntact` needs the types of all the data and, for
`SendInLoop`, that a direct write only happens with an empty output buffer; `WriteInterest` needs
that `connectDestroyed` counts the "down" before the channel is removed.  `OutputInv` is their
conjunction with that and with the fact that a queued message was counted.  From it:
`OutputInvariant`, `TypeCorrect`, `StreamIsIntact`, `OutputIsWaitedFor`, and the action properties
`NothingIsCutOff` (no half-close on waiting data) and `NotifiedWhenDrained` (a write-complete notification is queued only
when no output waits).

`UpThenDownOnce` says little of the moments in between.  `UpDownInv` says why a second "down" cannot come: until
`connectEstablished`, the first functor, has run, nothing else does (`UntilUp`), and it is queued only once (`UpOnce`);
a connected connection is registered for reading (`WhileConnected`); events are reported of registered channels only, and never
a hang-up together with input, so that a round takes a connection down once (`EventsOfRegistered`); and after "down" the
channel asks for nothing, and of what was reported at most a write event is left, which `handleWrite` ignores
(`AfterDown`).  All of it excepts a `revived` connection, and so does the property.  From it: `UpDownInvariant`, `DownEndsIt`.

`SendersInOrder` is about messages that were pushed before and accepted later, and `SendersInv` about what lies between: of
what a sender pushed, some first `k` were accepted, the `k`th of them whole, and the others wait in the queue in the order
they were sent, until one is dropped; and one is dropped only when all later ones will be (`DropsAll`: the connection is
down, or its write side is broken and nothing waits in the output buffer).  `k` is an existential of the invariant
(`NoneMissing`), so that each step of a sender has to name the next one.  `SendersStayInOrder` has the hypothesis
`~ReusesStrings`: a caller that frees its string before `sendInLoop` runs has something else sent in its place, which the run
`send_of_a_temporary` is about, and of such a message there is no order to speak of.  From it: `SendersInvariant`,
`SendersStayInOrder`.

**Buffer** (`BufferProofs`).  `BufferInv`, types and `IndexInv` together, is inductive; the lemmas
compute what a copy (`CopyInAppends`), making room (`EnsureMakesRoom`), an append
(`AppendedAppends`), a read (`ReadFdAppends`) and a retrieval (`RetrieveTakes`) do to the readable
bytes.  From them: `TypeCorrect`, `IndicesStayInVector`, `GrowthIsNeeded`, and `BytesStayInOrder`,
that the Buffer implements `ByteQueue`, for every size of vector, of `extrabuff`, of `int` and of
`size_t` the assumptions admit.

**LogFile** (`LogFileProofs`).  The bounds say nothing of the moments between an append and its
consequence.  `RollInv` adds what every non-zero counter means now (`Causes`: the clock is in a later
period, the oldest byte is old, the file is large and the clock past its second), that `count_` keeps up
with the counters (`Counted`) and that the times are in order (`Numbers`); a refused roll then implies
that no counter is above zero, and a check that stays with the file or does not flush that its counter is
zero.  `PeriodGrows` is the arithmetic of days.  From it: `NewDayIsNoticed`, `OldBufferIsNoticed`,
`LargeFileIsLeft`; with `GotInv`, `TypeCorrect` and `AppendsAreWhole`.

**AsyncLogging** (`AsyncLoggingProofs`).  `SparesSuffice` is one line, and inductive only with what ties the thread's spare
buffers to its place: `SparesInv` says that it holds both while it does not write, that while it writes it has as many full
buffers as it takes to get its spares back, and that `append()` is without `nextBuffer_` only when a full buffer waits (the
swap then brings at least two).  From it: `SparesInvariant`, `SparesAlwaysSuffice`.

That `AsyncLogging` implements `LineLog` rests on `LinesInv`: what a buffer still holds after its cursor is in the file already,
spare buffers are empty and hold nothing else, and the file and the pending lines together have no line twice and only
appended ones.  A buffer that is written whole, old lines included, therefore adds to the file exactly what it holds before
its cursor (`NewLines` is `Fresh`), and these are the first of the pending lines.  `AppendLine` puts one at the end, `WriteBuffer`
moves a buffer's lines over, and every other step, `Swap` and `Recycle` included, leaves `Pending` as it is.  Both `Pending` and
`NewLines` are recursive, so the proof has lemmas about them: what `FreshLines` is of no buffer and of one more at
either end, and what `NewLines` finds on each side of a cursor (`NewLinesAreFresh`).  From it: `LinesInvariant`, `LinesStayInOrder`.

**LogLine** (`LogLineProofs`).  `LineInv` relates the array to the endless buffer: they are equal, or the line is too
long to leave room for a number.  Each `operator<<` keeps that (`TextHolds`, `NumberHolds`, `IntegerHolds`), and
header and end are a few of these.  From it: `LineStaysInArray`, `ShortLinesAreWhole`.

`LinesReadBack` (`IntegersReadBack`) rests on `CharactersReadBack`: for every integer, of either sign, what `formatInteger` puts
down reads back as that integer.  Its lemmas say what C++'s division gives on both sides of 0 (`DigitFacts`), that the
recursion of `Digits`, which shrinks the number towards 0 from both sides, defines a function (`DigitsDefined`), what a digit
more is worth (`ValueAppend`) and what reversing does (`ReversePrepend`, `ReverseAppend`).  The invariant, `DigitsInv`, says of all
pieces of a line and of the endless one what the property says of the line's.  `NumbersAreShort` counts the digits.

**TcpServer** (`TcpServerProofs`).  `ChannelsAreAlive` speaks of `shared_ptr`s, which come and go: `connections_`
drops one when `removeConnectionInLoop` or `~TcpServer` has queued another in `connectDestroyed`.  `ServerInv` therefore
looks at `Todo(l)`, what a loop still has to run.  `NotForgotten` says that a connection which `connections_` has lost,
and whose channel is registered or will be by a `connectionEstablished` still to run, has `connectDestroyed` to run
in its own loop, behind every `connectionEstablished` of it (`Follows`): had it run first, the channel would be
registered afterwards and never removed.  That is inductive because functors and active channels of a
connection are only ever in its own loop (`InOwnLoop`), a batch and active channels exist only in their phase of `loop()`,
and a server that is gone has no connection left (`Phases`).  `StartedOnce` follows the threads through `start()`:
one of them passes the test of `started_`, and whatever makes the acceptor hand out a client (`Opened`) comes after it
has filled the pool.  Most of the proof is about lists: what appending a functor, running the first one and swapping
the vector do to `Todo`.  A `readded` channel is excepted (`Kept`): no one promised to remove it.  From it: `ServerInvariant`,
`TypeCorrect`, `ChannelsStayAlive`, `PoolIsStartedOnce`.

`EndsProperly` counts callbacks, and needs `EndsInv` on top of that: `Lives(c)` ties a connection's state, and what
its user saw, to where it is held (in `connections_`, by a `connectDestroyed` still to run, or by neither), and
`QueuedOnce` says that no functor of the server's for a connection is queued twice, so that one that ran is gone.  Only one of
`handleClose`, `removeConnectionInLoop` and `~TcpServer` queues `connectDestroyed`, because each takes the connection out
of `connections_` when it does; and `connectDestroyed` finds no `connectionEstablished` behind it, by `NotForgotten`.
A revived connection is kDisconnecting once more, so the state alone no longer tells whether it was down: `Lives` says
what is known of a state that no later step of `shutdown()` undoes (none, connecting and connected have seen no "down"; a
registered channel that was never out has not either), and keeps for a `readded` connection only what survives a second
`handleClose`: one "up", before any "down", and, while it is neither in `connections_` nor about to be destroyed, at least one
`connectDestroyed`.  From it: `ConnectionsEndProperly`.

**ThreadPool** (`ThreadPoolProofs`).  `DestroyedPoolIsDone` needs to know why workers left.  `PoolInv` says that a
task added is queued or was taken (`TasksKept`), that a worker which ended without an exception saw no early task left in the
queue (`LeftEmpty`), that workers are created one by one and none waits, as `running_` is never true (`WorkersStarted`), and
that the destructor joins as many as `start()` made (`OwnerProgress`).  From it: `PoolInvariant`, `TypeCorrect`,
`PoolIsDone`, and `TasksRunInOrder`, that every step is one of `FunctorQueue` or a stutter.

*Induction over data.*  The library states induction for an operator, which none of the provers here can instantiate.
What these proofs need is stated for a set instead: a set of naturals that is not empty has a least element
(`LeastNatural`, from the library's theorem that `<` is well-founded), so a set that holds 0 and every successor is all of
them (`SetInduction`), so a function given by recursion on `0 .. n` exists and is the only one (`RecursiveFunction`,
`RecursiveFunctionUnique`).  `AsyncLoggingProofs` and `LogLineProofs` both begin with these four lemmas.

*Only model-checked:* liveness, `FatalLineIsOut` included, as fairness and `ENABLED` are out of the prover's reach.

## 5. Where code and comments differ

1. *`shutdown()` with pending output never half-closes* (`TcpConnection.cpp:182`): the test
   `!state_ == kDisconnecting` is always false.  Run `shutdown_with_pending_output`.
2. *A reset is not handled as an error* (`Buffer.cpp:24`): `readv`'s `-1` in a `size_t`.
   Run `reset`.
3. *`send(std::string)` from another thread sends what the memory holds later*
   (`TcpConnection.cpp:61`; the comment above `send()`, line 53, says that it sends the data).  Run `send_of_a_temporary`.

More came up in the models and no comment speaks of it.

- A connection that is down may become kDisconnecting, as `shutdown()` tests and assigns `state_` in two steps
  (`TcpConnection.cpp:125`, `revived`).  In the server a `sendInLoop` still queued may then register its channel again
  (`readded`): it goes down twice, `removeConnection` runs twice, and the channel may stay in epoll after the connection is freed.
- `sendInLoop` and `shutdownInLoop` are queued with a raw `this`, which may be gone when they run (`deadCall`).
- A connection that its user shut down and `~TcpServer` destroys gets no "down" callback (`EndsProperly` says
  so), and the close callback of a connection may call a server that is gone (`deadCall`).
- `~EventLoopThread` hangs when its `quit()` comes before `loop()` (`forgotten`), and may call `quit()` on a loop that the
  application has stopped meanwhile ("lost"); `startLoop()` hangs when the loop ends before its owner looks.
- A `ThreadPool` does not keep workers for tasks added after `start()`.
- `AsyncLogging` loses what `stop()` finds in the buffers that the thread has not taken, and writes old lines of a
  recycled buffer again, as `length()` is the size of the array.
- A `Logger` cuts the seconds off the time, 17 of whose 19 characters it takes, `LOG_WARN` and above do not look at
  `g_logLevel`, and `LOG_TRACE` does not exist.
- The format of a log file's name has `%D`, which prints slashes: `fopen()` fails unless someone made the
  directories, and `FileUtil` passes the null result on (`LogFile`'s `crashed`).

## 6. Not modelled

- `Timer` and `TimerQueue`: the latter, which `EventLoop` constructs and calls, has no implementation
  (`TimerQueue.cpp` is empty), and so no behaviour to model; nothing else uses the former.
- `Timestamp`, `CurrentThread`, `Socket`, `InetAddress`, callback types, `noncopyable`: values, a cached thread id,
  wrappers of one system call each.  What the calls do is in the modules whose code makes them.
- `Buffer::findCRLF`, which has no return statement; `EventLoopThreadPool::getAllLoops` and other getters.
- The poller's map from descriptors to channels: only `hasChannel` reads it, and nothing calls that.
- `LogStream::operator<<(const void *)`, which prints as a string what the pointer points to, and `localtime()`, whose
  result all threads share: what memory holds is not in any module.
- Functors that are pending when `loop()` ends: they stay in the vector until the loop is destroyed, in the model too,
  and no property speaks of them.  In `TcpConnection` the object outlives the `sendInLoop` and `shutdownInLoop` that are queued
  with a raw `this`; `TcpServer` has those that come too late.
- Tasks and functors come from finite sets, so that a task which adds itself again for ever, and would keep
  `~ThreadPool` from returning, is not in an instance; the theorems hold for infinite sets too, but are not about liveness.
- The user's reaction to a high-water mark; a clock set back; a process started again in the second in which another
  one opened a log file of the same name (it would append to that file).  stdio may write earlier than it is
  flushed, which no property forbids.
- The growth of `buffers_` when the file is slower than the appending threads: nothing in the code bounds it, here the
  number of lines does.

## 7. Plan

Done, in this order: `EventLoop`, `TcpConnection`, `Buffer`, `TcpServer`, since wakeups, the output path
and lifetimes are what everything else rests on; then `AsyncLogging`, `ThreadPool`, `LogFile`; then
`EventLoopThread` and `LogLine`, and the proofs about `TcpServer` and `ThreadPool`.

Then what TLC had shown of these on small instances was proved: the order of "up" and "down" and of each sender's messages
in `TcpConnection`, the loop inside of an `EventLoopThread`, the spare buffers and the refinement of `AsyncLogging`, and
the digits of `LogLine`.

What is left: the steps a liveness property takes, as action properties (that a step which has to come, once it is possible, stays
so until it is taken); that an `EventLoop` as `TcpConnection` and `TcpServer` see it, a queue of functors, is what
`FunctorQueue` says; and that output and input of a connection may be sequences because a `Buffer` implements `ByteQueue`.
