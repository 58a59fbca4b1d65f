# A TLA+ verification project for tinyWebserver (day23)

The repository is a series of snapshots, `day04` to `day23`, of one program: a
multi-reactor, non-blocking HTTP server in C++17, in the style of muduo. Each
day replaces the one before it, so the subject of this project is the last one,
`src/day23`; the HTTP application that `day23/CMakeLists.txt` names
(`test/HttpServer.cpp`) exists only in `src/day22/test`. There is no README or
design document in the repository: the reference is the code, its comments, its
assertions (the build flags are `-g -Wall -Werror`, so `assert` is live) and
`errif`, which prints and calls `exit`.

## 1. Inventory

### The threads

* the **main thread** runs the main `EventLoop`: the `Acceptor`'s listening
  socket, the `TimerQueue` (only this loop's timers are ever used), and
  `TcpServer`'s `connections` map, which only this thread may touch;
* **sub threads** (`EventLoopThreadPool`, 6 by default), one `EventLoop` each:
  the connections, spread round robin, each one tied to one loop for life;
* with `AsyncLogging`, any thread appends records and one back-end thread
  writes them to files.

Threads interact in four ways only: `RunOneFunc`/`QueueOneFunc` on another
loop; the atomic-free fields of `TcpConnection` that both the connection's loop
and the main loop's idle timer use (`state_`, the last active time); the
reference counts of `shared_ptr<TcpConnection>`; and the mutexes of
`AsyncLogging` and of the thread start-up.

### Components

| component | state | operations | what makes it correct |
|---|---|---|---|
| `EventLoop` (+ `CurrentThread`) | `to_do_list` under `mtx`, `calling_functors`, eventfd counter | `loop`, `RunOneFunc`, `QueueOneFunc`, `DoToDoList`, `HandleRead`, `RunAt/After/Every` | each queued function runs once, in order, in the loop's thread; the loop never sleeps on one; the eventfd read never comes back empty |
| `Epoll`, `Channel` | kernel interest set and ready list, `inEpoll`, callbacks, `tie` | `updateChannel`, `deleteChannel`, `poll`, `handleEvent` | no event is delivered to a channel whose owner is gone; interest is removed before the descriptor is closed; edge-triggered reads lose no data |
| `Acceptor` | listening socket | `acceptConnection` | each pending client is taken once, and one client's failure does not stop the server |
| `TcpServer` | `connections` (fd to connection), `next_connid` | `newConnection`, `deleteConnection`, `deleteConnectionInLoop` | the map holds exactly the live connections; a connection is removed once; a reused descriptor never hits an old entry |
| `TcpConnection` | `state_`, `recvBuf`, `sendBuf`, last active time | `ConnectionEstablished`, `handleMessage`, `handleWrite`, `handleClose`, `Send`, `Read`, `Write`, `ConnectionDestructor` | closed once, released once, after the last use; bytes sent in order and none dropped |
| `Buffer` | `buffer_`, `read_index_`, `write_index_` | `append`, `Retrieve*`, `EnsureWritableBytes` | a byte queue; indices stay ordered, no write beyond the end |
| `EventLoopThread`, `EventLoopThreadPool` | the loops, `next` | `StartLoop`, `Start`, `getNextLoop` | no loop is used before its thread built it; round robin |
| `TimerQueue`, `Timer`, `TimeStamp` | ordered set of active timers, timerfd | `addTimer`, `InsertTimer`, `handleRead`, `resetTimers`, `resetTimerFd` | no timer fires early, each fires, a repeating one again, the timerfd is armed for the earliest |
| `HttpContext`, `HttpRequest`, `HttpResponse` | parser state, request, headers | `ParaseRequest`, `ResetContextStatus`, setters | a request is accepted iff well formed; nothing of one request shows in the next |
| `HttpServer` | per-connection context, idle timers | `onConnection`, `onMessage`, `onRequest`, `ActiveClose` | one response per request; an idle connection is closed after 5 s and an active one is not |
| `AsyncLogging`, `LogFile`, `LogStream`, `Logging`, `Latch` | two front buffers, the list of full ones, back-end spares | `Append`, `ThreadFunc`, `Start`, `Stop`, `Write`, `Flush` | every record is written once, in order; no buffer is used by both sides; what is written reaches the disk; `Start` and `Stop` return |

### Where it is hard

* a function queued between the loop's swap and its `epoll_wait` (`EventLoop.cpp:61`);
* a connection closed by its own loop (end of file, bad request, response with
  `Connection: close`) while the main thread's idle timer closes it as well
  (`TcpConnection.cpp:68`, `HttpServer.cpp:98`);
* a connection's memory and descriptor: they live exactly as long as the last
  `shared_ptr` in the map, in a queued function, or on a stack, and the kernel
  gives the number of a closed descriptor to the next client;
* registration with epoll in two steps by the main thread
  (`Channel::useET`, then `enableReading`) while the sub thread already polls;
* output that does not fit in the socket's buffer (`TcpConnection.cpp:135`);
* the back-end thread of `AsyncLogging` against its producers, and at `Stop`.

`PROJECT.json` lists them under `hazards`, each at its line.

## 2. Plan

In this order, the most important behaviour first:

1. `EventLoop`, with its abstract specification `TaskQueue`, and
   `EventLoopProofs`: the wakeup protocol. **Done.**
2. `TcpServer`: main loop, sub loops, accept, read, close, release and the idle
   timer, over loops that are the task queues of 1, and its proofs. **Done.**
3. `Buffer` over an abstract byte queue, with its proofs; `ConnectionOutput`,
   what `TcpConnection` sends. **Done.**
4. `TimerQueue` over a discrete clock, with its proofs; `IdleClose`, the idle
   rule of `HttpServer`, which extends it. A connection that is idle is closed
   within a bound, one that was just active is not. **Done.**
5. `AsyncLogging` over an abstract `Log`, with its proofs; `LogFile`, which
   extends it with the files, their buffer and their rotation. **Done.**
6. `HttpContext` against a reference grammar, keep-alive included: the request
   accepted is the one that was sent, and what holds of a request that comes in
   two reads. **Done.**
7. `StartUp`: `EventLoopThread` and `EventLoopThreadPool`, which extends
   `TcpServer`. **Done.**
8. A proof of every safety property that the passing runs check: invariants,
   action properties and the safety of each refinement. **Done** (section 4).

Three modules are composed by `EXTENDS` (`IdleClose`, `LogFile`, `StartUp`): each
of their steps is a step of the module below together with what it does to the
new variables, or leaves the variables below alone, so that what is proved of the
specification below holds above.

## 3. Modules and runs

Every module is about one component and keeps the names of the code. Each loop
or thread has a program counter (`pc`, `lpc`, `ppc`, `mpc`), and a step ends
where another thread, the kernel or the clock can come between. Operators whose
comment says *mutant* are not part of the specification: they are plausible
bugs of the definition they stand by, and `PROJECT.json` names for each checked
property one that breaks it.

The build sets no optimisation (`CMakeLists.txt`: `-g`, or `-O0`), and each plain field that threads
share (`state`, `running_`) is read next to a system call or a mutex operation,
so that a read of such a field in the models gives the latest value written.

### `EventLoop`, `TaskQueue`, `EventLoopProofs`

One loop and the threads that post to it. Variables are the class's fields
(`to_do_list`, `calling_functors`, the local `functors`), the kernel's eventfd
counter `wakeup`, the epoll result still to be handled `chs`, and a program
counter per thread: `lpc` for the loop, `ppc` for the others. `QueueOneFunc` in
another thread is two steps, for it writes to the eventfd after the unlock;
callbacks and functors of the loop may post too (`LoopPosts`,
`LoopRunsDirectly`). `IoReady` is any other descriptor of the loop.

`TaskQueue` says what a loop promises: what is queued runs once, in order, and
some day. `pending <- functors \o to_do_list` is the refinement mapping.

| run | instance | shows |
|---|---|---|
| `event_loop` | 3 functions, 2 threads | no lost wakeup, the assertion of `HandleRead`, the refinement with its liveness |

Three functions are one that runs, one in the swapped list and one queued
meanwhile; two threads are one between unlock and write while the other queues.
Fairness: the loop's thread runs when it can, and so does a thread between its
unlock and its write. Nobody has to post, and no other descriptor has to become
ready: that is the point, a queued function does not wait for either.

### `TcpServer`, `TcpServerProofs`

The lives of connections over the loops. `connections`, `next`, `fdOf`,
`loopOf` and `state` are fields of the code; `interest`, `edge`, `peer`, `data`
and `urgent` are epoll and the sockets; `todo`, `functors`, `spent` the queues of each
loop, `cur` the `shared_ptr` on its stack. `Held(c)` says that some `shared_ptr`
to the connection exists: the object and its `Channel` are deleted, and the
descriptor is closed (`Channel::~Channel`), as soon as it is false, and then
`FreeFd` has the descriptor again. A weak pointer (the idle timer's, `tie`) does
not count. Queueing a function is one step, which is what the refinement of
`TaskQueue` justifies.

The code of `handleClose` is three steps (`CloseTest`, `CloseSet`,
`CloseNotify`) because two threads run it; registration is two
(`Accept` with the first `EPOLL_CTL_ADD`, `EnableReading`), because the sub loop
polls in between. The bytes, and when a connection counts as idle, are left out:
`Reply` may or may not close, and `ActiveClose` may or may not find it idle.
`halted` records an `assert` that fails or an `errif` that exits.

`enableReading` asks for `EPOLLPRI` beside `EPOLLIN`, and the read callback is called
for either (`Channel.cpp:33`). A client in `Urgent` may send an urgent byte
(`PeerSendsUrgent`): it makes a read event, `read()` passes over it, and if there is
nothing else `on_message_` is called with `recvBuf` empty (`MessageEmpty`), where
`HttpServer::onMessage` fails the assertion of `RetrieveAllAsString` and `EchoServer`
sends nothing.

| run | instance | shows |
|---|---|---|
| `server_http` | 2 clients, one of them with urgent bytes, 1 descriptor, 1 sub loop, timer | up to the double close: types, no dangling `Channel`, the map's entries, closed ones released; reuse of the descriptor, accept without one |
| `server_double_close` | the same, 2 descriptors | violation: `deleteConnectionInLoop`'s assertion fails |

Two clients are one whose connection is being released while the other is
accepted; a third would repeat either part. One descriptor is the most that
forces reuse, two let both live at once. A property that is proved for all
constants is checked in one run only, the one with the most interleavings. Two sub loops are two threads that
close at once; the idle timer is in the main thread, so one sub loop is enough
to meet it. The run `server_echo` (2 clients, 2 descriptors, 2 sub loops, no timer)
is the server's too, from its start on: see `StartUp`. The properties: `NoDanglingChannel` and `RegisteredIsHeld` (neither
a loop nor the kernel keeps a pointer to a deleted `Channel`),
`EntryOutlivesConnection` (the map is keyed by a number that is reused),
`EventHasInput` (an event finds what raised it, and the assertion of
`Buffer::RetrieveAllAsString` fails after an urgent byte only), `RemovedOnce`,
`PeerCloseIsSeen` and `ClosedIsReleased`. Fairness: every loop's thread runs when
it can; clients owe nothing. The liveness properties excuse a process that has
ended.

### `StartUp`

`TcpServer::Start` before the main loop runs, over `TcpServer`. `EventLoopThreadPool::Start`
(`Launch`, `AllStarted`) launches one thread after the other, and `StartLoop`
(`Wait`, `WakesAnyhow`) sleeps until `lp` of that thread is there; `ThreadFunc` builds
its loop on its stack (`Build`), assigns `lp` and notifies (`Publish`), and only then
polls. A step is a critical section of the mutex or what lies between two of
them; `mpc` tells whether the main thread has the lock, sleeps or was woken. A
loop of `TcpServer` takes steps only when its thread is in `loop()`, while clients
may connect from the beginning: the socket listens since the constructor.

| run | instance | shows |
|---|---|---|
| `server_echo` | 2 clients, one of them with urgent bytes, 2 descriptors, 2 sub loops, no timer | no connection goes to a loop that is not built, the start ends, a connection is closed and released once, no end of file is missed, a read event has input |

Two threads are one whose loop already polls while the other is launched.
Fairness: the threads run. That the wait wakes without a notification is
possible and never necessary: with `PublishSilently` instead of `Publish`,
`StartEnds` fails.

### `Buffer`, `ByteQueue`, `BufferProofs`

`buf` is the vector with its two indices, and every public operation that
changes them is an action, with the code's two ways to make room
(`MovedToFront`, `Grown`). `ByteQueue` is the queue of bytes it implements:
`queue <- Contents(Restored)`.

The callers give lengths of what is readable, but for one: when `write()` fails,
`sendNonBlocking` retrieves -1 bytes (`TcpConnection.cpp:177`), which the assertion of
`Retrieve` lets through (`WriteFails`). `read_index_` goes back by one, to a byte that
was sent or, from `kPrePendIndex`, to one that never was in the queue, and that byte is
readable (the comment at `Buffer.h:44` has it that nothing is read twice). `Write` is the
only caller of `sendNonBlocking`, and its `RetrieveAll` comes next (`WriteEnds`): between
the two, `failed` is true, the buffer has one byte too many, and no operation returns
it. `Restored` is the buffer without this byte. So the call that drops output (section 5)
is the one that hides this mistake: whoever takes line 137 away must mend line 177 too.

| run | instance | shows |
|---|---|---|
| `buffer` | vector of 5, first index 2, messages of up to 3 of two bytes, write index up to 8 | refinement, indices in order, failed writes included, no needless growth |

A vector of five with messages of three meets both ways to make room and the
case in which the bytes just fit. `MaxInt` bounds the write index, an `int` in
the code; a message that would pass it is not appended.

### `ConnectionOutput`, `ConnectionOutputProofs`

One connection's `Send`, `handleWrite` and `Write` against a socket buffer of
`SocketSize` bytes and the edge-triggered epoll: `edge` is the ready list,
`nospace` the kernel's note that a writer found no room. Bytes are the numbers
of their places in what was given to `Send`, so that an order lost, a byte sent
twice and a byte dropped can be told from one another.

| run | instance | shows |
|---|---|---|
| `output` | 6 bytes in messages of 1 to 3, socket of 2 | bytes never reordered or repeated; what waits in `sendBuf` leaves it |
| `output_dropped` | the same | violation: `Write` retrieves what was not sent |

Messages that are smaller than, as large as and larger than the socket's buffer,
and a second one while the first waits. Fairness: the loop's thread runs;
`OutputLeaves` supposes a client that reads again and again or a connection that
breaks. `OutputLeaves` is about bytes that stay in `sendBuf`; that they may leave
it without being sent is the finding.

### `TimerQueue`

`timers` is the ordered set, `due` and `ran` the two parts of `activeTimers`
while callbacks run, `armed` the moment for which the timerfd is set. `Tick`
lets time go on between any two steps of the loop. Instead of fairness there is
a bound: `MaxLag` is the longest time for which the loop may be busy, from the
expiry of the timerfd or the start of handling to the end of `handleRead`; the
model's time cannot pass it. A unit of time is the 100 microseconds that
`resetTimerFd` takes for its least. `handleRead` may find its event stale, when a
callback handled before it in the same round armed the timerfd again.

The bounds in `ArmedForFirst` (one lag and a unit) and `Punctual` (two
lags and a unit) are tight: with a unit less TLC finds them violated. The module
is checked as part of `IdleClose`, and its theorems are in `IdleCloseProofs`.

### `IdleClose`, `MCIdleClose`, `IdleCloseProofs`

The idle rule over the timers of the main loop. `onConnection` adds a timer that
is bound to a weak pointer (`watch`); when it runs, `Lock` makes a strong one (`cur`)
if the connection still has an owner, and `ActiveClose` reads the last active time
(`getLastActiveTime`, into `seen`), and closes (`CloseIdle`) or adds the next timer
(`WatchAgain`). `ConnectionEstablished` is two steps, for from its first half on
messages come; `onMessage`, `CloseByPeer` and `Release` are steps of the
connection's own thread, at any moment, also within `ActiveClose`. `Never` is the
last active time of a connection without a message: its `TimeStamp` is made of
zero. Other callbacks of the main loop add timers of any delay, repeating ones too.
The time that `onMessage` takes and the store of it are one step, and so are the
comparison in `ActiveClose` and the `now` in `RunAfter`: in the code microseconds
are between them, which `MaxLag` bounds as it does the rest. The last active time
is one aligned word of 64 bits, so that a read of it gives a value that was
written.

| run | instance | shows |
|---|---|---|
| `idle_close` | 1 connection, 3 timers, delays 0 to 2, intervals 0 and 2, timeout 2, lag 1, time to 8 | the timers: armed for the first, punctual, never early, each in one place; the rule: watched by one timer, closed within the bound, not closed while active |

Connections do not interact but through the timers, and the two timers that are
not the connection's stand for those of others; three are one whose callback
runs, the one it adds, and one that becomes due meanwhile. Eight units are two
timers of the connection, with messages between, and the close. `IdleIsClosed`
states the bound `2 * AUTOCLOSETIMEOUT + 2 * MaxLag + 1` after the last use: a
message just after one timer was set is found too young by it, and the next one
runs a timeout later. TLC finds no state at the bound itself, one unit less is the
latest. There is no liveness property: the bound says more.

### `AsyncLogging`, `Log`, `LogFile`, `AsyncLoggingProofs`

The producers (`AppendRecord`), the main thread (`Start`, `LatchWait`, `Stop`,
`StopNotifies`, `Join`) and the back end (`Begin` to `Recycle`). A buffer is the
bytes in it, `NoBuffer` the null pointer. The back end holds the mutex from
`Collect` to `Recycle`, also while it writes: `Locked` keeps producers out.
Bytes are numbered as they are given to `Append`. `Log` is an abstract log, to
which a record is accepted as a whole and of which a longer and longer prefix is
in the file; `Stream` is the refinement mapping for what it has accepted. A new
`LogFile` goes on where the old one ended, so that `written` is the files one
after the other.

`LogFile` completes the steps of the back end by what they do to the file.
`fwrite` (`FWrite`) leaves any part of its bytes in the buffer of the `FILE` (`stdio`)
and passes the rest on (`disk`); the end of `Write` (`EndWrite`) notes the time and
flushes if the two times it keeps say so; `Rotate` begins another file after a
round of writes, with times and size of its own, and the destructor of the old one
flushes it; so does `EndThread` with the last one. `oldest` is a history variable:
when the first byte in `stdio` was written. `now` is what `time()` gives.

| run | instance | shows |
|---|---|---|
| `logging` (module `LogFile`) | buffers of 3, records of 1 or 2, 6 bytes; flush interval 1, files of 4 bytes, time to 5 | refinement of `Log`; spares suffice; what is accepted is written; what is in the `FILE`'s buffer is no older than the interval when a record is written, and all is on the disk at the end; `Start` and `Stop` return |
| `logging_dropped` (module `AsyncLogging`) | buffers of 3, records of 1 or 2, 7 bytes | violation: a record that just fits is dropped |

Six bytes in buffers of three fill two buffers and start a third, which is the
case in which `next_` is used up and `buffers_` has more than one entry when the
back end collects. Fairness: the back end runs, its wait ends (the clock goes
on), and `fwrite` takes a byte each time (the disk is not full); the main thread
goes on from a wait that has ended and from `Stop`. Nobody has to log, and
nobody has to call `Stop`. The clock of `LogFile` need not go on: no property
promises that a record which is the last one for a long time reaches the disk, and
in the code it does not before the next record or the end. A file of four bytes is
full within the run and the next one is begun; time to 5 is what it takes until a
time noted too late (`EndWriteLate`) shows.

### `HttpContext`, `MCHttpContext`, `HttpContextProofs`

The parser as `HttpServer::onMessage` drives it: `Receive` is a read whose bytes
are parsed, `BadRequest` and `Respond` are what follows, and between them each
round of the loop of `ParaseRequest` is a step. `state` and `request` live as long
as the connection, `start`, `colon` and `end` are the pointers of one call, as
places of the message, with `NUL` behind its last character. A character of
the model stands for all those that the parser treats alike (`"a"` for those that
mean nothing to it), and the words that it knows are one or three long. `Moves`
lists the rounds that only change the state, `Accepted` what each state does not
refuse; the other rounds end a word and have an action each.

The reference: `Request` are the requests that clients mean, of any words that
are well formed (`WellFormed`, which `RequestAssumption` supposes of each: a known
method and version, a URL that begins with a slash, words that have no character
that ends them), and `Text` is how such a request is written. `Understood` compares
what the parser has with what was meant: of two parameters or headers with the same
name the last one counts. `UnderstoodAsSent` says of a message that is the text of a request
that the parser neither throws nor refuses it, and when it has read it is complete, and
has understood it. The words are understood whatever came before on the connection;
the body is if the request's own headers announce it (`AnnouncesBody`), or if the request
is the first one and what its headers say of a body is true (`LengthIsRight`). More does
not hold: `ResetContextStatus` leaves the old headers and the old body in the
`HttpRequest`. `BodyIsParsed` is what the comment at the empty line says, of every request
with a body, and its run is the counterexample.

| run | instance | shows |
|---|---|---|
| `http` | two messages on a connection: 24 requests with and without parameters, headers and body, and two more requests cut off anywhere or with a character changed or added | what is sent in one piece is understood as sent; a complete message has an empty line; no word reaches beyond its message |
| `http_stale` | two of these requests, as they are | violation: a body is lost to the header of an earlier request |

The second message meets whatever state, pointers and request the first one has
left. Changes of one character, five kinds of them, at every place reach every
round of the parser, every refusal and the exception of `AddHeader`. `UnderstoodAsSent`
is about requests written with one blank between their words: the parser skips
blanks before the URL without moving `start` (`HttpContext.cpp:73`), so that with a
second one the URL begins with a blank. The parser is sequential and
ends with its message: there is no liveness property.

## 4. What is proved

With TLAPS, for every value of the constants that satisfies the named
assumptions (`ConstantsAssumption`, `IdleAssumption`, `FileAssumption`: types, and
orders between sizes; `RequestAssumption`: the form of a request). `EventLoop` needs
none.

* **`EventLoopProofs`** - `TypeCorrect`, `NoWakeupIsLost`,
  `HandleReadNeverFails`, and `RunsInOrder`, the safety part of the refinement of
  `TaskQueue`. The invariant `LoopInv` has the phases in which
  `calling_functors` is up, and `Announced`, which is `NoLostWakeup` for each
  phase of the loop: a queued function is announced by the counter or by a
  writer still to come, or the loop is before the swap that will take it.
* **`TcpServerProofs`** - `TypeCorrect`, `NoRegistrationOutlives`
  (`RegisteredIsHeld`), `EventsAreAlive` (`NoDanglingChannel`) and
  `EntriesOutlive` (`EntryOutlivesConnection`), with and without the idle timer,
  the double close included. `LifeInv` says who keeps a registered connection
  alive: the main thread's stack while it is set up, then the map, then the
  queued release. The properties alone are not inductive: that a descriptor is
  not given twice needs that everything held has a descriptor of its own, and
  that the release finds the connection alive needs that releases are queued on
  the connection's own loop, where no event is left when functors run.
  `EventsBringInput` (`EventHasInput`), for both kinds of server: `InputThere` says
  that what made a descriptor ready is there until the connection's own loop reads
  it, and `UrgentOnly` that only an urgent byte leaves `recvBuf` empty;
  `InputIsNeverEmpty` concludes that without clients that send such bytes
  (`Urgent = {}`) the assertion of `RetrieveAllAsString` never fails. `RemovalIsOnce` (`RemovedOnce`), assuming `~Http \/ NumSub = 0`: without
  the idle timer, or with everything on the main loop, a connection is closed in its
  own loop only (`UsedAtHome`), so that its release is queued once (`QueuedOnce`,
  `ClosedInTurn`); that the timer finds a connection registered, or closed and only not
  yet freed, is `TimedAreUsed`. With the timer and a sub loop it is false, which is the
  finding of section 5: the theorem and the run together say exactly when. `StartOrder` (`LoopsAreBuilt`) and `StartedServerIsSafe`
  are about `StartSpec`, each of whose steps is one of `TcpServer` or leaves its
  variables alone.
* **`BufferProofs`** - `IndicesInOrder`, `IsByteQueue` (the whole refinement; it
  has no liveness part), `GrowthIsNeeded`. The indices are inductive as they
  stand; each operation's lemma says what it does to `Contents`, and `FailureStep` and
  `EndStep` are the failed write, of which the queue sees only the last step.
* **`ConnectionOutputProofs`** - `OutputTypeCorrect`, `OutputInOrder`
  (`NeverReordered`). `InOrder` cuts the bytes given to `Send` at three boundaries:
  what the client has comes before what the socket holds, this before what
  waits in `sendBuf`, and this before what `Send` has still to append. What `Write`
  drops leaves a gap and no disorder.
* **`AsyncLoggingProofs`** - `TypeCorrect`, which is where a null `current_`
  would show, and `BuffersSuffice`. `Circulation` accounts for the four buffers:
  the back end has both spares when it does not hold the mutex; `next_` is null
  only if a full buffer is in `buffers_`, so that a back end that gives its
  second spare away has taken two buffers. `LogWithFilesIsSafe` says the same of
  `LogSpec`; `FlushesInTime` (`FlushedInTime`) and `AllOnDisk` (`OnDiskWhenEnded`) rest
  on `FileInv`: the disk and the `FILE`'s buffer together are what was written, and
  the buffer has nothing from before the last flush, a time that the last write is
  at most `FlushInterval` after. `IsLog` and `LogWithFilesIsLog` are the whole
  refinement (`ImplementsLog`; `Log` has no liveness part): an `AppendRecord` adds its
  record to `Stream` or, when the record is lost, nothing (it goes to `current`, or to an empty
  buffer after `current` has gone to the end of `buffers`), a step of `fwrite` adds to
  `written` what it takes from `Unwritten`, and everything else leaves `Stream` alone.
  `StreamInv` says what that needs: buffers that are handed on are empty, the place
  that is written next is one of the buffer being written, and the bytes still to
  come are behind those of the stream. `Circulation` and the type invariant are its
  other half: a collection finds the last one all written.
* **`IdleCloseProofs`** - first what the timers promise whoever adds them:
  `TypeCorrect`, `FirstIsArmed`, `TimersArePunctual`, `NoneIsEarly`, `EachIsOnce`.
  `now - lag` is the moment since which the loop is busy. A timer in the set while
  callbacks run was not due at that moment (`NotYetDue`), so that it is late by one
  lag at most when the timerfd is armed for it again, and by one more when it runs.
  Then the idle rule: `TimersAreTimers` (`IdleSpec` implements the timers'
  specification, so that their theorems hold), `IdleTypeCorrect`, `EachIsWatchedOnce`
  (`OneWatch`), `NoneIdlesForLong` (`IdleIsClosed`) and `ActiveOnesStay` (`ActiveStays`).
  `WatchedInTime` says that the timer of a connection, or the one whose callback
  runs, is for no later than two timeouts after its last use; with `Punctual` this
  is the bound. `SeenOrFresh` says that what `ActiveClose` has read is the last
  active time, or a message has come since the loop is busy.
* **`HttpContextProofs`** - `TypeCorrect`, for any messages: no word of a request
  reaches beyond its message. A word ends before the character looked at, and
  that character is not the `NUL` behind the message; the body ends at the
  message's length, as `end - begin` is one more than what `BODY` has passed.
  `OnlyWithEmptyLine` (`CompleteHasEmptyLine`): `LineEnds` says which characters were
  just passed in the states at the end of a line. `IsUnderstood` (`UnderstoodAsSent`)
  is about requests with words of any length and any number of parameters and headers.
  Its invariant `StageInv` says how far the parser is in the text of the request:
  `Stage` has a case for each of its parts (`OnMethod`, `OnUrl`, `OnParam`, `OnProtocol`,
  `OnVersion`, `OnLine`, `OnHeader`, `OnBody`), in each of which the state, the pointers
  and the words taken so far are those that the place in the text asks for.
  `PartsAtPlaces` says what is at which place (`UrlAt`, `ParamAt`, ...) of the text,
  `Rounds` what a round does in each state to each character, and one lemma per
  part joins the two (`MethodStep` to `BodyStep`): a round in it stays in it or goes on to the
  next one. In the last stage everything has been taken (`StageUnderstood`). `OwnHeaders`
  joins the parser's headers to those of the request: a name that the request has comes
  from it (`AnnouncedIsRead`), and in the first request every name does (`HeaderKeyRead`).
* **`SequenceLemmas`** - the lemmas on sequences that two of these rest on. What
  `FlattenSeq` computes is a recursive function, and the library states induction for an
  operator, with which the provers cannot instantiate it: `SetInduction`,
  `BoundedInduction` and `SequenceInduction` state it for a set in place of a predicate
  and are proved from the well-foundedness of `<` on the naturals.
  `FlattenAppend`, `FlattenConcat`, `FlattenFirst` and `FlattenType` say how sequences are
  joined, `CutInTwo`, `CutPart` and `FirstPart` how one is cut.

Only model-checked: liveness, which needs `ENABLED`, out of this prover's reach: the
fairness of `ImplementsTaskQueue`, `PeerCloseIsSeen`, `ClosedIsReleased`,
`OutputLeaves`, `EventuallyWritten`, `StartReturns`, `StopReturns` and `StartEnds`.
Every safety property of a passing run is proved for all constants, `RemovedOnce`
for those for which it is true.

## 5. Where the code and its text disagree

* **Double close** (`TcpConnection.cpp:70`, run `server_double_close`): the idle
  timer of the main thread and the connection's loop may both pass the test of
  `state`; the second `deleteConnectionInLoop` fails its assertion. It needs a
  sub loop and the idle timer: `RemovalIsOnce` proves that neither alone does it
  (`server_echo` is the instance with sub loops).
* **Output dropped** (`TcpConnection.cpp:137`, run `output_dropped`): `Write`
  retrieves all of `sendBuf` after `sendNonBlocking` sent a part of it.
* **Record dropped** (`LogStream.h:153`, run `logging_dropped`): `Append` asks for
  `avail() >= len`, the buffer for `avail() > len`.
* **Body lost** (`HttpContext.cpp:22`, run `http_stale`): `ResetContextStatus` resets
  the parser's state and not the request. When a request of a connection has said
  `Content-Lenght: 0`, the header is still there when a later request without it comes to
  its empty line: the body of that request is not read, and an older one shows in its
  place. (The other way about, a request with `Content-Lenght: 0` never shows an empty
  body after one that had a body.) Without any such header the parser always reads a body:
  `end - begin < size` (`HttpContext.cpp:245`) holds at every character of the message.

Two more are in the models and have no run of their own:

* **Notification ignored** (`AsyncLogging.cpp:81`): `Append` and `Stop` notify `cv_`
  under the comment that this wakes the back-end thread (lines 57 and 32), but the
  predicate of the back end's wait is false for ever, so that a notification sends it back to
  sleep, full buffers wait for up to three seconds, and so does `Stop`. In `AsyncLogging`
  `notified` is set by the one and read by no step.
* **Urgent byte** (`Channel.cpp:42`): an urgent byte alone makes `HttpServer::onMessage`
  fail the assertion of `Buffer.cpp:82` (`MessageEmpty`, with which `halted` becomes
  `"input"`). `EventHasInput` and `InputIsNeverEmpty` say that nothing else does.

## 6. Not modelled

* `HttpResponse`, the `<<` operators of `LogStream`, and `Logging`: formatting in one
  thread, of text that no other component looks at. The one bit
  that matters elsewhere, whether a response closes the connection, is open in
  `TcpServer`. (`formatInteger`, `LogStream.h:90`, takes remainders of a negative
  value for digits, and tests the sign when its loop has divided the value down to
  zero; no other component looks at a number in a record.)
* How `Logging` and `AsyncLogging` are wired: no program of the snapshot does it.
* The names of log files. The first `LogFile` of the back end is made without a
  path; a file is never closed (`LogFile.cpp:22` tests `!fp_`), so that each rotation
  leaks a descriptor; a full disk, on which `Write` would repeat for ever with the
  mutex held. A log that is idle keeps its last records in the buffer of the `FILE`,
  which `FlushedInTime` is careful not to deny.
* That a response is cut off when `onRequest` closes after a `Send` that the socket
  did not take at once: `ConnectionOutput` has no close, and no text of the program
  says what should be.
* Failures that end the process: `accept4` without descriptors is modelled
  (`AcceptFails`), a signal in `epoll_wait`, `SIGPIPE` and failures at start-up are
  not, for no step follows them.
* A wall clock that jumps, while the timerfd's clock does not.
* `day04` to `day22`, the earlier states of the same program, and with them the
  `ThreadPool` of the middle days, which `day23` no longer has. They are nineteen
  copies of nearly the same files and hold nearly all lines of the repository: the
  share of them that a model of the last state can cover is small, and a model of
  each would say the same again.
