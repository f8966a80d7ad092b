# bbkgl in TLA+

bbkgl is a small C++ network library after muduo: event loops, one per thread,
that poll sockets with epoll, run timers, and serve TCP connections which are
spread over a pool of loops. These modules model the library's control (what
runs when, who may still hold what, what is queued where), check it with TLC on
small instances, and prove its safety with TLAPS for every instance.

Paths are relative to the repository; `net/` stands for `src/net/` and `base/`
for `src/base/`.

## The system

| Part | State it keeps | Operations | Correct when |
|---|---|---|---|
| `EventLoop` | `looping_`, `quit_`, `call_pending_functors_`, `active_channels_`, `pending_functors_` (under `mutex_`), an eventfd | `Loop`, `Quit`, `RunInLoop`, `QueueInLoop`, `Wakeup`, `HandleRead`, `DoPendingFunctors` | functors run once, in order, and without waiting for the 10 s time-out; a `Quit` ends the loop |
| `EventLoopThread` | `loop_` (under `mutex_`, `cond_`), the thread | constructor, `StartLoop`, `ThreadFunc`, destructor | `StartLoop` returns a live loop; the destructor returns |
| `EventLoopThreadPool` | `num_threads_`, `threads_`, `loops_`, `next_` | `SetThreadNum`, `Start`, `GetNextLoop` | connections go round the loops |
| `TcpServer` | `connections_`, `next_conn_id_`, the acceptor, the pool | `Start`, `NewConnection`, `RemoveConnection`, `RemoveConnectionInLoop`, destructor | every connection is removed once and destroyed on its own loop |
| `TcpConnection` | `state_`, the channel, the socket, two `Buffer`s, callbacks | `Send`, `Shutdown`, `Close`, `ConnEstablished`, `ConnDestroyed`, the four handlers | callbacks come in order; nobody calls a freed object; a closed client is noticed |
| `Channel` | `events_`, `revents_`, `index_` | `Enable...`, `Disable...`, `HandleEvent` | lives as long as epoll or a running handler knows it |
| `Epoller` | the epoll set, `channels_`, `event_list_` | `Poll`, `UpdateChannel`, `RemoveChannel` | the set, the table and `index_` agree |
| `Poller` | `pollfds_`, `channels_` | the same with poll(2); no loop uses it | the array, the table and `index_` agree |
| `TimerQueue`, `Timer` | `timers_` ordered by time and address, a timerfd | `AddTimer`, `HandleRead`, `GetExpired`, `Reset`, `Insert` | no timer is lost or run twice; the timerfd is armed for the earliest |
| `Acceptor` | the listening socket and its channel, `listenning_` | `Listen`, `HandleRead` | every client that waits is accepted, also after an accept that failed |
| `Buffer` | a vector and two indices | `Append`, `Prepend`, `Retrieve...`, `MakeSpace`, `Shrink`, `ReadFd` | behaves as a queue of bytes |
| `Socket`, `SocketsOpts`, `InetAddress`, `Timestamp` | a descriptor, an address, a time | wrappers of system calls | - |
| `HttpServer` | - | a stub the build leaves out | - |

How they interact. A loop's thread runs everything that happens to its
channels, timers and functors; other threads reach it only through the
mutex-protected functor list and the eventfd. The base loop accepts; it hands a
new connection to a loop of the pool by queueing `ConnEstablished` there. A
connection that closes queues its removal back to the base loop, whose
`RemoveConnectionInLoop` erases it from `connections_` and queues
`ConnDestroyed` to the connection's own loop. Connections are held by
`shared_ptr`; epoll and `Channel` hold raw pointers; some functors and all
`Close` timers are bound to a raw `this`.

What is hard here: the wakeup protocol of the functor list; the removal that
takes three steps over two threads while `state_` still says connected; who
owns a connection at each of those steps; POLLIN, POLLHUP, POLLERR and POLLOUT
of one event, whose handlers undo one another's assumptions; calls from other
threads that test `state_` first and act later; timers that outlive what they
point to; descriptors that are closed and given out again while tables and the kernel still know them;
a list of events shorter than what is ready; a timerfd with one expiration for a set of timers, and two clocks.
`PROJECT.json` lists these hazards one by one, at their lines.

## The modules

| Module | Models | Abstract specification |
|---|---|---|
| `EventLoop` | one loop, its thread, any number of other threads | `TaskQueue` |
| `EventLoopThread` | `EventLoop` in a thread of its own, with the owner's handshake | `TaskQueue` |
| `TcpServer` | the server, its connections, their channels and the epoll sets, over the base loop and a pool | `Lifecycle` |
| `Acceptor` | how clients get to the server: `Start`, the pool's turns, accepts that fail | - |
| `Channels`, `Epoller`, `Poller` | the channels of one loop, and the two demultiplexers with what the kernel keeps for them | - |
| `Demultiplexer` | the `poller_` of a loop: one or the other | `Selector` |
| `TimerQueue` | the timers of one loop, the timerfd, both clocks | `Timetable` |
| `Buffer` | the index arithmetic of `Buffer`, as operators on records | its own content, a sequence of bytes |
| `Stream` | the bytes of one established `TcpConnection` in both directions, and `Shutdown` | `Pipe` |
| `...Proofs` | the theorems about the module of that name | |
| `MC...` | the instances TLC checks | |

### EventLoop and TaskQueue

`pc` is the place of the loop's thread: `created` and `stopped` are outside
`Loop()`, `test` is `while (!quit_)`, `poll` is inside `epoll_wait`, `events`
is the for over `active_channels_`, `handler` inside a channel's callback,
`functors` and `functor` the same for `DoPendingFunctors`. `quit`, `calling`,
`active`, `pending` and `functors` are `quit_`, `call_pending_functors_`,
`active_channels_`, `pending_functors_` and the local list of
`DoPendingFunctors`. `signalled` says that the eventfd's counter is not 0.
`tpc[t] = "wake"` is another thread between the two steps of `QueueInLoop` or
`Quit`: it has pushed its functor, or set `quit_`, and still has to call
`Wakeup`. `ran` is a history variable.

A step is a critical section of `mutex_`, an access of `quit_`, a system call, or
the entry to or return from a callback. `quit_` is a plain `bool` which two
threads access without a lock; the model takes these accesses to be sequentially
consistent, as they are on the machines the library is built for when the
compiler reloads the flag after `epoll_wait`. `Poll` may leave a readable
eventfd out of its answer, as `Epoller` does when more descriptors are ready than
`event_list_` holds. A functor queued by the loop's owner before `Loop()` gets
no wakeup from the code; `EarlyTasks` are the functors for which that may happen,
and the properties except them.

`TaskQueue` is the promise: a first-in first-out queue, each element of which
is started once, that only `RunInLoop` on the loop's own thread overtakes. The
refinement maps the queue to `functors \o pending`. A functor a loop runs on its own
thread at once, by `RunInLoop`, need not come after those in the lists.

### EventLoopThread

Extends `EventLoop` with `thread` (where `ThreadFunc` is), `owner` (before, in or
after `StartLoop`, or in the destructor) and `loopSet` (`loop_` is not null). The
critical sections of `mutex_` are steps; `cond_.wait` may return spuriously. The
loop's steps are `EventLoop`'s own, the destructor's `Quit` is `EventLoop`'s `Quit` by
the owner. `exiting_` is written and never read, and left out. The owner calls
`StartLoop` before the destructor, as all code in the repository does. `thread = "none"` is a loop without an
`EventLoopThread` (`Base`), entered, left and entered again by the thread that made it: the module has both kinds of loop, and one
run checks `EventLoop`'s properties for both.

### TcpServer and Lifecycle

Per connection: `state_`, `loop_`, whether output is left over (`out`), whether
the write-complete callback is set (`wc`), the channel's `events_`, `index_` and
`revents_`, whether the socket's writing side is shut down, the client's side
(`open`, `fin`, `reset`) and the number of pending `Close` timers. Per loop: the
phase of `Loop()`, the active channels still to be handled, the connection being
handled, both functor lists, and `held`, the connections owned by functors that
have run but are destroyed only when `DoPendingFunctors` returns. Ownership is not a variable:
`Alive(c)` says who holds a `shared_ptr` to `c` (`connections_`, queued or held
functors, callbacks, the users), and `c` is freed when nobody does. A failed
assert, or a member call on a freed connection, sets `fault` and ends the
behaviour; the asserts are those of a debug build.

Handlers of one event are separate steps, as other threads and the client may act
between them; a handler itself is one step up to the users' callback it calls,
and a callback is a phase of its own in which users may do what their program (one of `Programs`) allows:
`send`, `shutdown` and `close` on the connection of the callback or one they
kept a pointer to (`hold`), `worker` the first two from another thread,
`writeComplete` that a write-complete callback is set, `quit` that the server is ended. A program also says how many loops the pool has and which clients come. `Ready` is epoll's answer:
a FIN reads as POLLIN, both directions closed as POLLIN and POLLHUP, a reset adds POLLERR.
`POLLHUP` and `POLLERR` are reported unasked, which is what makes a deleted
channel that is added again visible. Failed writes and short writes are treated
alike, as `SendInLoop` does. Rounds of `epoll_wait` that find nothing
change nothing and are left out. That a functor wakes its loop is what `EventLoop`
establishes and is taken from there.

The end of the server: a `Quit` of the base loop (`QuitBase`), then the destructor (`Destroy`), which has an empty body; its
members go in reverse order. `connections_` drops its pointers one by one (`DropConnection`), while the pool's loops still run; then
the pool joins its threads one by one (`StopLoop`), each of which ends the round it is in. `ChannelIdle` is the assert of
`~Channel`. What the base loop's `Epoller` keeps of a freed channel is not followed after the base loop has ended.

What is promised depends on the program: `Careful` and `Serves` name what it must not do, and the violations show why.
A careful program does not use `Close` or other threads, ends a server only when all of it is on one thread, and
with a pool does not send late (`SendsLate`): it neither sets a write-complete callback nor sends from one connection's callback on another.
On one loop late sends do no harm, since `ConnDestroyed` comes before the next `epoll_wait` (`RoundInv` in `TcpServerProofs`).
That a send on another connection is among them came out of the proof, which did not go through without it; TLC then
found the behaviour, the one of `server_resend` with two connections on one loop of the pool.

`Lifecycle` is the promise to users: up, messages, down, freed, in that order, once each.

### Acceptor

`Start` starts the pool once and has the acceptor listen; `SetThreadNum` before and after it, and both before `Loop()` or in
callbacks. `backlog` is the kernel's queue of connections nobody accepted. `HandleRead` passes one to the server, or fails: `accept` has
no descriptor (`Free` says whether one is left; `MaxConns` is what the process may have), or the client is gone. `GetNextLoop` is the
pool's turn, `given` counts per loop what it was given. A served connection ends some time (`CloseSocket`, `~Socket`); how, is
`TcpServer`'s subject. With `callback` false the acceptor is used alone, and closes what it accepts.

### Channels, Epoller, Poller and Demultiplexer

`Channels` has what both demultiplexers share: the channels of a loop with `fd_`, `events_`, `index_` and `revents_`, the table `channels_`, and
per descriptor what is the case on it (`ready`). A channel gets the lowest free descriptor, is enabled, changed, disabled and
removed as `TcpConnection` does it, outside any handling of events; then its descriptor may be given out again. `Epoller` adds the kernel's epoll set
(`set`: the events asked for, and the pointer kept for them) and the size of the list that `epoll_wait` fills; `Poller` adds `pollfds_`, with negated
descriptors for the channels that ask for nothing. Both report POLLHUP and POLLERR (`hup`) unasked. Their tables start with one entry
(`InitEventListSize`; 16 in the code) so that they are too short for three channels.

`Demultiplexer` is a loop's `poller_`, of either kind, with the properties of both: `TablesAgree` says that the table, the indices and the
kernel's view agree; `DueIsReported` that a poll reports everything in the end. The last excepts the
channels of a `Poller` that once asked for nothing, since `Poller` never asks for them again (see the findings).

`Selector` is the promise: it has no table, no index and no kernel, looks at the channels themselves and tells those that have
news, all of them or as many as the list holds; what they are told is the news, or (as `Poller` has it) all they ask for. Both demultiplexers implement it (`Treated` is how
a channel is regarded: a `Poller` disregards those it has silenced). It says more than `TablesAgree`: that what
UpdateChannel and RemoveChannel make of the tables is what the next poll needs.

### TimerQueue

`timers_` is a set of entries ordered by time and then by address, as
`std::set<pair<Timestamp, Timer*>>` is; addresses are natural numbers. `fuse`
counts the timerfd down, `readable` says that it expired. The wall clock, by which
timers are due, and the monotonic clock, by which the timerfd counts, tick
together, and the wall clock may be set `MaxSets` times. One tick is the least
delay (100 microseconds) of `HowMuchTimeFormNow`. Time passes while callbacks
run. Timers may be added between any two steps of the loop: by functors and by
callbacks, also by one another. Timers are not cancelled in this library.

`Poll` is the moment `timerfd_channel_` enters `active_channels_`: from then on `HandleRead` comes (`phase` is `"listed"`), though a functor or handler
that comes first in the round may add a timer before all others, whose `ResetTimerfd` takes the expiration back. The read then fails, which only prints a line, and `HandleRead` goes
on; `retracted` remembers that its read failed.

`Timetable` is the promise: a table of when each timer is due, without order, sentry or timerfd. When the loop looks, all that
are overdue are taken; they run once each in the order of their times, none early; those that repeat are due again an interval after
the loop looked. `Became` and `DueAt` read it off the set, the list and the flags of `TimerQueue`. `FailsAsForeseen` says when it goes wrong: `GetExpired`'s
assert fails when a timer is due at this very instant and does not lie before the sentry, always then and on nothing else; and it dereferences `begin()` of an empty set only when
the `HandleRead` before came for an expiration that had been taken back. `SpentWhenEmpty`, a part of `ArmedInTime`, says why: that `HandleRead` ran the very timer the timerfd had been armed for, and `Reset`
does not disarm it when no timer is left. Nothing else leaves the timerfd armed for an empty set.

### Buffer, Stream and Pipe

`Buffer` has one operator per member function, on records of the vector and the two
indices; `Content` is what `Peek()` up to `BeginWrite()` holds. `Appended` is `Append`
with the `EnsureWritableBytes` and `MakeSpace` it calls, `ReadFd` the two pieces of `readv`.
What a function asserts of its arguments is left to the callers: `Stream` shows that the library
keeps to it. `Shrunk` is `Shrink`, which nothing calls; theorems say what it does.

`Stream` follows the bytes that `TcpServer` abstracts. `out` and `in` are the two
buffers, `writing` is the channel's `IsWriting()`, `wire` what the socket took,
`shut` that its writing side is shut down. The loop handles POLLIN, then POLLOUT, then the
functors; users' code runs on the loop anywhere but in `epoll_wait`, and on other
threads, whose `Send` and `Shutdown` are three steps: test `state_`, set it
(`Shutdown` only), queue the functor. A write takes any part of the data at once; after
the FIN it fails, and `SendInLoop` treats that as having written nothing. The message
callback retrieves any part of the input, or all of it. The client stays and goes on
reading; that it leaves is `TcpServer`'s subject. `LoopSendsArrive` is what is left of a graceful `Shutdown` when other threads
call it, too: what the loop's own thread sent is on the wire before the FIN.

`Pipe` is the promise of one direction: bytes in the order they were given, each once,
and the end of the stream after all of them.

## The runs

| Run | Instance | Shows |
|---|---|---|
| `loops` | a loop of either kind; its owner, 1 other thread, 3 functors, 1 of them early | `NoLostWakeup`, `StartedLoopExists`, refinement of `TaskQueue`, `QueuedRuns`, `QuitStops`, `StartReturns`, `JoinReturns` |
| `elthread_quit` | the same | violates `DtorReturns` |
| `server` | 12 programs: 1 or 2 connections on the base loop or a pool of 1 or 2; 7 serve, 2 end the server, 3 are careless | `NoFault`, `HandlersAlive`, `RegisteredAlive`, `RemovedOnce`, `QuietOnceClosed`, `InLoopThread`, `StaysGone`, refinement of `Lifecycle`, `ClosedInTheEnd` |
| `server_resend` | 1 connection on a pool of 1; send, write-complete | violates `NoAssertFails` |
| `server_close` | 1 connection; `Close` | violates `NoneUsedFreed` |
| `server_dtor` | 1 connection on a pool of 1; quit | violates `NoAssertFails` |
| `acceptor` | 4 clients, pool of up to 3 loops, descriptors for 2 connections | `Balanced`, `NobodyLost`, `AcceptedInTheEnd` |
| `demux` | `Epoller` or `Poller`; 3 channels that read, or 2 that read and write, with peers that hang up | `TablesAgree`, `NoAssertFails`, refinement of `Selector`, `DueIsReported` |
| `stream` | 1 connection; 2 messages, one by another thread; 3 incoming bytes | `BuffersOK`, `WritingWhileWaiting`, `InputInOrder`, `LoopSendsArrive`, refinement of `Pipe`, `OutputDrains`, `ShutInTheEnd` |
| `stream_fin` | the same | violates `GracefulShutdown` |
| `timerqueue` | 3 timers, 1 repeating, clock 1..5, set once | `ArmedInTime`, `FailsAsForeseen`, refinement of `Timetable`, `TimersRun` |
| `timerqueue_tie` | the same, clock never set | violates `NoAssertFails` |

Run one with `tlc -config MCTcpServer.cfg MCTcpServer.tla`.

Bounds and why they are enough. Two foreign threads are needed for one to push
while another is between push and wakeup, and the third is the loop's own; three
functors let one be in the local list, one pending and one running.
Two connections let one round handle a connection while another in the list is
closed by it, and two loops beside the base loop let their removals meet there. Which operations are together in a program is chosen so that each pair that interferes (a send and a close by the peer, a write-complete callback and a removal, a kept pointer and a destruction) is in one of them. `MaxTimers` 2 is the
second `Close` on a connection; `MaxQueue` bounds only what the other thread posts.
Three timers are one earlier, one equal and one later than a given one;
Four clients and two descriptors leave two to wait while accepts fail, and three loops are what `next_` needs to go round past the middle.
Three channels on three descriptors let a removed entry be neither the last nor the only other one; `MaxSize` 4 is where the list of events holds all of them.
`MaxTime` leaves a repeating timer two rounds; the wall clock is set once, in either direction.
In `Stream` the buffers begin with 1 byte in front and 2 behind (8 and 1024 in the code) and `extrabuf` takes
1 byte (65536), so that messages of 2 and 1 bytes that both wait make the vector grow, the rest of one is moved up before the other is appended, and a
read of 3 bytes is split over vector and `extrabuf`; a message by the loop and one by another thread are what it takes for them to overtake each other.
No deadlock check: a loop with nothing to do sleeps, and a fault ends a behaviour.
(`Acceptor` and `Demultiplexer` never stop, and are checked for deadlock.)

Fairness. Callbacks return; a thread inside `QueueInLoop` or `Quit`, or between
`loop_` and `Loop()`, gets on; `epoll_wait` returns when a descriptor it watches is readable.
`Poll` itself has no fairness, so that no property rests on the ten-second
time-out (in `Acceptor`, where other channels keep the base loop going, it has). A demultiplexer is polled again and again, and what it reports is handled; nothing makes clients or users do anything, nor `cond_.wait` return by itself.
`TimerQueue` also assumes that time goes on. All are weak: once enabled, these
steps stay enabled until they are taken. One is strong: in `Stream` there is room to
write again and again, since the client goes on reading, but not always, and `epoll_wait` then
reports POLLOUT when it is asked for. `AcceptedInTheEnd` assumes, as its hypothesis, that descriptors become free again and again.

Some properties rely on others' modules: `ClosedInTheEnd` on `QueuedRuns`
(a queued functor is reached), `TimersRun` on the loop returning to `epoll_wait`.

## What is proved

TLAPS proves every safety property but one (`StaysGone`) and every refinement that a passing run checks, for every value of the constants. Each `...Proofs` module
names its inductive invariant; the theorems follow from it.

- `EventLoopProofs`, for any threads and functors: `TypeCorrect`, `WakeupsReach`, `RunsAtMostOnce` and
  `Refinement`. `NoLostWakeup` speaks of the moment the thread is in `epoll_wait` and is not inductive: between
  two polls the eventfd is drained while functors are pending. `WakeupInv` adds what
  holds in between: an unannounced functor is pending only before the swap
  (`events`, `handler`); `call_pending_functors_` is set exactly from the swap to the end
  of the local list, so that a functor which queues another writes the eventfd; and the local
  list is empty outside. The last also makes the swap a stuttering step of
  `TaskQueue`; a push appends to the whole queue (`PushAtEnd`) and a started functor
  is its head (`PopAtHead`). `OnceInv` says that what has run and what is listed are apart.
- `EventLoopThreadProofs`: the same for a loop in an `EventLoopThread` (`ThreadTypeCorrect`, `ThreadWakeupsReach`,
  `ThreadRunsAtMostOnce`, `ThreadRefinement`) and `StartedExists`. `LoopOrStutter` shows that each step is one of the loop's or
  leaves it alone, so that the invariants carry over; `StartInv` relates `loop_`
  to where both threads are.
- `TcpServerProofs`, for any connections, programs and size of the pool. `AnyInv` holds whatever a program does:
  which phases of a loop have active channels, a batch and a connection in hand (`PhaseInv`), that a connection not yet accepted is
  nowhere, and that one in `connections_` is not being destroyed (`RosterInv`). It gives `ServerTypeCorrect` and `ListedStaysUp` (`ListedNotDestroyed`, which is proved only). With it `HomeInv`,
  which says for each functor which loop it is for (`LoopFor`), gives `LoopsKeepToTheirOwn`: `AssertInLoopThread` never
  finds a connection on the wrong thread (it would print a line and go on: `AbortNotInLoopThread` does not abort).
  `CarefulInv` holds of careful programs and follows a connection through its life: `Placed` says on which loop it may be found and
  which functors go where; `Living` that what is on the way tells its stage (one that is up and not listed has its `ConnDestroyed` on the
  way, one not given up is watched); `InHand` that a loop has only those in hand that are up and not given up, or is done with their
  POLLIN and POLLHUP; `Quiet` that a given-up one is not in epoll again; `OnceInv` that what ends a connection is queued once; `RoundInv` that on a
  single loop a round destroys what it gives up. `CloseComesFirst` and `RemoveComesOnce` are the heart: `HandleClose` and
  `RemoveConnectionInLoop` meet a connection that is up and listed. From these: `CarefulIsSafe`, `HandlersStayAlive`,
  `NoneLeftRegistered`, `RemovalIsCarried`, `ClosedStaysQuiet`, and `ServerRefinesLifecycle`: `Stage` is the phase of
  `Lifecycle`; a step moves one connection (`StepMoves`), begins or ends a message callback (`StepTalks`), or at most lets
  connections that are down go (`StepFrees`).
  Most steps concern one connection, and `...Same` lemmas show that the others are left as they are.
- `DemultiplexerProofs`, for any channels, descriptors and sizes of the event list: `DemuxTypeCorrect`, `TablesStayInOrder`, `AssertsHold` and the
  action property `PollsAreTruthful`, and `DemuxRefinement`: both implement `Selector`. `EpollInv` and `PollInv` say of each demultiplexer that its table, `index_` and the
  kernel's set (or `pollfds_`, place by place) agree and that no two channels share a descriptor; the longest part is
  `Poller::RemoveChannel`, which moves the last entry to the place of the removed one.
- `AcceptorProofs`, for any clients, threads and descriptors: `AcceptorTypeCorrect`, `LoopsTakeTurns` and `BacklogKeepsAll`. `Turns` strengthens
  `Balanced`: the loops before `next_` have had exactly one connection more. `RemovedAt` says what taking a client out of the backlog leaves.
- `TimerQueueProofs`, for any timers, intervals and bounds on time: `TimerTypeCorrect`, `TimerfdInTime`,
  `TimersAccounted`, the action property `FailuresForeseen` and `TimerRefinement`. `FdInv` relates the timerfd's countdown, its readiness and the set, while the loop waits and while `HandleRead` is to come; `BookInv` says that a timer is in one place. That the
  timerfd is armed for the earliest needs `FirstIsEarliest`, and that a finite set of numbers has a least one (`HasLeast`). `BooksRead` says what
  `Timetable`'s table has for a timer in each of its places; with it each action is one of `Timetable`'s or none of its business.
- `BufferProofs`, for buffers of any size and any data: `SpaceEnsured` (after
  `EnsureWritableBytes` the content is the same and the room is there, which is its assert),
  `MoveIsToTheLeft` (the assert in `MakeSpace`, without which `std::copy` must not be used on
  overlapping ranges), `AppendAppends`, `ReadFdAppends`, `PrependPrepends`,
  `RetrieveDrops`, `RetrieveAllEmpties` and `NewBufferEmpty`. Of `Shrink`: it leaves the indices inside the vector only when the reader
  is not further from `k_cheap_prepend` than the reserve is long (`ShrinkMayLeaveTheVector`), shifts the content by that distance (`ShrinkShifts`),
  and is right when there is none (`ShrinkKeepsAtTheFront`). They rest on `ContentEqual`, which tells a
  buffer's content by its length and bytes, and on one lemma each for the two ways of `MakeSpace`
  (`GrownKeeps`, `MovedKeeps`).
- `StreamProofs`, for any messages, threads, buffer sizes and size of `extrabuf`:
  `StreamTypeCorrect`, `BuffersStayOK`, `WaitingIsWatched`, `InputStaysInOrder`,
  `OutputRefinement` and `LoopSendsAreGraceful`. `StreamInv` has three parts for the variables of control, output and input. The one fact
  beyond the checked invariants is `taken = wire \o Content(out)`: it makes each write a step of `Pipe`
  (`TransferStep`), and with `WritingWhileWaiting` it makes the FIN come after all output
  (`FinishStep`). `OutputSteps` and `InputSteps` sort the actions by what they do to each
  direction; what a handler does to the bytes is in `SentBytes`, `DrainedBytes` and `ReceivedBytes`, from
  the theorems of `BufferProofs`. `GraceInv` says why the loop's own sends come before the FIN: they are accepted only while `state_` says
  connected, when no `Shutdown` is anywhere on its way (`NoShutdown`), so that they are in the buffer or written when `Send` returns
  (`LoopSendsTaken`); and the FIN comes when no output waits.

The proofs assume the named assumptions of the modules and nothing else about the constants: that owners, callers and `None` are told
apart, that programs, uses and messages have their shape, and that sizes and bounds are numbers (positive where the code has a positive
constant). TLC evaluates them in every run.

Only model-checked: liveness (`QueuedRuns`, `QuitStops`, `StartReturns`, `JoinReturns`, `ClosedInTheEnd`, `AcceptedInTheEnd`,
`DueIsReported`, `TimersRun`, `OutputDrains`, `ShutInTheEnd`), which is out of the prover's reach
together with ENABLED and induction over data; and `StaysGone`, which holds of careless programs, too, for which nothing yet says that
ConnEstablished and ConnDestroyed are queued once.

## Where the code and its own words disagree

Violations found by runs, each with TLC's shortest counterexample:

1. `server_resend`: a write-complete callback that sends between `HandleClose` and
   `ConnDestroyed` passes `Send`'s test of `state_`, and `EnableWriting` puts the closed
   channel back into epoll without read interest; POLLHUP then closes the connection a second time, and
   `assert(n == 1)` of `RemoveConnectionInLoop` fails. A callback of another connection on the same loop of a pool can do it, too.
2. `server_close`: a `Close` timer runs `HandleClose` on whatever has become of the
   connection; `example/main.cpp` sets one per message.
3. `stream_fin`: `Send` and then `Shutdown` of another thread. `Shutdown` sets `state_` at once,
   the data are still in the functor queue; `HandleWrite`, done with earlier output, sees the state and sends the FIN.
   The data are lost, stay in the buffer, and keep POLLOUT asked for on a socket that refuses every write. (Data the loop's own
   thread sent are safe: `LoopSendsArrive`.)
4. `timerqueue_tie`: the sentry of `GetExpired` holds the first timer's address, where
   the greatest address was meant; a timer due exactly now makes its assert fail. `FailsAsForeseen` is proved: every such tie does it, and nothing else.
5. `elthread_quit`: a `Quit` between `StartLoop` and `Loop()` is reset by `Loop()`.

Without a run of its own: `Reset` does not disarm the timerfd when no timer is left, which matters when a handler earlier in the round has armed it for a timer that
`HandleRead` then runs as well: its next expiration finds an empty set, and `GetExpired` dereferences `begin()` (`FailsAsForeseen` and `SpentWhenEmpty` say that this is the only way to it).

Found by reading: `Send` and `Shutdown` from another thread bind the raw `this`;
`Shrink` does not carry the indices over (what comes of it is proved in `BufferProofs`); the destructor of `EventLoopThread` uses a loop that may be gone;
`QueueInLoop`'s comment on who queues during `DoPendingFunctors`; `Poller`'s use of
`events` for `revents`, and its negated descriptors that are never restored.

## Not modelled

What messages mean, `next_conn_id_` and names. `Buffer`'s `Swap`, which nothing calls. Addresses (`InetAddress`), socket
options, byte order, logging and formatting; the errors of `bind` and `listen`, which are only printed. Failing `epoll_ctl`. The destructors of `EventLoop` and
`TimerQueue`, which run when nothing is left to go wrong with them but what they leave behind. `HttpServer`, a stub the build leaves out; the examples and tests, whose
callbacks are the `Programs` of `TcpServer`. Timers in `TcpServer` are the `Close` timers alone, and those of `TimerQueue` call nothing of a server: the two are not composed, and neither is
`TcpServer` with `Stream`, `EventLoop` or `Epoller`, each of which has the detail the other abstracts.
