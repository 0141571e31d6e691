# Verification of Linux_Cpp

Linux_Cpp is a collection of small systems programs: thread pools, blocking and
ring queues, a process pool, UDP and TCP servers, event-driven servers and
lessons about IPC, signals and threads. It has no documentation and no tests;
the code and its comments (in Chinese) are the only statement of what it is
meant to do. This directory holds TLA+ models of its programs, the TLC
configurations that check them, and proofs that TLAPS checks.

## 1. Inventory

| Component | Source | State | Operations | What is hard |
|---|---|---|---|---|
| Singleton thread pool | `Socket/3. chat_server/ThreadPool.hpp`, `Thread.hpp` (copied to `Socket/4`) | `_tp`, `_sig_mutex`, `_mutex`, `_cond`, `_isrunning`, `_task_queue`, `_sleep_thread_num` | `GetInstance`, `Init`/`Start`, `Equeue`, `Stop`, `HandlerTask` | double-checked creation, a hand-made sleeper count that decides about signals, Stop against queued tasks, failing `pthread_create` |
| UDP chat server | `Socket/3. chat_server/{Route,UdpServer,InetAddr}.hpp`, mains | `_online_user`, its mutex, the datagram in hand | receive, `CheckOnlineUser`, `Offline`, `ForwardHelper` | a message is forwarded by another thread, later, to whoever is online by then; UDP loses and reorders |
| Ring queue | `11.sem_cp/RingQueue.hpp` | ring, two indices, two semaphores, two mutexes | `Push`, `Pop` | a producer and a consumer inside at the same time under different mutexes |
| Blocking queue | `10.blockqueue/BlockQueue.hpp` | queue, mutex, two condition variables, watermarks | `push`, `pop` | `if` instead of `while` around the waits, signals suppressed by a watermark |
| Process pool | `2.ProcessPool/ProcessPool.cc`, `Task.hpp` | pipes, who holds which end, channels, round-robin counter | create, send, close, wait; a child reads and executes | inherited write ends, end of file, failing `fork`, clean-up order |
| Select, poll and epoll servers | `IO/SelectServer`, `IO/Pollserver`, `IO/1.epollserver` | descriptor table, readiness, listening socket | `Loop`, `HandlerEvent`, `Accepter`, `HandlerIO` | readiness used after other events were handled, a full table, reuse of descriptor numbers, a blocking `send` in the only thread, more ready descriptors than one `epoll_wait` reports |
| Second epoll server, calculator server | `IO/2.epollserver_v2`, `Socket/6.cal_server` | — | skeletons that do not compile or have no loop | nothing yet |
| Command server, HTTP transport | `Socket/5.command_server`, `Http` | descriptors, one detached thread per connection, streams of `popen` | `Loop`, `Execute`, `HandlerCommand`, `Excute`; the client's write and read | life of the per-connection data, pairing of lines and answers over a byte stream, descriptors running out |
| TCP echo server | `Socket/4. tcp_echo_server` | as the command server, with the pool | as the command server | nothing: neither program compiles |
| UDP echo and dictionary servers, their client | `Socket/1. udp_echo_server`, `Socket/2. dict_server` | the dictionary; the client's line in hand | load, answer one datagram; send a line, wait for one datagram | a client without timeout over a network that loses, doubles and reorders |
| UDP chat client | `Socket/3. chat_server/UdpClientMain.cc` | a socket shared by two threads | show, send, join | who closes the socket, and when |
| Named and anonymous pipes | `3.fifo`, `1.testPipe` | the fifo's name, its buffer, who has it open | make, open, write, read, unlink | opens that wait for the other side, a name taken away while in use, end of file, SIGPIPE |
| Shared memory paced by a named pipe | `4.shm` | segment, who has it mapped, the fifo | create, attach, write a letter and announce it | creation against use, announcements that merge, processes that die |
| Thread wrapper and ticket sale | `Thread/Thread.hpp`, `Thread/Main.cc` | `tickets`, running flags | start, test, sell, join | an unlocked test-and-decrement, `pthread_create` that fails |
| Condition variable lesson | `Thread/mycond.cc` | who waits, the loop variable of main | wait, signal, broadcast | a wait without a condition, an argument that is gone when it is read |
| Teaching thread pools | `Thread_Pool` | queue, mutex, condition | push, take, run, stop | signals against sleepers, a destructor that joins |
| Threading lessons | `8.Multithreading` | heap object, thread-local counter | create, join, detach | who outlives whom |
| Signals, daemon | `6.zc`, `ProtectProcess` | masks, dispositions, session, descriptors | block, restore; fork, setsid, redirect | a mask saved twice, system calls that fail unnoticed |
| Handlers and zombies | `5.sig`, `7.xh`, `main.cc` | one disposition | install, print for ever | nothing |
| Non-blocking input | `IO/TestNonBlock` | the descriptor's flag | poll once a second | several outcomes of one read |
| Log | `Log.hpp` (13 copies) | where to, the record of `localtime` | `Enable`, `logMessage` | a record shared by all threads |
| Helpers | `LockGuard.hpp`, `InetAddr.hpp`, `nocopy.hpp` | — | — | formatting |

What makes each component correct:

| Component | Correct means |
|---|---|
| Thread pool | one pool however many threads ask for it; a task pushed is executed exactly once, also when Stop comes first; no worker sleeps while a task has nobody on the way to it; Stop ends every worker |
| Chat server | the list of users is what the messages received so far say; a message that arrives is forwarded once, to those online when its turn comes; a later message overtakes at most as many as there are workers |
| Ring queue | the FIFO buffer of `cap_` places: no slot is read and written at once, no place is lost, nobody waits while it could go on |
| Blocking queue | no `pop` of an empty queue, no `push` beyond the capacity, no thread asleep while its condition holds |
| Process pool | a command reaches the child it was sent to, once, in order; a child ends only after all its commands; the clean-up ends and reaps every child |
| Select, poll and epoll server | the table lists exactly the open descriptors; `accept` and `recv` never block; as long as no `send` blocks for ever, no connection is starved |
| Command server | one answer per line, in step; descriptors are not leaked; one client cannot end the others' sessions |
| Shared memory, named pipe | the reader sees what was written before the announcement; both ends find the same segment; nothing written is lost; the reader ends when the writers do |
| Ticket sale | every ticket is sold (the lesson is that some are sold twice), and main waits for all sellers |
| Condition variable lesson | every thread gets its turn again and again |
| Teaching pools | a task runs once with the right outcome, none waits while all workers sleep, a destructor drains the queue and ends |
| UDP lessons, chat client | an answer belongs to its line; what arrives is shown; the socket outlives its users |
| Signals, daemon | a blocked signal waits, neither ends the program nor gets lost; a daemon is out of reach of its terminal |
| Log | no entry is lost, doubled or out of order, and its time is that of the call |

Of the 10 883 lines of the repository only some 5 900 differ: many files exist
twice, once in a lesson's directory and once at the root, `Log.hpp` has 13 copies,
two of them under the name of a main, and each server directory brings its own
`ThreadPool.hpp`, `Socket.hpp` and `InetAddr.hpp`. A definition is mapped to one
copy, an action to the one its program includes. The definitions that gather the
actions of a whole program (`Next`, `ParentStep`, `ServerStep`) are mapped to a second
copy where there is one, compared byte by byte: what is shown of one holds of the other.
What the map does not reach are the further copies, includes, declarations, blank lines
and comments, code that is commented out, and the skeletons of section 7.

Interactions. The chat server's main thread receives, updates the list of users
and calls `ThreadPool::GetInstance()->Equeue`; the pool's workers run
`Route::ForwardHelper`, which takes Route's mutex and sends. The process pool's
parent and children share pipes. The queues connect producer and consumer
threads of their `main`. The programs of `4.shm` use the named pipe to announce what
they write into the segment. All other components stand alone.

## 2. Plan

Order of work, the most important behaviour first. A module in parentheses is
used by the one before it.

| Step | Module | State |
|---|---|---|
| 1 | `ThreadPool`, `ThreadPoolProofs` | done |
| 2 | `ChatServer` (`ThreadPool`) | done |
| 3 | `RingQueue` implements `BoundedBuffer` | done |
| 4 | `BlockQueue`, `BlockQueueProofs` | done |
| 5 | `ProcessPool`, `ProcessPoolProofs` | done |
| 6 | `EventServers` (`SelectServer`, `PollServer`, `EpollServer`, all on `TcpKernel`) | done |
| 7 | `CommandServer` | done |
| 8 | `NamedPipe`, `Fifo`, `SharedMemory` (both on `NamedPipe`), `ChildPipe` | done |
| 9 | `Tickets`, `CondLesson`, `TeachPool`, `StopPool`, `ThreadLesson` | done |
| 10 | `UdpLesson`, `ChatClient`, `NonBlock`, `Log`, `Signals`, `Daemon` | done |
| 11 | `Lessons`, which puts the modules of steps 8 to 10 beside each other | done |
| 12 | `RingQueueProofs` with the refinement, `ChatServerProofs` | done |
| 13 | `EventServersProofs`, `CommandServerProofs`, `LessonsProofs` | done |

Every safety invariant of a passing run is stated by a theorem. What would be next are
action properties of the modules proved about, and refinements between them: the teaching
pools against an abstract pool, the fifo against an abstract channel.

The abstract specification worth stating is that of a buffer: `BoundedBuffer` is
what a queue of this repository promises. The ring queue implements it. The
blocking queue does not, and is compared with the promises of its own comments.

## 3. Modules and code

An action is what a thread does between two points where another one can
interfere: an operation on a mutex, a semaphore or a condition variable, a system
call. A mutex is a variable that holds its owner. `pc` variables (`wpc`, `cpc`,
`spc`, `ppc`, `tpc`) say where a thread is; variables marked "history" are no
part of the program and only serve the properties.

**`ThreadPool`** (`Socket/3. chat_server/ThreadPool.hpp`, `Thread.hpp`). `tp`,
`sigMutex`, `mutex`, `isrunning`, `queue` and `sleepNum` are `_tp`,
`_sig_mutex`, `_mutex`, `_isrunning`, `_task_queue` and `_sleep_thread_num`;
`unstarted` are the threads the loop of `Start` has not reached. Callers go
through `GetInstance` (`CheckInstance`, `LockSig`, `RecheckInstance`, `NewPool`,
`SetRunning`, `StartThread`, `StartDone`, `UnlockSig`), then `Equeue` or `Stop`.
A worker goes round `HandlerTask`: `LockQueue`, then `Sleep`, `Quit` or
`TakeTask`, and `Run` after the unlock. `StartThread` may fail, since
`pthread_create` may and nobody looks. A signal moves one sleeper from "wait" to
"relock"; `WakeSpuriously` does so without a signal.

**`ChatServer`** (`Route.hpp`, `UdpServer.hpp`, the mains) composes `ThreadPool`,
with the main thread as its only caller and the messages as tasks. `InitServer` is
`socket` and `bind`, either of which may end the program. `Receive`,
`CheckOnlineUser`, `Offline`, `HandOver` and `Return` are the main thread,
`ForwardHelper` what a worker runs; each holds Route's mutex from beginning to
end and is one action. The network is a set of datagrams, so that they are
reordered, and `Lose` loses them; an `Empty` one that arrives is dropped (`Discard`),
since `recvfrom` then returns 0. The history `forwarded` records, for every message,
to whom it was sent and `at` which point of the receive loop.

**`RingQueue`** (`11.sem_cp/RingQueue.hpp`) has an action per semaphore
operation, per lock and for the work on the slot, which is why a producer and
a consumer can be inside at once. **`BoundedBuffer`** is the specification it
implements: a sequence of at most `Cap` values with `Begin` (a call of Push), `Put` and `Get`. The
mapping takes the slots that have been written and not yet read, in ring order.

**`BlockQueue`** (`10.blockqueue/BlockQueue.hpp`). Only the number of elements
matters, not their values. `WaitNotFull` and `WaitNotEmpty` are the tests that
end in `pthread_cond_wait`; the rest of `push` and `pop`, once past the wait,
is `Push` and `Pop`. Since the wait stands under an `if`, a woken thread goes to
`Push` or `Pop` without a second test. `PopEmpty` is the undefined `front()` and
`pop()` of an empty queue. The header as committed misspells
`pthread_mutex_unlock` and `pthread_mutex_destroy`, so it does not compile; the
model takes the spelling that was meant.

**`ProcessPool`** (`2.ProcessPool/ProcessPool.cc`, `Task.hpp`). For each pipe the
model keeps who has its ends open (`writers`, `readers`) and what is in it. `Fork`
copies the parent's descriptors; `CloseInherited` and `CloseOwnWriteEnd` are the
child's. `CreatePipe` and `Fork` may fail: the code stops at the first and
ignores the second. The clean-up closes and waits channel by channel, and
`Wait` reaps any child, because `waitpid` is called with the recorded -1.

**`TcpKernel`** is external: what `select`, `poll`, `accept`, `recv`, `close` and
`socket` do, as far as the servers use it. Connections carry requests, an end of
file or a reset; descriptor numbers are the lowest free ones, below `FdLimit`.
A client reads its answers or does not (`unread`); when there is `Room` for no more,
`send` waits (`SendBlocks`), as it does on the blocking sockets of this repository.
**`SelectServer`** and **`PollServer`** add the table of the server, the readiness
of the current round and the walk over the slots (`Accepter`, `HandlerIO` and
`HandlerEvent`, one action per slot and outcome). `HandlerIO` has two steps, `ReadRequest`
up to its `send` and `Send`; in between, `sending` is the descriptor that is owed an
answer, and the only thread may wait there. **`EpollServer`** has no table but
the kernel's set of interest. `epoll_wait` reports at most `num` of the ready descriptors
(128 in the code), going round when there are more (`Report`, `skipped`), and the server
handles what was reported in any order. `epoll_ctl` may fail for an accepted connection,
which nobody notices; `unwatched` (history) are the descriptors concerned. With
`Dispatch` false it is the server as committed, whose call of `HandlerEvent` is
commented out. All three begin with `socket`, `bind` and `listen` (`TcpKernel`), and
their `select`, `poll` and `epoll_wait` may fail. **`EventServers`** puts them in
front of the same clients: `server` says which one a behaviour is about. Its instances
have parameters: `Poll(slots)` is the poll server with so many places in its table,
`Epoll(room, handled)` the epoll server with an array for so many events and with or
without its handler. The server called "narrow" has its handler and an array of `FewEvents`.

**`CommandServer`** (`Socket/5.command_server`). A line and an answer are each a
number of pieces, and a `recv` or `read` returns any positive number of the
pieces that have arrived, since TCP has no boundaries; this decides whether
client and server stay in step. `Accept` starts a thread or fails to, `Popen`
consumes a descriptor that nothing closes, `Finish` closes the connection.
`KillClient` and `alive` are a client that dies and a server ended by SIGPIPE.

**`NamedPipe`** is the class of `3.fifo/namedPipe.hpp` with the kernel behind it: the
name (`path`), the bytes of the fifo it names (`data`) and who has it open (`fd`).
**`Fifo`** is `server.cc` and `client.cc` on it, any number of each. A server that
finds the name taken fails; one that quits takes the name away, also from another
one. **`SharedMemory`** is `4.shm`: `AttachShm` is `shmget` with the flags of
`Shm.hpp` and `shmat`, `Store` and `Tell` are a letter and its announcement,
`Wakeup` the server's read. Processes are killed at any time. `UserExclusive` says
whether the user passes `IPC_EXCL`, as committed. **`ChildPipe`** is `1.testPipe`.

**`Tickets`** splits `tickets--` into a read and a write; `main` starts and joins
the threads, also those whose creation failed. **`CondLesson`** keeps who waits in
`pc` and has the address of main's loop variable as the argument of a thread.
**`TeachPool`** (`Teach_ThreadPool.hpp`, `Task.hpp`, `Main_Teach.cpp`) and
**`StopPool`** (`My_Thread_Pool_Test.hpp`) have an action per critical section;
`StopPool` comes as committed, where it indexes an empty vector, and with `Sized`.
**`ThreadLesson`** is the four programs of `8.Multithreading`.

**`UdpLesson`** has both servers (`service` says which) and their client over a set
of datagrams that `Lose` and `Duplicate` act on. `OpenDict` opens the dictionary file or
exits, `LoadDict` is one round of the loop over its lines, and only then comes `InitServer`.
The client's `recvfrom` may fail, which ends its loop (`ReceiveFails`). **`ChatClient`** is the chat client with
its two threads, **`NonBlock`** the polling loop with each outcome of its `read`.
**`Log`** splits the fields that `localtime` writes from those the caller reads.
**`Signals`** is `6.zc/testcore.cc` with masks, dispositions and one pending signal,
**`Daemon`** `Daemon.hpp` with its process group, session and descriptors; `fork`,
`chdir` and `open` may fail.

**`Lessons`** puts these programs beside each other, as `EventServers` does with its
servers: `lesson` says which program a behaviour is about, and the programs share
eight variables that every INSTANCE names for itself. `Shm(servers, exclusive)` is the
instance of `SharedMemory` for the user with or without `IPC_EXCL`. They are small and share
nothing, so one run with one property per question asks it of all of them.

MC modules give constants their values and, for `BlockQueue`, a bound and a
symmetry set. They replace no definition.

## 4. What the checks show

| Run | Instance | What it shows |
|---|---|---|
| `pool` | 2 callers, 3 workers, 2 tasks | One pool; the sleeper count is exact; no lost wakeup; a popped task is executed exactly once; **AcceptedRuns**: a task pushed is executed, even when `Stop` comes first, provided some worker was created; a `Stop` that no `Start` can undo any more ends every worker |
| `pool_early_use` | the same | *Violation.* A second caller uses the pool between `_tp = new` and `Start`; `Equeue` finds `_isrunning` false and discards the task |
| `chat` | 2 users, 4 messages of which one is empty, 2 workers; 150 036 states | The list is what the messages received say; a message goes once, and not twice, to each of those who are online when its turn comes, whatever joined or left since it was handed over; it is overtaken by at most as many as the other workers hold; a message that arrives and is not empty is forwarded (so the pool drops none: its only caller is the one that started it) |
| `ring` | 2 producers, 2 consumers, 2 values, 2 places | Places conserved, no slot read and written at once, refinement of `BoundedBuffer`, every filled slot is drained, while some producer is inside `Push`, some `Push` gets through |
| `block_single` | 1 and 1 thread, capacity 16, no spurious wakeup | In the situation of `main.cc` the missing loops and the watermark do no harm: no underflow, no overflow, no unjustified sleep, everyone proceeds. `main.cc:31` takes the default capacity, 5; the theorems about this situation hold of every capacity from 4 on |
| `block_many` | 2 producers, 3 consumers, capacity 5, spurious wakeups | No consumer's wakeup is lost |
| `block_two_producers` | 2 producers, 1 consumer, capacity 5 | *Violation.* Even without spurious wakeups, two producers exceed `maxcap_` |
| `process` | 3 channels, 4 commands of 2 kinds, failing `pipe` and `fork` | Commands in order and once, spread evenly, quitting only when done, write ends given up, no child left, clean-up ends when there is a command for each channel |
| `process_failed_fork` | 3 channels, 1 command | *Violation.* After a failed `fork` the clean-up waits for a child that waits for the parent |
| `event_servers` | 2 clients, descriptors 2 to 4, tables of 5, 3 and 2 slots, arrays of 2 events and of 1, at most 2 requests and 1 unread answer per connection; 54 676 states | Table exact; `accept` and `recv` never block; as long as no `send` blocks for ever, nobody is starved: for the select server, the poll server, the poll server with a full table and the epoll server with its handler, also when its array is too small for what is ready. As committed the epoll server handles nothing, and the promise to handle is not asked of it |
| `command` | 2 clients with 2 lines and 1, at most 2 pieces, 4 descriptors | Descriptors accounted for, sessions in step unless TCP cut something, the server is killed only after a cut, a line that is not empty is answered or its connection ends |
| `lessons` | see below; 242 730 states | The small programs, property by property (see below) |

The run `lessons`:

| Property | Asks |
|---|---|
| `MessagesKept` | Fifo: what is written is lost only to a reader that was killed or had seen the end, and only another server cuts one off. Anonymous pipe: an end of file means that there never was a child. Shared memory: as committed, nobody ever shares the segment; with the flag it should have, a server finds every letter it is told of. Chat client: the socket outlives its threads. Polling: everything typed is echoed |
| `WorkDone` | Tickets: never undersold, sold out when main returns. Pools: a task runs once with the right outcome, none waits while all sleep; the stopped pool is drained. Threads: main leaves last, a thread-local counter is its thread's own |
| `EntriesKept` | Log: nothing missing or out of order, a wrong time only after two calls in `localtime` at once |
| `OutOfReach` | A blocked signal does not interrupt; a daemon has no terminal, unless `fork` failed in the leader of a group, `/dev/null` could not be opened or the caller had closed its standard input |
| `AnswersInStep` | UDP: answers are right, and out of step only after a duplicate |
| `NobodyStuck` | Whoever waits goes on or is excused: by a lost datagram, a killed partner, a mask that was blocked at entry |

Excuses are part of the properties because the code gives no more: a UDP client whose
datagram is lost waits for ever, and this is what `Excused` says.

Why the bounds are enough. In the pool, two callers make the race of
`GetInstance`, and three workers allow one to sleep, one to be on its way and one
to work, which is the smallest situation where a signal can be taken by the wrong
one; the theorems remove the bound. A ring of two places with two threads on each
side has every combination of full, empty and wrapped around. For the blocking
queue, capacity 5 has a high watermark (3) apart from both ends; `SizeBound` cuts
the search three elements above it, needed only because several producers
overshoot without end. Three channels are the fewest where a child inherits two
write ends and a failed `fork` has a channel on both sides. Two clients with
tables of 3 and 2 slots give a table that is never full and one that is; the
descriptor limit leaves room for no more than these connections, so that numbers are reused.
`Room` 1 is the least where a `send` gets through and the next one waits; an array of
`FewEvents` 1 is smaller than the number of descriptors ready at a time, one of
`EpollEvents` 2 only sometimes.
In the command server, two pieces are enough to cut and to join; the descriptor
limit makes `accept` and `popen` fail.
In the lessons, two servers and two clients of the fifo make one server take the
name from another and one client outlive another (`Servers`, `Clients`); a fifo of
`Capacity` 2 with `MaxMessages` 2 is full and empty; two `Letters` are one to miss
behind another; three `Threads` sell a `Stock` of 2 so that there is one more than
tickets; `MaxPush` 3 tasks are more than workers that sleep; `MaxCalls` 3 and
`MaxTime` 1 let two log calls of one thread enclose one of another across a change of
the clock; `Rounds` 5 is the number in `testcore.cc`; `MaxLines` 2 and `MaxCopies` 1
are the least where an answer to one line can be taken for that of the next.

`CHECK_DEADLOCK FALSE` is in the configurations of systems that really stop: a
pool that has been stopped or has nothing left to do, a chat whose messages are
all delivered, the process pool after `main` has returned (and in the deadlock
that `process_failed_fork` exhibits), consumers that wait for good after a
producer's overshoot, a server killed by a signal, small programs that end. The ring, and the blocking
queue with one producer and one consumer, are checked for deadlock.

### Fairness

- Threads and processes: weak fairness of each one's step. The scheduler of a
  general-purpose kernel runs every thread that stays runnable. A caller is not
  obliged to call anything, a producer not to produce; consumers of the ring
  loop for ever in `main.cc` and are.
- Chat server: strong fairness of the main thread. A worker that wakes spuriously
  takes and releases the pool's mutex again and again, so the main thread's lock
  is enabled infinitely often and not continuously. POSIX mutexes do not promise
  this, glibc and the kernel in practice do; the assumption is only
  needed because spurious wakeups are unlimited.
- Event servers: weak fairness of the one thread, whose step is disabled while it waits in
  `send`. No fairness is given to clients, and none of them has to read. That no `send` blocks
  for ever (`[]<>~Blocked`) is the premise of `EventsHandled` and not assumed
  anywhere else: it is a promise only the clients can keep, and a client that sends
  and never reads breaks it (section 6). That `epoll_wait` goes round
  when more is ready than it can report is documented of Linux (epoll_wait(2)).
- Command server: weak fairness of each thread, and of a client's read, which is
  a blocking call. Commands started by `popen` are assumed to end.

- Lessons: weak fairness of each process or thread of the program. Strong fairness
  only in `mycond.cc` (`MutexStep`), whose threads take and release one mutex for ever; as for
  the chat server. The clients of the fifo and the sender of the chat client wait for
  somebody to type and are not fair. The log and the daemon are checked for safety only.

No fairness is given to failures, losses, spurious wakeups or deaths.

## 5. What the proofs show

`ThreadPoolProofs` proves, for any finite set of workers and any callers and
tasks (`PoolAssumption`):
`TypeCorrect`, `OnePool` (`SingleInstance`), `SleepCounted` (`SleepCountExact`),
`WakeupsSuffice` (`NoLostWakeup`), `HandOffInOrder`, `QueueExclusion` and
`EveryTaskOnce` (`ExactlyOnce`).

The argument is one inductive invariant, `Inductive`. None of the properties is
inductive alone. Beside the types it says which program points own which mutex
(`Owners`), which callers and workers hold a task, that no pool exists while none
has been built, and that a worker not yet started has its thread among
`unstarted`. With the owners, the sleep counter
is changed only by the thread that owns the mutex, and a counting lemma
(`SleeperCounted`, `WorkerMoves`) says how the number of workers at a program
point changes when one of them moves. The heart is `NoLostWakeup`: while a worker
sleeps, the workers on their way to the queue are at least as many as its tasks.
`Equeue` preserves it because an exact counter makes it signal whenever somebody
sleeps; a worker that goes to sleep found the queue empty. There is one step per
action, and under it one per conjunct the action can disturb.

`BlockQueueProofs` proves `ConsumersWoken` (`NoLostWakeup`) for any finite number of
producers and consumers with spurious wakeups, and, under `MainProgram` (one
producer, one consumer, no spurious wakeup, `Capacity >= 4`), `SinglePopsElements`
(`NeverPopEmpty`), `SingleStaysBounded` (`Bounded`) and `SingleSleepsJustified`
(`SleepJustified`). The inductive invariant of the second part, `Justified`, ties
each program point to the size it implies: a producer that sleeps does so at a
full queue, one that was woken finds room, and the same for the consumer. The
capacity has to be at least 4 because `pop` signals only above two thirds of it:
for capacities of 1 to 3 no `pop` ever signals and a producer that waits
waits for ever.

`EveryTaskOnce` stands on top of it: a pop adds one to the pops and to the holders of
its task, a run takes the holder away and adds one execution (`TakeCounts`, `RunCounts`).

`ChatServerProofs` proves, for any users, messages and workers, `ListedOnce`
(`NoDuplicateUser`) and `ListIsHistory` (`OnlineMatchesHistory`). Between
`CheckOnlineUser` and `Offline` the list is not what the history says; `InForward` says that meanwhile everybody but the
sender of the current message, which is the last one received, has the right place.
`OvertakingBounded` (`BoundedOvertaking`) needs to know where every message received is:
still with the main thread, in the queue, with one worker, or forwarded, and that the queue is in
the order of arrival behind everything that left it. So whatever was received before
a forwarded message and is not forwarded itself is in the hands of a worker, and the one
that forwards is not among them.
`ReceiversOnline` (`ForwardedToThoseOnline`) is about the other end of a message's way: a
worker reads the list long after the main thread handed the message over, and the property
says what it finds there. At that moment the list is what the messages received so
far make it, up to the sender the main thread is just dealing with (`SentNow`, from
`InForward`); later datagrams change nothing about what was sent before (`PastStays`, `PastSent`).
`UsesPool` proves that every behaviour of the server is one of `ThreadPool` with
one caller, so that the theorems about the pool hold of the pool in the server;
`ChatPoolAssumption` says that its constants are among those the pool is made for.

`RingQueueProofs` proves, for any capacity and any finite sets of threads,
`PlacesNeverLost` (`PlacesConserved`), `SlotsExclusive` (`NoSlotRace`) and
`ImplementsFifo`: the ring implements `BoundedBuffer`. Its invariant adds who owns
which mutex (`Owners`), that a producer about to post has its value in the slot that
`p_step` has just left (`Before`, `Carried`), and that the indices are apart by the number of filled
slots (`Apart`, `Filled`). `Room` bounds `Filled` by counting the threads between
their two semaphore operations; a race would need an empty or a full ring, where one
of the two sides cannot be inside. For the refinement, `Window` is the sequence of
filled slots, and lemmas say what it becomes when a slot is written behind it or left
at its front.

`ProcessPoolProofs` proves, for any number of channels and commands, with `pipe` and
`fork` failing at will: `NoCommandLost` (`CommandsInOrder`), `RoundRobin`
(`EvenlySpread`), `QuitsWhenDone` (`QuitOnlyWhenDone`), `NoInheritedWriteEnd`
(`WriteEndsPrivate`) and `AllReaped` (`NoChildLeft`). The invariant says that
channels are created in order and that the parent keeps the write ends it has until the clean-up
(`Phases`, `Ends`), which is why a child whose pipe has no writer left has been sent
everything it ever will; that the parent has reaped all children it has passed
(`Passed`); and that the channels before the next one are one command ahead (`Turns`).

`EventServersProofs` proves `TablesExact` (`TableExact`) and `NobodyBlocks`
(`NeverBlocks`, which is about `accept` and `recv`) of all servers of `EventServers`, and `SelectServerExact` and
`PollServerExact` and `EpollServerExact` of each server by itself, for any clients and
descriptors. The poll server's table and the epoll server's array of events may have any
positive size; the select server's table needs room for every descriptor
(`SelectAssumption`: `fd_set` has bits for no others). Of the epoll server they say that
its set of interest equals the open descriptors without the ones `epoll_ctl` has failed to add. The kernel's part
of the invariant, `KernelInv`, is the same for all of them: one listening socket, the
first descriptor (`OneListening`), and one connection per client (`OneConnection`). It is
proved once, one lemma per system call. A server adds that its table is exact between
two slots of a walk (`SelectTable`, `PollTable`, `EpollSet`) and that what is marked
and not yet visited is still readable (`SelectMarks`, `PollMarks`, `EpollMarks`). The
marks need `OthersStayReadable` of each system call: what is done to one descriptor does not
take from another what it has to read. New descriptors appear only in the first step of
a walk of select and poll, when the marked ones are all open and so not reused.

`CommandServerProofs` proves, for any clients, lines, pieces and descriptors,
`DescriptorsAlwaysAccounted` (`DescriptorsAccounted`), `AlwaysInStep` (`InStep`) and
`AlwaysKilledOnlyAfterCut` (`KilledOnlyAfterCut`). The descriptors are counted by
`Held`, a finite set that grows by `Accept` and shrinks by `Finish`; a client waits
once to be accepted (`WaitingOnce`). The other two rest on `Phase`: while no read has cut
anything, a client and its thread are between lines, or have a line under way, or one in
execution, or an answer under way, or the client has left and at most one line of it is
left to execute. A read is whole exactly when it takes all pieces (`WholeIsAll`), and that is what
moves a client from one phase to the next.

`LessonsProofs` proves all safety properties of `Lessons`. Each program has an
invariant that its own steps keep; a run of `Lessons` keeps that of the program it is about.

- `WorkAlwaysDone` (`WorkDone`) of the tickets, the pools and the thread lessons. Tickets: a thread writes back what covers the sales at
  the time of its read (`RegsCovered`), and since then there were only more of them;
  `SalesCoverTickets` and `EverythingSold` say so of `Tickets` by itself. Teaching pool:
  a task is in the queue once or with one worker, and not run yet (`HeldOnce`); what
  has run has the outcome of `Task.hpp` (`OutcomesRight`); the workers that are on their way to the
  queue are as many as its tasks, if any worker sleeps. Stopped pool: a task that was added
  is in the queue, with a worker or done (`NoneForgotten`), and a worker that has quit
  saw the queue empty after the stop (`Stopping`).
- `MessagesAlwaysKept` (`MessagesKept`). Fifo: a fifo that holds messages or has a client writing,
  none of them late, is read by a server (`Attended`), and such messages were heard or
  wait in a fifo (`Kept`), unless a server was killed. Shared memory: a letter a server was told of was stored by the
  client that last cleared the memory, or the property excuses it (`ToldStored`, `ReadStored`,
  `OwnerStored`); as committed a segment is only mapped by the one that made it (`MappedByMaker`).
  `SegmentNeverShared` and `LettersFound` say this of `SharedMemory` by itself.
- `AlwaysOutOfReach` (`OutOfReach`): the mask and the disposition at each line of
  `testcore.cc`; the descriptors of the daemon as `close`, `open` and `dup2` leave
  them, by the lowest free one (`LowestFree`).
- `EntriesAlwaysKept` (`EntriesKept`). The entries of calls that are over are each in
  one place of one sink (`EachInItsPlace`), a thread's in ascending order (`Ascending`).
  One thread at a time is inside `localtime` (`OneConverts`), and one that was not disturbed
  has read its own fields (`OwnFields`).
- `AnswersAlwaysInStep` (`AnswersInStep`). The dictionary holds what the lines read so far say, the first of
  them for each word (`Loaded`); a datagram is right for the line it is about
  (`Truthful`), also after losses and reordering; without a duplicate at most one is
  under way for a client (`OneUnderWay`).

What the proofs assume are the assumptions on constants that the modules name
(`PoolAssumption`, `SelectAssumption`, `UdpAssumption` and so on), which TLC evaluates in every run.

Two proofs changed what they are about. `RightOutcome` of the teaching pool used to ask
for an error code whenever the second operand is zero; `Task.hpp:23-48` gives one only for
`/` and `%`, and `MCTasks` now has an addition of zero. The dictionary used to be loaded by a fold
in one step; it is read line by line, as `Dict.hpp:28-45` does, with an invariant for each line.

Only model-checked: every liveness property (`AcceptedRuns`, `StopTerminates`,
`EveryMessageForwarded`, `EverySlotDrained`, `PushProgress`, `EveryoneProceeds`,
`ShutsDown`, `EventsHandled`, `LineAnswered`, `NobodyStuck`), because fairness and ENABLED are
out of this prover's reach, and the violations of section 6, which are counterexamples.
No module declares a RECURSIVE operator.

## 6. What was found

Three disagreements of the code with its own comments, each with a run that
shows it (section 4): the pool published before it runs
(`ThreadPool.hpp:136`), `push` that does not test again (`BlockQueue.hpp:36`),
and the clean-up that hangs after a failed `fork` (`ProcessPool.cc:88`).

Met on the way, without a run of their own:

- `Route.hpp:79` says that by then the user is certainly on the list; after "QUIT", which
  line 76 has just handled, it is not, and the leaver does not get its own
  farewell.
- `EpollServer.hpp:71` does not look whether `epoll_ctl` has failed, and writes that it succeeded;
  such a connection is accepted, open, and neither watched nor ever closed. `TableExact`
  says which they are (`unwatched`).
- `SelectServer.hpp:79`, `PollServer.hpp:86`, `EpollServer.hpp:92`: `send` is called on a
  blocking socket by the only thread of the server. For a client that sends requests and
  never reads the answers, it ends up waiting there, and every other connection with it.
  `EventsHandled` therefore holds only under the premise that no `send` blocks for ever.
- `ThreadPool`: `Stop` can be undone by a `Start` that is still under way, and
  nothing ever joins the workers.
- `BlockQueue`: capacities from 1 to 3 deadlock; with several producers one may starve.
- `Command.hpp:45`: no `pclose`, so every command costs a descriptor. An empty
  line is written as nothing and leaves client and server waiting for each other.
- A client that resets its connection ends the event servers by SIGPIPE, and the
  command server after a cut answer.
- `4.shm`: the client asks for the segment with `IPC_EXCL` (`Shm.hpp:110`), does not
  get it from a running server, and dies of the address `shmat` did not give it: -1 is not
  tested. `_who=gUser` assigns (`Shm.hpp:71`), and the segment has no permission bits.
- `3.fifo`: the client goes on with empty messages at the end of its input; a read
  that fills the buffer ends it one byte beyond (`namedPipe.hpp:63`; so does
  `Socket/5.command_server/TcpClientMain.cc:55`).
- `Thread/Main.cc`: joining a thread whose creation failed uses an identifier that was never
  written; so in the chat client (`UdpClientMain.cc:83`), which also waits for its
  receiver for ever after the sender has ended.
- `My_Thread_Pool_Test.hpp:61` writes elements of an empty vector.
  `11.sem_cp/Main.cpp:65` and `:72` pass the queue where a `ThreadData` is expected, and
  `:75-82` join out of bounds. `10.blockqueue/main.cc:33` passes `nullptr`.
- `Log.hpp:47`: the record of `localtime` is shared by all threads and read without a lock.
- `Daemon.hpp:18`: a failed `fork` goes unnoticed, and a null device that becomes descriptor 0 is
  not redirected.
- `testcore.cc`: SIGINT blocked at entry stays blocked after the mask is given back.
- `8.Multithreading/Teach_test.cc` never reaches its join; `IO/TestNonBlock/Main.cc:10` needs a
  permissive compiler and leaves `O_NONBLOCK` set for whoever shares the terminal.
- `Socket/2. dict_server/UdpServerMain.cc:18` uses a constructor that does not exist.
- `SelectServer`, `PollServer`: `accept` and `recv` never block only because the listening
  descriptor stands in slot 0 and so is visited before the slots `accept` reuses.
  `FD_SET` is safe only while the process limit is at most 1024 (`FdLimit <= gnum`).
- `IO/1.epollserver/Main.cc` is empty, `IO/Pollserver/Main.cc` a copy of `Log.hpp` and
  `Socket/5.command_server/TcpServerMain.cc` one of `Command.hpp`: the mains of
  these servers are missing, and the models start from their constructors.
- The TCP echo server logs an undeclared `c` (`TcpServer.hpp:74`), its client ends in an
  unfinished `read` (`TcpClientMain.cc:42`); the server creates its socket into a local
  variable and would bind -1.

## 7. What is not modelled

- The second epoll server: it does not compile (`InetAddr.hpp` is missing, `Epoller`
  uses an undeclared `_epfd`), its listener accepts and its server has no loop.
- The calculator server: a socket wrapper and two empty message types.
- The TCP echo server: neither program compiles, and what is there exits before its
  loop; its `Thread` and `ThreadPool` are those of the chat server.
- `5.sig` and `7.xh`: one handler, or SIGCHLD ignored, and then a loop that prints.
- Formatting, the wording of output, `InetAddr`, byte order, build files and binaries.
- Inside the modelled programs: the contents of lines and buffers, and so the two
  one-byte overruns of section 6; `FD_SET` beyond its bits, excluded by the assumption
  that the process limit is at most `gnum` (`FdLimit <= gnum`); code that is commented out.

Where a program does not compile, or its main hands over the wrong argument, but its
meaning is plain (the blocking queue, the ring's main, the dictionary server), the
model takes what was meant and section 3 or 6 says so. PROJECT.json lists every
component with its reason.

## 8. Running it

    tlc -workers 2 -config MCThreadPool.cfg MCThreadPool.tla
    tlapm ThreadPoolProofs.tla

PROJECT.json maps every definition to the lines it models, lists the runs with
the properties they check, the hazards with the properties that
cover them, and for every property a mutant of the model, a plausible bug,
under which TLC finds it violated.
