# nf_server in TLA+

nf_server is a small C++ network server: one thread waits in `epoll_wait`
(`SyncReactor`), hands ready connections to a pool of worker threads
(`EXTReactor`) through a blocking queue (`BlockEQueue`), and the workers read
lines, answer them and register the connection again. This directory holds TLA+
models of that code, the TLC runs that check them on small instances, and TLAPS
proofs of what matters most for every size.

All paths below are under `src/`.

## 1. Inventory

| Component | State it keeps | Operations | Hard behaviour | What makes it correct |
|---|---|---|---|---|
| `EQueue`, `ELQueue` (`NfUnit/eventqueue.*`) | `start`, `end`, the links inside the events, `used`, `cap` | push(s), pop(s), erase, clear, size, empty, full | links live in the events and go stale; `used` is corrected at the end of a loop and read without the lock | both chains of links spell one FIFO sequence; `used` is its length between operations |
| `BlockEQueue` (same files, `commonn/lock.h`) | the above, one mutex, **one** condition variable, `_waits` | push, pushs, pop, pops, erase, clear, setMaxSize | producers and consumers sleep on the same condition; one waiter gets a signal, several a broadcast; `pop` tests `full()` before it takes the event | no lost wake-up, no mutual wait, bounded overshoot |
| `IReactor::extEvent`, event life cycle (`interface/icore.cpp`, `NfUnit/baseEvent.*`) | `_status`, `_events` (the result), `_type`, `_reused` of each event | EventCallback, post again, delete | an event has no lock; its status is overwritten by the thread that runs it | an event is held in one place at a time |
| `SyncReactor` (`NfUnit/syncReactor.*`) | `_epfd` and what is registered, `_epev` of the last wait, `_status`, `_run`, `_queue` | run, create, callback, epollDispatch, post, cancel, stop, stopUntilEmpty, join, destroy | hand-over dispatcher - queue - worker - epoll; raw pointers in `_epev`; start-up order; shut-down | every connection is served, closed for a reason, and its event freed once |
| `EXTReactor`, `ThreadManager` (`NfUnit/extreactor.*`, `commonn/ThreadManager.cpp`) | `_run`, `_emptystop`, `_queue`, the threads | run, post, cancel, stop, stopUntilEmpty, join, destructor | unlocked flags, workers asleep in `pop` when the pool stops, workers that post into the queue they serve | no event lost or run twice, shut-down ends, nothing leaks |
| `LineEvent` (`NfUnit/lineEvent.*`), `net` helpers | two `Buffer`s, `_sockType`, `_read_buff_flag` | accept, read and write callbacks | partial reads and writes, full send buffer, end of stream | what an event is registered for agrees with what it has to do |
| `Buffer` (`Buffer.*`) | `cache`, `allo_len`, `str_idx`, `end_idx` | init, add_data, add_handl_num, check_empty_space, fresh_cache, clear | indices of handled and unhandled bytes | no byte lost or repeated |
| `Log` (`commonn/asynLog.*`) | `log_buffer`, `STATUS`, `log_mutex`, `log_cond` | init, write_log, produce_log, stop | writer starts before STATUS is set; signal only for the first line; stop | lines written once, in order; nobody blocked |
| `Allocate` (`commonn/memCache.*`) | a free list and a mutex per size class | init, allocate, refill, deallocate | links inside free blocks, threads that read the same head, an `init` that comes late, copied buffers | no block in two places or smaller than its holder believes |
| `net` calls with a timeout (`net.*`) | settings of a socket (`O_NONBLOCK`, timeouts), what is left of the time | net_connect_to_ms, readn_to_ms, sendn_to_ms | signals, partial data, system calls that fail half-way, two directions that share a flag | true results, on time, settings put back |
| Legacy reactor (`reactor.*`) and `CThreadPool` (`commonn/ThreadPool.*`) | two event slots per descriptor, flags of an event, `event_count`, a task list per worker | add_event, del_event, pause_event, resume_event, the dispatch loop, AddTask and the workers | flags tested under a mutex and cleared without it; epoll_ctl from flags read without it | one task per event; kernel, flags and count agree |
| `queue_t` (`commonn/queue.*`) | ring, head, tail | push, pop, full | boundary of the ring | FIFO of `qcap` elements |
| `Timer` (`commonn/timer.*`) | timers by time | add, del, run | expiry order, 32-bit milliseconds | due callbacks run once |
| `IRef`, `SmartPtr` (`interface/iref.h`) | counts | copy, assign, release | the last release deletes | freed exactly once |
| `Singleton` (`commonn/singleton.h`) | instance, flag | Instance, destroy | double-checked initialisation | one instance |
| `NfSvr` (`nf_server.*`) | reactors, listening event | init, run, stop, join | order of post and run | the listener is served |

`reactor.cpp` is an earlier design that is no longer built: it includes headers that
are not in the repository. It is modelled as far as its own code says what
happens. What is not modelled is listed in section 6.

**How they interact.** `NfSvr::run` posts the listening event to the
`SyncReactor`, whose `run()` starts the `EXTReactor`, creates the epoll set,
registers what was posted so far, and loops in `epollDispatch`. A ready
connection is removed from the epoll set and pushed to the queue; a worker pops
it and calls `extEvent`, which runs the callback of the `LineEvent` and then
deletes the event or posts it back to the `SyncReactor`, which registers it again.
There is no lock on an event: it is owned by whoever holds the pointer.

PROJECT.json lists the hazards line by line with the properties aimed at each.

## 2. Modules

### EQueue: the linked list
State: `start`, `end`, `next`, `pre`, `used` as in the class, a program counter
and the arguments of the call under way, and `elems`, the sequence the list
should spell (a history variable: no guard reads it). The actions follow `pushs`
and `pops` loop iteration by loop iteration (`PushsCall`, `PushsStep`,
`PushsReturn`, ...), because the counter is corrected only after the loop and
`size()`, `empty()` and `full()` are read by threads that hold no lock. `pop`,
`erase` and `clear` change the links in one step. The caller's rule of the
code holds in the model: an event is in at most one list.

### BlockEQueue and BoundedQueue: the blocking queue
`queue` is the sequence that EQueue shows the list to be. One action is one
critical section under `_mutex`, from the acquisition to the next wait or the
return: `PushCall`, `PushBlocked` (`while(_queue.full()) _cond.wait`),
`PushDone`, `PopCall`, `PopBlocked`, `PopDone`, and `SpuriousWake`.
`asleep` are threads in `pthread_cond_wait`, `woken` those that were signalled and
have not re-acquired the mutex; `waits` is `MCondition::_waits`, which counts
both. `AdminSpec` adds `erase`, `clear` and `setMaxSize`, which signal nobody; the
proofs are about it, no run is.
`BoundedQueue` is the promise of the interface: a push happens at an instant with
room, a pop at an instant with events, and some pending call that could happen
does. `BlockEQueue!ImplementsBoundedQueue` is that specification, with its
fairness, under the identity mapping (`asleep`, `woken`, `waits`, `cap` are hidden).

### NetReactor and LineServer: the running server
`NetReactor` is the dispatcher thread (`Disp`) and the workers. `epoll`,
`interest`, `batch`, `fired` are the epoll set, what each event is registered
for, and the array filled by `epoll_wait`; `extq` is the queue as BoundedQueue
promises it; `pc` and `cur` say where each thread is in `extEvent` and which
event it holds. A step ends wherever another thread could see the difference:
taking an event out of epoll, pushing, popping, `setStatus(RUNNING)`, the read,
the write, the delete, `setStatus(READY)`, and `epoll_ctl(ADD)`, after which the
dispatcher may have the event before `post` returns. Without `extReactor` there is
no `_extReactor`, and the dispatcher runs `extEvent` itself.
Lines are counted, not spelled. The application is one that answers each line
with a line, as `testUnit/testSvrSync` does. For the connections in `Losable`,
`epoll_ctl(ADD)` may fail, or the `fcntl` that makes the accepted descriptor
non-blocking (`lineEvent.cpp:127`): the code logs it and goes on, and `lost` has the
events that are then held by nobody. `epoll_wait` may fail too (`EpollWaitFails`): the
dispatcher has then `"returned"`, and only the workers go on.

`LineServer` is what clients see: connections, lines waiting in either
direction, and closing, with `doomed` for a connection whose end is decided but not
yet visible, and `lost` for one that stays open and is never looked at again
(`Lose`); its client changes nothing more (`Watched`). It serves until it is `over` (`End`), which
it may be at any time. The refinement maps `open` to the events that exist, `doomed` to
cancelled events held by a thread that will delete them, and `over` to a dispatcher that has returned.

### ReactorLifecycle: starting and stopping a server
`main` is how far the thread of `NfSvr::run` has come: bind, listen, the post of the
listening event, and then `SyncReactor::run`, which starts the workers, sets
`_status`, creates the epoll descriptor (`epfd`) and posts what `_queue` holds; in
`"loop"` NetReactor takes over, until `epoll_wait` fails (`LoopReturns`). `epoll` is what has ever been
registered, `refused` what `epoll_ctl` did not register (`Route`: `post` ignores that). `pc[e]` is
the post of event `e` by a thread of its own, in two steps, since `post` reads
`_status` without a lock and acts on it later; `stopper` is the thread that calls
`stop` and `join`. The history variable `straddled` has the events some moment of whose post lay
between `_status = RUNNING` and the end of the loop over `_queue`.

### EXTReactor: the worker pool
It composes the pool with `BlockEQueue` (`Q == INSTANCE BlockEQueue WITH
Pushers <- ..., MaxPush <- 1, ...`): the pool's actions call `Q!PushCall`,
`Q!PopDone` and so on. `run` and `emptystop` are the unlocked flags, `pc[w]` the
position of a worker in `callback`: `while`, `if`, `size`, `pop`, `callback`,
`end`, `repost`, and `quit` or `drained` at the end; `drains` says which of the two
loops it is in. The main thread runs, stops (`Stop`, or `StopUntilEmpty` and
`SetEmptyStop`, two writes), joins and destroys. Events here are CPU events that
`extEvent` posts back to the same pool if they are in `Reusable`, or were left
RUNNING; those in `Cancelable` may be cancelled at any time. Threads outside the pool, the main
thread among them, post before `run` and while the pool runs and stops; `late`
remembers that one did so after `_emptystop` was set.

### AsynLog: the asynchronous log
`STATUS` and `log_buffer` as in the class, `locked` for a `log_mutex` that is never
given back, `main` for how far `init` (or `stop`) has come, `writer` and `content`
for the writer thread and the line it has taken, `saying[t]` for a thread inside
`produce_log`; `logged` and `written` are histories, the second one being the file. A
step is one critical section of `log_mutex` or one unlocked access to `STATUS`.

### Buffer and LineEcho: the bytes of a connection
`Buffer` is the class as operators on a record: `cache` (the block), `str`, `end`.
`LineEcho` is one connection: the two buffers of a `LineEvent`, what it is registered
for, and the bytes in the socket. `Read` and `Write` are the whole callbacks, with the
application of `testUnit/testLineEvent`, which answers each line with itself;
only the socket is shared with the client while they run. A byte is its number in the
client's stream, so that an exact echo is 1, 2, 3, ... The history variable
`slipped` records that one of the three things has happened on which the code is
wrong (section 4); `server = "crashed"` is a callback that copies from a block
already given back. `outside` records which accesses have gone outside the block they
were meant for: of readn and `add_data` (`store`), of the scan for newlines, of the
application (`line`), of the `'\0'` of `check_empty_space` (`zero`), of `sendn` (`send`).
A byte read outside is one the client never sent (`Junk`); a block that is scanned after it was
given back is taken to keep its bytes.

### TimedIO: calls with a time limit
One socket, threads that read and threads that write. `nonblock`, `timeo` are its settings,
`link` and `avail` what the network does; `msecs`, `sockflag`, `done` are the local
variables of the calls, `used` the difference of the two `gettimeofday`, `left`
the time until the kernel gives up the system call. Each system call is a step:
`GetSettings`, `ClearNonblock`, `SetTimeout`, `Wakeup` (recv or send returns),
`Again`, `Restore` for the data, `Connect`, `Select`, `ConnectDone` for connecting.
`Signal` interrupts a waiting call, `SettingFails` is a failing `fcntl` or
`setsockopt`. Time is relative: `Tick` lets a millisecond pass for every waiting
call at once, and only when nobody has anything else to do.

### MemCache: the memory of the buffers
`head` are the free lists, `link` the first word of every block (the next free
block, or user data), `mutex` the mutex per list, `size` what a block really has;
`cache` and `allo` are the members of the buffers. A thread runs one operation of
`Buffer` at a time (`BufferInit`, `FreshCache`, `Clear`, `Assign`), which allocates
(`ReadHead`, `Take` or `Refill`, `Malloc`) and gives back (`LinkOld`, `Give`).
`InitList` is one iteration of `Allocate::init`, at any time. `dropped` has the blocks
that were on a list when `init` emptied it, `copied` says that a buffer was copied.

### LegacyReactor: the reactor of reactor.cpp
`slot`, `flags`, `epoll`, `count`, `tasks` are the two event slots of a descriptor, the
flags of an event, what the kernel waits for, `event_count` and the workers' task
lists. `at`, `ev`, `call`, `op`, `seen` are the local state of a thread inside `add_event`
(`AddEvent`, `Insert`, `IncrementLoads` and `IncrementStores`, `Prepare`, `Ctl`, `Release` or `Undo`),
`del_event` (`DelEvent`, ..., `Free`, `Count`), `pause_event` and `resume_event` (`PauseOrResume`). The dispatcher waits, `Capture`s
the events of an entry for its thread, and hands them over
(`AddTask`, `PushTask`); a worker executes a task (`Execute`, `TaskEnds`). Three kinds of thread interleave: the
one that adds connections, the dispatcher, the workers. History variables note
the steps after which the design no longer holds: `overlapped` (two `epoll_ctl` of one
descriptor prepared at once), `undone` (a failed add), `replaced` (an event added over
another), `miscounted` (an update of `event_count` that another one overwrote), `crashed` (a use of a freed event, a
failed assertion). `event_count++` and `event_count--` are a load and a store each. The first holds
`event_mutex` in between, so that every other section of that mutex waits (`MutexFree`); the second takes no
mutex. An `add_event` that is refused because the descriptor is active changes nothing, and its caller may try again.

### MC modules
Each `MC` module defines small sets of model values, and symmetry sets where the
run checks invariants only; it adds nothing else.

## 3. Runs

| Run | Instance | Shows |
|---|---|---|
| `BlockEQueue_live` | 3 pushers, one of them also a popper, 1 popper; 4 events in batches of up to 2; cap 2; fairness | exact count of waiters; no consumer asleep on a non-empty queue, no producer asleep far below cap, bounded overshoot; implements BoundedQueue with its progress |
| `EQueue_list` | 4 events, batches of 3 | list = sequence, counter off by exactly the work done, FIFO results |
| `NetReactor_safety` | 2 connections, for one of which cancel, and a failing fcntl or epoll_ctl; epoll_wait may fail; without and with 2 workers, queue of 1 | one holder per event, `_epev` never stale, interest agrees with the backlog; every step is one of LineServer |
| `NetReactor_live` | 2 connections, fcntl or epoll_ctl may fail for one; epoll_wait may fail; without and with 1 worker, fairness | the refinement of LineServer with its progress |
| `ReactorLifecycle_run` | 3 events posted by 3 threads, one of type CPU; 2 workers; bind, listen, create, epoll_ctl and epoll_wait may fail; stop and join at any time; fairness | which posts can be lost, and that the listening event is registered or refused |
| `EXTReactor_pool` | 2 workers; the main and another thread post; 4 events, 2 reusable, one may be cancelled; cap 2; fairness | no event held twice or lost; workers block each other only with cap + workers events; what stopUntilEmpty leaves behind; shut-down ends, or the workers starve; queued events are run |
| `AsynLog_log` | 2 threads, 2 different lines, up to 3 of them, fairness | nothing lost or out of order, no lost wake-up, when the mutex is lost; lines are written and calls return until `stop` |
| `LineEcho_echo` | blocks of 3, 7, ... bytes (scale 256 to 1), 7 bytes, any of them newlines, socket of 3 bytes | receiving, storing and sending stay inside the block always; every access does, and the echo is exact, complete, line by line, unless something slips |
| `LineEcho_exact` | the same | **expected violation**: see Findings |
| `TimedIO_calls` | a reader and a writer, limits of 0, 2 and without; 2 bytes wanted, 1 in the socket; a signal per call, or a failing system call; fairness | settings come back, results are true, nobody gives up early or takes longer than a start per signal; calls return |
| `MemCache_pool` | 2 threads, 2 buffers, lists of 1 and 2 units, blocks of up to 3, 6 blocks, one late init | every block in exactly one place and as large as its holder believes |
| `LegacyReactor_events` | 1 descriptor with a read and a write event and a second read event, the adding thread, the dispatcher, 2 workers; add may fail | what the active flag, the registration and the count still guarantee, and after which steps they do not |

**Bounds.** Three or four threads on the queue are what it takes for a
signal to go to the wrong kind of sleeper and for "one waiter" to differ
from "several" (a woken thread still counts); `cap` is larger than one `pop` and no larger than one batch pushed, so that overshoot,
full and empty all happen.
Two connections and two workers let an event be handled while another of
the same batch is deleted or accepted; a queue of one makes the dispatcher wait
in `post`. Two lines per client and a send buffer of one line make partial writes
and the full buffer happen. In LineEcho seven bytes are enough for a line that
outgrows the first block, for one that makes the block be given back, for
compaction, and for every way to cut lines into reads and writes. Four events against a queue of two and two workers
are exactly the number at which all workers can block in `push`. In TimedIO two
bytes through a socket of one need two waits, and a limit of 2 ms is enough for a part of
the data, a signal or a tick to come in between. In MemCache blocks of one and two units, refills of
two and sizes of up to three give a refill, a reuse, an exchange of lists and a
`malloc`; six blocks are two refills of one list and more. In LegacyReactor one descriptor holds all the
state that threads share but `event_count`; the second read event is the one that is added again
or replaces the first. `MaxBacklog`, `MaxInbox` and `SndBuf` bound the network, `MaxSignals` the signals,
`MaxBlocks` and `MaxInits` memory and the calls of `init`, `Events` of LegacyReactor the events ever made.

**Fairness.** In `BlockEQueue!FairSpec` a thread that can enter its critical
section eventually does, because every holder of the mutex releases it after
bounded work; poppers keep popping, as `EXTReactor::callback` loops. Nobody is
obliged to push. In `NetReactor!FairSpec` the dispatcher and each worker take
steps when they can, and nothing is assumed of `epoll_wait`: it may fail at any time, or never.
So LineServer promises progress only until it is over, and after that the closing of what is doomed, which
is in a worker's hand. Clients are never obliged to do anything. In
`ReactorLifecycle!FairSpec` the thread of `run` and those that post go on, which
nothing blocks; stopping, joining and the workers' leaving (they may sleep in `pop`) are open. In
`EXTReactor!FairSpec` workers run, a blocked post continues when it can, and a
main thread that has begun to stop the pool carries on; whether it stops at
all, and whether anybody posts, is open. In
`AsynLog!LogFairSpec` `init` returns, the writer runs, and a thread that logs gets the
mutex when it is free. In `LineEcho!EchoFairSpec` a connection that stays ready is served
and the client reads; it never has to send. In `TimedIO!FairSpec` a call that is not
waiting goes on, and time passes (strong fairness of `Tick`, since other calls
that are served at once interrupt it again and again); nobody has to call and nothing has to arrive.
MemCache and LegacyReactor are checked for safety only: nothing in them promises progress, since a
lock may be waited for and a task list may stay empty.

**Deadlock** is checked in the BlockEQueue, EQueue and TimedIO runs.
In the queue's run a spurious wake-up is always possible for a
sleeper, so that TLC's deadlock test says little there: the refinement of
BoundedQueue's progress, and the theorem `NeverMutualWait`, are what exclude it. The other runs
switch it off: a destroyed pool, a server whose `epoll_wait` has failed, one that did not start, a
stopped log and a closed connection have no more steps; that no connection is stuck before is part of
`ImplementsLineServer`; nobody need call the memory cache, and its blocks
are bounded; the legacy reactor runs out of events to add, and stops at a use of a freed one.

## 4. Findings

`LineEcho_exact`: an application that answers each line with itself does not always
get it right. The three ways it goes wrong, all covered by `slipped`:

1. Two lines in one read: `_read_buff_flag` counts from the start of the data,
   although the callback has handled the first line already (`lineEvent.cpp:64`).
   This is the one TLC finds first. If the block was given back in between, the
   callback copies from a null pointer. The application then also reads behind the block, when the line is
   the last in it.
2. One byte left unhandled, in either buffer: `add_handl_num` compares `str_idx` with
   the index of the last byte (`Buffer.cpp:97`) and forgets that byte.
3. Compaction: `check_empty_space` clears `str_idx` before it subtracts it from
   `end_idx` (`Buffer.cpp:75`), so that bytes are handled twice. The `'\0'` it stores at `end_idx + 1`
   is outside a block that is full (`Buffer.cpp:77`).

Without them the echo is exact and every access stays inside its block (`EchoExact`, `AccessesInBlock`). With
them only what is received, stored and sent still does.

Behaviour that the models contain and that a reader of the code should know:

- `BlockEQueue` relies on `cap` being larger than the largest `pops` batch
  (assumption `MaxPop < Capacity`). With `cap <= items` the pop that empties a
  full queue signals nobody, and a producer sleeps beside a consumer for ever. The
  default `cap` is 100000 and the reactor pops one event at a time.
- More events than `cap` posted before `run()` block the main thread: nobody pops.
- An event posted by another thread while `run` starts can be lost: stored after
  `_queue` was emptied, or added to descriptor -1. So can one posted after a `join`, or one that
  `epoll_ctl` refuses, be it the listening event; and a CPU event always is: `IEvent::CPU` is 0 (`PostsAreKept`).
- `SyncReactor::join` sets `_status` to STOP. If `callback` still empties `_queue` then, it stores
  every event again and never ends (`ListenerIsServed`). A `stop` or `join` before `run` is
  overwritten by `run`; one after it does not end `run`, whose loop never looks at `_run`.
- What does end the loop is an `epoll_wait` that fails, and a signal is enough (`EINTR`): `epollDispatch` returns
  -1, and `callback` and `run` return (`syncReactor.cpp:144-146,154,199`). `NfSvr::run` returns 0. The workers finish
  what they have; every connection they post is then registered where nobody waits. The legacy reactor
  goes on after `EINTR` (`reactor.cpp:469-476`).
- A failing `create` deletes the EXTReactor, whose destructor waits for workers that
  may sleep in `pop`, and keeps the pointer, so that the destructor deletes it again.
  `NfSvr::run` returns 0 in this case.
- After a failed `bind` or `listen` the number of the closed socket stays in
  `_listen_socket`, and a second `run` fails again.
- `stop` wakes nobody. Workers asleep in `pop` stay there, and `join` with them
  (`JoinReturnsOrStarves` says exactly when).
- `stopUntilEmpty` does not always stop with an empty queue: it clears `_run` before it sets
  `_emptystop`, and a worker that leaves `while(_run)` between the two writes sees
  `_emptystop` false and quits. If all do, `join` returns with events in the queue,
  which the destructor then deletes without running them. So it does with events posted
  after the last worker has looked (`StopsWhenEmpty`: there is no third way).
- All workers can block in `push` at once, with `cap + workers` events alive
  (`RepostsBlockOnlyWhenOverfull`).
- `Log::init` creates the writer before it sets `STATUS = LOG_RUN`. A writer that looks
  first ends; `init` returns 0 and nothing is ever written (`LinesAreWritten` is about
  a writer that came into its loop).
- After `Log::stop` the writer returns from `write_log` with `log_mutex` locked, and the
  next thread that logs waits for ever (`MutexLostOnlyByStop`). If it sleeps at that
  moment, nobody wakes it until another line is logged.
- A client that sends lines and shuts down loses the lines of the last read;
  a client whose send buffer is full when the server wants to write is closed.
  Both are in `LineServer` (`Doom`), as what the server really promises.
- When `epoll_ctl(ADD)` fails, `post` logs it and ignores it: the event and its open socket are
  held by nobody from then on (`Lose`). No other connection suffers. `accept_callback` does the same
  to an event whose descriptor it cannot make non-blocking (`lineEvent.cpp:127-131`).
- A read or write with a time limit: after `EINTR` it waits the full limit again, so a call may take
  one limit more per signal (`DeadlineBound`); bytes moved before the time is up or the stream
  ends are forgotten (-1 or 0 is returned); a failing `fcntl` or `setsockopt` in the middle leaves
  `O_NONBLOCK` or the timeout as the call had set it (`SettingsComeBack`).
- `O_NONBLOCK` is one flag for both directions. A reader and a writer that overlap can leave it cleared
  for good, or make each other give up at once.
- A `select` interrupted by a signal leaves the descriptor in its sets, and
  the connect is reported as done while it is still pending (`ResultsAreTrue`).
- An assigned `Buffer` copies `end_idx` bytes, one fewer than the original holds (the last index is
  `end_idx`), and passes -1 as the length when it is empty. It notes the `allo_len` of the original and
  not that of the block it got: later its block goes to the list of smaller blocks, or, when it came
  from `malloc`, stays pooled for good (`BlocksAreLargeEnough`). No block is ever too small.
- `Allocate::init` after the first `allocate` forgets the blocks on the lists; it never
  hands one out twice (`EveryBlockHasOnePlace`).
- The head of `reactor.cpp` says that an event which is being executed cannot be executed again
  (lines 11-16). In LegacyReactor it can: when the other event of the descriptor fails to be
  added, the failure clears the flags of both; and when an event is added over it (a
  read event that runs alone in its descriptor can be replaced, and deleted, by an add).
- Two workers that pause or resume the two events of a descriptor at once leave the kernel waiting
  for something else than the flags say: the mutex around it is commented out (`InterestAgrees`).
  If the kernel then no longer has the descriptor, no later call puts it back (`LostForEver`).
- `event_count` is decremented without the mutex. An increment, or another decrement, that meets one can be
  lost, or overwrite it: the count is then too low or too high for good. If it falls to 0 with events registered,
  the reactor sleeps instead of waiting for them (`CountMatches`).
- A successful `del_event`, or an event that is added over another, leaves the other event of the descriptor
  active: it is neither run nor deleted again (`ActiveIsHeld`). So a descriptor with an error loses one of its two idle events only, where
  lines 28-31 say that an inactive event is deleted. A second `del_event`
  after a failed one runs into the assertion in the event list.
- The dispatcher reads the slot before it takes the mutex and may use an event that a worker has
  deleted meanwhile, without any failure or replacement.

## 5. Proofs

Each inductive invariant is defined where its proof begins, and was checked with TLC on the run's
instance before it was proved. A module that extends a run's module and the module of the proofs can repeat that; from
`CommonProofs` and `ServerProofs`, which hold the proofs of two specifications each, the definitions have to be copied.

`BlockEQueueProofs` proves for any number of threads, events, and any `cap`
larger than `MaxPop` (assumption `BlockEQueueAssumption`): `TypeCorrect`,
`WaitsAreExact`, `NoLostWakeupForPoppers`, `PushersSleepNearFull`,
`BoundedOvershoot`, `NeverMutualWait`, and `Refinement` (every behaviour is one of
`BoundedQueue!Spec`, the safety part). `AdminKeepsWaitsExact` and `AdminLosesNoWakeup` are
two of these for `AdminSpec`, with `erase`, `clear` and `setMaxSize` at any time. The inductive
invariant is in two parts. `AdminInv` adds to the exact count and the
absence of sleepers in `pop` that only threads inside a call are on the condition variable and that
pending calls carry their arguments; the operations that signal nobody preserve it, since
they never put an event into the queue. `IInv` adds that `cap` does not change, and what is
true of producers only as long as room is made by pops. The argument:
a woken thread has not left `_waits`, so a push that counts one other thread
either signals the only sleeper or there is none; hence **a push leaves nobody
asleep** (`PushWakesAll`). A consumer goes to sleep only on an empty queue, and the
queue becomes non-empty only by a push. A producer goes to sleep only on a full
queue; the next pop takes at most `MaxPop` and may skip the signal only if the
queue was full before it; every later pop signals somebody, who either pushes
(and wakes everyone) or is still awake in push.

`EQueueProofs` proves `TypeCorrect`, `ListRepresentsQueue`, `CounterIsExact` and `Fifo` for
any set of events. Its `IInv` says that both chains spell `elems`, that `elems`
has no duplicates, and what the running call has done so far; lemmas give the chains
after linking at the end, unlinking the first and unlinking in the middle.

`NetReactorProofs` proves for any connections and workers (assumption `NetReactorAssumption`)
`TypeCorrect`, `Ownership`, `BatchArmed`, `InterestRight` and `Refinement`, the safety half of the
refinement of LineServer. `IInv` of NetReactor has four ideas. `OneHolder`: an event that exists is in the
epoll set, in the queue or in one thread's hand, never in two (`ExclusiveOwnership` without counting;
`Holders` is a singleton because of it). `ThreadsInPlace`: a thread has an event in hand
exactly between taking it and giving it on. `BatchIsTrue`: an event that `epoll_wait` has reported stays
in the epoll set, because only the dispatcher takes events out, and it takes out the one it is at;
what was reported stays true, because nobody else reads its socket. `ResultFollowsBacklog`: from
the callback to `epoll_ctl` the event's result agrees with what is left to send. The refinement maps each action to
a step of LineServer or to none; most of the work is that an event that will be deleted
(`doomed`) is always in somebody's hand.

`EXTReactorProofs` proves for any workers, producers and events (assumption
`EXTReactorAssumption`) `HeldOnce`, `BlockOnlyWhenOverfull`, `StopLeavesEmpty`, and that the pool is a
client of its queue as BlockEQueue expects one (`PoolIsQueueUser`: each action of the pool is an action of
`Q` or leaves its variables alone). By that theorem what `BlockEQueueProofs` proves holds
inside the pool: `PoolNeverMutualWait` is obtained so, and the exact count of waiters in `TypeCorrect`.
`BlockedOnlyWhenFull` is the point of `BlockOnlyWhenOverfull`: the pop that makes room without a signal is made by a
worker, which is then awake; with `OneHolder`, a full queue and a post in every worker are
`Capacity` + workers different events. `DrainedIsEmpty` is the point of `StopLeavesEmpty`.

`TimedIOProofs` proves `TypeCorrect`, `Restored`, `NotEarly`, `NotLate` and `TrueResults` for any limits,
sizes and socket buffer, for a thread at most in each direction (assumption `OneThreadEachWay`, which
is how the calls are used: a connection is read by one thread and written by one; two readers would
overwrite each other's timeouts). `TimeCounted` is the central part of `IInv`: the time that has passed
and the time still in `msecs` make up what was asked for, but for the part of the wait that is under way; an
interrupted call gets all its time again, and `Budget` grows by as much. `SettingsKnown` says whose
call has changed a setting and what it remembers of it.

`LegacyReactorProofs` proves `TypeCorrect`, `InterestHolds`, `CountHolds`, `ActiveHolds`,
`OneTaskHolds`, `FailedDelete` and `LostForEver` for any descriptors, workers and finite set of events (assumption `LegacyReactorAssumption`). `IInv` says which calls a thread can be in
(`Place`), that the slots hold exactly the events that were inserted and not deleted (`Tables`), that until
two threads overlap on a descriptor the one that is about to tell the kernel something is alone and what it is
going to say still fits the flags (`InterestAt`), and for each active event who will make it idle
again (`Keeps`).

`OneTaskHolds` has an invariant of its own on top (`OnceInv`). That a task implies the flag `active` is not
inductive: a `del_event` that fails takes the flag away from an event whose task is queued or
running. `KernelAt` says when that happens: only where the kernel has lost the descriptor although
an event believes to be registered (`Lost`), which overlapping calls bring about; that is
`FailedDelete`. Until then every event has one user, or waits once in one queue, and is active (`Sound`).
Afterwards no entry for the descriptor comes any more, because `epoll_active_event` says `MOD`
and never `ADD` (`LostForEver`); so at most one task follows, the one
for the entry the dispatcher already had (`Stale`), and what a failed delete leaves ends without a second (`Ending`).

`CommonProofs` is about the two components of `commonn/`, MemCache and AsynLog. They share nothing but
the module of their proofs, which is why the names of AsynLog's specification begin with `Log`.

For MemCache it proves `TypeCorrect`, `FreeListsEnd`, `OnePlaceForEveryBlock` and `LargeEnough`, for any threads,
buffers, blocks and free lists (assumption `MemCacheAssumption`: more than one block in a chunk, fewer lists than
units, finitely many threads, `NULL` is not one of them). `ListsEnd` is the part of `IInv` the rest stands on:
from each head the links lead through different blocks to an end. A list is such a chain, so the blocks found by
following the links (`ListFrom`, a recursive function) are those of the chain (`ChainIsListFrom`), and what taking one off,
putting one in front and chaining a fresh chunk do to them follows (`PopList`, `PushList`, `ChunkIsList`), as does that
writing a link elsewhere changes nothing (`KeepList`). `Place` says that a thread inside a list's critical section
holds its mutex and has read what is still the head, `OnePlace` and `SizesFit` are the two properties block by
block. `MemoryReserved` shows that the bound on memory is never in the way: whoever is about to refill finds a chunk.
A property of all numbers is proved by its least counterexample (`LeastNumber`, from the
library's theorems on well-founded relations).

For AsynLog it proves `NothingLostOrReordered`, `NoLostWakeup` and
`MutexIsGivenBack` for any threads and lines. `LogIInv` adds that `STATUS` follows the main
thread, that the writer is in its loop only after `LOG_RUN`, and one line per call. The
point of `NoLostWakeup`: the writer sleeps only on an empty buffer, so that the
line which makes it non-empty is alone in it and is signalled.

`ServerProofs` is about the two remaining modules, which share nothing but the name of the server. For
ReactorLifecycle it proves `TypeCorrect` and `OnlyStraddlingPostsAreLost` for any
events and workers, whatever `epoll_ctl` refuses (assumption `LifecycleAssumption`: the listening event is not
posted by others). `IInv` adds how `_status` follows `run` unless a join has the last word, that
the descriptor is open from the emptying of `_queue` on, and what a post under way that did
not meet the start-up will find: a queue yet to be emptied, or a descriptor.

For LineEcho it proves `EchoTypeCorrect`, `NothingOutsideTheBlock`, `EveryByteInItsPlace` and `EchoIsExact`
for any alignment, limits, `SndBuf` and number of bytes, so in particular for blocks of 256 bytes.
The four are inductive together (`EchoIInv`), and the proof has three layers.
`Sound(S)` is the set of buffers over the bytes in `S` with their indices in their block;
one lemma per operation of `Buffer` says that it leads from sound buffers to sound buffers and
what it does to the unhandled bytes: `Store`, `AddData` append to them, `FreshCache` keeps
them, `AddHandled` takes them from the front (`HandledAndLeft`) unless exactly one is left over,
`CheckEmptySpace` keeps the buffer sound though it keeps the bytes only when it does nothing.
`NothingOutsideTheBlock` follows from soundness before each access: storing and sending stay in the block of
any sound buffer, the others need that nothing has slipped.
`LoopInvariant` is the induction over the turns of the loop in `read_callback` (as a least counterexample:
`LeastNumber`), from which `OneLine` says what a read with one line does. `ChainMoves` puts
both together: received, `toClient`, the two buffers and `toServer` are one chain, and each callback moves bytes
along it. The type invariant is needed for the chain, the chain for `EchoExact`: that the
next byte sent is none of those unhandled follows from their places in the chain.

**Only model-checked.**
- Liveness and `ENABLED`, which the prover cannot do: `JoinReturnsOrStarves`, `EventsAreRun`,
  `ListenerIsServed`, `LinesAreWritten`, `LoggersReturn`, `LinesAreEchoed`, `CallsReturn`, and the liveness halves of
  `ImplementsBoundedQueue` and `ImplementsLineServer`.

Type correctness of BlockEQueue, EQueue and ReactorLifecycle is proved and not checked by a run.

## 6. What the models leave out

ReactorLifecycle has the loop as one state, between its beginning and its return, and does not destroy a
server after that: no caller in the repository deletes its reactor. Socket options, `pause`, `resume` and
`destroy` of `NfSvr` (empty) and a foreign file that gets the number of the closed listening socket are left out.

NetReactor counts whole lines, LineEcho has a single connection and no reset.
`epoll_wait` with more than `MaxEvents` ready events (the rest is reported by the next
wait), failing `pthread_create` and `malloc`, and the `*_ms` variants of `ELQueue`, which
return 0 and do nothing, are left out, and so is memory ordering of the plain `bool` flags beyond
sequential consistency. `epoll_ctl` fails in `ADD` only.

TimedIO: computing takes no time and the clock is monotone, in whole milliseconds. `isclose` of
connect has its default, 1. `getsockopt` with `F_GETFL` is one step, and so is `setsockopt`
with `gettimeofday` and the entry into the wait; `Restore` puts everything back or one part of it.
A call meets failing settings or signals, not both, and after a failed setting nobody calls
again before a new socket.

MemCache: `malloc` gives a block that nobody uses. The bytes in a buffer are Buffer's business.

LegacyReactor: the header with the events is missing, so what a task does to its event is
external: it may pause or resume it any number of times, and end well or badly. The mode without
threads (`RA_ONCE`), `init` and the listening event are left out. An `epoll_ctl` and the caller's own
flag are one step, the emptying of the slot and the delete another; flag words are
updated atomically; descriptors are not closed; `epoll_wait` reports one entry at a time.

### Not modelled

- `queue_t`: nobody in the repository uses it, and it has no lock, so no caller says who may call
  it when. Its ring has one slot more than its capacity, the one thing in it that is easy to get wrong.
- `Timer`: nobody uses it either. It keeps milliseconds since 1970 in an `int`, so
  what a deadline means depends on the date.
- `IRef` and `SmartPtr`: the count of an event is touched by `release` alone, which deletes the event;
  `SmartPtr` is used by one test, in one thread.
- `Singleton`: used by one test before anything runs. What can go wrong in its double-checked
  initialisation is the order of unsynchronised writes, which an interleaving model does not have.
- `ConfigParser`: reads a text file once, in one thread, before anything runs.
- `CThreadPool`'s `init` and `Destory`, and its thread-specific data: no caller runs them beside the workers.
- `net`: address conversion, the `rio_` reads (a buffer over `read`, used by no server code), and the
  wrappers of a single system call.
- The log's formatting and levels, the tests and the test clients.

Every listed hazard has a property. None says that a `stop` ends the loop of `epollDispatch`, which this
code does not do: the properties allow the loop to end at any time and say what holds before and after.

## 7. Plan

Every safety property that a run checks is also proved. What could follow is more of the code: `ThreadPool`'s
start and end, should a caller ever use them beside the workers, and `queue_t`
once somebody says which threads call it.
