# TLA+ models of the concurrent programs of shang

The repository `wcybxzj/shang` is a collection of C programs written while
learning Linux system programming: several hundred short exercises and a number
of real concurrent programs. This directory models the latter in TLA+: it checks
them with TLC on small instances and proves their main invariants with TLAPS for
every instance.

Paths below are relative to `src/`.

## Inventory

### The network radio (`2.celery/mycoder80/homework/netradio/netradio/src/`)

The largest program. A server broadcasts up to 200 channels of sound over
multicast UDP; a client shows the list of channels and plays one.

| part | state | operations | how it interacts |
|---|---|---|---|
| `server/mytbf.c`: token buckets | `job[NR_CHN]`, one mutex for the table, per bucket `token`, `pos`, a mutex and a condition variable | `mytbf_init`, `fetchtoken`, `returntoken`, `destroy`; a thread `thr_alrm` refills all buckets every second; `module_unload` at exit | called by `medialib.c`; `thr_alrm` holds `mut_job` while it takes one bucket mutex after the other |
| `server/medialib.c`: media library | `cont_ptr[]`: per channel the files, the current one, its bucket | `mlib_getchnlist`, `mlib_getchndata`, `mlib_freechnlist` | fetches tokens, reads, returns what it did not need |
| `server/thr_channle.c`, `thr_list.c`: threads | `tid[]`, `sbuf` | create, cancel and join; loops of `sendto` | share `cont_ptr`, `sbuf` with the main thread |
| `server/server.c` | `listptr`, `listsize` | start-up; `daemon_exit` on SIGINT, SIGQUIT, SIGTERM | cancels, joins and frees everything above, inside a signal handler |
| `client/client.c` | `current_channel`, the socket, a pipe to the player | `deal_data` | hears the list and all channels, with losses |

Hard behaviour: the refill thread against fetch, return and destroy; wakeups;
cancellation inside a condition wait; a signal at any moment of the start; the
order cancel, join, free; the width of `chnid_t` and `char`.
Correct means: the rate is kept, no freed bucket is touched, nobody sleeps beside
tokens, every channel is served, the shutdown ends; the client plays the channel
that was asked for.

### The pipe between threads (`3.ybx/3.apue/8.thread/posix/26.mypipe/`)

`queue.c` is a ring buffer of `MAXSIZE` cells, `mypipe.c` a blocking pipe over it
with registered readers and writers and one condition variable for everybody,
`main.c` a client that tests numbers for primality in four reader threads.
Hard: three kinds of sleepers on one condition variable, partners that leave, the
ring at its limits, a reader that registers late, a short write that is ignored.
Correct means: first in first out, nothing lost or doubled, no lost wakeup, the
client tests every number and ends.

### The semaphore (`3.ybx/3.apue/8.thread/posix/21.mysem/`)

`mysem.c` is a counting semaphore over a mutex and a condition variable, `main.c`
creates a thread per candidate, of which at most `NUM` may run at once, and joins
them all. Correct means: the bound on concurrency holds, `main` is never left
asleep, and it exits.

### The timer library (`3.ybx/3.apue/0.homework/5.anytimer_mt/`)

`anytimer.c` keeps a table `job[JOB_MAX]` of jobs, each with its state, its
countdown, a mutex and a condition variable. The thread `init_action` counts all
running jobs down once a second and starts a thread for each that is due; threads
add, cancel, pause, resume and wait for jobs by their position in the table.
`at_waitjob` frees a job. Hard: two levels of mutexes, taken and released in
different orders; `at_waitjob` uses the slot again after it has let go of both;
`at_canceljob` does not broadcast. Correct means: no freed job in the table, each
job starts when it is due and once or periodically as asked, a waiting thread is
woken and the job reclaimed.

### The thread pool (`3.ybx/3.apue/8.thread/posix/32.threadpool.{c,h}`)

A doubly linked list of jobs under one mutex, a semaphore that is posted once per
job, workers in `tp_thread_func`, a client that calls `tp_add_work` and finally
`tp_destroy`. Hard: the semaphore and the flag `tp_alive` are used outside the
mutex; a worker runs and frees its job outside it too, while `malloc` may hand the
same memory out again; `tp_destroy` clears the flag and joins, but wakes nobody;
one error path returns with the mutex held. Correct means: each job is run once,
in order, by one worker; list and semaphore agree; `tp_destroy` returns.

### The pre-forked server (`3.ybx/3.apue/10.ipc/3.socket/2.stream/2.porcess/3.pool_dyanamic/server.c`)

Worker processes accept clients and publish in a shared table whether they are
idle or busy; after each change they send SIGUSR2 to the parent, which sleeps in
`sigsuspend`, counts the table (`manage_workers`) and forks or kills workers to
keep the idle ones between `MINSEPARATE` and `MAXSEPARATE`. Hard: nothing is
locked; a state cell is read twice in one pass; signals coalesce; workers die
without a signal; pids are reused. Correct means: a worker writes to a slot of its
own, the table is not overrun, the pool gets its idle workers back.

### The timers (`3.ybx/4.hplsp/11.timer/`)

Three containers for timers: a sorted list (`11-2.lst_timer`), a timing wheel
(`11-5.tw_timer`) and a heap (`11-6.heap_timer`), each with `add_timer`,
`del_timer`, `tick` and the first two with ways to prolong a timer; and the server
`11-2.lst_timer/11-3.nonactive_conn.cpp`, an edge-triggered `epoll` loop that
closes connections that were silent for three slots. Its state is the open
connections, their timers, the batch of events with the index into it and two
flags set by signals that come through a pipe. Hard: pointers at both ends of the
list, slots and turns of the wheel at its boundaries, one index used by two nested
loops, one `accept` or `recv` per edge. Correct means: a timer fires when it is due
and not after it was deleted; connections and timers match; silent connections are
closed; SIGINT ends the server.

### Not modelled

* `3.ybx/3.apue/8.thread/posix/16.mytbf_mt_cond/`: another token bucket library, of
  the design `MyTbf` models.
* `3.ybx/3.apue/9.advanced_io/1.nonblock/3.relayer_mt/`: a relay between two
  terminals as a state machine per direction, driven by a thread.
* `3.ybx/3.apue/10.ipc/3.socket/2.stream/3.pthread/3.pool_dynamic/`: the pre-forked
  server with threads in place of processes, under a mutex.
* `3.ybx/3.apue/10.ipc/3.socket/1.dgram/6.myftp_udp_fork_ack/`: a stop-and-wait
  file transfer over UDP without timeouts.
* `3.ybx/1.c/79.diy_malloc/my_malloc.c`: a free list allocator, sequential.
* `module_unload` of `anytimer.c`, which follows NULL for every free slot.

The rest of the repository is some 1700 files, most of them one-page exercises or
code by others (next section), so that the models cover a small share of its lines.
What they cover are the programs in which several threads, processes or events
share state and which were written here.

### Left aside for good

Vendored and annotated code (`3.ybx/15.memcached`, `3.ybx/9.libevent`), textbook
programs (`3.ybx/5.tlpi`, `6.unp1`, `17.apue3`, `20.ds`), the course exercises of
`1.zhang`, and earlier versions of the radio (`2.celery/coder80`, `weekend`).

## Modules

| module | models | kind |
|---|---|---|
| `MySem` | `mysem.c` | library |
| `MySemPrimes` | `21.mysem/main.c` over `MySem` | program |
| `MyTbf` | `server/mytbf.c` | library |
| `MyTbfApi` | `MyTbf` under every legal use | harness |
| `NetRadio` | the server, over `MyTbf` | program |
| `RadioClient` | `client/client.c` and the packets it hears | program |
| `BoundedFifo` | what the queue under the pipe promises | abstract specification |
| `MyPipe` | `queue.c` and `mypipe.c` | library |
| `MyPipeApi` | `MyPipe` under every legal use; refines `BoundedFifo` | harness |
| `MyPipeMain` | `26.mypipe/main.c` over `MyPipe` | program |
| `AnyTimer` | `anytimer.c` under every legal use | library and harness |
| `JobPool` | what a thread pool promises: each job once, in order | abstract specification |
| `ThreadPool` | `32.threadpool.c` and its client; refines `JobPool` | program |
| `PoolServer` | `2.porcess/3.pool_dyanamic/server.c` | program |
| `SortTimerList`, `TimeWheel`, `TimeHeap` | the three timer containers | library |
| `TimerContainers` | one client of all three | harness |
| `ConnServer` | `11-3.nonactive_conn.cpp` over `SortTimerList` | program |
| `MySemProofs` | proofs about `MySemPrimes` | theorems |
| `MyTbfProofs` | about `MyTbf`, `MyTbfApi` and `NetRadio` | theorems |
| `MyPipeProofs` | about `MyPipe`, `MyPipeApi` and `MyPipeMain` | theorems |
| `SocketProofs` | about `RadioClient` and the events of `ConnServer` | theorems |
| `AnyTimerProofs`, `ThreadPoolProofs`, `PoolServerProofs` | about the modules of these names | theorems |
| `TimerProofs` | about `TimerContainers` with its three containers, and about the list in `ConnServer` | theorems |
| `MC*` | small instances for TLC | |

A library module has the state of the C module and one formula per call. A
program or harness module extends it, adds the state of the callers and conjoins
their part to the library's formulas. Operators whose names end in
`_nobroadcast`, `_offbyone`, `_noreset` and the like are deliberate mistakes, kept
next to the correct definition; each of them makes TLC refute the property it is
meant for, which shows that the property depends on that line of the code.

### Granularity

A critical section is one step when nothing can block or interrupt it half way.
It is split where it can:

* `pthread_cond_wait` is at least two steps: the thread joins the set of waiters
  and gives up the mutex; a broadcast, or a spurious wakeup, takes it out of the
  set; it then has to find the mutex free and tests its condition again.
* `thr_alrm` takes `mut_job`, then one bucket after the other: one step each.
* `mypipe_read` and `mypipe_write` copy one element per step with the mutex held.
* `init_action` takes `mut_job`, then looks at one slot per step; `at_waitjob` is
  split at each unlock, the refusing returns of `at_canceljob`, `at_stopjob` and
  `at_resumejob` before their last unlock.
* a system call that may fail while the program runs has a step for each outcome.
  Failures of the set-up, after which the program ends or has not begun, are left
  out: `malloc` in `mysem_init` and `mypipe_init`, `pthread_create` in the
  `module_load` of `mytbf.c`, `glob` and `fopen` in `medialib.c` for a directory
  without sound files or with a description that cannot be opened.
* In the thread pool a critical section is one step; `sem_wait` and each test of
  `tp_alive` are steps of their own. In the pre-forked server, which has no lock,
  every read or write of a state cell, every signal and every fork is a step.
* The connection server is one thread: one step handles one event of a batch, and
  clients and signals act between any two.

`pthread_create`, `pthread_join` and `pthread_cancel` are modelled by what they do
to the state of threads. A cancelled thread acts on the cancellation at the next
cancellation point only; one that is cancelled inside `pthread_cond_wait` dies
with the mutex locked, as POSIX says, since no cleanup handler is installed.

### Correspondence

*MySem, MySemPrimes.* `num` and the sleepers on the condition are the state of the
semaphore; `main` is in `mysem_sub` before each `pthread_create`, a worker calls
`mysem_add` when it has finished.

*MyTbf.* `job`, `pos`, `token`, `waiters` are the fields of the C structures;
`orphaned[b]` says that the mutex of bucket `b` is locked by a dead thread; `apc`
and `ai` are the program counter and the loop variable of `thr_alrm`. `win` is a
history variable: it opens a window on some bucket at any time and counts the
tokens taken and the refills since. `bst` says whether the memory of a handle is
allocated. `malloc` failing, and `size <= 0` (refused at once), are left out.

*NetRadio.* `mpc` is the program counter of the main thread through `main`,
`daemon_exit` and `exit`; `tid[t]` says of each thread whether it was created,
failed to be, runs or is dead. `pthread_cancel` on an entry of `tid[]` that is no
thread may crash (`pthread_cancel(0)` does). `paid[c]` is history: tokens kept
less bytes broadcast. Option parsing, `daemonize` and the socket setup come
before the initial state. Linux delivers the signal to the main thread; only one
signal is modelled, and the final loop of `module_unload` is one step.

*RadioClient.* A packet is its first byte. The list is the function from entries
to the numbers printed for them, each converted to a signed `char` by `AsChar`.
The socket keeps `SockBuf` packets and drops others; `recvfrom` may fail. A line in
`stdin` that is no number stays there, as `scanf` leaves it; the user types any
number whether or not it was shown, and may do so ahead of the list. `player` says
whether the player reads its pipe, hangs with the pipe full, or is gone, which it is
from the start if `execl` fails; the `write` to it ends, blocks or raises SIGPIPE.

*MyPipe.* `data`, `head`, `tail` are the ring, `op[t]` the call thread `t` is in,
`cnt[t]` and `i[t]` its count and loop variable (and result). `log` and `got` are
history: everything ever enqueued and dequeued.

*MyPipeMain.* `mpc`, `k`, `sent` are `main` and `writer`; `rpc[r]` is reader `r`.
The numbers are called 1 to `ARR_SIZE`. The `sleep` calls order nothing and are
left out; `Batch` is the batch the loop with `index` and `WRITE_NUM` produces.

*AnyTimer.* The variables are the fields of `at_job_st`, the table and the two
kinds of mutexes, `mut[j]` only where it is held from one step to the next; `op[t]`
and `id[t]` are the call a thread is in and its argument, `tpc` and `ti` the
program counter and loop variable of `init_action`. `elapsed` (seconds counted
since the last start), `calls` and `oneshot` are history. The callers keep to what
the library needs: at most one thread waits for a job, and only jobs that exist
are paused or resumed (those two calls test nothing). A countdown stops at -1,
where a job of 0 seconds goes: the real one does not come back to 0 for 2^32
seconds. A call that refuses (`at_canceljob` of a job that is over, `at_stopjob`,
`at_resumejob`) does not hold `mut_job` and reads `job[id]` once more to unlock
(`UnlockAgain`). If the slot is NULL by then it follows NULL; if it holds another
job it unlocks that job's mutex, inside whatever critical section some thread may
have entered there. In both cases `crashed` becomes true and everything stops: the
critical sections of the model are atomic only as long as that has not happened,
and no property speaks of what comes after.

*ThreadPool.* `head`, `tail`, `num`, `pre`, `next` are the list, `mem` the job
cells allocated, `quene_sem` and `tp_alive` as in the code, `wpc[w]` and `job_p[w]`
a worker in `tp_thread_func`, `cpc` the client. `q` is history: the jobs added and
not taken. `mutex` is held between two steps only by a worker that has returned
without unlocking. Failures inside `tp_init`, after which there is no pool, are left
out.

*PoolServer.* `pid`, `state`, `idle_num`, `busy_num` are the table and the counters;
cell `MAXCLIENT` stands for the memory behind the table. `mpc` and `i` are the
parent in `main` and `manage_workers`, `wpc[p]` and `num[p]` process `p` in
`worker_loop`. SIGTERM takes effect at once. `fork` may return the pid of a process
that has ended but is still in the table. `raced` and `deaths` are history.

*TimerContainers.* The client adds, deletes, prolongs and ticks the same timers in
all three containers. `left[t]` is `expire` less the present time. The wheel has
`slot` and `rotation` of each timer and the slot it is at; the heap's element `k`
is `array[k - 1]`. Timers are numbers, and their order is the order of the
addresses that `percolate_down` compares. `resize` changes no order and is left
out.

*ConnServer.* `batch` and `i` are `events[]` and the loop index, `ready` the events
that have arrived since `epoll_wait`, `inbox[f]` how many calls of `recv`, of at most
`BUFFER_SIZE-1` bytes each, the unread data of a connection takes, `eof` the
connections whose client has closed or reset them, `alrm` and `ints` the bytes in the pipe,
`alarm` the seconds to the next SIGALRM. An exit inside the loop and a use of freed
memory both end in `srv = "dead"`, an `accept` for want of descriptors in
`"no_fd"`, and SIGPIPE, which the echo raises if the client has reset the connection,
in `"sigpipe"`; a `send` that fails otherwise goes unnoticed, as in the code.
`recv` failing after a reset has the effect of an end of file. `replay` is history: the index fell back to or before the pipe's event.
A batch is assumed to be handled within a second.

## Runs

| run | instance | checks |
|---|---|---|
| `mysem` | 5 candidates, 2 units | at most 2 threads run; `main` asleep has a waker; `main` exits |
| `mytbf` | 3 handles, 2 slots, 2 threads, `CPS` 1, `BURST` 2 | rate in every window, table sound, no sleep beside tokens |
| `netradio` | 2 channels, 1 file each, packets up to 2 | nothing freed while in use, no byte unpaid, channels are served, the shutdown ends |
| `radio_client` | lists of 2 and 5 channels, a `char` of 3 bits, 2 lines typed | one channel, the one asked for; it is heard while client and player go on |
| `mypipe` | 2 readers, 2 writers, 3 cells, counts 1 and 3 | first in first out, no lost wakeup, nobody waits for who has left, refinement of `BoundedFifo` |
| `mypipe_main` | 2 readers, 5 numbers, batches of 2 | every number tested once, the program ends unless a reader is late |
| `anytimer` | 2 jobs, 1 slot, 2 threads, 0 and 2 seconds | table sound, jobs start on time and once, locks are given back, a wait ends unless the job is paused or cancelled |
| `threadpool` | 2 workers, 3 job cells | cells owned, a worker past `sem_wait` finds a job, jobs are run, the destruction ends, refinement of `JobPool` |
| `pool_server` | 3 slots, 4 pids, 2 clients, 1 death, limits 2 and 2 | own slots, no overrun without a race, idle workers come back |
| `timers` | 4 timers, 3 slots, timeouts 0 and 3 | the list fires exactly what is due, the wheel at its tick, the heap loses nothing |
| `heap_order` (violation) | the same | the top of the heap expires first |
| `conn_server` | 2 descriptors, a slot of 1 second, 1 SIGINT | connections and timers match, how it can die, silent connections are closed, SIGINT ends it |

What they show:

* The token bucket keeps its rate in every window of refills, whatever the
  interleaving; tokens returned count as not taken.
* As far as it is modelled, the server's shutdown can hang in exactly one way
  (`ShutdownEnds`): a channel
  thread is cancelled while it waits for tokens and leaves its bucket locked;
  `thr_alrm` then blocks on the bucket with `mut_job` held, and `mytbf_destroy`
  never gets `mut_job`. A signal that comes before all threads exist crashes the
  server in `pthread_cancel`. For these reasons the run does not check for deadlock.
  Not modelled is that `daemon_exit` calls `free`, `pthread_join` and `exit` from a signal
  handler: if the signal interrupts `malloc` or another call that is not
  async-signal-safe in the main thread, the behaviour is undefined.
* The client shows the channels above 127 with negative numbers (`AsChar`). Who types
  the number that is shown chooses no channel at all; who types the number of the
  channel, which the list does not show, hears it. `ChoiceHeard` covers both ways to
  pick a channel, for the first line typed: a user who has typed junk once cannot
  choose any more. It excepts a client that has ended (`recvfrom` failed, or the
  player is gone and `write` raised SIGPIPE) and a player that hangs.
* `writer()` ignores short writes, which is harmless only because all the numbers
  fit into the ring (`WritesAreWhole`, which is proved; the assumption
  `MainAssumption` says so).
* The pipe's client hangs if a reader starts after the writer has left, in spite of
  the `sleep(1)` that should "give the readers time to register" (`main.c:156`);
  `EndsUnlessLate` excepts that race. Apart from that it always ends. The run `mypipe_main` therefore
  does not check for deadlock, nor does `mypipe`, whose threads stop once all have
  unregistered or wait for partners that never come.
* The counting of `anytimer` is exact under every pause and resume. Three promises
  of its comments and header do not hold: a thread that waits for a job is not woken when
  the job is cancelled, since `at_canceljob` does not broadcast
  (`WaitEnds` excepts it); `at_waitjob` on a paused job returns success and releases
  nothing (the action `WaitKeep`); `at_canceljob` of a job that is over may follow a
  NULL pointer or unlock a job that another thread has locked, and so may a pause or
  resume that is refused (`UnlockAgain`, which sets `crashed`). `LocksReturned` says
  that this takes a job that `at_waitjob` freed while the call had it locked, and that
  no call leaves a lock behind otherwise.
* The thread pool is a first-in-first-out pool. Its destruction hangs in exactly one
  way (`DestroyEnds`): a worker is in `sem_wait` with the semaphore at 0, since
  `tp_destroy` posts nothing. The error path that keeps the mutex is never taken,
  because a worker that came through `sem_wait` finds a job (`PromiseKept`).
* The pre-forked server overruns its table by one cell when a worker changes its
  state between the two reads of `manage_workers`, and only then
  (`OverflowNeedsRace`). It gets its idle workers back although signals coalesce
  (`PoolRecovers`), less one for each worker that exited by itself. It does not
  promise the upper limit: one pass deletes only part of the surplus, no signal
  may follow, and the worker it kills may be a busy one.
* The list and the wheel are exact. The heap fires nothing early and loses nothing,
  but its top need not be the earliest timer (`heap_order`): `percolate_down`
  compares pointers (`11-6.heap_timer.h:299`), and timers that are due wait below
  one that is not. With four timers an element sinks by one level after a removal;
  that deeper ones lose nothing either is the theorem `HeapLosesNothing`.
* The connection server skips or repeats events, since the loop over the signals
  uses the index of the loop over the events; it exits or touches freed memory only
  when that index falls back over an event already handled (`DiesOnlyOnReplay`), or
  for want of descriptors. SIGPIPE ends it besides: neither caught nor ignored, it is
  raised by the echo (`11-3.nonactive_conn.cpp:219`) to a client that has reset the
  connection while something it sent was unread. What it skips is not lost for ever: the timer closes a connection
  whose data or end of file was skipped. One `accept` per edge leaves a second
  connection in the backlog until a third comes.
* The runs without a check for deadlock are those whose programs may stop:
  besides the ones above, `threadpool`, `pool_server` and `conn_server` end or wait
  for clients, and the bounds of `timers` end its histories.

### Bounds

* `mysem`: more candidates than units, so that `main` sleeps and units are reused.
* `mytbf`: three handles for two slots fill the table and reuse slots; `BURST`
  over `CPS` reaches the cap; `MaxWindow` = 1 sees windows with no and one refill
  inside (the theorem covers all lengths). The window is restarted, never the
  system.
* `netradio`: two channels are the least with which one can be cancelled while the
  other waits; `BUFSIZE` = `BURST` = 2 allows partial reads and returns; the one
  file of a channel is opened again at its end.
* `radio_client`: five channels of a 3-bit `char` are to 4 as 200 are to 128. The user
  types 1 and 5 (which is channel 5, shown as -3), -3 and 0, which are no channels,
  or junk; `MaxLines` = 2 lines.
* `mypipe`: a ring of three cells holds two items; it wraps, is full and is empty;
  a count of 3 exceeds what fits. `MaxItems` bounds the history only: no write
  begins after three items.
* `mypipe_main`: the ring holds all the numbers as in the code (201 in 1024).
* `anytimer`: two jobs for one slot fill the table and reuse the slot; 2 seconds
  leave room for a pause inside the countdown, 0 is the boundary. The
  invariants are theorems for every number of jobs and slots.
* `threadpool`: three cells for two workers: a list of more than one job while both
  are busy, and cells that are used again.
* `pool_server`: `MAXCLIENT` = 3 with limits 2 is the least table that fills while
  workers are both idle and busy; a fourth pid lets a pid be used again;
  `MaxClients` and `MaxDeaths` end the disturbances that `PoolRecovers` waits for.
* `timers`: four timers make the heap three levels deep; a timeout of 3 is a whole
  turn, 0 becomes 1. `MaxLeft` bounds prolongation, `MaxLate` the time an expired
  timer waits in the heap.
* `conn_server`: two connections, the listening socket and the pipe make batches of
  up to four events in every order. `MaxInt` and `MaxBacklog` are 1; `MaxAhead` = 1
  event may arrive while a batch is handled. `MaxUnread` = 2 lets a `recv` leave
  something behind.

### Fairness

Weak fairness for every thread: the scheduler runs a thread that can run. Nothing
is assumed about signals, failing calls and spurious wakeups. In `NetRadio` the
main thread has strong fairness, because the mutex it wants in `mytbf_destroy` is
taken by `thr_alrm` again and again; `thr_alrm` sleeps a second after each
release, which is ample for a waiting thread. In `RadioClient` each channel's
packets and the list have strong fairness: the server sends for ever (none of its
calls of `sendto` fails) and not all are lost; the user and the player have none.
In `AnyTimer` a thread inside a call has strong fairness, since `init_action` takes
`mut_job` again after each second of sleep, and so has `init_action`, since callers may
lock a job again and again but leave its mutex free in between; nobody has to begin a
call.
In `ThreadPool` the workers and `tp_destroy` are fair, adding jobs is not. In
`PoolServer` parent and workers are, but not `Serve`: a client may keep `send`
blocked. In `ConnServer` the server has weak and the clock strong fairness, since
time passes however busy the server is; clients and SIGINT have none.

## Theorems

Every theorem holds for all values of the constants that satisfy the named
assumptions of the modules. Two programs are extended by proofs that speak of their
library as well; there the assumption about the program, `RadioAssumption` or
`MainAssumption`, is a hypothesis of each theorem, and the MC module states it as
an ASSUME, so that TLC evaluates it for the instance.

* `MySemProofs`: `Bounded`, `NoOrphanSleep`, `TypeCorrect`. The invariant counts:
  units left plus running threads make up the initial value.
* `MyTbfProofs`, library: `Conformance` (the rate), `NoUseAfterFree`,
  `NoLostWakeup`, `ApiTypeCorrect`. `TbfInv` is inductive for the library alone and
  is proved call by call; `ApiIInv` adds the callers: they use live buckets and
  sleep only on the one they use. For the rate the invariant has to relate window
  and bucket: tokens used in the window plus tokens left are at most
  `BURST + CPS * ticks`; the bound on use alone is not inductive.
* `MyTbfProofs`, server: `ShutdownOrder`, `EveryBytePaid`, `RadioTypes` and
  `RadioRate`, the library's guarantees carried over to the server. The lemmas about
  the library's calls are used as they stand. `RadioInv` adds two parts. `Phases`
  says for each place of the main thread what it has achieved there: which buckets
  exist, and that the channels the cancel-and-join loop has passed run no more
  (`Joined`), whatever `pthread_create` failed before. `PaidExact` says that a
  channel has paid for exactly the packet it reads, and for nothing at any other
  time; that its account is not negative (`BytesPaidFor`) is not inductive.
* `MyPipeProofs`, library: `PipeIsFifo`, `RingIsExact`, `PipeNoLostWakeup`,
  `PartnersExist`, `PipeRefinesFifo`. `RingHoldsLog` is the heart: cell by cell, the
  ring is the part of the log that has not been read. It implies that a dequeue
  takes the right item, and that each step of the ring is a `Put`, a `Get` or a
  stutter of `BoundedFifo`. `OneCopier` is needed because a sleeper's reason may be
  false while some thread is in its copy loop, before the broadcast at its end.
  `PartnersExist` follows from the reason and from `CountersExact`: the two counters
  are the cardinalities of the sets of registered threads.
* `MyPipeProofs`, client: `WritesWhole`, `EveryNumberTested`. By `MainAssumption`
  the ring has room for all the numbers, so that `main` never finds it full:
  `WriterAt` says at which number it is, and that inside a call the log is exactly
  that long. `ReaderAt` says that a reader leaves its copy loop with a number, and
  ends only when the writer has left and the ring is empty; with the ring exact,
  everything has then been read.
* `SocketProofs`: `OneChannelPlayed` and `DeathNeedsReplay`. `PlaysOneTyped` needs
  that nothing has been played while no channel is chosen, that the user is asked
  only then, and that what `scanf` finds was typed. SIGPIPE and want of descriptors
  apart, the connection server dies on an event that has nothing behind it:
  `EventsFounded` says that every event that waits, in the batch or behind it, is of
  a connection that is open, and that the pipe's has bytes in the pipe, as long as
  the index was not set back; `ReplayIsLast` that it is set back in the last batch
  only, since the loop then comes to the empty pipe again or has been told to stop.
  A SIGINT may leave the pipe's event without bytes, in the last batch again. The
  proof goes through `CloseConns`, which filters the events of closed connections,
  for every length of the batch.
* `AnyTimerProofs`: `NoFreedJobInTable`, `JobsOnTime`, `OneShotRunsOnce`,
  `TimerNoLostWakeup`, `LocksComeBack`, `TimerTypes`. All hold up to the moment when a
  call unlocks a mutex it does not hold; `LocksComeBack` says when that can be. `IInv` adds to these that the slot a thread
  waits at stays occupied and that no other thread waits at it
  (`WaitedSlotKept`: without it the freeing step might follow NULL or free a job
  twice), that a job which was never added has no history (`HistorySound`), and that a
  refusing call holds a mutex, of the job in its slot or of one that is freed
  (`HoldsOne`).
* `ThreadPoolProofs`: `PoolIsJobPool`, `QueueSound`, `NoSharedCell`,
  `SemaphoreSound`, `TypeCorrect`, for every set of jobs and finite set of workers.
  `IInv` is the type invariant with `ListSound` (the links spell out `q`),
  `CellsOwned`, `PromiseKept` and `Phases`. They need each other: taking a job is
  sound only if there is one, which is `PromiseKept` (value of the semaphore plus
  workers between `sem_wait` and the lock make up the length of the list), and
  `Phases` says that the destruction's loop runs without workers and lock. The
  refinement maps the queue of `JobPool` to `q`.
* `PoolServerProofs`: `NoOverflowWithoutRace`, `WorkersOwnTheirSlots`, `PoolTypes`,
  for every size of the table, limits, pids and clients. The invariant says what
  the two counters are in the middle of a pass: without a race their sum is at
  least the number of occupied slots below `i` and never more than the table
  (`CountsAccurate`), so that a pass which asks for a new worker has counted a free
  slot, and the search of `add_one_worker` ends inside the table. The smallest free slot is found by a least-number principle that the
  module derives first.
* `TimerProofs`, wheel: `WheelCorrect`, `TypeCorrect`. Inductive is
  `TypeOK /\ WheelOnTime`: `rotation * N` plus the distance of a timer's slot from the
  present one is the time it has left; the lemmas are about quotient, remainder and a
  step round the wheel.
* `TimerProofs`, list: `ListIsExact` in `TimerContainers` and `TimersMatchConnections`
  in `ConnServer`. Neither invariant can be used as it stands, since `Listed` is what a
  walk along the links finds. Inductive is that there is a sequence without
  repetition which `head`, `tail`, `next` and `prev` spell out (`Linked`), in the order
  of the expire fields, and whose members are the timers the list should hold.
  The operations become insertion, removal and cutting off on that sequence
  (`InsertLemma`, `RemoveLemma`, `DropLemma`); `AdjustList` composes the first two,
  as `adjust_timer` does. The walks of the code are recursive functions; for each of them
  one lemma shows that its equation has a solution and another what any solution
  finds on such a sequence, by induction from its end, which is reduced to the
  principle that a set of numbers has a least one (`NatMin`). In the server,
  `user` and `owner` are moreover inverse to each other between open connections and
  timers (`Matched`); hence there is a timer for the next connection as long as there is
  a descriptor (`TimerFree`). `ServerAssumption` takes `Fd` to be finite, as the
  array `users[FD_LIMIT]` makes it, and timers to be allocated without limit.
* `TimerProofs`, heap: `HeapLosesNothing`. An element that climbs or sinks moves those
  on its way by one cell: `Path` says that the way visits each of its cells once and ends in the one
  cell from which it does not go on, so that the new array is a permutation of the
  old one (`ShiftLemma`), whatever the comparison was. That is why it holds although
  `percolate_down` compares addresses. `Array(a, ts)` (the array holds the timers
  `ts`, each once) then goes through `add_timer`, removal and the loop of `tick`.

Only proved, and in no run of their own: the type invariants of the modules whose
runs check none, `WritesAreWhole`, `Fifo` (the run checks the refinement of
`BoundedFifo`), `ListSound` (that of `JobPool`), `NoSleepBesideOver` (`WaitEnds`),
and `RadioRate`, which the run of the library checks for its own callers.

Only model-checked: all liveness (`MainExits`, `ChannelServed`, `ShutdownEnds`,
`ChoiceHeard`, `EndsUnlessLate`, `WaitEnds`, `JobsRun`, `DestroyEnds`,
`PoolRecovers`, `SilentClosed`, `StopsOnInt`), which is out of reach of the prover.
Every safety invariant that a run checks is a theorem, but for `HeapTopEarliest`, which
does not hold.

## Plan

1. Proofs: what of the heap's order does hold, now that `HeapTopEarliest` is known not to.
2. The exit of `anytimer` (`module_unload`), and an abstract timer table that
   `AnyTimer` refines.
3. `Relayer`, the pool server with threads, `MyFtpUdp` over a network that loses
   and duplicates.
