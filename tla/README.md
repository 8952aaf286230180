# A specification of libtask

TLA+ models of the cooperative threading library in `src/libtask`, the TLC runs
that check them and the TLAPS proofs about them.  Line numbers below refer to
the files of `src/libtask`.

## The system

libtask runs *tasks*, coroutines with a stack of their own, on one thread.  A
task runs until it calls something that switches to the scheduler; between two
switches nobody else runs.  Concurrency is therefore the order in which calls
of the library follow each other, and what is hard is everything that happens
between the first half of a blocking call (up to its `taskswitch`) and the
second: the task has been put on some list, others run, one of them takes it
off, makes it ready and often changes state on its behalf, and only later does
it run and rely on that state.

| component | state | operations | interacts with |
|---|---|---|---|
| tasks and scheduler, `task.c` | `taskrunqueue`, `taskrunning`, `_state`, `alltask`, `nalltask`, `alltaskslot`, `taskcount`, `_tasknswitch`, `udata` | `taskcreate`, `taskcreateraw`, `taskready`, `taskswitch`, `taskyield`, `taskexit`, `taskexitall`, `taskscheduler`, `taskdata` | everything: each blocking call ends in `taskswitch`, each wakeup in `taskready` |
| queuing lock, `qlock.c` | `owner`, `waiting` | `qlock`, `canqlock`, `qunlock` | scheduler |
| reader-writer lock, `qlock.c` | `readers`, `writer`, `rwaiting`, `wwaiting` | `rlock`, `canrlock`, `wlock`, `canwlock`, `runlock`, `wunlock` | scheduler |
| rendez, `rendez.c` | `waiting`, `l` | `tasksleep`, `taskwakeup`, `taskwakeupall` | scheduler, the QLock in `l` |
| channels, `channel.c` | ring buffer (`buf`, `nbuf`, `off`), arrays `asend` and `arecv` of pointers to `Alt`s on the stacks of waiting tasks | `chancreate`, `chanfree`, `chanalt` and the calls built on it | scheduler |
| fd task, `fd.c` | `sleeping`, `alarmtime`, `sleepingcounted`, `startedfdtask`, `epfd` (a descriptor of its own, as each dup is), `_pool_loop_fn` | `taskdelay`, `fdwait`, `fdtask`, `startfdtask` | scheduler, `taskcount`, epoll, the clock |
| wrapped system calls, `fd.c` | `udata` used as errno | `__wrap_read`, `__wrap_write`, `__wrap_accept`, `__wrap_connect`, `read1` | `fdwait`, sockets, the peer |
| network, `net.c` | the descriptors | `netannounce`, `netaccept6`, `netdial`, `netlookup`, `parseip` | `__wrap_accept`, `__wrap_connect`, `fdnoblock` |
| contexts, `context.c`, `asm.S`, `*-ucontext.h` | registers | `swapcontext`, `makecontext` | scheduler |
| printing, `print.c` | the buffer | `vseprint`, `printstr`, and `fprint`, `vsnprint` and others on top | |

What makes each correct, and the hazards a test would hardly reach, are listed
with their lines under `hazards` in `PROJECT.json`.  In short:

* scheduler: the `_state` flag and the run queue agree; a ready task runs; a
  yield waits for exactly the tasks that were ready; the table that owns the
  tasks is exact after any sequence of creations and exits; nothing freed is
  reachable; the scheduler stops only when it should.
* locks: exclusion, hand-over without barging, no waiter forgotten, no
  overtaking of writers, no starvation, no `abort`.
* rendez: no wakeup lost or delivered twice, the lock taken again.
* channels: FIFO order, exactly one alternative executed, no pointer to a dead
  stack frame left in a channel, no two tasks waiting for each other.
* fd task: the list of sleepers is exact and sorted, epoll's pointers point to
  sleeping tasks, no waiter without a registration unless the kernel refused it,
  no early or false timeout, and sleepers always have an fd task.
* wrapped calls and network: no byte and no descriptor lost whichever step
  fails or times out, no accept or connect that stops the whole program, true
  results, and every call returns unless an assertion of `fd.c` ends the program.
* printing and addresses: the digits, padding and cutting are right for every
  width of argument; the bytes of an address go where its class has them.

## Modules

| module | models | extends |
|---|---|---|
| `TaskCore` | run queue, `_state`, `taskrunning`, `taskready`, `taskswitch`, the scheduler's choice | |
| `Task` | the rest of `task.c` | `TaskCore` |
| `QLock` | queuing lock | `TaskCore` |
| `RWLock` | reader-writer lock | `TaskCore` |
| `Rendez` | rendez composed with the lock it names | `QLock` |
| `ChannelSpec` | what channels promise | |
| `Channel` | `channel.c`, with a refinement mapping to `ChannelSpec` | `TaskCore` |
| `FdTask` | the Linux part of `fd.c` up to `fdwait` and `startfdtask` | `TaskCore` |
| `FdWait` | what `taskdelay` and `fdwait` promise their callers | |
| `WrapIO` | `__wrap_read`, `__wrap_write`, `read1` | instance of `FdWait` |
| `Net` | `netannounce`, `netaccept6`, `netdial`, `__wrap_accept`, `__wrap_connect` | instance of `FdWait` |
| `Printing` | `print.c` | |
| `ParseIp` | `parseip` and `netlookup` | |
| `TaskCoreProofs` | lemmas about lists, `taskready`, `taskreadyall`, `schedule` | `TaskCore`, `TLAPS` |
| `TaskProofs`, `RWLockProofs`, `ChannelProofs`, `FdTaskProofs` | proofs about the module of the name | that module and `TaskCoreProofs` |
| `RendezProofs` | proofs about `QLock`, then about `Rendez` | `Rendez` and `TaskCoreProofs` |
| `WrapIOProofs` | proofs about `WrapIO` | `WrapIO`, `TLAPS` |
| `NetProofs` | proofs about `Net`, then about `ParseIp`, then about `Printing` | these modules, `TLAPS` |
| `MC*` | instances for TLC | |

`FdTask` is shown to keep the promise `FdWait` (`FdWaitPromised`), and the
modules of the calls that wait, `WrapIO` and `Net`, rest on the promise and not
on the fd task: that is where the composition is cut.

Conventions common to all modules:

* A call that does not block is one action.  A blocking call is two: up to its
  `taskswitch`, and from there to its return.  `at[t]` (in `Channel`, `a[t]`)
  says which half a task is in.
* A `Tasklist` is the sequence of its tasks.  The intrusive `next` and `prev`
  links make this right only if a task is on one list at a time; that is what
  `RunqueueExact`, `NoLostWaiter`, `WaitersAsleep` (of `RWLock`, proved) and
  `SleepersExact` establish for the lists of each module.
* `taskswitch` sets `taskrunning` to `NULL`: the scheduler does so as its first
  statement after the switch, and nothing can come between.
* The client is any program that keeps to `task.h`: it unlocks only what it
  holds and readies only tasks whose reference it was given.
* Definitions whose comment begins with "Fault" are plausible bugs.  No
  specification uses them; `PROJECT.json` names, for every property of a
  passing run, the fault that breaks it.

### Task

`heap` is the set of allocated `Task` structures, `alltask` and `alltaskslot`
the table, `allcap` its allocation (`Chunk` is the 1024 of line 143).
`taskcreateraw`, `taskcreate`, `taskyield` with `taskyieldReturns`,
`switchaway` (a client's own `taskswitch`), `wake` (a client's `taskready`),
`taskexit` and `taskexitall` are the client's actions; `dispatch`, `reap` and
`schedulerReturns` are the scheduler's loop.  `tasknswitch` wraps at
`IntRange`.  `ahead` and `ran` are history: the tasks ready when a task
yielded, and the tasks that ran since.

### QLock, RWLock, Rendez

The variables are the fields of the structures, plus `holds`, what the client
has been given, and `aborted`, set where the code calls `abort`.  A lock is
handed over in the unlocking call: `owner` (or `writer`, `readers`) changes
before the new owner runs.  `Rendez` has Rendezes that name the lock and
Rendezes that do not; `sleepReturns` may block again in `qlock`.  The number that the wakeups
return is left out.

### Channel and ChannelSpec

A waiting `Alt *` is the pair of its task and its index; an `Altarray` is the
set of its pairs, because `altexec` picks from it, and `chanalt` from the
alternatives that can be executed, with `rand()`, which is a nondeterministic
choice.  `altcopy` with the ring, `altalldequeue` with its abort, and the
`xalt` field that tells the sleeper which alternative was executed are modelled
as they are.  `chansend` and the like are arrays of one; the `nb` variants are
`canblock = FALSE`.  The client frees a channel only when nobody waits on it
(line 21 admits the rest as a bug).

`ChannelSpec` knows no ring, no entries and no scheduler: a channel is a queue,
a call executes one alternative at once or is pending, and a sender and a
receiver that meet pass an element through the queue in one step.  In the
mapping the queue is the ring read from `off` (`Line`, `Queues`), a call is
pending while its task sleeps in `chanalt` (`Waits`, `Pending`), and its outcome
is in `xalt` until `chanalt` returns (`Outcomes`).  `EntriesExact` says that the
entries of the channels are those of the arrays of the sleeping tasks
(`Listed`), no more and no fewer.

### FdTask

Time is counted in ticks, `Ms` to the millisecond; alarm times are kept
relative to the clock and stop at -1, which keeps the state finite and changes
no comparison the code makes (all delays are at least 0).  The clock may tick
between any two steps and while `epoll_wait` blocks, but not past the timeout
`epoll_wait` was given: the kernel is taken to be punctual.  The clock is taken
not to be set back.  `fdtask` is a task like the others: `fdtaskYields` is
`while(taskyield() > 0)`, `fdtaskPolls` computes `ms` and blocks, `fdtaskWakes`
is everything from the return of `epoll_wait` to the next yield or to the end,
`fdtaskInterrupted` and `fdtaskFails` are its two errors.  That `taskyield`
returns 0 exactly if no other task ran is kept in `others`; `Task` checks it of
`taskyield` (`YieldCounts`).  `sleepingcounted` stops at `MaxCounted`; the code
only compares it with 0, and at most all the clients are taken off the list
before one is added, so the tests have the same results.  A descriptor
is registered under its own number or, after `EEXIST`, under a `dup` that
belongs to the task (`own`).  The callback of `startfdtask` is asked in every
pass whether to stop, and does nothing else.

What the kernel refuses is in the model.  `EPOLL_CTL_ADD` may fail with anything
but `EEXIST` (`EPERM` on a regular file, `ENOSPC`, `ENOMEM`) on a descriptor of
`Refused`; fd.c:267 does not look, and the task sleeps its 30 s with a `wait` and
no registration.  `instances` counts the epoll instances, none of which is ever
closed (fd.c:338), and `spare` what they and the dups leave of the `Limit`
descriptors that are there for `fd.c`.  Where none is left, and for want of
memory at any time, `startfdAborts` and `fdwaitAborts` are the two assertions
(fd.c:339, fd.c:271); the program ends.

### FdWait

The view of a caller: a task runs, sleeps in `taskdelay` or `fdwait`, or has
been woken and finds the reason in its `udata`; whoever is awake may run next.
The descriptors change at any time, but come to nothing only while a task runs
(`Changes`).  `due` says which reasons are possible.  `NULL`, an event, only if what the task
waits for is there when it is woken (it may be gone when the task runs).
`LIBTASK_TIMEOUT` only if it is not, or if more events happened than one
`epoll_wait` returns, or the descriptor is one that may have been refused, or a
callback is given: fdtask's restart may take a registration away (see below).
`EIO` only with a callback.  Any call that sleeps may abort instead (`aborts`);
a caller that knows when it can, says so (`Net`).  `udata` is the
caller's own otherwise.  `FdTask` maps a client that is in `taskdelay` or
`fdwait` and off the sleeping list to a woken one (`Woken`, `StageOf`), the fd
task to none (`Running`), and `wait` and `udata` to what a client sees of them
(`Waited`, `Told`); the registrations, the list and the clock have no
counterpart.

### WrapIO

Connected stream sockets shared by the tasks.  A step is one system call or
what lies between two: a task in the middle of `__wrap_write` may be
interleaved with another only where it waits, but the kernel and the peer move
at any time.  A socket is what the peer will still send and take (`coming`,
`going`, bounded by `Supply` and `Demand`), the bytes that can be read and the
room to write, and whether a reset is pending or the stream has ended.
`__real_read` and `__real_write` may move any number of bytes up to what is
there.  Short counts, `EAGAIN`, `ECONNRESET` and `EPIPE` are covered; other
errors of the kernel return through the same branch.  `outcome` and `told` are
history: the result of a task's last call, and the bytes callers know of.
Descriptors are not closed while tasks use them.  `waits` is `fdwait`, which
sleeps, for the descriptor or a dup of it, or aborts; how many descriptors are
left for that is not counted here, so it may always.

### Net

A step is one call that may sleep, with all that follows up to the next.
Descriptors run out (`Fds`), names are not found, `bind` and `connect` fail at
once (`failsEarly`, `connects`), `listen` fails unnoticed (net.c:54 does not
look at its result), peers connect, answer, refuse and reset at any time.  Two tasks may
accept on one listener; `overtaken` is history, set when another took a
connection first.  `address` is what the remote address of line 77 may be: of
a listener of `netannounce`, which is `AF_INET`, anything.  Datagram sockets
are `up` at once.  What happens on a connection after it was returned is the
client's.

The descriptors that `fd.c` takes for itself come out of the same `Limit`: the
epoll instances (`instances`) and the dups of second waiters.  When a task waits
where another does (`waits`), and none is left, the program aborts in the middle
of `netaccept6`, and so it does when the fd task is to be started again
(`startfd`, `delays`).  FdWait does not say when the fd task is stopped;
`mayStart` allows it where it is possible, with a callback and nobody asleep.
`netdial` and `netannounce` look up names with `gethostbyname` (net.c:136), which
blocks the whole program, as any call of it would; that is one step here.

### Printing and ParseIp

Both read their input item by item, so that TLC goes through all inputs of a
bounded length as behaviours: a format is a sequence of items (a conversion
with its flags and its argument, or a text), a name a sequence of components
between dots.  Texts are sequences of one-character strings because their
lengths and cuts are what is checked.  `int`, `long` and `vlong` have as many
values as the constants say (8, 16 and 32 in the run), and the sign extension
and the negation in a `uvlong` are arithmetic modulo these.  What is printed is
`PrintExact`: if it fits, all of it; otherwise the buffer is full and holds the
beginning, except that of a field that is cut and was to be padded in front,
blanks are what is dropped first.  What the code prints differs from C on purpose or by accident, and
the reference definition `Converted` says so: a sign is computed and never
printed (print.c:134 sets `neg`, nobody reads it), zero in hexadecimal is `00x`,
and after an unknown verb the rest of the format is dropped.  `LookupExact`
compares `parseip` with the classful reading of an address.  A component is a
number, empty, or something else; `parseip` does not check that `strtoul` found
a digit, so an empty component is 0 (`..` is 0.0.0.0, `1..2` is 1.0.0.2), and a
dot at the end of a name adds nothing.  `LookupExact` has this in its reference.
It leaves aside what the code accepts beyond it: class C addresses with missing
bytes and the empty name (bytes never set), numbers of more than 32 bits, and
what follows a fourth component.

## Runs

| run | bounds | shows |
|---|---|---|
| `MCTask` | 3 tasks, chunk 2, ints of 8 values | run queue, table and end of the scheduler; yields count and are fair; ready tasks run |
| `MCRendez` | 4 tasks, a Rendez with the lock and one without | exclusion, hand-over, no lost wakeup, no starvation |
| `MCRWLock` | 4 tasks | exclusion, reader count, no starvation |
| `MCChannel` | 3 tasks, channels of 0 and 2 places, 6 arrays | safety of `Channel`; `Channel` implements `ChannelSpec` |
| `MCFdTask` | 2 clients, 1 descriptor that may be refused, callbacks, 3 descriptors for instances and dups | epoll, the fd task and `taskcount` agree across restarts; every sleeper runs again, or the program exits or aborts |
| `MCFdTaskKept` | 3 clients sharing a descriptor, 1 event per `epoll_wait`, half-millisecond ticks, no callback, nothing refused | the list, registrations, delays and timeouts; `FdTask` keeps the promise `FdWait` |
| `MCWrapIO` | 2 tasks on one connection that may be refused, calls of 2 bytes, 1 byte to come and room for 2 to be made | no byte lost, true results, every call returns or the program aborts |
| `MCNet` | 2 tasks, 2 descriptors of which one may be refused, 3 with those of `fd.c`, 1 peer | no descriptor of `net.c` lost, no accept or connect blocks the program, true results, every call returns or the program aborts |
| `MCText` | 2 items of 224 in rooms of 1, 6, 9 and 20; 5 components of 10 | `print.c` and `parseip` against reference definitions |

Three tasks are enough for a table of two chunks that grows, shrinks and grows
again; an int of 8 values wraps several times.  Four tasks on the lock and the
Rendez are a holder, a queue of two, and one that is asleep or woken from the
Rendez and comes to the lock last; on the RWLock they are readers and writers
both inside and waiting.  Three tasks are enough for two ends of a channel and
a third that competes for either; two places are enough for a ring that wraps
while it is neither full nor empty.  Three sleepers show an insertion between
two others, and three waiters on one descriptor are one registration and two
dups.  A limit of one event makes `epoll_wait` leave one out.  On one byte to
read two tasks compete; a write of two bytes is short when room comes byte by
byte, and a second write finds less than it wants.  With two descriptors a
listener and one connection leave none for a second `accept` or `netdial`; with
three for everything they leave one for the epoll instance and none for the dup
of a second acceptor or for a second instance.  `MCFdTask` has no `taskdelay`: an
`fdwait` that is refused is one, with one more call after it.  Its three
descriptors are three instances, or two and a dup.
The rooms of `MCText` are the smallest there is, ends of the buffer in the
middle of a text and of its padding, and one that holds everything.

`CHECK_DEADLOCK FALSE` is given for `Rendez` and `Channel`, where all the tasks
may really be asleep for good (the scheduler then reports stalled tasks), and
for `MCText`, whose functions end.

Symmetry over tasks is used in `MCChannel` and `MCFdTaskKept`, which check no
liveness: the specifications treat all tasks (in `FdTask`, all clients) alike.
That a woken channel task returns is not checked by itself: it follows from
`EntriesExact` (woken tasks are in the run queue) and `ReadyRuns` of `Task`.

### Where the code and its documentation disagree

Each of these runs checks what a comment or the library's README says, and TLC
finds it violated.

| run | statement | what happens |
|---|---|---|
| `MCFdTaskCount` | fd.c:19, sleeping tasks are counted as one | a wakeup by an event does not decrement `sleepingcounted` |
| `MCFdTaskStop` | fd.c:245, epoll revives a task in `fdwait` | after a restart of the fd task an old `EPOLL_CTL_DEL` removes a new registration; the task sleeps its 30 s |
| `MCNetAddress` | README:134, `netaccept6` fills in the remote address | the listener is `AF_INET`, the address is read as that of a `sockaddr_in6` |

The models show more, for which there is no run.

* A task whose registration is refused (fd.c:265) sleeps 30 s and is told
  `LIBTASK_TIMEOUT`, whatever happens on the descriptor; reading a regular file
  never comes to this, because it does not wait, but `ENOSPC` and `ENOMEM` do.
  Its late `EPOLL_CTL_DEL` (fd.c:275) removes the registration that another task
  has made under the same number since, as in `MCFdTaskStop` and without a
  restart.
* Each restart of the fd task leaves an epoll instance open (fd.c:338), and when
  the descriptors have run out the next wait ends the program in an assertion
  (fd.c:271, fd.c:339) instead of failing.
* `parseip` takes an empty component for 0, so `..` is 0.0.0.0 and not looked up.
* The status of the last task's `taskexit` is not the program's (README:29):
  `taskexitval` is never read.  And once an fd task runs without a callback the
  program does not end at all: `fdtask` loops forever (fd.c:171).
* `taskdata` is not the task's own (README:53): `fdtask` writes the reason of
  each wakeup there (fd.c:223), also after a plain `taskdelay`.
* A callback that returns -1 ends every `taskdelay` at once (README:50 promises
  "at least ms milliseconds"), so `DelayAtLeast` is checked without callbacks.
* A function given to `startfdtask` when the fd task runs already is not called
  (fd.c:345 says it is, on every loop).
* `__wrap_write` that fails returns -1 although it wrote part of the data
  (fd.c:402); `NothingLost` excepts exactly this.
* `netaccept6` may return -1 with `EAGAIN` when another task took the
  connection.

## Fairness

* The scheduler runs when no task does: it is the loop of the only thread.
* A task that has the CPU gives it up in the end (`taskyield`, or a blocking
  call, or its end).  This is the contract of cooperative scheduling, and the
  only thing assumed of clients besides releasing locks.
* A task that holds a lock releases it in the end (strong fairness, because
  `aborted` aside it may run and yield any number of times in between).
* For `WrapIO` and `Net`: a running task goes on with its call; a task between
  calls gives up the CPU (strong fairness, because every call it makes instead
  takes it away and back); every task that is awake is dispatched and every
  sleeper woken in the end, which is `SleepersReturn` of `FdTask` seen from
  above, with its caveat.
* For `FdTask`: time goes on, and `epoll_wait` is not interrupted forever.  That
  the program ends, by an exit or an assertion, is allowed for in
  `SleepersReturn` and `CallsReturn` and assumed away nowhere.
  `SleepersReturn` is checked for clients that do not call `taskyield`: a
  client that goes on yielding keeps `taskyield() > 0` true in line 177 and
  really does starve every sleeper.

## Proofs

TLAPS proves the following for every set of tasks, every chunk size, buffer
size, number of events and so on, from the named `ASSUME`s of the modules.
Three theorems have a hypothesis of their own: `YieldCorrect`, that there are
fewer tasks than half the values of an int, and `DelaysAtLeast` and
`WatchersKept`, that no callback stops the fd task.  `DelayAtLeast` and
`SleepersWatched` are false with one (see above), and the runs check them
without one too.  `SleepersWatched` and `FdWaitPromised` except the descriptors
of `Refused`, for which they are not so of the code; the theorems hold for every
such set, and the run has the strictest, the empty one.

* `TaskCoreProofs`: what `addtask`, `taskready`, `taskreadyall` and `schedule`
  do to `RunqueueExact`, stated once for all modules.  A list is injective with
  a given range; appending a new element or taking the tail keeps it so.
* `TaskProofs`: the inductive invariant `IInv` adds to the stated properties
  `WholeChunks` (the allocation of `alltask` is a multiple of `Chunk`; without
  it `nalltask <= allcap` is not inductive, because the code grows the table
  only at multiples), `MainHasNoTask`, `PlacesExact` (where a task is decides
  whether it is allocated, queued or running) and `YieldOrder` (for a task in
  `taskyield`, the tasks in front of it in the queue are those of `ahead` that
  have not run).  From it follow `TypeOK`, `RunqueueExact`, `AlltaskExact`,
  `NoDangling`, `CountExact`, `StallOnlyWhenAway` and `YieldIsFair`.
  `YieldCounts` needs one more, `SwitchesCounted`: while a task waits in
  `taskyield` the switch counter has moved by the number of those that ran,
  modulo its range, and none of them is in front of it again.  With fewer tasks
  than half the range the remainder is the number itself.
* `RendezProofs`, first half: the conjunction of the lock's invariants with two
  facts about who may hold the lock is inductive; exclusion, absence of aborts,
  no lost waiter and, as an action property, `NoBarging` follow.
* `RendezProofs`, second half: the lock's invariant, `SleepersExact`, and that a
  task in `tasksleep` remembers a Rendez.  The lemmas of the first half are
  stated for a task that comes from anywhere but the lock's own list, so they
  serve `tasksleep` too; what is new is that lock and Rendez leave each other's
  sleepers alone (`LockStepKeeps`, `WakesKeep`), because a task sleeps in one
  place.  All safety properties of the run `MCRendez` follow, under
  `RendezSpec`.
* `RWLockProofs`: the invariant has two halves.  `Scheduled` says that waiting
  tasks sleep and hold nothing, so that whoever is readied was waiting;
  `Admitted` says that the lock's fields name exactly those who have been let
  in, including those who have not run since, and that nobody waits behind
  nothing.  An unlock needs both: the last `runlock` finds `readers` at 1
  because the count is exact, and a `wunlock` cannot abort because its caller
  is the only one in.  Every safety property of the run `MCRWLock` is proved,
  `ReadersDoNotOvertake` as an action property.
* `ChannelProofs`: `EntriesExact` and `NoMissedMatch` are inductive together and
  not apart.  `chanalt` decides on the entries whether an alternative can be
  executed, so they must be exact for `NoMissedMatch`; and an `altexec` that
  uses the ring does not look at the entries, which is right only because a
  waiting receiver means an empty ring and a waiting sender a full one.  That no
  `altdequeue` aborts follows from exactness: what is dequeued was entered once.
  For the refinement, `Refines`, the ring is read as a queue (`Line`): what is
  put behind the last element or taken at `off`, modulo the size, is an append
  or a tail.  A hand-over to a sleeping task is one step of `ChannelSpec`, in
  which two calls are executed; `chanaltReturns`, the scheduler and `taskyield`
  change nothing there.
* `FdTaskProofs`: the invariant rests on two facts.  `Alone`: `fdtask` blocks in
  `epoll_wait` only when nobody else is ready, so nobody is between having been
  woken and the `EPOLL_CTL_DEL` after it.  `Registered`: whatever is registered
  belongs to an `fdwait` that has not returned.  Together they make every event
  that `epoll_wait` can report that of a sleeping task (`WatchersSleep`), which
  is what `fdtask` relies on when it takes the task off the list.  `Counted`
  bounds `sleepingcounted` from below by the length of the list, since events
  leave it too high and never too low; `CountCovers` follows.  `SleepersExact`
  needs that `place` inserts into a sorted list where it stays sorted, and that
  the overdue tasks are a prefix of it.  The proofs about the operators on lists
  (`place`, `overdue`, `dropsleepers`, `unexpected`) argue by least
  counterexample, from the well-foundedness of `<` on the naturals.
  Without a callback `Watched` is an invariant besides: nobody who waits loses
  the registration.  On a descriptor that is never refused, whoever waits without
  a dup has made the registration under its number, so a late `EPOLL_CTL_DEL`
  finds its own; a refused task has none to lose and can take one away only under
  its own number, which is a refused one.
  `Refines`: every step of `FdTask` is one of `FdWait` or invisible.  A client is
  woken exactly if it is ready or runs in the second half of its call
  (`WokenNow`); one pass of `fdtask` is one `wakes`, whose reasons are possible
  (`ReasonHolds`) because an event is there (`ReadyHappens`) and, for a timeout,
  because without a callback a waiting task whose event is there is among the
  events (`HappensReady`) unless they were too many (`EventsAll`).
  What `FdWait` promises meets what its users do in the middle: `KeepsToFdWait`,
  for `WrapIO` and for `Net`, says that every step of these is one that `FdWait`
  knows.  Their tasks sleep and write `udata` only while they run, and are woken
  only when and as `FdWait` says; the world outside takes nothing away from a
  descriptor while no task runs, which is what `due` judges the reason of a
  wakeup by.  So neither asks of `fd.c` what `FdTask` was not shown to do, nor
  uses it in a way that `FdTask` does not cover.  That the three run together is
  concluded from this and not checked as one specification.
* `WrapIOProofs`: `NothingLost` is kept by each system call because `Underway`
  changes by what the call's `tot` changes (`BytesMoved`, `UnderwayMoves`), and
  when a call returns, that moves from `Underway` to `told` (`LeavesCounts`).
  `OutcomesTrue` needs `ReasonKept`: when a call looks at `udata`, it holds what
  its own wait ended with, since every call but `read1` clears it first and
  nobody but the fd task writes it.  Of a call whose `fdwait` aborted it says
  nothing: that one never looks.
* `NetProofs`: `NoLeak`, `ProgramNeverBlocks` and `OutcomesTrue`.  `NoLeak` is
  stated again descriptor by descriptor (`Owned`), and `CallsOK` says that a call
  in progress has a descriptor of its own, or a listener that was returned;
  without it a failing `netdial` might close somebody else's.  `Flagged` says
  that every open descriptor is nonblocking, which `accepts` and `connects` rely
  on.  A result is true because of what its call knew before it returned:
  `Knows` relates the reason of a wait to the socket the call is about, and
  holds on while others act, because nobody else uses that socket or, on a
  listener, because the call is marked as overtaken.  It is silent about a call
  stopped by an assertion before it slept (`WaitsDoes`).  `ParseIp`'s `LookupExact`
  follows from what the loop has stored after each component, and from a case
  for each class and length (`Classes`, `Spreads`).
* `NetProofs`, last section: `PrintExact` for all ranges of the integer types.
  With the types it is inductive by itself, so that what is to be proved lies
  in the operators.  The digits the loop of line 140 finds from the last to the
  first are those of `Numeral`, which is not recursive: it takes its length from
  the powers of the base, and each digit by division.  That these exist
  (`PowerType`, `WidthExists`), that `FlattenSeq` appends one field after the
  other (`FlattenSolves`, `FlattenAppend`) and that the digits are right for
  every number (`DigitsAreNumeral`) are inductions.  The library's theorems of
  induction have an operator as a parameter; `Induction` and `Recursion` say the
  same of sets and functions, and follow from the least element of a set.
  `LuvIsAbsolute` shows that the detour over a `uvlong` gives the absolute value
  for every type, the least value included; `PrintstrFits` and `PrintstrCut`
  what `printstr` writes with and without enough room; `CutAtEnd` that a field
  that was cut is the end of a beginning.

Some theorems are about properties that no run checks: `TypeOK` of several
modules, `CountExact` of `Task`, `WaitersAsleep` and `NeverAborts` of `RWLock`,
`RunqueueExact` of `QLock` and `Channel`, and `KeepsToFdWait` of `WrapIO` and
`Net`.

`FdTask` assumes that `NULL` is no registration (`RegistrationAssumption`) and
`ParseIp` that "not set" is no address; both say that a pointer or a flag of the
code is told from data.

Only model-checked: all liveness (`ReadyRuns`, `WaiterGetsLock`, `WaiterGetsIn`,
`SleepersReturn`, `CallsReturn`), because fairness and `ENABLED` are out of the
prover's reach.  Every other property that a passing run checks is proved.

## Not modelled

* `context.c`, `asm.S` and the ucontext headers: a context switch is taken to
  be atomic and correct.  Stacks and `needstack` are left out with them.
* The poll version of `fdtask`, which is compiled for systems other than Linux
  only (fd.c:44).
* The wrappers of `recv`, `send`, `recvfrom` and `sendto`, which only say that
  they are not implemented.
* Descriptors that are closed while a task waits on them: epoll then forgets
  the registration or, with a `dup`, keeps it.
* Names and states of tasks and the other debugging functions of `task.c`, the
  build scripts and the example programs.
* Failing `malloc` and `realloc`: the code aborts, exits, or does not look.
* How many registrations the kernel allows, and its memory: `Refused` and the
  aborts are nondeterministic, and no limit but that of descriptors is counted.
* `gethostbyname` as a call that blocks (net.c:136): it is a step like others.
* Several threads: all scheduler state is `__thread`; `taskidgen` is not.

## Plan

1. Descriptors that are closed and opened again while a task waits: a table of
   descriptors and files below `FdTask`.
2. `Tasklist` with explicit links, refined to the sequences used here.
3. `TaskIds` for two threads; the poll version of `fdtask`.
