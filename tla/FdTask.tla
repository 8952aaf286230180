------------------------------- MODULE FdTask -------------------------------
(***************************************************************************)
(* libtask/fd.c on Linux: taskdelay, fdwait and the fd task, which runs    *)
(* epoll_wait when nothing else is ready and wakes the sleeping tasks.     *)
(* The clients delay, wait, exit and yield in any order; they wait on an   *)
(* open descriptor and ready no task that sleeps here.  The kernel may     *)
(* refuse what fd.c asks of it, and must when no descriptor is left.       *)
(*                                                                         *)
(* Time is counted in ticks, Ms of them to the millisecond.  An alarm time *)
(* is kept relative to the clock and stops at -1, "in the past"; a tick is *)
(* a step of its own, so time passes between any two steps and while       *)
(* epoll_wait blocks, but not beyond the timeout epoll_wait was given.     *)
(***************************************************************************)
EXTENDS TaskCore

CONSTANTS
  fdtask,     \* the task that runs fdtask()
  Fds,        \* descriptors
  Refused,    \* those that epoll_ctl may refuse to register
  Limit,      \* descriptors that the clients leave to fd.c
  RW,         \* the argument rw of fdwait: "r", "w", or "e" for any other
  Delays,     \* arguments of taskdelay, in ms
  FdTimeout,  \* how long fdwait waits, in ms (30000 in the code)
  PollMax,    \* how long epoll_wait blocks, in ms (20 in the code)
  Ms,         \* ticks to the millisecond
  MaxEvents,  \* events one epoll_wait returns (1000 in the code)
  Data,       \* what clients store with taskdata
  Callback,   \* may a client call startfdtask with a function
  Yields      \* may a client call taskyield

ASSUME FdAssumption ==
  /\ fdtask \in Tasks /\ IsFiniteSet(Tasks)
  /\ RW \subseteq {"r", "w", "e"}
  /\ Refused \subseteq Fds /\ Limit \in Nat
  /\ Delays \subseteq Nat
  /\ {FdTimeout, PollMax, Ms, MaxEvents} \subseteq Nat \ {0}
  /\ {Callback, Yields} \subseteq BOOLEAN

Clients == Tasks \ {fdtask}

VARIABLES
  sleeping,         \* the list of sleeping tasks
  due,              \* alarmtime of a sleeping task, relative to the clock
  sleepingcounted,
  taskcount,
  startedfdtask,
  poolfn, v,        \* is _pool_loop_fn set, and is fdtask's argument
  instances,        \* epoll instances made; none is ever closed
  udata,            \* what taskdata() returns
  alive,            \* tasks created and not reaped
  at,               \* where each task is: see Places
  wait,             \* the locals of a task's fdwait, NULL outside
  epfd,             \* the registrations of the epoll instance
  possible,         \* what can be done on each descriptor
  timeout,          \* ticks left of the timeout of the epoll_wait
  others,           \* fdtask's taskyield is to return more than 0
  phase             \* the scheduler runs, or how it ended

countVars == <<sleepingcounted, taskcount>>
poolVars == <<startedfdtask, poolfn, v, instances>>
sleepVars == <<sleeping, due, countVars, poolVars, alive, epfd>>
vars == <<coreVars, sleepVars, udata, at, wait, possible, timeout, others, phase>>

\* "delay" and "fdwait" are past the switch of taskdelay and fdwait, "yield"
\* and "epoll" in taskyield and epoll_wait.
Places == {"run", "delay", "fdwait", "yield", "epoll"}

\* An entry of the epoll instance; own: fd is the task's own dup of it.
Registrations == [task : Clients, fd : Fds, rw : RW, own : BOOLEAN]

ASSUME RegistrationAssumption ==
  NULL \notin Registrations \cup [fd : Fds, rw : RW, own : BOOLEAN]

\* No test the code makes tells apart the values of sleepingcounted from here
\* on: at most all the clients are taken off the list before one is added.
MaxCounted == Cardinality(Tasks) + 1

TypeOK ==
  /\ CoreTypeOK
  /\ sleeping \in Seq(Clients)
  /\ due \in [Tasks -> Int]
  /\ sleepingcounted \in 0 .. MaxCounted
  /\ taskcount \in Nat
  /\ {startedfdtask, poolfn, v, others} \subseteq BOOLEAN
  /\ instances \in Nat
  /\ udata \in [Tasks -> {"NULL", "LIBTASK_TIMEOUT", "EIO"} \cup Data]
  /\ alive \subseteq Tasks
  /\ at \in [Tasks -> Places]
  /\ wait \in [Tasks -> Registrations \cup {NULL}]
  /\ epfd \subseteq Registrations
  /\ possible \in [Fds -> SUBSET {"r", "w", "e"}]
  /\ timeout \in Nat
  /\ phase \in {"scheduling", "done", "stalled", "exited", "aborted"}

\* The clients have been created, in any order, and the scheduler has started.
Init ==
  /\ taskrunqueue \in [1 .. Cardinality(Clients) -> Clients]
  /\ IsInjective(taskrunqueue)
  /\ state = [t \in Tasks |-> IF t = fdtask THEN "none" ELSE "ready"]
  /\ taskrunning = NULL
  /\ sleeping = << >> /\ due = [t \in Tasks |-> 0]
  /\ sleepingcounted = 0 /\ taskcount = Cardinality(Clients)
  /\ startedfdtask = FALSE /\ poolfn = FALSE /\ v = FALSE /\ instances = 0
  /\ udata = [t \in Tasks |-> "NULL"]
  /\ alive = Clients
  /\ at = [t \in Tasks |-> IF t = fdtask THEN "yield" ELSE "run"]
  /\ wait = [t \in Tasks |-> NULL]
  /\ epfd = {} /\ possible = [f \in Fds |-> {}]
  /\ timeout = 0 /\ others = TRUE
  /\ phase = "scheduling"

-----------------------------------------------------------------------------
(* The clients.                                                            *)

Runs(t, place) == phase = "scheduling" /\ taskrunning = t /\ at[t] = place

\* The epoll instance a call works on: _startfdtask makes a new one.
instance == IF startedfdtask THEN epfd ELSE {}

\* Descriptors left, when each fdwait that made a dup has one of them.
spare == Limit - instances - Cardinality({t \in Clients : wait[t] # NULL /\ wait[t].own})

started == IF startedfdtask THEN 0 ELSE 1

\* _startfdtask makes an epoll instance and forgets the former one.  fdtask
\* begins with a taskyield that returns at once, as far as its loop can tell.
startfd ==
  /\ startedfdtask \/ spare > 0
  /\ startedfdtask' = TRUE
  /\ instances' = instances + started
  /\ alive' = alive \cup {fdtask}
  /\ IF startedfdtask THEN UNCHANGED <<taskrunqueue, state>> ELSE taskready(fdtask)

\* Fault: the alarms are not compared.
place_Ignored(d) == Len(sleeping)

\* The last sleeping task with an alarm before d: a task goes after it, ahead
\* of those with the same alarm.
place(d) == CHOOSE k \in 0 .. Len(sleeping) :
              /\ k = 0 \/ due[sleeping[k]] < d
              /\ \A i \in k + 1 .. Len(sleeping) : due[sleeping[i]] >= d

\* Fault: the count of sleeping tasks does not reach taskcount.
addsleeper_Uncounted == taskcount' = taskcount + started

addsleeper == taskcount' = taskcount + started + (IF sleepingcounted = 0 THEN 1 ELSE 0)

\* The body of taskdelay(d) up to its switch.
sleep(t, d) ==
  /\ startfd
  /\ sleeping' = SubSeq(sleeping, 1, place(d)) \o <<t>>
                   \o SubSeq(sleeping, place(d) + 1, Len(sleeping))
  /\ due' = [due EXCEPT ![t] = d]
  /\ sleepingcounted' = IF sleepingcounted = MaxCounted THEN MaxCounted
                        ELSE sleepingcounted + 1
  /\ addsleeper
  /\ v' = IF startedfdtask THEN v ELSE poolfn
  /\ taskswitch
  /\ UNCHANGED <<poolfn, udata, possible, timeout, others, phase>>

taskdelay(t, ms) ==
  /\ Runs(t, "run")
  /\ sleep(t, ms * Ms)
  /\ at' = [at EXCEPT ![t] = "delay"]
  /\ epfd' = instance
  /\ UNCHANGED wait

\* fdwait up to the switch of its taskdelay.  EPOLL_CTL_ADD of a descriptor
\* that is registered already fails with EEXIST and is done for a dup of it.
\* If it fails otherwise (EPERM for a regular file, ENOSPC, ENOMEM) the task
\* goes to sleep all the same.
fdwait(t, f, rw) ==
  LET dup == \E r \in instance : r.fd = f /\ ~r.own
      reg == [task |-> t, fd |-> f, rw |-> rw, own |-> dup]
  IN  /\ Runs(t, "run")
      /\ \/ (dup => spare > 0) /\ epfd' = instance \cup {reg}
         \/ ~dup /\ f \in Refused /\ epfd' = instance
      /\ wait' = [wait EXCEPT ![t] = reg]
      /\ sleep(t, FdTimeout * Ms)
      /\ at' = [at EXCEPT ![t] = "fdwait"]

aborts(t) ==
  /\ Runs(t, "run")
  /\ phase' = "aborted"
  /\ UNCHANGED <<coreVars, sleepVars, udata, at, wait, possible, timeout, others>>

\* assert(epfd >= 0): no descriptor or no memory for an epoll instance.
startfdAborts(t) == ~startedfdtask /\ aborts(t)

\* assert(r == 0): no descriptor for the dup, or its registration is refused.
fdwaitAborts(t) == (\E r \in instance : ~r.own) /\ aborts(t)

delayReturns(t) ==
  /\ Runs(t, "delay")
  /\ at' = [at EXCEPT ![t] = "run"]
  /\ UNCHANGED <<coreVars, sleepVars, udata, wait, possible, timeout, others, phase>>

\* Fault: the registration is left in place.
epollctldel_Skipped(reg) == UNCHANGED epfd

\* Fault: the dup that was made for the registration is forgotten.
epollctldel_Original(reg) == epfd' = {r \in epfd : r.fd # reg.fd \/ r.own}

\* EPOLL_CTL_DEL finds a registration by its descriptor alone.
epollctldel(reg) ==
  epfd' = {r \in epfd : \/ r.fd # reg.fd \/ r.own # reg.own
                        \/ reg.own /\ r.task # reg.task}

fdwaitReturns(t) ==
  /\ Runs(t, "fdwait")
  /\ epollctldel(wait[t])
  /\ wait' = [wait EXCEPT ![t] = NULL]
  /\ at' = [at EXCEPT ![t] = "run"]
  /\ UNCHANGED <<coreVars, sleeping, due, countVars, poolVars, alive, udata,
                 possible, timeout, others, phase>>

\* The client stores its own data with taskdata(), or reads or writes a
\* descriptor until nothing more is possible.
taskdata(t, data) ==
  /\ Runs(t, "run")
  /\ udata' = [udata EXCEPT ![t] = data]
  /\ UNCHANGED <<coreVars, sleepVars, at, wait, possible, timeout, others, phase>>

consume(t, f) ==
  /\ Runs(t, "run")
  /\ possible' = [possible EXCEPT ![f] = {}]
  /\ UNCHANGED <<coreVars, sleepVars, udata, at, wait, timeout, others, phase>>

\* A function given once fdtask runs is for the next fdtask.
startfdtask(t, fn) ==
  /\ Runs(t, "run")
  /\ fn => Callback
  /\ startfd
  /\ poolfn' = fn
  /\ v' = IF startedfdtask THEN v ELSE fn
  /\ taskcount' = taskcount + started
  /\ epfd' = instance
  /\ UNCHANGED <<taskrunning, sleeping, due, sleepingcounted, udata, at, wait,
                 possible, timeout, others, phase>>

taskyield(t) ==
  /\ Yields /\ Runs(t, "run")
  /\ taskready(t) /\ taskswitch
  /\ UNCHANGED <<sleepVars, udata, at, wait, possible, timeout, others, phase>>

\* taskexit, and the scheduler that frees the task before it goes on.
taskexit(t) ==
  /\ Runs(t, "run")
  /\ alive' = alive \ {t}
  /\ taskcount' = taskcount - 1
  /\ taskswitch
  /\ UNCHANGED <<taskrunqueue, state, sleeping, due, sleepingcounted, poolVars,
                 udata, at, wait, epfd, possible, timeout, others, phase>>

-----------------------------------------------------------------------------
(* The fd task.                                                            *)

\* while(taskyield() > 0), and the continue after EINTR.
yields == taskready(fdtask) /\ taskswitch /\ others' = FALSE

fdtaskYields ==
  /\ Runs(fdtask, "yield") /\ others
  /\ yields
  /\ UNCHANGED <<sleepVars, udata, at, wait, possible, timeout, phase>>

\* Fault: the first alarm is not looked at.
ms_Full == PollMax * Ms

\* How long to block: until the first alarm, in whole milliseconds.
ms == IF sleeping = << >> \/ due[Head(sleeping)] <= 0 THEN 0
      ELSE IF due[Head(sleeping)] > PollMax * Ms THEN PollMax * Ms
      ELSE (due[Head(sleeping)] \div Ms) * Ms

fdtaskPolls ==
  /\ Runs(fdtask, "yield") /\ ~others
  /\ at' = [at EXCEPT ![fdtask] = "epoll"]
  /\ timeout' = ms
  /\ UNCHANGED <<coreVars, sleepVars, udata, wait, possible, others, phase>>

\* epoll_wait fails: with EINTR, or otherwise.
fdtaskInterrupted ==
  /\ Runs(fdtask, "epoll")
  /\ at' = [at EXCEPT ![fdtask] = "yield"] /\ timeout' = 0
  /\ yields
  /\ UNCHANGED <<sleepVars, udata, wait, possible, phase>>

fdtaskFails ==
  /\ Runs(fdtask, "epoll")
  /\ phase' = "exited"
  /\ UNCHANGED <<coreVars, sleepVars, udata, at, wait, possible, timeout, others>>

Ready == {r \in epfd : possible[r.fd] \cap {r.rw, "e"} # {}}

\* The tasks of the events one epoll_wait returns, in any order.
Events == UNION {{ts \in [1 .. Cardinality(S) -> {r.task : r \in S}] : IsInjective(ts)} :
  S \in {S \in SUBSET Ready : \/ Cardinality(S) = MaxEvents
                              \/ S = Ready /\ Cardinality(S) < MaxEvents}}

\* Fault: a task with an event stays in the list.
unexpected_All(ts) == sleeping

\* The list without the tasks that have an event, in the same order.
unexpected(ts) ==
  LET left == Range(sleeping) \ Range(ts)
  IN  CHOOSE q \in [1 .. Cardinality(left) -> left] :
        \A i, j \in DOMAIN q : i < j =>
          \E k, l \in DOMAIN sleeping : k < l /\ sleeping[k] = q[i] /\ sleeping[l] = q[j]

\* Fault: the loop goes on past the first alarm that is not due.
overdue_All(s) == Len(s)

\* The number of tasks at the front of the list whose alarm is due.
overdue(s) == CHOOSE k \in 0 .. Len(s) :
                /\ \A i \in 1 .. k : due[s[i]] <= 0
                /\ k < Len(s) => due[s[k + 1]] > 0

\* Fault: taskcount is decremented with every task taken off.
dropsleepers_Each(n) == taskcount - n

\* taskcount after --sleepingcounted, tested against 0, n times.
dropsleepers(n) == IF sleepingcounted \in 1 .. n THEN taskcount - 1 ELSE taskcount

\* Fault: startedfdtask is not reset.
fdtaskReturns_NotReset == UNCHANGED startedfdtask

fdtaskReturns == startedfdtask' = FALSE

\* epoll_wait returns events for the tasks ts.  The tasks with an event, those
\* whose alarm is due and, if the callback returns -1, all the others are
\* taken off the list, marked and readied, in this order.  Then fdtask loops,
\* or returns and is freed by the scheduler.
fdtaskWakes(ts, stop) == \E rest \in {unexpected(ts)} :
  LET k == overdue(rest)
      n == IF stop THEN Len(rest) ELSE k
      woken == ts \o SubSeq(rest, 1, n)
  IN  /\ Runs(fdtask, "epoll")
      /\ Ready # {} \/ timeout = 0
      /\ stop => v
      /\ sleeping' = SubSeq(rest, n + 1, Len(rest))
      /\ sleepingcounted' = sleepingcounted - n
      /\ due' = [t \in Tasks |-> IF t \in Range(woken) THEN 0 ELSE due[t]]
      /\ udata' = [t \in Tasks |->
           IF t \in Range(SubSeq(rest, 1, k)) THEN "LIBTASK_TIMEOUT"
           ELSE IF t \in Range(SubSeq(rest, k + 1, n)) THEN "EIO"
           ELSE IF t \in Range(ts) THEN "NULL" ELSE udata[t]]
      /\ at' = [at EXCEPT ![fdtask] = "yield"] /\ timeout' = 0
      /\ taskswitch
      /\ IF stop THEN /\ fdtaskReturns
                      /\ alive' = alive \ {fdtask}
                      /\ taskcount' = dropsleepers(n) - 1
                      /\ others' = TRUE
                      /\ taskreadyall(woken)
                 ELSE /\ UNCHANGED <<startedfdtask, alive>>
                      /\ taskcount' = dropsleepers(n)
                      /\ others' = FALSE
                      /\ taskreadyall(Append(woken, fdtask))
      /\ UNCHANGED <<poolfn, v, instances, epfd, wait, possible, phase>>

-----------------------------------------------------------------------------

dispatch ==
  /\ phase = "scheduling" /\ taskcount # 0
  /\ schedule
  /\ others' = (others \/ Head(taskrunqueue) # fdtask)
  /\ UNCHANGED <<sleepVars, udata, at, wait, possible, timeout, phase>>

schedulerReturns ==
  /\ phase = "scheduling" /\ taskrunning = NULL
  /\ taskcount = 0 \/ taskrunqueue = << >>
  /\ phase' = IF taskcount = 0 THEN "done" ELSE "stalled"
  /\ UNCHANGED <<coreVars, sleepVars, udata, at, wait, possible, timeout, others>>

\* The clock goes on.
tick ==
  /\ phase = "scheduling"
  /\ Runs(fdtask, "epoll") => timeout > 0
  /\ timeout' = IF timeout > 0 THEN timeout - 1 ELSE 0
  /\ due' = [t \in Tasks |-> IF t \in Range(sleeping) /\ due[t] >= 0
                             THEN due[t] - 1 ELSE due[t]]
  /\ UNCHANGED <<coreVars, sleeping, countVars, poolVars, alive, epfd, udata, at,
                 wait, possible, others, phase>>

\* Something becomes possible on a descriptor.
arrive(f, what) ==
  /\ phase = "scheduling"
  /\ possible' = [possible EXCEPT ![f] = @ \cup {what}]
  /\ UNCHANGED <<coreVars, sleepVars, udata, at, wait, timeout, others, phase>>

terminated == phase # "scheduling" /\ UNCHANGED vars

Environment == tick \/ \E f \in Fds, what \in RW \cup {"e"} : arrive(f, what)

FdTaskStep == fdtaskYields \/ fdtaskPolls
                           \/ \E ts \in Events, stop \in BOOLEAN : fdtaskWakes(ts, stop)

GivesUp(t) == \/ \E d \in Delays : taskdelay(t, d)
              \/ \E f \in Fds, rw \in RW : fdwait(t, f, rw)
              \/ taskyield(t) \/ taskexit(t)
Returns(t) == delayReturns(t) \/ fdwaitReturns(t)

Next ==
  \/ \E t \in Clients : \/ GivesUp(t) \/ Returns(t)
                        \/ startfdAborts(t) \/ fdwaitAborts(t)
                        \/ \E data \in Data : taskdata(t, data)
                        \/ \E f \in Fds : consume(t, f)
                        \/ \E fn \in BOOLEAN : startfdtask(t, fn)
  \/ FdTaskStep \/ fdtaskInterrupted \/ fdtaskFails
  \/ dispatch \/ schedulerReturns
  \/ Environment
  \/ terminated

\* The scheduler runs, a client that has the CPU gives it up in the end, time
\* goes on, and epoll_wait is not interrupted or failing forever.
Fairness ==
  /\ WF_vars(dispatch) /\ WF_vars(schedulerReturns) /\ SF_vars(tick)
  /\ WF_vars(fdtaskYields) /\ WF_vars(fdtaskPolls)
  /\ SF_vars(\E ts \in Events, stop \in BOOLEAN : fdtaskWakes(ts, stop))
  /\ \A t \in Clients : WF_vars(GivesUp(t)) /\ WF_vars(Returns(t))

Spec == Init /\ [][Next]_vars
FairSpec == Spec /\ Fairness

-----------------------------------------------------------------------------

Polling == Runs(fdtask, "epoll")

\* The list holds each task that is in taskdelay or fdwait and has not been
\* woken, once, in the order of the alarms: fdtask looks at its head only.
SleepersExact ==
  /\ IsInjective(sleeping)
  /\ Range(sleeping) = {t \in Clients : at[t] # "run" /\ state[t] = "none"
                                                      /\ taskrunning # t}
  /\ \A i, j \in DOMAIN sleeping : i < j => due[sleeping[i]] <= due[sleeping[j]]

\* While epoll_wait can return an event, the task it points to is in the list
\* and waits for that very descriptor: deltask of a task that is not in the
\* list, or has been freed, would tear the list apart (fdtask, fdwait).
WatchersSleep ==
  Polling => \A r \in epfd : r.task \in Range(sleeping) /\ wait[r.task] = r

\* A task asleep in fdwait is registered with epoll: "epoll will try to revive
\* the task and add it to run queue again" (comment on fdwait).  This is so of
\* a descriptor whose registration is never refused; otherwise a task that was
\* refused sleeps unregistered, and its late EPOLL_CTL_DEL removes the
\* registration that another task has made under the same number since.
SleepersWatched ==
  \A t \in Range(sleeping) :
    at[t] = "fdwait" => wait[t] \in epfd \/ wait[t].fd \in Refused

\* Whoever sleeps has an fd task that polls for it, also after an fd task that
\* its callback stopped.
SleepersAttended ==
  sleeping # << >> =>
    startedfdtask /\ (state[fdtask] = "ready" \/ taskrunning = fdtask)

\* epoll_wait returns before anyone oversleeps.
NeverOversleeps ==
  Polling /\ timeout > 0 => \A t \in Range(sleeping) : due[t] >= timeout

\* The scheduler does not return, and taskcount does not fall to zero, while a
\* task is left or sleeps.
CountCovers ==
  phase # "exited" =>
    taskcount >= Cardinality(alive) + (IF sleeping = << >> THEN 0 ELSE 1)

\* "all sleeping tasks are counted a single task" (comment on sleepingcounted):
\* taskcount is the number of tasks, and one more while any sleeps.
SleepersCountedOnce ==
  taskcount = Cardinality(alive) + (IF sleeping = << >> THEN 0 ELSE 1)

\* taskdelay gives up the CPU "for at least ms milliseconds" (library README).
DelayAtLeast ==
  [][\A t \in Range(sleeping) : at[t] = "delay" /\ t \notin Range(sleeping')
       => due[t] <= 0]_vars

\* How a client sees it: which client runs, where each is, what it waits for
\* and what it is told, and whether the program has ended by an assertion.
Woken(t) == at[t] # "run" /\ t \notin Range(sleeping)

Running == IF taskrunning \in Clients THEN taskrunning ELSE NULL
StageOf == [t \in Clients |-> IF Woken(t) THEN "woken" ELSE at[t]]
Waited == [t \in Clients |-> IF wait[t] = NULL THEN NULL
                             ELSE [fd |-> wait[t].fd, rw |-> wait[t].rw,
                                   own |-> wait[t].own]]
Told == [t \in Clients |-> udata[t]]
Aborted == phase = "aborted"

Promise == INSTANCE FdWait WITH
  taskrunning <- Running, stage <- StageOf, wait <- Waited, udata <- Told,
  aborted <- Aborted

\* fdtask, fdwait and taskdelay keep what FdWait promises: a task is woken by
\* an event only if that event is there, as timed out only if it is not (or
\* there were too many for one epoll_wait, or the descriptor is one that may
\* have been refused), is told so in its udata, which nobody else writes, and
\* runs only after it was woken.
FdWaitPromised == Promise!FdWaitSpec

\* A task that sleeps runs again, whatever epoll reports and however its fd
\* task was stopped meanwhile, also if its descriptor was refused, if no client
\* goes on yielding and the program does not end by exit or by an assertion.
SleepersReturn ==
  \A t \in Clients : at[t] # "run" ~> (at[t] = "run" \/ phase \in {"exited", "aborted"})

=============================================================================
