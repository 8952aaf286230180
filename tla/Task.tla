-------------------------------- MODULE Task --------------------------------
(***************************************************************************)
(* libtask/task.c: creating, scheduling, yielding and ending tasks, the    *)
(* alltask table that owns them, and the end of the scheduler.  The client *)
(* is any program that keeps to task.h: the running task may make any call *)
(* in any order, and readies another task only if that task handed itself  *)
(* over with taskswitch or was made by taskcreateraw.                      *)
(***************************************************************************)
EXTENDS TaskCore

CONSTANTS Chunk,      \* alltask grows by Chunk entries (1024 in the code)
          IntRange,   \* number of values of an int, 2^32 in the build
          ExitValues  \* arguments of taskexit and taskexitall

ASSUME TaskAssumption ==
  /\ Chunk \in Nat \ {0}
  /\ IntRange \in Nat \ {0}
  /\ ExitValues \subseteq Int

VARIABLES
  heap,          \* the allocated Task structures
  alltask,       \* alltask[0 .. nalltask-1], as a sequence
  allcap,        \* entries realloc gave alltask
  alltaskslot,   \* the slot of each task, counted from 1
  taskcount,
  tasknswitch,   \* _tasknswitch, an int that wraps
  taskexitval,
  phase,         \* main() before taskscheduler, in it, or how it ended
  exitcode,      \* the status the process ended with, NULL before that
  at,            \* where each task is: see Places
  saved,         \* local n of taskyield
  ahead, ran     \* history: tasks ready when t yielded, tasks run since

lifeVars == <<heap, alltask, allcap, alltaskslot, taskcount>>
yieldVars == <<saved, ahead, ran>>
endVars == <<taskexitval, phase, exitcode>>
vars == <<coreVars, lifeVars, tasknswitch, endVars, at, yieldVars>>

\* "start": made, never run.  "run": in its own code.  "yield": in taskyield.
\* "away": in a taskswitch of its own.  "free": no task has this address.
Places == {"free", "start", "run", "yield", "away"}
Phases == {"main", "scheduling", "done", "stalled", "exited"}

\* Fault: the switch counter does not wrap.
wrap_Never(x) == x

wrap(x) == x % IntRange

\* Fault: the subtraction does not wrap.
AsInt_Unbounded(x) == x

\* An int computed by wrapping arithmetic.
AsInt(x) == LET m == wrap(x)
            IN  IF 2 * m >= IntRange THEN m - IntRange ELSE m

nalltask == Len(alltask)

TypeOK ==
  /\ CoreTypeOK
  /\ heap \subseteq Tasks
  /\ alltask \in Seq(Tasks)
  /\ allcap \in Nat
  /\ alltaskslot \in [Tasks -> Nat]
  /\ taskcount \in Nat
  /\ tasknswitch \in 0 .. IntRange - 1
  /\ taskexitval \in ExitValues \cup {0}
  /\ phase \in Phases
  /\ exitcode \in ExitValues \cup {0, NULL}
  /\ at \in [Tasks -> Places]
  /\ saved \in [Tasks -> 0 .. IntRange - 1]
  /\ ahead \in [Tasks -> SUBSET Tasks]
  /\ ran \in [Tasks -> SUBSET Tasks]

Init ==
  /\ taskrunqueue = << >> /\ state = [t \in Tasks |-> "none"]
  /\ taskrunning = NULL
  /\ heap = {} /\ alltask = << >> /\ allcap = 0
  /\ alltaskslot = [t \in Tasks |-> 0]
  /\ taskcount = 0 /\ tasknswitch = 0 /\ taskexitval = 0
  /\ phase = "main" /\ exitcode = NULL
  /\ at = [t \in Tasks |-> "free"]
  /\ saved = [t \in Tasks |-> 0]
  /\ ahead = [t \in Tasks |-> {}] /\ ran = [t \in Tasks |-> {}]

-----------------------------------------------------------------------------

\* Client code runs: main() before it calls taskscheduler, or a task.
Running(t) == phase = "scheduling" /\ taskrunning = t /\ at[t] = "run"
ClientRuns == phase = "main" \/ \E t \in Tasks : Running(t)

\* taskalloc and the entry in alltask: malloc returns any free address.
entertask(t) ==
  /\ t \notin heap
  /\ heap' = heap \cup {t}
  /\ allcap' = IF nalltask % Chunk = 0 THEN nalltask + Chunk ELSE allcap
  /\ alltaskslot' = [alltaskslot EXCEPT ![t] = nalltask + 1]
  /\ alltask' = Append(alltask, t)
  /\ at' = [at EXCEPT ![t] = "start"]

\* Fault: the task is not counted.
newtask_Uncounted(t) == UNCHANGED taskcount /\ entertask(t)

newtask(t) == taskcount' = taskcount + 1 /\ entertask(t)

taskcreateraw(t) ==
  /\ ClientRuns
  /\ newtask(t)
  /\ UNCHANGED <<coreVars, tasknswitch, endVars, yieldVars>>

taskcreate(t) ==
  /\ ClientRuns
  /\ newtask(t)
  /\ taskready(t)
  /\ UNCHANGED <<taskrunning, tasknswitch, endVars, yieldVars>>

\* The client wakes a task it holds a reference to.
wake(t) ==
  /\ ClientRuns
  /\ at[t] \in {"start", "away"}
  /\ taskready(t)
  /\ UNCHANGED <<taskrunning, lifeVars, tasknswitch, endVars, at, yieldVars>>

\* taskyield up to the switch.
taskyield(t) ==
  /\ Running(t)
  /\ saved' = [saved EXCEPT ![t] = tasknswitch]
  /\ taskready(t)
  /\ taskswitch
  /\ at' = [at EXCEPT ![t] = "yield"]
  /\ ahead' = [ahead EXCEPT ![t] = {u \in Tasks : state[u] = "ready"}]
  /\ ran' = [ran EXCEPT ![t] = {}]
  /\ UNCHANGED <<lifeVars, tasknswitch, endVars>>

\* The value taskyield returns once it has the CPU again.
yieldresult(t) == AsInt(tasknswitch - saved[t] - 1)

taskyieldReturns(t) ==
  /\ phase = "scheduling" /\ taskrunning = t
  /\ at[t] = "yield"
  /\ at' = [at EXCEPT ![t] = "run"]
  /\ saved' = [saved EXCEPT ![t] = 0]
  /\ ahead' = [ahead EXCEPT ![t] = {}]
  /\ ran' = [ran EXCEPT ![t] = {}]
  /\ UNCHANGED <<coreVars, lifeVars, tasknswitch, endVars>>

\* taskswitch called by the task itself, which has first given a reference
\* away or put itself in the run queue.
switchaway(t, queued) ==
  /\ Running(t)
  /\ IF queued THEN taskready(t) ELSE UNCHANGED <<taskrunqueue, state>>
  /\ taskswitch
  /\ at' = [at EXCEPT ![t] = "away"]
  /\ UNCHANGED <<lifeVars, tasknswitch, endVars, yieldVars>>

taskexit(t, val) ==
  /\ Running(t)
  /\ taskexitval' = val
  /\ state' = [state EXCEPT ![t] = "exiting"]
  /\ taskswitch
  /\ UNCHANGED <<taskrunqueue, lifeVars, tasknswitch, phase, exitcode, at,
                 yieldVars>>

taskexitall(t, val) ==
  /\ Running(t)
  /\ phase' = "exited" /\ exitcode' = val
  /\ UNCHANGED <<coreVars, lifeVars, tasknswitch, taskexitval, at, yieldVars>>

-----------------------------------------------------------------------------

\* main() calls taskscheduler.
startscheduler ==
  /\ phase = "main"
  /\ phase' = "scheduling"
  /\ UNCHANGED <<coreVars, lifeVars, tasknswitch, taskexitval, exitcode, at,
                 yieldVars>>

\* Back in the scheduler after a context switch: is the task to be freed?
reaping == \E t \in Tasks : state[t] = "exiting"

LoopTop == phase = "scheduling" /\ taskrunning = NULL /\ ~reaping

\* Fault: the last entry does not move into the hole.
dropslot_LeavesHole(i) == [k \in 1 .. nalltask - 1 |-> alltask[k]]

\* Take alltask[i] out: the last entry moves to its place.
dropslot(i) == [k \in 1 .. nalltask - 1 |->
                   IF k = i THEN alltask[nalltask] ELSE alltask[k]]

\* The exiting task: its table slot is given to the last task, it is freed.
reap(t) ==
  /\ phase = "scheduling" /\ taskrunning = NULL
  /\ state[t] = "exiting"
  /\ taskcount' = taskcount - 1
  /\ alltask' = dropslot(alltaskslot[t])
  /\ alltaskslot' = [alltaskslot EXCEPT
                       ![alltask[nalltask]] = alltaskslot[t], ![t] = 0]
  /\ heap' = heap \ {t}
  /\ state' = [state EXCEPT ![t] = "none"]
  /\ at' = [at EXCEPT ![t] = "free"]
  /\ UNCHANGED <<taskrunqueue, taskrunning, allcap, tasknswitch, endVars,
                 yieldVars>>

dispatch ==
  /\ LoopTop
  /\ taskcount # 0
  /\ schedule
  /\ tasknswitch' = wrap(tasknswitch + 1)
  /\ LET t == Head(taskrunqueue)
     IN  /\ at' = [at EXCEPT ![t] = IF @ = "yield" THEN @ ELSE "run"]
         /\ ran' = [u \in Tasks |-> IF at[u] = "yield" /\ u # t
                                    THEN ran[u] \cup {t} ELSE ran[u]]
  /\ UNCHANGED <<lifeVars, endVars, saved, ahead>>

\* The loop ends, every task is freed, and main() returns 0.
schedulerReturns ==
  /\ LoopTop
  /\ taskcount = 0 \/ taskrunqueue = << >>
  /\ phase' = IF taskcount = 0 THEN "done" ELSE "stalled"
  /\ heap' = heap \ Range(alltask)
  /\ alltask' = << >>
  /\ exitcode' = 0
  /\ UNCHANGED <<coreVars, allcap, alltaskslot, taskcount, tasknswitch,
                 taskexitval, at, yieldVars>>

\* The process has ended.
Ended == phase \in {"done", "stalled", "exited"}
terminated == Ended /\ UNCHANGED vars

Scheduler == startscheduler \/ dispatch \/ schedulerReturns
                            \/ \E t \in Tasks : reap(t)
GivesUp(t) == \/ taskyield(t)
              \/ \E queued \in BOOLEAN : switchaway(t, queued)
              \/ \E val \in ExitValues : taskexit(t, val) \/ taskexitall(t, val)
Next ==
  \/ \E t \in Tasks : \/ taskcreateraw(t) \/ taskcreate(t) \/ wake(t)
                      \/ taskyieldReturns(t) \/ GivesUp(t)
  \/ Scheduler
  \/ terminated

\* The scheduler runs whenever no task does, and a task that has the CPU gives
\* it up in the end: scheduling is cooperative.
Fairness == /\ WF_vars(Scheduler)
            /\ WF_vars(\E t \in Tasks : taskyieldReturns(t))
            /\ WF_vars(\E t \in Tasks : GivesUp(t))

Spec == Init /\ [][Next]_vars
FairSpec == Spec /\ Fairness

-----------------------------------------------------------------------------

\* alltask lists each allocated task once, at the slot the task remembers,
\* and never outgrows its allocation: taskcreateraw appends and the scheduler
\* moves the last entry into the hole.
AlltaskExact ==
  /\ Range(alltask) = heap
  /\ \A t \in heap : alltaskslot[t] \in 1 .. nalltask /\ alltask[alltaskslot[t]] = t
  /\ IsInjective(alltask)
  /\ nalltask <= allcap

\* No freed task is reachable: what is queued or running is allocated, until
\* the scheduler returns and frees the rest.
NoDangling ==
  phase \in {"main", "scheduling"} =>
    /\ Range(taskrunqueue) \subseteq heap
    /\ taskrunning \in heap \cup {NULL}

\* The scheduler stops with "no runnable tasks" only when each task left is
\* one its client put away or never readied: no task is lost in a yield.
StallOnlyWhenAway ==
  LoopTop /\ taskrunqueue = << >> =>
    \A t \in heap : at[t] \in {"start", "away"}

\* taskcount counts the allocated tasks: zero tasks left is how the scheduler
\* knows it is done.
CountExact == phase \in {"main", "scheduling"} => taskcount = nalltask

\* taskyield returns the number of other tasks that ran while the caller
\* waited, whatever the switch counter was and even when it wrapped
\* (taskyield; README of the library, taskyield).
YieldCounts ==
  \A t \in Tasks : at[t] = "yield" /\ taskrunning = t
    => yieldresult(t) = Cardinality(ran[t])

\* A task that yields is scheduled again after every task that was ready at
\* the time has run, and not after any other (taskyield, taskready).
YieldIsFair ==
  \A t \in Tasks : at[t] = "yield" /\ taskrunning = t => ran[t] = ahead[t]

\* A task in the run queue gets the CPU, unless the process ends.
ReadyRuns ==
  \A t \in Tasks : state[t] = "ready" ~> (taskrunning = t \/ Ended)

=============================================================================
