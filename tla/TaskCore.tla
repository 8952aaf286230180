------------------------------ MODULE TaskCore ------------------------------
(***************************************************************************)
(* The part of libtask/task.c that every blocking primitive is built on:   *)
(* the run queue, the _state flag of a task, the running task, taskready   *)
(* and the scheduler's choice of the next task.  The other modules extend  *)
(* this one and add the state of one primitive each.                       *)
(*                                                                         *)
(* Scheduling is cooperative: between two context switches a task runs     *)
(* alone, so a call of the library is one step, or, when it blocks, one    *)
(* step up to its taskswitch and another one after it.  A Tasklist (the    *)
(* head, tail and the intrusive next and prev links) is the sequence of    *)
(* its tasks.                                                              *)
(*                                                                         *)
(* A definition introduced as a fault is what a plausible bug would make   *)
(* of the definition after it; no specification uses one.                  *)
(***************************************************************************)
EXTENDS Integers, Sequences, FiniteSets, Functions

CONSTANTS Tasks,  \* the Task structures, identified by their addresses
          NULL    \* the null pointer

ASSUME NullAssumption == NULL \notin Tasks

VARIABLES taskrunqueue,  \* the run queue
          state,         \* _state of each task: "none" is the 0 of memset
          taskrunning    \* the running task, NULL while the scheduler runs

coreVars == <<taskrunqueue, state, taskrunning>>

States == {"none", "ready", "exiting"}

CoreTypeOK ==
  /\ taskrunqueue \in Seq(Tasks)
  /\ state \in [Tasks -> States]
  /\ taskrunning \in Tasks \cup {NULL}

\* Fault: a list is a stack.
addtask_AtHead(l, t) == <<t>> \o l

addtask(l, t) == Append(l, t)

\* deltask of the first task of a list, the only one the locks, the rendez
\* and the scheduler take out.
delhead(l) == Tail(l)

\* Fault: no early return for a ready task.
taskready_Again(t) ==
  taskrunqueue' = addtask(taskrunqueue, t) /\ state' = [state EXCEPT ![t] = "ready"]

\* Fault: the task is flagged and not queued.
taskready_NotQueued(t) ==
  state' = [state EXCEPT ![t] = "ready"] /\ UNCHANGED taskrunqueue

taskready(t) ==
  IF state[t] = "ready" THEN UNCHANGED <<taskrunqueue, state>>
  ELSE /\ taskrunqueue' = addtask(taskrunqueue, t)
       /\ state' = [state EXCEPT ![t] = "ready"]

\* taskready on each task of a waiting list in turn.  Waiting tasks are never
\* in the run queue, so taskready's early return is not taken; if one were,
\* it would stand in the run queue twice and break RunqueueExact.
taskreadyall(ts) ==
  /\ taskrunqueue' = taskrunqueue \o ts
  /\ state' = [t \in Tasks |-> IF t \in Range(ts) THEN "ready" ELSE state[t]]

\* The switch to the scheduler, whose next statement clears taskrunning.
taskswitch == taskrunning' = NULL

\* Fault: the _state flag of the task is not cleared.
schedule_KeepsFlag ==
  /\ taskrunning = NULL
  /\ taskrunqueue # << >>
  /\ taskrunqueue' = delhead(taskrunqueue)
  /\ taskrunning' = Head(taskrunqueue)
  /\ UNCHANGED state

\* One round of the scheduler's loop: the head of the run queue gets the CPU.
schedule ==
  /\ taskrunning = NULL
  /\ taskrunqueue # << >>
  /\ taskrunqueue' = delhead(taskrunqueue)
  /\ state' = [state EXCEPT ![Head(taskrunqueue)] = "none"]
  /\ taskrunning' = Head(taskrunqueue)

-----------------------------------------------------------------------------

\* The _state flag and the run queue agree: a task is flagged ready exactly
\* when it is in the run queue, it is there once, and the running task is not
\* in it (taskready, taskscheduler).
RunqueueExact ==
  /\ IsInjective(taskrunqueue)
  /\ Range(taskrunqueue) = {t \in Tasks : state[t] = "ready"}
  /\ taskrunning # NULL => state[taskrunning] # "ready"

=============================================================================
