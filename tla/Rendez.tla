------------------------------- MODULE Rendez -------------------------------
(***************************************************************************)
(* libtask/rendez.c: condition variables, composed with the QLock that a   *)
(* Rendez may name in its field l.  A client holding the lock sleeps only  *)
(* on a Rendez that names it, one that does not hold it only on a Rendez   *)
(* without a lock; it may wake the others with or without the lock.        *)
(***************************************************************************)
EXTENDS QLock

CONSTANTS Rendezes,  \* the Rendez structures
          Locked     \* those whose field l is the lock; in the others it is 0

ASSUME RendezAssumption == Locked \subseteq Rendezes /\ NULL \notin Rendezes

VARIABLES
  sleepers,  \* the list waiting of each Rendez
  on         \* the argument r of the tasksleep a task is in

rendezVars == <<sleepers, on>>
allVars == <<vars, rendezVars>>

RendezTypeOK ==
  /\ TypeOK
  /\ sleepers \in [Rendezes -> Seq(Tasks)]
  /\ on \in [Tasks -> Rendezes \cup {NULL}]

RendezInit ==
  /\ Init
  /\ sleepers = [r \in Rendezes |-> << >>]
  /\ on = [t \in Tasks |-> NULL]

-----------------------------------------------------------------------------

\* Fault: tasksleep unlocks whether or not the Rendez names a lock.
release_Always(t, r) == unlock(t)

release(t, r) ==
  IF r \in Locked THEN unlock(t)
  ELSE UNCHANGED <<taskrunqueue, state, lockVars, holds, aborted>>

\* tasksleep up to the switch: join the list, release the lock, switch.
tasksleep(t, r) ==
  /\ Runs(t, "run")
  /\ r \in Locked <=> holds[t]
  /\ sleepers' = [sleepers EXCEPT ![r] = addtask(@, t)]
  /\ on' = [on EXCEPT ![t] = r]
  /\ release(t, r)
  /\ taskswitch
  /\ at' = [at EXCEPT ![t] = "sleep"]

\* Fault: tasksleep returns without taking the lock again.
sleepReturns_Unlocked(t) ==
  /\ Runs(t, "sleep")
  /\ at' = [at EXCEPT ![t] = "run"] /\ on' = [on EXCEPT ![t] = NULL]
  /\ holds' = [holds EXCEPT ![t] = on[t] \in Locked]
  /\ UNCHANGED <<coreVars, lockVars, aborted, sleepers>>

\* The rest of tasksleep: take the lock again, which may block once more.
sleepReturns(t) ==
  /\ Runs(t, "sleep")
  /\ IF on[t] \in Locked
     THEN lockNow(t) \/ lockLater(t)
     ELSE at' = [at EXCEPT ![t] = "run"] /\ UNCHANGED <<coreVars, lockVars, holds>>
  /\ on' = [on EXCEPT ![t] = NULL]
  /\ UNCHANGED <<aborted, sleepers>>

\* _taskwakeup takes the first task of the list, or every one of them in turn.
taskwakeup(t, r) ==
  /\ Runs(t, "run")
  /\ IF sleepers[r] = << >>
     THEN UNCHANGED <<taskrunqueue, state, sleepers>>
     ELSE /\ sleepers' = [sleepers EXCEPT ![r] = delhead(@)]
          /\ taskready(Head(sleepers[r]))
  /\ UNCHANGED <<taskrunning, lockVars, clientVars, on>>

\* Fault: the woken tasks stay in the list.
taskwakeupall_Keeps(t, r) ==
  /\ Runs(t, "run")
  /\ taskreadyall(sleepers[r])
  /\ UNCHANGED <<sleepers, taskrunning, lockVars, clientVars, on>>

taskwakeupall(t, r) ==
  /\ Runs(t, "run")
  /\ sleepers' = [sleepers EXCEPT ![r] = << >>]
  /\ taskreadyall(sleepers[r])
  /\ UNCHANGED <<taskrunning, lockVars, clientVars, on>>

RendezStep(t) ==
  \/ sleepReturns(t)
  \/ \E r \in Rendezes : tasksleep(t, r) \/ taskwakeup(t, r) \/ taskwakeupall(t, r)

LockStep == Next /\ UNCHANGED rendezVars

RendezNext == LockStep \/ \E t \in Tasks : RendezStep(t)

RendezFairness ==
  /\ WF_allVars(scheduler /\ UNCHANGED rendezVars)
  /\ \A t \in Tasks :
       /\ WF_allVars(taskyield(t) /\ UNCHANGED rendezVars)
       /\ WF_allVars(qlockReturns(t) /\ UNCHANGED rendezVars)
       /\ WF_allVars(sleepReturns(t))
       /\ SF_allVars(qunlock(t) /\ UNCHANGED rendezVars)

RendezSpec == RendezInit /\ [][RendezNext]_allVars
RendezFairSpec == RendezSpec /\ RendezFairness

-----------------------------------------------------------------------------

\* A sleeping task is on exactly one list, once, until a wakeup takes it off
\* and readies it: a wakeup is neither lost nor delivered twice, and no task
\* is on the lock's list and a Rendez's list at once, where the intrusive
\* links would tie the two lists together.
SleepersExact ==
  /\ \A r \in Rendezes : IsInjective(sleepers[r])
  /\ \A t \in Tasks, r \in Rendezes : t \in Range(sleepers[r]) =>
       at[t] = "sleep" /\ on[t] = r /\ state[t] = "none" /\ taskrunning # t
  /\ \A t \in Tasks : at[t] = "sleep" /\ state[t] = "none" /\ taskrunning # t
       => t \in Range(sleepers[on[t]])

=============================================================================
