-------------------------------- MODULE QLock --------------------------------
(***************************************************************************)
(* libtask/qlock.c, the queuing lock: one QLock shared by all the tasks.   *)
(* A client locks only what it does not hold and unlocks only what it      *)
(* holds; in between it may yield as often as it likes.                    *)
(***************************************************************************)
EXTENDS TaskCore

ASSUME TasksFinite == IsFiniteSet(Tasks)

VARIABLES
  owner, waiting,  \* struct QLock
  at,              \* "run": client code, "qlock": in _qlock's taskswitch,
                   \* "sleep": in tasksleep's (Rendez)
  holds,           \* the client's view: its qlock returned, no qunlock yet
  aborted          \* the library called abort()

lockVars == <<owner, waiting>>
clientVars == <<at, holds, aborted>>
vars == <<coreVars, lockVars, clientVars>>

TypeOK ==
  /\ CoreTypeOK
  /\ owner \in Tasks \cup {NULL}
  /\ waiting \in Seq(Tasks)
  /\ at \in [Tasks -> {"run", "qlock", "sleep"}]
  /\ holds \in [Tasks -> BOOLEAN]
  /\ aborted \in BOOLEAN

\* The tasks have been created, in any order, and none has run.
CoreInit ==
  /\ taskrunqueue \in [1 .. Cardinality(Tasks) -> Tasks]
  /\ IsInjective(taskrunqueue)
  /\ Range(taskrunqueue) = Tasks
  /\ state = [t \in Tasks |-> "ready"]
  /\ taskrunning = NULL

Init ==
  /\ CoreInit
  /\ owner = NULL /\ waiting = << >>
  /\ at = [t \in Tasks |-> "run"]
  /\ holds = [t \in Tasks |-> FALSE]
  /\ aborted = FALSE

-----------------------------------------------------------------------------

Runs(t, place) == ~aborted /\ taskrunning = t /\ at[t] = place

\* Fault: a lock that is held is taken.
lockNow_Steals(t) ==
  /\ owner' = t
  /\ holds' = [holds EXCEPT ![t] = TRUE]
  /\ at' = [at EXCEPT ![t] = "run"]
  /\ UNCHANGED <<coreVars, waiting>>

\* _qlock of a task that has the CPU: take a free lock; otherwise queue behind
\* the others and switch, or return 0 if it may not block.
lockNow(t) ==
  /\ owner = NULL
  /\ owner' = t
  /\ holds' = [holds EXCEPT ![t] = TRUE]
  /\ at' = [at EXCEPT ![t] = "run"]
  /\ UNCHANGED <<coreVars, waiting>>

lockLater(t) ==
  /\ owner # NULL
  /\ waiting' = addtask(waiting, t)
  /\ at' = [at EXCEPT ![t] = "qlock"]
  /\ taskswitch
  /\ UNCHANGED <<taskrunqueue, state, owner, holds>>

qlock(t) ==
  /\ Runs(t, "run") /\ ~holds[t]
  /\ lockNow(t) \/ lockLater(t)
  /\ UNCHANGED aborted

canqlock(t) ==
  /\ Runs(t, "run") /\ ~holds[t]
  /\ \/ lockNow(t)
     \/ owner # NULL /\ UNCHANGED <<coreVars, lockVars, at, holds>>
  /\ UNCHANGED aborted

\* The rest of _qlock, after its taskswitch: the lock must have been handed
\* over by qunlock.
qlockReturns(t) ==
  /\ Runs(t, "qlock")
  /\ aborted' = (owner # t)
  /\ holds' = [holds EXCEPT ![t] = (owner = t)]
  /\ at' = [at EXCEPT ![t] = "run"]
  /\ UNCHANGED <<coreVars, lockVars>>

\* Fault: the lock is freed and the first waiting task is readied to try for it.
handover_Frees ==
  /\ owner' = NULL
  /\ IF waiting = << >> THEN UNCHANGED <<waiting, taskrunqueue, state>>
     ELSE waiting' = delhead(waiting) /\ taskready(Head(waiting))

\* Fault: the new owner is not readied.
handover_NoReady ==
  /\ owner' = IF waiting = << >> THEN NULL ELSE Head(waiting)
  /\ waiting' = IF waiting = << >> THEN waiting ELSE delhead(waiting)
  /\ UNCHANGED <<taskrunqueue, state>>

\* The first waiting task, if any, owns the lock next.
handover ==
  IF waiting = << >>
  THEN owner' = NULL /\ UNCHANGED <<waiting, taskrunqueue, state>>
  ELSE /\ owner' = Head(waiting)
       /\ waiting' = delhead(waiting)
       /\ taskready(Head(waiting))

\* The body of qunlock: it aborts if nobody has the lock.
unlock(t) ==
  /\ aborted' = (owner = NULL)
  /\ holds' = [holds EXCEPT ![t] = FALSE]
  /\ IF owner = NULL THEN UNCHANGED <<lockVars, taskrunqueue, state>> ELSE handover

qunlock(t) ==
  /\ Runs(t, "run") /\ holds[t]
  /\ unlock(t)
  /\ UNCHANGED <<taskrunning, at>>

taskyield(t) ==
  /\ Runs(t, "run")
  /\ taskready(t) /\ taskswitch
  /\ UNCHANGED <<lockVars, clientVars>>

scheduler == ~aborted /\ schedule /\ UNCHANGED <<lockVars, clientVars>>

TaskStep(t) == qlock(t) \/ canqlock(t) \/ qlockReturns(t) \/ qunlock(t)
                        \/ taskyield(t)
Next == scheduler \/ \E t \in Tasks : TaskStep(t)

\* The scheduler runs when no task does; a task gives up the CPU in the end,
\* returns from a qlock that was granted, and does not keep the lock forever.
Fairness ==
  /\ WF_vars(scheduler)
  /\ \A t \in Tasks : /\ WF_vars(taskyield(t))
                      /\ WF_vars(qlockReturns(t))
                      /\ SF_vars(qunlock(t))

Spec == Init /\ [][Next]_vars
FairSpec == Spec /\ Fairness

-----------------------------------------------------------------------------

\* At most one task is between its qlock and its qunlock, and it is the owner.
MutualExclusion ==
  \A t, u \in Tasks : holds[t] /\ holds[u] => t = u /\ owner = t

\* Neither abort of qlock.c is reached: the task that leaves the waiting list
\* is always the owner when it gets to run ("qlock: owner=%p self=%p oops").
NeverAborts == ~aborted

\* A task blocked in qlock is never forgotten: it is in the waiting list,
\* asleep, or it owns the lock and has been readied; and a lock with waiting
\* tasks has an owner.
NoLostWaiter ==
  /\ IsInjective(waiting)
  /\ waiting # << >> => owner # NULL
  /\ \A t \in Range(waiting) : at[t] = "qlock" /\ state[t] = "none"
                               /\ taskrunning # t /\ owner # t
  /\ \A t \in Tasks : at[t] = "qlock" /\ t \notin Range(waiting)
        => owner = t /\ (state[t] = "ready" \/ taskrunning = t)

\* While tasks wait, the lock passes only to the first of them: neither
\* canqlock nor qlock overtakes the queue.
NoBarging ==
  [][waiting # << >> /\ owner' # owner => owner' = Head(waiting)]_vars

\* A task that blocks in qlock gets the lock.
WaiterGetsLock == \A t \in Tasks : at[t] = "qlock" ~> holds[t]

=============================================================================
