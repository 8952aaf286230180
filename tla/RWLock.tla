------------------------------- MODULE RWLock -------------------------------
(***************************************************************************)
(* libtask/qlock.c, the reader-writer lock.  A client takes the lock once  *)
(* at a time and releases it the way it took it.                           *)
(***************************************************************************)
EXTENDS TaskCore

ASSUME TasksFinite == IsFiniteSet(Tasks)

VARIABLES
  readers, writer, rwaiting, wwaiting,  \* struct RWLock
  at,       \* "run", or "rlock" and "wlock" while in their taskswitch
  holds,    \* the client's view of what it has: "none", "read" or "write"
  aborted   \* the library called abort()

lockVars == <<readers, writer, rwaiting, wwaiting>>
vars == <<coreVars, lockVars, at, holds, aborted>>

TypeOK ==
  /\ CoreTypeOK
  /\ readers \in Int
  /\ writer \in Tasks \cup {NULL}
  /\ rwaiting \in Seq(Tasks)
  /\ wwaiting \in Seq(Tasks)
  /\ at \in [Tasks -> {"run", "rlock", "wlock"}]
  /\ holds \in [Tasks -> {"none", "read", "write"}]
  /\ aborted \in BOOLEAN

\* The tasks have been created, in any order, and none has run.
Init ==
  /\ taskrunqueue \in [1 .. Cardinality(Tasks) -> Tasks]
  /\ IsInjective(taskrunqueue)
  /\ Range(taskrunqueue) = Tasks
  /\ state = [t \in Tasks |-> "ready"]
  /\ taskrunning = NULL
  /\ readers = 0 /\ writer = NULL
  /\ rwaiting = << >> /\ wwaiting = << >>
  /\ at = [t \in Tasks |-> "run"]
  /\ holds = [t \in Tasks |-> "none"]
  /\ aborted = FALSE

-----------------------------------------------------------------------------

Runs(t, place) == ~aborted /\ taskrunning = t /\ at[t] = place

gets(t, what) ==
  /\ holds' = [holds EXCEPT ![t] = what]
  /\ at' = [at EXCEPT ![t] = "run"]

blocks(t, place) ==
  /\ at' = [at EXCEPT ![t] = place]
  /\ taskswitch
  /\ UNCHANGED <<taskrunqueue, state, readers, writer, holds, aborted>>

\* Fault: waiting writers are ignored.
rfree_Overtakes == writer = NULL

\* Fault: readers are ignored.
wfree_IgnoresReaders == writer = NULL

\* A reader gets in only if no writer has the lock or waits for it.
rfree == writer = NULL /\ wwaiting = << >>
wfree == writer = NULL /\ readers = 0

rlockNow(t) ==
  /\ Runs(t, "run") /\ holds[t] = "none" /\ rfree
  /\ readers' = readers + 1
  /\ gets(t, "read")
  /\ UNCHANGED <<coreVars, writer, rwaiting, wwaiting, aborted>>

rlockBlocks(t) ==
  /\ Runs(t, "run") /\ holds[t] = "none" /\ ~rfree
  /\ rwaiting' = addtask(rwaiting, t)
  /\ blocks(t, "rlock")
  /\ UNCHANGED wwaiting

wlockNow(t) ==
  /\ Runs(t, "run") /\ holds[t] = "none" /\ wfree
  /\ writer' = t
  /\ gets(t, "write")
  /\ UNCHANGED <<coreVars, readers, rwaiting, wwaiting, aborted>>

wlockBlocks(t) ==
  /\ Runs(t, "run") /\ holds[t] = "none" /\ ~wfree
  /\ wwaiting' = addtask(wwaiting, t)
  /\ blocks(t, "wlock")
  /\ UNCHANGED rwaiting

\* rlock and wlock block, canrlock and canwlock return 0 instead.
rlock(t) == rlockNow(t) \/ rlockBlocks(t)
wlock(t) == wlockNow(t) \/ wlockBlocks(t)
canlock(t) ==
  \/ rlockNow(t) \/ wlockNow(t)
  \/ Runs(t, "run") /\ holds[t] = "none" /\ ~(rfree /\ wfree) /\ UNCHANGED vars

\* _rlock and _wlock return 1 after their taskswitch, and check nothing.
lockReturns(t) ==
  \/ Runs(t, "rlock") /\ gets(t, "read") /\ UNCHANGED <<coreVars, lockVars, aborted>>
  \/ Runs(t, "wlock") /\ gets(t, "write") /\ UNCHANGED <<coreVars, lockVars, aborted>>

\* The first waiting writer owns the lock and is readied.
admitwriter ==
  /\ writer' = Head(wwaiting)
  /\ wwaiting' = delhead(wwaiting)
  /\ taskready(Head(wwaiting))

\* Fault: the count is tested before it is decremented.
lastreader_TooEarly == readers = 0

lastreader == readers = 1

runlock(t) ==
  /\ Runs(t, "run") /\ holds[t] = "read"
  /\ readers' = readers - 1
  /\ IF lastreader /\ wwaiting # << >>
     THEN admitwriter
     ELSE UNCHANGED <<writer, wwaiting, taskrunqueue, state>>
  /\ holds' = [holds EXCEPT ![t] = "none"]
  /\ UNCHANGED <<taskrunning, rwaiting, at, aborted>>

\* Fault: the readers stay in the list.
admitothers_Keeps ==
  /\ readers' = Len(rwaiting)
  /\ taskreadyall(rwaiting)
  /\ writer' = NULL
  /\ UNCHANGED <<rwaiting, wwaiting>>

\* Fault: the readers are let in one too few.
admitothers_Miscounts ==
  /\ readers' = IF rwaiting = << >> THEN 0 ELSE Len(rwaiting) - 1
  /\ rwaiting' = << >>
  /\ IF readers' = 0 /\ wwaiting # << >>
     THEN admitwriter
     ELSE taskreadyall(rwaiting) /\ writer' = NULL /\ UNCHANGED wwaiting

\* wunlock lets every waiting reader in; if there was none, the first waiting
\* writer.
admitothers ==
  /\ readers' = Len(rwaiting)
  /\ rwaiting' = << >>
  /\ IF rwaiting = << >> /\ wwaiting # << >>
     THEN admitwriter
     ELSE /\ taskreadyall(rwaiting)
          /\ writer' = NULL
          /\ UNCHANGED wwaiting

\* It aborts with "wunlock: not locked" or "wunlock: readers".
wunlock(t) ==
  /\ Runs(t, "run") /\ holds[t] = "write"
  /\ aborted' = (writer = NULL \/ readers # 0)
  /\ IF aborted' THEN UNCHANGED <<lockVars, taskrunqueue, state>> ELSE admitothers
  /\ holds' = [holds EXCEPT ![t] = "none"]
  /\ UNCHANGED <<taskrunning, at>>

taskyield(t) ==
  /\ Runs(t, "run")
  /\ taskready(t) /\ taskswitch
  /\ UNCHANGED <<lockVars, at, holds, aborted>>

scheduler == ~aborted /\ schedule /\ UNCHANGED <<lockVars, at, holds, aborted>>

Unlock(t) == runlock(t) \/ wunlock(t)
TaskStep(t) == rlock(t) \/ wlock(t) \/ canlock(t) \/ lockReturns(t)
                        \/ Unlock(t) \/ taskyield(t)
Next == scheduler \/ \E t \in Tasks : TaskStep(t)

\* As for QLock: the scheduler runs, tasks give up the CPU, and nobody keeps
\* the lock forever.
Fairness ==
  /\ WF_vars(scheduler)
  /\ \A t \in Tasks : /\ WF_vars(taskyield(t))
                      /\ WF_vars(lockReturns(t))
                      /\ SF_vars(Unlock(t))

Spec == Init /\ [][Next]_vars
FairSpec == Spec /\ Fairness

-----------------------------------------------------------------------------

\* The tasks that have been let in, whether or not they have run since: they
\* hold the lock, or were taken off the waiting list by an unlock.
Reading == {t \in Tasks : \/ holds[t] = "read"
                          \/ at[t] = "rlock" /\ t \notin Range(rwaiting)}
Writing == {t \in Tasks : \/ holds[t] = "write"
                          \/ at[t] = "wlock" /\ t \notin Range(wwaiting)}

\* "Any number of readers can lock them at once, but only one writer at a
\* time.  If a writer is holding it, there can't be any readers." (library
\* README), and the lock's fields say who is in.
WriterExcludes ==
  /\ \A t, u \in Writing : t = u
  /\ Writing # {} => Reading = {}
  /\ Writing = {t \in Tasks : writer = t}

\* readers counts the readers that have been let in; it never goes negative
\* and never leaves one out, so the last runlock finds the waiting writer.
ReadersExact == readers = Cardinality(Reading)

\* A task waits only while something it waits for is there to wake it: a
\* reader, behind a writer that is in or waiting; a writer, behind anyone in.
NoLostWaiter ==
  /\ rwaiting # << >> => writer # NULL \/ wwaiting # << >>
  /\ wwaiting # << >> => writer # NULL \/ readers # 0

\* The waiting lists are disjoint lists of sleeping tasks: the intrusive links
\* of a task serve one list at a time.
WaitersAsleep ==
  /\ IsInjective(rwaiting) /\ IsInjective(wwaiting)
  /\ \A t \in Range(rwaiting) : at[t] = "rlock" /\ state[t] = "none" /\ taskrunning # t
  /\ \A t \in Range(wwaiting) : at[t] = "wlock" /\ state[t] = "none" /\ taskrunning # t

\* Neither abort of wunlock is reached.
NeverAborts == ~aborted

\* While a writer waits, a reader is let in only by the writer that leaves:
\* rlock and canrlock do not overtake waiting writers.
ReadersDoNotOvertake ==
  [][wwaiting # << >> /\ readers' > readers => writer # NULL /\ writer' = NULL]_vars

\* A task that blocks in rlock or wlock gets in: neither readers nor writers
\* starve.
WaiterGetsIn ==
  \A t \in Tasks : at[t] # "run" ~> at[t] = "run" /\ holds[t] # "none"

=============================================================================
