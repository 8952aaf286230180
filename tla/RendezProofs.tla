---------------------------- MODULE RendezProofs ----------------------------
(***************************************************************************)
(* The queuing lock of qlock.c and the Rendezes of rendez.c that sleep and *)
(* wake with it are correct for any number of tasks: the lock by itself    *)
(* first, then with the Rendezes.                                          *)
(***************************************************************************)
EXTENDS Rendez, TaskCoreProofs

\* The inductive invariant of the lock.  To MutualExclusion and NoLostWaiter it adds who
\* the owner can be, which is what the steps that take a free lock or queue
\* behind an owner need.
HolderOwns == \A t \in Tasks : holds[t] => owner = t /\ at[t] = "run"
OwnerIsIn == owner # NULL => holds[owner] \/ at[owner] = "qlock"
NoneExits == \A t \in Tasks : state[t] # "exiting"

IInv ==
  /\ TypeOK
  /\ RunqueueExact
  /\ NeverAborts
  /\ HolderOwns
  /\ OwnerIsIn
  /\ NoneExits
  /\ NoLostWaiter

-----------------------------------------------------------------------------

LEMMA InitIInv == Init => IInv
<1> SUFFICES ASSUME Init PROVE IInv
  OBVIOUS
<1> USE DEF Init, CoreInit
<1>1. Cardinality(Tasks) \in Nat
  BY TasksFinite, FS_CardinalityType
<1>2. taskrunqueue \in Seq(Tasks)
  BY <1>1, IsASeq
<1>3. TypeOK
  BY <1>2, EmptyList DEF TypeOK, CoreTypeOK, States
<1>4. RunqueueExact
  BY NullAssumption DEF RunqueueExact
<1>5. NoLostWaiter
  BY EmptyList DEF NoLostWaiter
<1>6. HolderOwns /\ OwnerIsIn /\ NoneExits /\ NeverAborts
  BY DEF HolderOwns, OwnerIsIn, NoneExits, NeverAborts
<1> QED BY <1>3, <1>4, <1>5, <1>6 DEF IInv

\* Taking a free lock.  Nobody waits for a free lock, so nobody can be left
\* behind.  Here and below the task may also come from a tasksleep.
LEMMA LockNowKeeps ==
  ASSUME IInv, NEW t \in Tasks, taskrunning = t, at[t] # "qlock",
         lockNow(t), UNCHANGED aborted
  PROVE  IInv'
<1> USE DEF IInv
<1>1. /\ owner = NULL /\ owner' = t /\ t # NULL
      /\ holds' = [holds EXCEPT ![t] = TRUE]
      /\ at' = [at EXCEPT ![t] = "run"]
      /\ UNCHANGED <<coreVars, waiting, aborted>>
  BY NullAssumption DEF lockNow
<1>2. waiting = << >> /\ \A u \in Tasks : at[u] # "qlock" /\ ~holds[u]
  BY <1>1, EmptyList, NullAssumption DEF NoLostWaiter, HolderOwns
<1>3. TypeOK'
  BY <1>1 DEF TypeOK, CoreTypeOK, coreVars
<1>4. RunqueueExact'
  BY <1>1 DEF RunqueueExact, coreVars
<1>5. NoLostWaiter'
  BY <1>1, <1>2, EmptyList DEF NoLostWaiter, TypeOK
<1>6. HolderOwns' /\ OwnerIsIn'
  BY <1>1, <1>2 DEF HolderOwns, OwnerIsIn, TypeOK
<1>7. NoneExits' /\ NeverAborts'
  BY <1>1 DEF NoneExits, NeverAborts, coreVars
<1> QED BY <1>3, <1>4, <1>5, <1>6, <1>7

\* Queuing behind the owner.
LEMMA LockLaterKeeps ==
  ASSUME IInv, NEW t \in Tasks, taskrunning = t, at[t] # "qlock", ~holds[t],
         lockLater(t), UNCHANGED aborted
  PROVE  IInv'
<1> USE DEF IInv
<1>1. /\ owner # NULL
      /\ waiting' = Append(waiting, t)
      /\ at' = [at EXCEPT ![t] = "qlock"]
      /\ taskrunning' = NULL
      /\ UNCHANGED <<taskrunqueue, state, owner, holds, aborted>>
  BY DEF lockLater, addtask, taskswitch
<1>2. taskrunning = t /\ at[t] # "qlock" /\ t # NULL
  BY NullAssumption
<1>3. t \notin Range(waiting) /\ owner # t
  BY <1>2, NullAssumption DEF NoLostWaiter, OwnerIsIn
<1>4. /\ waiting' \in Seq(Tasks)
      /\ Range(waiting') = Range(waiting) \cup {t}
      /\ IsInjective(waiting')
  BY <1>1, <1>3, AppendList DEF NoLostWaiter, TypeOK
<1>5. state[t] = "none"
  <2>1. state[t] # "ready" /\ state[t] # "exiting"
    BY <1>2 DEF RunqueueExact, NoneExits
  <2> QED BY <2>1 DEF TypeOK, CoreTypeOK, States
<1>6. TypeOK'
  BY <1>1, <1>4 DEF TypeOK, CoreTypeOK
<1>7. RunqueueExact'
  BY <1>1, <1>2 DEF RunqueueExact
<1>8. NoLostWaiter'
  <2>1. Range(waiting) \subseteq Tasks
    BY RangeOfSeq DEF TypeOK
  <2>2. \A u \in Range(waiting') : at'[u] = "qlock" /\ state'[u] = "none"
                                   /\ taskrunning' # u /\ owner' # u
    BY <1>1, <1>2, <1>3, <1>4, <1>5, <2>1, NullAssumption DEF NoLostWaiter, TypeOK
  <2>3. \A u \in Tasks : at'[u] = "qlock" /\ u \notin Range(waiting')
          => owner' = u /\ (state'[u] = "ready" \/ taskrunning' = u)
    BY <1>1, <1>2, <1>4 DEF NoLostWaiter, TypeOK
  <2> QED BY <1>1, <1>4, <2>2, <2>3 DEF NoLostWaiter
<1>9. HolderOwns' /\ OwnerIsIn'
  BY <1>1, <1>3 DEF HolderOwns, OwnerIsIn, TypeOK
<1>10. NoneExits' /\ NeverAborts'
  BY <1>1 DEF NoneExits, NeverAborts
<1> QED BY <1>6, <1>7, <1>8, <1>9, <1>10

\* The task that returns from the switch of _qlock was handed the lock.
LEMMA QlockReturnsKeeps ==
  ASSUME IInv, NEW t \in Tasks, qlockReturns(t)
  PROVE  IInv'
<1> USE DEF IInv
<1>1. /\ taskrunning = t /\ at[t] = "qlock"
      /\ aborted' = (owner # t)
      /\ holds' = [holds EXCEPT ![t] = (owner = t)]
      /\ at' = [at EXCEPT ![t] = "run"]
      /\ UNCHANGED <<coreVars, lockVars>>
  BY DEF qlockReturns, Runs
<1>2. t \notin Range(waiting) /\ owner = t
  BY <1>1 DEF NoLostWaiter
<1>3. TypeOK'
  BY <1>1 DEF TypeOK, CoreTypeOK, coreVars, lockVars
<1>4. RunqueueExact'
  BY <1>1 DEF RunqueueExact, coreVars
<1>5. NoLostWaiter'
  BY <1>1, <1>2 DEF NoLostWaiter, TypeOK, coreVars, lockVars
<1>6. HolderOwns' /\ OwnerIsIn'
  BY <1>1, <1>2 DEF HolderOwns, OwnerIsIn, TypeOK, lockVars
<1>7. NoneExits' /\ NeverAborts'
  BY <1>1, <1>2 DEF NoneExits, NeverAborts, coreVars
<1> QED BY <1>3, <1>4, <1>5, <1>6, <1>7

\* The owner passes the lock to the first waiting task, or frees it, and goes on
\* or goes to sleep.
LEMMA UnlockKeeps ==
  ASSUME IInv, NEW t \in Tasks, Runs(t, "run"), holds[t], unlock(t),
         taskrunning' \in {t, NULL}, at' \in {at, [at EXCEPT ![t] = "sleep"]}
  PROVE  IInv'
<1> USE DEF IInv
<1>1. /\ taskrunning = t /\ at[t] = "run" /\ holds[t] /\ t # NULL
      /\ holds' = [holds EXCEPT ![t] = FALSE]
      /\ at' \in [Tasks -> {"run", "qlock", "sleep"}]
      /\ \A u \in Tasks : (at'[u] = "qlock" <=> at[u] = "qlock")
  BY NullAssumption DEF unlock, Runs, TypeOK
<1>2. owner = t /\ \A u \in Tasks : u # t => ~holds[u]
  BY <1>1 DEF HolderOwns
<1>3. aborted' = FALSE /\ handover
  BY <1>1, <1>2 DEF unlock
<1>4. NeverAborts'
  BY <1>3 DEF NeverAborts
<1>5. \A u \in Tasks : ~holds'[u]
  BY <1>1, <1>2 DEF TypeOK
<1>6. CASE waiting = << >>
  <2>1. owner' = NULL /\ UNCHANGED <<waiting, taskrunqueue, state>>
    BY <1>3, <1>6 DEF handover
  <2>2. TypeOK' /\ RunqueueExact' /\ NoneExits'
    BY <1>1, <1>3, <2>1 DEF TypeOK, CoreTypeOK, RunqueueExact, NoneExits
  <2>3. HolderOwns' /\ OwnerIsIn'
    BY <1>5, <2>1 DEF HolderOwns, OwnerIsIn
  <2>4. \A u \in Tasks : at[u] # "qlock"
    BY <1>1, <1>2, <1>6, EmptyList DEF NoLostWaiter
  <2>5. NoLostWaiter'
    BY <1>1, <1>6, <2>1, <2>4, EmptyList DEF NoLostWaiter
  <2> QED BY <1>4, <2>2, <2>3, <2>5
<1>7. CASE waiting # << >>
  <2> DEFINE h == Head(waiting)
  <2>1. owner' = h /\ waiting' = Tail(waiting) /\ taskready(h)
    BY <1>3, <1>7 DEF handover, delhead
  <2>2. /\ h \in Tasks /\ h \in Range(waiting)
        /\ waiting' \in Seq(Tasks)
        /\ IsInjective(waiting')
        /\ Range(waiting') = Range(waiting) \ {h}
    BY <1>7, <2>1, TailList DEF NoLostWaiter, TypeOK
  <2>3. at[h] = "qlock" /\ state[h] = "none" /\ h # t /\ h # NULL
    BY <1>1, <2>2, NullAssumption DEF NoLostWaiter
  <2>4. /\ taskrunqueue' \in Seq(Tasks)
        /\ state' = [state EXCEPT ![h] = "ready"]
        /\ state' \in [Tasks -> States]
        /\ IsInjective(taskrunqueue')
        /\ Range(taskrunqueue') = {u \in Tasks : state'[u] = "ready"}
    BY <2>1, <2>2, TaskreadyKeeps DEF TypeOK
  <2>5. TypeOK'
    BY <1>1, <1>3, <2>1, <2>2, <2>4 DEF TypeOK, CoreTypeOK
  <2>6. RunqueueExact' /\ NoneExits'
    BY <1>1, <2>3, <2>4 DEF RunqueueExact, NoneExits, TypeOK, CoreTypeOK
  <2>7. HolderOwns' /\ OwnerIsIn'
    BY <1>1, <1>5, <2>1, <2>2, <2>3 DEF HolderOwns, OwnerIsIn
  <2>8. NoLostWaiter'
    <3> Range(waiting) \subseteq Tasks
      BY RangeOfSeq DEF TypeOK
    <3>1. \A u \in Range(waiting') : at'[u] = "qlock" /\ state'[u] = "none"
                                     /\ taskrunning' # u /\ owner' # u
      BY <1>1, <2>1, <2>2, <2>4, NullAssumption DEF NoLostWaiter, TypeOK, CoreTypeOK
    <3>2. \A u \in Tasks : at'[u] = "qlock" /\ u \notin Range(waiting')
            => owner' = u /\ (state'[u] = "ready" \/ taskrunning' = u)
      BY <1>1, <1>2, <2>1, <2>2, <2>4 DEF NoLostWaiter, TypeOK, CoreTypeOK
    <3> QED BY <2>1, <2>2, <2>3, <3>1, <3>2 DEF NoLostWaiter
  <2> QED BY <1>4, <2>5, <2>6, <2>7, <2>8
<1> QED BY <1>6, <1>7

\* A yield and a round of the scheduler only move the CPU.
LEMMA YieldKeeps ==
  ASSUME IInv, NEW t \in Tasks, taskyield(t)
  PROVE  IInv'
<1> USE DEF IInv
<1>1. /\ taskrunning = t /\ at[t] = "run"
      /\ taskready(t) /\ taskrunning' = NULL
      /\ UNCHANGED <<lockVars, clientVars>>
  BY DEF taskyield, taskswitch, Runs
<1>2. /\ taskrunqueue' \in Seq(Tasks)
      /\ state' = [state EXCEPT ![t] = "ready"]
      /\ state' \in [Tasks -> States]
      /\ IsInjective(taskrunqueue')
      /\ Range(taskrunqueue') = {u \in Tasks : state'[u] = "ready"}
  BY <1>1, TaskreadyKeeps DEF TypeOK
<1>3. TypeOK' /\ RunqueueExact'
  BY <1>1, <1>2 DEF TypeOK, CoreTypeOK, RunqueueExact, lockVars, clientVars
<1>4. HolderOwns' /\ OwnerIsIn' /\ NeverAborts'
  BY <1>1 DEF HolderOwns, OwnerIsIn, NeverAborts, lockVars, clientVars
<1>5. NoneExits'
  BY <1>2 DEF NoneExits, TypeOK, CoreTypeOK
<1>6. NoLostWaiter'
  <2> Range(waiting) \subseteq Tasks /\ t \notin Range(waiting)
    BY <1>1, RangeOfSeq DEF TypeOK, NoLostWaiter
  <2>1. \A u \in Range(waiting) : state'[u] = "none" /\ taskrunning' # u
    BY <1>1, <1>2, NullAssumption DEF NoLostWaiter, TypeOK, CoreTypeOK
  <2>2. \A u \in Tasks : at[u] = "qlock" /\ u \notin Range(waiting)
          => owner = u /\ state'[u] = "ready"
    BY <1>1, <1>2 DEF NoLostWaiter, TypeOK, CoreTypeOK
  <2> QED BY <1>1, <2>1, <2>2 DEF NoLostWaiter, lockVars, clientVars
<1> QED BY <1>3, <1>4, <1>5, <1>6

LEMMA SchedulerKeeps ==
  ASSUME IInv, scheduler
  PROVE  IInv'
<1> USE DEF IInv
<1> DEFINE h == taskrunning'
<1>1. schedule /\ UNCHANGED <<lockVars, clientVars>>
  BY DEF scheduler
<1>2. /\ CoreTypeOK' /\ RunqueueExact'
      /\ h \in Tasks /\ state[h] = "ready"
      /\ state' = [state EXCEPT ![h] = "none"]
  BY <1>1, ScheduleKeeps DEF TypeOK
<1>3. TypeOK'
  BY <1>1, <1>2 DEF TypeOK, lockVars, clientVars
<1>4. HolderOwns' /\ OwnerIsIn' /\ NeverAborts'
  BY <1>1 DEF HolderOwns, OwnerIsIn, NeverAborts, lockVars, clientVars
<1>5. NoneExits'
  BY <1>2 DEF NoneExits, TypeOK, CoreTypeOK
<1>6. NoLostWaiter'
  <2> Range(waiting) \subseteq Tasks /\ h \notin Range(waiting)
    BY <1>2, RangeOfSeq DEF TypeOK, NoLostWaiter
  <2>1. \A u \in Range(waiting) : state'[u] = "none" /\ h # u
    BY <1>2 DEF NoLostWaiter, TypeOK, CoreTypeOK
  <2>2. taskrunning = NULL
    BY <1>1 DEF schedule
  <2>3. \A u \in Tasks : at[u] = "qlock" /\ u \notin Range(waiting)
          => owner = u /\ (state'[u] = "ready" \/ h = u)
    BY <1>2, <2>2, NullAssumption DEF NoLostWaiter, TypeOK, CoreTypeOK
  <2> QED BY <1>1, <2>1, <2>3 DEF NoLostWaiter, lockVars, clientVars
<1> QED BY <1>2, <1>3, <1>4, <1>5, <1>6

-----------------------------------------------------------------------------

LEMMA StepIInv == IInv /\ [Next]_vars => IInv'
<1> SUFFICES ASSUME IInv, [Next]_vars PROVE IInv'
  OBVIOUS
<1>1. CASE scheduler
  BY <1>1, SchedulerKeeps
<1>2. ASSUME NEW t \in Tasks, TaskStep(t) PROVE IInv'
  <2>1. CASE qlock(t)
    BY <2>1, LockNowKeeps, LockLaterKeeps DEF qlock, Runs
  <2>2. CASE canqlock(t)
    <3>1. CASE lockNow(t)
      BY <2>2, <3>1, LockNowKeeps DEF canqlock, Runs
    <3>2. CASE UNCHANGED <<coreVars, lockVars, at, holds>>
      <4>1. UNCHANGED vars
        BY <2>2, <3>2 DEF canqlock, vars, clientVars
      <4> QED BY <4>1 DEF IInv, TypeOK, CoreTypeOK, RunqueueExact, NeverAborts,
                          HolderOwns, OwnerIsIn, NoneExits, NoLostWaiter,
                          vars, coreVars, lockVars, clientVars
    <3> QED BY <2>2, <3>1, <3>2 DEF canqlock
  <2>3. CASE qlockReturns(t)
    BY <2>3, QlockReturnsKeeps
  <2>4. CASE qunlock(t)
    <3>1. /\ Runs(t, "run") /\ holds[t] /\ unlock(t)
          /\ taskrunning' = t /\ at' = at
      BY <2>4 DEF qunlock, Runs
    <3> QED BY <3>1, UnlockKeeps
  <2>5. CASE taskyield(t)
    BY <2>5, YieldKeeps
  <2> QED BY <1>2, <2>1, <2>2, <2>3, <2>4, <2>5 DEF TaskStep
<1>3. CASE UNCHANGED vars
  BY <1>3 DEF IInv, TypeOK, CoreTypeOK, RunqueueExact, NeverAborts, HolderOwns,
              OwnerIsIn, NoneExits, NoLostWaiter, vars, coreVars, lockVars,
              clientVars
<1> QED BY <1>1, <1>2, <1>3 DEF Next

\* The invariant holds in every state of every behaviour.
THEOREM Invariance == Spec => []IInv
<1>1. Init => IInv
  BY InitIInv
<1>2. IInv /\ [Next]_vars => IInv'
  BY StepIInv
<1> QED BY <1>1, <1>2, PTL DEF Spec

\* The types of the lock, its list and the tasks hold.
THEOREM TypeCorrect == Spec => []TypeOK
<1>1. IInv => TypeOK
  BY DEF IInv
<1> QED BY <1>1, Invariance, PTL

\* qlock and qunlock exclude: two tasks are never both between them.
THEOREM Exclusion == Spec => []MutualExclusion
<1>1. IInv => MutualExclusion
  BY DEF IInv, HolderOwns, MutualExclusion
<1> QED BY <1>1, Invariance, PTL

\* The aborts in _qlock and qunlock are dead code for a client that keeps to
\* the rules.
THEOREM NoAbort == Spec => []NeverAborts
<1>1. IInv => NeverAborts
  BY DEF IInv
<1> QED BY <1>1, Invariance, PTL

\* A blocked task is in the list of a lock that has an owner, or owns it.
THEOREM NoneLost == Spec => []NoLostWaiter
<1>1. IInv => NoLostWaiter
  BY DEF IInv
<1> QED BY <1>1, Invariance, PTL

\* The run queue agrees with the flags of the tasks, whatever they do with
\* the lock.
THEOREM RunqueueCorrect == Spec => []RunqueueExact
<1>1. IInv => RunqueueExact
  BY DEF IInv
<1> QED BY <1>1, Invariance, PTL

\* The lock goes to waiting tasks in the order of their arrival.
THEOREM FirstComeFirstServed == Spec => NoBarging
<1> DEFINE Fair == waiting # << >> /\ owner' # owner => owner' = Head(waiting)
<1>1. IInv /\ [Next]_vars => [Fair]_vars
  <2> SUFFICES ASSUME IInv, Next, waiting # << >>, owner' # owner
               PROVE  owner' = Head(waiting)
    BY DEF vars
  <2>1. owner # NULL
    BY DEF IInv, NoLostWaiter
  <2>2. PICK t \in Tasks : qunlock(t)
    BY <2>1 DEF Next, scheduler, TaskStep, qlock, canqlock, lockNow, lockLater,
                qlockReturns, taskyield, lockVars
  <2> QED BY <2>1, <2>2 DEF qunlock, unlock, handover
<1> QED BY <1>1, Invariance, PTL DEF Spec, NoBarging

-----------------------------------------------------------------------------

\* The inductive invariant: the lock's, the lists of the Rendezes, and that a
\* task in tasksleep remembers which Rendez it sleeps on.
ListsOK ==
  /\ sleepers \in [Rendezes -> Seq(Tasks)]
  /\ on \in [Tasks -> Rendezes \cup {NULL}]
  /\ \A t \in Tasks : at[t] = "sleep" => on[t] \in Rendezes

RInv == IInv /\ ListsOK /\ SleepersExact

\* t is asleep in tasksleep and nobody has woken it.
Sleeping(t) == at[t] = "sleep" /\ state[t] = "none" /\ taskrunning # t

-----------------------------------------------------------------------------

LEMMA InitRInv == RendezInit => RInv
<1> SUFFICES ASSUME RendezInit PROVE RInv
  OBVIOUS
<1>1. IInv
  BY InitIInv DEF RendezInit
<1>2. at = [t \in Tasks |-> "run"] /\ sleepers = [r \in Rendezes |-> << >>]
  BY DEF RendezInit, Init
<1>3. ListsOK
  BY <1>2, EmptyList DEF ListsOK, RendezInit
<1>4. SleepersExact
  BY <1>2, EmptyList DEF SleepersExact
<1> QED BY <1>1, <1>3, <1>4 DEF RInv

\* A step that changes no list and wakes nobody who sleeps keeps the lists
\* exact.
LEMMA UntouchedKeeps ==
  ASSUME RInv, UNCHANGED sleepers,
         \A t \in Tasks : /\ Sleeping(t)' <=> Sleeping(t)
                          /\ at'[t] = "sleep" => at[t] = "sleep"
                          /\ at'[t] = "sleep" => on'[t] = on[t]
  PROVE  SleepersExact'
<1>1. ASSUME NEW t \in Tasks, NEW r \in Rendezes, t \in Range(sleepers'[r])
      PROVE  Sleeping(t)' /\ on'[t] = r
  <2>1. Sleeping(t) /\ on[t] = r
    BY <1>1 DEF RInv, SleepersExact, Sleeping
  <2> QED BY <2>1 DEF Sleeping
<1>2. ASSUME NEW t \in Tasks, Sleeping(t)'
      PROVE  t \in Range(sleepers'[on'[t]])
  <2>1. Sleeping(t) /\ on'[t] = on[t]
    BY <1>2 DEF Sleeping
  <2> QED BY <2>1 DEF RInv, SleepersExact, Sleeping
<1> QED BY <1>1, <1>2 DEF RInv, SleepersExact, Sleeping

\* Whoever is readied by an unlock was blocked in qlock.
LEMMA UnlockReadies ==
  ASSUME IInv, NEW t \in Tasks, unlock(t), NEW u \in Tasks, at[u] # "qlock"
  PROVE  state'[u] = state[u]
<1>1. CASE UNCHANGED state
  BY <1>1
<1>2. CASE waiting # << >> /\ taskready(Head(waiting))
  <2>1. at[Head(waiting)] = "qlock"
    BY <1>2, TailList DEF TypeOK, IInv, NoLostWaiter
  <2> QED BY <1>2, <2>1 DEF taskready, IInv, TypeOK, CoreTypeOK
<1> QED BY <1>1, <1>2 DEF unlock, handover

\* The lock and the scheduler leave those who sleep alone: the tasks they ready
\* or run are blocked in qlock, ready or running.
LEMMA LockStepKeeps ==
  ASSUME RInv, LockStep
  PROVE  RInv'
<1> USE DEF RInv
<1>1. Next /\ UNCHANGED <<sleepers, on>>
  BY DEF LockStep, rendezVars
<1>2. IInv'
  BY <1>1, StepIInv
<1>3. TypeOK /\ CoreTypeOK /\ RunqueueExact
  BY DEF IInv, TypeOK
<1>4. ASSUME NEW u \in Tasks
      PROVE  (Sleeping(u)' <=> Sleeping(u)) /\ (at'[u] = "sleep" => at[u] = "sleep")
  <2>1. CASE scheduler
    <3>1. /\ taskrunning = NULL /\ taskrunning' \in Tasks
          /\ state[taskrunning'] = "ready" /\ UNCHANGED at
          /\ state' = [state EXCEPT ![taskrunning'] = "none"]
      BY <1>3, <2>1, ScheduleKeeps DEF scheduler, schedule, clientVars
    <3> QED BY <1>3, <3>1, NullAssumption DEF Sleeping, CoreTypeOK
  <2>2. ASSUME NEW t \in Tasks, qlock(t) \/ canqlock(t)
        PROVE  /\ taskrunning = t /\ at[t] = "run" /\ at'[t] # "sleep"
               /\ UNCHANGED state /\ taskrunning' \in {t, NULL}
               /\ u # t => at'[u] = at[u]
    BY <1>3, <2>2 DEF qlock, canqlock, lockNow, lockLater, Runs, taskswitch, TypeOK,
                      coreVars
  <2>3. ASSUME NEW t \in Tasks, qlockReturns(t)
        PROVE  /\ taskrunning = t /\ at[t] = "qlock" /\ at'[t] # "sleep"
               /\ UNCHANGED state /\ taskrunning' \in {t, NULL}
               /\ u # t => at'[u] = at[u]
    BY <1>3, <2>3 DEF qlockReturns, Runs, TypeOK, coreVars
  <2>4. ASSUME NEW t \in Tasks, qunlock(t)
        PROVE  /\ taskrunning' = taskrunning /\ UNCHANGED at
               /\ at[u] = "sleep" => state'[u] = state[u]
    <3>1. UNCHANGED <<taskrunning, at>> /\ unlock(t)
      BY <2>4 DEF qunlock
    <3> QED BY <3>1, UnlockReadies
  <2>5. ASSUME NEW t \in Tasks, taskyield(t)
        PROVE  /\ taskrunning = t /\ at[t] = "run" /\ UNCHANGED at
               /\ taskrunning' = NULL
               /\ u # t => state'[u] = state[u]
    BY <1>3, <2>5 DEF taskyield, taskready, taskswitch, Runs, clientVars, CoreTypeOK
  <2>6. ASSUME NEW t \in Tasks, TaskStep(t)
        PROVE  (Sleeping(u)' <=> Sleeping(u)) /\ (at'[u] = "sleep" => at[u] = "sleep")
    <3>1. CASE qlock(t) \/ canqlock(t)
      BY <2>2, <3>1, NullAssumption DEF Sleeping
    <3>2. CASE qlockReturns(t)
      BY <2>3, <3>2, NullAssumption DEF Sleeping
    <3>3. CASE qunlock(t)
      BY <2>4, <3>3 DEF Sleeping
    <3>4. CASE taskyield(t)
      BY <2>5, <3>4, NullAssumption DEF Sleeping
    <3> QED BY <2>6, <3>1, <3>2, <3>3, <3>4 DEF TaskStep
  <2> QED BY <1>1, <2>1, <2>6 DEF Next
<1>5. SleepersExact'
  BY <1>1, <1>4, UntouchedKeeps
<1>6. ListsOK'
  BY <1>1, <1>4 DEF ListsOK
<1> QED BY <1>2, <1>5, <1>6

-----------------------------------------------------------------------------

\* Who falls asleep is in no list before: a task in a list does not run.
LEMMA TasksleepKeeps ==
  ASSUME RInv, NEW t \in Tasks, NEW r \in Rendezes, tasksleep(t, r)
  PROVE  RInv'
<1> USE DEF RInv
<1>1. /\ taskrunning = t /\ at[t] = "run" /\ Runs(t, "run") /\ t # NULL
      /\ (r \in Locked <=> holds[t])
      /\ sleepers' = [sleepers EXCEPT ![r] = Append(@, t)]
      /\ on' = [on EXCEPT ![t] = r]
      /\ release(t, r)
      /\ taskrunning' = NULL
      /\ at' = [at EXCEPT ![t] = "sleep"]
  BY NullAssumption DEF tasksleep, Runs, addtask, taskswitch
<1>2. TypeOK /\ CoreTypeOK /\ RunqueueExact /\ NoneExits
  BY DEF IInv, TypeOK
<1>3. state[t] = "none"
  <2>1. state[t] # "ready" /\ state[t] # "exiting"
    BY <1>1, <1>2 DEF RunqueueExact, NoneExits
  <2> QED BY <1>2, <2>1 DEF CoreTypeOK, States
<1>4. IInv' /\ \A u \in Tasks : at[u] # "qlock" => state'[u] = state[u]
  <2>1. CASE r \in Locked
    <3>1. unlock(t) /\ holds[t]
      BY <1>1, <2>1 DEF release
    <3>2. IInv'
      BY <1>1, <3>1, UnlockKeeps
    <3> QED BY <3>1, <3>2, UnlockReadies
  <2>2. CASE r \notin Locked
    <3>1. UNCHANGED <<taskrunqueue, state, lockVars, holds, aborted>> /\ ~holds[t]
      BY <1>1, <2>2 DEF release
    <3>2. t \notin Range(waiting) /\ owner # t
      BY <1>1, <3>1, NullAssumption DEF IInv, NoLostWaiter, OwnerIsIn
    <3>3. TypeOK' /\ RunqueueExact' /\ NoneExits' /\ NeverAborts'
      BY <1>1, <1>2, <3>1 DEF TypeOK, CoreTypeOK, RunqueueExact, NoneExits,
                              NeverAborts, IInv, lockVars
    <3>4. HolderOwns' /\ OwnerIsIn'
      BY <1>1, <1>2, <3>1, <3>2 DEF IInv, HolderOwns, OwnerIsIn, TypeOK, lockVars
    <3>5. NoLostWaiter'
      <4>1. Range(waiting) \subseteq Tasks
        BY <1>2, RangeOfSeq DEF TypeOK
      <4>2. \A u \in Range(waiting) : at'[u] = "qlock" /\ taskrunning' # u
        BY <1>1, <1>2, <3>2, <4>1, NullAssumption DEF IInv, NoLostWaiter, TypeOK
      <4>3. \A u \in Tasks : at'[u] = "qlock" => u # t /\ at[u] = "qlock"
        BY <1>1, <1>2 DEF TypeOK
      <4> QED BY <1>1, <3>1, <4>2, <4>3 DEF IInv, NoLostWaiter, lockVars
    <3> QED BY <3>1, <3>3, <3>4, <3>5 DEF IInv
  <2> QED BY <2>1, <2>2
<1>5. ListsOK'
  <2>1. Append(sleepers[r], t) \in Seq(Tasks)
    BY AppendList DEF ListsOK
  <2> QED BY <1>1, <1>2, <2>1 DEF ListsOK, TypeOK
<1>6. SleepersExact'
  <2>1. \A q \in Rendezes : t \notin Range(sleepers[q])
    BY <1>1 DEF SleepersExact
  <2>2. /\ Range(sleepers'[r]) = Range(sleepers[r]) \cup {t}
        /\ IsInjective(sleepers'[r])
        /\ \A q \in Rendezes \ {r} : sleepers'[q] = sleepers[q]
    BY <1>1, <2>1, AppendList DEF ListsOK, SleepersExact
  <2>3. Sleeping(t)' /\ on'[t] = r
    BY <1>1, <1>2, <1>3, <1>4, NullAssumption DEF Sleeping, TypeOK, ListsOK
  <2>4. ASSUME NEW u \in Tasks, u # t
        PROVE  on'[u] = on[u] /\ (Sleeping(u)' <=> Sleeping(u))
    BY <1>1, <1>2, <1>4, <2>4, NullAssumption DEF Sleeping, TypeOK, ListsOK
  <2>5. ASSUME NEW u \in Tasks, NEW q \in Rendezes, u \in Range(sleepers'[q])
        PROVE  Sleeping(u)' /\ on'[u] = q
    <3>1. CASE u = t
      BY <2>1, <2>2, <2>3, <2>5, <3>1
    <3>2. CASE u # t
      <4>1. u \in Range(sleepers[q])
        BY <2>2, <2>5, <3>2
      <4> QED BY <2>4, <3>2, <4>1 DEF SleepersExact, Sleeping
    <3> QED BY <3>1, <3>2
  <2>6. ASSUME NEW u \in Tasks, Sleeping(u)' PROVE u \in Range(sleepers'[on'[u]])
    <3>1. CASE u = t
      BY <2>2, <2>3, <3>1
    <3>2. CASE u # t
      <4>1. Sleeping(u) /\ on'[u] = on[u]
        BY <2>4, <2>6, <3>2
      <4>2. u \in Range(sleepers[on[u]]) /\ on[u] \in Rendezes
        BY <4>1 DEF SleepersExact, Sleeping, ListsOK
      <4> QED BY <2>2, <4>1, <4>2
    <3> QED BY <3>1, <3>2
  <2> QED BY <2>2, <2>5, <2>6 DEF SleepersExact, Sleeping
<1> QED BY <1>4, <1>5, <1>6

\* Who returns from a tasksleep runs, so it is in no list, and no lock step
\* needs to know where it comes from.
LEMMA SleepReturnsKeeps ==
  ASSUME RInv, NEW t \in Tasks, sleepReturns(t)
  PROVE  RInv'
<1> USE DEF RInv
<1>1. /\ taskrunning = t /\ at[t] = "sleep" /\ t # NULL /\ ~holds[t]
      /\ on' = [on EXCEPT ![t] = NULL]
      /\ UNCHANGED <<aborted, sleepers>>
  BY NullAssumption DEF sleepReturns, Runs, IInv, HolderOwns
<1>2. TypeOK /\ CoreTypeOK
  BY DEF IInv, TypeOK
<1>3. /\ IInv' /\ UNCHANGED state /\ taskrunning' \in {t, NULL}
      /\ at'[t] # "sleep" /\ \A u \in Tasks : u # t => at'[u] = at[u]
  <2>1. CASE lockNow(t)
    <3>1. IInv'
      BY <1>1, <2>1, LockNowKeeps
    <3> QED BY <1>1, <1>2, <2>1, <3>1 DEF lockNow, coreVars, TypeOK
  <2>2. CASE lockLater(t)
    <3>1. IInv'
      BY <1>1, <2>2, LockLaterKeeps
    <3> QED BY <1>2, <2>2, <3>1 DEF lockLater, taskswitch, TypeOK
  <2>3. CASE at' = [at EXCEPT ![t] = "run"] /\ UNCHANGED <<coreVars, lockVars, holds>>
    <3>1. UNCHANGED <<taskrunqueue, state, taskrunning, owner, waiting, holds, aborted>>
      BY <1>1, <2>3 DEF coreVars, lockVars
    <3>2. TypeOK' /\ RunqueueExact' /\ NoneExits' /\ NeverAborts'
      BY <2>3, <3>1 DEF IInv, TypeOK, CoreTypeOK, RunqueueExact, NoneExits, NeverAborts
    <3>3. HolderOwns' /\ OwnerIsIn'
      BY <1>1, <1>2, <2>3, <3>1 DEF IInv, HolderOwns, OwnerIsIn, TypeOK
    <3>4. NoLostWaiter'
      BY <1>1, <1>2, <2>3, <3>1 DEF IInv, NoLostWaiter, TypeOK
    <3> QED BY <1>1, <1>2, <2>3, <3>1, <3>2, <3>3, <3>4 DEF IInv, TypeOK
  <2> QED BY <2>1, <2>2, <2>3 DEF sleepReturns
<1>4. ListsOK'
  BY <1>1, <1>3 DEF ListsOK
<1>5. ASSUME NEW u \in Tasks
      PROVE  /\ Sleeping(u)' <=> Sleeping(u)
             /\ at'[u] = "sleep" => at[u] = "sleep"
             /\ at'[u] = "sleep" => on'[u] = on[u]
  <2>1. CASE u = t
    BY <1>1, <1>3, <2>1 DEF Sleeping
  <2>2. CASE u # t
    <3>1. at'[u] = at[u] /\ state'[u] = state[u] /\ on'[u] = on[u]
      BY <1>1, <1>3, <2>2 DEF ListsOK
    <3> QED BY <1>1, <1>3, <2>2, <3>1, NullAssumption DEF Sleeping
  <2> QED BY <2>1, <2>2
<1>6. SleepersExact'
  BY <1>1, <1>5, UntouchedKeeps
<1> QED BY <1>3, <1>4, <1>6

-----------------------------------------------------------------------------

\* Readying some of those who sleep in tasksleep leaves the lock as it was: a
\* task sleeps in one place.
LEMMA WakesKeep ==
  ASSUME RInv, NEW W, \A u \in W : u \in Tasks /\ Sleeping(u),
         taskrunqueue' \in Seq(Tasks),
         state' = [u \in Tasks |-> IF u \in W THEN "ready" ELSE state[u]],
         IsInjective(taskrunqueue'),
         Range(taskrunqueue') = {u \in Tasks : state'[u] = "ready"},
         UNCHANGED <<taskrunning, lockVars, clientVars>>
  PROVE  IInv'
<1> USE DEF RInv, IInv
<1>1. UNCHANGED <<taskrunning, owner, waiting, at, holds, aborted>>
  BY DEF lockVars, clientVars
<1>2. TypeOK'
  BY <1>1 DEF TypeOK, CoreTypeOK, States
<1>3. RunqueueExact' /\ NoneExits'
  BY <1>1 DEF TypeOK, CoreTypeOK, RunqueueExact, NoneExits, Sleeping
<1>4. HolderOwns' /\ OwnerIsIn' /\ NeverAborts'
  BY <1>1 DEF HolderOwns, OwnerIsIn, NeverAborts
<1>5. NoLostWaiter'
  <2>1. \A u \in Tasks : at[u] = "qlock" => state'[u] = state[u]
    BY DEF Sleeping
  <2>2. Range(waiting) \subseteq Tasks
    BY RangeOfSeq DEF TypeOK
  <2> QED BY <1>1, <2>1, <2>2 DEF NoLostWaiter
<1> QED BY <1>2, <1>3, <1>4, <1>5

\* After a wakeup of W, the first of a list or all of it, the lists are exact
\* again.
LEMMA ListsAfterWakeup ==
  ASSUME RInv, NEW r \in Rendezes, NEW W, W \subseteq Range(sleepers[r]),
         NEW rest \in Seq(Tasks), IsInjective(rest),
         Range(rest) = Range(sleepers[r]) \ W,
         sleepers' = [sleepers EXCEPT ![r] = rest],
         state' = [u \in Tasks |-> IF u \in W THEN "ready" ELSE state[u]],
         UNCHANGED <<taskrunning, at, on>>
  PROVE  ListsOK' /\ SleepersExact'
<1> USE DEF RInv
<1>1. ListsOK'
  BY DEF ListsOK
<1>2. sleepers'[r] = rest /\ \A q \in Rendezes \ {r} : sleepers'[q] = sleepers[q]
  BY DEF ListsOK
<1>3. ASSUME NEW u \in Tasks PROVE Sleeping(u)' <=> Sleeping(u) /\ u \notin W
  BY DEF Sleeping
<1>4. ASSUME NEW u \in Tasks, NEW q \in Rendezes, u \in Range(sleepers'[q])
      PROVE  Sleeping(u)' /\ on'[u] = q
  <2>1. u \in Range(sleepers[q]) /\ Sleeping(u) /\ on[u] = q
    BY <1>2, <1>4 DEF SleepersExact, Sleeping
  <2>2. u \notin W
    <3>1. CASE q = r
      BY <1>2, <1>4, <3>1
    <3>2. CASE q # r
      BY <2>1, <3>2 DEF SleepersExact
    <3> QED BY <3>1, <3>2
  <2> QED BY <1>3, <2>1, <2>2
<1>5. ASSUME NEW u \in Tasks, Sleeping(u)'
      PROVE  u \in Range(sleepers'[on'[u]])
  <2>1. Sleeping(u) /\ u \notin W /\ on'[u] = on[u]
    BY <1>3, <1>5
  <2>2. u \in Range(sleepers[on[u]]) /\ on[u] \in Rendezes
    BY <2>1 DEF SleepersExact, Sleeping, ListsOK
  <2> QED BY <1>2, <2>1, <2>2
<1>6. \A q \in Rendezes : IsInjective(sleepers'[q])
  BY <1>2 DEF SleepersExact
<1> QED BY <1>1, <1>4, <1>5, <1>6 DEF SleepersExact, Sleeping

LEMMA TaskwakeupKeeps ==
  ASSUME RInv, NEW t \in Tasks, NEW r \in Rendezes, taskwakeup(t, r)
  PROVE  RInv'
<1> USE DEF RInv
<1>1. UNCHANGED <<taskrunning, lockVars, clientVars, on, at>>
  BY DEF taskwakeup, clientVars
<1>2. CASE sleepers[r] = << >>
  <2>1. UNCHANGED <<taskrunqueue, state, sleepers>>
    BY <1>2 DEF taskwakeup
  <2>2. UNCHANGED <<vars, on>>
    BY <1>1, <2>1 DEF vars, coreVars
  <2>3. IInv'
    BY <2>2, StepIInv
  <2> QED BY <1>1, <2>1, <2>3 DEF ListsOK, SleepersExact
<1>3. CASE sleepers[r] # << >>
  <2> DEFINE h == Head(sleepers[r])
  <2>1. sleepers' = [sleepers EXCEPT ![r] = Tail(sleepers[r])] /\ taskready(h)
    BY <1>3 DEF taskwakeup, delhead
  <2>2. /\ h \in Tasks /\ h \in Range(sleepers[r])
        /\ Tail(sleepers[r]) \in Seq(Tasks) /\ IsInjective(Tail(sleepers[r]))
        /\ Range(Tail(sleepers[r])) = Range(sleepers[r]) \ {h}
    BY <1>3, TailList DEF ListsOK, SleepersExact
  <2>3. Sleeping(h)
    BY <2>2 DEF SleepersExact, Sleeping
  <2>4. /\ taskrunqueue' \in Seq(Tasks) /\ IsInjective(taskrunqueue')
        /\ state' = [state EXCEPT ![h] = "ready"]
        /\ Range(taskrunqueue') = {u \in Tasks : state'[u] = "ready"}
    BY <2>1, <2>2, TaskreadyKeeps DEF IInv, TypeOK
  <2>5. state' = [u \in Tasks |-> IF u \in {h} THEN "ready" ELSE state[u]]
    BY <2>4 DEF IInv, TypeOK, CoreTypeOK
  <2>6. IInv'
    BY <1>1, <2>2, <2>3, <2>4, <2>5, WakesKeep
  <2>7. ListsOK' /\ SleepersExact'
    BY <1>1, <2>1, <2>2, <2>5, ListsAfterWakeup
  <2> QED BY <2>6, <2>7
<1> QED BY <1>2, <1>3

LEMMA TaskwakeupallKeeps ==
  ASSUME RInv, NEW t \in Tasks, NEW r \in Rendezes, taskwakeupall(t, r)
  PROVE  RInv'
<1> USE DEF RInv
<1>1. /\ UNCHANGED <<taskrunning, lockVars, clientVars, on, at>>
      /\ taskreadyall(sleepers[r])
      /\ sleepers' = [sleepers EXCEPT ![r] = << >>]
  BY DEF taskwakeupall, clientVars
<1>2. sleepers[r] \in Seq(Tasks) /\ IsInjective(sleepers[r])
  BY DEF ListsOK, SleepersExact
<1>3. \A u \in Range(sleepers[r]) : u \in Tasks /\ Sleeping(u)
  BY <1>2, RangeOfSeq DEF SleepersExact, Sleeping
<1>4. /\ taskrunqueue' \in Seq(Tasks) /\ IsInjective(taskrunqueue')
      /\ state' = [u \in Tasks |-> IF u \in Range(sleepers[r]) THEN "ready" ELSE state[u]]
      /\ Range(taskrunqueue') = {u \in Tasks : state'[u] = "ready"}
  BY <1>1, <1>2, <1>3, TaskreadyallKeeps DEF IInv, TypeOK, Sleeping
<1>5. IInv'
  BY <1>1, <1>3, <1>4, WakesKeep
<1>6. ListsOK' /\ SleepersExact'
  BY <1>1, <1>4, EmptyList, ListsAfterWakeup
<1> QED BY <1>5, <1>6

-----------------------------------------------------------------------------

LEMMA StepRInv == RInv /\ [RendezNext]_allVars => RInv'
<1> SUFFICES ASSUME RInv, [RendezNext]_allVars PROVE RInv'
  OBVIOUS
<1>1. CASE LockStep
  BY <1>1, LockStepKeeps
<1>2. ASSUME NEW t \in Tasks, RendezStep(t) PROVE RInv'
  BY <1>2, SleepReturnsKeeps, TasksleepKeeps, TaskwakeupKeeps, TaskwakeupallKeeps
     DEF RendezStep
<1>3. CASE UNCHANGED allVars
  <2>1. UNCHANGED vars /\ UNCHANGED <<sleepers, on>>
    BY <1>3 DEF allVars, rendezVars
  <2>2. IInv'
    BY <2>1, StepIInv DEF RInv
  <2> QED BY <2>1, <2>2 DEF RInv, ListsOK, SleepersExact, vars, coreVars, clientVars
<1> QED BY <1>1, <1>2, <1>3 DEF RendezNext

\* The invariant holds in every state of every behaviour.
THEOREM RendezInvariance == RendezSpec => []RInv
<1>1. RInv /\ [RendezNext]_allVars => RInv'
  BY StepRInv
<1> QED BY <1>1, InitRInv, PTL DEF RendezSpec

\* The types of the lock, the lists and the tasks hold.
THEOREM RendezTypeCorrect == RendezSpec => []RendezTypeOK
<1>1. RInv => RendezTypeOK
  BY DEF RInv, IInv, ListsOK, RendezTypeOK
<1> QED BY <1>1, RendezInvariance, PTL

\* No wakeup is lost or delivered twice: a task in tasksleep is on exactly one
\* list, once, until a wakeup takes it off and readies it.
THEOREM WakeupsCorrect == RendezSpec => []SleepersExact
<1>1. RInv => SleepersExact
  BY DEF RInv
<1> QED BY <1>1, RendezInvariance, PTL

\* The lock excludes also where tasksleep releases it and takes it again.
THEOREM RendezExclusion == RendezSpec => []MutualExclusion
<1>1. RInv => MutualExclusion
  BY DEF RInv, IInv, HolderOwns, MutualExclusion
<1> QED BY <1>1, RendezInvariance, PTL

\* Neither abort of qlock.c is reached through tasksleep.
THEOREM RendezNoAbort == RendezSpec => []NeverAborts
<1>1. RInv => NeverAborts
  BY DEF RInv, IInv
<1> QED BY <1>1, RendezInvariance, PTL

\* A task that waits for the lock, after a qlock or a tasksleep, is in the list
\* of a lock that has an owner, or owns it and is ready.
THEOREM RendezNoneLost == RendezSpec => []NoLostWaiter
<1>1. RInv => NoLostWaiter
  BY DEF RInv, IInv
<1> QED BY <1>1, RendezInvariance, PTL

\* The lock goes to waiting tasks in the order of their arrival, those who were
\* woken from a Rendez among them.
THEOREM RendezFirstComeFirstServed == RendezSpec => NoBarging
<1> DEFINE Fair == waiting # << >> /\ owner' # owner => owner' = Head(waiting)
<1>1. RInv /\ [RendezNext]_allVars => [Fair]_vars
  <2> SUFFICES ASSUME RInv, RendezNext, waiting # << >>, owner' # owner
               PROVE  owner' = Head(waiting)
    BY DEF vars, allVars
  <2>1. owner # NULL
    BY DEF RInv, IInv, NoLostWaiter
  <2>2. PICK t \in Tasks : unlock(t)
    <3>1. CASE LockStep
      BY <2>1, <3>1 DEF LockStep, Next, scheduler, TaskStep, qlock, canqlock, lockNow,
                        lockLater, qlockReturns, qunlock, taskyield, lockVars
    <3>2. ASSUME NEW t \in Tasks, RendezStep(t) PROVE unlock(t)
      BY <2>1, <3>2 DEF RendezStep, sleepReturns, tasksleep, taskwakeup, taskwakeupall,
                        release, lockNow, lockLater, lockVars
    <3> QED BY <3>1, <3>2 DEF RendezNext
  <2> QED BY <2>1, <2>2 DEF unlock, handover
<1> QED BY <1>1, RendezInvariance, PTL DEF RendezSpec, NoBarging

=============================================================================
