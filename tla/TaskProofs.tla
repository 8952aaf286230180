----------------------------- MODULE TaskProofs -----------------------------
(***************************************************************************)
(* The task table, the run queue and taskyield of task.c are correct for   *)
(* any number of tasks, any growth of the table and any range of an int.   *)
(***************************************************************************)
EXTENDS Task, TaskCoreProofs

\* What the process has allocated is known until the scheduler returns.
Alive == phase \in {"main", "scheduling"}

\* Where a task is says how the scheduler can reach it.
PlacesExact ==
  Alive => \A t \in Tasks :
    /\ t \notin heap <=> at[t] = "free"
    /\ t \notin heap => state[t] = "none"
    /\ at[t] = "run" => taskrunning = t \/ state[t] = "exiting"
    /\ at[t] = "yield" => taskrunning = t \/ state[t] = "ready"
    /\ taskrunning = t => at[t] \in {"run", "yield"} /\ state[t] = "none"
    /\ state[t] = "exiting" => taskrunning = NULL /\ at[t] = "run"

\* The table is allocated in whole chunks, so that it is full only when the
\* test of taskcreateraw says so.
WholeChunks == allcap % Chunk = 0

MainHasNoTask == phase = "main" => taskrunning = NULL

\* The tasks that were ready when t yielded are those that have run since and
\* those still in front of t in the run queue.
InFrontOf(i) == {taskrunqueue[j] : j \in 1 .. i - 1}
YieldOrder ==
  \A t \in Tasks : at[t] = "yield" =>
    /\ taskrunning = t => ran[t] = ahead[t]
    /\ \A i \in DOMAIN taskrunqueue :
         taskrunqueue[i] = t => ahead[t] = ran[t] \cup InFrontOf(i)

IInv ==
  /\ TypeOK
  /\ RunqueueExact
  /\ AlltaskExact
  /\ NoDangling
  /\ CountExact
  /\ WholeChunks
  /\ PlacesExact
  /\ MainHasNoTask
  /\ YieldOrder

-----------------------------------------------------------------------------

LEMMA InitIInv == Init => IInv
<1> SUFFICES ASSUME Init PROVE IInv
  OBVIOUS
<1> USE DEF Init
<1>1. TypeOK
  BY EmptyList, TaskAssumption DEF TypeOK, CoreTypeOK, States, Places, Phases
<1>2. RunqueueExact /\ NoDangling /\ MainHasNoTask
  BY EmptyList, NullAssumption DEF RunqueueExact, NoDangling, MainHasNoTask
<1>3. AlltaskExact /\ CountExact
  BY EmptyList DEF AlltaskExact, CountExact, nalltask
<1>5. WholeChunks
  BY TaskAssumption DEF WholeChunks
<1>4. PlacesExact /\ YieldOrder
  BY NullAssumption DEF PlacesExact, YieldOrder
<1> QED BY <1>1, <1>2, <1>3, <1>4, <1>5 DEF IInv

LEMMA NextMultiple ==
  ASSUME NEW n \in Nat, NEW C \in Nat \ {0}, n % C = 0
  PROVE  (n + C) % C = 0
<1>1. PICK k \in Int : n = C * k /\ k = n \div C
  BY Z3
<1>2. n + C = C * (k + 1)
  BY <1>1, Z3
<1> QED BY <1>1, <1>2, Z3

\* A new task is entered once, in a free slot of the table.
LEMMA NewtaskTable ==
  ASSUME TypeOK, AlltaskExact, WholeChunks, NEW t \in Tasks, newtask(t)
  PROVE  /\ t \notin heap /\ heap' = heap \cup {t} /\ heap' \subseteq Tasks
         /\ alltask' \in Seq(Tasks) /\ nalltask' = nalltask + 1
         /\ alltaskslot' \in [Tasks -> Nat] /\ allcap' \in Nat
         /\ AlltaskExact' /\ WholeChunks'
<1>1. /\ t \notin heap /\ heap' = heap \cup {t} /\ heap' \subseteq Tasks
      /\ alltask' = Append(alltask, t)
      /\ alltaskslot' = [alltaskslot EXCEPT ![t] = nalltask + 1]
      /\ allcap' = IF nalltask % Chunk = 0 THEN nalltask + Chunk ELSE allcap
  BY DEF newtask, entertask, TypeOK
<1>2. /\ alltask' \in Seq(Tasks) /\ nalltask \in Nat
      /\ nalltask' = nalltask + 1
      /\ alltask'[nalltask + 1] = t
      /\ \A i \in 1 .. nalltask : alltask'[i] = alltask[i]
  BY <1>1, AppendProperties DEF TypeOK, nalltask
<1>3. Range(alltask') = heap' /\ IsInjective(alltask')
  BY <1>1, AppendList DEF AlltaskExact, TypeOK
<1>4. alltaskslot' \in [Tasks -> Nat]
  BY <1>1, <1>2 DEF TypeOK
<1>5. ASSUME NEW u \in heap'
      PROVE  alltaskslot'[u] \in 1 .. nalltask' /\ alltask'[alltaskslot'[u]] = u
  <2>1. CASE u = t
    <3>1. alltaskslot'[u] = nalltask + 1 /\ nalltask + 1 \in 1 .. nalltask'
      BY <1>1, <1>2, <2>1 DEF TypeOK
    <3> QED BY <1>2, <2>1, <3>1
  <2>2. CASE u # t
    <3>1. u \in heap /\ alltaskslot'[u] = alltaskslot[u]
      BY <1>1, <2>2 DEF TypeOK
    <3> QED BY <1>2, <3>1 DEF AlltaskExact
  <2> QED BY <2>1, <2>2
<1>6. nalltask' <= allcap' /\ WholeChunks' /\ allcap' \in Nat
  <2>1. CASE nalltask % Chunk = 0
    <3>1. allcap' = nalltask + Chunk /\ Chunk \in Nat \ {0} /\ nalltask \in Nat
      BY <1>1, <1>2, <2>1, TaskAssumption
    <3>2. (nalltask + Chunk) % Chunk = 0
      BY <2>1, <3>1, NextMultiple
    <3>3. nalltask + 1 <= nalltask + Chunk /\ nalltask + Chunk \in Nat
      BY <3>1
    <3> QED BY <1>2, <3>1, <3>2, <3>3 DEF WholeChunks
  <2>2. CASE nalltask % Chunk # 0
    <3>1. allcap' = allcap /\ nalltask # allcap
      BY <1>1, <2>2 DEF WholeChunks
    <3> QED BY <1>2, <3>1 DEF AlltaskExact, TypeOK, WholeChunks
  <2> QED BY <2>1, <2>2
<1> QED BY <1>1, <1>2, <1>3, <1>4, <1>5, <1>6 DEF AlltaskExact

\* Freeing a task takes it out of the table and moves the last one to its slot.
LEMMA ReapTable ==
  ASSUME TypeOK, AlltaskExact, NEW t \in heap, reap(t)
  PROVE  /\ alltask' \in Seq(Tasks) /\ nalltask' = nalltask - 1 /\ nalltask > 0
         /\ alltaskslot' \in [Tasks -> Nat]
         /\ AlltaskExact'
<1> DEFINE n == nalltask
           i == alltaskslot[t]
           last == alltask[n]
<1>1. /\ heap' = heap \ {t} /\ UNCHANGED allcap
      /\ alltask' = [k \in 1 .. n - 1 |-> IF k = i THEN last ELSE alltask[k]]
      /\ alltaskslot' = [alltaskslot EXCEPT ![last] = i, ![t] = 0]
  BY DEF reap, dropslot
<1>2. /\ n \in Nat /\ alltask \in [1 .. n -> Tasks] /\ DOMAIN alltask = 1 .. n
      /\ i \in 1 .. n /\ alltask[i] = t /\ n > 0 /\ last \in Tasks
  BY DEF nalltask, TypeOK, AlltaskExact
<1>3. \A k \in 1 .. n - 1 : (IF k = i THEN last ELSE alltask[k]) \in Tasks
  BY <1>2
<1>4. n - 1 \in Nat
  BY <1>2
<1>5. alltask' \in [1 .. n - 1 -> Tasks] /\ alltask' \in Seq(Tasks) /\ nalltask' = n - 1
  BY <1>1, <1>3, <1>4 DEF nalltask
<1>6. alltaskslot' \in [Tasks -> Nat]
  BY <1>1, <1>2 DEF TypeOK
<1>7. IsInjective(alltask')
  BY <1>1, <1>2, <1>5 DEF IsInjective, AlltaskExact
<1>8. Range(alltask') = heap'
  <2>1. \A k \in 1 .. n - 1 : alltask'[k] \in heap /\ alltask'[k] # t
    BY <1>1, <1>2 DEF IsInjective, AlltaskExact, Range
  <2>2. ASSUME NEW u \in heap, u # t PROVE \E k \in 1 .. n - 1 : alltask'[k] = u
    <3>1. PICK k \in 1 .. n : alltask[k] = u
      BY <1>2 DEF AlltaskExact, Range
    <3>2. CASE k = n
      BY <1>1, <1>2, <2>2, <3>1, <3>2
    <3>3. CASE k # n
      BY <1>1, <1>2, <2>2, <3>1, <3>3
    <3> QED BY <3>2, <3>3
  <2> QED BY <1>1, <1>5, <2>1, <2>2 DEF Range
<1>9. ASSUME NEW u \in heap'
      PROVE  alltaskslot'[u] \in 1 .. n - 1 /\ alltask'[alltaskslot'[u]] = u
  <2>1. u \in heap /\ u # t /\ u \in Tasks
    BY <1>1, <1>9 DEF TypeOK
  <2>2. /\ alltaskslot[u] \in 1 .. n /\ alltask[alltaskslot[u]] = u
    BY <2>1 DEF AlltaskExact
  <2>3. CASE u = last
    <3>1. alltaskslot'[u] = i
      BY <1>1, <2>1, <2>3 DEF TypeOK
    <3>2. i \in 1 .. n - 1
      BY <1>2, <2>1, <2>3
    <3>3. alltask'[i] = u
      BY <1>1, <2>3, <3>2
    <3> QED BY <3>1, <3>2, <3>3
  <2>4. CASE u # last
    <3>1. alltaskslot'[u] = alltaskslot[u] /\ alltaskslot[u] # n
      BY <1>1, <2>1, <2>2, <2>4 DEF TypeOK
    <3>2. alltaskslot[u] # i /\ alltaskslot[u] \in 1 .. n - 1
      BY <1>2, <2>1, <2>2, <3>1
    <3>3. alltask'[alltaskslot[u]] = alltask[alltaskslot[u]]
      BY <1>1, <3>2
    <3> QED BY <2>2, <3>1, <3>2, <3>3
  <2> QED BY <2>3, <2>4
<1>10. nalltask' <= allcap'
  BY <1>1, <1>2, <1>5 DEF AlltaskExact, TypeOK
<1> QED BY <1>1, <1>2, <1>5, <1>6, <1>7, <1>8, <1>9, <1>10 DEF AlltaskExact

-----------------------------------------------------------------------------

\* taskready puts the task at the end of the run queue or changes nothing.
LEMMA TaskreadyExtends ==
  ASSUME CoreTypeOK, NEW t \in Tasks, taskready(t)
  PROVE  /\ Len(taskrunqueue) \in Nat /\ Len(taskrunqueue') \in Nat
         /\ Len(taskrunqueue) <= Len(taskrunqueue')
         /\ \A i \in 1 .. Len(taskrunqueue) : taskrunqueue'[i] = taskrunqueue[i]
         /\ \A i \in 1 .. Len(taskrunqueue') :
              i > Len(taskrunqueue) => taskrunqueue'[i] = t
         /\ DOMAIN taskrunqueue = 1 .. Len(taskrunqueue)
         /\ DOMAIN taskrunqueue' = 1 .. Len(taskrunqueue')
<1>1. CASE state[t] = "ready"
  BY <1>1 DEF taskready, CoreTypeOK
<1>2. CASE state[t] # "ready"
  <2>1. taskrunqueue' = Append(taskrunqueue, t)
    BY <1>2 DEF taskready, addtask
  <2> QED BY <2>1, AppendProperties DEF CoreTypeOK
<1> QED BY <1>1, <1>2

\* A step that only adds tasks behind the others, none of them in taskyield,
\* and touches no record of a task in taskyield keeps the order.
LEMMA YieldOrderKept ==
  ASSUME YieldOrder,
         Len(taskrunqueue) \in Nat, Len(taskrunqueue') \in Nat,
         Len(taskrunqueue) <= Len(taskrunqueue'),
         DOMAIN taskrunqueue = 1 .. Len(taskrunqueue),
         DOMAIN taskrunqueue' = 1 .. Len(taskrunqueue'),
         \A i \in 1 .. Len(taskrunqueue) : taskrunqueue'[i] = taskrunqueue[i],
         \A i \in 1 .. Len(taskrunqueue') :
           i > Len(taskrunqueue) => at'[taskrunqueue'[i]] # "yield",
         \A t \in Tasks : at'[t] = "yield" =>
           /\ at[t] = "yield" /\ ran'[t] = ran[t] /\ ahead'[t] = ahead[t]
           /\ taskrunning' = t => taskrunning = t
  PROVE  YieldOrder'
<1> SUFFICES ASSUME NEW t \in Tasks, at'[t] = "yield"
             PROVE  /\ taskrunning' = t => ran'[t] = ahead'[t]
                    /\ \A i \in DOMAIN taskrunqueue' : taskrunqueue'[i] = t =>
                         ahead'[t] = ran'[t] \cup {taskrunqueue'[j] : j \in 1 .. i - 1}
  BY DEF YieldOrder, InFrontOf
<1>1. /\ at[t] = "yield" /\ ran'[t] = ran[t] /\ ahead'[t] = ahead[t]
      /\ taskrunning' = t => taskrunning = t
      /\ taskrunning = t => ran[t] = ahead[t]
      /\ \A i \in DOMAIN taskrunqueue :
           taskrunqueue[i] = t => ahead[t] = ran[t] \cup InFrontOf(i)
  BY DEF YieldOrder
<1>2. ASSUME NEW i \in DOMAIN taskrunqueue', taskrunqueue'[i] = t
      PROVE  ahead'[t] = ran'[t] \cup {taskrunqueue'[j] : j \in 1 .. i - 1}
  <2>1. i \in DOMAIN taskrunqueue /\ taskrunqueue[i] = t
    BY <1>2
  <2>2. \A j \in 1 .. i - 1 : taskrunqueue'[j] = taskrunqueue[j]
    BY <2>1
  <2> QED BY <1>1, <2>1, <2>2 DEF InFrontOf
<1> QED BY <1>1, <1>2

\* A task is created by main or by a running task.
LEMMA CreateKeeps ==
  ASSUME IInv, NEW t \in Tasks, ClientRuns, newtask(t),
         taskready(t) \/ UNCHANGED <<taskrunqueue, state>>,
         UNCHANGED <<taskrunning, tasknswitch, endVars, yieldVars>>
  PROVE  IInv'
<1> USE DEF IInv
<1>1. /\ t \notin heap /\ heap' = heap \cup {t} /\ heap' \subseteq Tasks
      /\ alltask' \in Seq(Tasks) /\ nalltask' = nalltask + 1
      /\ alltaskslot' \in [Tasks -> Nat] /\ allcap' \in Nat
      /\ AlltaskExact' /\ WholeChunks'
  BY NewtaskTable
<1>2. Alive /\ Alive'
  BY DEF Alive, ClientRuns, Running, endVars
<1>3. at[t] = "free" /\ state[t] = "none" /\ taskrunning # t
  BY <1>1, <1>2 DEF PlacesExact, NoDangling, Alive
<1>4. at' = [at EXCEPT ![t] = "start"] /\ taskcount' = taskcount + 1
  BY DEF newtask, entertask
<1>5. /\ taskrunqueue' \in Seq(Tasks)
      /\ state' \in [Tasks -> States]
      /\ state' = [state EXCEPT ![t] = "ready"] \/ state' = state
      /\ IsInjective(taskrunqueue')
      /\ Range(taskrunqueue') = {u \in Tasks : state'[u] = "ready"}
  BY TaskreadyKeeps DEF TypeOK, CoreTypeOK, RunqueueExact
<1>6. TypeOK'
  <2>1. CoreTypeOK'
    BY <1>5 DEF TypeOK, CoreTypeOK
  <2>2. at' \in [Tasks -> Places] /\ taskcount' \in Nat
    BY <1>4 DEF TypeOK, Places
  <2> QED BY <1>1, <2>1, <2>2 DEF TypeOK, endVars, yieldVars
<1>7. RunqueueExact'
  BY <1>3, <1>5 DEF RunqueueExact, TypeOK, CoreTypeOK
<1>8. CountExact'
  BY <1>1, <1>2, <1>4 DEF CountExact, Alive
<1>9. PlacesExact'
  BY <1>1, <1>2, <1>3, <1>4, <1>5 DEF PlacesExact, TypeOK, CoreTypeOK
<1>10. NoDangling'
  <2>1. \A u \in Tasks : state'[u] = "ready" => u \in heap'
    BY <1>1, <1>2, <1>5 DEF PlacesExact, TypeOK, CoreTypeOK
  <2> QED BY <1>1, <1>2, <1>5, <2>1 DEF NoDangling, Alive
<1>11. MainHasNoTask'
  BY DEF MainHasNoTask, endVars
<1>12. YieldOrder'
  <2>1. \A u \in Tasks : at'[u] = "yield" => at[u] = "yield"
    BY <1>4 DEF TypeOK
  <2>2. at'[t] # "yield"
    BY <1>4 DEF TypeOK
  <2>3. CASE taskready(t)
    BY <1>2, <2>1, <2>2, <2>3, TaskreadyExtends, YieldOrderKept DEF TypeOK, yieldVars
  <2>4. CASE UNCHANGED <<taskrunqueue, state>>
    <3>1. Len(taskrunqueue) \in Nat /\ DOMAIN taskrunqueue = 1 .. Len(taskrunqueue)
      BY DEF TypeOK, CoreTypeOK
    <3> QED BY <1>2, <2>1, <2>4, <3>1, YieldOrderKept DEF yieldVars
  <2> QED BY <2>3, <2>4
<1> QED BY <1>1, <1>6, <1>7, <1>8, <1>9, <1>10, <1>11, <1>12

\* A task that has put itself away, or has never run, is readied.
LEMMA WakeKeeps ==
  ASSUME IInv, NEW t \in Tasks, wake(t)
  PROVE  IInv'
<1> USE DEF IInv
<1>1. /\ ClientRuns /\ at[t] \in {"start", "away"} /\ taskready(t)
      /\ UNCHANGED <<taskrunning, lifeVars, tasknswitch, endVars, at, yieldVars>>
  BY DEF wake
<1>2. Alive /\ Alive'
  BY <1>1 DEF Alive, ClientRuns, Running, endVars
<1>3. t \in heap /\ taskrunning # t
  BY <1>1, <1>2 DEF PlacesExact
<1>4. /\ taskrunqueue' \in Seq(Tasks)
      /\ state' \in [Tasks -> States]
      /\ state' = [state EXCEPT ![t] = "ready"]
      /\ IsInjective(taskrunqueue')
      /\ Range(taskrunqueue') = {u \in Tasks : state'[u] = "ready"}
  BY <1>1, TaskreadyKeeps DEF TypeOK
<1>5. TypeOK'
  BY <1>1, <1>4 DEF TypeOK, CoreTypeOK, lifeVars, endVars, yieldVars
<1>6. RunqueueExact'
  BY <1>1, <1>3, <1>4 DEF RunqueueExact, TypeOK, CoreTypeOK
<1>7. AlltaskExact' /\ WholeChunks' /\ CountExact' /\ MainHasNoTask'
  BY <1>1 DEF AlltaskExact, WholeChunks, CountExact, MainHasNoTask, nalltask,
              lifeVars, endVars
<1>8. PlacesExact'
  BY <1>1, <1>2, <1>3, <1>4 DEF PlacesExact, TypeOK, CoreTypeOK, lifeVars
<1>9. NoDangling'
  <2>1. \A u \in Tasks : state'[u] = "ready" => u \in heap
    BY <1>2, <1>3, <1>4 DEF PlacesExact, TypeOK, CoreTypeOK
  <2> QED BY <1>1, <1>2, <1>4, <2>1 DEF NoDangling, Alive, lifeVars
<1>10. YieldOrder'
  BY <1>1, <1>2, TaskreadyExtends, YieldOrderKept DEF TypeOK, yieldVars
<1> QED BY <1>5, <1>6, <1>7, <1>8, <1>9, <1>10

\* The yielding task goes behind every ready one.
LEMMA TaskyieldKeeps ==
  ASSUME IInv, NEW t \in Tasks, taskyield(t)
  PROVE  IInv'
<1> USE DEF IInv
<1>1. /\ Running(t) /\ taskready(t) /\ taskrunning' = NULL
      /\ at' = [at EXCEPT ![t] = "yield"]
      /\ ahead' = [ahead EXCEPT ![t] = {u \in Tasks : state[u] = "ready"}]
      /\ ran' = [ran EXCEPT ![t] = {}]
      /\ saved' = [saved EXCEPT ![t] = tasknswitch]
      /\ UNCHANGED <<lifeVars, tasknswitch, endVars>>
  BY DEF taskyield, taskswitch
<1>2. /\ Alive /\ Alive' /\ phase = "scheduling"
      /\ taskrunning = t /\ at[t] = "run" /\ t # NULL
  BY <1>1, NullAssumption DEF Alive, Running, endVars
<1>3. t \in heap /\ state[t] = "none"
  BY <1>2 DEF PlacesExact
<1>4. /\ taskrunqueue' \in Seq(Tasks)
      /\ state' \in [Tasks -> States]
      /\ state' = [state EXCEPT ![t] = "ready"]
      /\ IsInjective(taskrunqueue')
      /\ Range(taskrunqueue') = {u \in Tasks : state'[u] = "ready"}
  BY <1>1, TaskreadyKeeps DEF TypeOK
<1>5. TypeOK'
  <2>1. CoreTypeOK'
    BY <1>1, <1>4 DEF TypeOK, CoreTypeOK
  <2>2. /\ at' \in [Tasks -> Places] /\ saved' \in [Tasks -> 0 .. IntRange - 1]
        /\ ahead' \in [Tasks -> SUBSET Tasks] /\ ran' \in [Tasks -> SUBSET Tasks]
    BY <1>1 DEF TypeOK, Places
  <2> QED BY <1>1, <2>1, <2>2 DEF TypeOK, lifeVars, endVars
<1>6. RunqueueExact'
  BY <1>1, <1>4 DEF RunqueueExact
<1>7. AlltaskExact' /\ WholeChunks' /\ CountExact' /\ MainHasNoTask'
  BY <1>1, <1>2 DEF AlltaskExact, WholeChunks, CountExact, MainHasNoTask, nalltask,
              lifeVars, endVars
<1>8. PlacesExact'
  BY <1>1, <1>2, <1>3, <1>4, NullAssumption DEF PlacesExact, TypeOK, CoreTypeOK, lifeVars
<1>9. NoDangling'
  <2>1. \A u \in Tasks : state'[u] = "ready" => u \in heap
    BY <1>2, <1>3, <1>4 DEF PlacesExact, TypeOK, CoreTypeOK
  <2> QED BY <1>1, <1>2, <1>4, <2>1 DEF NoDangling, Alive, lifeVars
<1>10. YieldOrder'
  <2> DEFINE n == Len(taskrunqueue)
  <2>1. taskrunqueue' = Append(taskrunqueue, t)
    BY <1>1, <1>3 DEF taskready, addtask
  <2>2. /\ n \in Nat /\ DOMAIN taskrunqueue = 1 .. n
        /\ DOMAIN taskrunqueue' = 1 .. n + 1
        /\ taskrunqueue'[n + 1] = t
        /\ \A i \in 1 .. n : taskrunqueue'[i] = taskrunqueue[i]
    BY <2>1, AppendProperties DEF TypeOK, CoreTypeOK
  <2>3. Range(taskrunqueue) = {u \in Tasks : state[u] = "ready"}
    BY DEF RunqueueExact
  <2>4. \A i \in 1 .. n : taskrunqueue'[i] # t
    BY <1>3, <2>2, <2>3 DEF Range
  <2>5. ahead'[t] = {taskrunqueue'[j] : j \in 1 .. n} /\ ran'[t] = {}
    <3>1. ahead'[t] = Range(taskrunqueue) /\ ran'[t] = {}
      BY <1>1, <2>3 DEF TypeOK
    <3>2. Range(taskrunqueue) = {taskrunqueue'[j] : j \in 1 .. n}
      BY <2>2 DEF Range
    <3> QED BY <3>1, <3>2
  <2>6. ASSUME NEW u \in Tasks, at'[u] = "yield", NEW i \in DOMAIN taskrunqueue',
               taskrunqueue'[i] = u
        PROVE  ahead'[u] = ran'[u] \cup {taskrunqueue'[j] : j \in 1 .. i - 1}
    <3>1. CASE u = t
      <4>1. i = n + 1
        BY <2>2, <2>4, <2>6, <3>1
      <4>2. 1 .. i - 1 = 1 .. n
        BY <2>2, <4>1
      <4> QED BY <2>5, <3>1, <4>2
    <3>2. CASE u # t
      <4>1. at[u] = "yield" /\ ahead'[u] = ahead[u] /\ ran'[u] = ran[u]
        BY <1>1, <2>6, <3>2 DEF TypeOK
      <4>2. i \in DOMAIN taskrunqueue /\ taskrunqueue[i] = u
        BY <2>2, <2>6, <3>2
      <4>3. \A j \in 1 .. i - 1 : taskrunqueue'[j] = taskrunqueue[j]
        BY <2>2, <4>2
      <4> QED BY <1>2, <4>1, <4>2, <4>3 DEF YieldOrder, InFrontOf
    <3> QED BY <3>1, <3>2
  <2> QED BY <1>1, <2>6, NullAssumption DEF YieldOrder, InFrontOf
<1> QED BY <1>5, <1>6, <1>7, <1>8, <1>9, <1>10

LEMMA TaskyieldReturnsKeeps ==
  ASSUME IInv, NEW t \in Tasks, taskyieldReturns(t)
  PROVE  IInv'
<1> USE DEF IInv
<1>1. /\ phase = "scheduling" /\ taskrunning = t /\ at[t] = "yield"
      /\ at' = [at EXCEPT ![t] = "run"]
      /\ saved' = [saved EXCEPT ![t] = 0]
      /\ ahead' = [ahead EXCEPT ![t] = {}]
      /\ ran' = [ran EXCEPT ![t] = {}]
      /\ UNCHANGED <<coreVars, lifeVars, tasknswitch, endVars>>
  BY DEF taskyieldReturns
<1>2. Alive /\ Alive'
  BY <1>1 DEF Alive, endVars
<1>3. TypeOK'
  <2>1. /\ at' \in [Tasks -> Places] /\ saved' \in [Tasks -> 0 .. IntRange - 1]
        /\ ahead' \in [Tasks -> SUBSET Tasks] /\ ran' \in [Tasks -> SUBSET Tasks]
    BY <1>1, TaskAssumption DEF TypeOK, Places
  <2> QED BY <1>1, <2>1 DEF TypeOK, CoreTypeOK, coreVars, lifeVars, endVars
<1>4. RunqueueExact' /\ NoDangling' /\ MainHasNoTask'
  BY <1>1 DEF RunqueueExact, NoDangling, MainHasNoTask, coreVars, lifeVars, endVars
<1>5. AlltaskExact' /\ WholeChunks' /\ CountExact'
  BY <1>1 DEF AlltaskExact, WholeChunks, CountExact, nalltask, lifeVars, endVars
<1>6. PlacesExact'
  BY <1>1, <1>2 DEF PlacesExact, TypeOK, coreVars, lifeVars
<1>7. YieldOrder'
  <2>1. Len(taskrunqueue) \in Nat /\ DOMAIN taskrunqueue = 1 .. Len(taskrunqueue)
    BY DEF TypeOK, CoreTypeOK
  <2>2. \A u \in Tasks : at'[u] = "yield" =>
          at[u] = "yield" /\ ran'[u] = ran[u] /\ ahead'[u] = ahead[u]
    BY <1>1 DEF TypeOK
  <2> QED BY <1>1, <1>2, <2>1, <2>2, YieldOrderKept DEF coreVars
<1> QED BY <1>3, <1>4, <1>5, <1>6, <1>7

\* The task gives up the CPU in its own way: it may be in the run queue, and
\* it may be about to be freed.
LEMMA SwitchawayKeeps ==
  ASSUME IInv, NEW t \in Tasks, NEW queued \in BOOLEAN, switchaway(t, queued)
  PROVE  IInv'
<1> USE DEF IInv
<1>1. /\ Running(t) /\ taskrunning' = NULL
      /\ at' = [at EXCEPT ![t] = "away"]
      /\ taskready(t) \/ UNCHANGED <<taskrunqueue, state>>
      /\ UNCHANGED <<lifeVars, tasknswitch, endVars, yieldVars>>
  BY DEF switchaway, taskswitch
<1>2. /\ Alive /\ Alive' /\ phase = "scheduling"
      /\ taskrunning = t /\ at[t] = "run" /\ t # NULL
  BY <1>1, NullAssumption DEF Alive, Running, endVars
<1>3. t \in heap /\ state[t] = "none"
  BY <1>2 DEF PlacesExact
<1>4. /\ taskrunqueue' \in Seq(Tasks)
      /\ state' \in [Tasks -> States]
      /\ state' = [state EXCEPT ![t] = "ready"] \/ state' = state
      /\ IsInjective(taskrunqueue')
      /\ Range(taskrunqueue') = {u \in Tasks : state'[u] = "ready"}
  BY <1>1, TaskreadyKeeps DEF TypeOK, CoreTypeOK, RunqueueExact
<1>5. TypeOK'
  <2>1. CoreTypeOK'
    BY <1>1, <1>4 DEF CoreTypeOK
  <2>2. at' \in [Tasks -> Places]
    BY <1>1 DEF TypeOK, Places
  <2> QED BY <1>1, <2>1, <2>2 DEF TypeOK, lifeVars, endVars, yieldVars
<1>6. RunqueueExact'
  BY <1>1, <1>4 DEF RunqueueExact
<1>7. AlltaskExact' /\ WholeChunks' /\ CountExact' /\ MainHasNoTask'
  BY <1>1, <1>2 DEF AlltaskExact, WholeChunks, CountExact, MainHasNoTask, nalltask,
              lifeVars, endVars
<1>8. PlacesExact'
  BY <1>1, <1>2, <1>3, <1>4, NullAssumption DEF PlacesExact, TypeOK, CoreTypeOK, lifeVars
<1>9. NoDangling'
  <2>1. \A u \in Tasks : state'[u] = "ready" => u \in heap
    BY <1>2, <1>3, <1>4 DEF PlacesExact, TypeOK, CoreTypeOK
  <2> QED BY <1>1, <1>2, <1>4, <2>1 DEF NoDangling, Alive, lifeVars
<1>10. YieldOrder'
  <2>1. \A u \in Tasks : at'[u] = "yield" => at[u] = "yield"
    BY <1>1 DEF TypeOK
  <2>2. at'[t] # "yield" /\ \A u \in Tasks : taskrunning' # u
    BY <1>1, NullAssumption DEF TypeOK
  <2>3. CASE taskready(t)
    BY <1>1, <1>2, <2>1, <2>2, <2>3, TaskreadyExtends, YieldOrderKept DEF TypeOK, yieldVars
  <2>4. CASE UNCHANGED <<taskrunqueue, state>>
    <3>1. Len(taskrunqueue) \in Nat /\ DOMAIN taskrunqueue = 1 .. Len(taskrunqueue)
      BY DEF TypeOK, CoreTypeOK
    <3> QED BY <1>1, <1>2, <2>1, <2>2, <2>4, <3>1, YieldOrderKept DEF yieldVars
  <2> QED BY <1>1, <2>3, <2>4
<1> QED BY <1>5, <1>6, <1>7, <1>8, <1>9, <1>10

LEMMA TaskexitKeeps ==
  ASSUME IInv, NEW t \in Tasks, NEW val \in ExitValues, taskexit(t, val)
  PROVE  IInv'
<1> USE DEF IInv
<1>1. /\ Running(t) /\ taskrunning' = NULL /\ taskexitval' = val
      /\ state' = [state EXCEPT ![t] = "exiting"]
      /\ UNCHANGED <<taskrunqueue, lifeVars, tasknswitch, phase, exitcode, at, yieldVars>>
  BY DEF taskexit, taskswitch
<1>2. /\ Alive /\ Alive' /\ phase = "scheduling"
      /\ taskrunning = t /\ at[t] = "run" /\ t # NULL
  BY <1>1, NullAssumption DEF Alive, Running
<1>3. t \in heap /\ state[t] = "none"
  BY <1>2 DEF PlacesExact
<1>4. /\ state' \in [Tasks -> States]
      /\ \A u \in Tasks : state'[u] = "ready" <=> state[u] = "ready"
  BY <1>1, <1>3 DEF TypeOK, CoreTypeOK, States
<1>5. TypeOK'
  BY <1>1, <1>4 DEF TypeOK, CoreTypeOK, lifeVars, yieldVars
<1>6. RunqueueExact'
  BY <1>1, <1>4 DEF RunqueueExact
<1>7. AlltaskExact' /\ WholeChunks' /\ CountExact' /\ MainHasNoTask' /\ NoDangling'
  BY <1>1, <1>2 DEF AlltaskExact, WholeChunks, CountExact, MainHasNoTask, NoDangling,
                    nalltask, lifeVars
<1>8. PlacesExact'
  BY <1>1, <1>2, <1>3, NullAssumption DEF PlacesExact, TypeOK, CoreTypeOK, lifeVars
<1>9. YieldOrder'
  <2>1. Len(taskrunqueue) \in Nat /\ DOMAIN taskrunqueue = 1 .. Len(taskrunqueue)
    BY DEF TypeOK, CoreTypeOK
  <2> QED BY <1>1, <1>2, <2>1, NullAssumption, YieldOrderKept DEF yieldVars
<1> QED BY <1>5, <1>6, <1>7, <1>8, <1>9

\* The scheduler frees the task that exited.
LEMMA ReapKeeps ==
  ASSUME IInv, NEW t \in Tasks, reap(t)
  PROVE  IInv'
<1> USE DEF IInv
<1>1. /\ phase = "scheduling" /\ taskrunning = NULL /\ state[t] = "exiting"
      /\ taskcount' = taskcount - 1
      /\ heap' = heap \ {t}
      /\ state' = [state EXCEPT ![t] = "none"]
      /\ at' = [at EXCEPT ![t] = "free"]
      /\ UNCHANGED <<taskrunqueue, taskrunning, allcap, tasknswitch, endVars, yieldVars>>
  BY DEF reap
<1>2. Alive /\ Alive'
  BY <1>1 DEF Alive, endVars
<1>3. t \in heap /\ at[t] = "run"
  BY <1>1, <1>2 DEF PlacesExact
<1>4. /\ alltask' \in Seq(Tasks) /\ nalltask' = nalltask - 1 /\ nalltask > 0
      /\ alltaskslot' \in [Tasks -> Nat]
      /\ AlltaskExact'
  BY <1>3, ReapTable
<1>5. /\ state' \in [Tasks -> States]
      /\ \A u \in Tasks : state'[u] = "ready" <=> state[u] = "ready"
  BY <1>1 DEF TypeOK, CoreTypeOK, States
<1>6. nalltask \in Nat
  BY DEF TypeOK, nalltask
<1>7. taskcount' \in Nat /\ CountExact'
  BY <1>1, <1>2, <1>4, <1>6 DEF CountExact, Alive
<1>8. TypeOK'
  <2>1. CoreTypeOK' /\ at' \in [Tasks -> Places] /\ heap' \subseteq Tasks
    BY <1>1, <1>5 DEF TypeOK, CoreTypeOK, Places
  <2> QED BY <1>1, <1>4, <1>7, <2>1 DEF TypeOK, endVars, yieldVars
<1>9. RunqueueExact' /\ WholeChunks' /\ MainHasNoTask'
  BY <1>1, <1>5, NullAssumption DEF RunqueueExact, WholeChunks, MainHasNoTask
<1>10. PlacesExact'
  BY <1>1, <1>2, <1>3 DEF PlacesExact, TypeOK, CoreTypeOK
<1>11. NoDangling'
  <2>1. t \notin Range(taskrunqueue)
    BY <1>1 DEF RunqueueExact
  <2> QED BY <1>1, <1>2, <2>1 DEF NoDangling, Alive
<1>12. YieldOrder'
  <2>1. Len(taskrunqueue) \in Nat /\ DOMAIN taskrunqueue = 1 .. Len(taskrunqueue)
    BY DEF TypeOK, CoreTypeOK
  <2>2. \A u \in Tasks : at'[u] = "yield" => at[u] = "yield"
    BY <1>1 DEF TypeOK
  <2> QED BY <1>1, <1>2, <2>1, <2>2, YieldOrderKept DEF yieldVars
<1> QED BY <1>4, <1>7, <1>8, <1>9, <1>10, <1>11, <1>12

\* The head of the run queue runs; every task in taskyield has one task less
\* in front of it and one more that has run.
LEMMA DispatchKeeps ==
  ASSUME IInv, dispatch
  PROVE  IInv'
<1> USE DEF IInv
<1> DEFINE h == Head(taskrunqueue)
<1>1. /\ phase = "scheduling" /\ taskrunning = NULL
      /\ \A t \in Tasks : state[t] # "exiting"
      /\ schedule
      /\ tasknswitch' = (tasknswitch + 1) % IntRange
      /\ at' = [at EXCEPT ![h] = IF @ = "yield" THEN @ ELSE "run"]
      /\ ran' = [u \in Tasks |-> IF at[u] = "yield" /\ u # h
                                 THEN ran[u] \cup {h} ELSE ran[u]]
      /\ UNCHANGED <<lifeVars, endVars, saved, ahead>>
  BY DEF dispatch, wrap, LoopTop, reaping
<1>2. Alive /\ Alive'
  BY <1>1 DEF Alive, endVars
<1>3. /\ taskrunqueue # << >> /\ taskrunqueue' = Tail(taskrunqueue)
      /\ state' = [state EXCEPT ![h] = "none"] /\ taskrunning' = h
  BY <1>1 DEF schedule, delhead
<1>4. CoreTypeOK' /\ RunqueueExact' /\ h \in Tasks /\ state[h] = "ready"
  BY <1>1, <1>3, ScheduleKeeps DEF TypeOK
<1>5. h \in heap
  BY <1>2, <1>4 DEF PlacesExact
<1>6. TypeOK'
  <2>1. at' \in [Tasks -> Places] /\ ran' \in [Tasks -> SUBSET Tasks]
    BY <1>1, <1>4 DEF TypeOK, Places
  <2>2. tasknswitch' \in 0 .. IntRange - 1
    BY <1>1, TaskAssumption DEF TypeOK
  <2> QED BY <1>1, <1>4, <2>1, <2>2 DEF TypeOK, lifeVars, endVars
<1>7. AlltaskExact' /\ WholeChunks' /\ CountExact' /\ MainHasNoTask'
  BY <1>1 DEF AlltaskExact, WholeChunks, CountExact, MainHasNoTask, nalltask,
              lifeVars, endVars
<1>8. PlacesExact'
  BY <1>1, <1>2, <1>3, <1>4, <1>5, NullAssumption
     DEF PlacesExact, TypeOK, CoreTypeOK, lifeVars
<1>9. NoDangling'
  <2>1. Range(taskrunqueue') \subseteq Range(taskrunqueue)
    BY <1>3, TailList DEF TypeOK, CoreTypeOK
  <2> QED BY <1>1, <1>2, <1>3, <1>5, <2>1 DEF NoDangling, Alive, lifeVars
<1>10. YieldOrder'
  <2> DEFINE n == Len(taskrunqueue)
  <2>1. /\ n \in Nat \ {0} /\ DOMAIN taskrunqueue = 1 .. n
        /\ DOMAIN taskrunqueue' = 1 .. n - 1
        /\ h = taskrunqueue[1]
        /\ \A i \in 1 .. n - 1 : taskrunqueue'[i] = taskrunqueue[i + 1]
    BY <1>3, HeadTailProperties, EmptySeq DEF TypeOK, CoreTypeOK
  <2>2. SUFFICES ASSUME NEW t \in Tasks, at'[t] = "yield"
        PROVE  /\ h = t => ran'[t] = ahead'[t]
               /\ \A i \in DOMAIN taskrunqueue' : taskrunqueue'[i] = t =>
                    ahead'[t] = ran'[t] \cup {taskrunqueue'[j] : j \in 1 .. i - 1}
    BY <1>3 DEF YieldOrder, InFrontOf
  <2>3. /\ at[t] = "yield" /\ ahead'[t] = ahead[t]
        /\ \A i \in DOMAIN taskrunqueue :
             taskrunqueue[i] = t => ahead[t] = ran[t] \cup InFrontOf(i)
    BY <1>1, <1>2, <2>2 DEF YieldOrder, TypeOK
  <2>4. ASSUME h = t PROVE ran'[t] = ahead'[t]
    <3>1. ran'[t] = ran[t] /\ 1 \in DOMAIN taskrunqueue /\ InFrontOf(1) = {}
      BY <1>1, <2>1, <2>4 DEF InFrontOf
    <3> QED BY <2>1, <2>3, <2>4, <3>1
  <2>5. ASSUME NEW i \in DOMAIN taskrunqueue', taskrunqueue'[i] = t
        PROVE  ahead'[t] = ran'[t] \cup {taskrunqueue'[j] : j \in 1 .. i - 1}
    <3>1. i + 1 \in DOMAIN taskrunqueue /\ taskrunqueue[i + 1] = t /\ 1 \in DOMAIN taskrunqueue
      BY <2>1, <2>5
    <3>2. h # t
      <4>1. i + 1 # 1
        BY <2>1, <2>5
      <4> QED BY <2>1, <3>1, <4>1 DEF RunqueueExact, IsInjective
    <3>3. ran'[t] = ran[t] \cup {h}
      BY <1>1, <2>3, <3>2
    <3>4. ahead[t] = ran[t] \cup {taskrunqueue[j] : j \in 1 .. i}
      <4>1. (i + 1) - 1 = i
        BY <2>1, <2>5
      <4> QED BY <2>3, <3>1, <4>1 DEF InFrontOf
    <3>5. {taskrunqueue[j] : j \in 1 .. i} = {h} \cup {taskrunqueue'[j] : j \in 1 .. i - 1}
      <4>1. i \in 1 .. n - 1
        BY <2>1, <2>5
      <4>2. ASSUME NEW j \in 1 .. i
            PROVE  taskrunqueue[j] \in {h} \cup {taskrunqueue'[k] : k \in 1 .. i - 1}
        <5>1. CASE j = 1
          BY <2>1, <5>1
        <5>2. CASE j # 1
          <6>1. j - 1 \in 1 .. i - 1 /\ taskrunqueue'[j - 1] = taskrunqueue[j]
            BY <2>1, <4>1, <4>2, <5>2
          <6> QED BY <6>1
        <5> QED BY <5>1, <5>2
      <4>3. ASSUME NEW k \in 1 .. i - 1
            PROVE  taskrunqueue'[k] \in {taskrunqueue[j] : j \in 1 .. i}
        <5>1. k + 1 \in 1 .. i /\ taskrunqueue'[k] = taskrunqueue[k + 1]
          BY <2>1, <4>1, <4>3
        <5> QED BY <5>1
      <4>4. h \in {taskrunqueue[j] : j \in 1 .. i}
        BY <2>1, <4>1
      <4> QED BY <4>2, <4>3, <4>4
    <3> QED BY <2>3, <3>3, <3>4, <3>5
  <2> QED BY <2>4, <2>5
<1> QED BY <1>4, <1>6, <1>7, <1>8, <1>9, <1>10

\* main calls the scheduler, and the process ends.
LEMMA StartKeeps ==
  ASSUME IInv, startscheduler
  PROVE  IInv'
<1> USE DEF IInv
<1>1. /\ phase = "main" /\ phase' = "scheduling"
      /\ UNCHANGED <<coreVars, lifeVars, tasknswitch, taskexitval, exitcode, at, yieldVars>>
  BY DEF startscheduler
<1>2. TypeOK'
  BY <1>1 DEF TypeOK, CoreTypeOK, Phases, coreVars, lifeVars, yieldVars
<1>3. RunqueueExact' /\ NoDangling' /\ MainHasNoTask'
  BY <1>1 DEF RunqueueExact, NoDangling, MainHasNoTask, coreVars, lifeVars
<1>4. AlltaskExact' /\ WholeChunks' /\ CountExact'
  BY <1>1 DEF AlltaskExact, WholeChunks, CountExact, nalltask, lifeVars
<1>5. PlacesExact' /\ YieldOrder'
  BY <1>1 DEF PlacesExact, YieldOrder, InFrontOf, Alive, coreVars, lifeVars, yieldVars
<1> QED BY <1>2, <1>3, <1>4, <1>5

LEMMA TaskexitallKeeps ==
  ASSUME IInv, NEW t \in Tasks, NEW val \in ExitValues, taskexitall(t, val)
  PROVE  IInv'
<1> USE DEF IInv
<1>1. /\ phase' = "exited" /\ exitcode' = val
      /\ UNCHANGED <<coreVars, lifeVars, tasknswitch, taskexitval, at, yieldVars>>
  BY DEF taskexitall
<1>2. TypeOK'
  BY <1>1 DEF TypeOK, CoreTypeOK, Phases, coreVars, lifeVars, yieldVars
<1>3. RunqueueExact' /\ NoDangling' /\ MainHasNoTask'
  BY <1>1 DEF RunqueueExact, NoDangling, MainHasNoTask, coreVars, lifeVars
<1>4. AlltaskExact' /\ WholeChunks' /\ CountExact'
  BY <1>1 DEF AlltaskExact, WholeChunks, CountExact, nalltask, lifeVars
<1>5. PlacesExact' /\ YieldOrder'
  BY <1>1 DEF PlacesExact, YieldOrder, InFrontOf, Alive, coreVars, lifeVars, yieldVars
<1> QED BY <1>2, <1>3, <1>4, <1>5

LEMMA SchedulerReturnsKeeps ==
  ASSUME IInv, schedulerReturns
  PROVE  IInv'
<1> USE DEF IInv
<1>1. /\ phase' \in {"done", "stalled"} /\ exitcode' = 0
      /\ heap' = heap \ Range(alltask) /\ alltask' = << >>
      /\ UNCHANGED <<coreVars, allcap, alltaskslot, taskcount, tasknswitch,
                     taskexitval, at, yieldVars>>
  BY DEF schedulerReturns
<1>2. heap' = {} /\ alltask' \in Seq(Tasks) /\ nalltask' = 0
  BY <1>1, EmptyList DEF AlltaskExact, nalltask
<1>3. TypeOK'
  BY <1>1, <1>2 DEF TypeOK, CoreTypeOK, Phases, coreVars, yieldVars
<1>4. RunqueueExact' /\ NoDangling' /\ MainHasNoTask' /\ CountExact' /\ PlacesExact'
  BY <1>1 DEF RunqueueExact, NoDangling, MainHasNoTask, CountExact, PlacesExact, Alive,
              coreVars
<1>5. AlltaskExact' /\ WholeChunks'
  BY <1>1, <1>2, EmptyList DEF AlltaskExact, WholeChunks, TypeOK
<1>6. YieldOrder'
  BY <1>1 DEF YieldOrder, InFrontOf, coreVars, yieldVars
<1> QED BY <1>3, <1>4, <1>5, <1>6

-----------------------------------------------------------------------------

LEMMA StepIInv == IInv /\ [Next]_vars => IInv'
<1> SUFFICES ASSUME IInv, [Next]_vars PROVE IInv'
  OBVIOUS
<1>1. ASSUME NEW t \in Tasks, taskcreateraw(t) \/ taskcreate(t) PROVE IInv'
  BY <1>1, CreateKeeps DEF taskcreateraw, taskcreate, coreVars
<1>2. ASSUME NEW t \in Tasks, wake(t) PROVE IInv'
  BY <1>2, WakeKeeps
<1>3. ASSUME NEW t \in Tasks, taskyieldReturns(t) PROVE IInv'
  BY <1>3, TaskyieldReturnsKeeps
<1>4. ASSUME NEW t \in Tasks, GivesUp(t) PROVE IInv'
  BY <1>4, TaskyieldKeeps, SwitchawayKeeps, TaskexitKeeps, TaskexitallKeeps DEF GivesUp
<1>5. CASE Scheduler
  <2>1. ASSUME NEW t \in Tasks, reap(t) PROVE IInv'
    BY <2>1, ReapKeeps
  <2> QED BY <1>5, <2>1, StartKeeps, DispatchKeeps, SchedulerReturnsKeeps DEF Scheduler
<1>6. CASE UNCHANGED vars
  <2>1. UNCHANGED <<coreVars, lifeVars, tasknswitch, endVars, at, yieldVars>>
    BY <1>6 DEF vars
  <2>2. TypeOK' /\ RunqueueExact' /\ NoDangling' /\ MainHasNoTask'
    BY <2>1 DEF IInv, TypeOK, CoreTypeOK, RunqueueExact, NoDangling, MainHasNoTask,
                coreVars, lifeVars, endVars, yieldVars
  <2>3. AlltaskExact' /\ WholeChunks' /\ CountExact'
    BY <2>1 DEF IInv, AlltaskExact, WholeChunks, CountExact, nalltask, lifeVars, endVars
  <2>4. PlacesExact' /\ YieldOrder'
    BY <2>1 DEF IInv, PlacesExact, YieldOrder, InFrontOf, Alive, coreVars, lifeVars,
                endVars, yieldVars
  <2> QED BY <2>2, <2>3, <2>4 DEF IInv
<1>7. CASE terminated
  BY <1>6, <1>7 DEF terminated
<1> QED BY <1>1, <1>2, <1>3, <1>4, <1>5, <1>6, <1>7 DEF Next

\* The invariant holds in every state of every behaviour.
THEOREM Invariance == Spec => []IInv
<1>1. Init => IInv
  BY InitIInv
<1>2. IInv /\ [Next]_vars => IInv'
  BY StepIInv
<1> QED BY <1>1, <1>2, PTL DEF Spec

\* The variables of task.c keep their types; taskcount never goes negative.
THEOREM TypeCorrect == Spec => []TypeOK
<1>1. IInv => TypeOK
  BY DEF IInv
<1> QED BY <1>1, Invariance, PTL

\* The run queue holds each ready task once, and only ready tasks.
THEOREM RunqueueCorrect == Spec => []RunqueueExact
<1>1. IInv => RunqueueExact
  BY DEF IInv
<1> QED BY <1>1, Invariance, PTL

\* Appending, moving the last entry into a hole and growing by chunks keep
\* alltask a table of the allocated tasks, within its allocation.
THEOREM AlltaskCorrect == Spec => []AlltaskExact
<1>1. IInv => AlltaskExact
  BY DEF IInv
<1> QED BY <1>1, Invariance, PTL

\* A freed task is neither queued nor running.
THEOREM NothingDangles == Spec => []NoDangling
<1>1. IInv => NoDangling
  BY DEF IInv
<1> QED BY <1>1, Invariance, PTL

\* taskcount is the number of allocated tasks.
THEOREM CountCorrect == Spec => []CountExact
<1>1. IInv => CountExact
  BY DEF IInv
<1> QED BY <1>1, Invariance, PTL

\* The scheduler reports a stall only for tasks their client put away.
THEOREM StallsOnlyWhenAway == Spec => []StallOnlyWhenAway
<1>1. IInv => StallOnlyWhenAway
  <2> SUFFICES ASSUME IInv, LoopTop, taskrunqueue = << >>, NEW t \in heap
               PROVE  at[t] \in {"start", "away"}
    BY DEF StallOnlyWhenAway
  <2>1. t \in Tasks /\ at[t] \in Places
    BY DEF IInv, TypeOK
  <2>2. Alive /\ taskrunning = NULL /\ state[t] # "exiting"
    BY <2>1 DEF LoopTop, reaping, Alive
  <2>3. state[t] # "ready"
    BY <2>1, EmptyList DEF IInv, RunqueueExact
  <2> QED BY <2>1, <2>2, <2>3, NullAssumption DEF IInv, PlacesExact, Places
<1> QED BY <1>1, Invariance, PTL

\* When taskyield returns, the tasks that have run are exactly those that were
\* ready when it was called.
THEOREM YieldFair == Spec => []YieldIsFair
<1>1. IInv => YieldIsFair
  BY DEF IInv, YieldOrder, YieldIsFair
<1> QED BY <1>1, Invariance, PTL

-----------------------------------------------------------------------------
(* What taskyield returns.                                                 *)

\* While t waits in taskyield, no task that has run since is in front of it,
\* and the switch counter has moved by the number of those tasks, and by one
\* for t itself once it runs, up to a wrap.
SwitchesCounted ==
  \A t \in Tasks : at[t] = "yield" =>
    /\ \A i \in DOMAIN taskrunqueue : taskrunqueue[i] = t => ran[t] \cap InFrontOf(i) = {}
    /\ \E q \in Int : tasknswitch - saved[t] =
         Cardinality(ran[t]) + (IF taskrunning = t THEN 1 ELSE 0) + IntRange * q

\* A step that only adds tasks behind the others, none of them in taskyield,
\* and switches to none leaves the counts alone.
LEMMA SwitchesKept ==
  ASSUME SwitchesCounted,
         Len(taskrunqueue) \in Nat, Len(taskrunqueue') \in Nat,
         Len(taskrunqueue) <= Len(taskrunqueue'),
         DOMAIN taskrunqueue = 1 .. Len(taskrunqueue),
         DOMAIN taskrunqueue' = 1 .. Len(taskrunqueue'),
         \A i \in 1 .. Len(taskrunqueue) : taskrunqueue'[i] = taskrunqueue[i],
         \A i \in 1 .. Len(taskrunqueue') :
           i > Len(taskrunqueue) => at'[taskrunqueue'[i]] # "yield",
         tasknswitch' = tasknswitch,
         \A t \in Tasks : at'[t] = "yield" =>
           /\ at[t] = "yield" /\ ran'[t] = ran[t] /\ saved'[t] = saved[t]
           /\ taskrunning' = t <=> taskrunning = t
  PROVE  SwitchesCounted'
<1> SUFFICES ASSUME NEW t \in Tasks, at'[t] = "yield"
             PROVE  /\ \A i \in DOMAIN taskrunqueue' : taskrunqueue'[i] = t =>
                         ran'[t] \cap {taskrunqueue'[j] : j \in 1 .. i - 1} = {}
                    /\ \E q \in Int : tasknswitch' - saved'[t] =
                         Cardinality(ran'[t]) + (IF taskrunning' = t THEN 1 ELSE 0)
                           + IntRange * q
  BY DEF SwitchesCounted, InFrontOf
<1>1. /\ at[t] = "yield" /\ ran'[t] = ran[t] /\ saved'[t] = saved[t]
      /\ taskrunning' = t <=> taskrunning = t
      /\ \A i \in DOMAIN taskrunqueue :
           taskrunqueue[i] = t => ran[t] \cap InFrontOf(i) = {}
      /\ \E q \in Int : tasknswitch - saved[t] =
           Cardinality(ran[t]) + (IF taskrunning = t THEN 1 ELSE 0) + IntRange * q
  BY DEF SwitchesCounted
<1>2. ASSUME NEW i \in DOMAIN taskrunqueue', taskrunqueue'[i] = t
      PROVE  ran'[t] \cap {taskrunqueue'[j] : j \in 1 .. i - 1} = {}
  <2>1. i \in DOMAIN taskrunqueue /\ taskrunqueue[i] = t
    BY <1>2
  <2>2. \A j \in 1 .. i - 1 : taskrunqueue'[j] = taskrunqueue[j]
    BY <2>1
  <2> QED BY <1>1, <2>1, <2>2 DEF InFrontOf
<1> QED BY <1>1, <1>2

\* The yielding task starts to count.
LEMMA TaskyieldCounts ==
  ASSUME IInv, SwitchesCounted, NEW t \in Tasks, taskyield(t)
  PROVE  SwitchesCounted'
<1> DEFINE n == Len(taskrunqueue)
<1>1. /\ phase = "scheduling" /\ taskrunning = t /\ at[t] = "run" /\ t # NULL
      /\ taskready(t) /\ taskrunning' = NULL
      /\ at' = [at EXCEPT ![t] = "yield"]
      /\ ran' = [ran EXCEPT ![t] = {}]
      /\ saved' = [saved EXCEPT ![t] = tasknswitch]
      /\ tasknswitch' = tasknswitch
  BY NullAssumption DEF taskyield, Running, taskswitch
<1>2. taskrunqueue' = Append(taskrunqueue, t) /\ \A i \in DOMAIN taskrunqueue : taskrunqueue[i] # t
  <2>1. state[t] = "none"
    BY <1>1 DEF IInv, PlacesExact, Alive
  <2> QED BY <1>1, <2>1 DEF taskready, addtask, IInv, RunqueueExact, Range
<1>3. /\ n \in Nat /\ DOMAIN taskrunqueue = 1 .. n /\ DOMAIN taskrunqueue' = 1 .. n + 1
      /\ taskrunqueue'[n + 1] = t /\ \A i \in 1 .. n : taskrunqueue'[i] = taskrunqueue[i]
  BY <1>2, AppendProperties DEF IInv, TypeOK, CoreTypeOK
<1> HIDE DEF n
<1> SUFFICES ASSUME NEW u \in Tasks, at'[u] = "yield"
             PROVE  /\ \A i \in DOMAIN taskrunqueue' : taskrunqueue'[i] = u =>
                         ran'[u] \cap {taskrunqueue'[j] : j \in 1 .. i - 1} = {}
                    /\ \E q \in Int : tasknswitch' - saved'[u] =
                         Cardinality(ran'[u]) + (IF taskrunning' = u THEN 1 ELSE 0)
                           + IntRange * q
  BY DEF SwitchesCounted, InFrontOf
<1>4. CASE u = t
  <2>1. ran'[u] = {} /\ saved'[u] = tasknswitch /\ taskrunning' # u
    BY <1>1, <1>4 DEF IInv, TypeOK
  <2>2. tasknswitch \in Int /\ IntRange \in Int /\ Cardinality({}) = 0
    BY TaskAssumption, FS_EmptySet DEF IInv, TypeOK
  <2>3. IntRange * 0 = 0 /\ Cardinality(ran'[u]) = 0
    BY <2>1, <2>2
  <2>4. tasknswitch' - saved'[u] = 0
    BY <1>1, <2>1, <2>2
  <2>5. tasknswitch' - saved'[u] = Cardinality(ran'[u]) + 0 + IntRange * 0
    BY <2>3, <2>4
  <2> QED BY <2>1, <2>5
<1>5. CASE u # t
  <2>1. /\ at[u] = "yield" /\ ran'[u] = ran[u] /\ saved'[u] = saved[u]
        /\ taskrunning # u /\ taskrunning' # u
    BY <1>1, <1>5, NullAssumption DEF IInv, TypeOK
  <2>2. ASSUME NEW i \in DOMAIN taskrunqueue', taskrunqueue'[i] = u
        PROVE  ran'[u] \cap {taskrunqueue'[j] : j \in 1 .. i - 1} = {}
    <3>1. i \in 1 .. n /\ taskrunqueue[i] = u
      BY <1>3, <1>5, <2>2
    <3>2. \A j \in 1 .. i - 1 : taskrunqueue'[j] = taskrunqueue[j]
      BY <1>3, <3>1
    <3> QED BY <1>3, <2>1, <3>1, <3>2 DEF SwitchesCounted, InFrontOf
  <2> QED BY <1>1, <2>1, <2>2 DEF SwitchesCounted
<1> QED BY <1>4, <1>5

\* Whoever runs next counts once with each task in taskyield.
LEMMA DispatchCounts ==
  ASSUME IsFiniteSet(Tasks), IInv, SwitchesCounted, dispatch
  PROVE  SwitchesCounted'
<1> DEFINE h == Head(taskrunqueue)
           n == Len(taskrunqueue)
<1>1. /\ phase = "scheduling" /\ taskrunning = NULL /\ taskrunqueue # << >>
      /\ taskrunqueue' = Tail(taskrunqueue) /\ taskrunning' = h
      /\ tasknswitch' = (tasknswitch + 1) % IntRange
      /\ at' = [at EXCEPT ![h] = IF @ = "yield" THEN @ ELSE "run"]
      /\ ran' = [u \in Tasks |-> IF at[u] = "yield" /\ u # h
                                 THEN ran[u] \cup {h} ELSE ran[u]]
      /\ saved' = saved
  BY DEF dispatch, wrap, LoopTop, schedule, delhead
<1>2. /\ n \in Nat \ {0} /\ DOMAIN taskrunqueue = 1 .. n
      /\ DOMAIN taskrunqueue' = 1 .. n - 1
      /\ h = taskrunqueue[1] /\ h \in Tasks
      /\ \A i \in 1 .. n - 1 : taskrunqueue'[i] = taskrunqueue[i + 1]
  BY <1>1, HeadTailProperties, EmptySeq DEF IInv, TypeOK, CoreTypeOK
<1>3. \A i, j \in 1 .. n : taskrunqueue[i] = taskrunqueue[j] => i = j
  BY <1>2 DEF IInv, RunqueueExact, IsInjective
<1> HIDE DEF h, n
<1>4. PICK p \in Int : tasknswitch + 1 = tasknswitch' + IntRange * p
  <2>1. tasknswitch \in Nat /\ IntRange \in Nat \ {0}
    BY TaskAssumption DEF IInv, TypeOK
  <2>2. /\ tasknswitch + 1 = (IntRange * ((tasknswitch + 1) \div IntRange))
                               + ((tasknswitch + 1) % IntRange)
        /\ (tasknswitch + 1) \div IntRange \in Int
    BY <2>1, Z3
  <2> QED BY <1>1, <2>1, <2>2, Z3
<1> SUFFICES ASSUME NEW t \in Tasks, at'[t] = "yield"
             PROVE  /\ \A i \in DOMAIN taskrunqueue' : taskrunqueue'[i] = t =>
                         ran'[t] \cap {taskrunqueue'[j] : j \in 1 .. i - 1} = {}
                    /\ \E q \in Int : tasknswitch' - saved'[t] =
                         Cardinality(ran'[t]) + (IF taskrunning' = t THEN 1 ELSE 0)
                           + IntRange * q
  BY DEF SwitchesCounted, InFrontOf
<1>5. /\ at[t] = "yield" /\ taskrunning # t
      /\ \A i \in DOMAIN taskrunqueue :
           taskrunqueue[i] = t => ran[t] \cap InFrontOf(i) = {}
  BY <1>1, <1>2, NullAssumption DEF SwitchesCounted, IInv, TypeOK
<1>6. PICK r \in Int : tasknswitch - saved[t] = Cardinality(ran[t]) + 0 + IntRange * r
  BY <1>5 DEF SwitchesCounted
<1>7. ran[t] \in SUBSET Tasks /\ IsFiniteSet(ran[t]) /\ Cardinality(ran[t]) \in Nat
  BY FS_Subset, FS_CardinalityType DEF IInv, TypeOK
<1>8. PICK k \in 1 .. n : taskrunqueue[k] = t
  <2>1. state[t] = "ready"
    BY <1>1, <1>5 DEF IInv, PlacesExact, Alive
  <2>2. t \in Range(taskrunqueue)
    BY <2>1 DEF IInv, RunqueueExact
  <2> QED BY <1>2, <2>2 DEF Range
<1>9. Cardinality(ran'[t]) + (IF taskrunning' = t THEN 1 ELSE 0) = Cardinality(ran[t]) + 1
  <2>1. CASE h = t
    BY <1>1, <1>7, <2>1
  <2>2. CASE h # t
    <3>1. 1 \in 1 .. k - 1
      BY <1>2, <1>8, <2>2
    <3>2. h \in InFrontOf(k)
      BY <1>2, <3>1 DEF InFrontOf
    <3>3. h \notin ran[t]
      BY <1>2, <1>5, <1>8, <3>2
    <3>4. ran'[t] = ran[t] \cup {h} /\ taskrunning' # t
      BY <1>1, <1>5, <2>2
    <3>5. Cardinality(ran[t] \cup {h}) = Cardinality(ran[t]) + 1
      BY <1>7, <3>3, FS_AddElement
    <3> QED BY <1>7, <3>4, <3>5
  <2> QED BY <2>1, <2>2
<1>10. \E q \in Int : tasknswitch' - saved'[t] =
         Cardinality(ran'[t]) + (IF taskrunning' = t THEN 1 ELSE 0) + IntRange * q
  <2> DEFINE c == Cardinality(ran'[t]) + (IF taskrunning' = t THEN 1 ELSE 0)
  <2>1. /\ tasknswitch \in Int /\ tasknswitch' \in Int /\ saved[t] \in Int
        /\ IntRange \in Int /\ Cardinality(ran[t]) \in Int /\ c = Cardinality(ran[t]) + 1
    <3>1. tasknswitch' \in Int
      BY <1>1, TaskAssumption DEF IInv, TypeOK
    <3> QED BY <1>7, <1>9, <3>1, TaskAssumption DEF IInv, TypeOK
  <2> HIDE DEF c
  <2>2. tasknswitch' - saved[t] = c + IntRange * r - IntRange * p
    <3>1. IntRange * r \in Int /\ IntRange * p \in Int
      BY <2>1
    <3> QED BY <2>1, <3>1, <1>4, <1>6
  <2>3. IntRange * r - IntRange * p = IntRange * (r - p) /\ r - p \in Int
    BY <2>1, Z3
  <2>4. tasknswitch' - saved'[t] = c + IntRange * (r - p)
    <3>1. IntRange * r \in Int /\ IntRange * p \in Int /\ IntRange * (r - p) \in Int
      BY <2>1, <2>3
    <3> QED BY <2>1, <2>2, <2>3, <3>1, <1>1
  <2>5. \E q \in Int : tasknswitch' - saved'[t] = c + IntRange * q
    BY <2>3, <2>4
  <2> QED BY <2>5 DEF c
<1>11. ASSUME NEW i \in DOMAIN taskrunqueue', taskrunqueue'[i] = t
       PROVE  ran'[t] \cap {taskrunqueue'[j] : j \in 1 .. i - 1} = {}
  <2>1. i \in 1 .. n - 1 /\ i + 1 \in 1 .. n /\ taskrunqueue[i + 1] = t
    BY <1>2, <1>11
  <2>2. ran[t] \cap {taskrunqueue[j] : j \in 1 .. i} = {}
    <3>1. (i + 1) - 1 = i
      BY <2>1
    <3> QED BY <1>2, <1>5, <2>1, <3>1 DEF InFrontOf
  <2>3. ASSUME NEW j \in 1 .. i - 1 PROVE taskrunqueue'[j] \notin ran'[t]
    <3>1. /\ j \in 1 .. n - 1 /\ j + 1 \in 1 .. i /\ j + 1 \in 1 .. n /\ 1 \in 1 .. n
          /\ j + 1 # 1
      BY <1>2, <2>1, <2>3
    <3>2. taskrunqueue'[j] = taskrunqueue[j + 1]
      BY <1>2, <3>1
    <3>3. taskrunqueue[j + 1] # h
      BY <1>2, <1>3, <3>1
    <3>4. taskrunqueue[j + 1] \notin ran[t]
      BY <2>2, <3>1
    <3> QED BY <1>1, <3>2, <3>3, <3>4
  <2> QED BY <2>3
<1> QED BY <1>10, <1>11

LEMMA StepCounts ==
  ASSUME IsFiniteSet(Tasks), IInv, SwitchesCounted, [Next]_vars
  PROVE  SwitchesCounted'
<1> USE DEF coreVars, lifeVars, endVars, yieldVars
<1>1. /\ Len(taskrunqueue) \in Nat /\ DOMAIN taskrunqueue = 1 .. Len(taskrunqueue)
      /\ at \in [Tasks -> Places] /\ CoreTypeOK
  BY DEF IInv, TypeOK, CoreTypeOK
<1>2. ASSUME UNCHANGED <<taskrunqueue, tasknswitch>>,
             \A u \in Tasks : at'[u] = "yield" =>
               /\ at[u] = "yield" /\ ran'[u] = ran[u] /\ saved'[u] = saved[u]
               /\ taskrunning' = u <=> taskrunning = u
      PROVE  SwitchesCounted'
  BY <1>1, <1>2, SwitchesKept
<1>3. ASSUME NEW t \in Tasks, taskready(t), at'[t] # "yield",
             tasknswitch' = tasknswitch,
             \A u \in Tasks : at'[u] = "yield" =>
               /\ at[u] = "yield" /\ ran'[u] = ran[u] /\ saved'[u] = saved[u]
               /\ taskrunning' = u <=> taskrunning = u
      PROVE  SwitchesCounted'
  BY <1>1, <1>3, TaskreadyExtends, SwitchesKept
<1>4. ASSUME NEW t \in Tasks, taskcreateraw(t) \/ taskcreate(t) PROVE SwitchesCounted'
  <2>1. /\ at' = [at EXCEPT ![t] = "start"]
        /\ UNCHANGED <<tasknswitch, taskrunning, saved, ran>>
    BY <1>4 DEF taskcreateraw, taskcreate, newtask, entertask
  <2>2. taskready(t) \/ taskrunqueue' = taskrunqueue
    BY <1>4 DEF taskcreateraw, taskcreate
  <2> QED BY <1>1, <1>2, <1>3, <2>1, <2>2
<1>5. ASSUME NEW t \in Tasks, wake(t) PROVE SwitchesCounted'
  <2>1. /\ at[t] \in {"start", "away"} /\ taskready(t)
        /\ UNCHANGED <<at, tasknswitch, taskrunning, saved, ran>>
    BY <1>5 DEF wake
  <2> QED BY <1>3, <2>1
<1>6. ASSUME NEW t \in Tasks, taskyieldReturns(t) PROVE SwitchesCounted'
  <2>1. /\ at' = [at EXCEPT ![t] = "run"]
        /\ saved' = [saved EXCEPT ![t] = 0] /\ ran' = [ran EXCEPT ![t] = {}]
        /\ UNCHANGED <<taskrunqueue, taskrunning, tasknswitch>>
    BY <1>6 DEF taskyieldReturns
  <2>2. saved \in [Tasks -> 0 .. IntRange - 1] /\ ran \in [Tasks -> SUBSET Tasks]
    BY DEF IInv, TypeOK
  <2> QED BY <1>1, <1>2, <2>1, <2>2
<1>7. ASSUME NEW t \in Tasks, NEW queued \in BOOLEAN, switchaway(t, queued)
      PROVE  SwitchesCounted'
  <2>1. /\ taskrunning = t /\ at[t] = "run" /\ taskrunning' = NULL
        /\ at' = [at EXCEPT ![t] = "away"]
        /\ taskready(t) \/ taskrunqueue' = taskrunqueue
        /\ UNCHANGED <<tasknswitch, saved, ran>>
    BY <1>7 DEF switchaway, Running, taskswitch
  <2> QED BY <1>1, <1>2, <1>3, <2>1, NullAssumption
<1>8. ASSUME NEW t \in Tasks, NEW val \in ExitValues, taskexit(t, val) \/ taskexitall(t, val)
      PROVE  SwitchesCounted'
  <2>1. /\ taskrunning = t /\ at[t] = "run" /\ taskrunning' \in {NULL, t}
        /\ UNCHANGED <<taskrunqueue, at, tasknswitch, saved, ran>>
    BY <1>8 DEF taskexit, taskexitall, Running, taskswitch
  <2> QED BY <1>2, <2>1, NullAssumption
<1>9. ASSUME NEW t \in Tasks, reap(t) PROVE SwitchesCounted'
  <2>1. /\ at' = [at EXCEPT ![t] = "free"]
        /\ UNCHANGED <<taskrunqueue, taskrunning, tasknswitch, saved, ran>>
    BY <1>9 DEF reap
  <2> QED BY <1>1, <1>2, <2>1
<1>10. CASE startscheduler \/ schedulerReturns
  <2>1. UNCHANGED <<taskrunqueue, taskrunning, at, tasknswitch, saved, ran>>
    BY <1>10 DEF startscheduler, schedulerReturns
  <2> QED BY <1>2, <2>1
<1>11. CASE UNCHANGED vars
  <2>1. UNCHANGED <<taskrunqueue, taskrunning, at, tasknswitch, saved, ran>>
    BY <1>11 DEF vars
  <2> QED BY <1>2, <2>1
<1>12. CASE terminated
  BY <1>11, <1>12 DEF terminated
<1>13. CASE Scheduler
  BY <1>9, <1>10, <1>13, DispatchCounts DEF Scheduler
<1> QED BY <1>4, <1>5, <1>6, <1>7, <1>8, <1>11, <1>12, <1>13, TaskyieldCounts
        DEF Next, GivesUp

LEMMA Remainder ==
  ASSUME NEW N \in Nat \ {0}, NEW c \in 0 .. N - 1, NEW q \in Int
  PROVE  (c + N * q) % N = c
BY Z3

\* taskyield returns the number of the tasks that ran meanwhile, for whatever
\* switch counter and however often it wrapped, if there are fewer tasks than
\* half the values of an int.
THEOREM YieldCorrect ==
  ASSUME IsFiniteSet(Tasks), 2 * Cardinality(Tasks) < IntRange
  PROVE  Spec => []YieldCounts
<1>1. Init => SwitchesCounted
  BY DEF Init, SwitchesCounted
<1>2. IInv /\ SwitchesCounted /\ [Next]_vars => SwitchesCounted'
  BY StepCounts
<1>3. IInv /\ SwitchesCounted => YieldCounts
  <2> SUFFICES ASSUME IInv, SwitchesCounted, NEW t \in Tasks, at[t] = "yield", taskrunning = t
               PROVE  yieldresult(t) = Cardinality(ran[t])
    BY DEF YieldCounts
  <2> DEFINE c == Cardinality(ran[t])
             x == tasknswitch - saved[t] - 1
  <2>1. ran[t] \in SUBSET Tasks /\ Cardinality(Tasks) \in Nat
    BY FS_CardinalityType DEF IInv, TypeOK
  <2>2. c \in Nat /\ c <= Cardinality(Tasks)
    BY <2>1, FS_Subset, FS_CardinalityType
  <2>3. /\ tasknswitch \in Int /\ saved[t] \in Int /\ IntRange \in Nat \ {0}
    BY TaskAssumption DEF IInv, TypeOK
  <2>4. PICK q \in Int : tasknswitch - saved[t] = c + 1 + IntRange * q
    BY DEF SwitchesCounted
  <2> HIDE DEF c
  <2>5. x = c + IntRange * q
    <3>1. IntRange * q \in Int
      BY <2>3
    <3> QED BY <2>2, <2>3, <2>4, <3>1
  <2>6. c \in 0 .. IntRange - 1 /\ 2 * c < IntRange
    BY <2>1, <2>2, <2>3
  <2>7. x % IntRange = c
    BY <2>3, <2>5, <2>6, Remainder
  <2> HIDE DEF x
  <2>8. AsInt(x) = c
    BY <2>2, <2>3, <2>6, <2>7 DEF AsInt, wrap
  <2> QED BY <2>8 DEF yieldresult, c, x
<1> QED BY <1>1, <1>2, <1>3, Invariance, PTL DEF Spec

=============================================================================
