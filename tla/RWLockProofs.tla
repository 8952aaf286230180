---------------------------- MODULE RWLockProofs ----------------------------
(***************************************************************************)
(* The reader-writer lock of qlock.c is correct for any number of tasks.   *)
(***************************************************************************)
EXTENDS RWLock, TaskCoreProofs

\* A blocked task holds nothing: what its rlock or wlock was called for is all
\* it can have been given.
BlockedHoldNothing == \A t \in Tasks : at[t] # "run" => holds[t] = "none"
NoneExits == \A t \in Tasks : state[t] # "exiting"

\* The inductive invariant.  An unlock finds whom to wake because the lock's
\* fields say who is in (WriterExcludes, ReadersExact) and because nobody waits
\* for a lock that is free (NoLostWaiter).
Scheduled == TypeOK /\ RunqueueExact /\ NoneExits /\ WaitersAsleep /\ BlockedHoldNothing
Admitted == WriterExcludes /\ ReadersExact /\ NoLostWaiter /\ NeverAborts
IInv == Scheduled /\ Admitted

-----------------------------------------------------------------------------

\* The readers are counted by a natural number, 0 if there are none.
LEMMA ReadingFinite ==
  /\ Reading \subseteq Tasks /\ IsFiniteSet(Reading)
  /\ Cardinality(Reading) \in Nat
  /\ Cardinality(Reading) = 0 <=> Reading = {}
<1>1. Reading \subseteq Tasks
  BY DEF Reading
<1>2. IsFiniteSet(Reading)
  BY <1>1, TasksFinite, FS_Subset
<1> QED BY <1>1, <1>2, FS_CardinalityType, FS_EmptySet

LEMMA InitIInv == Init => IInv
<1> SUFFICES ASSUME Init PROVE IInv
  OBVIOUS
<1> USE DEF Init
<1>1. Cardinality(Tasks) \in Nat
  BY TasksFinite, FS_CardinalityType
<1>2. taskrunqueue \in Seq(Tasks)
  BY <1>1, IsASeq
<1>3. TypeOK
  <2>1. CoreTypeOK /\ rwaiting \in Seq(Tasks) /\ wwaiting \in Seq(Tasks)
    BY <1>2, EmptyList DEF CoreTypeOK, States
  <2>2. readers \in Int
    OBVIOUS
  <2> QED BY <2>1, <2>2 DEF TypeOK
<1>4. RunqueueExact /\ NoneExits
  BY NullAssumption DEF RunqueueExact, NoneExits
<1>5. WaitersAsleep /\ BlockedHoldNothing
  BY EmptyList DEF WaitersAsleep, BlockedHoldNothing
<1>6. Reading = {} /\ Writing = {}
  BY DEF Reading, Writing
<1>7. WriterExcludes
  BY <1>6, NullAssumption DEF WriterExcludes
<1>8. ReadersExact
  BY <1>6, FS_EmptySet DEF ReadersExact
<1>9. NoLostWaiter /\ NeverAborts
  BY DEF NoLostWaiter, NeverAborts
<1> QED BY <1>3, <1>4, <1>5, <1>7, <1>8, <1>9 DEF IInv, Scheduled, Admitted

-----------------------------------------------------------------------------

\* Whether a task has been let in is the client's view and the lists: the
\* scheduler and the switches do not change it.
LEMMA AdmittedSame ==
  ASSUME Admitted, UNCHANGED <<lockVars, at, holds, aborted>>
  PROVE  Admitted'
BY DEF Admitted, WriterExcludes, ReadersExact, NoLostWaiter, NeverAborts,
       Reading, Writing, lockVars

\* The running task is not queued anywhere.
LEMMA RunningIsOut ==
  ASSUME IInv, NEW t \in Tasks, taskrunning = t
  PROVE  /\ t # NULL /\ state[t] = "none"
         /\ t \notin Range(rwaiting) /\ t \notin Range(wwaiting)
<1> USE DEF IInv, Scheduled
<1>1. t # NULL
  BY NullAssumption
<1>2. state[t] # "ready" /\ state[t] # "exiting"
  BY <1>1 DEF RunqueueExact, NoneExits
<1>3. state[t] = "none"
  BY <1>2 DEF TypeOK, CoreTypeOK, States
<1> QED BY <1>1, <1>3 DEF WaitersAsleep

\* A reader that finds no writer, in or waiting, is counted at once.
LEMMA RlockNowKeeps ==
  ASSUME IInv, NEW t \in Tasks, rlockNow(t)
  PROVE  IInv'
<1> USE DEF IInv, Scheduled
<1>1. /\ taskrunning = t /\ at[t] = "run" /\ holds[t] = "none"
      /\ writer = NULL /\ wwaiting = << >>
      /\ readers' = readers + 1
      /\ holds' = [holds EXCEPT ![t] = "read"]
      /\ at' = [at EXCEPT ![t] = "run"]
      /\ UNCHANGED <<coreVars, writer, rwaiting, wwaiting, aborted>>
  BY DEF rlockNow, Runs, rfree, gets
<1>2. Reading' = Reading \cup {t} /\ t \notin Reading
  BY <1>1 DEF Reading, TypeOK
<1>3. Writing' = Writing /\ Writing = {}
  BY <1>1, NullAssumption DEF Writing, TypeOK, Admitted, WriterExcludes
<1>4. ReadersExact'
  BY <1>1, <1>2, ReadingFinite, FS_AddElement DEF ReadersExact, Admitted
<1>5. WriterExcludes'
  BY <1>1, <1>3 DEF WriterExcludes, Admitted
<1>6. NoLostWaiter' /\ NeverAborts'
  BY <1>1, EmptyList DEF NoLostWaiter, NeverAborts, Admitted
<1>7. TypeOK'
  BY <1>1 DEF TypeOK, CoreTypeOK, coreVars
<1>8. RunqueueExact' /\ NoneExits'
  BY <1>1 DEF RunqueueExact, NoneExits, coreVars
<1>9. WaitersAsleep' /\ BlockedHoldNothing'
  BY <1>1 DEF WaitersAsleep, BlockedHoldNothing, TypeOK, coreVars
<1> QED BY <1>4, <1>5, <1>6, <1>7, <1>8, <1>9 DEF Admitted

\* A writer that finds nobody in owns the lock at once.
LEMMA WlockNowKeeps ==
  ASSUME IInv, NEW t \in Tasks, wlockNow(t)
  PROVE  IInv'
<1> USE DEF IInv, Scheduled
<1>1. /\ taskrunning = t /\ at[t] = "run" /\ holds[t] = "none"
      /\ writer = NULL /\ readers = 0 /\ writer' = t
      /\ holds' = [holds EXCEPT ![t] = "write"]
      /\ at' = [at EXCEPT ![t] = "run"]
      /\ UNCHANGED <<coreVars, readers, rwaiting, wwaiting, aborted>>
  BY DEF wlockNow, Runs, wfree, gets
<1>2. Reading' = Reading /\ Reading = {}
  BY <1>1, ReadingFinite DEF Reading, TypeOK, Admitted, ReadersExact
<1>3. Writing = {} /\ Writing' = {t}
  BY <1>1, NullAssumption DEF Writing, TypeOK, Admitted, WriterExcludes
<1>4. WriterExcludes' /\ ReadersExact'
  BY <1>1, <1>2, <1>3 DEF WriterExcludes, ReadersExact, Admitted
<1>5. NoLostWaiter' /\ NeverAborts'
  BY <1>1, NullAssumption DEF NoLostWaiter, NeverAborts, Admitted
<1>6. TypeOK'
  BY <1>1 DEF TypeOK, CoreTypeOK, coreVars
<1>7. RunqueueExact' /\ NoneExits'
  BY <1>1 DEF RunqueueExact, NoneExits, coreVars
<1>8. WaitersAsleep' /\ BlockedHoldNothing'
  BY <1>1 DEF WaitersAsleep, BlockedHoldNothing, TypeOK, coreVars
<1> QED BY <1>4, <1>5, <1>6, <1>7, <1>8 DEF Admitted

\* A reader that blocks has a writer in front of it.
LEMMA RlockBlocksKeeps ==
  ASSUME IInv, NEW t \in Tasks, rlockBlocks(t)
  PROVE  IInv'
<1> USE DEF IInv, Scheduled
<1>1. /\ taskrunning = t /\ at[t] = "run" /\ holds[t] = "none"
      /\ ~rfree
      /\ rwaiting' = Append(rwaiting, t)
      /\ at' = [at EXCEPT ![t] = "rlock"]
      /\ taskrunning' = NULL
      /\ UNCHANGED <<taskrunqueue, state, readers, writer, wwaiting, holds, aborted>>
  BY DEF rlockBlocks, Runs, blocks, addtask, taskswitch
<1>2. /\ t # NULL /\ state[t] = "none"
      /\ t \notin Range(rwaiting) /\ t \notin Range(wwaiting)
  BY <1>1, RunningIsOut
<1>3. /\ rwaiting' \in Seq(Tasks)
      /\ Range(rwaiting') = Range(rwaiting) \cup {t}
      /\ IsInjective(rwaiting')
  BY <1>1, <1>2, AppendList DEF WaitersAsleep, TypeOK
<1>4. Range(rwaiting) \subseteq Tasks /\ Range(wwaiting) \subseteq Tasks
  BY RangeOfSeq DEF TypeOK
<1>5. Reading' = Reading /\ Writing' = Writing
  BY <1>1, <1>3 DEF Reading, Writing, TypeOK
<1>6. WriterExcludes' /\ ReadersExact' /\ NeverAborts'
  BY <1>1, <1>5 DEF WriterExcludes, ReadersExact, NeverAborts, Admitted
<1>7. NoLostWaiter'
  BY <1>1 DEF NoLostWaiter, Admitted, rfree
<1>8. TypeOK'
  BY <1>1, <1>3 DEF TypeOK, CoreTypeOK
<1>9. RunqueueExact' /\ NoneExits'
  BY <1>1 DEF RunqueueExact, NoneExits
<1>10. WaitersAsleep' /\ BlockedHoldNothing'
  BY <1>1, <1>2, <1>3, <1>4, NullAssumption
     DEF WaitersAsleep, BlockedHoldNothing, TypeOK
<1> QED BY <1>6, <1>7, <1>8, <1>9, <1>10 DEF Admitted

\* A writer that blocks has somebody in front of it.
LEMMA WlockBlocksKeeps ==
  ASSUME IInv, NEW t \in Tasks, wlockBlocks(t)
  PROVE  IInv'
<1> USE DEF IInv, Scheduled
<1>1. /\ taskrunning = t /\ at[t] = "run" /\ holds[t] = "none"
      /\ ~wfree
      /\ wwaiting' = Append(wwaiting, t)
      /\ at' = [at EXCEPT ![t] = "wlock"]
      /\ taskrunning' = NULL
      /\ UNCHANGED <<taskrunqueue, state, readers, writer, rwaiting, holds, aborted>>
  BY DEF wlockBlocks, Runs, blocks, addtask, taskswitch
<1>2. /\ t # NULL /\ state[t] = "none"
      /\ t \notin Range(rwaiting) /\ t \notin Range(wwaiting)
  BY <1>1, RunningIsOut
<1>3. /\ wwaiting' \in Seq(Tasks)
      /\ Range(wwaiting') = Range(wwaiting) \cup {t}
      /\ IsInjective(wwaiting')
      /\ wwaiting' # << >>
  BY <1>1, <1>2, AppendList DEF WaitersAsleep, TypeOK
<1>4. Range(rwaiting) \subseteq Tasks /\ Range(wwaiting) \subseteq Tasks
  BY RangeOfSeq DEF TypeOK
<1>5. Reading' = Reading /\ Writing' = Writing
  BY <1>1, <1>3 DEF Reading, Writing, TypeOK
<1>6. WriterExcludes' /\ ReadersExact' /\ NeverAborts'
  BY <1>1, <1>5 DEF WriterExcludes, ReadersExact, NeverAborts, Admitted
<1>7. NoLostWaiter'
  BY <1>1, <1>3 DEF NoLostWaiter, Admitted, wfree
<1>8. TypeOK'
  BY <1>1, <1>3 DEF TypeOK, CoreTypeOK
<1>9. RunqueueExact' /\ NoneExits'
  BY <1>1 DEF RunqueueExact, NoneExits
<1>10. WaitersAsleep' /\ BlockedHoldNothing'
  BY <1>1, <1>2, <1>3, <1>4, NullAssumption
     DEF WaitersAsleep, BlockedHoldNothing, TypeOK
<1> QED BY <1>6, <1>7, <1>8, <1>9, <1>10 DEF Admitted

\* A task that returns from its switch had been let in before.
LEMMA LockReturnsKeeps ==
  ASSUME IInv, NEW t \in Tasks, lockReturns(t)
  PROVE  IInv'
<1> USE DEF IInv, Scheduled
<1>1. /\ taskrunning = t
      /\ at' = [at EXCEPT ![t] = "run"]
      /\ \/ at[t] = "rlock" /\ holds' = [holds EXCEPT ![t] = "read"]
         \/ at[t] = "wlock" /\ holds' = [holds EXCEPT ![t] = "write"]
      /\ UNCHANGED <<coreVars, lockVars, aborted>>
  BY DEF lockReturns, Runs, gets
<1>2. t \notin Range(rwaiting) /\ t \notin Range(wwaiting) /\ holds[t] = "none"
  BY <1>1, RunningIsOut DEF BlockedHoldNothing
<1>3. Reading' = Reading /\ Writing' = Writing
  BY <1>1, <1>2 DEF Reading, Writing, TypeOK, lockVars
<1>4. Admitted'
  BY <1>1, <1>3 DEF Admitted, WriterExcludes, ReadersExact, NoLostWaiter,
                    NeverAborts, lockVars
<1>5. TypeOK'
  BY <1>1 DEF TypeOK, CoreTypeOK, coreVars, lockVars
<1>6. RunqueueExact' /\ NoneExits'
  BY <1>1 DEF RunqueueExact, NoneExits, coreVars
<1>7. Range(rwaiting) \subseteq Tasks /\ Range(wwaiting) \subseteq Tasks
  BY RangeOfSeq DEF TypeOK
<1>8. WaitersAsleep' /\ BlockedHoldNothing'
  BY <1>1, <1>2, <1>7 DEF WaitersAsleep, BlockedHoldNothing, TypeOK, coreVars, lockVars
<1> QED BY <1>4, <1>5, <1>6, <1>8

\* The first waiting writer, asleep until now, is the only one in and ready.
LEMMA AdmitwriterKeeps ==
  ASSUME IInv, admitwriter, wwaiting # << >>,
         UNCHANGED <<taskrunning, at>>
  PROVE  /\ writer' \in Tasks /\ writer' \in Range(wwaiting)
         /\ taskrunqueue' \in Seq(Tasks)
         /\ state' = [state EXCEPT ![writer'] = "ready"]
         /\ state' \in [Tasks -> States]
         /\ RunqueueExact' /\ NoneExits'
         /\ wwaiting' \in Seq(Tasks) /\ IsInjective(wwaiting')
         /\ Range(wwaiting') = Range(wwaiting) \ {writer'}
<1> USE DEF IInv, Scheduled
<1>1. writer' = Head(wwaiting) /\ wwaiting' = Tail(wwaiting) /\ taskready(writer')
  BY DEF admitwriter, delhead
<1>2. /\ writer' \in Tasks /\ writer' \in Range(wwaiting)
      /\ wwaiting' \in Seq(Tasks) /\ IsInjective(wwaiting')
      /\ Range(wwaiting') = Range(wwaiting) \ {writer'}
  BY <1>1, TailList DEF TypeOK, WaitersAsleep
<1>3. /\ taskrunqueue' \in Seq(Tasks)
      /\ state' = [state EXCEPT ![writer'] = "ready"]
      /\ state' \in [Tasks -> States]
      /\ IsInjective(taskrunqueue')
      /\ Range(taskrunqueue') = {u \in Tasks : state'[u] = "ready"}
  BY <1>1, <1>2, TaskreadyKeeps DEF TypeOK
<1>4. RunqueueExact'
  BY <1>2, <1>3 DEF RunqueueExact, TypeOK, CoreTypeOK, WaitersAsleep
<1>5. NoneExits'
  BY <1>2, <1>3 DEF NoneExits, TypeOK, CoreTypeOK
<1> QED BY <1>2, <1>3, <1>4, <1>5

\* The count reaches 0 when the last reader leaves, and then a waiting writer
\* gets in.
LEMMA RunlockKeeps ==
  ASSUME IInv, NEW t \in Tasks, runlock(t)
  PROVE  IInv'
<1> USE DEF IInv, Scheduled
<1>1. /\ taskrunning = t /\ at[t] = "run" /\ holds[t] = "read"
      /\ readers' = readers - 1
      /\ holds' = [holds EXCEPT ![t] = "none"]
      /\ UNCHANGED <<taskrunning, rwaiting, at, aborted>>
  BY DEF runlock, Runs
<1>2. Reading' = Reading \ {t} /\ t \in Reading
  BY <1>1 DEF Reading, TypeOK
<1>3. Writing = {} /\ writer = NULL
  BY <1>2 DEF Admitted, WriterExcludes, TypeOK
<1>4. ReadersExact'
  BY <1>1, <1>2, ReadingFinite, FS_RemoveElement DEF ReadersExact, Admitted
<1>5. readers \in Nat \ {0}
  BY <1>2, ReadingFinite DEF ReadersExact, Admitted
<1>6. NeverAborts' /\ BlockedHoldNothing'
  BY <1>1 DEF NeverAborts, Admitted, BlockedHoldNothing, TypeOK
<1>7. CASE readers = 1 /\ wwaiting # << >>
  <2>1. admitwriter
    BY <1>7 DEF runlock, lastreader
  <2>2. /\ writer' \in Tasks /\ writer' \in Range(wwaiting)
        /\ taskrunqueue' \in Seq(Tasks)
        /\ state' = [state EXCEPT ![writer'] = "ready"]
        /\ state' \in [Tasks -> States]
        /\ RunqueueExact' /\ NoneExits'
        /\ wwaiting' \in Seq(Tasks) /\ IsInjective(wwaiting')
        /\ Range(wwaiting') = Range(wwaiting) \ {writer'}
    BY <1>1, <1>7, <2>1, AdmitwriterKeeps
  <2>3. at[writer'] = "wlock"
    BY <2>2 DEF WaitersAsleep
  <2>4. Reading' = {}
    <3>1. IsFiniteSet(Reading \ {t}) /\ Cardinality(Reading \ {t}) = 0
      <4>1. Cardinality(Reading) = 1
        BY <1>7 DEF ReadersExact, Admitted
      <4>2. /\ IsFiniteSet(Reading \ {t})
            /\ Cardinality(Reading \ {t}) = Cardinality(Reading) - 1
        BY <1>2, ReadingFinite, FS_RemoveElement
      <4> QED BY <4>1, <4>2
    <3>2. Reading \ {t} = {}
      BY <3>1, FS_EmptySet
    <3> QED BY <3>2, <1>2
  <2>5. Writing' = {writer'}
    BY <1>1, <1>3, <2>2, <2>3 DEF Writing, TypeOK
  <2>6. WriterExcludes'
    BY <2>2, <2>4, <2>5 DEF WriterExcludes
  <2>7. NoLostWaiter'
    BY <2>2, NullAssumption DEF NoLostWaiter
  <2>8. TypeOK'
    BY <1>1, <2>2 DEF TypeOK, CoreTypeOK
  <2>9. WaitersAsleep'
    BY <1>1, <2>2, <2>3 DEF WaitersAsleep, TypeOK, CoreTypeOK
  <2> QED BY <1>4, <1>6, <2>2, <2>6, <2>7, <2>8, <2>9 DEF Admitted
<1>8. CASE ~(readers = 1 /\ wwaiting # << >>)
  <2>1. UNCHANGED <<writer, wwaiting, taskrunqueue, state>>
    BY <1>8 DEF runlock, lastreader
  <2>2. Writing' = {}
    BY <1>1, <1>3, <2>1 DEF Writing, TypeOK
  <2>3. WriterExcludes'
    BY <1>3, <2>1, <2>2, NullAssumption DEF WriterExcludes
  <2>4. NoLostWaiter'
    BY <1>1, <1>3, <1>5, <1>8, <2>1 DEF NoLostWaiter, Admitted
  <2>5. TypeOK'
    BY <1>1, <2>1 DEF TypeOK, CoreTypeOK
  <2>6. RunqueueExact' /\ NoneExits' /\ WaitersAsleep'
    BY <1>1, <2>1 DEF RunqueueExact, NoneExits, WaitersAsleep
  <2> QED BY <1>4, <1>6, <2>3, <2>4, <2>5, <2>6 DEF Admitted
<1> QED BY <1>7, <1>8

\* wunlock finds itself the only one in, so it does not abort; it lets in all
\* the waiting readers or else one writer.
LEMMA WunlockKeeps ==
  ASSUME IInv, NEW t \in Tasks, wunlock(t)
  PROVE  IInv'
<1> USE DEF IInv, Scheduled
<1>1. /\ taskrunning = t /\ at[t] = "run" /\ holds[t] = "write"
      /\ holds' = [holds EXCEPT ![t] = "none"]
      /\ UNCHANGED <<taskrunning, at>>
  BY DEF wunlock, Runs
<1>2. Writing = {t} /\ Reading = {} /\ writer = t
  BY <1>1 DEF Writing, Admitted, WriterExcludes
<1>3. readers = 0 /\ writer # NULL
  BY <1>2, ReadingFinite, NullAssumption DEF ReadersExact, Admitted
<1>4. aborted' = FALSE /\ admitothers
  BY <1>3 DEF wunlock
<1>5. readers' = Len(rwaiting) /\ rwaiting' = << >>
  BY <1>4 DEF admitothers
<1>6. NeverAborts' /\ BlockedHoldNothing'
  BY <1>1, <1>4 DEF NeverAborts, BlockedHoldNothing, TypeOK
<1>7. Range(rwaiting) \subseteq Tasks /\ Range(wwaiting) \subseteq Tasks
  BY RangeOfSeq DEF TypeOK
<1>8. Reading' = Range(rwaiting)
  <2>1. \A u \in Tasks : holds[u] # "read" /\ (at[u] = "rlock" => u \in Range(rwaiting))
    BY <1>2 DEF Reading
  <2>2. \A u \in Range(rwaiting) : at[u] = "rlock"
    BY DEF WaitersAsleep
  <2>3. \A u \in Tasks : holds'[u] # "read"
    BY <1>1, <2>1 DEF TypeOK
  <2> QED BY <1>1, <1>5, <1>7, <2>1, <2>2, <2>3, EmptyList DEF Reading
<1>9. ReadersExact'
  BY <1>5, <1>8, ListCardinality DEF ReadersExact, TypeOK, WaitersAsleep
<1>10. CASE rwaiting = << >> /\ wwaiting # << >>
  <2>1. admitwriter
    BY <1>4, <1>10 DEF admitothers
  <2>2. /\ writer' \in Tasks /\ writer' \in Range(wwaiting)
        /\ taskrunqueue' \in Seq(Tasks)
        /\ state' = [state EXCEPT ![writer'] = "ready"]
        /\ state' \in [Tasks -> States]
        /\ RunqueueExact' /\ NoneExits'
        /\ wwaiting' \in Seq(Tasks) /\ IsInjective(wwaiting')
        /\ Range(wwaiting') = Range(wwaiting) \ {writer'}
    BY <1>1, <1>10, <2>1, AdmitwriterKeeps
  <2>3. at[writer'] = "wlock"
    BY <2>2 DEF WaitersAsleep
  <2>4. Reading' = {}
    BY <1>8, <1>10, EmptyList
  <2>5. Writing' = {writer'}
    BY <1>1, <1>2, <2>2, <2>3 DEF Writing, TypeOK
  <2>6. WriterExcludes'
    BY <2>2, <2>4, <2>5 DEF WriterExcludes
  <2>7. NoLostWaiter'
    BY <2>2, NullAssumption DEF NoLostWaiter
  <2>8. TypeOK'
    <3>1. CoreTypeOK'
      BY <1>1, <2>2 DEF TypeOK, CoreTypeOK
    <3>2. readers' \in Int /\ rwaiting' \in Seq(Tasks)
      BY <1>5, EmptyList DEF TypeOK
    <3> QED BY <1>1, <1>4, <2>2, <3>1, <3>2 DEF TypeOK
  <2>9. WaitersAsleep'
    BY <1>1, <1>5, <1>10, <2>2, <2>3, EmptyList DEF WaitersAsleep, TypeOK, CoreTypeOK
  <2> QED BY <1>6, <1>9, <2>2, <2>6, <2>7, <2>8, <2>9 DEF Admitted
<1>11. CASE ~(rwaiting = << >> /\ wwaiting # << >>)
  <2>1. taskreadyall(rwaiting) /\ writer' = NULL /\ wwaiting' = wwaiting
    BY <1>4, <1>11 DEF admitothers
  <2>2. /\ taskrunqueue' \in Seq(Tasks)
        /\ state' = [u \in Tasks |-> IF u \in Range(rwaiting) THEN "ready" ELSE state[u]]
        /\ state' \in [Tasks -> States]
        /\ IsInjective(taskrunqueue')
        /\ Range(taskrunqueue') = {u \in Tasks : state'[u] = "ready"}
    BY <2>1, TaskreadyallKeeps DEF TypeOK, WaitersAsleep
  <2>3. Writing' = {}
    BY <1>1, <1>2, <2>1 DEF Writing, TypeOK
  <2>4. WriterExcludes'
    BY <2>1, <2>3, NullAssumption DEF WriterExcludes
  <2>5. rwaiting # << >> => readers' # 0
    BY <1>5, EmptySeq DEF TypeOK
  <2>6. NoLostWaiter'
    BY <1>5, <1>11, <2>1, <2>5 DEF NoLostWaiter
  <2>7. Len(rwaiting) \in Int
    BY DEF TypeOK
  <2>8. TypeOK'
    BY <1>1, <1>4, <1>5, <2>1, <2>2, <2>7, EmptyList DEF TypeOK, CoreTypeOK
  <2>9. RunqueueExact'
    BY <1>1, <1>3, <2>2, RunningIsOut DEF RunqueueExact
  <2>10. NoneExits'
    BY <2>2 DEF NoneExits
  <2>11. Range(rwaiting) \cap Range(wwaiting) = {}
    BY DEF WaitersAsleep
  <2>12. WaitersAsleep'
    BY <1>1, <1>5, <1>7, <2>1, <2>2, <2>11, EmptyList DEF WaitersAsleep
  <2> QED BY <1>6, <1>9, <2>4, <2>6, <2>8, <2>9, <2>10, <2>12 DEF Admitted
<1> QED BY <1>10, <1>11

-----------------------------------------------------------------------------

LEMMA YieldKeeps ==
  ASSUME IInv, NEW t \in Tasks, taskyield(t)
  PROVE  IInv'
<1> USE DEF IInv, Scheduled
<1>1. /\ taskrunning = t /\ taskready(t) /\ taskrunning' = NULL
      /\ UNCHANGED <<lockVars, at, holds, aborted>>
  BY DEF taskyield, taskswitch, Runs
<1>2. /\ taskrunqueue' \in Seq(Tasks)
      /\ state' = [state EXCEPT ![t] = "ready"]
      /\ state' \in [Tasks -> States]
      /\ IsInjective(taskrunqueue')
      /\ Range(taskrunqueue') = {u \in Tasks : state'[u] = "ready"}
  BY <1>1, TaskreadyKeeps DEF TypeOK
<1>3. TypeOK' /\ RunqueueExact'
  BY <1>1, <1>2 DEF TypeOK, CoreTypeOK, RunqueueExact, lockVars
<1>4. NoneExits' /\ BlockedHoldNothing'
  BY <1>1, <1>2 DEF NoneExits, BlockedHoldNothing, TypeOK, CoreTypeOK
<1>5. WaitersAsleep'
  <2>1. Range(rwaiting) \subseteq Tasks /\ Range(wwaiting) \subseteq Tasks
    BY RangeOfSeq DEF TypeOK
  <2>2. t \notin Range(rwaiting) /\ t \notin Range(wwaiting)
    BY <1>1, RunningIsOut
  <2> QED BY <1>1, <1>2, <2>1, <2>2, NullAssumption
          DEF WaitersAsleep, TypeOK, CoreTypeOK, lockVars
<1>6. Admitted'
  BY <1>1, AdmittedSame
<1> QED BY <1>3, <1>4, <1>5, <1>6

LEMMA SchedulerKeeps ==
  ASSUME IInv, scheduler
  PROVE  IInv'
<1> USE DEF IInv, Scheduled
<1> DEFINE h == taskrunning'
<1>1. schedule /\ UNCHANGED <<lockVars, at, holds, aborted>>
  BY DEF scheduler
<1>2. /\ CoreTypeOK' /\ RunqueueExact'
      /\ h \in Tasks /\ state[h] = "ready"
      /\ state' = [state EXCEPT ![h] = "none"]
  BY <1>1, ScheduleKeeps DEF TypeOK
<1>3. TypeOK'
  BY <1>1, <1>2 DEF TypeOK, lockVars
<1>4. NoneExits' /\ BlockedHoldNothing'
  BY <1>1, <1>2 DEF NoneExits, BlockedHoldNothing, TypeOK, CoreTypeOK
<1>5. WaitersAsleep'
  <2>1. Range(rwaiting) \subseteq Tasks /\ Range(wwaiting) \subseteq Tasks
    BY RangeOfSeq DEF TypeOK
  <2>2. h \notin Range(rwaiting) /\ h \notin Range(wwaiting)
    BY <1>2 DEF WaitersAsleep
  <2> QED BY <1>1, <1>2, <2>1, <2>2 DEF WaitersAsleep, TypeOK, CoreTypeOK, lockVars
<1>6. Admitted'
  BY <1>1, AdmittedSame
<1> QED BY <1>2, <1>3, <1>4, <1>5, <1>6

LEMMA StutterKeeps ==
  ASSUME IInv, UNCHANGED vars
  PROVE  IInv'
<1>1. UNCHANGED <<lockVars, at, holds, aborted>>
  BY DEF vars
<1>2. Admitted'
  BY <1>1, AdmittedSame DEF IInv
<1> QED BY <1>2 DEF IInv, Scheduled, TypeOK, CoreTypeOK, RunqueueExact, NoneExits,
                    WaitersAsleep, BlockedHoldNothing, vars, coreVars, lockVars

-----------------------------------------------------------------------------

LEMMA StepIInv == IInv /\ [Next]_vars => IInv'
<1> SUFFICES ASSUME IInv, [Next]_vars PROVE IInv'
  OBVIOUS
<1>1. CASE scheduler
  BY <1>1, SchedulerKeeps
<1>2. ASSUME NEW t \in Tasks, TaskStep(t) PROVE IInv'
  <2>1. CASE rlock(t) \/ wlock(t)
    BY <2>1, RlockNowKeeps, RlockBlocksKeeps, WlockNowKeeps, WlockBlocksKeeps
       DEF rlock, wlock
  <2>2. CASE canlock(t)
    BY <2>2, RlockNowKeeps, WlockNowKeeps, StutterKeeps DEF canlock
  <2>3. CASE lockReturns(t)
    BY <2>3, LockReturnsKeeps
  <2>4. CASE Unlock(t)
    BY <2>4, RunlockKeeps, WunlockKeeps DEF Unlock
  <2>5. CASE taskyield(t)
    BY <2>5, YieldKeeps
  <2> QED BY <1>2, <2>1, <2>2, <2>3, <2>4, <2>5 DEF TaskStep
<1>3. CASE UNCHANGED vars
  BY <1>3, StutterKeeps
<1> QED BY <1>1, <1>2, <1>3 DEF Next

\* The invariant holds in every state of every behaviour.
THEOREM Invariance == Spec => []IInv
<1>1. Init => IInv
  BY InitIInv
<1>2. IInv /\ [Next]_vars => IInv'
  BY StepIInv
<1> QED BY <1>1, <1>2, PTL DEF Spec

\* The types of the lock, its lists and the tasks hold.
THEOREM TypeCorrect == Spec => []TypeOK
<1>1. IInv => TypeOK
  BY DEF IInv, Scheduled
<1> QED BY <1>1, Invariance, PTL

\* One writer, or any number of readers, have been let in, and the field
\* writer names the writer.
THEOREM Exclusion == Spec => []WriterExcludes
<1>1. IInv => WriterExcludes
  BY DEF IInv, Admitted
<1> QED BY <1>1, Invariance, PTL

\* The field readers counts the readers that have been let in.
THEOREM ReadersCounted == Spec => []ReadersExact
<1>1. IInv => ReadersExact
  BY DEF IInv, Admitted
<1> QED BY <1>1, Invariance, PTL

\* Nobody waits for a lock that nobody will release.
THEOREM NoneLost == Spec => []NoLostWaiter
<1>1. IInv => NoLostWaiter
  BY DEF IInv, Admitted
<1> QED BY <1>1, Invariance, PTL

\* The tasks of the waiting lists are in one list once, and sleep.
THEOREM AsleepInLists == Spec => []WaitersAsleep
<1>1. IInv => WaitersAsleep
  BY DEF IInv, Scheduled
<1> QED BY <1>1, Invariance, PTL

\* The aborts in wunlock are dead code for a client that keeps to the rules.
THEOREM NoAbort == Spec => []NeverAborts
<1>1. IInv => NeverAborts
  BY DEF IInv, Admitted
<1> QED BY <1>1, Invariance, PTL

\* rlock and canrlock let no reader past a waiting writer.
THEOREM WritersNotOvertaken == Spec => ReadersDoNotOvertake
<1> DEFINE Waits == wwaiting # << >> /\ readers' > readers
                      => writer # NULL /\ writer' = NULL
<1>1. IInv /\ [Next]_vars => [Waits]_vars
  <2> SUFFICES ASSUME IInv, Next, wwaiting # << >>, readers' > readers
               PROVE  writer # NULL /\ writer' = NULL
    BY DEF vars
  <2>1. readers \in Int
    BY DEF IInv, Scheduled, TypeOK
  <2>2. ~(readers' = readers) /\ ~(readers' = readers - 1)
    BY <2>1
  <2>3. PICK t \in Tasks : wunlock(t)
    BY <2>2 DEF Next, scheduler, TaskStep, rlock, wlock, canlock, rlockNow, rfree,
                rlockBlocks, wlockNow, wlockBlocks, blocks, lockReturns, Unlock,
                runlock, taskyield, lockVars, vars
  <2>4. writer # NULL /\ readers = 0 /\ admitothers
    BY <2>2, <2>3 DEF wunlock, lockVars
  <2>5. rwaiting # << >>
    BY <2>2, <2>4 DEF admitothers
  <2> QED BY <2>4, <2>5 DEF admitothers
<1> QED BY <1>1, Invariance, PTL DEF Spec, ReadersDoNotOvertake

=============================================================================
