--------------------------- MODULE TaskCoreProofs ---------------------------
(***************************************************************************)
(* What the run queue's operations do to it, for the proofs about every    *)
(* module that extends TaskCore.                                           *)
(***************************************************************************)
EXTENDS TaskCore, SequenceTheorems, FiniteSetTheorems, TLAPS

\* Facts about the sequences that stand for Tasklists.

\* Appending keeps a list free of duplicates and adds one member.
LEMMA AppendList ==
  ASSUME NEW S, NEW q \in Seq(S), NEW x \in S
  PROVE  /\ Append(q, x) \in Seq(S)
         /\ Range(Append(q, x)) = Range(q) \cup {x}
         /\ IsInjective(q) /\ x \notin Range(q) => IsInjective(Append(q, x))
         /\ Append(q, x) # << >>
<1>1. /\ Append(q, x) \in Seq(S)
      /\ Len(Append(q, x)) = Len(q) + 1
      /\ Append(q, x)[Len(q) + 1] = x
      /\ \A i \in 1 .. Len(q) : Append(q, x)[i] = q[i]
  BY AppendProperties
<1>2. /\ DOMAIN q = 1 .. Len(q) /\ Len(q) \in Nat
      /\ DOMAIN Append(q, x) = 1 .. Len(q) + 1
  BY <1>1
<1>3. Range(Append(q, x)) = Range(q) \cup {x}
  BY <1>1, <1>2 DEF Range
<1>4. IsInjective(q) /\ x \notin Range(q) => IsInjective(Append(q, x))
  BY <1>1, <1>2 DEF Range, IsInjective
<1>5. Append(q, x) # << >>
  BY <1>1, <1>2, EmptySeq
<1> QED BY <1>1, <1>3, <1>4, <1>5

\* The head of a list is a member of it and, without duplicates, the rest is
\* the list without the head.
LEMMA TailList ==
  ASSUME NEW S, NEW q \in Seq(S), q # << >>
  PROVE  /\ Head(q) \in S /\ Head(q) \in Range(q)
         /\ Tail(q) \in Seq(S)
         /\ Range(Tail(q)) \subseteq Range(q)
         /\ IsInjective(q) => /\ IsInjective(Tail(q))
                              /\ Range(Tail(q)) = Range(q) \ {Head(q)}
<1>1. /\ Tail(q) \in Seq(S) /\ Len(Tail(q)) = Len(q) - 1
      /\ \A i \in 1 .. Len(Tail(q)) : Tail(q)[i] = q[i + 1]
      /\ Head(q) = q[1] /\ Len(q) \in Nat \ {0}
  BY HeadTailProperties, EmptySeq
<1>2. DOMAIN q = 1 .. Len(q) /\ DOMAIN Tail(q) = 1 .. Len(q) - 1
  BY <1>1
<1>3. Head(q) \in S /\ Head(q) \in Range(q)
  BY <1>1, <1>2 DEF Range
<1>4. Range(Tail(q)) \subseteq Range(q)
  BY <1>1, <1>2 DEF Range
<1>5. ASSUME IsInjective(q)
      PROVE  IsInjective(Tail(q)) /\ Range(Tail(q)) = Range(q) \ {Head(q)}
  <2>1. IsInjective(Tail(q))
    BY <1>1, <1>2, <1>5 DEF IsInjective
  <2>2. Head(q) \notin Range(Tail(q))
    BY <1>1, <1>2, <1>5 DEF IsInjective, Range
  <2>3. ASSUME NEW y \in Range(q), y # Head(q) PROVE y \in Range(Tail(q))
    <3>1. PICK i \in 1 .. Len(q) : q[i] = y
      BY <1>2 DEF Range
    <3>2. i # 1 /\ i - 1 \in 1 .. Len(q) - 1 /\ Tail(q)[i - 1] = y
      BY <1>1, <2>3, <3>1
    <3> QED BY <3>2, <1>2 DEF Range
  <2> QED BY <2>1, <2>2, <2>3, <1>4
<1> QED BY <1>1, <1>3, <1>4, <1>5

\* The empty list has no members, and no other list.
LEMMA EmptyList ==
  /\ \A S : << >> \in Seq(S)
  /\ Range(<< >>) = {} /\ IsInjective(<< >>)
  /\ \A S : \A q \in Seq(S) : q # << >> => Range(q) # {}
<1>1. Range(<< >>) = {} /\ IsInjective(<< >>) BY DEF Range, IsInjective
<1>2. ASSUME NEW S, NEW q \in Seq(S), q # << >> PROVE Range(q) # {}
  BY <1>2, TailList
<1> QED BY <1>1, <1>2

\* Concatenating two lists without a common member.
LEMMA ConcatList ==
  ASSUME NEW S, NEW q \in Seq(S), NEW r \in Seq(S)
  PROVE  /\ q \o r \in Seq(S)
         /\ Range(q \o r) = Range(q) \cup Range(r)
         /\ IsInjective(q) /\ IsInjective(r) /\ Range(q) \cap Range(r) = {}
              => IsInjective(q \o r)
<1>1. /\ q \o r \in Seq(S) /\ Len(q \o r) = Len(q) + Len(r)
      /\ \A i \in 1 .. Len(q \o r) :
            (q \o r)[i] = IF i <= Len(q) THEN q[i] ELSE r[i - Len(q)]
      /\ Len(q) \in Nat /\ Len(r) \in Nat
      /\ DOMAIN q = 1 .. Len(q) /\ DOMAIN r = 1 .. Len(r)
  BY ConcatProperties
<1>2. Range(q \o r) = Range(q) \cup Range(r)
  BY RangeConcatenation
<1>3. ASSUME IsInjective(q), IsInjective(r), Range(q) \cap Range(r) = {},
             NEW i \in 1 .. Len(q \o r), NEW j \in 1 .. Len(q \o r),
             (q \o r)[i] = (q \o r)[j]
      PROVE  i = j
  <2>1. CASE i <= Len(q) /\ j <= Len(q)
    BY <1>1, <1>3, <2>1 DEF IsInjective
  <2>2. CASE i > Len(q) /\ j > Len(q)
    <3>1. i - Len(q) \in DOMAIN r /\ j - Len(q) \in DOMAIN r
      BY <1>1, <2>2
    <3>2. r[i - Len(q)] = r[j - Len(q)]
      BY <1>1, <1>3, <2>2
    <3>3. i - Len(q) = j - Len(q)
      BY <3>1, <3>2, <1>3 DEF IsInjective
    <3> QED BY <3>3, <1>1
  <2>3. ASSUME NEW k \in 1 .. Len(q \o r), NEW l \in 1 .. Len(q \o r),
               k <= Len(q), l > Len(q)
        PROVE  (q \o r)[k] # (q \o r)[l]
    <3>1. (q \o r)[k] \in Range(q)
      BY <1>1, <2>3 DEF Range
    <3>2. l - Len(q) \in DOMAIN r
      BY <1>1, <2>3
    <3>3. (q \o r)[l] = r[l - Len(q)]
      BY <1>1, <2>3
    <3>4. (q \o r)[l] \in Range(r)
      BY <3>2, <3>3 DEF Range
    <3> QED BY <3>1, <3>4, <1>3
  <2> QED BY <2>1, <2>2, <2>3, <1>1, <1>3
<1>4. DOMAIN (q \o r) = 1 .. Len(q \o r)
  BY <1>1
<1> QED BY <1>1, <1>2, <1>3, <1>4 DEF IsInjective

\* A list without duplicates is as long as it has members.
LEMMA ListCardinality ==
  ASSUME NEW S, NEW q \in Seq(S), IsInjective(q)
  PROVE  Cardinality(Range(q)) = Len(q)
<1>1. q \in [1 .. Len(q) -> Range(q)] /\ Len(q) \in Nat
  BY DEF Range
<1>2. q \in Bijection(1 .. Len(q), Range(q))
  BY <1>1 DEF Bijection, Injection, Surjection, Range
<1>3. ExistsBijection(1 .. Len(q), Range(q))
  BY <1>2 DEF ExistsBijection
<1> QED BY <1>1, <1>3, FS_CountingElements

-----------------------------------------------------------------------------

\* taskready of a task that does not run: the run queue and the flags agree as
\* before, and the task is in the run queue.
LEMMA TaskreadyKeeps ==
  ASSUME CoreTypeOK, RunqueueExact, NEW t \in Tasks, taskready(t)
  PROVE  /\ taskrunqueue' \in Seq(Tasks)
         /\ state' = [state EXCEPT ![t] = "ready"]
         /\ state' \in [Tasks -> States]
         /\ IsInjective(taskrunqueue')
         /\ Range(taskrunqueue') = {u \in Tasks : state'[u] = "ready"}
<1> USE DEF CoreTypeOK, RunqueueExact
<1>1. CASE state[t] = "ready"
  BY <1>1 DEF taskready
<1>2. CASE state[t] # "ready"
  <2>1. taskrunqueue' = Append(taskrunqueue, t) /\ state' = [state EXCEPT ![t] = "ready"]
    BY <1>2 DEF taskready, addtask
  <2>2. t \notin Range(taskrunqueue)
    BY <1>2
  <2>3. state' \in [Tasks -> States]
    BY <2>1 DEF States
  <2>4. /\ taskrunqueue' \in Seq(Tasks)
        /\ IsInjective(taskrunqueue')
        /\ Range(taskrunqueue') = Range(taskrunqueue) \cup {t}
    BY <2>1, <2>2, AppendList
  <2> QED BY <2>1, <2>3, <2>4
<1> QED BY <1>1, <1>2

\* A round of the scheduler keeps the run queue and the flags in agreement,
\* and runs a task that was flagged ready.
LEMMA ScheduleKeeps ==
  ASSUME CoreTypeOK, RunqueueExact, schedule
  PROVE  /\ CoreTypeOK' /\ RunqueueExact'
         /\ taskrunning' \in Tasks
         /\ state[taskrunning'] = "ready"
         /\ state' = [state EXCEPT ![taskrunning'] = "none"]
<1> DEFINE h == Head(taskrunqueue)
<1> USE DEF CoreTypeOK, RunqueueExact
<1>1. /\ h \in Tasks /\ h \in Range(taskrunqueue)
      /\ Tail(taskrunqueue) \in Seq(Tasks)
      /\ IsInjective(Tail(taskrunqueue))
      /\ Range(Tail(taskrunqueue)) = Range(taskrunqueue) \ {h}
  BY TailList DEF schedule
<1>2. /\ taskrunqueue' = Tail(taskrunqueue)
      /\ state' = [state EXCEPT ![h] = "none"]
      /\ taskrunning' = h
  BY DEF schedule, delhead
<1>3. state' \in [Tasks -> States] /\ state[h] = "ready"
  BY <1>1, <1>2 DEF States
<1>4. Range(taskrunqueue') = {u \in Tasks : state'[u] = "ready"}
  BY <1>1, <1>2, <1>3
<1> QED BY <1>1, <1>2, <1>3, <1>4

\* taskreadyall of sleeping tasks.
LEMMA TaskreadyallKeeps ==
  ASSUME CoreTypeOK, RunqueueExact, NEW ts \in Seq(Tasks), IsInjective(ts),
         \A u \in Range(ts) : state[u] = "none",
         taskreadyall(ts)
  PROVE  /\ taskrunqueue' \in Seq(Tasks)
         /\ state' = [u \in Tasks |-> IF u \in Range(ts) THEN "ready" ELSE state[u]]
         /\ state' \in [Tasks -> States]
         /\ IsInjective(taskrunqueue')
         /\ Range(taskrunqueue') = {u \in Tasks : state'[u] = "ready"}
<1> USE DEF CoreTypeOK, RunqueueExact
<1>1. /\ taskrunqueue' = taskrunqueue \o ts
      /\ state' = [u \in Tasks |-> IF u \in Range(ts) THEN "ready" ELSE state[u]]
  BY DEF taskreadyall
<1>2. Range(ts) \subseteq Tasks /\ Range(taskrunqueue) \cap Range(ts) = {}
  BY DEF Range
<1>3. /\ taskrunqueue' \in Seq(Tasks)
      /\ IsInjective(taskrunqueue')
      /\ Range(taskrunqueue') = Range(taskrunqueue) \cup Range(ts)
  BY <1>1, <1>2, ConcatList
<1>4. state' \in [Tasks -> States]
  BY <1>1 DEF States
<1> QED BY <1>1, <1>2, <1>3, <1>4

=============================================================================
