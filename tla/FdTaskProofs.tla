----------------------------- MODULE FdTaskProofs ----------------------------
(***************************************************************************)
(* The fd task of fd.c is correct for any number of tasks and descriptors, *)
(* any delays and timeouts, and any number of events of one epoll_wait.    *)
(***************************************************************************)
EXTENDS FdTask, TaskCoreProofs, FunctionTheorems, NaturalsInduction,
        WellFoundedInduction

\* Where a client is says what it waits for, and no task stays in taskexit.
PlacesExact ==
  /\ \A t \in Clients : /\ at[t] \in {"run", "delay", "fdwait"}
                        /\ wait[t] # NULL <=> at[t] = "fdwait"
                        /\ wait[t] # NULL => wait[t].task = t
  /\ at[fdtask] \in {"yield", "epoll"}
  /\ \A t \in Tasks : state[t] # "exiting"

\* A registration goes away before its fdwait returns, so each one found is
\* that of the fdwait its task is in.
Registered ==
  /\ IsFiniteSet(epfd)
  /\ \A r \in epfd : at[r.task] = "fdwait" /\ wait[r.task] = r

\* Since fdtask yielded nobody has run, unless others says so; then fdtask is
\* still the last in the run queue, and once it runs again the only task.
Alone ==
  /\ ~others => IF taskrunning = NULL
                THEN taskrunqueue # << >> /\ taskrunqueue[Len(taskrunqueue)] = fdtask
                ELSE taskrunning = fdtask /\ taskrunqueue = << >>
  /\ at[fdtask] = "epoll" => ~others /\ taskrunning = fdtask

\* startedfdtask says whether there is an fd task; it never sleeps, and nobody
\* sleeps without it.
Attended ==
  IF startedfdtask THEN state[fdtask] = "ready" \/ taskrunning = fdtask
  ELSE state[fdtask] = "none" /\ taskrunning # fdtask /\ sleeping = << >>

\* Whoever may run again has not been reaped.
AliveExact ==
  /\ Range(sleeping) \subseteq alive
  /\ \A t \in Tasks : state[t] = "ready" \/ taskrunning = t => t \in alive
  /\ fdtask \in alive <=> startedfdtask

\* An event takes a task off the list and leaves it counted, so the count of
\* sleeping tasks can be too high, never too low.
Counted ==
  /\ taskcount = Cardinality(alive) + (IF sleepingcounted = 0 THEN 0 ELSE 1)
  /\ sleepingcounted >= Len(sleeping)

CallbackGiven == v \/ poolfn => Callback

\* The inductive invariant.  That epoll reports only sleeping tasks rests on
\* two facts: fdtask polls only when nobody else is ready (Alone), and a
\* registration belongs to an fdwait that has not returned (Registered).
IInv ==
  /\ TypeOK
  /\ RunqueueExact
  /\ PlacesExact
  /\ SleepersExact
  /\ Registered
  /\ Alone
  /\ Attended
  /\ AliveExact
  /\ Counted
  /\ NeverOversleeps
  /\ CallbackGiven

-----------------------------------------------------------------------------
(* Lists.                                                                  *)

\* A set of natural numbers has a least member.
LEMMA LeastNat ==
  ASSUME NEW T \in SUBSET Nat, T # {}
  PROVE  \E x \in T : \A y \in T : x <= y
<1> DEFINE R == {p \in Nat \X Nat : p[1] < p[2]}
<1>1. OpToRel(<, Nat) = R
  BY DEF OpToRel
<1>2. IsWellFoundedOn(R, Nat)
  BY <1>1, NatLessThanWellFounded, Zenon
<1>3. \A x, y \in Nat : x < y => <<x, y>> \in R
  OBVIOUS
<1> HIDE DEF R
<1>4. PICK x \in T : \A y \in T : ~ (<<y, x>> \in R)
  BY <1>2, WFMin
<1>5. ASSUME NEW y \in T PROVE x <= y
  <2>1. x \in Nat /\ y \in Nat
    OBVIOUS
  <2>2. ~ (y < x)
    BY <1>3, <1>4, <2>1
  <2> QED BY <2>1, <2>2
<1> QED BY <1>5

Increases(f) == \A i, j \in DOMAIN f : i < j => f[i] < f[j]

\* The members of a set of indices can be listed in their order.
LEMMA InOrder ==
  ASSUME NEW n \in Nat
  PROVE  \A K \in SUBSET (1 .. n) :
           \E m \in Nat : \E f \in [1 .. m -> K] :
             Increases(f) /\ \A k \in K : \E i \in 1 .. m : f[i] = k
<1> DEFINE Ordered(K) == \E m \in Nat : \E f \in [1 .. m -> K] :
                           Increases(f) /\ \A k \in K : \E i \in 1 .. m : f[i] = k
           Bad == {p \in Nat : \E K \in SUBSET (1 .. p) : ~Ordered(K)}
<1>1. ASSUME Bad # {} PROVE FALSE
  <2>1. PICK p \in Bad : \A y \in Bad : p <= y
    <3> HIDE DEF Bad
    <3>1. Bad \in SUBSET Nat BY DEF Bad
    <3> QED BY <1>1, <3>1, LeastNat
  <2>2. PICK K \in SUBSET (1 .. p) : ~Ordered(K)
    BY <2>1
  <2>3. K # {}
    <3>1. ASSUME K = {} PROVE FALSE
      <4> DEFINE e == [i \in 1 .. 0 |-> i]
      <4>1. e \in [1 .. 0 -> K] /\ Increases(e)
        BY DEF Increases
      <4>2. \A k \in K : \E i \in 1 .. 0 : e[i] = k
        BY <3>1
      <4> HIDE DEF e
      <4>3. Ordered(K)
        BY <4>1, <4>2
      <4> QED BY <4>3, <2>2
    <3> QED BY <3>1
  <2>4. p \in Nat /\ p # 0 /\ p - 1 \in Nat
    <3> HIDE DEF Ordered
    <3>1. p \in Nat
      BY <2>1
    <3>2. p # 0
      <4>1. PICK k \in K : TRUE
        BY <2>3
      <4> QED BY <4>1, <3>1
    <3> QED BY <3>1, <3>2
  <2>5. \A M \in SUBSET (1 .. p - 1) : Ordered(M)
    <3> HIDE DEF Ordered
    <3>1. p - 1 \notin Bad
      <4> HIDE DEF Bad
      <4>1. ~ (p <= p - 1) BY <2>4
      <4> QED BY <4>1, <2>1
    <3> QED BY <3>1, <2>4
  <2>6. p \in K
    <3>1. p \notin K => K \in SUBSET (1 .. p - 1)
      BY <2>4
    <3> HIDE DEF Ordered
    <3> QED BY <3>1, <2>5, <2>2
  <2> DEFINE M == K \ {p}
  <2>7. M \in SUBSET (1 .. p - 1)
    BY <2>4
  <2>8. PICK m \in Nat : \E f \in [1 .. m -> M] :
          Increases(f) /\ \A k \in M : \E i \in 1 .. m : f[i] = k
    BY <2>5, <2>7
  <2>9. PICK f \in [1 .. m -> M] :
          Increases(f) /\ \A k \in M : \E i \in 1 .. m : f[i] = k
    BY <2>8
  <2> DEFINE g == [i \in 1 .. m + 1 |-> IF i = m + 1 THEN p ELSE f[i]]
  <2>10. \A i \in 1 .. m : f[i] \in M /\ f[i] \in 1 .. p - 1
    BY <2>7, <2>9
  <2>11. g \in [1 .. m + 1 -> K]
    BY <2>6, <2>10
  <2>12. Increases(g)
    <3>1. ASSUME NEW i \in 1 .. m + 1, NEW j \in 1 .. m + 1, i < j
          PROVE  g[i] < g[j]
      <4>1. i \in 1 .. m /\ g[i] = f[i]
        BY <3>1
      <4>2. CASE j = m + 1
        BY <4>1, <4>2, <2>10, <2>4
      <4>3. CASE j # m + 1
        <5>1. j \in 1 .. m /\ g[j] = f[j]
          BY <4>3
        <5> QED BY <5>1, <4>1, <3>1, <2>9 DEF Increases
      <4> QED BY <4>2, <4>3
    <3> QED BY <3>1 DEF Increases
  <2>13. \A k \in K : \E i \in 1 .. m + 1 : g[i] = k
    <3>1. ASSUME NEW k \in K PROVE \E i \in 1 .. m + 1 : g[i] = k
      <4>1. CASE k = p
        <5>1. m + 1 \in 1 .. m + 1 /\ g[m + 1] = k BY <4>1
        <5> QED BY <5>1
      <4>2. CASE k # p
        <5>1. PICK i \in 1 .. m : f[i] = k BY <4>2, <2>9
        <5>2. i \in 1 .. m + 1 /\ g[i] = k BY <5>1
        <5> QED BY <5>2
      <4> QED BY <4>1, <4>2
    <3> QED BY <3>1
  <2>14. m + 1 \in Nat
    OBVIOUS
  <2> HIDE DEF g
  <2>15. Ordered(K)
    BY <2>11, <2>12, <2>13, <2>14
  <2> HIDE DEF Ordered
  <2> QED BY <2>15, <2>2
<1> HIDE DEF Ordered
<1>2. \A K \in SUBSET (1 .. n) : Ordered(K)
  BY <1>1
<1> QED BY <1>2 DEF Ordered

-----------------------------------------------------------------------------
(* The operators of the sleeping list.                                     *)

\* The alarms d of a list do not fall.
Rises(q, d) == \A i, j \in DOMAIN q : i < j => d[q[i]] <= d[q[j]]

\* The first n members of a list and the others.
LEMMA Slices ==
  ASSUME NEW S, NEW q \in Seq(S), NEW n \in 0 .. Len(q)
  PROVE  LET a == SubSeq(q, 1, n)
             b == SubSeq(q, n + 1, Len(q))
         IN  /\ a \in Seq(S) /\ Len(a) = n /\ \A i \in 1 .. n : a[i] = q[i]
             /\ b \in Seq(S) /\ Len(b) = Len(q) - n
             /\ \A i \in 1 .. Len(q) - n : b[i] = q[n + i]
             /\ Range(q) = Range(a) \cup Range(b)
             /\ IsInjective(q) => /\ IsInjective(a) /\ IsInjective(b)
                                  /\ Range(a) \cap Range(b) = {}
<1> DEFINE a == SubSeq(q, 1, n)
           b == SubSeq(q, n + 1, Len(q))
<1>1. Len(q) \in Nat /\ n \in Nat /\ \A i \in 1 .. Len(q) : q[i] \in S
  OBVIOUS
<1>2. a \in Seq(S) /\ Len(a) = n /\ \A i \in 1 .. n : a[i] = q[i]
  <2>1. /\ a \in Seq(S)
        /\ Len(a) = IF 1 <= n THEN n - 1 + 1 ELSE 0
        /\ \A i \in 1 .. n - 1 + 1 : a[i] = q[1 + i - 1]
    BY <1>1, SubSeqProperties
  <2> HIDE DEF a
  <2> QED BY <2>1, <1>1
<1>3. /\ b \in Seq(S) /\ Len(b) = Len(q) - n
      /\ \A i \in 1 .. Len(q) - n : b[i] = q[n + i]
  <2>1. /\ b \in Seq(S)
        /\ Len(b) = IF n + 1 <= Len(q) THEN Len(q) - (n + 1) + 1 ELSE 0
        /\ \A i \in 1 .. Len(q) - (n + 1) + 1 : b[i] = q[(n + 1) + i - 1]
    BY <1>1, SubSeqProperties
  <2> HIDE DEF b
  <2>2. \A i \in 1 .. Len(q) - n : b[i] = q[n + i]
    <3>1. ASSUME NEW i \in 1 .. Len(q) - n PROVE b[i] = q[n + i]
      <4>1. i \in 1 .. Len(q) - (n + 1) + 1 /\ (n + 1) + i - 1 = n + i
        BY <1>1
      <4> QED BY <4>1, <2>1
    <3> QED BY <3>1
  <2> QED BY <2>1, <2>2, <1>1
<1> HIDE DEF a, b
<1>4. DOMAIN a = 1 .. n /\ DOMAIN b = 1 .. Len(q) - n /\ DOMAIN q = 1 .. Len(q)
  BY <1>2, <1>3
<1>5. Range(q) = Range(a) \cup Range(b)
  <2>1. ASSUME NEW i \in 1 .. Len(q) PROVE q[i] \in Range(a) \cup Range(b)
    <3>1. CASE i <= n
      BY <3>1, <1>1, <1>2, <1>4 DEF Range
    <3>2. CASE i > n
      <4>1. i - n \in 1 .. Len(q) - n /\ n + (i - n) = i
        BY <3>2, <1>1
      <4>2. b[i - n] = q[i]
        BY <4>1, <1>3
      <4> QED BY <4>1, <4>2, <1>4 DEF Range
    <3> QED BY <3>1, <3>2, <1>1
  <2>2. \A i \in 1 .. n : a[i] \in Range(q)
    BY <1>1, <1>2, <1>4 DEF Range
  <2>3. \A i \in 1 .. Len(q) - n : n + i \in 1 .. Len(q) /\ b[i] \in Range(q)
    BY <1>1, <1>3, <1>4 DEF Range
  <2> QED BY <2>1, <2>2, <2>3, <1>4 DEF Range
<1>6. ASSUME IsInjective(q)
      PROVE  IsInjective(a) /\ IsInjective(b) /\ Range(a) \cap Range(b) = {}
  <2>1. \A i, j \in 1 .. Len(q) : q[i] = q[j] => i = j
    BY <1>4, <1>6 DEF IsInjective
  <2>2. IsInjective(a)
    BY <2>1, <1>1, <1>2, <1>4 DEF IsInjective
  <2>3. ASSUME NEW i \in 1 .. Len(q) - n, NEW j \in 1 .. Len(q) - n, b[i] = b[j]
        PROVE  i = j
    <3>1. n + i \in 1 .. Len(q) /\ n + j \in 1 .. Len(q)
      BY <1>1
    <3>2. q[n + i] = q[n + j]
      BY <2>3, <1>3
    <3>3. n + i = n + j
      BY <3>1, <3>2, <2>1
    <3> QED BY <3>3, <1>1
  <2>4. ASSUME NEW i \in 1 .. n, NEW j \in 1 .. Len(q) - n, a[i] = b[j] PROVE FALSE
    <3>1. i \in 1 .. Len(q) /\ n + j \in 1 .. Len(q) /\ i # n + j
      BY <1>1
    <3>2. q[i] = q[n + j]
      BY <2>4, <1>2, <1>3
    <3> QED BY <3>1, <3>2, <2>1
  <2> QED BY <2>2, <2>3, <2>4, <1>4 DEF Range, IsInjective
<1>7. /\ a \in Seq(S) /\ Len(a) = n /\ \A i \in 1 .. n : a[i] = q[i]
      /\ b \in Seq(S) /\ Len(b) = Len(q) - n
      /\ \A i \in 1 .. Len(q) - n : b[i] = q[n + i]
      /\ Range(q) = Range(a) \cup Range(b)
      /\ IsInjective(q) => /\ IsInjective(a) /\ IsInjective(b)
                           /\ Range(a) \cap Range(b) = {}
  BY <1>2, <1>3, <1>5, <1>6
<1> QED BY <1>7 DEF a, b

\* A list with x put after its first k members.
LEMMA Inserted ==
  ASSUME NEW S, NEW q \in Seq(S), NEW x \in S, NEW k \in 0 .. Len(q)
  PROVE  LET r == SubSeq(q, 1, k) \o <<x>> \o SubSeq(q, k + 1, Len(q))
         IN  /\ r \in Seq(S) /\ Len(r) = Len(q) + 1
             /\ \A i \in 1 .. k : r[i] = q[i]
             /\ r[k + 1] = x
             /\ \A i \in k + 2 .. Len(q) + 1 : r[i] = q[i - 1]
             /\ Range(r) = Range(q) \cup {x}
             /\ IsInjective(q) /\ x \notin Range(q) => IsInjective(r)
<1> DEFINE a == SubSeq(q, 1, k)
           b == SubSeq(q, k + 1, Len(q))
           w == <<x>>
           ax == a \o w
           r == ax \o b
<1>1. /\ a \in Seq(S) /\ Len(a) = k /\ \A i \in 1 .. k : a[i] = q[i]
      /\ b \in Seq(S) /\ Len(b) = Len(q) - k
      /\ \A i \in 1 .. Len(q) - k : b[i] = q[k + i]
      /\ Range(q) = Range(a) \cup Range(b)
      /\ IsInjective(q) => /\ IsInjective(a) /\ IsInjective(b)
                           /\ Range(a) \cap Range(b) = {}
  BY Slices
<1> HIDE DEF a, b
<1>2. /\ w \in Seq(S) /\ Len(w) = 1 /\ w[1] = x
      /\ Range(w) = {x} /\ IsInjective(w)
  BY DEF Range, IsInjective
<1> HIDE DEF w
<1>3. /\ ax \in Seq(S) /\ Len(ax) = k + 1
      /\ \A i \in 1 .. k : ax[i] = q[i]
      /\ ax[k + 1] = x
      /\ Range(ax) = Range(a) \cup {x}
      /\ IsInjective(a) /\ x \notin Range(a) => IsInjective(ax)
  <2>1. ax \in Seq(S) /\ Range(ax) = Range(a) \cup {x}
    BY <1>1, <1>2, ConcatList
  <2>2. /\ Len(ax) = k + 1
        /\ \A i \in 1 .. k + 1 : ax[i] = IF i <= k THEN a[i] ELSE w[i - k]
    <3>1. a \in Seq(S) /\ w \in Seq(S) /\ Len(a) = k /\ Len(w) = 1
      BY <1>1, <1>2
    <3>2. /\ Len(ax) = Len(a) + Len(w)
          /\ \A i \in 1 .. Len(a) + Len(w) :
                ax[i] = IF i <= Len(a) THEN a[i] ELSE w[i - Len(a)]
      BY <3>1, ConcatProperties
    <3> HIDE DEF ax
    <3> QED BY <3>1, <3>2
  <2>3. Range(a) \cap Range(w) = {} <=> x \notin Range(a)
    BY <1>2
  <2>4. ASSUME IsInjective(a), x \notin Range(a) PROVE IsInjective(ax)
    <3>1. a \in Seq(S) /\ w \in Seq(S) /\ IsInjective(w) /\ Range(a) \cap Range(w) = {}
      BY <1>1, <1>2, <2>3, <2>4
    <3> QED BY <2>4, <3>1, ConcatList
  <2> HIDE DEF ax
  <2> QED BY <2>1, <2>2, <2>4, <1>1, <1>2
<1> HIDE DEF ax
<1>4. r \in Seq(S) /\ Range(r) = Range(ax) \cup Range(b)
  BY <1>1, <1>3, ConcatList
<1>5. /\ Len(r) = Len(q) + 1
      /\ \A i \in 1 .. Len(q) + 1 : r[i] = IF i <= k + 1 THEN ax[i] ELSE b[i - (k + 1)]
  <2>1. /\ Len(r) = Len(ax) + Len(b)
        /\ \A i \in 1 .. Len(ax) + Len(b) :
              r[i] = IF i <= Len(ax) THEN ax[i] ELSE b[i - Len(ax)]
    <3>1. ax \in Seq(S) /\ b \in Seq(S)
      BY <1>1, <1>3
    <3> QED BY <3>1, ConcatProperties
  <2>2. Len(ax) + Len(b) = Len(q) + 1 /\ Len(ax) = k + 1
    BY <1>1, <1>3
  <2> HIDE DEF r
  <2> QED BY <2>1, <2>2
<1>6. IsInjective(ax) /\ IsInjective(b) /\ Range(ax) \cap Range(b) = {}
        => IsInjective(r)
  BY <1>1, <1>3, ConcatList
<1> HIDE DEF r
<1>7. \A i \in 1 .. k : r[i] = q[i]
  BY <1>3, <1>5
<1>8. r[k + 1] = x
  BY <1>3, <1>5
<1>9. ASSUME NEW i \in k + 2 .. Len(q) + 1 PROVE r[i] = q[i - 1]
  <2>1. i - (k + 1) \in 1 .. Len(q) - k /\ k + (i - (k + 1)) = i - 1
    OBVIOUS
  <2>2. r[i] = b[i - (k + 1)]
    BY <1>5
  <2> QED BY <2>1, <2>2, <1>1
<1>10. Range(r) = Range(q) \cup {x}
  BY <1>1, <1>3, <1>4
<1>11. IsInjective(q) /\ x \notin Range(q) => IsInjective(r)
  BY <1>1, <1>3, <1>6
<1>12. /\ r \in Seq(S) /\ Len(r) = Len(q) + 1
       /\ \A i \in 1 .. k : r[i] = q[i]
       /\ r[k + 1] = x
       /\ \A i \in k + 2 .. Len(q) + 1 : r[i] = q[i - 1]
       /\ Range(r) = Range(q) \cup {x}
       /\ IsInjective(q) /\ x \notin Range(q) => IsInjective(r)
  BY <1>4, <1>5, <1>7, <1>8, <1>9, <1>10, <1>11
<1> QED BY <1>12 DEF a, b, w, ax, r

\* The loop of taskdelay finds a place for the task.
LEMMA PlaceFound ==
  ASSUME sleeping \in Seq(Clients), due \in [Tasks -> Int], NEW d \in Int
  PROVE  /\ place(d) \in 0 .. Len(sleeping)
         /\ place(d) = 0 \/ due[sleeping[place(d)]] < d
         /\ \A i \in place(d) + 1 .. Len(sleeping) : due[sleeping[i]] >= d
<1> DEFINE T == {k \in 0 .. Len(sleeping) :
                   \A i \in k + 1 .. Len(sleeping) : due[sleeping[i]] >= d}
<1>1. Len(sleeping) \in Nat
  OBVIOUS
<1>2. Len(sleeping) \in T /\ T \in SUBSET Nat
  BY <1>1
<1>3. PICK k \in T : \A y \in T : k <= y
  <2> HIDE DEF T
  <2> QED BY <1>2, LeastNat
<1>4. k = 0 \/ due[sleeping[k]] < d
  <2>1. ASSUME k # 0, ~ (due[sleeping[k]] < d) PROVE FALSE
    <3>1. k \in 1 .. Len(sleeping) /\ k - 1 \in 0 .. Len(sleeping)
      BY <1>1, <1>3, <2>1
    <3>2. sleeping[k] \in Clients /\ due[sleeping[k]] \in Int
      BY <3>1 DEF Clients
    <3>3. due[sleeping[k]] >= d
      BY <3>2, <2>1
    <3>4. \A i \in (k - 1) + 1 .. Len(sleeping) : i = k \/ i \in k + 1 .. Len(sleeping)
      BY <3>1
    <3>5. k - 1 \in T
      BY <3>1, <3>3, <3>4, <1>3
    <3>6. k <= k - 1
      <4> HIDE DEF T
      <4> QED BY <3>5, <1>3
    <3> QED BY <3>6, <3>1
  <2> QED BY <2>1
<1> QED BY <1>3, <1>4 DEF place

\* The alarms that are due are those of the first tasks of a list.
LEMMA OverdueFound ==
  ASSUME NEW s \in Seq(Clients), due \in [Tasks -> Int]
  PROVE  /\ overdue(s) \in 0 .. Len(s)
         /\ \A i \in 1 .. overdue(s) : due[s[i]] <= 0
         /\ overdue(s) < Len(s) => due[s[overdue(s) + 1]] > 0
<1> DEFINE T == {k \in 0 .. Len(s) : k < Len(s) => due[s[k + 1]] > 0}
<1>1. Len(s) \in Nat
  OBVIOUS
<1>2. Len(s) \in T /\ T \in SUBSET Nat
  BY <1>1
<1>3. PICK k \in T : \A y \in T : k <= y
  <2> HIDE DEF T
  <2> QED BY <1>2, LeastNat
<1>4. ASSUME NEW i \in 1 .. k PROVE due[s[i]] <= 0
  <2>1. i - 1 \in 0 .. Len(s) /\ i \in 1 .. Len(s) /\ (i - 1) + 1 = i /\ k \in Nat
    BY <1>1, <1>3
  <2>2. ~ (k <= i - 1)
    BY <2>1
  <2>3. i - 1 \notin T
    <3> HIDE DEF T
    <3> QED BY <2>2, <1>3
  <2>4. ~ (due[s[i]] > 0)
    BY <2>1, <2>3
  <2>5. s[i] \in Clients /\ due[s[i]] \in Int
    BY <2>1 DEF Clients
  <2> QED BY <2>4, <2>5
<1> QED BY <1>3, <1>4 DEF overdue

\* Taking tasks off the list keeps the order of the others.
LEMMA UnexpectedKept ==
  ASSUME sleeping \in Seq(Clients), IsInjective(sleeping), NEW ts
  PROVE  /\ unexpected(ts) \in Seq(Clients)
         /\ Len(unexpected(ts)) \in Nat /\ Len(unexpected(ts)) <= Len(sleeping)
         /\ Range(unexpected(ts)) = Range(sleeping) \ Range(ts)
         /\ IsInjective(unexpected(ts))
         /\ Rises(sleeping, due) => Rises(unexpected(ts), due)
<1> DEFINE n == Len(sleeping)
           left == Range(sleeping) \ Range(ts)
           places == {i \in 1 .. n : sleeping[i] \notin Range(ts)}
           Keeps(q) == \A i, j \in DOMAIN q : i < j =>
             \E k, l \in DOMAIN sleeping : k < l /\ sleeping[k] = q[i] /\ sleeping[l] = q[j]
<1>1. /\ n \in Nat /\ DOMAIN sleeping = 1 .. n
      /\ \A i \in 1 .. n : sleeping[i] \in Clients /\ sleeping[i] \in Range(sleeping)
      /\ \A i, j \in 1 .. n : sleeping[i] = sleeping[j] => i = j
      /\ \A y \in Range(sleeping) : \E i \in 1 .. n : sleeping[i] = y
  BY DEF Range, IsInjective
<1> HIDE DEF n
<1>2. PICK m \in Nat : \E f \in [1 .. m -> places] :
        Increases(f) /\ \A k \in places : \E i \in 1 .. m : f[i] = k
  <2>1. places \in SUBSET (1 .. n)
    OBVIOUS
  <2> HIDE DEF places
  <2> QED BY <2>1, <1>1, InOrder
<1>3. PICK f \in [1 .. m -> places] :
        Increases(f) /\ \A k \in places : \E i \in 1 .. m : f[i] = k
  BY <1>2
<1> DEFINE h == [i \in 1 .. m |-> sleeping[f[i]]]
<1>4. ASSUME NEW i \in 1 .. m
      PROVE  f[i] \in 1 .. n /\ h[i] = sleeping[f[i]] /\ h[i] \in left
  <2>1. f[i] \in places
    BY <1>3
  <2> QED BY <2>1, <1>1
<1>5. ASSUME NEW i \in 1 .. m, NEW j \in 1 .. m, i < j PROVE f[i] < f[j] /\ h[i] # h[j]
  <2>1. f[i] < f[j]
    BY <1>3, <1>5 DEF Increases
  <2>2. f[i] # f[j]
    BY <2>1, <1>4
  <2> QED BY <2>1, <2>2, <1>1, <1>4
<1>6. ASSUME NEW y \in left PROVE \E i \in 1 .. m : h[i] = y
  <2>1. PICK k \in 1 .. n : sleeping[k] = y
    BY <1>1
  <2>2. PICK i \in 1 .. m : f[i] = k
    BY <2>1, <1>3
  <2> QED BY <2>1, <2>2, <1>4
<1>7. h \in [1 .. m -> left] /\ DOMAIN h = 1 .. m
  BY <1>4
<1>8. Keeps(h)
  BY <1>1, <1>4, <1>5, <1>7
<1>9. Cardinality(left) = m /\ IsFiniteSet(left)
  <2> HIDE DEF h
  <2>1. \A i, j \in 1 .. m : i = j \/ i < j \/ j < i
    OBVIOUS
  <2>2. IsInjective(h)
    BY <2>1, <1>5, <1>7 DEF IsInjective
  <2>3. h \in Bijection(1 .. m, left)
    BY <2>2, <1>6, <1>7 DEF Bijection, Injection, Surjection
  <2>4. IsFiniteSet(1 .. m)
    BY FS_Interval
  <2> QED BY <2>3, <2>4, FS_CountingElements, FS_Bijection DEF ExistsBijection
<1> DEFINE q == CHOOSE g \in [1 .. Cardinality(left) -> left] : Keeps(g)
<1>10. unexpected(ts) = q
  BY DEF unexpected
<1>11. q \in [1 .. m -> left] /\ Keeps(q)
  <2> HIDE DEF h, left, Keeps
  <2> QED BY <1>7, <1>8, <1>9
<1> HIDE DEF q, h
<1>12. ASSUME NEW i \in 1 .. m, NEW j \in 1 .. m, i < j
       PROVE  \E k, l \in 1 .. n : k < l /\ sleeping[k] = q[i] /\ sleeping[l] = q[j]
  <2> HIDE DEF left
  <2>1. DOMAIN q = 1 .. m
    BY <1>11
  <2>2. i \in DOMAIN q /\ j \in DOMAIN q /\ Keeps(q)
    BY <2>1, <1>11
  <2>3. \E k, l \in DOMAIN sleeping : k < l /\ sleeping[k] = q[i] /\ sleeping[l] = q[j]
    BY <2>2, <1>12
  <2> QED BY <2>3, <1>1
<1>13. q \in Injection(1 .. m, left)
  <2>1. ASSUME NEW i \in 1 .. m, NEW j \in 1 .. m, i < j PROVE q[i] # q[j]
    <3>1. PICK k \in 1 .. n, l \in 1 .. n :
            k < l /\ sleeping[k] = q[i] /\ sleeping[l] = q[j]
      BY <2>1, <1>12
    <3> QED BY <3>1, <1>1
  <2>2. \A i, j \in 1 .. m : i = j \/ i < j \/ j < i
    OBVIOUS
  <2>3. \A i, j \in DOMAIN q : q[i] = q[j] => i = j
    BY <2>1, <2>2, <1>11
  <2> QED BY <2>3, <1>11 DEF Injection, IsInjective
<1>14. q \in Surjection(1 .. m, left)
  <2>1. Cardinality(1 .. m) = m
    BY FS_Interval
  <2> HIDE DEF left
  <2> QED BY <2>1, <1>9, <1>13, FS_Injection
<1>15. DOMAIN q = 1 .. m /\ \A i \in 1 .. m : q[i] \in left
  BY <1>11
<1>16. Range(q) = left
  <2> HIDE DEF left
  <2>1. \A y \in left : \E i \in 1 .. m : q[i] = y
    BY <1>14 DEF Surjection
  <2> QED BY <2>1, <1>15 DEF Range
<1>17. q \in Seq(Clients) /\ Len(q) = m
  <2>1. left \subseteq Clients
    BY <1>1
  <2>2. q \in [1 .. m -> Clients]
    BY <2>1, <1>11
  <2> QED BY <2>2, IsASeq, LenProperties
<1>18. m <= n
  <2>1. Cardinality(Range(sleeping)) = n /\ IsFiniteSet(Range(sleeping))
    BY ListCardinality, RangeOfSeq, FdAssumption, FS_Subset DEF n, Clients
  <2>2. left \in SUBSET Range(sleeping)
    OBVIOUS
  <2> HIDE DEF left
  <2> QED BY <2>1, <2>2, <1>9, FS_Subset
<1>19. IsInjective(q)
  BY <1>13 DEF Injection
<1>20. ASSUME Rises(sleeping, due) PROVE Rises(q, due)
  <2>1. ASSUME NEW i \in 1 .. m, NEW j \in 1 .. m, i < j PROVE due[q[i]] <= due[q[j]]
    <3>1. PICK k \in 1 .. n, l \in 1 .. n :
            k < l /\ sleeping[k] = q[i] /\ sleeping[l] = q[j]
      BY <2>1, <1>12
    <3> QED BY <3>1, <1>1, <1>20 DEF Rises
  <2> QED BY <2>1, <1>15 DEF Rises
<1> QED BY <1>10, <1>16, <1>17, <1>18, <1>19, <1>20 DEF n

-----------------------------------------------------------------------------
(* The inductive invariant.                                                *)

LEMMA Sorted == SleepersExact <=>
  /\ IsInjective(sleeping)
  /\ Range(sleeping) = {t \in Clients : at[t] # "run" /\ state[t] = "none"
                                                      /\ taskrunning # t}
  /\ Rises(sleeping, due)
BY DEF SleepersExact, Rises

\* There are finitely many tasks, and more counts than can be needed.
LEMMA Finite ==
  /\ \A S \in SUBSET Tasks : IsFiniteSet(S) /\ Cardinality(S) \in Nat
                             /\ Cardinality(S) <= Cardinality(Tasks)
  /\ MaxCounted \in Nat /\ MaxCounted = Cardinality(Tasks) + 1
  /\ Cardinality(Tasks) \in Nat \ {0}
<1>1. ASSUME NEW S \in SUBSET Tasks
      PROVE  IsFiniteSet(S) /\ Cardinality(S) \in Nat /\ Cardinality(S) <= Cardinality(Tasks)
  BY FdAssumption, FS_Subset, FS_CardinalityType
<1>2. Cardinality(Tasks) \in Nat /\ Cardinality(Tasks) # 0
  BY FdAssumption, FS_CardinalityType, FS_EmptySet
<1> QED BY <1>1, <1>2 DEF MaxCounted

\* The list is not longer than there are tasks.
LEMMA SleepersFew ==
  ASSUME sleeping \in Seq(Clients), IsInjective(sleeping)
  PROVE  Len(sleeping) \in Nat /\ Len(sleeping) <= Cardinality(Tasks)
<1>1. Range(sleeping) \in SUBSET Tasks
  BY RangeOfSeq DEF Clients
<1>2. Cardinality(Range(sleeping)) = Len(sleeping)
  BY ListCardinality
<1> QED BY <1>1, <1>2, Finite

LEMMA InitIInv == Init => IInv
<1> SUFFICES ASSUME Init PROVE IInv
  OBVIOUS
<1> USE DEF Init
<1>1. IsFiniteSet(Clients) /\ Cardinality(Clients) \in Nat
  BY Finite DEF Clients
<1>2. taskrunqueue \in Seq(Clients) /\ Len(taskrunqueue) = Cardinality(Clients)
  BY <1>1, IsASeq, LenProperties
<1>3. taskrunqueue \in Seq(Tasks)
  BY <1>2, SeqMonotonic DEF Clients
<1>4. TypeOK
  <2>1. CoreTypeOK
    BY <1>3 DEF CoreTypeOK, States
  <2>2. sleepingcounted \in 0 .. MaxCounted
    BY Finite
  <2>3. timeout \in Nat /\ due \in [Tasks -> Int]
    OBVIOUS
  <2> QED BY <2>1, <2>2, <2>3, <1>1, EmptyList DEF TypeOK, Places, Clients
<1>5. Range(taskrunqueue) = Clients
  <2>1. taskrunqueue \in Injection(1 .. Cardinality(Clients), Clients)
    BY DEF Injection
  <2>2. /\ IsFiniteSet(1 .. Cardinality(Clients))
        /\ Cardinality(1 .. Cardinality(Clients)) = Cardinality(Clients)
    BY <1>1, FS_Interval
  <2>3. taskrunqueue \in Surjection(1 .. Cardinality(Clients), Clients)
    BY <1>1, <2>1, <2>2, FS_Injection
  <2> QED BY <2>3, Fun_SurjectionProperties
<1>6. RunqueueExact
  BY <1>5 DEF RunqueueExact, Clients
<1>7. PlacesExact /\ CallbackGiven
  BY FdAssumption DEF PlacesExact, CallbackGiven, Clients
<1>8. SleepersExact
  <2>1. {t \in Clients : at[t] # "run" /\ state[t] = "none" /\ taskrunning # t} = {}
    BY DEF Clients
  <2>2. \A i, j \in DOMAIN << >> : i < j => FALSE
    OBVIOUS
  <2> QED BY <2>1, <2>2, EmptyList DEF SleepersExact
<1>9. Registered
  BY FS_EmptySet DEF Registered
<1>10. Alone /\ Attended
  BY FdAssumption, NullAssumption DEF Alone, Attended
<1>11. AliveExact
  BY EmptyList, NullAssumption DEF AliveExact, Clients
<1>12. Counted
  BY <1>1 DEF Counted
<1>13. NeverOversleeps
  BY FdAssumption, NullAssumption DEF NeverOversleeps, Polling, Runs
<1> QED BY <1>4, <1>6, <1>7, <1>8, <1>9, <1>10, <1>11, <1>12, <1>13 DEF IInv

\* A client that runs is in nobody's list, and fdtask is not polling.
LEMMA RunningClient ==
  ASSUME IInv, NEW t \in Clients, taskrunning = t
  PROVE  /\ t \in Tasks /\ t # fdtask /\ t # NULL /\ taskrunning # NULL
         /\ state[t] = "none"
         /\ others = TRUE
         /\ at[fdtask] = "yield"
         /\ t \notin Range(sleeping)
         /\ t \in alive
         /\ startedfdtask => state[fdtask] = "ready"
<1>1. t \in Tasks /\ t # fdtask /\ t # NULL /\ taskrunning # NULL
  BY NullAssumption DEF Clients
<1>2. state[t] \in States /\ state[t] # "ready" /\ state[t] # "exiting"
  BY <1>1 DEF IInv, TypeOK, CoreTypeOK, RunqueueExact, PlacesExact
<1>3. others = TRUE
  BY <1>1 DEF IInv, TypeOK, Alone
<1>4. at[fdtask] = "yield"
  BY <1>3 DEF IInv, PlacesExact, Alone
<1>5. t \notin Range(sleeping) /\ t \in alive
  BY <1>1 DEF IInv, SleepersExact, AliveExact
<1>6. startedfdtask => state[fdtask] = "ready"
  BY <1>1 DEF IInv, Attended
<1> QED BY <1>1, <1>2, <1>3, <1>4, <1>5, <1>6 DEF States

\* After _startfdtask there is an fd task, and it is ready.
LEMMA StartfdKeeps ==
  ASSUME IInv, NEW t \in Clients, taskrunning = t, startfd
  PROVE  /\ taskrunqueue' \in Seq(Tasks)
         /\ state' \in [Tasks -> States]
         /\ IsInjective(taskrunqueue')
         /\ Range(taskrunqueue') = {u \in Tasks : state'[u] = "ready"}
         /\ state' = [state EXCEPT ![fdtask] = "ready"]
         /\ startedfdtask' = TRUE
         /\ alive' = alive \cup {fdtask} /\ alive' \subseteq Tasks
         /\ Cardinality(alive') = Cardinality(alive) + started
         /\ instances' \in Nat
<1>1. alive \subseteq Tasks /\ startedfdtask \in BOOLEAN /\ fdtask \in Tasks
  BY FdAssumption DEF IInv, TypeOK
<1>2. CoreTypeOK /\ RunqueueExact
  BY DEF IInv, TypeOK
<1>3. IsFiniteSet(alive) /\ Cardinality(alive) \in Nat
  BY <1>1, Finite
<1>4. /\ startedfdtask' = TRUE
      /\ alive' = alive \cup {fdtask} /\ alive' \subseteq Tasks
  BY <1>1 DEF startfd
<1>5. Cardinality(alive') = Cardinality(alive) + started
  <2>1. fdtask \in alive <=> startedfdtask
    BY DEF IInv, AliveExact
  <2>2. Cardinality(alive \cup {fdtask}) =
          IF fdtask \in alive THEN Cardinality(alive) ELSE Cardinality(alive) + 1
    BY <1>3, FS_AddElement
  <2> QED BY <2>1, <2>2, <1>3, <1>4 DEF started
<1>8. instances' \in Nat
  BY DEF startfd, started, IInv, TypeOK
<1>6. CASE startedfdtask
  <2>1. taskrunqueue' = taskrunqueue /\ state' = state
    BY <1>6 DEF startfd
  <2>2. state[fdtask] = "ready"
    BY <1>6, RunningClient
  <2>3. state' = [state EXCEPT ![fdtask] = "ready"]
    BY <2>1, <2>2, <1>2 DEF CoreTypeOK
  <2> QED BY <2>1, <2>3, <1>2, <1>4, <1>5, <1>8 DEF CoreTypeOK, RunqueueExact
<1>7. CASE ~startedfdtask
  <2>1. taskready(fdtask)
    BY <1>7 DEF startfd
  <2>2. /\ taskrunqueue' \in Seq(Tasks)
        /\ state' = [state EXCEPT ![fdtask] = "ready"]
        /\ state' \in [Tasks -> States]
        /\ IsInjective(taskrunqueue')
        /\ Range(taskrunqueue') = {u \in Tasks : state'[u] = "ready"}
    BY <2>1, <1>1, <1>2, TaskreadyKeeps
  <2> QED BY <2>2, <1>4, <1>5, <1>8
<1> QED BY <1>1, <1>6, <1>7

\* fdtask does not poll while a client runs or the scheduler is at work.
LEMMA NotPolling ==
  at[fdtask] # "epoll" => NeverOversleeps
BY DEF NeverOversleeps, Polling, Runs

\* A task goes to sleep: the list stays in order, the task is awake no more,
\* and it is counted.
LEMMA SleepKeeps ==
  ASSUME IInv, NEW t \in Clients, taskrunning = t, NEW d \in Int, sleep(t, d),
         NEW p \in {"delay", "fdwait"}, at' = [at EXCEPT ![t] = p],
         wait' \in [Tasks -> Registrations \cup {NULL}],
         epfd' \subseteq Registrations
  PROVE  /\ TypeOK' /\ RunqueueExact' /\ SleepersExact'
         /\ Alone' /\ Attended' /\ AliveExact' /\ Counted'
         /\ NeverOversleeps' /\ CallbackGiven'
         /\ at'[fdtask] = "yield" /\ \A u \in Tasks : state'[u] # "exiting"
<1>1. /\ t \in Tasks /\ t # fdtask /\ t # NULL /\ taskrunning # NULL
      /\ state[t] = "none" /\ others = TRUE /\ at[fdtask] = "yield"
      /\ t \notin Range(sleeping) /\ t \in alive
  BY RunningClient
<1>2. startfd /\ taskrunning' = NULL
  BY DEF sleep, taskswitch
<1>3. /\ taskrunqueue' \in Seq(Tasks)
      /\ state' \in [Tasks -> States]
      /\ IsInjective(taskrunqueue')
      /\ Range(taskrunqueue') = {u \in Tasks : state'[u] = "ready"}
      /\ state' = [state EXCEPT ![fdtask] = "ready"]
      /\ startedfdtask' = TRUE
      /\ alive' = alive \cup {fdtask} /\ alive' \subseteq Tasks
      /\ Cardinality(alive') = Cardinality(alive) + started
      /\ instances' \in Nat
  BY <1>2, StartfdKeeps
<1>4. /\ sleeping \in Seq(Clients) /\ due \in [Tasks -> Int]
      /\ state \in [Tasks -> States]
      /\ sleepingcounted \in 0 .. MaxCounted /\ taskcount \in Nat
      /\ IsInjective(sleeping) /\ Rises(sleeping, due)
      /\ Range(sleeping) = {u \in Clients : at[u] # "run" /\ state[u] = "none"
                                                          /\ taskrunning # u}
  BY Sorted DEF IInv, TypeOK, CoreTypeOK
<1> DEFINE k == place(d)
<1>5. /\ k \in 0 .. Len(sleeping)
      /\ k = 0 \/ due[sleeping[k]] < d
      /\ \A i \in k + 1 .. Len(sleeping) : due[sleeping[i]] >= d
  BY <1>4, PlaceFound
<1>6. sleeping' = SubSeq(sleeping, 1, k) \o <<t>> \o SubSeq(sleeping, k + 1, Len(sleeping))
  BY DEF sleep
<1> HIDE DEF k
<1>7. /\ sleeping' \in Seq(Clients) /\ Len(sleeping') = Len(sleeping) + 1
      /\ \A i \in 1 .. k : sleeping'[i] = sleeping[i]
      /\ sleeping'[k + 1] = t
      /\ \A i \in k + 2 .. Len(sleeping) + 1 : sleeping'[i] = sleeping[i - 1]
      /\ Range(sleeping') = Range(sleeping) \cup {t}
      /\ IsInjective(sleeping')
  <2> DEFINE r == SubSeq(sleeping, 1, k) \o <<t>> \o SubSeq(sleeping, k + 1, Len(sleeping))
  <2>1. /\ r \in Seq(Clients) /\ Len(r) = Len(sleeping) + 1
        /\ \A i \in 1 .. k : r[i] = sleeping[i]
        /\ r[k + 1] = t
        /\ \A i \in k + 2 .. Len(sleeping) + 1 : r[i] = sleeping[i - 1]
        /\ Range(r) = Range(sleeping) \cup {t}
        /\ IsInjective(sleeping) /\ t \notin Range(sleeping) => IsInjective(r)
    BY <1>4, <1>5, Inserted
  <2>2. sleeping' = r
    BY <1>6
  <2> HIDE DEF r
  <2> QED BY <2>1, <2>2, <1>1, <1>4
<1>8. due' = [due EXCEPT ![t] = d] /\ due' \in [Tasks -> Int]
  BY <1>4 DEF sleep
<1>9. Len(sleeping) \in Nat /\ Len(sleeping) <= Cardinality(Tasks)
  BY <1>4, SleepersFew
<1>10. Rises(sleeping', due')
  <2>1. \A i \in 1 .. Len(sleeping) :
          /\ due'[sleeping[i]] = due[sleeping[i]] /\ due[sleeping[i]] \in Int
          /\ sleeping[i] \in Clients
    BY <1>1, <1>4, <1>8 DEF Range, Clients
  <2>2. due'[t] = d
    BY <1>1, <1>4, <1>8
  <2>3. \A i, j \in 1 .. Len(sleeping) : i < j => due[sleeping[i]] <= due[sleeping[j]]
    BY <1>4 DEF Rises
  <2>4. \A i \in 1 .. k : i \in 1 .. Len(sleeping) /\ due[sleeping[i]] <= d
    <3>1. ASSUME NEW i \in 1 .. k PROVE i \in 1 .. Len(sleeping) /\ due[sleeping[i]] <= d
      <4>1. k \in 1 .. Len(sleeping) /\ i \in 1 .. Len(sleeping) /\ i <= k
        BY <1>5, <1>9
      <4>2. due[sleeping[i]] <= due[sleeping[k]]
        BY <4>1, <2>1, <2>3
      <4>3. due[sleeping[k]] < d
        BY <4>1, <1>5
      <4> QED BY <4>1, <4>2, <4>3, <2>1
    <3> QED BY <3>1
  <2>5. ASSUME NEW i \in 1 .. Len(sleeping) + 1, NEW j \in 1 .. Len(sleeping) + 1, i < j
        PROVE  due'[sleeping'[i]] <= due'[sleeping'[j]]
    <3>1. CASE j <= k
      <4>1. i \in 1 .. k /\ j \in 1 .. k
        BY <3>1, <2>5, <1>5
      <4> QED BY <4>1, <2>1, <2>3, <2>4, <2>5, <1>7
    <3>2. CASE j = k + 1
      <4>1. i \in 1 .. k
        BY <3>2, <2>5, <1>5
      <4> QED BY <4>1, <3>2, <2>1, <2>2, <2>4, <1>7
    <3>3. CASE j > k + 1
      <4>1. j - 1 \in k + 1 .. Len(sleeping) /\ j - 1 \in 1 .. Len(sleeping)
        BY <3>3, <1>5, <1>9
      <4>2. sleeping'[j] = sleeping[j - 1]
        BY <3>3, <1>7, <1>9, <1>5
      <4>3. due[sleeping[j - 1]] >= d
        BY <4>1, <1>5
      <4>4. CASE i <= k
        <5>1. i \in 1 .. k
          BY <4>4, <1>5
        <5>2. due[sleeping[i]] <= d /\ sleeping'[i] = sleeping[i] /\ i \in 1 .. Len(sleeping)
          BY <5>1, <2>4, <1>7
        <5>3. /\ due'[sleeping'[i]] = due[sleeping[i]] /\ due[sleeping[i]] \in Int
              /\ due'[sleeping'[j]] = due[sleeping[j - 1]] /\ due[sleeping[j - 1]] \in Int
          BY <5>2, <4>1, <4>2, <2>1
        <5>4. due[sleeping[i]] <= due[sleeping[j - 1]]
          BY <5>2, <5>3, <4>3
        <5> QED BY <5>3, <5>4
      <4>5. CASE i = k + 1
        BY <4>1, <4>2, <4>3, <4>5, <2>1, <2>2, <1>7
      <4>6. CASE i > k + 1
        <5>1. i - 1 \in 1 .. Len(sleeping) /\ i - 1 < j - 1 /\ i \in k + 2 .. Len(sleeping) + 1
          BY <4>6, <2>5, <1>5, <1>9
        <5>2. sleeping'[i] = sleeping[i - 1]
          BY <5>1, <1>7
        <5>3. due[sleeping[i - 1]] <= due[sleeping[j - 1]]
          BY <5>1, <4>1, <2>3
        <5> QED BY <5>1, <5>2, <5>3, <4>1, <4>2, <2>1
      <4> QED BY <4>4, <4>5, <4>6, <1>5
    <3> QED BY <3>1, <3>2, <3>3, <1>5
  <2> QED BY <2>5, <1>7 DEF Rises
<1>11. SleepersExact'
  <2>1. at \in [Tasks -> Places]
    BY DEF IInv, TypeOK
  <2>2. Range(sleeping') = {u \in Clients : at'[u] # "run" /\ state'[u] = "none"
                                                           /\ taskrunning' # u}
    <3>1. ASSUME NEW u \in Clients, u # t
          PROVE  /\ u \in Tasks /\ u # fdtask /\ u # NULL
                 /\ at'[u] = at[u] /\ state'[u] = state[u] /\ taskrunning # u
      BY <3>1, <1>1, <1>3, <1>4, <2>1, NullAssumption DEF Clients
    <3>2. at'[t] # "run" /\ state'[t] = "none" /\ taskrunning' # t
      BY <1>1, <1>2, <1>3, <1>4, <2>1
    <3>3. Range(sleeping') = Range(sleeping) \cup {t}
      BY <1>7
    <3> QED BY <3>1, <3>2, <3>3, <1>1, <1>2, <1>4
  <2> QED BY <2>2, <1>7, <1>10 DEF SleepersExact, Rises
<1>12. /\ sleepingcounted' \in 1 .. MaxCounted
       /\ sleepingcounted' >= Len(sleeping')
       /\ taskcount' = Cardinality(alive') + 1
  <2>1. sleepingcounted' = IF sleepingcounted = MaxCounted THEN MaxCounted
                           ELSE sleepingcounted + 1
    BY DEF sleep
  <2>2. taskcount' = taskcount + started + (IF sleepingcounted = 0 THEN 1 ELSE 0)
    BY DEF sleep, addsleeper
  <2>3. /\ taskcount = Cardinality(alive) + (IF sleepingcounted = 0 THEN 0 ELSE 1)
        /\ sleepingcounted >= Len(sleeping)
    BY DEF IInv, Counted
  <2>4. alive \in SUBSET Tasks /\ started \in Nat
    BY DEF IInv, TypeOK, started
  <2>5. Cardinality(alive) \in Nat
    BY <2>4, Finite
  <2> DEFINE M == MaxCounted
             T == Cardinality(Tasks)
  <2>6. /\ M \in Nat /\ M = T + 1 /\ T \in Nat \ {0}
        /\ sleepingcounted \in 0 .. M
        /\ Len(sleeping) \in Nat /\ Len(sleeping) <= T
        /\ Len(sleeping') = Len(sleeping) + 1
        /\ Cardinality(alive') = Cardinality(alive) + started
    BY <1>3, <1>4, <1>7, <1>9, Finite
  <2>7. taskcount' = Cardinality(alive') + 1
    <3>1. sleepingcounted \in Nat
      BY <2>6
    <3> HIDE DEF M, T
    <3>2. CASE sleepingcounted = 0
      BY <3>2, <2>2, <2>3, <2>4, <2>5, <2>6
    <3>3. CASE sleepingcounted # 0
      BY <3>3, <2>2, <2>3, <2>4, <2>5, <2>6
    <3> QED BY <3>2, <3>3
  <2> HIDE DEF M, T
  <2>8. sleepingcounted' \in 1 .. M /\ sleepingcounted' >= Len(sleeping')
    <3>1. CASE sleepingcounted = M
      BY <3>1, <2>1, <2>6 DEF M
    <3>2. CASE sleepingcounted # M
      <4>1. sleepingcounted' = sleepingcounted + 1
        BY <3>2, <2>1 DEF M
      <4>2. sleepingcounted >= Len(sleeping)
        BY <2>3
      <4> QED BY <3>2, <4>1, <4>2, <2>6
    <3> QED BY <3>1, <3>2
  <2> QED BY <2>7, <2>8 DEF M
<1>13. at' \in [Tasks -> Places] /\ at'[fdtask] = "yield"
  BY <1>1 DEF IInv, TypeOK, Places
<1>14. /\ UNCHANGED <<poolfn, udata, possible, timeout, others, phase>>
       /\ v' = IF startedfdtask THEN v ELSE poolfn
  BY DEF sleep
<1>15. TypeOK'
  <2>1. CoreTypeOK'
    BY <1>2, <1>3 DEF CoreTypeOK
  <2>2. sleepingcounted' \in 0 .. MaxCounted
    BY <1>12, Finite
  <2>3. taskcount' \in Nat
    <3>1. Cardinality(alive') \in Nat
      BY <1>3, Finite
    <3> QED BY <3>1, <1>12
  <2>4. {startedfdtask', poolfn', v', others'} \subseteq BOOLEAN
    BY <1>3, <1>14 DEF IInv, TypeOK
  <2> QED BY <2>1, <2>2, <2>3, <2>4, <1>3, <1>7, <1>8, <1>13, <1>14
          DEF IInv, TypeOK
<1>16. RunqueueExact'
  BY <1>2, <1>3 DEF RunqueueExact
<1>17. Alone'
  BY <1>1, <1>13, <1>14 DEF Alone
<1>18. Attended'
  BY <1>3, <1>4, FdAssumption DEF Attended
<1>19. AliveExact'
  <2>1. \A u \in Tasks : state'[u] = "ready" => u \in alive'
    BY <1>3, <1>4 DEF IInv, AliveExact
  <2>2. Range(sleeping') \subseteq alive'
    BY <1>1, <1>3, <1>7 DEF IInv, AliveExact
  <2> QED BY <2>1, <2>2, <1>2, <1>3, NullAssumption DEF AliveExact
<1>20. Counted'
  BY <1>12 DEF Counted
<1>21. NeverOversleeps'
  BY <1>13 DEF NeverOversleeps, Polling, Runs
<1>22. CallbackGiven'
  BY <1>14 DEF IInv, CallbackGiven
<1>23. \A u \in Tasks : state'[u] # "exiting"
  BY <1>3, <1>4, FdAssumption DEF IInv, PlacesExact
<1> QED BY <1>11, <1>13, <1>15, <1>16, <1>17, <1>18, <1>19, <1>20, <1>21, <1>22, <1>23

LEMMA TaskdelayKeeps ==
  ASSUME IInv, NEW t \in Clients, NEW m \in Delays, taskdelay(t, m)
  PROVE  IInv'
<1>1. /\ taskrunning = t /\ at[t] = "run" /\ sleep(t, m * Ms)
      /\ at' = [at EXCEPT ![t] = "delay"] /\ epfd' = instance /\ wait' = wait
  BY DEF taskdelay, Runs
<1>2. m * Ms \in Int
  BY FdAssumption
<1>3. /\ wait \in [Tasks -> Registrations \cup {NULL}] /\ epfd \subseteq Registrations
      /\ at \in [Tasks -> Places] /\ epfd' \subseteq epfd
  BY <1>1 DEF IInv, TypeOK, instance
<1>4. /\ TypeOK' /\ RunqueueExact' /\ SleepersExact'
      /\ Alone' /\ Attended' /\ AliveExact' /\ Counted'
      /\ NeverOversleeps' /\ CallbackGiven'
      /\ at'[fdtask] = "yield" /\ \A u \in Tasks : state'[u] # "exiting"
  BY <1>1, <1>2, <1>3, SleepKeeps
<1>5. Registered'
  <2>1. ASSUME NEW r \in epfd' PROVE at'[r.task] = "fdwait" /\ wait'[r.task] = r
    <3>1. r \in epfd /\ r.task \in Clients /\ r.task # t
      BY <1>1, <1>3 DEF Registrations, IInv, Registered
    <3> QED BY <3>1, <1>1, <1>3 DEF IInv, Registered, Clients
  <2>2. IsFiniteSet(epfd')
    BY <1>3, FS_Subset DEF IInv, Registered
  <2> QED BY <2>1, <2>2 DEF Registered
<1>6. PlacesExact'
  <2>1. ASSUME NEW u \in Clients
        PROVE  /\ at'[u] \in {"run", "delay", "fdwait"}
               /\ wait'[u] # NULL <=> at'[u] = "fdwait"
               /\ wait'[u] # NULL => wait'[u].task = u
    BY <1>1, <1>3 DEF IInv, PlacesExact, Clients
  <2> QED BY <2>1, <1>4 DEF PlacesExact
<1> QED BY <1>4, <1>5, <1>6 DEF IInv

LEMMA FdwaitKeeps ==
  ASSUME IInv, NEW t \in Clients, NEW f \in Fds, NEW rw \in RW, fdwait(t, f, rw)
  PROVE  IInv'
<1>1. PICK reg \in Registrations :
        /\ taskrunning = t /\ at[t] = "run" /\ sleep(t, FdTimeout * Ms)
        /\ at' = [at EXCEPT ![t] = "fdwait"]
        /\ epfd' \subseteq instance \cup {reg}
        /\ wait' = [wait EXCEPT ![t] = reg]
        /\ reg.task = t
  <2> DEFINE dup == \E r \in instance : r.fd = f /\ ~r.own
             reg == [task |-> t, fd |-> f, rw |-> rw, own |-> dup]
  <2>1. reg \in Registrations /\ reg.task = t
    BY DEF Registrations
  <2>2. /\ taskrunning = t /\ at[t] = "run" /\ sleep(t, FdTimeout * Ms)
        /\ at' = [at EXCEPT ![t] = "fdwait"]
        /\ epfd' \subseteq instance \cup {reg}
        /\ wait' = [wait EXCEPT ![t] = reg]
    BY DEF fdwait, Runs
  <2> HIDE DEF reg
  <2> QED BY <2>1, <2>2
<1>2. FdTimeout * Ms \in Int
  BY FdAssumption
<1>3. /\ wait \in [Tasks -> Registrations \cup {NULL}] /\ epfd \subseteq Registrations
      /\ at \in [Tasks -> Places] /\ epfd' \subseteq epfd \cup {reg}
  BY <1>1 DEF IInv, TypeOK, instance
<1>4. /\ TypeOK' /\ RunqueueExact' /\ SleepersExact'
      /\ Alone' /\ Attended' /\ AliveExact' /\ Counted'
      /\ NeverOversleeps' /\ CallbackGiven'
      /\ at'[fdtask] = "yield" /\ \A u \in Tasks : state'[u] # "exiting"
  <2>1. wait' \in [Tasks -> Registrations \cup {NULL}]
    BY <1>1, <1>3
  <2>2. epfd' \subseteq Registrations
    BY <1>3
  <2> QED BY <1>1, <1>2, <2>1, <2>2, SleepKeeps
<1>5. Registered'
  <2>1. ASSUME NEW r \in epfd' PROVE at'[r.task] = "fdwait" /\ wait'[r.task] = r
    <3>1. CASE r = reg
      BY <3>1, <1>1, <1>3 DEF Clients
    <3>2. CASE r # reg
      <4>1. r \in epfd /\ r.task \in Clients /\ r.task # t
        BY <3>2, <1>1, <1>3 DEF Registrations, IInv, Registered
      <4> QED BY <4>1, <1>1, <1>3 DEF IInv, Registered, Clients
    <3> QED BY <3>1, <3>2
  <2>2. IsFiniteSet(epfd \cup {reg})
    BY FS_AddElement DEF IInv, Registered
  <2>3. IsFiniteSet(epfd')
    BY <1>3, <2>2, FS_Subset
  <2> QED BY <2>1, <2>3 DEF Registered
<1>6. PlacesExact'
  <2>1. ASSUME NEW u \in Clients
        PROVE  /\ at'[u] \in {"run", "delay", "fdwait"}
               /\ wait'[u] # NULL <=> at'[u] = "fdwait"
               /\ wait'[u] # NULL => wait'[u].task = u
    <3>1. reg # NULL
      BY RegistrationAssumption
    <3> QED BY <3>1, <1>1, <1>3 DEF IInv, PlacesExact, Clients
  <2> QED BY <2>1, <1>4 DEF PlacesExact
<1> QED BY <1>4, <1>5, <1>6 DEF IInv

\* A woken task returns from taskdelay or fdwait.
LEMMA ReturnKeeps ==
  ASSUME IInv, NEW t \in Clients, taskrunning = t,
         at' = [at EXCEPT ![t] = "run"],
         UNCHANGED <<coreVars, sleeping, due, countVars, poolVars, alive, udata,
                     possible, timeout, others, phase>>,
         wait' = [wait EXCEPT ![t] = NULL], epfd' \subseteq epfd,
         \A r \in epfd' : r.task # t
  PROVE  IInv'
<1> USE DEF coreVars, countVars, poolVars
<1>1. /\ t \in Tasks /\ t # fdtask /\ at[fdtask] = "yield"
  BY RunningClient
<1>2. /\ wait \in [Tasks -> Registrations \cup {NULL}] /\ epfd \subseteq Registrations
      /\ at \in [Tasks -> Places]
  BY DEF IInv, TypeOK
<1>3. TypeOK'
  <2>1. at' \in [Tasks -> Places] /\ wait' \in [Tasks -> Registrations \cup {NULL}]
    BY <1>2 DEF Places
  <2>2. epfd' \subseteq Registrations
    BY <1>2
  <2> QED BY <2>1, <2>2 DEF IInv, TypeOK, CoreTypeOK
<1>4. at'[fdtask] = "yield"
  BY <1>1, <1>2
<1>5. RunqueueExact' /\ Attended' /\ AliveExact' /\ Counted' /\ CallbackGiven'
  BY DEF IInv, RunqueueExact, Attended, AliveExact, Counted, CallbackGiven
<1>6. Alone' /\ NeverOversleeps'
  BY <1>4 DEF IInv, Alone, NeverOversleeps, Polling, Runs
<1>7. PlacesExact'
  <2>1. ASSUME NEW u \in Clients
        PROVE  /\ at'[u] \in {"run", "delay", "fdwait"}
               /\ wait'[u] # NULL <=> at'[u] = "fdwait"
               /\ wait'[u] # NULL => wait'[u].task = u
    BY <1>2 DEF IInv, PlacesExact, Clients
  <2> QED BY <2>1, <1>4 DEF IInv, PlacesExact
<1>8. SleepersExact'
  <2>1. \A u \in Clients : u # t => at'[u] = at[u]
    BY <1>2 DEF Clients
  <2> QED BY <2>1 DEF IInv, SleepersExact
<1>9. Registered'
  <2>1. ASSUME NEW r \in epfd' PROVE at'[r.task] = "fdwait" /\ wait'[r.task] = r
    <3>1. r \in epfd /\ r.task \in Clients /\ r.task # t
      BY <1>2 DEF Registrations
    <3> QED BY <3>1, <1>2 DEF IInv, Registered, Clients
  <2>2. IsFiniteSet(epfd')
    BY FS_Subset DEF IInv, Registered
  <2> QED BY <2>1, <2>2 DEF Registered
<1> QED BY <1>3, <1>5, <1>6, <1>7, <1>8, <1>9 DEF IInv

LEMMA DelayReturnsKeeps ==
  ASSUME IInv, NEW t \in Clients, delayReturns(t)
  PROVE  IInv'
<1>1. /\ taskrunning = t /\ at[t] = "delay" /\ wait' = wait /\ epfd' = epfd
      /\ at' = [at EXCEPT ![t] = "run"]
      /\ UNCHANGED <<coreVars, sleeping, due, countVars, poolVars, alive, udata,
                     possible, timeout, others, phase>>
  BY DEF delayReturns, Runs, sleepVars
<1>2. wait[t] = NULL /\ wait \in [Tasks -> Registrations \cup {NULL}]
  BY <1>1 DEF IInv, TypeOK, PlacesExact
<1>3. wait' = [wait EXCEPT ![t] = NULL]
  BY <1>1, <1>2
<1>4. \A r \in epfd' : r.task # t
  BY <1>1 DEF IInv, Registered
<1> QED BY <1>1, <1>3, <1>4, ReturnKeeps

\* EPOLL_CTL_DEL takes out the registration of the task that waited.
LEMMA FdwaitReturnsKeeps ==
  ASSUME IInv, NEW t \in Clients, fdwaitReturns(t)
  PROVE  IInv'
<1>1. /\ taskrunning = t /\ wait' = [wait EXCEPT ![t] = NULL]
      /\ epollctldel(wait[t])
      /\ at' = [at EXCEPT ![t] = "run"]
      /\ UNCHANGED <<coreVars, sleeping, due, countVars, poolVars, alive, udata,
                     possible, timeout, others, phase>>
  BY DEF fdwaitReturns, Runs
<1>2. epfd' \subseteq epfd
  BY <1>1 DEF epollctldel
<1>3. ASSUME NEW r \in epfd', r.task = t PROVE FALSE
  <2>1. r \in epfd /\ wait[t] = r
    BY <1>2, <1>3 DEF IInv, Registered
  <2> QED BY <2>1, <1>1 DEF epollctldel
<1> QED BY <1>1, <1>2, <1>3, ReturnKeeps

\* The client's own data and its descriptors concern nobody else, and so does
\* what the environment adds to the descriptors; and the program may end.
LEMMA OutsideKeeps ==
  ASSUME IInv,
         UNCHANGED <<coreVars, sleepVars, at, wait, timeout, others>>,
         phase' = phase \/ phase' \in {"exited", "aborted"} \/ taskrunning = NULL,
         udata' \in [Tasks -> {"NULL", "LIBTASK_TIMEOUT", "EIO"} \cup Data],
         possible' \in [Fds -> SUBSET {"r", "w", "e"}],
         phase' \in {"scheduling", "done", "stalled", "exited", "aborted"}
  PROVE  IInv'
<1> USE DEF coreVars, sleepVars, countVars, poolVars
<1>1. TypeOK'
  BY DEF IInv, TypeOK, CoreTypeOK
<1>2. RunqueueExact' /\ PlacesExact' /\ SleepersExact' /\ Registered'
  BY DEF IInv, RunqueueExact, PlacesExact, SleepersExact, Registered
<1>3. Alone' /\ Attended' /\ AliveExact' /\ Counted' /\ CallbackGiven'
  BY DEF IInv, Alone, Attended, AliveExact, Counted, CallbackGiven
<1>4. NeverOversleeps'
  BY FdAssumption, NullAssumption DEF IInv, NeverOversleeps, Polling, Runs
<1> QED BY <1>1, <1>2, <1>3, <1>4 DEF IInv

LEMMA StartfdtaskKeeps ==
  ASSUME IInv, NEW t \in Clients, NEW fn \in BOOLEAN, startfdtask(t, fn)
  PROVE  IInv'
<1>1. /\ taskrunning = t /\ taskrunning' = t /\ startfd
      /\ poolfn' = fn /\ (fn => Callback)
      /\ v' = (IF startedfdtask THEN v ELSE fn)
      /\ taskcount' = taskcount + started
      /\ epfd' = instance
      /\ UNCHANGED <<sleeping, due, sleepingcounted, udata, at, wait,
                     possible, timeout, others, phase>>
  BY DEF startfdtask, Runs
<1>2. /\ t \in Tasks /\ t # fdtask /\ t # NULL /\ taskrunning # NULL
      /\ state[t] = "none" /\ others = TRUE /\ at[fdtask] = "yield"
      /\ t \notin Range(sleeping) /\ t \in alive
  BY <1>1, RunningClient
<1>3. /\ taskrunqueue' \in Seq(Tasks)
      /\ state' \in [Tasks -> States]
      /\ IsInjective(taskrunqueue')
      /\ Range(taskrunqueue') = {u \in Tasks : state'[u] = "ready"}
      /\ state' = [state EXCEPT ![fdtask] = "ready"]
      /\ startedfdtask' = TRUE
      /\ alive' = alive \cup {fdtask} /\ alive' \subseteq Tasks
      /\ Cardinality(alive') = Cardinality(alive) + started
      /\ instances' \in Nat
  BY <1>1, StartfdKeeps
<1>4. /\ epfd' \subseteq epfd /\ state \in [Tasks -> States]
      /\ startedfdtask \in BOOLEAN /\ taskcount \in Nat /\ started \in Nat
  BY <1>1 DEF IInv, TypeOK, CoreTypeOK, instance, started
<1>5. TypeOK'
  <2>1. CoreTypeOK'
    BY <1>1, <1>2, <1>3 DEF CoreTypeOK
  <2>2. {startedfdtask', poolfn', v', others'} \subseteq BOOLEAN
    BY <1>1, <1>3, <1>4 DEF IInv, TypeOK
  <2>3. taskcount' \in Nat /\ epfd' \subseteq Registrations
    BY <1>1, <1>4 DEF IInv, TypeOK
  <2> QED BY <2>1, <2>2, <2>3, <1>1, <1>3 DEF IInv, TypeOK
<1>6. RunqueueExact'
  BY <1>1, <1>2, <1>3, <1>4 DEF RunqueueExact
<1>7. PlacesExact'
  BY <1>1, <1>3, <1>4, FdAssumption DEF IInv, PlacesExact
<1>8. SleepersExact'
  <2>1. \A u \in Clients : u \in Tasks /\ state'[u] = state[u]
    BY <1>3, <1>4 DEF Clients
  <2> QED BY <2>1, <1>1 DEF IInv, SleepersExact
<1>9. Registered'
  BY <1>1, <1>4, FS_Subset DEF IInv, Registered
<1>10. Alone' /\ Attended' /\ CallbackGiven'
  BY <1>1, <1>2, <1>3, <1>4, FdAssumption
     DEF IInv, Alone, Attended, CallbackGiven
<1>11. AliveExact'
  BY <1>1, <1>2, <1>3, <1>4 DEF IInv, AliveExact
<1>12. Counted'
  <2>1. Cardinality(alive) \in Nat
    BY Finite DEF IInv, TypeOK
  <2> QED BY <2>1, <1>1, <1>3, <1>4 DEF IInv, Counted
<1>13. NeverOversleeps'
  BY <1>1, <1>2 DEF NeverOversleeps, Polling, Runs
<1> QED BY <1>5, <1>6, <1>7, <1>8, <1>9, <1>10, <1>11, <1>12, <1>13 DEF IInv

LEMMA TaskyieldKeeps ==
  ASSUME IInv, NEW t \in Clients, taskyield(t)
  PROVE  IInv'
<1>1. /\ taskrunning = t /\ at[t] = "run" /\ taskrunning' = NULL /\ taskready(t)
      /\ UNCHANGED <<sleepVars, udata, at, wait, possible, timeout, others, phase>>
  BY DEF taskyield, Runs, taskswitch
<1>2. /\ t \in Tasks /\ t # fdtask /\ t # NULL /\ taskrunning # NULL
      /\ state[t] = "none" /\ others = TRUE /\ at[fdtask] = "yield"
      /\ t \notin Range(sleeping) /\ t \in alive
      /\ (startedfdtask => state[fdtask] = "ready")
  BY <1>1, RunningClient
<1>3. CoreTypeOK /\ RunqueueExact /\ state \in [Tasks -> States]
  BY DEF IInv, TypeOK, CoreTypeOK
<1>4. /\ taskrunqueue' \in Seq(Tasks)
      /\ state' = [state EXCEPT ![t] = "ready"]
      /\ state' \in [Tasks -> States]
      /\ IsInjective(taskrunqueue')
      /\ Range(taskrunqueue') = {u \in Tasks : state'[u] = "ready"}
  BY <1>1, <1>2, <1>3, TaskreadyKeeps
<1> USE DEF sleepVars, countVars, poolVars
<1>5. TypeOK'
  BY <1>1, <1>4 DEF IInv, TypeOK, CoreTypeOK
<1>6. RunqueueExact' /\ PlacesExact'
  BY <1>1, <1>3, <1>4 DEF IInv, RunqueueExact, PlacesExact
<1>7. SleepersExact'
  <2>1. \A u \in Clients : u \in Tasks /\ u # NULL /\ (u # t => state'[u] = state[u])
    BY <1>3, <1>4, NullAssumption DEF Clients
  <2> QED BY <2>1, <1>1, <1>4, <1>3 DEF IInv, SleepersExact
<1>8. Registered' /\ Counted' /\ CallbackGiven'
  BY <1>1 DEF IInv, Registered, Counted, CallbackGiven
<1>9. Alone' /\ NeverOversleeps'
  BY <1>1, <1>2 DEF Alone, NeverOversleeps, Polling, Runs
<1>10. Attended'
  BY <1>1, <1>2, <1>3, <1>4, FdAssumption, NullAssumption DEF IInv, Attended
<1>11. AliveExact'
  BY <1>1, <1>2, <1>3, <1>4, NullAssumption DEF IInv, AliveExact
<1> QED BY <1>5, <1>6, <1>7, <1>8, <1>9, <1>10, <1>11 DEF IInv

LEMMA TaskexitKeeps ==
  ASSUME IInv, NEW t \in Clients, taskexit(t)
  PROVE  IInv'
<1>1. /\ taskrunning = t /\ at[t] = "run" /\ taskrunning' = NULL
      /\ alive' = alive \ {t} /\ taskcount' = taskcount - 1
      /\ UNCHANGED <<taskrunqueue, state, sleeping, due, sleepingcounted, poolVars,
                     udata, at, wait, epfd, possible, timeout, others, phase>>
  BY DEF taskexit, Runs, taskswitch
<1>2. /\ t \in Tasks /\ t # fdtask /\ t # NULL /\ taskrunning # NULL
      /\ state[t] = "none" /\ others = TRUE /\ at[fdtask] = "yield"
      /\ t \notin Range(sleeping) /\ t \in alive
      /\ (startedfdtask => state[fdtask] = "ready")
  BY <1>1, RunningClient
<1>3. /\ IsFiniteSet(alive) /\ Cardinality(alive) \in Nat
      /\ Cardinality(alive') = Cardinality(alive) - 1 /\ Cardinality(alive') \in Nat
      /\ alive' \subseteq Tasks
  <2>1. alive \in SUBSET Tasks /\ alive' \in SUBSET Tasks
    BY <1>1 DEF IInv, TypeOK
  <2> QED BY <2>1, <1>1, <1>2, Finite, FS_RemoveElement
<1> USE DEF poolVars
<1>4. Counted' /\ taskcount' \in Nat
  <2>1. taskcount = Cardinality(alive) + (IF sleepingcounted = 0 THEN 0 ELSE 1)
    BY DEF IInv, Counted
  <2>2. taskcount' = Cardinality(alive') + (IF sleepingcounted = 0 THEN 0 ELSE 1)
    BY <2>1, <1>1, <1>3
  <2> QED BY <2>2, <1>1, <1>3 DEF IInv, Counted
<1>5. TypeOK'
  BY <1>1, <1>3, <1>4 DEF IInv, TypeOK, CoreTypeOK
<1>6. RunqueueExact' /\ PlacesExact' /\ Registered' /\ CallbackGiven'
  BY <1>1 DEF IInv, RunqueueExact, PlacesExact, Registered, CallbackGiven
<1>7. SleepersExact'
  <2>1. \A u \in Clients : u # NULL
    BY NullAssumption DEF Clients
  <2> QED BY <2>1, <1>1 DEF IInv, SleepersExact
<1>8. Alone' /\ NeverOversleeps'
  BY <1>1, <1>2 DEF Alone, NeverOversleeps, Polling, Runs
<1>9. Attended'
  BY <1>1, <1>2, FdAssumption, NullAssumption DEF IInv, Attended
<1>10. AliveExact'
  BY <1>1, <1>2, NullAssumption DEF IInv, AliveExact
<1> QED BY <1>4, <1>5, <1>6, <1>7, <1>8, <1>9, <1>10 DEF IInv

\* fdtask yields: it goes behind whoever is ready.
LEMMA FdtaskYieldKeeps ==
  ASSUME IInv, taskrunning = fdtask, yields,
         at' = [at EXCEPT ![fdtask] = "yield"], timeout' \in Nat,
         UNCHANGED <<sleepVars, udata, wait, possible, phase>>
  PROVE  IInv'
<1>1. /\ taskready(fdtask) /\ taskrunning' = NULL /\ others' = FALSE
      /\ fdtask \in Tasks /\ fdtask # NULL
  BY FdAssumption, NullAssumption DEF yields, taskswitch
<1>2. /\ CoreTypeOK /\ RunqueueExact /\ state \in [Tasks -> States]
      /\ taskrunqueue \in Seq(Tasks) /\ at \in [Tasks -> Places]
  BY DEF IInv, TypeOK, CoreTypeOK
<1>3. state[fdtask] = "none"
  BY <1>1, <1>2 DEF IInv, RunqueueExact, PlacesExact, States
<1>4. /\ taskrunqueue' \in Seq(Tasks)
      /\ state' = [state EXCEPT ![fdtask] = "ready"]
      /\ state' \in [Tasks -> States]
      /\ IsInjective(taskrunqueue')
      /\ Range(taskrunqueue') = {u \in Tasks : state'[u] = "ready"}
  BY <1>1, <1>2, TaskreadyKeeps
<1>5. taskrunqueue' = Append(taskrunqueue, fdtask)
  BY <1>1, <1>3 DEF taskready, addtask
<1>6. taskrunqueue' # << >> /\ taskrunqueue'[Len(taskrunqueue')] = fdtask
  BY <1>1, <1>2, <1>5, AppendProperties, AppendList
<1>7. \A u \in Clients : u \in Tasks /\ u # fdtask /\ u # NULL
  BY NullAssumption DEF Clients
<1> USE DEF sleepVars, countVars, poolVars
<1>8. TypeOK'
  <2>1. at' \in [Tasks -> Places]
    BY <1>2 DEF Places
  <2> QED BY <2>1, <1>1, <1>4 DEF IInv, TypeOK, CoreTypeOK
<1>9. RunqueueExact'
  BY <1>1, <1>4 DEF RunqueueExact
<1>10. PlacesExact'
  <2>1. \A u \in Clients : at'[u] = at[u]
    BY <1>2, <1>7
  <2>2. at'[fdtask] = "yield"
    BY <1>1, <1>2
  <2> QED BY <2>1, <2>2, <1>2, <1>4 DEF IInv, PlacesExact
<1>11. SleepersExact'
  <2>1. \A u \in Clients : /\ at'[u] = at[u] /\ state'[u] = state[u]
                           /\ taskrunning # u /\ taskrunning' # u
    BY <1>1, <1>2, <1>4, <1>7
  <2> QED BY <2>1 DEF IInv, SleepersExact
<1>12. Registered'
  <2>1. \A r \in epfd : r.task \in Clients
    BY DEF IInv, TypeOK, Registrations
  <2>2. \A u \in Clients : at'[u] = at[u]
    BY <1>2, <1>7
  <2> QED BY <2>1, <2>2 DEF IInv, Registered
<1>13. Counted' /\ CallbackGiven'
  BY DEF IInv, Counted, CallbackGiven
<1>14. at'[fdtask] = "yield"
  BY <1>1, <1>2
<1>15. Alone' /\ NeverOversleeps'
  BY <1>1, <1>6, <1>14 DEF Alone, NeverOversleeps, Polling, Runs
<1>16. Attended'
  BY <1>1, <1>2, <1>4 DEF IInv, Attended
<1>17. AliveExact'
  BY <1>1, <1>2, <1>4, NullAssumption DEF IInv, AliveExact
<1> QED BY <1>8, <1>9, <1>10, <1>11, <1>12, <1>13, <1>15, <1>16, <1>17 DEF IInv

LEMMA FdtaskYieldsKeeps ==
  ASSUME IInv, fdtaskYields
  PROVE  IInv'
<1>1. /\ taskrunning = fdtask /\ at[fdtask] = "yield" /\ yields
      /\ at' = at /\ timeout' = timeout
      /\ UNCHANGED <<sleepVars, udata, wait, possible, phase>>
  BY DEF fdtaskYields, Runs
<1>2. at' = [at EXCEPT ![fdtask] = "yield"] /\ timeout' \in Nat
  BY <1>1 DEF IInv, TypeOK
<1> QED BY <1>1, <1>2, FdtaskYieldKeeps

LEMMA FdtaskInterruptedKeeps ==
  ASSUME IInv, fdtaskInterrupted
  PROVE  IInv'
<1>1. /\ taskrunning = fdtask /\ yields
      /\ at' = [at EXCEPT ![fdtask] = "yield"] /\ timeout' = 0
      /\ UNCHANGED <<sleepVars, udata, wait, possible, phase>>
  BY DEF fdtaskInterrupted, Runs
<1> QED BY <1>1, FdtaskYieldKeeps

\* How long epoll_wait may block: not beyond the first alarm.
LEMMA MsBounded ==
  ASSUME sleeping \in Seq(Clients), due \in [Tasks -> Int]
  PROVE  /\ ms \in Nat
         /\ ms > 0 => sleeping # << >> /\ ms <= due[Head(sleeping)]
<1>1. PollMax \in Nat \ {0} /\ Ms \in Nat \ {0} /\ PollMax * Ms \in Nat
  BY FdAssumption
<1>2. CASE sleeping = << >> \/ due[Head(sleeping)] <= 0
  BY <1>2 DEF ms
<1>3. CASE sleeping # << >> /\ ~ (due[Head(sleeping)] <= 0)
  <2> DEFINE d == due[Head(sleeping)]
  <2>1. Head(sleeping) \in Clients
    BY <1>3, HeadTailProperties
  <2>2. d \in Nat \ {0}
    BY <2>1, <1>3 DEF Clients
  <2>3. ms = IF d > PollMax * Ms THEN PollMax * Ms ELSE (d \div Ms) * Ms
    BY <1>3 DEF ms
  <2> HIDE DEF d
  <2>4. (d \div Ms) * Ms \in Nat /\ (d \div Ms) * Ms <= d
    BY <2>2, <1>1
  <2> QED BY <2>2, <2>3, <2>4, <1>1, <1>3 DEF d
<1> QED BY <1>2, <1>3

LEMMA FdtaskPollsKeeps ==
  ASSUME IInv, fdtaskPolls
  PROVE  IInv'
<1>1. /\ taskrunning = fdtask /\ at[fdtask] = "yield" /\ ~others
      /\ at' = [at EXCEPT ![fdtask] = "epoll"] /\ timeout' = ms
      /\ UNCHANGED <<coreVars, sleepVars, udata, wait, possible, others, phase>>
  BY DEF fdtaskPolls, Runs
<1>2. /\ at \in [Tasks -> Places] /\ fdtask \in Tasks /\ fdtask # NULL
      /\ sleeping \in Seq(Clients) /\ due \in [Tasks -> Int]
      /\ \A i, j \in DOMAIN sleeping : i < j => due[sleeping[i]] <= due[sleeping[j]]
  BY FdAssumption, NullAssumption DEF IInv, TypeOK, SleepersExact
<1>3. ms \in Nat /\ (ms > 0 => sleeping # << >> /\ ms <= due[Head(sleeping)])
  BY <1>2, MsBounded
<1>4. \A u \in Clients : u \in Tasks /\ u # fdtask /\ at'[u] = at[u]
  BY <1>1, <1>2 DEF Clients
<1> USE DEF coreVars, sleepVars, countVars, poolVars
<1>5. TypeOK'
  <2>1. at' \in [Tasks -> Places]
    BY <1>1, <1>2 DEF Places
  <2> QED BY <2>1, <1>1, <1>3 DEF IInv, TypeOK, CoreTypeOK
<1>6. at'[fdtask] = "epoll"
  BY <1>1, <1>2
<1>7. RunqueueExact' /\ Counted' /\ CallbackGiven' /\ Attended' /\ AliveExact'
  BY <1>1 DEF IInv, RunqueueExact, Counted, CallbackGiven, Attended, AliveExact
<1>8. PlacesExact' /\ SleepersExact'
  BY <1>1, <1>4, <1>6 DEF IInv, PlacesExact, SleepersExact
<1>9. Registered'
  <2>1. \A r \in epfd : r.task \in Clients
    BY DEF IInv, TypeOK, Registrations
  <2> QED BY <2>1, <1>1, <1>4 DEF IInv, Registered
<1>10. Alone'
  BY <1>1, <1>2 DEF IInv, Alone
<1>11. NeverOversleeps'
  <2>1. ASSUME NEW t \in Range(sleeping), ms > 0 PROVE due[t] >= ms
    <3>1. Len(sleeping) \in Nat \ {0} /\ Head(sleeping) = sleeping[1]
      BY <2>1, <1>2, <1>3, EmptySeq
    <3>2. PICK i \in 1 .. Len(sleeping) : sleeping[i] = t
      BY <1>2 DEF Range
    <3>3. 1 \in 1 .. Len(sleeping) /\ sleeping[1] \in Clients /\ t \in Clients
      BY <3>1, <3>2, <1>2
    <3>4. due[sleeping[1]] <= due[t]
      <4>1. CASE i = 1
        BY <4>1, <3>2, <3>3, <1>2 DEF Clients
      <4>2. CASE i # 1
        BY <4>2, <3>1, <3>2, <3>3, <1>2
      <4> QED BY <4>1, <4>2
    <3> QED BY <3>1, <3>3, <3>4, <2>1, <1>2, <1>3 DEF Clients
  <2> QED BY <2>1, <1>1 DEF NeverOversleeps
<1> QED BY <1>5, <1>7, <1>8, <1>9, <1>10, <1>11 DEF IInv

\* The clock goes on for every alarm alike, and for the timeout.
LEMMA TickKeeps ==
  ASSUME IInv, tick
  PROVE  IInv'
<1>1. /\ Polling => timeout > 0
      /\ timeout' = (IF timeout > 0 THEN timeout - 1 ELSE 0)
      /\ due' = [t \in Tasks |-> IF t \in Range(sleeping) /\ due[t] >= 0
                                 THEN due[t] - 1 ELSE due[t]]
      /\ UNCHANGED <<coreVars, sleeping, countVars, poolVars, alive, epfd, udata, at,
                     wait, possible, others, phase>>
  BY DEF tick, Polling
<1>2. /\ due \in [Tasks -> Int] /\ timeout \in Nat
      /\ sleeping \in Seq(Clients)
      /\ \A i, j \in DOMAIN sleeping : i < j => due[sleeping[i]] <= due[sleeping[j]]
  BY DEF IInv, TypeOK, SleepersExact
<1> USE DEF coreVars, countVars, poolVars
<1>3. TypeOK'
  <2>1. due' \in [Tasks -> Int] /\ timeout' \in Nat
    BY <1>1, <1>2
  <2> QED BY <2>1, <1>1 DEF IInv, TypeOK, CoreTypeOK
<1>4. \A i \in DOMAIN sleeping : /\ sleeping[i] \in Tasks
                                 /\ sleeping[i] \in Range(sleeping)
  BY <1>2 DEF Range, Clients
<1>5. \A i, j \in DOMAIN sleeping : i < j => due'[sleeping[i]] <= due'[sleeping[j]]
  <2>1. \A i \in DOMAIN sleeping : /\ due[sleeping[i]] \in Int
          /\ due'[sleeping[i]] = IF due[sleeping[i]] >= 0 THEN due[sleeping[i]] - 1
                                 ELSE due[sleeping[i]]
    BY <1>1, <1>2, <1>4
  <2> QED BY <2>1, <1>2
<1>6. SleepersExact'
  BY <1>1, <1>5 DEF IInv, SleepersExact
<1>7. RunqueueExact' /\ PlacesExact' /\ Registered' /\ Alone' /\ Attended'
  BY <1>1 DEF IInv, RunqueueExact, PlacesExact, Registered, Alone, Attended
<1>8. AliveExact' /\ Counted' /\ CallbackGiven'
  BY <1>1 DEF IInv, AliveExact, Counted, CallbackGiven
<1>9. NeverOversleeps'
  <2>1. ASSUME Polling', timeout' > 0, NEW t \in Range(sleeping) PROVE due'[t] >= timeout'
    <3>1. Polling /\ timeout > 0 /\ timeout' = timeout - 1
      BY <2>1, <1>1, <1>2 DEF Polling, Runs
    <3>2. due[t] >= timeout
      BY <3>1 DEF IInv, NeverOversleeps
    <3>3. t \in Tasks /\ due[t] \in Int
      BY <1>2, <1>4 DEF Range
    <3>4. due'[t] = due[t] - 1
      BY <3>1, <3>2, <3>3, <1>1, <1>2
    <3> QED BY <3>1, <3>2, <3>3, <3>4, <1>2
  <2> QED BY <2>1, <1>1 DEF NeverOversleeps
<1> QED BY <1>3, <1>6, <1>7, <1>8, <1>9 DEF IInv

LEMMA DispatchKeeps ==
  ASSUME IInv, dispatch
  PROVE  IInv'
<1>1. /\ taskrunning = NULL /\ taskrunqueue # << >> /\ schedule
      /\ others' = (others \/ Head(taskrunqueue) # fdtask)
      /\ taskrunqueue' = Tail(taskrunqueue)
      /\ UNCHANGED <<sleepVars, udata, at, wait, possible, timeout, phase>>
  BY DEF dispatch, schedule, delhead
<1>2. /\ CoreTypeOK /\ RunqueueExact /\ state \in [Tasks -> States]
      /\ taskrunqueue \in Seq(Tasks) /\ others \in BOOLEAN
  BY DEF IInv, TypeOK, CoreTypeOK
<1>3. /\ CoreTypeOK' /\ RunqueueExact'
      /\ taskrunning' \in Tasks
      /\ state[taskrunning'] = "ready"
      /\ state' = [state EXCEPT ![taskrunning'] = "none"]
      /\ taskrunning' = Head(taskrunqueue)
  BY <1>1, <1>2, ScheduleKeeps DEF schedule
<1>4. fdtask \in Tasks /\ fdtask # NULL /\ taskrunning' # NULL
  BY <1>3, FdAssumption, NullAssumption
<1> USE DEF sleepVars, countVars, poolVars
<1>5. TypeOK'
  BY <1>1, <1>2, <1>3 DEF IInv, TypeOK
<1>6. PlacesExact' /\ Registered' /\ Counted' /\ CallbackGiven'
  BY <1>1, <1>2, <1>3 DEF IInv, PlacesExact, Registered, Counted, CallbackGiven
<1>7. SleepersExact'
  <2>1. \A u \in Clients : u \in Tasks /\ u # NULL
    BY NullAssumption DEF Clients
  <2>2. \A u \in Clients : state'[u] = "none" /\ taskrunning' # u <=> state[u] = "none"
    BY <2>1, <1>2, <1>3
  <2> QED BY <2>1, <2>2, <1>1 DEF IInv, SleepersExact
<1>8. Alone'
  <2>1. ~others' => taskrunning' = fdtask /\ taskrunqueue' = << >>
    <3>1. ASSUME ~others'
          PROVE  taskrunning' = fdtask /\ taskrunqueue' = << >>
      <4>1. ~others /\ Head(taskrunqueue) = fdtask
        BY <3>1, <1>1
      <4>2. taskrunqueue[Len(taskrunqueue)] = fdtask
        BY <4>1, <1>1 DEF IInv, Alone
      <4>3. Len(taskrunqueue) \in Nat \ {0} /\ taskrunqueue[1] = fdtask
        BY <4>1, <1>1, <1>2, EmptySeq
      <4>4. Len(taskrunqueue) = 1
        <5>1. DOMAIN taskrunqueue = 1 .. Len(taskrunqueue) /\ IsInjective(taskrunqueue)
          BY <1>2 DEF RunqueueExact
        <5> QED BY <4>2, <4>3, <5>1 DEF IsInjective
      <4>5. Tail(taskrunqueue) \in Seq(Tasks) /\ Len(Tail(taskrunqueue)) = 0
        BY <4>4, <1>1, <1>2, HeadTailProperties
      <4> QED BY <4>1, <4>5, <1>1, <1>3, EmptySeq
    <3> QED BY <3>1
  <2>2. at[fdtask] # "epoll"
    BY <1>1, <1>4 DEF IInv, Alone
  <2> QED BY <2>1, <2>2, <1>1, <1>4 DEF Alone
<1>9. Attended'
  BY <1>1, <1>2, <1>3, <1>4 DEF IInv, Attended
<1>10. AliveExact'
  BY <1>1, <1>2, <1>3, <1>4 DEF IInv, AliveExact
<1>11. NeverOversleeps'
  BY <1>1, <1>4 DEF IInv, Alone, NeverOversleeps, Polling, Runs
<1> QED BY <1>3, <1>5, <1>6, <1>7, <1>8, <1>9, <1>10, <1>11 DEF IInv

\* While fdtask polls nobody is ready, so whoever is registered sleeps.
LEMMA WatchersAsleep ==
  ASSUME IInv, Polling
  PROVE  /\ taskrunning = fdtask /\ at[fdtask] = "epoll" /\ taskrunqueue = << >>
         /\ startedfdtask
         /\ \A u \in Tasks : state[u] = "none"
         /\ \A r \in epfd : r.task \in Range(sleeping) /\ wait[r.task] = r
<1>1. taskrunning = fdtask /\ at[fdtask] = "epoll" /\ fdtask # NULL
  BY FdAssumption, NullAssumption DEF Polling, Runs
<1>2. taskrunqueue = << >>
  BY <1>1 DEF IInv, Alone
<1>3. ASSUME NEW u \in Tasks PROVE state[u] = "none"
  <2>1. state[u] \in States /\ state[u] # "exiting"
    BY DEF IInv, TypeOK, CoreTypeOK, PlacesExact
  <2>2. state[u] # "ready"
    BY <1>2, EmptyList DEF IInv, RunqueueExact
  <2> QED BY <2>1, <2>2 DEF States
<1>4. ASSUME NEW r \in epfd PROVE r.task \in Range(sleeping) /\ wait[r.task] = r
  <2>1. r.task \in Clients /\ at[r.task] = "fdwait" /\ wait[r.task] = r
    BY DEF IInv, TypeOK, Registrations, Registered
  <2> QED BY <2>1, <1>1, <1>3 DEF IInv, SleepersExact, Clients
<1>5. startedfdtask
  BY <1>1 DEF IInv, Attended
<1> QED BY <1>1, <1>2, <1>3, <1>4, <1>5

\* The events are of different tasks that sleep in fdwait.
LEMMA EventsAsleep ==
  ASSUME IInv, Polling, NEW ts \in Events
  PROVE  /\ ts \in Seq(Clients) /\ IsInjective(ts)
         /\ \A u \in Range(ts) : \E r \in Ready : r.task = u
         /\ Range(ts) \subseteq Range(sleeping)
<1>1. Ready \subseteq epfd /\ IsFiniteSet(epfd) /\ epfd \subseteq Registrations
  BY DEF Ready, IInv, Registered, TypeOK
<1>2. PICK S \in SUBSET Ready :
        ts \in [1 .. Cardinality(S) -> {r.task : r \in S}] /\ IsInjective(ts)
  BY DEF Events
<1>3. Cardinality(S) \in Nat
  BY <1>1, FS_Subset, FS_CardinalityType
<1>4. \A u \in Range(ts) : \E r \in Ready : r.task = u
  BY <1>2 DEF Range
<1>5. {r.task : r \in S} \subseteq Clients
  BY <1>1 DEF Registrations
<1>6. ts \in [1 .. Cardinality(S) -> Clients]
  BY <1>2, <1>5
<1>7. ts \in Seq(Clients)
  BY <1>3, <1>6, IsASeq
<1>8. Range(ts) \subseteq Range(sleeping)
  BY <1>1, <1>4, WatchersAsleep
<1> QED BY <1>2, <1>4, <1>7, <1>8

\* Who is woken, and who is left in the list.
LEMMA WokenLists ==
  ASSUME IInv, Polling, NEW ts \in Events, NEW stop \in BOOLEAN
  PROVE  LET rest == unexpected(ts)
             k == overdue(rest)
             n == IF stop THEN Len(rest) ELSE k
             first == SubSeq(rest, 1, n)
             woken == ts \o first
             left == SubSeq(rest, n + 1, Len(rest))
         IN  /\ k \in Nat /\ k <= n /\ n \in Nat /\ n <= Len(rest)
             /\ Len(rest) \in Nat /\ Len(rest) <= Len(sleeping)
             /\ rest \in Seq(Clients)
             /\ Range(rest) = Range(sleeping) \ Range(ts)
             /\ woken \in Seq(Clients) /\ IsInjective(woken)
             /\ Range(woken) = Range(ts) \cup Range(first)
             /\ Range(woken) \subseteq Range(sleeping)
             /\ left \in Seq(Clients) /\ IsInjective(left)
             /\ Len(left) = Len(rest) - n
             /\ Range(left) = Range(sleeping) \ Range(woken)
             /\ Rises(left, due)
<1> DEFINE rest == unexpected(ts)
           k == overdue(rest)
           n == IF stop THEN Len(rest) ELSE k
           first == SubSeq(rest, 1, n)
           woken == ts \o first
           left == SubSeq(rest, n + 1, Len(rest))
<1>1. /\ sleeping \in Seq(Clients) /\ due \in [Tasks -> Int]
      /\ IsInjective(sleeping) /\ Rises(sleeping, due)
  BY Sorted DEF IInv, TypeOK
<1>2. /\ rest \in Seq(Clients)
      /\ Len(rest) \in Nat /\ Len(rest) <= Len(sleeping)
      /\ Range(rest) = Range(sleeping) \ Range(ts)
      /\ IsInjective(rest) /\ Rises(rest, due)
  BY <1>1, UnexpectedKept
<1> HIDE DEF rest
<1>3. k \in 0 .. Len(rest)
  BY <1>1, <1>2, OverdueFound
<1> HIDE DEF k
<1>4. k \in Nat /\ k <= n /\ n \in 0 .. Len(rest) /\ n \in Nat /\ n <= Len(rest)
  BY <1>2, <1>3
<1> HIDE DEF n
<1>5. /\ first \in Seq(Clients) /\ Len(first) = n
      /\ left \in Seq(Clients) /\ Len(left) = Len(rest) - n
      /\ \A i \in 1 .. Len(rest) - n : left[i] = rest[n + i]
      /\ Range(rest) = Range(first) \cup Range(left)
      /\ IsInjective(first) /\ IsInjective(left)
      /\ Range(first) \cap Range(left) = {}
  BY <1>2, <1>4, Slices
<1> HIDE DEF first, left
<1>6. ts \in Seq(Clients) /\ IsInjective(ts) /\ Range(ts) \subseteq Range(sleeping)
  BY EventsAsleep
<1>7. Range(ts) \cap Range(first) = {}
  BY <1>2, <1>5
<1>8. /\ woken \in Seq(Clients) /\ Range(woken) = Range(ts) \cup Range(first)
      /\ IsInjective(woken)
  BY <1>5, <1>6, <1>7, ConcatList
<1> HIDE DEF woken
<1>9. Range(woken) \subseteq Range(sleeping) /\ Range(left) = Range(sleeping) \ Range(woken)
  BY <1>2, <1>5, <1>6, <1>8
<1>10. Rises(left, due)
  <2>1. ASSUME NEW i \in 1 .. Len(rest) - n, NEW j \in 1 .. Len(rest) - n, i < j
        PROVE  due[left[i]] <= due[left[j]]
    <3>1. n + i \in 1 .. Len(rest) /\ n + j \in 1 .. Len(rest) /\ n + i < n + j
      BY <2>1, <1>2, <1>4
    <3>2. due[rest[n + i]] <= due[rest[n + j]]
      BY <3>1, <1>2 DEF Rises
    <3> QED BY <3>2, <1>5
  <2> QED BY <2>1, <1>5 DEF Rises
<1>11. /\ k \in Nat /\ k <= n /\ n \in Nat /\ n <= Len(rest)
       /\ Len(rest) \in Nat /\ Len(rest) <= Len(sleeping)
       /\ rest \in Seq(Clients)
       /\ Range(rest) = Range(sleeping) \ Range(ts)
       /\ woken \in Seq(Clients) /\ IsInjective(woken)
       /\ Range(woken) = Range(ts) \cup Range(first)
       /\ Range(woken) \subseteq Range(sleeping)
       /\ left \in Seq(Clients) /\ IsInjective(left)
       /\ Len(left) = Len(rest) - n
       /\ Range(left) = Range(sleeping) \ Range(woken)
       /\ Rises(left, due)
  BY <1>2, <1>4, <1>5, <1>8, <1>9, <1>10
<1> QED BY <1>11 DEF rest, k, n, first, woken, left

LEMMA FdtaskWakesKeeps ==
  ASSUME IInv, NEW ts \in Events, NEW stop \in BOOLEAN, fdtaskWakes(ts, stop)
  PROVE  IInv'
<1>1. Polling /\ taskrunning' = NULL
  BY DEF fdtaskWakes, Polling, taskswitch
<1>2. PICK rest, k, n, woken, left :
        /\ n = IF stop THEN Len(rest) ELSE k
        /\ k \in Nat /\ k <= n /\ n \in Nat /\ n <= Len(rest)
        /\ Len(rest) \in Nat /\ Len(rest) <= Len(sleeping)
        /\ woken \in Seq(Clients) /\ IsInjective(woken)
        /\ Range(woken) \subseteq Range(sleeping)
        /\ left \in Seq(Clients) /\ IsInjective(left)
        /\ Len(left) = Len(rest) - n
        /\ Range(left) = Range(sleeping) \ Range(woken)
        /\ Rises(left, due)
        /\ sleeping' = left
        /\ sleepingcounted' = sleepingcounted - n
        /\ due' = [t \in Tasks |-> IF t \in Range(woken) THEN 0 ELSE due[t]]
        /\ IF stop THEN /\ taskcount' = dropsleepers(n) - 1
                        /\ taskreadyall(woken)
                   ELSE /\ taskcount' = dropsleepers(n)
                        /\ taskreadyall(Append(woken, fdtask))
  <2> DEFINE rest == unexpected(ts)
             k == overdue(rest)
             n == IF stop THEN Len(rest) ELSE k
             first == SubSeq(rest, 1, n)
             woken == ts \o first
             left == SubSeq(rest, n + 1, Len(rest))
  <2>1. /\ k \in Nat /\ k <= n /\ n \in Nat /\ n <= Len(rest)
        /\ Len(rest) \in Nat /\ Len(rest) <= Len(sleeping)
        /\ woken \in Seq(Clients) /\ IsInjective(woken)
        /\ Range(woken) \subseteq Range(sleeping)
        /\ left \in Seq(Clients) /\ IsInjective(left)
        /\ Len(left) = Len(rest) - n
        /\ Range(left) = Range(sleeping) \ Range(woken)
        /\ Rises(left, due)
    BY <1>1, WokenLists
  <2>2. /\ sleeping' = left
        /\ sleepingcounted' = sleepingcounted - n
        /\ due' = [t \in Tasks |-> IF t \in Range(woken) THEN 0 ELSE due[t]]
        /\ IF stop THEN /\ taskcount' = dropsleepers(n) - 1
                        /\ taskreadyall(woken)
                   ELSE /\ taskcount' = dropsleepers(n)
                        /\ taskreadyall(Append(woken, fdtask))
    BY DEF fdtaskWakes
  <2>3. n = IF stop THEN Len(rest) ELSE k
    OBVIOUS
  <2> HIDE DEF rest, k, n, first, woken, left
  <2> QED BY <2>1, <2>2, <2>3
<1>3. /\ at' = [at EXCEPT ![fdtask] = "yield"] /\ timeout' = 0
      /\ (stop => v)
      /\ IF stop THEN /\ startedfdtask' = FALSE
                      /\ alive' = alive \ {fdtask}
                      /\ others' = TRUE
                 ELSE /\ UNCHANGED <<startedfdtask, alive>>
                      /\ others' = FALSE
      /\ UNCHANGED <<poolfn, v, instances, epfd, wait, possible, phase>>
  BY DEF fdtaskWakes, fdtaskReturns
<1>4. udata' \in [Tasks -> {"NULL", "LIBTASK_TIMEOUT", "EIO"} \cup Data]
  <2>1. \A t \in Tasks : udata[t] \in {"NULL", "LIBTASK_TIMEOUT", "EIO"} \cup Data
    BY DEF IInv, TypeOK
  <2> QED BY <2>1 DEF fdtaskWakes
<1>5. /\ taskrunning = fdtask /\ taskrunqueue = << >> /\ startedfdtask
      /\ \A u \in Tasks : state[u] = "none"
      /\ fdtask \in Tasks /\ fdtask # NULL /\ fdtask \notin Clients
      /\ \A u \in Clients : u \in Tasks /\ u # fdtask /\ u # NULL
  BY <1>1, WatchersAsleep, FdAssumption, NullAssumption DEF Clients
<1>6. /\ CoreTypeOK /\ RunqueueExact /\ at \in [Tasks -> Places]
      /\ due \in [Tasks -> Int] /\ alive \subseteq Tasks
      /\ fdtask \in alive /\ Range(sleeping) \subseteq alive
      /\ Range(sleeping) \subseteq Clients /\ woken \in Seq(Tasks)
  <2>1. woken \in Seq(Tasks)
    BY <1>2, SeqMonotonic DEF Clients
  <2> QED BY <2>1, <1>5, RangeOfSeq DEF IInv, TypeOK, AliveExact
<1>7. fdtask \notin Range(woken)
  BY <1>2, <1>5, <1>6
<1> DEFINE ready == IF stop THEN woken ELSE Append(woken, fdtask)
<1>8. /\ ready \in Seq(Tasks) /\ IsInjective(ready) /\ taskreadyall(ready)
      /\ Range(ready) = IF stop THEN Range(woken) ELSE Range(woken) \cup {fdtask}
  <2>1. /\ Append(woken, fdtask) \in Seq(Tasks)
        /\ Range(Append(woken, fdtask)) = Range(woken) \cup {fdtask}
        /\ IsInjective(Append(woken, fdtask))
    BY <1>2, <1>5, <1>6, <1>7, AppendList
  <2>2. CASE stop
    BY <2>2, <1>2, <1>6
  <2>3. CASE ~stop
    BY <2>1, <2>3, <1>2
  <2> QED BY <2>2, <2>3
<1>9. ~stop => ready = Append(woken, fdtask)
  OBVIOUS
<1> HIDE DEF ready
<1>10. /\ taskrunqueue' \in Seq(Tasks)
       /\ state' = [u \in Tasks |-> IF u \in Range(ready) THEN "ready" ELSE state[u]]
       /\ state' \in [Tasks -> States]
       /\ IsInjective(taskrunqueue')
       /\ Range(taskrunqueue') = {u \in Tasks : state'[u] = "ready"}
  <2>1. \A u \in Range(ready) : state[u] = "none"
    BY <1>5, <1>8, RangeOfSeq
  <2> QED BY <2>1, <1>6, <1>8, TaskreadyallKeeps
<1>11. taskrunqueue' = ready
  BY <1>5, <1>8, ConcatEmptySeq DEF taskreadyall
<1>12. /\ \A u \in Clients : /\ at'[u] = at[u]
                             /\ state'[u] = "none" <=> u \notin Range(woken)
                             /\ state'[u] # "exiting"
       /\ at'[fdtask] = "yield"
       /\ state'[fdtask] = IF stop THEN "none" ELSE "ready"
  BY <1>3, <1>5, <1>6, <1>7, <1>8, <1>10
<1>13. /\ sleepingcounted >= Len(sleeping) /\ sleepingcounted \in 0 .. MaxCounted
       /\ taskcount = Cardinality(alive) + (IF sleepingcounted = 0 THEN 0 ELSE 1)
       /\ Len(sleeping) \in Nat
  BY DEF IInv, Counted, TypeOK
<1>14. /\ Cardinality(alive) \in Nat /\ Cardinality(alive') \in Nat
       /\ Cardinality(alive') = IF stop THEN Cardinality(alive) - 1 ELSE Cardinality(alive)
       /\ alive' \subseteq Tasks
  <2>1. alive \in SUBSET Tasks /\ alive' \in SUBSET Tasks
    BY <1>3, <1>6
  <2>2. IsFiniteSet(alive) /\ Cardinality(alive) \in Nat /\ Cardinality(alive') \in Nat
    BY <2>1, Finite
  <2>3. Cardinality(alive \ {fdtask}) = Cardinality(alive) - 1
    BY <2>2, <1>6, FS_RemoveElement
  <2> QED BY <2>1, <2>2, <2>3, <1>3
<1>15. Counted' /\ sleepingcounted' \in 0 .. MaxCounted /\ taskcount' \in Nat
  <2>1. sleepingcounted \in Nat /\ n \in Nat /\ n <= sleepingcounted
    BY <1>2, <1>13, Finite
  <2>2. /\ sleepingcounted' = sleepingcounted - n
        /\ sleepingcounted' \in 0 .. MaxCounted
    <3> DEFINE M == MaxCounted
    <3>1. M \in Nat /\ sleepingcounted \in 0 .. M
      BY <1>13, Finite
    <3> HIDE DEF M
    <3>2. sleepingcounted' = sleepingcounted - n /\ sleepingcounted' \in 0 .. M
      BY <3>1, <2>1, <1>2
    <3> QED BY <3>2 DEF M
  <2>3. Len(sleeping') = Len(rest) - n /\ sleepingcounted' >= Len(sleeping')
    BY <2>1, <2>2, <1>2, <1>13
  <2>4. dropsleepers(n) = Cardinality(alive) + (IF sleepingcounted' = 0 THEN 0 ELSE 1)
    <3>1. CASE sleepingcounted \in 1 .. n
      BY <3>1, <2>1, <2>2, <1>13, <1>14 DEF dropsleepers
    <3>2. CASE sleepingcounted \notin 1 .. n
      <4>1. sleepingcounted = 0 <=> sleepingcounted' = 0
        BY <3>2, <2>1, <2>2
      <4> QED BY <3>2, <4>1, <1>13 DEF dropsleepers
    <3> QED BY <3>1, <3>2
  <2>5. taskcount' = Cardinality(alive') + (IF sleepingcounted' = 0 THEN 0 ELSE 1)
    BY <2>4, <1>2, <1>14
  <2> QED BY <2>2, <2>3, <2>5, <1>14 DEF Counted
<1>16. due' \in [Tasks -> Int]
  BY <1>2, <1>6
<1>17. TypeOK'
  <2>1. CoreTypeOK'
    BY <1>1, <1>10 DEF CoreTypeOK
  <2>2. {startedfdtask', poolfn', v', others'} \subseteq BOOLEAN
    BY <1>3 DEF IInv, TypeOK
  <2>3. at' \in [Tasks -> Places]
    BY <1>3, <1>6 DEF Places
  <2> QED BY <2>1, <2>2, <2>3, <1>2, <1>3, <1>4, <1>14, <1>15, <1>16 DEF IInv, TypeOK
<1>18. RunqueueExact'
  BY <1>1, <1>10 DEF RunqueueExact
<1>19. PlacesExact'
  <2>1. \A u \in Tasks : state'[u] # "exiting"
    BY <1>5, <1>10
  <2> QED BY <2>1, <1>3, <1>12 DEF IInv, PlacesExact
<1>20. SleepersExact'
  <2>1. Rises(left, due')
    <3>1. \A i \in DOMAIN left : due'[left[i]] = due[left[i]]
      <4>1. ASSUME NEW i \in DOMAIN left PROVE due'[left[i]] = due[left[i]]
        <5>1. left[i] \in Range(left)
          BY DEF Range
        <5>2. left[i] \in Tasks /\ left[i] \notin Range(woken)
          BY <5>1, <1>2, <1>5, <1>6
        <5> QED BY <5>2, <1>2
      <4> QED BY <4>1
    <3> QED BY <3>1, <1>2 DEF Rises
  <2>2. Range(left) = {u \in Clients : at'[u] # "run" /\ state'[u] = "none"
                                                      /\ taskrunning' # u}
    <3>1. Range(sleeping) = {u \in Clients : at[u] # "run"}
      <4>1. Range(sleeping) = {u \in Clients : at[u] # "run" /\ state[u] = "none"
                                                             /\ taskrunning # u}
        BY DEF IInv, SleepersExact
      <4> QED BY <4>1, <1>5
    <3> QED BY <3>1, <1>1, <1>2, <1>5, <1>12
  <2> QED BY <2>1, <2>2, <1>2 DEF SleepersExact, Rises
<1>21. Registered'
  <2>1. \A r \in epfd : r.task \in Clients
    BY DEF IInv, TypeOK, Registrations
  <2> QED BY <2>1, <1>3, <1>12 DEF IInv, Registered
<1>22. Alone'
  <2>1. ASSUME ~stop
        PROVE  taskrunqueue' # << >> /\ taskrunqueue'[Len(taskrunqueue')] = fdtask
    BY <2>1, <1>5, <1>6, <1>9, <1>11, AppendProperties, AppendList
  <2> QED BY <2>1, <1>1, <1>3, <1>12 DEF Alone
<1>23. Attended'
  <2>1. CASE stop
    <3>1. Len(left) = 0
      BY <2>1, <1>2
    <3>2. left = << >>
      BY <3>1, <1>2, EmptySeq
    <3> QED BY <2>1, <3>2, <1>1, <1>2, <1>3, <1>5, <1>12 DEF Attended
  <2>2. CASE ~stop
    BY <2>2, <1>3, <1>5, <1>12 DEF Attended
  <2> QED BY <2>1, <2>2
<1>24. AliveExact'
  <2>1. Range(sleeping') \subseteq alive'
    BY <1>2, <1>3, <1>5, <1>6
  <2>2. ASSUME NEW u \in Tasks, state'[u] = "ready" PROVE u \in alive'
    <3>1. u \in Range(ready)
      BY <2>2, <1>5, <1>10
    <3>2. u \in Range(woken) => u \in alive /\ u # fdtask
      BY <1>2, <1>6, <1>7
    <3>3. CASE stop
      BY <3>1, <3>2, <3>3, <1>3, <1>8
    <3>4. CASE ~stop
      BY <3>1, <3>2, <3>4, <1>3, <1>6, <1>8
    <3> QED BY <3>3, <3>4
  <2>3. fdtask \in alive' <=> startedfdtask'
    BY <1>3, <1>5, <1>6
  <2> QED BY <2>1, <2>2, <2>3, <1>1, NullAssumption DEF AliveExact
<1>25. NeverOversleeps'
  BY <1>12 DEF NeverOversleeps, Polling, Runs
<1>26. CallbackGiven'
  BY <1>3 DEF IInv, CallbackGiven
<1> QED BY <1>15, <1>17, <1>18, <1>19, <1>20, <1>21, <1>22, <1>23, <1>24, <1>25, <1>26
        DEF IInv

LEMMA NextIInv == IInv /\ [Next]_vars => IInv'
<1> SUFFICES ASSUME IInv, [Next]_vars PROVE IInv'
  OBVIOUS
<1> USE DEF coreVars, sleepVars, countVars, poolVars
<1>1. CASE UNCHANGED vars
  <2>1. UNCHANGED <<coreVars, sleepVars, udata, at, wait, possible, timeout, others, phase>>
    BY <1>1 DEF vars
  <2> QED BY <2>1, OutsideKeeps DEF IInv, TypeOK
<1>2. ASSUME NEW t \in Clients, GivesUp(t) PROVE IInv'
  <2>1. ASSUME NEW d \in Delays, taskdelay(t, d) PROVE IInv'
    BY <2>1, TaskdelayKeeps
  <2>2. ASSUME NEW f \in Fds, NEW rw \in RW, fdwait(t, f, rw) PROVE IInv'
    BY <2>2, FdwaitKeeps
  <2>3. CASE taskyield(t)
    BY <2>3, TaskyieldKeeps
  <2>4. CASE taskexit(t)
    BY <2>4, TaskexitKeeps
  <2> QED BY <1>2, <2>1, <2>2, <2>3, <2>4 DEF GivesUp
<1>3. ASSUME NEW t \in Clients, Returns(t) PROVE IInv'
  BY <1>3, DelayReturnsKeeps, FdwaitReturnsKeeps DEF Returns
<1>4. ASSUME NEW t \in Clients, NEW data \in Data, taskdata(t, data) PROVE IInv'
  <2>1. /\ UNCHANGED <<coreVars, sleepVars, at, wait, possible, timeout, others, phase>>
        /\ udata' \in [Tasks -> {"NULL", "LIBTASK_TIMEOUT", "EIO"} \cup Data]
    BY <1>4 DEF taskdata, IInv, TypeOK
  <2> QED BY <2>1, OutsideKeeps DEF IInv, TypeOK
<1>5. ASSUME NEW t \in Clients, NEW f \in Fds, consume(t, f) PROVE IInv'
  <2>1. /\ UNCHANGED <<coreVars, sleepVars, udata, at, wait, timeout, others, phase>>
        /\ possible' \in [Fds -> SUBSET {"r", "w", "e"}]
    BY <1>5 DEF consume, IInv, TypeOK
  <2> QED BY <2>1, OutsideKeeps DEF IInv, TypeOK
<1>6. ASSUME NEW t \in Clients, NEW fn \in BOOLEAN, startfdtask(t, fn) PROVE IInv'
  BY <1>6, StartfdtaskKeeps
<1>7. CASE FdTaskStep
  <2>1. CASE fdtaskYields
    BY <2>1, FdtaskYieldsKeeps
  <2>2. CASE fdtaskPolls
    BY <2>2, FdtaskPollsKeeps
  <2>3. ASSUME NEW ts \in Events, NEW stop \in BOOLEAN, fdtaskWakes(ts, stop) PROVE IInv'
    BY <2>3, FdtaskWakesKeeps
  <2> QED BY <1>7, <2>1, <2>2, <2>3 DEF FdTaskStep
<1>8. CASE fdtaskInterrupted
  BY <1>8, FdtaskInterruptedKeeps
<1>9. CASE fdtaskFails
  BY <1>9, OutsideKeeps DEF fdtaskFails, IInv, TypeOK
<1>10. CASE dispatch
  BY <1>10, DispatchKeeps
<1>11. CASE schedulerReturns
  BY <1>11, OutsideKeeps DEF schedulerReturns, IInv, TypeOK
<1>12. CASE tick
  BY <1>12, TickKeeps
<1>13. ASSUME NEW f \in Fds, NEW what \in RW \cup {"e"}, arrive(f, what) PROVE IInv'
  <2>1. what \in {"r", "w", "e"}
    BY FdAssumption
  <2>2. /\ UNCHANGED <<coreVars, sleepVars, udata, at, wait, timeout, others, phase>>
        /\ possible' \in [Fds -> SUBSET {"r", "w", "e"}]
    BY <1>13, <2>1 DEF arrive, IInv, TypeOK
  <2> QED BY <2>2, OutsideKeeps DEF IInv, TypeOK
<1>14. CASE terminated
  BY <1>1, <1>14 DEF terminated
<1>15. ASSUME NEW t \in Clients, startfdAborts(t) \/ fdwaitAborts(t) PROVE IInv'
  <2>1. aborts(t)
    BY <1>15 DEF startfdAborts, fdwaitAborts
  <2> QED BY <2>1, OutsideKeeps DEF aborts, IInv, TypeOK
<1> QED
  <2> USE DEF Next, Environment
  <2>1. CASE Next
    BY <2>1, <1>2, <1>3, <1>4, <1>5, <1>6, <1>7, <1>8, <1>9, <1>10, <1>11, <1>12,
       <1>13, <1>14, <1>15
  <2> QED BY <2>1, <1>1

\* The invariant holds throughout.
THEOREM Invariance == Spec => []IInv
BY InitIInv, NextIInv, PTL DEF Spec

\* The variables of fd.c keep their types; neither count is ever negative.
THEOREM TypeCorrect == Spec => []TypeOK
<1>1. IInv => TypeOK
  BY DEF IInv
<1> QED BY Invariance, <1>1, PTL

\* The sleeping list holds whoever is in taskdelay or fdwait and has not been
\* woken, once, in the order of the alarms.
THEOREM SleepersCorrect == Spec => []SleepersExact
<1>1. IInv => SleepersExact
  BY DEF IInv
<1> QED BY Invariance, <1>1, PTL

\* Whatever epoll_wait can report is a task that sleeps, in fdwait, for that
\* very event.
THEOREM WatchersCorrect == Spec => []WatchersSleep
<1>1. IInv => WatchersSleep
  BY WatchersAsleep DEF WatchersSleep
<1> QED BY Invariance, <1>1, PTL

\* Whoever sleeps has an fd task that will poll for it.
THEOREM AttendedCorrect == Spec => []SleepersAttended
<1>1. IInv => SleepersAttended
  BY DEF IInv, Attended, SleepersAttended
<1> QED BY Invariance, <1>1, PTL

\* taskcount covers every task, and those that sleep once more.
THEOREM CountCorrect == Spec => []CountCovers
<1>1. IInv => CountCovers
  <2> SUFFICES ASSUME IInv PROVE CountCovers
    OBVIOUS
  <2>1. /\ taskcount = Cardinality(alive) + (IF sleepingcounted = 0 THEN 0 ELSE 1)
        /\ sleepingcounted >= Len(sleeping) /\ sleeping \in Seq(Clients)
        /\ alive \in SUBSET Tasks
    BY DEF IInv, Counted, TypeOK
  <2>2. Cardinality(alive) \in Nat
    BY <2>1, Finite
  <2>3. sleeping # << >> => Len(sleeping) \in Nat \ {0}
    BY <2>1, EmptySeq
  <2>4. sleeping # << >> => sleepingcounted # 0
    BY <2>1, <2>3
  <2> QED BY <2>1, <2>2, <2>4 DEF CountCovers
<1> QED BY Invariance, <1>1, PTL

\* epoll_wait does not block beyond the alarm of anyone who sleeps.
THEOREM OversleepsNever == Spec => []NeverOversleeps
<1>1. IInv => NeverOversleeps
  BY DEF IInv
<1> QED BY Invariance, <1>1, PTL

-----------------------------------------------------------------------------
(* Who leaves the list, and when.                                          *)

\* Only taskdelay, fdwait and the fd task change the list.
LEMMA ListChanges ==
  ASSUME [Next]_vars, sleeping' # sleeping
  PROVE  \/ \E t \in Clients : /\ \/ \E d \in Delays : taskdelay(t, d)
                                  \/ \E f \in Fds, rw \in RW : fdwait(t, f, rw)
         \/ \E ts \in Events, stop \in BOOLEAN : fdtaskWakes(ts, stop)
<1> USE DEF sleepVars
<1>1. CASE UNCHANGED vars
  BY <1>1 DEF vars
<1>2. ASSUME NEW t \in Clients,
             taskyield(t) \/ taskexit(t) \/ delayReturns(t) \/ fdwaitReturns(t)
      PROVE  FALSE
  BY <1>2 DEF taskyield, taskexit, delayReturns, fdwaitReturns
<1>3. ASSUME NEW t \in Clients,
             \/ \E data \in Data : taskdata(t, data)
             \/ \E f \in Fds : consume(t, f)
             \/ \E fn \in BOOLEAN : startfdtask(t, fn)
      PROVE  FALSE
  BY <1>3 DEF taskdata, consume, startfdtask
<1>4. ASSUME fdtaskYields \/ fdtaskPolls \/ fdtaskInterrupted \/ fdtaskFails
      PROVE  FALSE
  BY <1>4 DEF fdtaskYields, fdtaskPolls, fdtaskInterrupted, fdtaskFails
<1>5. ASSUME dispatch \/ schedulerReturns \/ tick \/ terminated
      PROVE  FALSE
  BY <1>5 DEF dispatch, schedulerReturns, tick, terminated, vars
<1>6. ASSUME \E f \in Fds, what \in RW \cup {"e"} : arrive(f, what) PROVE FALSE
  BY <1>6 DEF arrive
<1>7. ASSUME NEW t \in Clients, startfdAborts(t) \/ fdwaitAborts(t) PROVE FALSE
  BY <1>7 DEF startfdAborts, fdwaitAborts, aborts
<1> QED BY <1>1, <1>2, <1>3, <1>4, <1>5, <1>6, <1>7
        DEF Next, GivesUp, Returns, FdTaskStep, Environment

\* Going to sleep wakes nobody.
LEMMA SleepersStay ==
  ASSUME IInv, IInv', NEW t \in Clients, taskrunning = t, startfd, taskrunning' = NULL,
         NEW p, at' = [at EXCEPT ![t] = p]
  PROVE  Range(sleeping) \subseteq Range(sleeping')
<1> SUFFICES ASSUME NEW u \in Range(sleeping) PROVE u \in Range(sleeping')
  OBVIOUS
<1>1. u \in Clients /\ at[u] # "run" /\ state[u] = "none" /\ u # t
  BY DEF IInv, SleepersExact
<1>2. u \in Tasks /\ u # fdtask /\ u # NULL
  BY <1>1, NullAssumption DEF Clients
<1>3. at'[u] = at[u]
  BY <1>1, <1>2 DEF IInv, TypeOK
<1>4. state' = [state EXCEPT ![fdtask] = "ready"]
  BY StartfdKeeps
<1>5. state'[u] = "none"
  BY <1>1, <1>2, <1>4 DEF IInv, TypeOK, CoreTypeOK
<1> QED BY <1>1, <1>2, <1>3, <1>5 DEF IInv, SleepersExact

\* Without a callback fdtask wakes who has an event or an alarm that is due.
LEMMA WokenForCause ==
  ASSUME IInv, NEW ts \in Events, NEW stop \in BOOLEAN, fdtaskWakes(ts, stop),
         NEW t \in Range(sleeping), t \notin Range(sleeping'), t \notin Range(ts), ~stop
  PROVE  due[t] <= 0
<1>1. Polling
  BY DEF fdtaskWakes, Polling
<1> DEFINE rest == unexpected(ts)
           k == overdue(rest)
           a == SubSeq(rest, 1, k)
           b == SubSeq(rest, k + 1, Len(rest))
<1>2. sleeping' = b
  BY DEF fdtaskWakes
<1>3. /\ sleeping \in Seq(Clients) /\ due \in [Tasks -> Int] /\ IsInjective(sleeping)
  BY DEF IInv, TypeOK, SleepersExact
<1>4. rest \in Seq(Clients) /\ Range(rest) = Range(sleeping) \ Range(ts)
  BY <1>3, UnexpectedKept
<1> HIDE DEF rest
<1>5. k \in 0 .. Len(rest) /\ \A i \in 1 .. k : due[rest[i]] <= 0
  BY <1>3, <1>4, OverdueFound
<1> HIDE DEF k
<1>6. /\ a \in Seq(Clients) /\ Len(a) = k /\ \A i \in 1 .. k : a[i] = rest[i]
      /\ Range(rest) = Range(a) \cup Range(b)
  BY <1>4, <1>5, Slices
<1> HIDE DEF a, b
<1>7. t \in Range(a)
  BY <1>2, <1>4, <1>6
<1>8. PICK i \in 1 .. k : a[i] = t
  BY <1>6, <1>7 DEF Range
<1> QED BY <1>5, <1>6, <1>8

\* Without a callback taskdelay keeps its promise: a task leaves the list on
\* its way out of taskdelay only when its alarm is due.
THEOREM DelaysAtLeast ==
  ASSUME Callback = FALSE
  PROVE  Spec => DelayAtLeast
<1>1. ASSUME IInv, IInv', [Next]_vars, NEW t \in Range(sleeping), at[t] = "delay",
             t \notin Range(sleeping')
      PROVE  due[t] <= 0
  <2>1. sleeping' # sleeping
    BY <1>1
  <2>2. ASSUME NEW u \in Clients, NEW d \in Delays, taskdelay(u, d) PROVE FALSE
    <3>1. /\ taskrunning = u /\ startfd /\ taskrunning' = NULL
          /\ at' = [at EXCEPT ![u] = "delay"]
      BY <2>2 DEF taskdelay, Runs, sleep, taskswitch
    <3> QED BY <3>1, <1>1, SleepersStay
  <2>3. ASSUME NEW u \in Clients, NEW f \in Fds, NEW rw \in RW, fdwait(u, f, rw)
        PROVE  FALSE
    <3>1. /\ taskrunning = u /\ startfd /\ taskrunning' = NULL
          /\ at' = [at EXCEPT ![u] = "fdwait"]
      BY <2>3 DEF fdwait, Runs, sleep, taskswitch
    <3> QED BY <3>1, <1>1, SleepersStay
  <2>4. ASSUME NEW ts \in Events, NEW stop \in BOOLEAN, fdtaskWakes(ts, stop)
        PROVE  due[t] <= 0
    <3>1. Polling /\ (stop => v)
      BY <2>4 DEF fdtaskWakes, Polling
    <3>2. ~stop
      BY <3>1, <1>1 DEF IInv, CallbackGiven
    <3>3. t \notin Range(ts)
      <4>1. ASSUME NEW r \in Ready, r.task = t PROVE FALSE
        BY <4>1, <1>1 DEF Ready, IInv, Registered
      <4> QED BY <3>1, <4>1, <1>1, EventsAsleep
    <3> QED BY <2>4, <3>2, <3>3, <1>1, WokenForCause
  <2> QED BY <2>1, <2>2, <2>3, <2>4, <1>1, ListChanges
<1>2. IInv /\ IInv' /\ [Next]_vars =>
        [\A t \in Range(sleeping) : at[t] = "delay" /\ t \notin Range(sleeping')
           => due[t] <= 0]_vars
  BY <1>1
<1> QED BY <1>2, Invariance, PTL DEF Spec, DelayAtLeast

-----------------------------------------------------------------------------
(* Without a callback there is one epoll instance, and nobody who waits is *)
(* forgotten by it, unless it was refused, or the descriptor it waits for  *)
(* was refused to another.                                                 *)

\* The registrations that are not of a dup are of different descriptors, so
\* none is taken out for another.
Watched ==
  /\ \A t \in Clients : at[t] = "fdwait" => wait[t] \in epfd \/ wait[t].fd \in Refused
  /\ \A r, s \in epfd : r.fd = s.fd /\ ~r.own /\ ~s.own => r = s
  /\ ~startedfdtask => epfd = {}

LEMMA InitWatched == Init => Watched
  BY FdAssumption DEF Init, Watched, Clients

LEMMA StepWatched ==
  ASSUME Callback = FALSE, IInv, Watched, [Next]_vars
  PROVE  Watched'
<1> USE DEF sleepVars, poolVars
<1>1. instance = epfd
  BY DEF Watched, instance
<1>2. /\ \A u \in Clients : u \in Tasks /\ u # fdtask
      /\ at \in [Tasks -> Places] /\ wait \in [Tasks -> Registrations \cup {NULL}]
      /\ epfd \subseteq Registrations
  BY DEF IInv, TypeOK, Clients
<1>3. ASSUME UNCHANGED <<epfd, wait, startedfdtask>>, \A u \in Clients : at'[u] = at[u]
      PROVE  Watched'
  BY <1>3 DEF Watched
<1>4. ASSUME NEW t \in Clients, NEW d \in Delays, taskdelay(t, d) PROVE Watched'
  <2>1. /\ at' = [at EXCEPT ![t] = "delay"] /\ epfd' = epfd /\ wait' = wait
        /\ startedfdtask' = TRUE
    BY <1>1, <1>4 DEF taskdelay, sleep, startfd
  <2> QED BY <2>1, <1>2 DEF Watched
<1>5. ASSUME NEW t \in Clients, NEW f \in Fds, NEW rw \in RW, fdwait(t, f, rw)
      PROVE  Watched'
  <2> DEFINE dup == \E r \in epfd : r.fd = f /\ ~r.own
             reg == [task |-> t, fd |-> f, rw |-> rw, own |-> dup]
  <2>1. /\ at' = [at EXCEPT ![t] = "fdwait"]
        /\ \/ epfd' = epfd \cup {reg}
           \/ epfd' = epfd /\ f \in Refused
        /\ wait' = [wait EXCEPT ![t] = reg]
        /\ startedfdtask' = TRUE
    BY <1>1, <1>5 DEF fdwait, sleep, startfd
  <2>2. reg.fd = f /\ (~reg.own => \A r \in epfd : r.fd = f => r.own)
    OBVIOUS
  <2> HIDE DEF reg
  <2>3. \A u \in Clients :
          at'[u] = "fdwait" => wait'[u] \in epfd' \/ wait'[u].fd \in Refused
    BY <2>1, <2>2, <1>2 DEF Watched
  <2>4. \A r, s \in epfd' : r.fd = s.fd /\ ~r.own /\ ~s.own => r = s
    BY <2>1, <2>2 DEF Watched
  <2> QED BY <2>1, <2>3, <2>4 DEF Watched
<1>6. ASSUME NEW t \in Clients, delayReturns(t) PROVE Watched'
  <2>1. /\ at' = [at EXCEPT ![t] = "run"] /\ UNCHANGED <<epfd, wait, startedfdtask>>
    BY <1>6 DEF delayReturns
  <2> QED BY <2>1, <1>2 DEF Watched
<1>7. ASSUME NEW t \in Clients, fdwaitReturns(t) PROVE Watched'
  <2> DEFINE reg == wait[t]
  <2>1. /\ at[t] = "fdwait" /\ at' = [at EXCEPT ![t] = "run"]
        /\ wait' = [wait EXCEPT ![t] = NULL] /\ startedfdtask' = startedfdtask
        /\ epfd' = {r \in epfd : \/ r.fd # reg.fd \/ r.own # reg.own
                                 \/ reg.own /\ r.task # reg.task}
    BY <1>7 DEF fdwaitReturns, epollctldel, Runs
  <2>2. ASSUME NEW u \in Clients, at[u] = "fdwait"
        PROVE  wait[u].task = u /\ wait[u].own \in BOOLEAN
    <3>1. wait[u] # NULL /\ wait[u].task = u
      BY <2>2 DEF IInv, PlacesExact
    <3>2. wait[u] \in Registrations
      BY <3>1, <1>2
    <3> QED BY <3>1, <3>2 DEF Registrations
  <2>3. ASSUME NEW u \in Clients, at'[u] = "fdwait"
        PROVE  wait'[u] \in epfd' \/ wait'[u].fd \in Refused
    <3>1. u # t /\ at[u] = "fdwait" /\ wait'[u] = wait[u]
      BY <2>1, <2>3, <1>2
    <3>2. wait[u] \in epfd \/ wait[u].fd \in Refused
      BY <3>1 DEF Watched
    <3>3. reg \in epfd \/ reg.fd \in Refused
      BY <2>1 DEF Watched
    <3>4. /\ wait[u].task = u /\ wait[u].own \in BOOLEAN
          /\ reg.task = t /\ reg.own \in BOOLEAN
      BY <2>1, <2>2, <3>1
    <3> HIDE DEF reg
    <3>5. CASE wait[u] \in epfd /\ wait[u].fd \notin Refused
      <4>1. wait[u].fd = reg.fd => reg \in epfd
        BY <3>3, <3>5
      <4>2. ~ (wait[u].fd = reg.fd /\ ~wait[u].own /\ ~reg.own)
        BY <4>1, <3>1, <3>4, <3>5 DEF Watched
      <4> QED BY <4>2, <3>1, <3>4, <3>5, <2>1
    <3> QED BY <3>1, <3>2, <3>5
  <2>4. epfd' \subseteq epfd
    BY <2>1
  <2> QED BY <2>1, <2>3, <2>4 DEF Watched
<1>8. ASSUME NEW t \in Clients, NEW fn \in BOOLEAN, startfdtask(t, fn) PROVE Watched'
  <2>1. /\ epfd' = epfd /\ startedfdtask' = TRUE /\ UNCHANGED <<at, wait>>
    BY <1>1, <1>8 DEF startfdtask, startfd
  <2> QED BY <2>1 DEF Watched
<1>9. ASSUME NEW ts \in Events, NEW stop \in BOOLEAN, fdtaskWakes(ts, stop) PROVE Watched'
  <2>1. ~stop
    BY <1>9 DEF fdtaskWakes, IInv, CallbackGiven
  <2>2. UNCHANGED <<epfd, wait, startedfdtask>> /\ at' = [at EXCEPT ![fdtask] = "yield"]
    BY <2>1, <1>9 DEF fdtaskWakes
  <2> QED BY <2>2, <1>2, <1>3
<1>10. ASSUME fdtaskYields \/ fdtaskPolls \/ fdtaskInterrupted \/ fdtaskFails
       PROVE  Watched'
  <2>1. UNCHANGED <<epfd, wait, startedfdtask>>
    BY <1>10 DEF fdtaskYields, fdtaskPolls, fdtaskInterrupted, fdtaskFails
  <2>2. at' = at \/ \E p \in Places : at' = [at EXCEPT ![fdtask] = p]
    BY <1>10 DEF fdtaskYields, fdtaskPolls, fdtaskInterrupted, fdtaskFails, Places
  <2> QED BY <2>1, <2>2, <1>2, <1>3
<1>11. CASE UNCHANGED vars
  BY <1>3, <1>11 DEF vars
<1>12. ASSUME NEW t \in Clients, taskyield(t) \/ taskexit(t) PROVE Watched'
  BY <1>3, <1>12 DEF taskyield, taskexit
<1>13. ASSUME NEW t \in Clients, (\E data \in Data : taskdata(t, data)) \/
              \E f \in Fds : consume(t, f)
       PROVE  Watched'
  BY <1>3, <1>13 DEF taskdata, consume
<1>14. ASSUME dispatch \/ schedulerReturns \/ tick PROVE Watched'
  BY <1>3, <1>14 DEF dispatch, schedulerReturns, tick
<1>15. ASSUME \E f \in Fds, what \in RW \cup {"e"} : arrive(f, what) PROVE Watched'
  BY <1>3, <1>15 DEF arrive
<1>16. CASE terminated
  BY <1>11, <1>16 DEF terminated
<1>17. ASSUME NEW t \in Clients, startfdAborts(t) \/ fdwaitAborts(t) PROVE Watched'
  BY <1>3, <1>17 DEF startfdAborts, fdwaitAborts, aborts
<1> QED
  <2>1. CASE Next
    BY <2>1, <1>4, <1>5, <1>6, <1>7, <1>8, <1>9, <1>10, <1>12, <1>13, <1>14, <1>15, <1>16,
       <1>17
       DEF Next, GivesUp, Returns, FdTaskStep, Environment
  <2> QED BY <2>1, <1>11

\* Without a callback whoever waits for an event is registered for it until
\* its fdwait returns, unless epoll_ctl may refuse that very descriptor: what
\* is refused of one descriptor takes nobody's registration of another.
THEOREM WatchersKept ==
  ASSUME Callback = FALSE
  PROVE  Spec => []SleepersWatched
<1>1. IInv /\ Watched /\ [Next]_vars => Watched'
  BY StepWatched
<1>2. IInv /\ Watched => SleepersWatched
  <2> SUFFICES ASSUME IInv, Watched, NEW t \in Range(sleeping), at[t] = "fdwait"
               PROVE  wait[t] \in epfd \/ wait[t].fd \in Refused
    BY DEF SleepersWatched
  <2>1. t \in Clients
    BY DEF IInv, SleepersExact
  <2> QED BY <2>1 DEF Watched
<1> QED BY <1>1, <1>2, InitWatched, Invariance, PTL DEF Spec

-----------------------------------------------------------------------------
(* The fd task keeps the promise of FdWait.                                *)

\* Whoever was woken is ready or runs.
WokenExact == \A t \in Clients :
  Woken(t) <=> at[t] # "run" /\ (state[t] = "ready" \/ taskrunning = t)

LEMMA WokenNow == IInv => WokenExact
<1> SUFFICES ASSUME IInv, NEW t \in Clients
             PROVE  Woken(t) <=> at[t] # "run" /\ (state[t] = "ready" \/ taskrunning = t)
  BY DEF WokenExact
<1>1. state[t] \in {"none", "ready"}
  BY DEF IInv, TypeOK, CoreTypeOK, PlacesExact, States, Clients
<1>2. t \in Range(sleeping) <=> at[t] # "run" /\ state[t] = "none" /\ taskrunning # t
  BY DEF IInv, SleepersExact
<1>3. taskrunning = t => state[t] # "ready"
  BY NullAssumption DEF IInv, RunqueueExact, Clients
<1> QED BY <1>1, <1>2, <1>3 DEF Woken

LEMMA WokenNext == IInv' => WokenExact'
BY WokenNow, PTL

\* What a client sees of itself, and where a step changes it.
LEMMA SeenBy ==
  /\ \A t \in Clients :
       /\ StageOf[t] = IF Woken(t) THEN "woken" ELSE at[t]
       /\ Waited[t] = IF wait[t] = NULL THEN NULL
                      ELSE [fd |-> wait[t].fd, rw |-> wait[t].rw, own |-> wait[t].own]
       /\ Told[t] = udata[t]
  /\ DOMAIN StageOf = Clients /\ DOMAIN Waited = Clients /\ DOMAIN Told = Clients
BY DEF StageOf, Waited, Told

LEMMA StageChanges ==
  ASSUME IInv, IInv', NEW S \in SUBSET Clients, NEW p,
         \A u \in Clients \ S :
           /\ at'[u] = at[u]
           /\ at[u] # "run" => ((state'[u] = "ready" \/ taskrunning' = u)
                                  <=> (state[u] = "ready" \/ taskrunning = u)),
         \A u \in S : (IF Woken(u)' THEN "woken" ELSE at'[u]) = p
  PROVE  StageOf' = [u \in Clients |-> IF u \in S THEN p ELSE StageOf[u]]
<1>1. ASSUME NEW u \in Clients \ S
      PROVE  (IF Woken(u)' THEN "woken" ELSE at'[u]) = StageOf[u]
  <2>1. Woken(u) <=> at[u] # "run" /\ (state[u] = "ready" \/ taskrunning = u)
    BY WokenNow DEF WokenExact
  <2>2. Woken(u)' <=> at'[u] # "run" /\ (state'[u] = "ready" \/ taskrunning' = u)
    BY WokenNext DEF WokenExact
  <2>3. StageOf[u] = IF Woken(u) THEN "woken" ELSE at[u]
    BY SeenBy
  <2> QED BY <2>1, <2>2, <2>3
<1> QED BY <1>1 DEF StageOf

\* Steps no client sees.
LEMMA SeenStutters ==
  ASSUME IInv, IInv', wait' = wait, \A u \in Clients : udata'[u] = udata[u],
         \/ taskrunning' = taskrunning
         \/ taskrunning' \notin Clients /\ taskrunning \notin Clients,
         Aborted' = Aborted,
         \A u \in Clients :
           /\ at'[u] = at[u]
           /\ at[u] # "run" => (state'[u] = "ready" <=> state[u] = "ready")
  PROVE  UNCHANGED <<Running, StageOf, Waited, Told, Aborted>>
<1>1. StageOf' = [u \in Clients |-> IF u \in {} THEN "run" ELSE StageOf[u]]
  <2> DEFINE S == {}
  <2>1. /\ S \in SUBSET Clients
        /\ \A u \in Clients \ S :
             /\ at'[u] = at[u]
             /\ at[u] # "run" => ((state'[u] = "ready" \/ taskrunning' = u)
                                    <=> (state[u] = "ready" \/ taskrunning = u))
        /\ \A u \in S : (IF Woken(u)' THEN "woken" ELSE at'[u]) = "run"
    OBVIOUS
  <2> HIDE DEF S
  <2>2. StageOf' = [u \in Clients |-> IF u \in S THEN "run" ELSE StageOf[u]]
    BY <2>1, StageChanges
  <2> QED BY <2>2 DEF S
<1>2. StageOf' = StageOf
  BY <1>1 DEF StageOf
<1> QED BY <1>2 DEF Running, Waited, Told

\* The client that runs finds itself running, and changes its stage only.
LEMMA RunnerSeen ==
  ASSUME IInv, NEW t \in Clients, taskrunning = t
  PROVE  /\ Running = t
         /\ StageOf[t] = IF at[t] = "run" THEN "run" ELSE "woken"
<1>1. Woken(t) <=> at[t] # "run"
  BY WokenNow DEF WokenExact
<1> QED BY <1>1, SeenBy DEF Running

LEMMA RunnerChanges ==
  ASSUME IInv, IInv', NEW t \in Clients, taskrunning = t,
         taskrunning' \in {t, NULL}, NEW p, at' = [at EXCEPT ![t] = p],
         \A u \in Clients \ {t} : state'[u] = state[u],
         (IF p # "run" /\ (state'[t] = "ready" \/ taskrunning' = t) THEN "woken" ELSE p) = p
  PROVE  StageOf' = [StageOf EXCEPT ![t] = p]
<1>1. t \in Tasks /\ t # NULL /\ at'[t] = p
  BY RunningClient DEF IInv, TypeOK
<1>2. \A u \in Clients \ {t} :
        /\ at'[u] = at[u]
        /\ at[u] # "run" => ((state'[u] = "ready" \/ taskrunning' = u)
                               <=> (state[u] = "ready" \/ taskrunning = u))
  BY <1>1, NullAssumption DEF Clients, IInv, TypeOK
<1>3. Woken(t)' <=> p # "run" /\ (state'[t] = "ready" \/ taskrunning' = t)
  BY <1>1, WokenNext DEF WokenExact
<1> DEFINE S == {t}
<1>4. S \in SUBSET Clients /\ \A u \in S : (IF Woken(u)' THEN "woken" ELSE at'[u]) = p
  BY <1>1, <1>3
<1>5. \A u \in Clients \ S :
        /\ at'[u] = at[u]
        /\ at[u] # "run" => ((state'[u] = "ready" \/ taskrunning' = u)
                               <=> (state[u] = "ready" \/ taskrunning = u))
  BY <1>2
<1>6. \A u \in Clients : u \in S <=> u = t
  OBVIOUS
<1> HIDE DEF S
<1>7. StageOf' = [u \in Clients |-> IF u \in S THEN p ELSE StageOf[u]]
  BY <1>4, <1>5, StageChanges
<1>8. StageOf = [u \in Clients |-> StageOf[u]]
  BY DEF StageOf
<1> QED BY <1>6, <1>7, <1>8

LEMMA TaskdelaySeen ==
  ASSUME IInv, IInv', NEW t \in Clients, NEW d \in Delays, taskdelay(t, d)
  PROVE  Promise!taskdelay(t) /\ UNCHANGED possible
<1>1. /\ taskrunning = t /\ at[t] = "run" /\ startfd /\ taskrunning' = NULL
      /\ at' = [at EXCEPT ![t] = "delay"]
      /\ ~Aborted /\ UNCHANGED <<wait, udata, possible, Aborted>>
  BY DEF taskdelay, sleep, Runs, taskswitch, Aborted
<1>2. state' = [state EXCEPT ![fdtask] = "ready"] /\ state[t] = "none" /\ t # NULL
  BY <1>1, StartfdKeeps, RunningClient
<1>3. \A u \in Clients : state'[u] = state[u]
  BY <1>2 DEF Clients, IInv, TypeOK, CoreTypeOK
<1>4. StageOf' = [StageOf EXCEPT ![t] = "delay"]
  <2>1. (IF "delay" # "run" /\ (state'[t] = "ready" \/ taskrunning' = t)
         THEN "woken" ELSE "delay") = "delay"
    BY <1>1, <1>2, <1>3
  <2> QED BY <2>1, <1>1, <1>3, RunnerChanges
<1>5. Running = t /\ StageOf[t] = "run" /\ Running' = NULL
  BY <1>1, RunnerSeen, NullAssumption DEF Running, Clients
<1>6. UNCHANGED <<Waited, Told>>
  BY <1>1 DEF Waited, Told
<1> QED BY <1>1, <1>4, <1>5, <1>6 DEF Promise!taskdelay, Promise!Runs

LEMMA FdwaitSeen ==
  ASSUME IInv, IInv', NEW t \in Clients, NEW f \in Fds, NEW rw \in RW, fdwait(t, f, rw)
  PROVE  \E own \in BOOLEAN : Promise!fdwait(t, f, rw, own) /\ UNCHANGED possible
<1> DEFINE dup == \E r \in instance : r.fd = f /\ ~r.own
           reg == [task |-> t, fd |-> f, rw |-> rw, own |-> dup]
<1>1. /\ taskrunning = t /\ at[t] = "run" /\ startfd /\ taskrunning' = NULL
      /\ at' = [at EXCEPT ![t] = "fdwait"]
      /\ wait' = [wait EXCEPT ![t] = reg]
      /\ ~Aborted /\ UNCHANGED <<udata, possible, Aborted>>
  BY DEF fdwait, sleep, Runs, taskswitch, Aborted
<1>9. dup => \E u \in Clients \ {t} : Waited[u] # NULL /\ Waited[u].fd = f
  <2> SUFFICES ASSUME NEW r \in instance, r.fd = f
               PROVE  \E u \in Clients \ {t} : Waited[u] # NULL /\ Waited[u].fd = f
    OBVIOUS
  <2> DEFINE u == r.task
  <2>1. r \in epfd /\ r \in Registrations /\ r # NULL
    BY RegistrationAssumption DEF instance, IInv, TypeOK
  <2>2. u \in Clients /\ at[u] = "fdwait" /\ wait[u] = r
    BY <2>1 DEF Registrations, IInv, Registered
  <2>3. u # t
    BY <2>2, <1>1
  <2> HIDE DEF u
  <2>4. Waited[u] = [fd |-> r.fd, rw |-> r.rw, own |-> r.own]
    BY <2>1, <2>2, SeenBy
  <2>5. Waited[u].fd = f /\ Waited[u] # NULL
    <3>1. Waited[u].fd = f
      BY <2>4
    <3>2. Waited[u] # NULL
      BY <2>1, <2>4, RegistrationAssumption DEF Registrations
    <3> QED BY <3>1, <3>2
  <2> QED BY <2>2, <2>3, <2>5
<1>2. /\ dup \in BOOLEAN /\ reg \in Registrations /\ reg # NULL
      /\ reg.fd = f /\ reg.rw = rw /\ reg.own = dup
  <2>1. dup \in BOOLEAN
    OBVIOUS
  <2> HIDE DEF dup
  <2>2. reg \in Registrations
    BY <2>1 DEF Registrations
  <2> QED BY <2>1, <2>2, RegistrationAssumption
<1> HIDE DEF reg, dup
<1>3. state' = [state EXCEPT ![fdtask] = "ready"] /\ state[t] = "none" /\ t # NULL
  BY <1>1, StartfdKeeps, RunningClient
<1>4. \A u \in Clients : state'[u] = state[u]
  BY <1>3 DEF Clients, IInv, TypeOK, CoreTypeOK
<1>5. StageOf' = [StageOf EXCEPT ![t] = "fdwait"]
  <2>1. (IF "fdwait" # "run" /\ (state'[t] = "ready" \/ taskrunning' = t)
         THEN "woken" ELSE "fdwait") = "fdwait"
    BY <1>1, <1>3, <1>4
  <2> QED BY <2>1, <1>1, <1>4, RunnerChanges
<1>6. Running = t /\ StageOf[t] = "run" /\ Running' = NULL
  BY <1>1, RunnerSeen, NullAssumption DEF Running, Clients
<1>7. Waited' = [Waited EXCEPT ![t] = [fd |-> f, rw |-> rw, own |-> dup]]
  <2>1. \A u \in Clients : u \in Tasks /\ wait'[u] = IF u = t THEN reg ELSE wait[u]
    BY <1>1 DEF Clients, IInv, TypeOK
  <2> QED BY <2>1, <1>2 DEF Waited
<1>8. Told' = Told
  BY <1>1 DEF Told
<1>10. Promise!fdwait(t, f, rw, dup)
  BY <1>1, <1>5, <1>6, <1>7, <1>8, <1>9 DEF Promise!fdwait, Promise!Runs
<1> QED BY <1>1, <1>2, <1>10

LEMMA AbortsSeen ==
  ASSUME IInv, NEW t \in Clients, aborts(t)
  PROVE  Promise!aborts(t) /\ UNCHANGED possible
<1>1. /\ taskrunning = t /\ at[t] = "run" /\ ~Aborted /\ Aborted' = TRUE
      /\ UNCHANGED <<taskrunning, sleeping, at, wait, udata, possible>>
  BY DEF aborts, Runs, Aborted, coreVars, sleepVars
<1>2. Running = t /\ StageOf[t] = "run"
  BY <1>1, RunnerSeen
<1>3. UNCHANGED <<Running, StageOf, Waited, Told>>
  BY <1>1 DEF Running, StageOf, Woken, Waited, Told
<1> QED BY <1>1, <1>2, <1>3 DEF Promise!aborts, Promise!Runs

LEMMA ReturnsSeen ==
  ASSUME IInv, IInv', NEW t \in Clients, Returns(t)
  PROVE  Promise!returns(t) /\ UNCHANGED possible
<1>1. /\ taskrunning = t /\ at[t] # "run" /\ taskrunning' = t /\ state' = state
      /\ at' = [at EXCEPT ![t] = "run"]
      /\ ~Aborted /\ UNCHANGED <<udata, possible, Aborted>>
      /\ \/ wait' = wait /\ at[t] = "delay"
         \/ wait' = [wait EXCEPT ![t] = NULL]
  BY DEF Returns, delayReturns, fdwaitReturns, Runs, coreVars, Aborted
<1>2. \A u \in Clients : u \in Tasks /\ wait'[u] = IF u = t THEN NULL ELSE wait[u]
  BY <1>1 DEF Clients, IInv, TypeOK, PlacesExact
<1>3. Waited' = [Waited EXCEPT ![t] = NULL]
  BY <1>2 DEF Waited
<1>4. StageOf' = [StageOf EXCEPT ![t] = "run"]
  BY <1>1, RunnerChanges
<1>5. Running = t /\ StageOf[t] = "woken"
  BY <1>1, RunnerSeen
<1>6. UNCHANGED <<Running, Told>>
  BY <1>1 DEF Running, Told
<1> QED BY <1>1, <1>3, <1>4, <1>5, <1>6 DEF Promise!returns

LEMMA PausesSeen ==
  ASSUME IInv, IInv', NEW t \in Clients, taskyield(t) \/ taskexit(t)
  PROVE  Promise!pauses(t) /\ UNCHANGED possible
<1>1. /\ taskrunning = t /\ at[t] = "run" /\ taskrunning' = NULL
      /\ ~Aborted /\ UNCHANGED <<at, wait, udata, possible, Aborted>>
      /\ taskready(t) \/ state' = state
  BY DEF taskyield, taskexit, Runs, taskswitch, Aborted
<1>2. \A u \in Clients \ {t} : state'[u] = state[u]
  BY <1>1 DEF taskready, Clients, IInv, TypeOK, CoreTypeOK
<1>3. at' = [at EXCEPT ![t] = "run"]
  BY <1>1 DEF Clients, IInv, TypeOK
<1>4. StageOf' = [StageOf EXCEPT ![t] = "run"]
  <2>1. (IF "run" # "run" /\ (state'[t] = "ready" \/ taskrunning' = t)
         THEN "woken" ELSE "run") = "run"
    OBVIOUS
  <2> QED BY <2>1, <1>1, <1>2, <1>3, RunnerChanges
<1>5. Running = t /\ StageOf[t] = "run" /\ Running' = NULL
  BY <1>1, RunnerSeen, NullAssumption DEF Running, Clients
<1>6. StageOf' = StageOf
  BY <1>4, <1>5 DEF StageOf
<1>7. UNCHANGED <<Waited, Told>>
  BY <1>1 DEF Waited, Told
<1> QED BY <1>1, <1>5, <1>6, <1>7 DEF Promise!pauses, Promise!Runs

LEMMA TaskdataSeen ==
  ASSUME IInv, IInv', NEW t \in Clients, NEW data \in Data, taskdata(t, data)
  PROVE  Promise!taskdata(t, data) /\ UNCHANGED possible
<1>1. /\ taskrunning = t /\ at[t] = "run" /\ taskrunning' = taskrunning
      /\ udata' = [udata EXCEPT ![t] = data]
      /\ ~Aborted /\ UNCHANGED <<state, sleeping, at, wait, possible, Aborted>>
  BY DEF taskdata, Runs, coreVars, sleepVars, Aborted
<1>2. Running = t /\ StageOf[t] = "run"
  BY <1>1, RunnerSeen
<1>3. Told' = [Told EXCEPT ![t] = data]
  BY <1>1 DEF Told, Clients, IInv, TypeOK
<1>4. UNCHANGED <<Running, StageOf, Waited>>
  BY <1>1 DEF Running, StageOf, Woken, Waited
<1> QED BY <1>1, <1>2, <1>3, <1>4 DEF Promise!taskdata, Promise!Runs

LEMMA DispatchSeen ==
  ASSUME IInv, IInv', dispatch
  PROVE  \/ \E t \in Clients : Promise!dispatch(t) /\ UNCHANGED possible
         \/ UNCHANGED <<Running, StageOf, Waited, Told, Aborted, possible>>
<1> DEFINE t == Head(taskrunqueue)
<1>1. /\ taskrunning = NULL /\ taskrunqueue # << >>
      /\ state' = [state EXCEPT ![t] = "none"] /\ taskrunning' = t
      /\ ~Aborted /\ UNCHANGED <<sleeping, at, wait, udata, possible, Aborted>>
  BY DEF dispatch, schedule, sleepVars, Aborted
<1>2. t \in Tasks /\ state[t] = "ready" /\ NULL \notin Clients
  BY <1>1, TailList, NullAssumption DEF IInv, TypeOK, CoreTypeOK, RunqueueExact, Clients
<1> HIDE DEF t
<1>3. UNCHANGED <<StageOf, Waited, Told>>
  BY <1>1 DEF StageOf, Woken, Waited, Told
<1>4. Running = NULL
  BY <1>1, <1>2 DEF Running
<1>5. CASE t \in Clients
  <2>1. Woken(t) <=> at[t] # "run"
    BY <1>2, <1>5, WokenNow DEF WokenExact
  <2>2. StageOf[t] \in {"run", "woken"}
    BY <1>5, <2>1, SeenBy
  <2>3. Running' = t
    BY <1>1, <1>5 DEF Running
  <2> QED BY <1>1, <1>3, <1>4, <1>5, <2>2, <2>3 DEF Promise!dispatch
<1>6. CASE t \notin Clients
  <2>1. Running' = NULL
    BY <1>1, <1>6 DEF Running
  <2> QED BY <1>1, <1>3, <1>4, <2>1
<1> QED BY <1>5, <1>6

\* Whom fdtask takes off the list, and what it tells them.
LEMMA Marks ==
  ASSUME IInv, NEW ts \in Events, NEW stop \in BOOLEAN, fdtaskWakes(ts, stop)
  PROVE  \E W \in SUBSET Clients :
           /\ W \subseteq Range(sleeping)
           /\ Range(sleeping') = Range(sleeping) \ W
           /\ \A t \in Clients \ W : udata'[t] = udata[t]
           /\ \A t \in W : \/ udata'[t] = "NULL" /\ t \in Range(ts)
                           \/ udata'[t] = "LIBTASK_TIMEOUT" /\ t \notin Range(ts)
                           \/ udata'[t] = "EIO" /\ stop
<1>1. Polling
  BY DEF fdtaskWakes, Polling
<1> DEFINE rest == unexpected(ts)
           k == overdue(rest)
           n == IF stop THEN Len(rest) ELSE k
           a == SubSeq(rest, 1, k)
           b == SubSeq(rest, k + 1, n)
           first == SubSeq(rest, 1, n)
           woken == ts \o first
           left == SubSeq(rest, n + 1, Len(rest))
<1>2. /\ k \in Nat /\ k <= n /\ n \in Nat /\ n <= Len(rest) /\ Len(rest) \in Nat
      /\ rest \in Seq(Clients)
      /\ Range(rest) = Range(sleeping) \ Range(ts)
      /\ woken \in Seq(Clients)
      /\ Range(woken) = Range(ts) \cup Range(first)
      /\ Range(woken) \subseteq Range(sleeping)
      /\ Range(left) = Range(sleeping) \ Range(woken)
  BY <1>1, WokenLists
<1>3. /\ sleeping' = left
      /\ udata' = [t \in Tasks |-> IF t \in Range(a) THEN "LIBTASK_TIMEOUT"
                                   ELSE IF t \in Range(b) THEN "EIO"
                                   ELSE IF t \in Range(ts) THEN "NULL" ELSE udata[t]]
  BY DEF fdtaskWakes
<1>4. n = IF stop THEN Len(rest) ELSE k
  OBVIOUS
<1> HIDE DEF rest, k, n
<1>5. \A t : t \in Range(rest) => t \notin Range(ts)
  BY <1>2
<1>6. /\ Len(a) = k /\ DOMAIN a = 1 .. k /\ \A i \in 1 .. k : a[i] = rest[i]
      /\ Range(a) \subseteq Range(rest)
  <2>1. /\ k \in 0 .. Len(rest)
        /\ DOMAIN rest = 1 .. Len(rest)
    BY <1>2
  <2>2. /\ a \in Seq(Clients) /\ Len(a) = k /\ \A i \in 1 .. k : a[i] = rest[i]
        /\ Range(rest) = Range(a) \cup Range(SubSeq(rest, k + 1, Len(rest)))
    BY <2>1, <1>2, Slices
  <2> HIDE DEF a
  <2> QED BY <2>2
<1>7. /\ Len(first) = n /\ DOMAIN first = 1 .. n /\ \A i \in 1 .. n : first[i] = rest[i]
  <2>1. n \in 0 .. Len(rest)
    BY <1>2
  <2>2. /\ first \in Seq(Clients) /\ Len(first) = n /\ \A i \in 1 .. n : first[i] = rest[i]
    BY <2>1, <1>2, Slices
  <2> HIDE DEF first
  <2> QED BY <2>2
<1>8. DOMAIN b = 1 .. n - k /\ \A i \in 1 .. n - k : b[i] = rest[k + i]
  <2>1. \A i \in k + 1 .. n : rest[i] \in Clients
    BY <1>2
  <2>2. /\ b \in Seq(Clients)
        /\ Len(b) = IF k + 1 <= n THEN n - (k + 1) + 1 ELSE 0
        /\ \A i \in 1 .. n - (k + 1) + 1 : b[i] = rest[(k + 1) + i - 1]
    BY <2>1, <1>2, SubSeqProperties
  <2> HIDE DEF b
  <2>3. Len(b) = n - k /\ DOMAIN b = 1 .. Len(b)
    BY <2>2, <1>2
  <2>4. ASSUME NEW i \in 1 .. n - k PROVE b[i] = rest[k + i]
    <3>1. i \in 1 .. n - (k + 1) + 1 /\ (k + 1) + i - 1 = k + i
      BY <1>2
    <3> QED BY <3>1, <2>2
  <2> QED BY <2>3, <2>4
<1> HIDE DEF a, b, first, woken, left
<1>9. Range(first) \subseteq Range(a) \cup Range(b)
  <2> SUFFICES ASSUME NEW i \in 1 .. n PROVE first[i] \in Range(a) \cup Range(b)
    BY <1>7 DEF Range
  <2>1. CASE i <= k
    <3>1. i \in 1 .. k
      BY <2>1, <1>2
    <3> QED BY <3>1, <1>6, <1>7 DEF Range
  <2>2. CASE i > k
    <3>1. i - k \in 1 .. n - k /\ k + (i - k) = i
      BY <2>2, <1>2
    <3> QED BY <3>1, <1>7, <1>8 DEF Range
  <2> QED BY <2>1, <2>2, <1>2
<1>10. ASSUME NEW t \in Range(b) PROVE stop /\ t \in Range(first)
  <2>1. PICK i \in 1 .. n - k : b[i] = t
    BY <1>8 DEF Range
  <2>2. k + i \in 1 .. n /\ n # k
    BY <2>1, <1>2
  <2> QED BY <2>1, <2>2, <1>4, <1>7, <1>8 DEF Range
<1>11. Range(a) \subseteq Range(first)
  <2>1. \A i \in 1 .. k : i \in 1 .. n
    BY <1>2
  <2> QED BY <2>1, <1>6, <1>7 DEF Range
<1> DEFINE W == Range(woken)
<1>12. W \in SUBSET Clients /\ W \subseteq Range(sleeping) /\ Range(sleeping') = Range(sleeping) \ W
  BY <1>2, <1>3, RangeOfSeq
<1>13. \A t \in Clients \ W : udata'[t] = udata[t]
  BY <1>2, <1>3, <1>10, <1>11 DEF Clients
<1>14. ASSUME NEW t \in W
       PROVE  \/ udata'[t] = "NULL" /\ t \in Range(ts)
              \/ udata'[t] = "LIBTASK_TIMEOUT" /\ t \notin Range(ts)
              \/ udata'[t] = "EIO" /\ stop
  <2>1. t \in Tasks
    BY <1>12 DEF Clients
  <2>2. CASE t \in Range(a)
    BY <2>1, <2>2, <1>3, <1>5, <1>6
  <2>3. CASE t \notin Range(a) /\ t \in Range(b)
    BY <2>1, <2>3, <1>3, <1>10
  <2>4. CASE t \notin Range(a) /\ t \notin Range(b)
    <3>1. t \in Range(ts)
      BY <2>4, <1>2, <1>9
    <3> QED BY <3>1, <2>1, <2>4, <1>3
  <2> QED BY <2>2, <2>3, <2>4
<1> QED BY <1>12, <1>13, <1>14

\* The events are all there are, or as many as one epoll_wait can return.
LEMMA EventsAll ==
  ASSUME IInv, NEW ts \in Events
  PROVE  \/ \A r \in Ready : r.task \in Range(ts)
         \/ Cardinality(Range(ts)) = MaxEvents
<1>1. PICK S \in SUBSET Ready :
        /\ ts \in [1 .. Cardinality(S) -> {r.task : r \in S}] /\ IsInjective(ts)
        /\ Cardinality(S) = MaxEvents \/ S = Ready
  BY DEF Events
<1> DEFINE n == Cardinality(S)
           T == {r.task : r \in S}
           f == [r \in S |-> r.task]
<1>2. IsFiniteSet(S) /\ n \in Nat
  <2>1. S \in SUBSET epfd /\ IsFiniteSet(epfd)
    BY DEF Ready, IInv, Registered
  <2> QED BY <2>1, FS_Subset, FS_CardinalityType
<1>3. IsFiniteSet(T) /\ Cardinality(T) <= n
  <2>1. f \in Surjection(S, T)
    BY DEF Surjection
  <2> HIDE DEF f, T
  <2> QED BY <2>1, <1>2, FS_Surjection
<1>4. IsFiniteSet(1 .. n) /\ Cardinality(1 .. n) = n
  <2> HIDE DEF n
  <2> QED BY <1>2, FS_Interval
<1>5. ts \in Injection(1 .. n, T)
  BY <1>1 DEF Injection, IsInjective
<1>6. \A r \in S : r.task \in T
  OBVIOUS
<1>7. ts \in Surjection(1 .. n, T) /\ Cardinality(T) = n
  <2>1. Cardinality(T) \in Nat
    <3> HIDE DEF T
    <3> QED BY <1>3, FS_CardinalityType
  <2> HIDE DEF n, T
  <2>2. /\ Cardinality(1 .. n) <= Cardinality(T)
        /\ Cardinality(1 .. n) = Cardinality(T) <=> ts \in Surjection(1 .. n, T)
    BY <1>3, <1>5, FS_Injection
  <2> QED BY <2>1, <2>2, <1>2, <1>3, <1>4
<1>8. Range(ts) = T
  <2> HIDE DEF T, n
  <2> QED BY <1>7 DEF Surjection, Range
<1> HIDE DEF T
<1> QED BY <1>1, <1>6, <1>7, <1>8

\* An event that epoll can report is one that FdWait's client waits for.
LEMMA ReadyHappens ==
  ASSUME IInv, Polling, NEW r \in Ready
  PROVE  r.task \in Clients /\ Promise!happens(r.task)
<1> DEFINE t == r.task
<1>1. r \in epfd /\ possible[r.fd] \cap {r.rw, "e"} # {} /\ r \in Registrations
  BY DEF Ready, IInv, TypeOK
<1>2. t \in Clients /\ t \in Range(sleeping) /\ at[t] = "fdwait" /\ wait[t] = r /\ r # NULL
  BY <1>1, WatchersAsleep, RegistrationAssumption DEF IInv, Registered, Registrations
<1> HIDE DEF t
<1>3. StageOf[t] = "fdwait"
  BY <1>2, SeenBy DEF Woken
<1>4. Waited[t] = [fd |-> r.fd, rw |-> r.rw, own |-> r.own]
  BY <1>2, SeenBy
<1>5. Waited[t].fd = r.fd /\ Waited[t].rw = r.rw
  BY <1>4
<1>6. Promise!happens(t)
  BY <1>1, <1>3, <1>5 DEF Promise!happens
<1> QED BY <1>2, <1>6 DEF t

\* While everyone in fdwait is registered, epoll can report it in turn.
LEMMA HappensReady ==
  ASSUME IInv, Watched, NEW t \in Clients, Promise!happens(t),
         Waited[t].fd \notin Refused
  PROVE  wait[t] \in Ready /\ wait[t].task = t
<1>1. StageOf[t] = "fdwait" /\ possible[Waited[t].fd] \cap {Waited[t].rw, "e"} # {}
  BY DEF Promise!happens
<1>2. at[t] = "fdwait"
  BY <1>1, SeenBy
<1>3. wait[t] # NULL /\ wait[t].task = t
  BY <1>2 DEF IInv, PlacesExact
<1>4. Waited[t] = [fd |-> wait[t].fd, rw |-> wait[t].rw, own |-> wait[t].own]
  BY <1>3, SeenBy
<1>5. Waited[t].fd = wait[t].fd /\ Waited[t].rw = wait[t].rw
  BY <1>4
<1>6. wait[t] \in epfd
  BY <1>2, <1>5 DEF Watched
<1> QED BY <1>1, <1>3, <1>5, <1>6 DEF Ready

\* Each task fdtask wakes is told a reason that holds.
LEMMA ReasonHolds ==
  ASSUME IInv, ~Callback => Watched, NEW ts \in Events, NEW stop \in BOOLEAN,
         fdtaskWakes(ts, stop), NEW t \in Clients, NEW reason,
         \/ reason = "NULL" /\ t \in Range(ts)
         \/ reason = "LIBTASK_TIMEOUT" /\ t \notin Range(ts)
         \/ reason = "EIO" /\ stop
  PROVE  reason \in Promise!Reasons /\ Promise!due(t, reason)
<1>1. Polling /\ (stop => v)
  BY DEF fdtaskWakes, Polling
<1>2. Callback \in BOOLEAN
  BY FdAssumption
<1>3. CASE reason = "NULL" /\ t \in Range(ts)
  <2>1. PICK r \in Ready : r.task = t
    BY <1>1, <1>3, EventsAsleep
  <2>2. Promise!happens(t)
    BY <2>1, <1>1, ReadyHappens
  <2> QED BY <2>2, <1>3 DEF Promise!Reasons, Promise!due
<1>4. CASE reason = "LIBTASK_TIMEOUT" /\ t \notin Range(ts)
  <2>1. ASSUME Promise!happens(t), ~Callback, Waited[t].fd \notin Refused
        PROVE  Cardinality(Promise!Happening) > MaxEvents
    <3>1. wait[t] \in Ready /\ wait[t].task = t
      BY <2>1, HappensReady
    <3>2. Cardinality(Range(ts)) = MaxEvents
      BY <3>1, <1>4, EventsAll
    <3>3. Range(ts) \cup {t} \subseteq Promise!Happening
      <4>1. ASSUME NEW u \in Range(ts) PROVE u \in Promise!Happening
        <5>1. PICK r \in Ready : r.task = u
          BY <1>1, EventsAsleep
        <5> QED BY <5>1, <1>1, ReadyHappens DEF Promise!Happening
      <4>2. t \in Promise!Happening
        BY <2>1 DEF Promise!Happening
      <4> QED BY <4>1, <4>2
    <3>4. Promise!Happening \in SUBSET Tasks
      BY DEF Promise!Happening, Clients
    <3>5. IsFiniteSet(Promise!Happening) /\ Cardinality(Promise!Happening) \in Nat
      BY <3>4, Finite
    <3>6. IsFiniteSet(Range(ts))
      BY <3>3, <3>5, FS_Subset
    <3>7. Cardinality(Range(ts) \cup {t}) = Cardinality(Range(ts)) + 1
      BY <3>6, <1>4, FS_AddElement
    <3>8. Cardinality(Range(ts) \cup {t}) <= Cardinality(Promise!Happening)
      BY <3>3, <3>5, FS_Subset
    <3>9. MaxEvents \in Nat
      BY FdAssumption
    <3> QED BY <3>2, <3>5, <3>7, <3>8, <3>9
  <2>2. Promise!happens(t) => \/ Callback \/ Waited[t].fd \in Refused
                              \/ Cardinality(Promise!Happening) > MaxEvents
    BY <2>1, Zenon
  <2>3. Cardinality(Promise!Happening) = Promise!Cardinality(Promise!Happening)
    BY DEF Cardinality, Promise!Cardinality
  <2>4. Promise!due(t, "LIBTASK_TIMEOUT")
    BY <2>2, <2>3 DEF Promise!due
  <2> QED BY <2>4, <1>4 DEF Promise!Reasons
<1>5. CASE reason = "EIO" /\ stop
  BY <1>1, <1>5 DEF IInv, CallbackGiven, Promise!Reasons, Promise!due
<1> QED BY <1>3, <1>4, <1>5

LEMMA WakesSeen ==
  ASSUME IInv, IInv', ~Callback => Watched, NEW ts \in Events, NEW stop \in BOOLEAN,
         fdtaskWakes(ts, stop)
  PROVE  Promise!Wakes /\ UNCHANGED possible
<1>1. /\ Polling /\ taskrunning = fdtask /\ taskrunning' = NULL
      /\ at' = [at EXCEPT ![fdtask] = "yield"]
      /\ ~Aborted /\ UNCHANGED <<wait, possible, Aborted>>
  BY FdAssumption DEF fdtaskWakes, Polling, Runs, taskswitch, Aborted
<1>2. PICK W \in SUBSET Clients :
        /\ W \subseteq Range(sleeping)
        /\ Range(sleeping') = Range(sleeping) \ W
        /\ \A t \in Clients \ W : udata'[t] = udata[t]
        /\ \A t \in W : \/ udata'[t] = "NULL" /\ t \in Range(ts)
                        \/ udata'[t] = "LIBTASK_TIMEOUT" /\ t \notin Range(ts)
                        \/ udata'[t] = "EIO" /\ stop
  BY Marks
<1> DEFINE why == [t \in W |-> udata'[t]]
<1>3. \A t \in W : udata'[t] \in Promise!Reasons /\ Promise!due(t, udata'[t])
  BY <1>2, ReasonHolds
<1>4. why \in [W -> Promise!Reasons] /\ DOMAIN why = W
  BY <1>3
<1>5. \A t \in W : at[t] \in {"delay", "fdwait"} /\ StageOf[t] = at[t]
  BY <1>2, SeenBy DEF IInv, SleepersExact, PlacesExact, Woken
<1>6. Running = NULL /\ Running' = NULL
  BY <1>1, NullAssumption DEF Running, Clients
<1>7. StageOf' = [t \in Clients |-> IF t \in DOMAIN why THEN "woken" ELSE StageOf[t]]
  <2>1. \A u \in Clients : at'[u] = at[u]
    BY <1>1 DEF Clients, IInv, TypeOK
  <2>2. \A u \in Clients : Woken(u)' <=> u \in W \/ Woken(u)
    BY <2>1, <1>2, <1>5 DEF Woken
  <2> HIDE DEF why
  <2>3. \A u \in Clients : (IF Woken(u)' THEN "woken" ELSE at'[u])
                             = IF u \in DOMAIN why THEN "woken" ELSE StageOf[u]
    BY <2>1, <2>2, <1>4, SeenBy
  <2> QED BY <2>3 DEF StageOf
<1>8. Told' = [t \in Clients |-> IF t \in DOMAIN why THEN why[t] ELSE Told[t]]
  BY <1>2 DEF Told
<1>9. Waited' = Waited
  BY <1>1 DEF Waited
<1>10. \A t \in DOMAIN why : StageOf[t] \in {"delay", "fdwait"} /\ Promise!due(t, why[t])
  BY <1>3, <1>5
<1> HIDE DEF why
<1>11. Promise!wakes(why)
  BY <1>1, <1>6, <1>7, <1>8, <1>9, <1>10 DEF Promise!wakes
<1> QED BY <1>1, <1>4, <1>11 DEF Promise!Wakes

\* What is possible on a descriptor changes for every client at once.
LEMMA PossibleSeen ==
  ASSUME IInv, NEW f \in Fds, NEW what \in SUBSET {"r", "w", "e"},
         what = {} => taskrunning \in Clients,
         possible' = [possible EXCEPT ![f] = what],
         UNCHANGED <<taskrunning, sleeping, at, wait, udata, phase>>
  PROVE  Promise!Next
<1>1. UNCHANGED <<Running, StageOf, Waited, Told, Aborted>>
  BY DEF Running, StageOf, Woken, Waited, Told, Aborted
<1>2. what = {} => Running # NULL
  BY NullAssumption DEF Running, Clients
<1>3. /\ possible' \in [Fds -> SUBSET {"r", "w", "e"}]
      /\ \A g \in Fds : g # f => possible'[g] = possible[g]
      /\ possible'[f] = what
  BY DEF IInv, TypeOK
<1>4. Promise!Changes
  BY <1>2, <1>3 DEF Promise!Changes
<1> QED BY <1>1, <1>4 DEF Promise!Next, Promise!taskVars

LEMMA TaskSeen ==
  ASSUME IInv, NEW t \in Clients, Promise!TaskStep(t), UNCHANGED possible
  PROVE  Promise!Next
<1>1. Promise!Changes
  BY DEF Promise!Changes, IInv, TypeOK
<1> QED BY <1>1 DEF Promise!Next

LEMMA InitSeen == Init => Promise!Init
<1> SUFFICES ASSUME Init PROVE Promise!Init
  OBVIOUS
<1>1. /\ taskrunning = NULL /\ sleeping = << >>
      /\ \A t \in Clients : at[t] = "run" /\ wait[t] = NULL /\ udata[t] = "NULL"
      /\ possible = [f \in Fds |-> {}] /\ Aborted = FALSE
  BY DEF Init, Clients, Aborted
<1>2. Running = NULL
  BY <1>1, NullAssumption DEF Running, Clients
<1>3. StageOf = [t \in Clients |-> "run"]
  BY <1>1 DEF StageOf, Woken
<1>4. Waited = [t \in Clients |-> NULL]
  BY <1>1 DEF Waited
<1>5. Told = [t \in Clients |-> "NULL"]
  BY <1>1 DEF Told
<1> QED BY <1>1, <1>2, <1>3, <1>4, <1>5 DEF Promise!Init, Promise!WaitInit

\* Every step of the clients, the fd task, the scheduler and the world is a
\* step of FdWait, or one its clients do not see.
LEMMA StepSeen ==
  ASSUME IInv, IInv', ~Callback => Watched, [Next]_vars
  PROVE  Promise!Next \/ UNCHANGED <<Running, StageOf, Waited, Told, Aborted, possible>>
<1> USE DEF sleepVars, poolVars, coreVars
<1>1. CASE UNCHANGED vars
  BY <1>1 DEF vars, Running, StageOf, Woken, Waited, Told, Aborted
<1>2. ASSUME NEW t \in Clients, GivesUp(t) \/ Returns(t)
      PROVE  Promise!Next
  <2>1. ASSUME Promise!TaskStep(t), UNCHANGED possible PROVE Promise!Next
    BY <2>1, TaskSeen
  <2>2. ASSUME NEW d \in Delays, taskdelay(t, d) PROVE Promise!Next
    BY <2>1, <2>2, TaskdelaySeen DEF Promise!TaskStep
  <2>3. ASSUME NEW f \in Fds, NEW rw \in RW, fdwait(t, f, rw) PROVE Promise!Next
    BY <2>1, <2>3, FdwaitSeen DEF Promise!TaskStep
  <2>4. CASE taskyield(t) \/ taskexit(t)
    BY <2>1, <2>4, PausesSeen DEF Promise!TaskStep
  <2>5. CASE Returns(t)
    BY <2>1, <2>5, ReturnsSeen DEF Promise!TaskStep
  <2> QED BY <1>2, <2>2, <2>3, <2>4, <2>5 DEF GivesUp
<1>3. ASSUME NEW t \in Clients, NEW data \in Data, taskdata(t, data) PROVE Promise!Next
  <2>1. Promise!taskdata(t, data) /\ UNCHANGED possible
    BY <1>3, TaskdataSeen
  <2> QED BY <2>1, TaskSeen DEF Promise!TaskStep
<1>4. ASSUME NEW t \in Clients, NEW f \in Fds, consume(t, f) PROVE Promise!Next
  <2>1. /\ possible' = [possible EXCEPT ![f] = {}] /\ taskrunning \in Clients
        /\ UNCHANGED <<taskrunning, sleeping, at, wait, udata, phase>>
    BY <1>4 DEF consume, Runs
  <2>2. {} \in SUBSET {"r", "w", "e"}
    OBVIOUS
  <2> QED BY <2>1, <2>2, PossibleSeen
<1>5. ASSUME NEW f \in Fds, NEW what \in RW \cup {"e"}, arrive(f, what) PROVE Promise!Next
  <2>1. /\ possible' = [possible EXCEPT ![f] = possible[f] \cup {what}]
        /\ UNCHANGED <<taskrunning, sleeping, at, wait, udata, phase>>
    BY <1>5 DEF arrive
  <2>2. /\ possible[f] \cup {what} \in SUBSET {"r", "w", "e"}
        /\ possible[f] \cup {what} # {}
    BY FdAssumption DEF IInv, TypeOK
  <2> QED BY <2>1, <2>2, PossibleSeen
<1>6. ASSUME NEW t \in Clients, NEW fn \in BOOLEAN, startfdtask(t, fn)
      PROVE  UNCHANGED <<Running, StageOf, Waited, Told, Aborted, possible>>
  <2>1. /\ taskrunning = t /\ startfd
        /\ UNCHANGED <<taskrunning, at, wait, udata, possible, phase>>
    BY <1>6 DEF startfdtask, Runs
  <2>2. state' = [state EXCEPT ![fdtask] = "ready"]
    BY <2>1, StartfdKeeps
  <2>3. \A u \in Clients : state'[u] = state[u]
    BY <2>2 DEF Clients, IInv, TypeOK, CoreTypeOK
  <2>4. /\ wait' = wait
        /\ \A u \in Clients : udata'[u] = udata[u] /\ at'[u] = at[u]
        /\ taskrunning' = taskrunning /\ Aborted' = Aborted
    BY <2>1 DEF Aborted
  <2>5. UNCHANGED <<Running, StageOf, Waited, Told, Aborted>>
    BY <2>3, <2>4, SeenStutters
  <2> QED BY <2>1, <2>5
<1>7. ASSUME fdtaskYields \/ fdtaskPolls \/ fdtaskInterrupted \/ fdtaskFails
      PROVE  UNCHANGED <<Running, StageOf, Waited, Told, Aborted, possible>>
  <2>1. /\ UNCHANGED <<wait, udata, possible>>
        /\ at' = at \/ \E p \in Places : at' = [at EXCEPT ![fdtask] = p]
        /\ state' = state \/ taskready(fdtask)
        /\ taskrunning = fdtask /\ taskrunning' \in {NULL, fdtask}
        /\ Aborted' = Aborted
    BY <1>7 DEF fdtaskYields, fdtaskPolls, fdtaskInterrupted, fdtaskFails, yields,
                taskswitch, Runs, Places, Aborted
  <2>2. \A u \in Clients : at'[u] = at[u] /\ state'[u] = state[u]
    BY <2>1 DEF taskready, Clients, IInv, TypeOK, CoreTypeOK
  <2>3. taskrunning \notin Clients /\ taskrunning' \notin Clients
    BY <2>1, NullAssumption DEF Clients
  <2> QED BY <2>1, <2>2, <2>3, SeenStutters
<1>8. ASSUME NEW ts \in Events, NEW stop \in BOOLEAN, fdtaskWakes(ts, stop)
      PROVE  Promise!Next
  BY <1>8, WakesSeen DEF Promise!Next
<1>9. ASSUME dispatch
      PROVE  Promise!Next \/ UNCHANGED <<Running, StageOf, Waited, Told, Aborted, possible>>
  BY <1>9, DispatchSeen, TaskSeen DEF Promise!TaskStep
<1>10. ASSUME schedulerReturns \/ tick
       PROVE  UNCHANGED <<Running, StageOf, Waited, Told, Aborted, possible>>
  BY <1>10 DEF schedulerReturns, tick, Running, StageOf, Woken, Waited, Told, Aborted
<1>11. CASE terminated
  BY <1>1, <1>11 DEF terminated
<1>12. ASSUME NEW t \in Clients, startfdAborts(t) \/ fdwaitAborts(t)
       PROVE  Promise!Next
  <2>1. Promise!aborts(t) /\ UNCHANGED possible
    BY <1>12, AbortsSeen DEF startfdAborts, fdwaitAborts
  <2> QED BY <2>1, TaskSeen DEF Promise!TaskStep
<1> QED
  <2>1. CASE Next
    BY <2>1, <1>2, <1>3, <1>4, <1>5, <1>6, <1>7, <1>8, <1>9, <1>10, <1>11, <1>12
       DEF Next, FdTaskStep, Environment
  <2> QED BY <2>1, <1>1

\* fd.c implements FdWait, however the kernel refuses what it asks for: a task
\* is woken for the reason it is told and for no other (a timeout may be false
\* only of a descriptor that may be refused, or with a callback, or with more
\* events than one epoll_wait returns), and runs only after it was woken.
THEOREM Refines == Spec => FdWaitPromised
<1>1. IInv /\ (~Callback => Watched) /\ [Next]_vars => (~Callback => Watched)'
  <2>1. Callback \in BOOLEAN
    BY FdAssumption
  <2> QED BY <2>1, StepWatched
<1>2. IInv /\ IInv' /\ (~Callback => Watched) /\ [Next]_vars
        => [Promise!Next]_<<<<Running, StageOf, Waited, Told, Aborted>>, possible>>
  BY StepSeen
<1>3. Init => (~Callback => Watched)
  BY InitWatched
<1> QED BY <1>1, <1>2, <1>3, InitSeen, Invariance, PTL
        DEF Spec, FdWaitPromised, Promise!FdWaitSpec, Promise!waitVars, Promise!taskVars

=============================================================================
