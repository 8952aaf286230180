---------------------------- MODULE WrapIOProofs ----------------------------
(***************************************************************************)
(* __wrap_read, __wrap_write and read1 lose no byte and return what is so, *)
(* for any number of tasks, descriptors and bytes, and keep to FdWait.     *)
(***************************************************************************)
EXTENDS WrapIO, FiniteSetTheorems, TLAPS

Sockets == [in : Nat, coming : Nat, room : Nat, going : Nat,
            state : {"open", "reset", "dead"}]

TypesOK ==
  /\ W!TasksOK
  /\ sock \in [Fds -> Sockets]
  /\ call \in [Tasks -> Calls \cup {NULL}]
  /\ told \in [Fds -> [read : Nat, written : Nat]]
  /\ outcome = [t \in Tasks |-> outcome[t]]

\* A call that comes back from its own wait finds in udata what that wait ended
\* with: nothing of an earlier call is left there, and only fdtask writes it.
ReasonKept ==
  \A t \in Tasks :
    /\ call[t] # NULL /\ call[t].op # "read1" /\ call[t].next = "look"
    /\ stage[t] = "run" /\ ~aborted
    => call[t].reason = udata[t]

\* The inductive invariant.  NothingLost is kept by itself, OutcomesTrue only
\* with ReasonKept.
IInv == TypesOK /\ ReasonKept /\ NothingLost /\ OutcomesTrue

-----------------------------------------------------------------------------

\* How Underway changes with one call.

\* What each task has written on f in a call in progress.
Sent(f) == [t \in Tasks |->
  IF call[t] # NULL /\ call[t].op = "write" /\ call[t].fd = f THEN call[t].tot ELSE 0]

\* As many elements as the numbers in g add up to.
Bytes(g) == UNION {{t} \X (1 .. g[t]) : t \in Tasks}

LEMMA IntervalSize ==
  ASSUME NEW n \in Nat
  PROVE  IsFiniteSet(1 .. n) /\ Cardinality(1 .. n) = n
<1>1. IsFiniteSet(1 .. n)
      /\ Cardinality(1 .. n) = IF 1 > n THEN 0 ELSE n - 1 + 1
  BY FS_Interval
<1> QED BY <1>1

LEMMA RowSize ==
  ASSUME NEW t, NEW n \in Nat
  PROVE  IsFiniteSet({t} \X (1 .. n)) /\ Cardinality({t} \X (1 .. n)) = n
<1>1. IsFiniteSet({t}) /\ Cardinality({t}) = 1
  BY FS_Singleton
<1>2. IsFiniteSet(1 .. n) /\ Cardinality(1 .. n) = n
  BY IntervalSize
<1>3. IsFiniteSet({t} \X (1 .. n))
      /\ Cardinality({t} \X (1 .. n)) = Cardinality({t}) * Cardinality(1 .. n)
  BY <1>1, <1>2, FS_Product
<1> QED BY <1>1, <1>2, <1>3

LEMMA BytesFinite ==
  ASSUME NEW g \in [Tasks -> Nat], NEW U \in SUBSET Tasks
  PROVE  LET rows == UNION {{t} \X (1 .. g[t]) : t \in U}
         IN  IsFiniteSet(rows) /\ Cardinality(rows) \in Nat
<1> DEFINE rows == {{t} \X (1 .. g[t]) : t \in U}
<1>1. IsFiniteSet(U)
  BY WrapAssumption, FS_Subset
<1>2. IsFiniteSet(rows)
  <2> DEFINE rowOf == [t \in U |-> {t} \X (1 .. g[t])]
  <2>1. rowOf \in Surjection(U, rows)
    BY DEF Surjection
  <2> QED BY <1>1, <2>1, FS_Surjection
<1>3. \A row \in rows : IsFiniteSet(row)
  <2>1. ASSUME NEW t \in U PROVE IsFiniteSet({t} \X (1 .. g[t]))
    <3>1. g[t] \in Nat
      OBVIOUS
    <3> QED BY <3>1, RowSize
  <2> QED BY <2>1
<1> HIDE DEF rows
<1>4. IsFiniteSet(UNION rows)
  BY <1>2, <1>3, FS_UNION
<1>5. Cardinality(UNION rows) \in Nat
  BY <1>4, FS_CardinalityType
<1> QED BY <1>4, <1>5 DEF rows

\* One number apart, two sums differ by the difference of that number.
LEMMA BytesMoved ==
  ASSUME NEW g \in [Tasks -> Nat], NEW h \in [Tasks -> Nat], NEW t \in Tasks,
         \A u \in Tasks \ {t} : h[u] = g[u]
  PROVE  Cardinality(Bytes(h)) + g[t] = Cardinality(Bytes(g)) + h[t]
<1> DEFINE rest(k) == UNION {{u} \X (1 .. k[u]) : u \in Tasks \ {t}}
<1>1. ASSUME NEW k \in [Tasks -> Nat]
      PROVE  Cardinality(rest(k)) \in Nat
             /\ Cardinality(Bytes(k)) = k[t] + Cardinality(rest(k))
  <2> DEFINE row == {t} \X (1 .. k[t])
  <2>1. IsFiniteSet(row) /\ Cardinality(row) = k[t]
    BY RowSize
  <2>2. IsFiniteSet(rest(k)) /\ Cardinality(rest(k)) \in Nat
    BY BytesFinite
  <2>3. row \cup rest(k) = Bytes(k)
    BY DEF Bytes
  <2>4. row \cap rest(k) = {}
    OBVIOUS
  <2> HIDE DEF row, rest
  <2>5. Cardinality(row \cup rest(k))
          = Cardinality(row) + Cardinality(rest(k)) - Cardinality(row \cap rest(k))
    BY <2>1, <2>2, FS_Union
  <2>6. Cardinality(row \cap rest(k)) = 0
    BY <2>4, FS_EmptySet
  <2>7. k[t] \in Nat
    OBVIOUS
  <2>8. Cardinality(Bytes(k)) = k[t] + Cardinality(rest(k)) - 0
    BY <2>1, <2>3, <2>5, <2>6
  <2> QED BY <2>2, <2>7, <2>8
<1>2. rest(g) = rest(h)
  OBVIOUS
<1> HIDE DEF rest
<1>3. Cardinality(rest(g)) \in Nat
      /\ Cardinality(Bytes(g)) = g[t] + Cardinality(rest(g))
      /\ Cardinality(Bytes(h)) = h[t] + Cardinality(rest(g))
  BY <1>1, <1>2
<1>4. g[t] \in Nat /\ h[t] \in Nat
  OBVIOUS
<1> QED BY <1>3, <1>4

LEMMA UnderwayIsBytes == \A f \in Fds : Underway(f) = Cardinality(Bytes(Sent(f)))
<1> SUFFICES ASSUME NEW f \in Fds PROVE Underway(f) = Cardinality(Bytes(Sent(f)))
  OBVIOUS
<1> DEFINE writers == {t \in Tasks : call[t] # NULL /\ call[t].op = "write" /\ call[t].fd = f}
           rows == UNION {{t} \X (1 .. call[t].tot) : t \in writers}
<1>1. \A t \in Tasks : /\ t \in writers => Sent(f)[t] = call[t].tot
                       /\ t \notin writers => Sent(f)[t] = 0
  BY DEF Sent
<1>2. 1 .. 0 = {}
  OBVIOUS
<1>3. Bytes(Sent(f)) \subseteq rows
  BY <1>1, <1>2 DEF Bytes
<1>4. rows \subseteq Bytes(Sent(f))
  BY <1>1 DEF Bytes
<1> QED BY <1>3, <1>4 DEF Underway

LEMMA UnderwayIsBytesNext == (\A f \in Fds : Underway(f) = Cardinality(Bytes(Sent(f))))'
BY UnderwayIsBytes, PTL

LEMMA SentType ==
  ASSUME TypesOK, NEW f \in Fds
  PROVE  Sent(f) \in [Tasks -> Nat]
BY DEF TypesOK, Sent, Calls

\* A step that concerns one call changes Underway by what it changes of the
\* call's tot.
LEMMA UnderwayMoves ==
  ASSUME TypesOK, call' \in [Tasks -> Calls \cup {NULL}], NEW f \in Fds, NEW t \in Tasks,
         \A u \in Tasks \ {t} : call'[u] = call[u]
  PROVE  /\ Underway(f) \in Nat /\ Underway(f)' \in Nat
         /\ Sent(f)[t] \in Nat /\ Sent(f)'[t] \in Nat
         /\ Underway(f)' + Sent(f)[t] = Underway(f) + Sent(f)'[t]
<1>1. Sent(f) \in [Tasks -> Nat] /\ Sent(f)' \in [Tasks -> Nat]
  BY DEF TypesOK, Sent, Calls
<1>2. \A u \in Tasks \ {t} : Sent(f)'[u] = Sent(f)[u]
  BY DEF Sent
<1>3. Underway(f) = Cardinality(Bytes(Sent(f))) /\ Underway(f)' = Cardinality(Bytes(Sent(f)'))
  BY UnderwayIsBytes, UnderwayIsBytesNext DEF Bytes
<1>4. \A g \in [Tasks -> Nat] : Cardinality(Bytes(g)) \in Nat
  BY BytesFinite DEF Bytes
<1>5. Cardinality(Bytes(Sent(f)')) + Sent(f)[t] = Cardinality(Bytes(Sent(f))) + Sent(f)'[t]
  BY <1>1, <1>2, BytesMoved
<1> QED BY <1>1, <1>3, <1>4, <1>5

\* What a return does to the histories: the caller is told of the bytes.
LEMMA LeavesKeeps ==
  ASSUME TypesOK, NEW t \in Tasks, call[t] # NULL,
         NEW ret \in Int, NEW errno, leaves(t, ret, errno)
  PROVE  /\ call' \in [Tasks -> Calls \cup {NULL}]
         /\ told' \in [Fds -> [read : Nat, written : Nat]]
         /\ outcome' = [u \in Tasks |-> outcome'[u]]
         /\ call'[t] = NULL /\ \A u \in Tasks \ {t} : call'[u] = call[u]
         /\ \A u \in Tasks \ {t} : outcome'[u] = outcome[u]
         /\ outcome'[t] = [op |-> call[t].op, n |-> call[t].n, ret |-> ret,
                           errno |-> errno, reason |-> call[t].reason]
<1>1. call[t] \in Calls
  BY DEF TypesOK
<1>2. call[t].fd \in Fds
  BY <1>1 DEF Calls
<1> DEFINE n == IF ret > 0 THEN ret ELSE 0
<1>3. n \in Nat
  OBVIOUS
<1> HIDE DEF n
<1>4. told' = IF call[t].op = "write" THEN [told EXCEPT ![call[t].fd].written = @ + n]
                                      ELSE [told EXCEPT ![call[t].fd].read = @ + n]
  BY DEF leaves, n
<1>5. told' \in [Fds -> [read : Nat, written : Nat]]
  BY <1>2, <1>3, <1>4 DEF TypesOK
<1>6. /\ call' = [call EXCEPT ![t] = NULL]
      /\ outcome' = [outcome EXCEPT ![t] =
           [op |-> call[t].op, n |-> call[t].n, ret |-> ret, errno |-> errno,
            reason |-> call[t].reason]]
  BY DEF leaves
<1> QED BY <1>5, <1>6 DEF TypesOK

LEMMA GoesOnKeeps ==
  ASSUME TypesOK, NEW t \in Tasks, call[t] # NULL, NEW next \in {"look", "do"},
         goesOn(t, next)
  PROVE  /\ call' \in [Tasks -> Calls \cup {NULL}]
         /\ call'[t] # NULL /\ call'[t] = [call[t] EXCEPT !.next = next]
         /\ \A u \in Tasks \ {t} : call'[u] = call[u]
         /\ UNCHANGED <<outcome, told>>
<1>1. call[t] \in Calls
  BY DEF TypesOK
<1>2. [call[t] EXCEPT !.next = next] \in Calls
  BY <1>1 DEF Calls
<1>3. NULL \notin Calls
  BY WrapAssumption
<1> QED BY <1>1, <1>2, <1>3 DEF goesOn, TypesOK

LEMMA InitIInv == Init => IInv
<1> SUFFICES ASSUME Init PROVE IInv
  OBVIOUS
<1>1. TypesOK
  BY WrapAssumption DEF Init, W!WaitInit, W!TasksOK, W!Stages, W!Reasons, TypesOK, Sockets
<1>2. ReasonKept /\ OutcomesTrue
  BY DEF Init, ReasonKept, OutcomesTrue
<1>3. ASSUME NEW f \in Fds PROVE Underway(f) = 0
  <2>1. {t \in Tasks : call[t] # NULL /\ call[t].op = "write" /\ call[t].fd = f} = {}
    BY DEF Init
  <2> QED BY <2>1, FS_EmptySet DEF Underway
<1>4. NothingLost
  BY <1>3, WrapAssumption DEF Init, NothingLost
<1> QED BY <1>1, <1>2, <1>4 DEF IInv

-----------------------------------------------------------------------------

\* The steps keep the types.

\* The tasks' part, which FdWait's steps keep.
LEMMA TasksStep ==
  ASSUME TypesOK, NEW t \in Tasks,
         \/ UNCHANGED taskVars
         \/ udata' = [udata EXCEPT ![t] = "NULL"] /\ UNCHANGED <<taskrunning, stage, wait, aborted>>
         \/ \E f \in Fds, rw \in {"r", "w"} : waits(t, f, rw)
         \/ W!returns(t) \/ W!pauses(t) \/ W!taskdelay(t) \/ W!aborts(t) \/ W!dispatch(t)
         \/ \E reason \in W!Reasons : W!wakes([u \in {t} |-> reason])
  PROVE  W!TasksOK'
<1>1. CASE UNCHANGED taskVars
  BY <1>1 DEF TypesOK, W!TasksOK, taskVars
<1>2. CASE udata' = [udata EXCEPT ![t] = "NULL"] /\ UNCHANGED <<taskrunning, stage, wait, aborted>>
  BY <1>2 DEF TypesOK, W!TasksOK, W!Reasons
<1>3. ASSUME NEW f \in Fds, NEW rw \in {"r", "w"}, waits(t, f, rw) PROVE W!TasksOK'
  <2>1. CASE W!fdwait(t, f, rw, FALSE)
    <3>1. wait' = [wait EXCEPT ![t] = [fd |-> f, rw |-> rw, own |-> FALSE]]
      BY <2>1 DEF W!fdwait
    <3>2. wait' \in [Tasks -> [fd : Fds, rw : {"r", "w"}, own : BOOLEAN] \cup {NULL}]
      BY <3>1 DEF TypesOK, W!TasksOK
    <3> QED BY <2>1, <3>2 DEF TypesOK, W!TasksOK, W!fdwait, W!Stages
  <2>2. CASE W!aborts(t)
    BY <2>2 DEF TypesOK, W!TasksOK, W!aborts
  <2> QED BY <1>3, <2>1, <2>2 DEF waits
<1>4. CASE W!returns(t) \/ W!pauses(t) \/ W!taskdelay(t) \/ W!aborts(t) \/ W!dispatch(t)
  BY <1>4 DEF TypesOK, W!TasksOK, W!returns, W!pauses, W!taskdelay, W!aborts, W!dispatch,
              W!Stages
<1>5. ASSUME NEW reason \in W!Reasons, W!wakes([u \in {t} |-> reason]) PROVE W!TasksOK'
  BY <1>5 DEF TypesOK, W!TasksOK, W!wakes, W!Stages, W!Reasons
<1> QED BY <1>1, <1>2, <1>3, <1>4, <1>5

LEMMA InProgress ==
  ASSUME TypesOK, NEW t \in Tasks, call[t] # NULL
  PROVE  /\ call[t] \in Calls /\ call[t].fd \in Fds /\ call[t].tot \in Nat
         /\ call[t].n \in Nat \ {0} /\ call[t].op \in {"read", "write", "read1"}
         /\ failed(t) \in Int
         /\ sock[call[t].fd] \in Sockets
BY WrapAssumption DEF TypesOK, Calls, failed

LEMMA Smallest ==
  ASSUME NEW m \in Int, NEW n \in Int, NEW k \in 1 .. Min({m, n})
  PROVE  k \in Nat \ {0} /\ k <= m /\ k <= n
<1>1. Min({m, n}) \in {m, n} /\ Min({m, n}) <= m /\ Min({m, n}) <= n
  <2>1. \E x \in {m, n} : \A y \in {m, n} : x <= y
    <3>1. CASE m <= n
      BY <3>1
    <3>2. CASE n <= m
      BY <3>2
    <3> QED BY <3>1, <3>2
  <2> QED BY <2>1 DEF Min
<1> QED BY <1>1

\* What a read does: it ends the call, changes the socket it is about and tells
\* of the bytes it took off it; or it goes on to wait.
LEMMA ReadsDoes ==
  ASSUME TypesOK, NEW t \in Tasks, reads(t)
  PROVE  /\ call[t] # NULL /\ call[t].op # "write" /\ ~aborted
         /\ \/ /\ \E k \in Nat \ {0} : /\ k <= sock[call[t].fd].in
                                       /\ sock' = [sock EXCEPT ![call[t].fd].in = @ - k]
                                       /\ leaves(t, k, "0")
               /\ UNCHANGED taskVars
            \/ /\ sock[call[t].fd].state # "open"
               /\ sock' = [sock EXCEPT ![call[t].fd].state = "dead"]
               /\ \/ leaves(t, -1, "ECONNRESET") \/ leaves(t, 0, "0")
               /\ UNCHANGED taskVars
            \/ UNCHANGED sock /\ again(t, "r")
<1> DEFINE f == call[t].fd
           s == sock[f]
<1>1. call[t] # NULL /\ call[t].op # "write" /\ ~aborted
  BY DEF reads, At, W!Runs
<1>2. s \in Sockets /\ call[t].n \in Nat
  BY <1>1, InProgress
<1>3. CASE \E k \in 1 .. Min({call[t].n, s.in}) :
             /\ sock' = [sock EXCEPT ![f].in = @ - k]
             /\ leaves(t, k, "0")
             /\ UNCHANGED taskVars
  <2>1. PICK k \in 1 .. Min({call[t].n, s.in}) :
             /\ sock' = [sock EXCEPT ![f].in = @ - k]
             /\ leaves(t, k, "0")
             /\ UNCHANGED taskVars
    BY <1>3
  <2>2. k \in Nat \ {0} /\ k <= s.in
    BY <1>2, Smallest DEF Sockets
  <2> QED BY <1>1, <2>1, <2>2
<1>4. CASE /\ s.in = 0 /\ s.state = "reset"
           /\ sock' = [sock EXCEPT ![f].state = "dead"]
           /\ leaves(t, -1, "ECONNRESET")
           /\ UNCHANGED taskVars
  BY <1>1, <1>4
<1>5. CASE s.in = 0 /\ s.state = "dead" /\ leaves(t, 0, "0") /\ UNCHANGED <<taskVars, sock>>
  <2>1. sock' = [sock EXCEPT ![f].state = "dead"]
    <3>1. s = [s EXCEPT !.state = "dead"]
      BY <1>2, <1>5 DEF Sockets
    <3>2. sock = [sock EXCEPT ![f] = s]
      BY DEF TypesOK
    <3> QED BY <1>5, <3>1, <3>2
  <2> QED BY <1>1, <1>5, <2>1
<1>6. CASE ~readable(s) /\ again(t, "r") /\ UNCHANGED sock
  BY <1>1, <1>6
<1> QED BY <1>3, <1>4, <1>5, <1>6 DEF reads

\* What a write does: it writes, all or some of what is left; it ends the call
\* without telling of what was written; or it goes on to wait.
LEMMA WritesDoes ==
  ASSUME TypesOK, NEW t \in Tasks, writes(t)
  PROVE  /\ call[t] # NULL /\ call[t].op = "write" /\ ~aborted
         /\ \/ /\ \E k \in Nat \ {0} :
                    /\ k <= sock[call[t].fd].room
                    /\ sock' = [sock EXCEPT ![call[t].fd].room = @ - k]
                    /\ \/ call[t].tot + k = call[t].n /\ leaves(t, call[t].tot + k, "0")
                       \/ /\ call' = [call EXCEPT ![t].tot = call[t].tot + k]
                          /\ UNCHANGED <<outcome, told>>
               /\ UNCHANGED taskVars
            \/ /\ sock[call[t].fd].state # "open"
               /\ sock' = [sock EXCEPT ![call[t].fd].state = "dead"]
               /\ \E errno \in {"ECONNRESET", "EPIPE"} : leaves(t, -1, errno)
               /\ UNCHANGED taskVars
            \/ UNCHANGED sock /\ again(t, "w")
<1> DEFINE f == call[t].fd
           s == sock[f]
           tot == call[t].tot
<1>1. call[t] # NULL /\ call[t].op = "write" /\ ~aborted
  BY DEF writes, At, W!Runs
<1>2. s \in Sockets /\ call[t].n \in Nat /\ tot \in Nat
  BY <1>1, InProgress
<1>3. CASE \E k \in 1 .. Min({call[t].n - tot, s.room}) :
             /\ s.state = "open"
             /\ sock' = [sock EXCEPT ![f].room = @ - k]
             /\ IF tot + k = call[t].n THEN leaves(t, tot + k, "0")
                ELSE /\ call' = [call EXCEPT ![t].tot = tot + k]
                     /\ UNCHANGED <<outcome, told>>
             /\ UNCHANGED taskVars
  <2>1. PICK k \in 1 .. Min({call[t].n - tot, s.room}) :
             /\ s.state = "open"
             /\ sock' = [sock EXCEPT ![f].room = @ - k]
             /\ IF tot + k = call[t].n THEN leaves(t, tot + k, "0")
                ELSE /\ call' = [call EXCEPT ![t].tot = tot + k]
                     /\ UNCHANGED <<outcome, told>>
             /\ UNCHANGED taskVars
    BY <1>3
  <2>2. k \in Nat \ {0} /\ k <= s.room
    BY <1>2, Smallest DEF Sockets
  <2> QED BY <1>1, <2>1, <2>2
<1>4. CASE /\ s.state # "open"
           /\ sock' = [sock EXCEPT ![f].state = "dead"]
           /\ leaves(t, -1, IF s.state = "reset" THEN "ECONNRESET" ELSE "EPIPE")
           /\ UNCHANGED taskVars
  BY <1>1, <1>4
<1>5. CASE ~writable(s) /\ again(t, "w") /\ UNCHANGED sock
  BY <1>1, <1>5
<1> QED BY <1>3, <1>4, <1>5 DEF writes

\* The look at udata ends the call or does not wait, or read1 goes to wait.
LEMMA LooksDoes ==
  ASSUME TypesOK, NEW t \in Tasks, looks(t)
  PROVE  /\ call[t] # NULL /\ call[t].next = "look" /\ stage[t] = "run" /\ ~aborted
         /\ UNCHANGED sock
         /\ \/ /\ udata[t] # "NULL" /\ leaves(t, failed(t), udata[t])
               /\ udata' = [udata EXCEPT ![t] = "NULL"]
               /\ UNCHANGED <<taskrunning, stage, wait, aborted>>
            \/ /\ goesOn(t, "do")
               /\ \/ /\ udata' = [udata EXCEPT ![t] = "NULL"]
                     /\ UNCHANGED <<taskrunning, stage, wait, aborted>>
                  \/ call[t].op = "read1" /\ waits(t, call[t].fd, "r")
BY DEF looks, At, W!Runs

LEMMA AgainDoes ==
  ASSUME NEW t \in Tasks, NEW rw, again(t, rw)
  PROVE  /\ goesOn(t, "look")
         /\ \/ call[t].op = "read1" /\ UNCHANGED taskVars
            \/ call[t].op # "read1" /\ waits(t, call[t].fd, rw)
BY DEF again

\* What a return does to the sums.
LEMMA LeavesCounts ==
  ASSUME TypesOK, NEW t \in Tasks, call[t] # NULL,
         NEW ret \in Int, NEW errno, leaves(t, ret, errno), NEW f \in Fds
  PROVE  LET n == IF ret > 0 THEN ret ELSE 0
         IN  /\ Underway(f) \in Nat /\ Underway(f)' \in Nat
             /\ f # call[t].fd => told'[f] = told[f] /\ Underway(f)' = Underway(f)
             /\ f = call[t].fd /\ call[t].op = "write" =>
                  /\ told'[f].written = told[f].written + n /\ told'[f].read = told[f].read
                  /\ Underway(f)' + call[t].tot = Underway(f)
             /\ f = call[t].fd /\ call[t].op # "write" =>
                  /\ told'[f].read = told[f].read + n /\ told'[f].written = told[f].written
                  /\ Underway(f)' = Underway(f)
<1> DEFINE n == IF ret > 0 THEN ret ELSE 0
<1>1. /\ call' \in [Tasks -> Calls \cup {NULL}]
      /\ call'[t] = NULL /\ \A u \in Tasks \ {t} : call'[u] = call[u]
  BY LeavesKeeps
<1>2. /\ Underway(f) \in Nat /\ Underway(f)' \in Nat
      /\ Underway(f)' + Sent(f)[t] = Underway(f) + Sent(f)'[t]
  BY <1>1, UnderwayMoves
<1>3. Sent(f)'[t] = 0
  BY <1>1 DEF Sent
<1>4. Underway(f)' + Sent(f)[t] = Underway(f)
  BY <1>2, <1>3
<1>5. call[t].tot \in Nat
  BY InProgress
<1>6. told' = IF call[t].op = "write" THEN [told EXCEPT ![call[t].fd].written = @ + n]
                                      ELSE [told EXCEPT ![call[t].fd].read = @ + n]
  BY DEF leaves
<1>7. told \in [Fds -> [read : Nat, written : Nat]]
  BY DEF TypesOK
<1> HIDE DEF n
<1>8. ASSUME Sent(f)[t] = 0 PROVE Underway(f)' = Underway(f)
  BY <1>2, <1>4, <1>8
<1>9. CASE f # call[t].fd
  <2>1. told'[f] = told[f]
    BY <1>6, <1>7, <1>9
  <2>2. Sent(f)[t] = 0
    BY <1>9 DEF Sent
  <2> QED BY <1>2, <1>8, <1>9, <2>1, <2>2
<1>10. CASE f = call[t].fd /\ call[t].op = "write"
  <2>1. told'[f].written = told[f].written + n /\ told'[f].read = told[f].read
    BY <1>6, <1>7, <1>10
  <2>2. Sent(f)[t] = call[t].tot
    BY <1>10 DEF Sent
  <2> QED BY <1>2, <1>4, <1>10, <2>1, <2>2 DEF n
<1>11. CASE f = call[t].fd /\ call[t].op # "write"
  <2>1. told'[f].read = told[f].read + n /\ told'[f].written = told[f].written
    BY <1>6, <1>7, <1>11
  <2>2. Sent(f)[t] = 0
    BY <1>11 DEF Sent
  <2> QED BY <1>2, <1>8, <1>11, <2>1, <2>2 DEF n
<1> QED BY <1>9, <1>10, <1>11

\* The bytes of one descriptor add up.
Balanced(f) ==
  LET s == sock[f]
      written == told[f].written + Underway(f)
  IN  /\ told[f].read + s.in + s.coming = Supply
      /\ written + s.room + s.going <= Demand
      /\ s.state = "open" => written + s.room + s.going = Demand

\* A step that neither transfers a byte nor tells of one.
LEMMA NoBytes ==
  ASSUME TypesOK, NothingLost, UNCHANGED <<sock, told>>, NEW t \in Tasks,
         call' \in [Tasks -> Calls \cup {NULL}],
         \A u \in Tasks \ {t} : call'[u] = call[u],
         \A f \in Fds : Sent(f)'[t] = Sent(f)[t]
  PROVE  NothingLost'
<1>1. ASSUME NEW f \in Fds PROVE Underway(f)' = Underway(f)
  <2>1. /\ Underway(f) \in Nat /\ Underway(f)' \in Nat
        /\ Sent(f)[t] \in Nat
        /\ Underway(f)' + Sent(f)[t] = Underway(f) + Sent(f)[t]
    BY UnderwayMoves
  <2> QED BY <2>1
<1> QED BY <1>1 DEF NothingLost

-----------------------------------------------------------------------------

\* The steps keep the invariant.

TrueOutcome(o) ==
  /\ o.errno # "EAGAIN"
  /\ o.errno \in {"LIBTASK_TIMEOUT", "EIO"} => o.reason = o.errno \/ o.op = "read1"
  /\ o.op = "write" /\ 0 <= o.ret /\ o.ret < o.n =>
       o.ret > 0 /\ o.reason \in {"LIBTASK_TIMEOUT", "EIO"}

KeepsReason(t) ==
  /\ call[t] # NULL /\ call[t].op # "read1" /\ call[t].next = "look"
  /\ stage[t] = "run" /\ ~aborted
  => call[t].reason = udata[t]

\* What a step of one task leaves to show.
LEMMA OneTask ==
  ASSUME IInv, ~aborted, NEW t \in Tasks,
         TypesOK', NothingLost',
         \A u \in Tasks \ {t} : /\ call'[u] = call[u] /\ outcome'[u] = outcome[u]
                                /\ stage'[u] = stage[u] /\ udata'[u] = udata[u],
         KeepsReason(t)',
         outcome'[t] \notin {NULL, outcome[t]} => TrueOutcome(outcome'[t])
  PROVE  IInv'
<1>1. ReasonKept'
  <2> SUFFICES ASSUME NEW u \in Tasks PROVE KeepsReason(u)'
    BY DEF ReasonKept, KeepsReason
  <2>1. CASE u = t
    BY <2>1
  <2>2. CASE u # t
    <3>1. KeepsReason(u)
      BY DEF IInv, ReasonKept, KeepsReason
    <3> QED BY <2>2, <3>1 DEF KeepsReason
  <2> QED BY <2>1, <2>2
<1>2. OutcomesTrue'
  <2> SUFFICES ASSUME NEW u \in Tasks, outcome'[u] # NULL PROVE TrueOutcome(outcome'[u])
    BY DEF OutcomesTrue, TrueOutcome
  <2>1. outcome[u] # NULL => TrueOutcome(outcome[u])
    BY DEF IInv, OutcomesTrue, TrueOutcome
  <2> HIDE DEF TrueOutcome
  <2>2. CASE u = t
    BY <2>1, <2>2
  <2>3. CASE u # t
    BY <2>1, <2>3
  <2> QED BY <2>2, <2>3
<1> QED BY <1>1, <1>2 DEF IInv

\* How the steps of FdWait touch other tasks, and where they leave t.
LEMMA WaitTouches ==
  ASSUME TypesOK, NEW t \in Tasks
  PROVE  /\ \A f \in Fds, rw \in {"r", "w"} : waits(t, f, rw) =>
              /\ stage'[t] = "fdwait" \/ aborted'
              /\ udata' = udata
              /\ \A u \in Tasks \ {t} : stage'[u] = stage[u]
         /\ W!returns(t) =>
              /\ stage[t] = "woken" /\ udata' = udata
              /\ \A u \in Tasks \ {t} : stage'[u] = stage[u]
         /\ W!taskdelay(t) \/ W!aborts(t) =>
              /\ udata' = udata /\ \A u \in Tasks \ {t} : stage'[u] = stage[u]
         /\ W!pauses(t) \/ W!dispatch(t) => UNCHANGED <<stage, udata>>
         /\ \A reason \in W!Reasons : W!wakes([u \in {t} |-> reason]) =>
              /\ stage'[t] = "woken"
              /\ \A u \in Tasks \ {t} : stage'[u] = stage[u] /\ udata'[u] = udata[u]
BY DEF TypesOK, W!TasksOK, waits, W!aborts, W!fdwait, W!returns, W!taskdelay, W!pauses,
       W!dispatch, W!wakes

\* A call starts.
LEMMA EntersKeeps ==
  ASSUME IInv, NEW t \in Tasks, NEW op \in {"read", "write", "read1"}, NEW f \in Fds,
         NEW n \in Sizes, enters(t, op, f, n)
  PROVE  IInv'
<1> DEFINE c == [op |-> op, fd |-> f, n |-> n, tot |-> 0,
                 next |-> IF op = "read1" THEN "look" ELSE "do", reason |-> "NULL"]
<1>1. TypesOK /\ NothingLost
  BY DEF IInv
<1>2. c \in Calls /\ c # NULL
  BY WrapAssumption DEF Calls
<1>3. /\ call[t] = NULL /\ call' = [call EXCEPT ![t] = c] /\ ~aborted
      /\ udata' \in {udata, [udata EXCEPT ![t] = "NULL"]}
      /\ outcome' = [outcome EXCEPT ![t] = NULL]
      /\ UNCHANGED <<taskrunning, stage, wait, aborted, sock, told>>
  BY DEF enters, Idle, W!Runs
<1>4. c.op = "read1" \/ c.next # "look"
  OBVIOUS
<1>5. c.tot = 0
  OBVIOUS
<1> HIDE DEF c
<1>6. /\ call' \in [Tasks -> Calls \cup {NULL}]
      /\ call'[t] = c /\ \A u \in Tasks \ {t} : call'[u] = call[u]
  BY <1>1, <1>2, <1>3 DEF TypesOK
<1>7. TypesOK'
  <2>1. W!TasksOK'
    BY <1>1, <1>3, TasksStep DEF taskVars
  <2> QED BY <1>1, <1>3, <1>6, <2>1 DEF TypesOK
<1>8. NothingLost'
  <2>1. \A g \in Fds : Sent(g)'[t] = Sent(g)[t]
    BY <1>3, <1>5, <1>6 DEF Sent
  <2> QED BY <1>1, <1>3, <1>6, <2>1, NoBytes
<1>9. KeepsReason(t)'
  BY <1>4, <1>6 DEF KeepsReason
<1>10. \A u \in Tasks \ {t} : /\ call'[u] = call[u] /\ outcome'[u] = outcome[u]
                              /\ stage'[u] = stage[u] /\ udata'[u] = udata[u]
  BY <1>1, <1>3, <1>6 DEF TypesOK, W!TasksOK
<1>11. outcome'[t] = NULL
  BY <1>1, <1>3 DEF TypesOK
<1> QED BY <1>3, <1>7, <1>8, <1>9, <1>10, <1>11, OneTask

\* A call goes on to its next part.
LEMMA GoesOnStep ==
  ASSUME IInv, ~aborted, NEW t \in Tasks, call[t] # NULL, NEW next \in {"look", "do"},
         goesOn(t, next), UNCHANGED sock, W!TasksOK',
         \A u \in Tasks \ {t} : stage'[u] = stage[u] /\ udata'[u] = udata[u],
         next = "look" /\ call[t].op # "read1" => stage'[t] # "run" \/ aborted'
  PROVE  IInv'
<1>1. TypesOK /\ NothingLost
  BY DEF IInv
<1>2. /\ call' \in [Tasks -> Calls \cup {NULL}]
      /\ call'[t] # NULL /\ call'[t] = [call[t] EXCEPT !.next = next]
      /\ \A u \in Tasks \ {t} : call'[u] = call[u]
      /\ UNCHANGED <<outcome, told>>
  BY <1>1, GoesOnKeeps
<1>3. /\ call'[t].op = call[t].op /\ call'[t].fd = call[t].fd /\ call'[t].tot = call[t].tot
      /\ call'[t].next = next
  BY <1>1, <1>2, InProgress DEF Calls
<1>4. TypesOK'
  BY <1>1, <1>2 DEF TypesOK
<1>5. NothingLost'
  <2>1. \A g \in Fds : Sent(g)'[t] = Sent(g)[t]
    BY <1>2, <1>3 DEF Sent
  <2> QED BY <1>1, <1>2, <2>1, NoBytes
<1>6. KeepsReason(t)'
  BY <1>2, <1>3 DEF KeepsReason
<1> QED BY <1>2, <1>4, <1>5, <1>6, OneTask

\* A call returns.
LEMMA LeavesStep ==
  ASSUME IInv, ~aborted, NEW t \in Tasks, call[t] # NULL,
         NEW ret \in Int, NEW errno, leaves(t, ret, errno),
         W!TasksOK', sock' \in [Fds -> Sockets], NothingLost',
         \A u \in Tasks \ {t} : stage'[u] = stage[u] /\ udata'[u] = udata[u],
         errno # "EAGAIN",
         errno \in {"LIBTASK_TIMEOUT", "EIO"}
           => call[t].reason = errno \/ call[t].op = "read1",
         call[t].op = "write" /\ 0 <= ret /\ ret < call[t].n
           => ret > 0 /\ call[t].reason \in {"LIBTASK_TIMEOUT", "EIO"}
  PROVE  IInv'
<1>1. TypesOK
  BY DEF IInv
<1>2. /\ call' \in [Tasks -> Calls \cup {NULL}]
      /\ told' \in [Fds -> [read : Nat, written : Nat]]
      /\ outcome' = [u \in Tasks |-> outcome'[u]]
      /\ call'[t] = NULL /\ \A u \in Tasks \ {t} : call'[u] = call[u]
      /\ \A u \in Tasks \ {t} : outcome'[u] = outcome[u]
      /\ outcome'[t] = [op |-> call[t].op, n |-> call[t].n, ret |-> ret,
                        errno |-> errno, reason |-> call[t].reason]
  BY <1>1, LeavesKeeps
<1>3. TypesOK'
  BY <1>2 DEF TypesOK
<1>4. KeepsReason(t)'
  BY <1>2 DEF KeepsReason
<1>5. TrueOutcome(outcome'[t])
  BY <1>2 DEF TrueOutcome
<1> QED BY <1>2, <1>3, <1>4, <1>5, OneTask

LEMMA LooksKeeps ==
  ASSUME IInv, NEW t \in Tasks, looks(t)
  PROVE  IInv'
<1>1. TypesOK /\ NothingLost
  BY DEF IInv
<1>2. /\ call[t] # NULL /\ call[t].next = "look" /\ stage[t] = "run" /\ ~aborted
      /\ UNCHANGED sock
      /\ \/ /\ udata[t] # "NULL" /\ leaves(t, failed(t), udata[t])
            /\ udata' = [udata EXCEPT ![t] = "NULL"]
            /\ UNCHANGED <<taskrunning, stage, wait, aborted>>
         \/ /\ goesOn(t, "do")
            /\ \/ /\ udata' = [udata EXCEPT ![t] = "NULL"]
                  /\ UNCHANGED <<taskrunning, stage, wait, aborted>>
               \/ call[t].op = "read1" /\ waits(t, call[t].fd, "r")
  BY <1>1, LooksDoes
<1>3. /\ call[t].fd \in Fds /\ call[t].tot \in Nat /\ call[t].n \in Nat
      /\ call[t].op \in {"read", "write", "read1"} /\ failed(t) \in Int
  BY <1>1, <1>2, InProgress
<1>4. W!TasksOK'
  <2>1. \/ udata' = [udata EXCEPT ![t] = "NULL"] /\ UNCHANGED <<taskrunning, stage, wait, aborted>>
        \/ waits(t, call[t].fd, "r")
    BY <1>2
  <2> QED BY <1>1, <1>3, <2>1, TasksStep
<1>5. \A u \in Tasks \ {t} : stage'[u] = stage[u] /\ udata'[u] = udata[u]
  <2>1. CASE udata' = [udata EXCEPT ![t] = "NULL"] /\ UNCHANGED <<taskrunning, stage, wait, aborted>>
    BY <1>1, <2>1 DEF TypesOK, W!TasksOK
  <2>2. CASE waits(t, call[t].fd, "r")
    BY <1>1, <1>3, <2>2, WaitTouches
  <2> QED BY <1>2, <2>1, <2>2
<1>6. CASE goesOn(t, "do")
  BY <1>2, <1>4, <1>5, <1>6, GoesOnStep
<1>7. CASE udata[t] # "NULL" /\ leaves(t, failed(t), udata[t])
  <2>1. udata[t] \in {"LIBTASK_TIMEOUT", "EIO"}
    BY <1>1, <1>7 DEF TypesOK, W!TasksOK, W!Reasons
  <2>2. call[t].op # "read1" => call[t].reason = udata[t]
    BY <1>2 DEF IInv, ReasonKept
  <2>3. ASSUME call[t].op = "write", 0 <= failed(t), failed(t) < call[t].n
        PROVE  failed(t) > 0 /\ call[t].reason \in {"LIBTASK_TIMEOUT", "EIO"}
    <3>1. failed(t) = call[t].tot /\ call[t].tot > 0
      BY <2>3 DEF failed
    <3> QED BY <2>1, <2>2, <2>3, <3>1
  <2>4. NothingLost'
    <3> DEFINE n == IF failed(t) > 0 THEN failed(t) ELSE 0
    <3>1. call[t].op = "write" => n = call[t].tot
      BY <1>3 DEF failed
    <3>2. call[t].op # "write" => n = 0
      BY DEF failed
    <3> SUFFICES ASSUME NEW f \in Fds PROVE Balanced(f)'
      BY DEF NothingLost, Balanced
    <3>3. /\ Underway(f) \in Nat /\ Underway(f)' \in Nat
          /\ f # call[t].fd => told'[f] = told[f] /\ Underway(f)' = Underway(f)
          /\ f = call[t].fd /\ call[t].op = "write" =>
               /\ told'[f].written = told[f].written + n /\ told'[f].read = told[f].read
               /\ Underway(f)' + call[t].tot = Underway(f)
          /\ f = call[t].fd /\ call[t].op # "write" =>
               /\ told'[f].read = told[f].read + n /\ told'[f].written = told[f].written
               /\ Underway(f)' = Underway(f)
      BY <1>1, <1>2, <1>3, <1>7, LeavesCounts
    <3> HIDE DEF n
    <3>4. told[f].read \in Nat /\ told[f].written \in Nat
      BY <1>1 DEF TypesOK
    <3>5. told'[f].read = told[f].read
          /\ told'[f].written + Underway(f)' = told[f].written + Underway(f)
      <4>1. CASE f # call[t].fd
        BY <3>3, <4>1
      <4>2. CASE f = call[t].fd /\ call[t].op = "write"
        BY <1>3, <3>1, <3>3, <3>4, <4>2
      <4>3. CASE f = call[t].fd /\ call[t].op # "write"
        BY <3>2, <3>3, <3>4, <4>3
      <4> QED BY <4>1, <4>2, <4>3
    <3>6. Balanced(f)
      BY <1>1 DEF NothingLost, Balanced
    <3> QED BY <1>2, <3>5, <3>6 DEF Balanced
  <2>5. sock' \in [Fds -> Sockets]
    BY <1>1, <1>2 DEF TypesOK
  <2> QED BY <1>2, <1>3, <1>4, <1>5, <1>7, <2>1, <2>2, <2>3, <2>4, <2>5, LeavesStep
<1> QED BY <1>2, <1>6, <1>7

\* EAGAIN.
LEMMA AgainKeeps ==
  ASSUME IInv, ~aborted, NEW t \in Tasks, call[t] # NULL, NEW rw \in {"r", "w"},
         again(t, rw), UNCHANGED sock
  PROVE  IInv'
<1>1. TypesOK /\ call[t].fd \in Fds
  BY InProgress DEF IInv
<1>2. /\ goesOn(t, "look")
      /\ \/ call[t].op = "read1" /\ UNCHANGED taskVars
         \/ call[t].op # "read1" /\ waits(t, call[t].fd, rw)
  BY AgainDoes
<1>3. W!TasksOK'
  BY <1>1, <1>2, TasksStep
<1>4. /\ \A u \in Tasks \ {t} : stage'[u] = stage[u] /\ udata'[u] = udata[u]
      /\ call[t].op # "read1" => stage'[t] # "run" \/ aborted'
  <2>1. CASE UNCHANGED taskVars /\ call[t].op = "read1"
    BY <2>1 DEF taskVars
  <2>2. CASE waits(t, call[t].fd, rw)
    BY <1>1, <2>2, WaitTouches
  <2> QED BY <1>2, <2>1, <2>2
<1> QED BY <1>2, <1>3, <1>4, GoesOnStep

LEMMA ReadsKeeps ==
  ASSUME IInv, NEW t \in Tasks, reads(t)
  PROVE  IInv'
<1>1. TypesOK /\ NothingLost
  BY DEF IInv
<1>2. /\ call[t] # NULL /\ call[t].op # "write" /\ ~aborted
      /\ \/ /\ \E k \in Nat \ {0} : /\ k <= sock[call[t].fd].in
                                    /\ sock' = [sock EXCEPT ![call[t].fd].in = @ - k]
                                    /\ leaves(t, k, "0")
            /\ UNCHANGED taskVars
         \/ /\ sock[call[t].fd].state # "open"
            /\ sock' = [sock EXCEPT ![call[t].fd].state = "dead"]
            /\ \/ leaves(t, -1, "ECONNRESET") \/ leaves(t, 0, "0")
            /\ UNCHANGED taskVars
         \/ UNCHANGED sock /\ again(t, "r")
  BY <1>1, ReadsDoes
<1>3. call[t].fd \in Fds
  BY <1>1, <1>2, InProgress
<1>4. \A f \in Fds : /\ sock[f] \in Sockets /\ Balanced(f)
                     /\ told[f].read \in Nat /\ told[f].written \in Nat
  BY <1>1 DEF TypesOK, NothingLost, Balanced
<1>5. UNCHANGED taskVars
      => W!TasksOK' /\ \A u \in Tasks \ {t} : stage'[u] = stage[u] /\ udata'[u] = udata[u]
  BY <1>1, TasksStep DEF taskVars
<1>6. ASSUME NEW k \in Nat \ {0}, k <= sock[call[t].fd].in,
             sock' = [sock EXCEPT ![call[t].fd].in = @ - k], leaves(t, k, "0"),
             UNCHANGED taskVars
      PROVE  IInv'
  <2>1. sock' \in [Fds -> Sockets]
    <3>1. sock[call[t].fd].in - k \in Nat
      BY <1>3, <1>4, <1>6 DEF Sockets
    <3> QED BY <1>1, <1>6, <3>1 DEF TypesOK, Sockets
  <2>2. ASSUME NEW f \in Fds PROVE Balanced(f)'
    <3>1. /\ Underway(f) \in Nat /\ Underway(f)' = Underway(f)
          /\ f # call[t].fd => told'[f] = told[f]
          /\ f = call[t].fd =>
               told'[f].read = told[f].read + k /\ told'[f].written = told[f].written
      BY <1>1, <1>2, <1>6, LeavesCounts
    <3>2. CASE f # call[t].fd
      <4>1. sock'[f] = sock[f]
        BY <1>1, <1>6, <3>2 DEF TypesOK
      <4> QED BY <1>4, <3>1, <3>2, <4>1 DEF Balanced
    <3>3. CASE f = call[t].fd
      <4>1. sock'[f] = [sock[f] EXCEPT !.in = @ - k]
        BY <1>1, <1>6, <3>3 DEF TypesOK
      <4>2. /\ sock'[f].in = sock[f].in - k /\ sock'[f].coming = sock[f].coming
            /\ sock'[f].room = sock[f].room /\ sock'[f].going = sock[f].going
            /\ sock'[f].state = sock[f].state
        BY <1>4, <4>1 DEF Sockets
      <4>3. told'[f].read + sock'[f].in + sock'[f].coming = Supply
        <5>1. told[f].read + sock[f].in + sock[f].coming = Supply
          BY <1>4 DEF Balanced
        <5>2. sock[f].in \in Nat /\ sock[f].coming \in Nat
          BY <1>4 DEF Sockets
        <5> QED BY <1>4, <3>1, <3>3, <4>2, <5>1, <5>2
      <4> QED BY <1>4, <3>1, <3>3, <4>2, <4>3 DEF Balanced
    <3> QED BY <3>2, <3>3
  <2>3. NothingLost'
    BY <2>2 DEF NothingLost, Balanced
  <2> QED BY <1>2, <1>5, <1>6, <2>1, <2>3, LeavesStep
<1>7. ASSUME sock[call[t].fd].state # "open",
             sock' = [sock EXCEPT ![call[t].fd].state = "dead"],
             NEW ret \in {-1, 0}, NEW errno \in {"ECONNRESET", "0"}, leaves(t, ret, errno),
             UNCHANGED taskVars
      PROVE  IInv'
  <2>1. sock' \in [Fds -> Sockets]
    BY <1>1, <1>3, <1>7 DEF TypesOK, Sockets
  <2>2. ASSUME NEW f \in Fds PROVE Balanced(f)'
    <3>1. ~(ret > 0)
      OBVIOUS
    <3>2. /\ Underway(f) \in Nat /\ Underway(f)' = Underway(f)
          /\ f # call[t].fd => told'[f] = told[f]
          /\ f = call[t].fd =>
               told'[f].read = told[f].read + 0 /\ told'[f].written = told[f].written
      BY <1>1, <1>2, <1>7, <3>1, LeavesCounts
    <3>3. told'[f].read = told[f].read /\ told'[f].written = told[f].written
      BY <1>4, <3>2
    <3>4. /\ sock'[f].in = sock[f].in /\ sock'[f].coming = sock[f].coming
          /\ sock'[f].room = sock[f].room /\ sock'[f].going = sock[f].going
          /\ sock'[f].state = "open" => sock[f].state = "open"
      BY <1>1, <1>4, <1>7 DEF TypesOK, Sockets
    <3> QED BY <1>4, <3>2, <3>3, <3>4 DEF Balanced
  <2>3. NothingLost'
    BY <2>2 DEF NothingLost, Balanced
  <2> QED BY <1>2, <1>5, <1>7, <2>1, <2>3, LeavesStep
<1>8. CASE UNCHANGED sock /\ again(t, "r")
  BY <1>2, <1>8, AgainKeeps
<1> QED BY <1>2, <1>6, <1>7, <1>8

LEMMA WritesKeeps ==
  ASSUME IInv, NEW t \in Tasks, writes(t)
  PROVE  IInv'
<1>1. TypesOK /\ NothingLost
  BY DEF IInv
<1>2. /\ call[t] # NULL /\ call[t].op = "write" /\ ~aborted
      /\ \/ /\ \E k \in Nat \ {0} :
                 /\ k <= sock[call[t].fd].room
                 /\ sock' = [sock EXCEPT ![call[t].fd].room = @ - k]
                 /\ \/ call[t].tot + k = call[t].n /\ leaves(t, call[t].tot + k, "0")
                    \/ /\ call' = [call EXCEPT ![t].tot = call[t].tot + k]
                       /\ UNCHANGED <<outcome, told>>
            /\ UNCHANGED taskVars
         \/ /\ sock[call[t].fd].state # "open"
            /\ sock' = [sock EXCEPT ![call[t].fd].state = "dead"]
            /\ \E errno \in {"ECONNRESET", "EPIPE"} : leaves(t, -1, errno)
            /\ UNCHANGED taskVars
         \/ UNCHANGED sock /\ again(t, "w")
  BY <1>1, WritesDoes
<1>3. call[t].fd \in Fds /\ call[t].tot \in Nat /\ call[t].n \in Nat /\ call[t] \in Calls
  BY <1>1, <1>2, InProgress
<1>4. \A f \in Fds : /\ sock[f] \in Sockets /\ Balanced(f)
                     /\ told[f].read \in Nat /\ told[f].written \in Nat
  BY <1>1 DEF TypesOK, NothingLost, Balanced
<1>5. UNCHANGED taskVars
      => W!TasksOK' /\ \A u \in Tasks \ {t} : stage'[u] = stage[u] /\ udata'[u] = udata[u]
  BY <1>1, TasksStep DEF taskVars
<1>6. ASSUME NEW k \in Nat \ {0}, k <= sock[call[t].fd].room,
             sock' = [sock EXCEPT ![call[t].fd].room = @ - k], UNCHANGED taskVars
      PROVE  /\ sock' \in [Fds -> Sockets]
             /\ \A f \in Fds : f # call[t].fd => sock'[f] = sock[f]
             /\ \A f \in Fds : f = call[t].fd =>
                  /\ sock'[f].in = sock[f].in /\ sock'[f].coming = sock[f].coming
                  /\ sock'[f].room = sock[f].room - k /\ sock'[f].going = sock[f].going
                  /\ sock'[f].state = sock[f].state
                  /\ sock[f].room \in Nat /\ sock[f].going \in Nat
  <2>1. sock[call[t].fd].room - k \in Nat
    BY <1>3, <1>4, <1>6 DEF Sockets
  <2>2. sock' \in [Fds -> Sockets]
    BY <1>1, <1>6, <2>1 DEF TypesOK, Sockets
  <2>3. ASSUME NEW f \in Fds, f = call[t].fd
        PROVE  /\ sock'[f].in = sock[f].in /\ sock'[f].coming = sock[f].coming
               /\ sock'[f].room = sock[f].room - k /\ sock'[f].going = sock[f].going
               /\ sock'[f].state = sock[f].state
               /\ sock[f].room \in Nat /\ sock[f].going \in Nat
    <3>1. sock'[f] = [sock[f] EXCEPT !.room = @ - k]
      BY <1>1, <1>6, <2>3 DEF TypesOK
    <3> QED BY <1>4, <3>1 DEF Sockets
  <2>4. \A f \in Fds : f # call[t].fd => sock'[f] = sock[f]
    BY <1>1, <1>6 DEF TypesOK
  <2> QED BY <2>2, <2>3, <2>4
\* The last bytes.
<1>7. ASSUME NEW k \in Nat \ {0}, k <= sock[call[t].fd].room,
             sock' = [sock EXCEPT ![call[t].fd].room = @ - k], UNCHANGED taskVars,
             call[t].tot + k = call[t].n, leaves(t, call[t].tot + k, "0")
      PROVE  IInv'
  <2>1. ASSUME NEW f \in Fds PROVE Balanced(f)'
    <3>1. call[t].tot + k > 0 /\ call[t].tot + k \in Int
      BY <1>3
    <3>2. /\ Underway(f) \in Nat /\ Underway(f)' \in Nat
          /\ f # call[t].fd => told'[f] = told[f] /\ Underway(f)' = Underway(f)
          /\ f = call[t].fd =>
               /\ told'[f].written = told[f].written + (call[t].tot + k)
               /\ told'[f].read = told[f].read
               /\ Underway(f)' + call[t].tot = Underway(f)
      BY <1>1, <1>2, <1>7, <3>1, LeavesCounts
    <3>3. CASE f # call[t].fd
      BY <1>4, <1>6, <1>7, <3>2, <3>3 DEF Balanced
    <3>4. CASE f = call[t].fd
      <4>1. told'[f].written + Underway(f)' = told[f].written + Underway(f) + k
        BY <1>3, <1>4, <3>2, <3>4
      <4>2. told'[f].written + Underway(f)' + sock'[f].room + sock'[f].going
              = told[f].written + Underway(f) + sock[f].room + sock[f].going
        <5>1. /\ sock'[f].room = sock[f].room - k /\ sock'[f].going = sock[f].going
              /\ sock[f].room \in Nat /\ sock[f].going \in Nat
          BY <1>6, <1>7, <3>4
        <5> QED BY <1>4, <3>2, <4>1, <5>1
      <4> QED BY <1>4, <1>6, <1>7, <3>2, <3>4, <4>2 DEF Balanced
    <3> QED BY <3>3, <3>4
  <2>2. NothingLost'
    BY <2>1 DEF NothingLost, Balanced
  <2>3. call[t].tot + k \in Int /\ ~(call[t].tot + k < call[t].n)
    BY <1>3, <1>7
  <2> QED BY <1>2, <1>5, <1>6, <1>7, <2>2, <2>3, LeavesStep
\* Some bytes.
<1>8. ASSUME NEW k \in Nat \ {0}, k <= sock[call[t].fd].room,
             sock' = [sock EXCEPT ![call[t].fd].room = @ - k], UNCHANGED taskVars,
             call' = [call EXCEPT ![t].tot = call[t].tot + k], UNCHANGED <<outcome, told>>
      PROVE  IInv'
  <2> DEFINE c == [call[t] EXCEPT !.tot = call[t].tot + k]
  <2>1. /\ c \in Calls /\ c # NULL /\ c.tot = call[t].tot + k
        /\ c.op = call[t].op /\ c.fd = call[t].fd
        /\ c.next = call[t].next /\ c.reason = call[t].reason
    BY <1>3, WrapAssumption DEF Calls
  <2>2. call' = [call EXCEPT ![t] = c]
    BY <1>8
  <2> HIDE DEF c
  <2>3. /\ call' \in [Tasks -> Calls \cup {NULL}]
        /\ call'[t] = c /\ \A u \in Tasks \ {t} : call'[u] = call[u]
    BY <1>1, <2>1, <2>2 DEF TypesOK
  <2>4. TypesOK'
    BY <1>1, <1>5, <1>6, <1>8, <2>3 DEF TypesOK
  <2>5. ASSUME NEW f \in Fds PROVE Balanced(f)'
    <3>1. /\ Underway(f) \in Nat /\ Underway(f)' \in Nat
          /\ Sent(f)[t] \in Nat /\ Sent(f)'[t] \in Nat
          /\ Underway(f)' + Sent(f)[t] = Underway(f) + Sent(f)'[t]
      BY <1>1, <2>3, UnderwayMoves
    <3>2. CASE f # call[t].fd
      <4>1. Sent(f)'[t] = Sent(f)[t]
        BY <2>1, <2>3, <3>2 DEF Sent
      <4>2. Underway(f)' = Underway(f)
        BY <3>1, <4>1
      <4> QED BY <1>4, <1>6, <1>8, <3>2, <4>2 DEF Balanced
    <3>3. CASE f = call[t].fd
      <4>1. Sent(f)[t] = call[t].tot /\ Sent(f)'[t] = call[t].tot + k
        BY <1>2, <2>1, <2>3, <3>3 DEF Sent
      <4>2. Underway(f)' = Underway(f) + k
        BY <1>3, <3>1, <4>1
      <4>3. told[f].written + Underway(f)' + sock'[f].room + sock'[f].going
              = told[f].written + Underway(f) + sock[f].room + sock[f].going
        <5>1. /\ sock'[f].room = sock[f].room - k /\ sock'[f].going = sock[f].going
              /\ sock[f].room \in Nat /\ sock[f].going \in Nat
          BY <1>6, <1>8, <3>3
        <5> QED BY <1>4, <3>1, <4>2, <5>1
      <4> QED BY <1>4, <1>6, <1>8, <3>3, <4>3 DEF Balanced
    <3> QED BY <3>2, <3>3
  <2>6. NothingLost'
    BY <2>5 DEF NothingLost, Balanced
  <2>7. KeepsReason(t)'
    <3>1. KeepsReason(t)
      BY DEF IInv, ReasonKept, KeepsReason
    <3>2. UNCHANGED <<stage, udata>>
      BY <1>8 DEF taskVars
    <3> QED BY <1>2, <2>1, <2>3, <3>1, <3>2 DEF KeepsReason
  <2> QED BY <1>2, <1>5, <1>8, <2>3, <2>4, <2>6, <2>7, OneTask
\* The connection is gone.
<1>9. ASSUME sock[call[t].fd].state # "open",
             sock' = [sock EXCEPT ![call[t].fd].state = "dead"],
             NEW errno \in {"ECONNRESET", "EPIPE"}, leaves(t, -1, errno),
             UNCHANGED taskVars
      PROVE  IInv'
  <2>1. sock' \in [Fds -> Sockets]
    BY <1>1, <1>3, <1>9 DEF TypesOK, Sockets
  <2>2. ASSUME NEW f \in Fds PROVE Balanced(f)'
    <3>1. ~(-1 > 0)
      OBVIOUS
    <3>2. /\ Underway(f) \in Nat /\ Underway(f)' \in Nat
          /\ f # call[t].fd => told'[f] = told[f] /\ Underway(f)' = Underway(f)
          /\ f = call[t].fd =>
               /\ told'[f].written = told[f].written + 0
               /\ told'[f].read = told[f].read
               /\ Underway(f)' + call[t].tot = Underway(f)
      BY <1>1, <1>2, <1>9, <3>1, LeavesCounts
    <3>3. CASE f # call[t].fd
      <4>1. sock'[f] = sock[f]
        BY <1>1, <1>9, <3>3 DEF TypesOK
      <4> QED BY <1>4, <3>2, <3>3, <4>1 DEF Balanced
    <3>4. CASE f = call[t].fd
      <4>1. /\ sock'[f].in = sock[f].in /\ sock'[f].coming = sock[f].coming
            /\ sock'[f].room = sock[f].room /\ sock'[f].going = sock[f].going
            /\ sock'[f].state # "open"
            /\ sock[f].room \in Nat /\ sock[f].going \in Nat
        BY <1>1, <1>4, <1>9, <3>4 DEF TypesOK, Sockets
      <4>2. /\ told'[f].written = told[f].written /\ told'[f].read = told[f].read
            /\ Underway(f)' <= Underway(f)
        BY <1>3, <1>4, <3>2, <3>4
      <4>3. told[f].written + Underway(f)' + sock[f].room + sock[f].going <= Demand
        <5>1. told[f].written + Underway(f) + sock[f].room + sock[f].going <= Demand
          BY <1>4 DEF Balanced
        <5> QED BY <1>4, <3>2, <4>1, <4>2, <5>1, WrapAssumption
      <4> QED BY <1>4, <4>1, <4>2, <4>3 DEF Balanced
    <3> QED BY <3>3, <3>4
  <2>3. NothingLost'
    BY <2>2 DEF NothingLost, Balanced
  <2>4. call[t] # NULL /\ call[t].op = "write" /\ ~aborted
    BY <1>2
  <2>5. -1 \in Int /\ ~(0 <= -1)
    OBVIOUS
  <2> QED BY <1>5, <1>9, <2>1, <2>3, <2>4, <2>5, LeavesStep
<1>10. CASE UNCHANGED sock /\ again(t, "w")
  BY <1>2, <1>10, AgainKeeps
<1> QED BY <1>2, <1>7, <1>8, <1>9, <1>10

LEMMA ReturnsKeeps ==
  ASSUME IInv, NEW t \in Tasks, returns(t)
  PROVE  IInv'
<1>1. TypesOK /\ NothingLost
  BY DEF IInv
<1>2. /\ W!returns(t) /\ ~aborted
      /\ call' = IF call[t] = NULL THEN call ELSE [call EXCEPT ![t].reason = udata[t]]
      /\ UNCHANGED <<sock, outcome, told>>
  BY DEF returns, W!returns
<1>3. W!TasksOK'
  BY <1>1, <1>2, TasksStep
<1>4. udata' = udata /\ \A u \in Tasks \ {t} : stage'[u] = stage[u]
  BY <1>1, <1>2, WaitTouches
<1>5. udata[t] \in W!Reasons
  BY <1>1 DEF TypesOK, W!TasksOK, W!Reasons
<1>6. /\ call' \in [Tasks -> Calls \cup {NULL}]
      /\ \A u \in Tasks \ {t} : call'[u] = call[u]
      /\ \A f \in Fds : Sent(f)'[t] = Sent(f)[t]
      /\ call'[t] # NULL => call'[t].reason = udata'[t]
  <2>1. CASE call[t] = NULL
    BY <1>1, <1>2, <2>1 DEF TypesOK, Sent
  <2>2. CASE call[t] # NULL
    <3> DEFINE c == [call[t] EXCEPT !.reason = udata[t]]
    <3>1. call[t] \in Calls
      BY <1>1, <2>2, InProgress
    <3>2. /\ c \in Calls /\ c # NULL /\ c.reason = udata[t]
          /\ c.op = call[t].op /\ c.fd = call[t].fd /\ c.tot = call[t].tot
      BY <1>5, <3>1, WrapAssumption DEF Calls, W!Reasons
    <3>3. call' = [call EXCEPT ![t] = c]
      BY <1>2, <2>2
    <3> HIDE DEF c
    <3>4. /\ call' \in [Tasks -> Calls \cup {NULL}] /\ call'[t] = c
          /\ \A u \in Tasks \ {t} : call'[u] = call[u]
      BY <1>1, <3>2, <3>3 DEF TypesOK
    <3>5. \A f \in Fds : Sent(f)'[t] = Sent(f)[t]
      BY <2>2, <3>2, <3>4 DEF Sent
    <3> QED BY <1>4, <3>2, <3>4, <3>5
  <2> QED BY <2>1, <2>2
<1>7. TypesOK'
  BY <1>1, <1>2, <1>3, <1>6 DEF TypesOK
<1>8. NothingLost'
  BY <1>1, <1>2, <1>6, NoBytes
<1>9. KeepsReason(t)'
  BY <1>6 DEF KeepsReason
<1> QED BY <1>2, <1>4, <1>6, <1>7, <1>8, <1>9, OneTask

\* Steps between calls, and the fd task's.
LEMMA OtherKeeps ==
  ASSUME IInv, NEW t \in Tasks, givesUp(t) \/ dispatch(t) \/ wakes(t)
  PROVE  IInv'
<1>1. TypesOK /\ NothingLost
  BY DEF IInv
<1>2. UNCHANGED <<sock, call, told>> /\ ~aborted
  BY DEF givesUp, dispatch, wakes, W!pauses, W!taskdelay, W!aborts, W!dispatch, W!wakes,
         W!Runs
<1>3. W!TasksOK'
  BY <1>1, TasksStep DEF givesUp, dispatch, wakes
<1>4. /\ outcome' = outcome \/ outcome' = [outcome EXCEPT ![t] = NULL]
      /\ outcome' = [u \in Tasks |-> outcome'[u]]
      /\ \A u \in Tasks \ {t} : outcome'[u] = outcome[u]
      /\ outcome'[t] \in {NULL, outcome[t]}
  <2>1. outcome' = outcome \/ outcome' = [outcome EXCEPT ![t] = NULL]
    BY DEF givesUp, dispatch, wakes
  <2> QED BY <1>1, <2>1 DEF TypesOK
<1>5. TypesOK'
  BY <1>1, <1>2, <1>3, <1>4 DEF TypesOK
<1>6. NothingLost'
  BY <1>1, <1>2 DEF NothingLost, Underway
<1>7. \A u \in Tasks \ {t} : stage'[u] = stage[u] /\ udata'[u] = udata[u]
  BY <1>1, WaitTouches DEF givesUp, dispatch, wakes
<1>8. KeepsReason(t)'
  <2>1. KeepsReason(t)
    BY DEF IInv, ReasonKept, KeepsReason
  <2>2. CASE givesUp(t)
    BY <1>2, <2>2 DEF givesUp, KeepsReason
  <2>3. CASE dispatch(t)
    BY <1>1, <1>2, <2>1, <2>3, WaitTouches DEF dispatch, KeepsReason
  <2>4. CASE wakes(t)
    BY <1>1, <2>4, WaitTouches DEF wakes, KeepsReason
  <2> QED BY <2>2, <2>3, <2>4
<1> QED BY <1>2, <1>4, <1>5, <1>6, <1>7, <1>8, OneTask

LEMMA PeerKeeps ==
  ASSUME IInv, NEW f \in Fds, peer(f)
  PROVE  IInv'
<1>1. TypesOK /\ NothingLost /\ ReasonKept /\ OutcomesTrue
  BY DEF IInv
<1>2. UNCHANGED <<taskVars, call, outcome, told>> /\ sock[f].state = "open"
  BY DEF peer
<1>3. \A g \in Fds : /\ sock[g] \in Sockets /\ Balanced(g) /\ Underway(g)' = Underway(g)
                     /\ told[g].read \in Nat /\ told[g].written \in Nat
  BY <1>1, <1>2 DEF TypesOK, NothingLost, Balanced, Underway
<1>4. \A g \in Fds : Underway(g) \in Nat
  <2> SUFFICES ASSUME NEW g \in Fds PROVE Underway(g) \in Nat
    OBVIOUS
  <2>1. Sent(g) \in [Tasks -> Nat]
    BY <1>1, SentType
  <2>2. Cardinality(Bytes(Sent(g))) \in Nat
    BY <2>1, BytesFinite DEF Bytes
  <2> QED BY <2>2, UnderwayIsBytes
<1>5. /\ sock' \in [Fds -> Sockets]
      /\ \A g \in Fds \ {f} : sock'[g] = sock[g]
      /\ sock'[f].in + sock'[f].coming = sock[f].in + sock[f].coming
      /\ sock'[f].room + sock'[f].going = sock[f].room + sock[f].going
  <2>1. CASE sock[f].coming > 0
             /\ sock' = [sock EXCEPT ![f].in = @ + 1, ![f].coming = @ - 1]
    <3> DEFINE s == [sock[f] EXCEPT !.in = @ + 1, !.coming = @ - 1]
    <3>0. /\ s \in Sockets
          /\ s.in = sock[f].in + 1 /\ s.coming = sock[f].coming - 1
          /\ s.room = sock[f].room /\ s.going = sock[f].going
          /\ sock[f].in \in Nat /\ sock[f].coming \in Nat
      <4>1. /\ sock[f] \in Sockets /\ sock[f].in + 1 \in Nat /\ sock[f].coming - 1 \in Nat
            /\ sock[f].in \in Nat /\ sock[f].coming \in Nat
        BY <1>3, <2>1 DEF Sockets
      <4> QED BY <4>1 DEF Sockets
    <3>1. s \in Sockets /\ s.in + s.coming = sock[f].in + sock[f].coming
          /\ s.room = sock[f].room /\ s.going = sock[f].going
      <4>1. s.in + s.coming = sock[f].in + sock[f].coming
        BY <3>0
      <4> QED BY <3>0, <4>1
    <3>2. sock' = [sock EXCEPT ![f] = s]
      BY <1>1, <2>1 DEF TypesOK, Sockets
    <3> HIDE DEF s
    <3> QED BY <1>1, <3>1, <3>2 DEF TypesOK
  <2>2. CASE sock[f].going > 0
             /\ sock' = [sock EXCEPT ![f].room = @ + 1, ![f].going = @ - 1]
    <3> DEFINE s == [sock[f] EXCEPT !.room = @ + 1, !.going = @ - 1]
    <3>0. /\ s \in Sockets
          /\ s.room = sock[f].room + 1 /\ s.going = sock[f].going - 1
          /\ s.in = sock[f].in /\ s.coming = sock[f].coming
          /\ sock[f].room \in Nat /\ sock[f].going \in Nat
      <4>1. /\ sock[f] \in Sockets /\ sock[f].room + 1 \in Nat /\ sock[f].going - 1 \in Nat
            /\ sock[f].room \in Nat /\ sock[f].going \in Nat
        BY <1>3, <2>2 DEF Sockets
      <4> QED BY <4>1 DEF Sockets
    <3>1. s \in Sockets /\ s.room + s.going = sock[f].room + sock[f].going
          /\ s.in = sock[f].in /\ s.coming = sock[f].coming
      <4>1. s.room + s.going = sock[f].room + sock[f].going
        BY <3>0
      <4> QED BY <3>0, <4>1
    <3>2. sock' = [sock EXCEPT ![f] = s]
      BY <1>1, <2>2 DEF TypesOK, Sockets
    <3> HIDE DEF s
    <3> QED BY <1>1, <3>1, <3>2 DEF TypesOK
  <2>3. ASSUME NEW end \in {"reset", "dead"}, sock' = [sock EXCEPT ![f].state = end]
        PROVE  /\ sock' \in [Fds -> Sockets]
               /\ \A g \in Fds \ {f} : sock'[g] = sock[g]
               /\ sock'[f].in + sock'[f].coming = sock[f].in + sock[f].coming
               /\ sock'[f].room + sock'[f].going = sock[f].room + sock[f].going
    BY <1>1, <2>3 DEF TypesOK, Sockets
  <2> QED BY <2>1, <2>2, <2>3 DEF peer
<1>6. ASSUME NEW g \in Fds PROVE Balanced(g)'
  <2>1. CASE g # f
    <3>1. sock'[g] = sock[g]
      BY <1>5, <2>1
    <3> QED BY <1>2, <1>3, <3>1 DEF Balanced
  <2>2. CASE g = f
    <3>1. /\ told[f].read + sock[f].in + sock[f].coming = Supply
          /\ told[f].written + Underway(f) + sock[f].room + sock[f].going = Demand
      BY <1>2, <1>3 DEF Balanced
    <3>2. sock[f] \in Sockets /\ sock'[f] \in Sockets
      BY <1>3, <1>5
    <3>3. /\ sock[f].in \in Nat /\ sock[f].coming \in Nat /\ sock[f].room \in Nat
          /\ sock[f].going \in Nat
          /\ sock'[f].in \in Nat /\ sock'[f].coming \in Nat /\ sock'[f].room \in Nat
          /\ sock'[f].going \in Nat
      BY <3>2 DEF Sockets
    <3>4. /\ told[f].read + sock'[f].in + sock'[f].coming = Supply
          /\ told[f].written + Underway(f) + sock'[f].room + sock'[f].going = Demand
      BY <1>3, <1>4, <1>5, <3>1, <3>3
    <3>5. /\ told[f].written + Underway(f) + sock'[f].room + sock'[f].going <= Demand
      BY <3>4, WrapAssumption
    <3> QED BY <1>2, <1>3, <2>2, <3>4, <3>5 DEF Balanced
  <2> QED BY <2>1, <2>2
<1>7. NothingLost'
  BY <1>6 DEF NothingLost, Balanced
<1>8. TypesOK'
  <2>1. W!TasksOK'
    BY <1>1, <1>2 DEF TypesOK, W!TasksOK, taskVars
  <2> QED BY <1>1, <1>2, <1>5, <2>1 DEF TypesOK
<1>9. ReasonKept' /\ OutcomesTrue'
  BY <1>1, <1>2 DEF ReasonKept, OutcomesTrue, taskVars
<1> QED BY <1>7, <1>8, <1>9 DEF IInv

LEMMA StepIInv == IInv /\ [Next]_vars => IInv'
<1> SUFFICES ASSUME IInv, [Next]_vars PROVE IInv'
  OBVIOUS
<1>1. ASSUME NEW t \in Tasks, NEW op \in {"read", "write", "read1"}, NEW f \in Fds,
             NEW n \in Sizes, enters(t, op, f, n)
      PROVE  IInv'
  BY <1>1, EntersKeeps
<1>2. ASSUME NEW t \in Tasks, CallStep(t) PROVE IInv'
  BY <1>2, LooksKeeps, ReadsKeeps, WritesKeeps, ReturnsKeeps DEF CallStep
<1>3. ASSUME NEW t \in Tasks, givesUp(t) \/ dispatch(t) \/ wakes(t) PROVE IInv'
  BY <1>3, OtherKeeps
<1>4. ASSUME NEW f \in Fds, peer(f) PROVE IInv'
  BY <1>4, PeerKeeps
<1>5. CASE UNCHANGED vars
  BY <1>5 DEF vars, taskVars, IInv, TypesOK, W!TasksOK, ReasonKept, NothingLost, OutcomesTrue,
              Underway
<1>6. CASE aborted /\ UNCHANGED vars
  BY <1>5, <1>6
<1> QED BY <1>1, <1>2, <1>3, <1>4, <1>5, <1>6 DEF Next

THEOREM Invariance == Spec => []IInv
BY InitIInv, StepIInv, PTL DEF Spec

-----------------------------------------------------------------------------

\* What left the socket is what readers were told they got, and what went into
\* it is what writers were told they wrote or are still writing, but for writes
\* that failed (__wrap_read, __wrap_write).
THEOREM BytesCounted == Spec => []NothingLost
<1>1. IInv => NothingLost
  BY DEF IInv
<1> QED BY <1>1, Invariance, PTL

\* A call fails for the reason its own wait ended with, and a write is short
\* only then (__wrap_read, __wrap_write).
THEOREM OutcomesCorrect == Spec => []OutcomesTrue
<1>1. IInv => OutcomesTrue
  BY DEF IInv
<1> QED BY <1>1, Invariance, PTL

-----------------------------------------------------------------------------

\* The calls, the client and the connections keep to FdWait.

LEMMA PossibleType ==
  /\ Possible \in [Fds -> SUBSET {"r", "w", "e"}]
  /\ Possible' \in [Fds -> SUBSET {"r", "w", "e"}]
BY DEF Possible

\* While a task runs, and while no descriptor changes, anything goes.
LEMMA MayChange ==
  ASSUME UNCHANGED sock \/ \E t \in Tasks : W!Runs(t)
  PROVE  W!Changes
<1>1. CASE UNCHANGED sock
  BY <1>1, PossibleType DEF W!Changes, Possible
<1>2. CASE \E t \in Tasks : W!Runs(t)
  <2>1. taskrunning # NULL
    BY <1>2, WrapAssumption DEF W!Runs
  <2> QED BY <2>1, PossibleType DEF W!Changes
<1> QED BY <1>1, <1>2

\* The steps of a task that FdWait has an action for, and those it does not see.
LEMMA TaskKeepsTo ==
  ASSUME TypesOK, NEW t \in Tasks, W!Changes,
         \/ UNCHANGED taskVars
         \/ /\ W!Runs(t) /\ udata' = [udata EXCEPT ![t] = "NULL"]
            /\ UNCHANGED <<taskrunning, stage, wait, aborted>>
         \/ \E f \in Fds, rw \in {"r", "w"} : waits(t, f, rw)
         \/ W!returns(t) \/ W!pauses(t) \/ W!taskdelay(t) \/ W!aborts(t) \/ W!dispatch(t)
  PROVE  W!Next
<1>1. CASE UNCHANGED taskVars
  BY <1>1 DEF W!Next, W!taskVars, taskVars
<1>2. CASE /\ W!Runs(t) /\ udata' = [udata EXCEPT ![t] = "NULL"]
           /\ UNCHANGED <<taskrunning, stage, wait, aborted>>
  <2>1. W!taskdata(t, "NULL") /\ "NULL" \in {"NULL"}
    BY <1>2 DEF W!taskdata
  <2> QED BY <2>1 DEF W!Next, W!TaskStep
<1>3. CASE \E f \in Fds, rw \in {"r", "w"} : waits(t, f, rw)
  BY <1>3 DEF waits, W!Next, W!TaskStep
<1>4. CASE W!returns(t) \/ W!pauses(t) \/ W!taskdelay(t) \/ W!aborts(t) \/ W!dispatch(t)
  BY <1>4 DEF W!Next, W!TaskStep
<1> QED BY <1>1, <1>2, <1>3, <1>4

LEMMA CallKeepsTo ==
  ASSUME IInv, NEW t \in Tasks, CallStep(t)
  PROVE  W!Next
<1> USE DEF IInv
<1>1. ASSUME NEW rw \in {"r", "w"}, again(t, rw), call[t] # NULL, W!Runs(t)
      PROVE  W!Next
  <2>1. UNCHANGED taskVars \/ waits(t, call[t].fd, rw)
    BY <1>1, AgainDoes
  <2>2. call[t].fd \in Fds
    BY <1>1, InProgress
  <2>3. W!Changes
    BY <1>1, MayChange
  <2> QED BY <2>1, <2>2, <2>3, TaskKeepsTo
<1>2. CASE looks(t)
  <2>1. /\ call[t] # NULL /\ UNCHANGED sock /\ W!Runs(t)
        /\ \/ udata' = [udata EXCEPT ![t] = "NULL"] /\ UNCHANGED <<taskrunning, stage, wait, aborted>>
           \/ waits(t, call[t].fd, "r")
    BY <1>2, LooksDoes DEF looks, At
  <2>2. call[t].fd \in Fds
    BY <2>1, InProgress
  <2>3. W!Changes
    BY <2>1, MayChange
  <2> QED BY <2>1, <2>2, <2>3, TaskKeepsTo
<1>3. CASE reads(t)
  <2>1. W!Runs(t) /\ call[t] # NULL /\ (UNCHANGED taskVars \/ again(t, "r"))
    BY <1>3, ReadsDoes DEF reads, At
  <2>2. W!Changes
    BY <2>1, MayChange
  <2> QED BY <1>1, <2>1, <2>2, TaskKeepsTo
<1>4. CASE writes(t)
  <2>1. W!Runs(t) /\ call[t] # NULL /\ (UNCHANGED taskVars \/ again(t, "w"))
    BY <1>4, WritesDoes DEF writes, At
  <2>2. W!Changes
    BY <2>1, MayChange
  <2> QED BY <1>1, <2>1, <2>2, TaskKeepsTo
<1>5. CASE returns(t)
  <2>1. W!returns(t) /\ W!Changes
    BY <1>5, MayChange DEF returns
  <2> QED BY <2>1, TaskKeepsTo
<1> QED BY <1>2, <1>3, <1>4, <1>5 DEF CallStep

\* What the peer does makes more possible, never less.
LEMMA PeerKeepsTo ==
  ASSUME IInv, NEW f \in Fds, peer(f)
  PROVE  W!Next
<1>1. sock[f] \in Sockets /\ sock \in [Fds -> Sockets] /\ sock[f].state = "open"
  BY DEF IInv, TypesOK, peer
<1>2. UNCHANGED taskVars
  BY DEF peer
<1>3. /\ \A g \in Fds \ {f} : sock'[g] = sock[g]
      /\ readable(sock[f]) => readable(sock'[f])
      /\ writable(sock[f]) => writable(sock'[f])
  BY <1>1 DEF peer, readable, writable, Sockets
<1>4. \A g \in Fds : Possible[g] \subseteq Possible'[g]
  <2>1. \A g \in Fds \ {f} : Possible'[g] = Possible[g]
    BY <1>3 DEF Possible
  <2>2. Possible[f] \subseteq Possible'[f]
    BY <1>1, <1>3 DEF Possible
  <2> QED BY <2>1, <2>2
<1>5. W!Changes
  BY <1>4, PossibleType DEF W!Changes
<1> QED BY <1>2, <1>5 DEF W!Next, W!taskVars, taskVars

LEMMA StepKeepsTo ==
  IInv /\ [Next]_vars => [W!Next]_<<taskVars, Possible>>
<1> SUFFICES ASSUME IInv, [Next]_vars PROVE W!Next \/ UNCHANGED <<taskVars, Possible>>
  OBVIOUS
<1>1. ASSUME NEW t \in Tasks, NEW op \in {"read", "write", "read1"}, NEW f \in Fds,
             NEW n \in Sizes, enters(t, op, f, n)
      PROVE  W!Next
  <2>1. /\ W!Runs(t) /\ UNCHANGED <<taskrunning, stage, wait, aborted, sock>>
        /\ udata' = udata \/ udata' = [udata EXCEPT ![t] = "NULL"]
    BY <1>1 DEF enters, Idle
  <2>2. W!Changes
    BY <2>1, MayChange
  <2> QED BY <2>1, <2>2, TaskKeepsTo DEF IInv, taskVars
<1>2. ASSUME NEW t \in Tasks, CallStep(t) PROVE W!Next
  BY <1>2, CallKeepsTo
<1>3. ASSUME NEW t \in Tasks, givesUp(t) \/ dispatch(t) PROVE W!Next
  <2>1. UNCHANGED sock /\ (W!pauses(t) \/ W!taskdelay(t) \/ W!aborts(t) \/ W!dispatch(t))
    BY <1>3 DEF givesUp, dispatch
  <2> QED BY <2>1, MayChange, TaskKeepsTo DEF IInv
<1>4. ASSUME NEW t \in Tasks, wakes(t) PROVE W!Next
  <2>1. PICK reason \in W!Reasons : W!wakes([u \in {t} |-> reason])
    BY <1>4 DEF wakes
  <2>2. [u \in {t} |-> reason] \in [{t} -> W!Reasons] /\ {t} \in SUBSET Tasks
    OBVIOUS
  <2>3. UNCHANGED Possible
    BY <1>4 DEF wakes, Possible
  <2> QED BY <2>1, <2>2, <2>3 DEF W!Next, W!Wakes
<1>5. ASSUME NEW f \in Fds, peer(f) PROVE W!Next
  BY <1>5, PeerKeepsTo
<1>6. CASE UNCHANGED vars
  BY <1>6 DEF vars, taskVars, Possible
<1> QED BY <1>1, <1>2, <1>3, <1>4, <1>5, <1>6 DEF Next

\* The wrapped calls, their clients and the connections are a client of fd.c as
\* FdWait describes it, which fd.c keeps (FdWaitPromised): tasks call taskdelay,
\* fdwait and taskdata only while they run, and nothing becomes impossible on a
\* descriptor while no task runs.
THEOREM KeepsToFdWait == Spec => W!FdWaitSpec
<1>1. Init => W!Init
  BY DEF Init, W!Init, Possible, readable, writable
<1> QED BY <1>1, Invariance, StepKeepsTo, PTL
        DEF Spec, W!FdWaitSpec, W!waitVars, W!taskVars, taskVars

=============================================================================
