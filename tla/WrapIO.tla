------------------------------- MODULE WrapIO -------------------------------
(***************************************************************************)
(* libtask/fd.c: __wrap_read, __wrap_write and read1, which turn a call on *)
(* a nonblocking descriptor into one that blocks only its task, on top of  *)
(* what FdWait promises.  The descriptors are connected stream sockets     *)
(* that the tasks share; the kernel and the peer are the environment.  A   *)
(* step is one system call, or what follows it up to the next system call, *)
(* the next switch or the return.                                          *)
(***************************************************************************)
EXTENDS Integers, FiniteSets, FiniteSetsExt

CONSTANTS Tasks, NULL, Fds, Callback,
          Refused, \* descriptors that epoll_ctl may refuse to register
          Sizes,   \* arguments n
          Supply,  \* bytes the peer sends on each descriptor
          Demand   \* bytes the peer takes

\* A call in progress.  next: look at udata, or do the system call.  reason:
\* how its last fdwait ended.
Calls == [op : {"read", "write", "read1"}, fd : Fds, n : Sizes, tot : Nat,
          next : {"look", "do"}, reason : {"NULL", "LIBTASK_TIMEOUT", "EIO"}]

ASSUME WrapAssumption ==
  /\ NULL \notin Tasks \cup Calls /\ IsFiniteSet(Tasks)
  /\ Sizes \subseteq Nat \ {0} /\ {Supply, Demand} \subseteq Nat
  /\ Callback \in BOOLEAN /\ Refused \subseteq Fds

VARIABLES
  taskrunning, stage, wait, udata, aborted,  \* of FdWait
  sock,     \* the sockets
  call,     \* the locals of the call a task is in, NULL outside
  outcome,  \* history: what the task's last call returned, until it goes on
  told      \* history: bytes the callers were told they read and wrote

taskVars == <<taskrunning, stage, wait, udata, aborted>>
vars == <<taskVars, sock, call, outcome, told>>

\* A socket has bytes to read and still to come, and room to write and still to
\* be made; it is dead when a reset was reported or the peer closed it.
readable(s) == s.in > 0 \/ s.state # "open"
writable(s) == s.room > 0 \/ s.state # "open"

Possible == [f \in Fds |-> (IF readable(sock[f]) THEN {"r"} ELSE {})
                           \cup (IF writable(sock[f]) THEN {"w"} ELSE {})
                           \cup (IF sock[f].state # "open" THEN {"e"} ELSE {})]

W == INSTANCE FdWait WITH
  Clients <- Tasks, RW <- {"r", "w"}, Data <- {"NULL"}, MaxEvents <- Cardinality(Tasks),
  possible <- Possible

Init ==
  /\ W!WaitInit
  /\ sock = [f \in Fds |-> [in |-> 0, coming |-> Supply, room |-> 0, going |-> Demand,
                            state |-> "open"]]
  /\ call = [t \in Tasks |-> NULL]
  /\ outcome = [t \in Tasks |-> NULL]
  /\ told = [f \in Fds |-> [read |-> 0, written |-> 0]]

-----------------------------------------------------------------------------

Idle(t) == W!Runs(t) /\ call[t] = NULL
At(t, next) == W!Runs(t) /\ call[t] # NULL /\ call[t].next = next

\* Fault: the data of the task is looked at before it is cleared.
enters_LooksFirst(t, op, f, n) ==
  /\ Idle(t)
  /\ call' = [call EXCEPT ![t] = [op |-> op, fd |-> f, n |-> n, tot |-> 0,
                                  next |-> "look", reason |-> "NULL"]]
  /\ outcome' = [outcome EXCEPT ![t] = NULL]
  /\ UNCHANGED <<taskVars, sock, told>>

\* The calls up to their first system call.  read1 looks at udata first.
enters(t, op, f, n) ==
  /\ Idle(t)
  /\ call' = [call EXCEPT ![t] = [op |-> op, fd |-> f, n |-> n, tot |-> 0,
                                  next |-> IF op = "read1" THEN "look" ELSE "do",
                                  reason |-> "NULL"]]
  /\ udata' = IF op = "read1" THEN udata ELSE [udata EXCEPT ![t] = "NULL"]
  /\ outcome' = [outcome EXCEPT ![t] = NULL]
  /\ UNCHANGED <<taskrunning, stage, wait, aborted, sock, told>>

leaves(t, ret, errno) ==
  LET f == call[t].fd
      n == IF ret > 0 THEN ret ELSE 0
  IN  /\ call' = [call EXCEPT ![t] = NULL]
      /\ outcome' = [outcome EXCEPT ![t] =
           [op |-> call[t].op, n |-> call[t].n, ret |-> ret, errno |-> errno,
            reason |-> call[t].reason]]
      /\ told' = IF call[t].op = "write" THEN [told EXCEPT ![f].written = @ + n]
                                         ELSE [told EXCEPT ![f].read = @ + n]

goesOn(t, next) ==
  call' = [call EXCEPT ![t].next = next] /\ UNCHANGED <<outcome, told>>

\* A task goes to sleep, whether for a dup is all the same here, unless the fd
\* task cannot be started or a dup cannot be had.
waits(t, f, rw) == W!fdwait(t, f, rw, FALSE) \/ W!aborts(t)

\* Fault: what was written before the wait is forgotten.
failed_Forgets(t) == -1

\* What a call returns when its wait did not end with an event.
failed(t) == IF call[t].op = "write" /\ call[t].tot > 0 THEN call[t].tot ELSE -1

\* The test of udata: after an fdwait, and in read1 before each.
looks(t) ==
  /\ At(t, "look")
  /\ udata' = [udata EXCEPT ![t] = "NULL"]
  /\ \/ /\ udata[t] # "NULL"
        /\ leaves(t, failed(t), udata[t])
        /\ UNCHANGED <<taskrunning, stage, wait, aborted>>
     \/ /\ udata[t] = "NULL"
        /\ IF call[t].op = "read1" THEN waits(t, call[t].fd, "r")
                                   ELSE UNCHANGED <<taskrunning, stage, wait, aborted>>
        /\ goesOn(t, "do")
  /\ UNCHANGED sock

\* Fault: the system call is done again at once.
again_AtOnce(t, rw) ==
  goesOn(t, IF call[t].op = "read1" THEN "look" ELSE "do") /\ UNCHANGED taskVars

\* The system call failed with EAGAIN.
again(t, rw) ==
  IF call[t].op = "read1" THEN goesOn(t, "look") /\ UNCHANGED taskVars
  ELSE waits(t, call[t].fd, rw) /\ goesOn(t, "look")

\* __real_read: some bytes, the report of a reset, the end of the stream, or
\* EAGAIN.
reads(t) ==
  LET f == call[t].fd
      s == sock[f]
  IN  /\ At(t, "do") /\ call[t].op # "write"
      /\ \/ \E k \in 1 .. Min({call[t].n, s.in}) :
              /\ sock' = [sock EXCEPT ![f].in = @ - k]
              /\ leaves(t, k, "0")
              /\ UNCHANGED taskVars
         \/ /\ s.in = 0 /\ s.state = "reset"
            /\ sock' = [sock EXCEPT ![f].state = "dead"]
            /\ leaves(t, -1, "ECONNRESET")
            /\ UNCHANGED taskVars
         \/ /\ s.in = 0 /\ s.state = "dead"
            /\ leaves(t, 0, "0")
            /\ UNCHANGED <<taskVars, sock>>
         \/ /\ ~readable(s)
            /\ again(t, "r")
            /\ UNCHANGED sock

\* __real_write of what is left, whose return ends the call or its loop.
writes(t) ==
  LET f == call[t].fd
      s == sock[f]
      tot == call[t].tot
  IN  /\ At(t, "do") /\ call[t].op = "write"
      /\ \/ \E k \in 1 .. Min({call[t].n - tot, s.room}) :
              /\ s.state = "open"
              /\ sock' = [sock EXCEPT ![f].room = @ - k]
              /\ IF tot + k = call[t].n THEN leaves(t, tot + k, "0")
                 ELSE /\ call' = [call EXCEPT ![t].tot = tot + k]
                      /\ UNCHANGED <<outcome, told>>
              /\ UNCHANGED taskVars
         \/ /\ s.state # "open"
            /\ sock' = [sock EXCEPT ![f].state = "dead"]
            /\ leaves(t, -1, IF s.state = "reset" THEN "ECONNRESET" ELSE "EPIPE")
            /\ UNCHANGED taskVars
         \/ /\ ~writable(s)
            /\ again(t, "w")
            /\ UNCHANGED sock

\* The rest of fdwait, or of a taskdelay of the client's own.
returns(t) ==
  /\ W!returns(t)
  /\ call' = IF call[t] = NULL THEN call ELSE [call EXCEPT ![t].reason = udata[t]]
  /\ UNCHANGED <<sock, outcome, told>>

-----------------------------------------------------------------------------

\* Between calls a client gives up the CPU, also to a delay.
givesUp(t) ==
  /\ call[t] = NULL
  /\ W!pauses(t) \/ W!taskdelay(t) \/ W!aborts(t)
  /\ outcome' = [outcome EXCEPT ![t] = NULL]
  /\ UNCHANGED <<sock, call, told>>

dispatch(t) == W!dispatch(t) /\ UNCHANGED <<sock, call, outcome, told>>

\* The fd task wakes t.  Others woken in the same pass are a step of their own.
wakes(t) ==
  /\ \E reason \in W!Reasons : W!wakes([u \in {t} |-> reason])
  /\ UNCHANGED <<sock, call, outcome, told>>

\* The peer sends, makes room, or closes or resets the connection.
peer(f) ==
  LET s == sock[f]
  IN  /\ ~aborted /\ s.state = "open"
      /\ \/ /\ s.coming > 0
            /\ sock' = [sock EXCEPT ![f].in = @ + 1, ![f].coming = @ - 1]
         \/ /\ s.going > 0
            /\ sock' = [sock EXCEPT ![f].room = @ + 1, ![f].going = @ - 1]
         \/ \E end \in {"reset", "dead"} : sock' = [sock EXCEPT ![f].state = end]
      /\ UNCHANGED <<taskVars, call, outcome, told>>

CallStep(t) == looks(t) \/ reads(t) \/ writes(t) \/ returns(t)

Next ==
  \/ \E t \in Tasks :
       \/ \E op \in {"read", "write", "read1"}, f \in Fds, n \in Sizes : enters(t, op, f, n)
       \/ CallStep(t) \/ givesUp(t) \/ dispatch(t) \/ wakes(t)
  \/ \E f \in Fds : peer(f)
  \/ aborted /\ UNCHANGED vars

\* A task that is awake runs in the end, goes on with its call and gives up the
\* CPU after it; the fd task wakes every sleeper, at the latest in time.
Fairness ==
  /\ WF_vars(\E t \in Tasks : CallStep(t))
  /\ SF_vars(\E t \in Tasks : givesUp(t))
  /\ \A t \in Tasks : SF_vars(dispatch(t)) /\ SF_vars(wakes(t))

Spec == Init /\ [][Next]_vars
FairSpec == Spec /\ Fairness

-----------------------------------------------------------------------------

\* The number of bytes written by calls in progress on f, byte i of task t's
\* call for each i up to its tot.
Underway(f) ==
  LET writers == {t \in Tasks : call[t] # NULL /\ call[t].op = "write" /\ call[t].fd = f}
  IN  Cardinality(UNION {{t} \X (1 .. call[t].tot) : t \in writers})

\* No byte is lost between the kernel and the callers, however timeouts, short
\* writes and other tasks on the same descriptor come in between: what readers
\* were told they got is what left the socket, and what writers were told they
\* wrote, with what calls in progress have written, is what went into it.  The
\* one exception is the code's: a write that fails returns -1, whatever it had
\* written before (__wrap_read, __wrap_write).
NothingLost ==
  \A f \in Fds :
    LET s == sock[f]
        written == told[f].written + Underway(f)
    IN  /\ told[f].read + s.in + s.coming = Supply
        /\ written + s.room + s.going <= Demand
        /\ s.state = "open" => written + s.room + s.going = Demand

\* "Like regular read(), but puts task to sleep": a call never returns EAGAIN;
\* it fails with LIBTASK_TIMEOUT or EIO only if the wait it made itself ended
\* so; and a write is short only then (read1 may report an earlier timeout).
OutcomesTrue ==
  \A t \in Tasks : outcome[t] # NULL =>
    LET o == outcome[t]
    IN  /\ o.errno # "EAGAIN"
        /\ o.errno \in {"LIBTASK_TIMEOUT", "EIO"} => o.reason = o.errno \/ o.op = "read1"
        /\ o.op = "write" /\ 0 <= o.ret /\ o.ret < o.n =>
             o.ret > 0 /\ o.reason \in {"LIBTASK_TIMEOUT", "EIO"}

\* Every call returns, whatever the peer does and the other tasks take, if the
\* peer sends and takes a bounded number of bytes, or an assertion of fdwait
\* ends the program.
CallsReturn == \A t \in Tasks : call[t] # NULL ~> (call[t] = NULL \/ aborted)

=============================================================================
