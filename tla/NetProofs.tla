----------------------------- MODULE NetProofs -----------------------------
(***************************************************************************)
(* net.c loses no descriptor, makes no accept or connect that blocks, and  *)
(* returns what is so, for any number of tasks, descriptors and peers, and *)
(* keeps to FdWait.  The last sections are about the two parts of libtask that only *)
(* compute: parseip of net.c, and print.c.                                 *)
(***************************************************************************)
EXTENDS Net, ParseIp, Printing, SequenceTheorems, NaturalsInduction,
        WellFoundedInduction, TLAPS

\* Task t has opened f in a netdial that has not returned.
DialsOn(t, f) == call[t] # NULL /\ call[t].op = "dial" /\ call[t].fd = f

TypesOK ==
  /\ sock \in [Fds -> Sockets]
  /\ call \in [Tasks -> Calls \cup {NULL}]
  /\ handed \subseteq Fds
  /\ udata \in [Tasks -> W!Reasons]

\* What a call in progress is about: a listener that was returned, or a
\* descriptor of its own.
CallsOK ==
  \A t \in Tasks : call[t] # NULL =>
    /\ call[t].op \in {"accept", "dial"} /\ call[t].fd \in Fds
    /\ call[t].op = "accept" <=> call[t].next = "accept"
    /\ call[t].op = "accept" =>
         call[t].fd \in handed /\ sock[call[t].fd].kind = "listener"

Flagged == \A f \in Fds : sock[f].kind # "free" => sock[f].noblock

\* NoLeak descriptor by descriptor: an open one has one owner.
Owned ==
  \A f \in Fds :
    /\ sock[f].kind # "free" <=> f \in handed \/ \E t \in Tasks : DialsOn(t, f)
    /\ \A t \in Tasks : DialsOn(t, f) => f \notin handed
    /\ \A t, u \in Tasks : DialsOn(t, f) /\ DialsOn(u, f) => t = u

\* The inductive invariant.  NoLeak alone is not preserved: that a failing
\* netdial closes its own descriptor and nobody else's needs CallsOK.
IInv == TypesOK /\ CallsOK /\ Flagged /\ Owned

-----------------------------------------------------------------------------

LEMMA SocketType ==
  ASSUME NEW kind \in {"free", "listener", "new", "connecting", "up", "refused"}
  PROVE  /\ Socket(kind) \in Sockets /\ fdnoblock(Socket(kind)) \in Sockets
         /\ Socket(kind).kind = kind
         /\ fdnoblock(Socket(kind)).kind = kind /\ fdnoblock(Socket(kind)).noblock
BY DEF Socket, Sockets, fdnoblock

LEMMA ListenerType ==
  ASSUME NEW listening \in BOOLEAN
  PROVE  LET s == fdnoblock([Socket("listener") EXCEPT !.listening = listening])
         IN  s \in Sockets /\ s.kind = "listener" /\ s.noblock
BY DEF Socket, Sockets, fdnoblock

LEMMA CallType ==
  ASSUME NEW op \in {"announce", "accept", "dial"}, NEW istcp \in BOOLEAN,
         NEW f \in Fds, NEW next \in {"accept", "connect", "check", "done"}
  PROVE  /\ Call(op, istcp, f, next) \in Calls /\ Call(op, istcp, f, next) # NULL
         /\ Call(op, istcp, f, next).op = op /\ Call(op, istcp, f, next).fd = f
         /\ Call(op, istcp, f, next).next = next
<1>1. Call(op, istcp, f, next) \in Calls
  BY DEF Call, Calls
<1>2. NULL \notin Calls
  BY NetAssumption
<1> QED BY <1>1, <1>2 DEF Call

\* A call that waits sleeps, or the program aborts.
LEMMA WaitsDoes ==
  ASSUME NEW t \in Tasks, NEW f, NEW rw, waits(t, f, rw)
  PROVE  /\ taskrunning = t /\ stage[t] = "run" /\ ~aborted /\ udata' = udata
         /\ W!aborts(t) \/ \E own \in BOOLEAN : W!fdwait(t, f, rw, own)
BY DEF waits, W!aborts, W!fdwait, W!Runs

LEMMA InitIInv == Init => IInv
BY SocketType DEF Init, W!WaitInit, W!Reasons, IInv, TypesOK, CallsOK, Flagged, Owned,
                  DialsOn, Calls

\* A call in progress that stays what it is: only its next, reason and
\* overtaken may change, and no descriptor is touched.
LEMMA SameCalls ==
  ASSUME IInv, UNCHANGED <<sock, handed>>,
         udata' \in [Tasks -> W!Reasons], call' \in [Tasks -> Calls \cup {NULL}],
         \A t \in Tasks : /\ call'[t] = NULL <=> call[t] = NULL
                          /\ call[t] # NULL => /\ call'[t].op = call[t].op
                                               /\ call'[t].fd = call[t].fd
                                               /\ call'[t].next = call[t].next
  PROVE  IInv'
BY DEF IInv, TypesOK, CallsOK, Flagged, Owned, DialsOn

\* A call that returns -1 before it opened anything that stays open.
LEMMA FailsEarlyKeeps ==
  ASSUME IInv, NEW t \in Tasks, NEW op, NEW istcp, failsEarly(t, op, istcp)
  PROVE  IInv'
BY DEF failsEarly, Idle, leaves, Result, IInv, TypesOK, CallsOK, Flagged, Owned, DialsOn,
       taskVars

LEMMA NetannounceKeeps ==
  ASSUME IInv, NEW t \in Tasks, NEW istcp \in BOOLEAN, netannounce(t, istcp)
  PROVE  IInv'
<1>1. CASE failsEarly(t, "announce", istcp)
  BY <1>1, FailsEarlyKeeps
<1>2. ASSUME NEW f \in Fds, NEW listening \in BOOLEAN,
             Idle(t), sock[f].kind = "free",
             sock' = [sock EXCEPT ![f] =
                        fdnoblock(IF istcp
                                  THEN [Socket("listener") EXCEPT !.listening = listening]
                                  ELSE Socket("up"))],
             leaves(t, Result(Call("announce", istcp, f, "done"), f, "0")),
             UNCHANGED taskVars
      PROVE  IInv'
  <2>1. PICK s \in Sockets : /\ s.kind # "free" /\ s.noblock
                             /\ sock' = [sock EXCEPT ![f] = s]
    BY <1>2, ListenerType, SocketType
  <2>2. /\ handed' = handed \cup {f} /\ call[t] = NULL
        /\ call' = [call EXCEPT ![t] = NULL] /\ udata' = udata
    BY <1>2, NetAssumption DEF leaves, Result, Idle, taskVars
  <2>3. call' = call
    BY <2>2 DEF IInv, TypesOK
  <2>4. f \notin handed /\ \A u \in Tasks : ~DialsOn(u, f)
    BY <1>2 DEF IInv, Owned
  <2> QED BY <2>1, <2>2, <2>3, <2>4, <1>2 DEF IInv, TypesOK, CallsOK, Flagged, Owned, DialsOn
<1> QED BY <1>1, <1>2 DEF netannounce, Free

LEMMA Netaccept6Keeps ==
  ASSUME IInv, NEW t \in Tasks, NEW f \in Fds, netaccept6(t, f)
  PROVE  IInv'
<1> DEFINE c == Call("accept", TRUE, f, "accept")
<1>1. /\ call[t] = NULL /\ f \in handed /\ sock[f].kind = "listener"
      /\ call' = [call EXCEPT ![t] = c] /\ UNCHANGED <<sock, handed, udata>>
  BY WaitsDoes DEF netaccept6, Idle
<1>2. c \in Calls /\ c # NULL /\ c.op = "accept" /\ c.fd = f /\ c.next = "accept"
  <2>1. c \in Calls
    BY DEF Call, Calls
  <2>2. NULL \notin Calls
    BY NetAssumption
  <2> QED BY <2>1, <2>2 DEF Call
<1> HIDE DEF c
<1> QED BY <1>1, <1>2 DEF IInv, TypesOK, CallsOK, Flagged, Owned, DialsOn

LEMMA NetdialKeeps ==
  ASSUME IInv, NEW t \in Tasks, NEW istcp \in BOOLEAN, netdial(t, istcp)
  PROVE  IInv'
<1>1. CASE failsEarly(t, "dial", istcp)
  BY <1>1, FailsEarlyKeeps
<1>2. ASSUME NEW f \in Fds, Idle(t), sock[f].kind = "free",
             sock' = [sock EXCEPT ![f] = fdnoblock(Socket("new"))],
             call' = [call EXCEPT ![t] = Call("dial", istcp, f, "connect")],
             udata' = [udata EXCEPT ![t] = "NULL"],
             UNCHANGED handed
      PROVE  IInv'
  <2> DEFINE c == Call("dial", istcp, f, "connect")
             s == fdnoblock(Socket("new"))
  <2>1. c \in Calls /\ c # NULL /\ c.op = "dial" /\ c.fd = f /\ c.next = "connect"
    BY CallType
  <2>2. s \in Sockets /\ s.kind = "new" /\ s.noblock
    BY SocketType
  <2>3. call[t] = NULL /\ call' = [call EXCEPT ![t] = c] /\ sock' = [sock EXCEPT ![f] = s]
    BY <1>2 DEF Idle
  <2>4. f \notin handed /\ \A u \in Tasks : ~DialsOn(u, f)
    BY <1>2 DEF IInv, Owned
  <2> HIDE DEF c, s
  <2>5. TypesOK'
    BY <1>2, <2>1, <2>2, <2>3 DEF IInv, TypesOK, W!Reasons
  <2>6. CallsOK' /\ Flagged'
    BY <1>2, <2>1, <2>2, <2>3, <2>4 DEF IInv, TypesOK, CallsOK, Flagged
  <2>7. Owned'
    BY <1>2, <2>1, <2>2, <2>3, <2>4 DEF IInv, TypesOK, Owned, DialsOn
  <2> QED BY <2>5, <2>6, <2>7 DEF IInv
<1> QED BY <1>1, <1>2 DEF netdial, Free

\* A netdial that fails closes its descriptor.
LEMMA GivesKeeps ==
  ASSUME IInv, NEW t \in Tasks, call[t] # NULL, call[t].op = "dial",
         NEW errno, gives(t, errno), UNCHANGED udata
  PROVE  IInv'
<1> DEFINE f == call[t].fd
           s == Socket("free")
<1>1. f \in Fds /\ DialsOn(t, f) /\ f \notin handed
  BY DEF IInv, CallsOK, Owned, DialsOn
<1>2. /\ call' = [call EXCEPT ![t] = NULL] /\ handed' = handed
      /\ sock' = [sock EXCEPT ![f] = s]
  BY DEF gives, leaves, Result
<1>3. s \in Sockets /\ s.kind = "free"
  BY SocketType
<1>4. \A u \in Tasks : call[u] # NULL /\ u # t => call[u].fd # f
  BY <1>1 DEF IInv, CallsOK, Owned, DialsOn
<1> HIDE DEF s
<1>5. TypesOK' /\ CallsOK' /\ Flagged'
  BY <1>1, <1>2, <1>3, <1>4 DEF IInv, TypesOK, CallsOK, Flagged
<1>6. Owned'
  BY <1>1, <1>2, <1>3, <1>4 DEF IInv, TypesOK, Owned, DialsOn
<1> QED BY <1>5, <1>6 DEF IInv

LEMMA ConnectsKeeps ==
  ASSUME IInv, NEW t \in Tasks, connects(t)
  PROVE  IInv'
<1> DEFINE f == call[t].fd
<1>1. call[t] # NULL /\ call[t].next = "connect" /\ call[t].op = "dial" /\ f \in Fds
  BY DEF connects, At, IInv, CallsOK
<1>2. CASE gives(t, "connect") /\ UNCHANGED taskVars
  BY <1>1, <1>2, GivesKeeps DEF taskVars
<1>3. ASSUME NEW kind \in {"up", "connecting"},
             sock' = [sock EXCEPT ![f].kind = kind],
             waits(t, f, "w"),
             call' = [call EXCEPT ![t].next = "check"],
             UNCHANGED handed
      PROVE  IInv'
  <2>1. UNCHANGED udata
    BY <1>3, WaitsDoes
  <2>2. call[t] \in Calls /\ sock[f] \in Sockets
    BY <1>1, NetAssumption DEF IInv, TypesOK
  <2> DEFINE c == [call[t] EXCEPT !.next = "check"]
             s == [sock[f] EXCEPT !.kind = kind]
  <2>3. c \in Calls /\ c # NULL /\ c.op = "dial" /\ c.fd = f /\ c.next = "check"
    BY <1>1, <2>2, NetAssumption DEF Calls
  <2>4. s \in Sockets /\ s.kind = kind /\ s.noblock = sock[f].noblock
    BY <2>2 DEF Sockets
  <2>5. call' = [call EXCEPT ![t] = c] /\ sock' = [sock EXCEPT ![f] = s]
    BY <1>3
  <2>6. sock[f].kind # "free" /\ f \notin handed
    BY <1>1 DEF IInv, Owned, DialsOn
  <2> HIDE DEF c, s
  <2>7. TypesOK' /\ Flagged'
    BY <1>1, <1>3, <2>1, <2>3, <2>4, <2>5, <2>6 DEF IInv, TypesOK, Flagged
  <2>8. CallsOK'
    BY <1>1, <1>3, <2>3, <2>4, <2>5, <2>6 DEF IInv, TypesOK, CallsOK
  <2>9. Owned'
    BY <1>1, <1>3, <2>3, <2>4, <2>5, <2>6 DEF IInv, TypesOK, Owned, DialsOn
  <2> QED BY <2>7, <2>8, <2>9 DEF IInv
<1> QED BY <1>2, <1>3 DEF connects

LEMMA ChecksKeeps ==
  ASSUME IInv, NEW t \in Tasks, checks(t)
  PROVE  IInv'
<1> DEFINE f == call[t].fd
<1>1. /\ call[t] # NULL /\ call[t].next = "check" /\ call[t].op = "dial" /\ f \in Fds
      /\ UNCHANGED udata
  BY DEF checks, At, IInv, CallsOK, taskVars
<1>2. CASE \E errno \in {udata[t], "refused"} : gives(t, errno)
  BY <1>1, <1>2, GivesKeeps
<1>3. CASE leaves(t, Result(call[t], f, "0")) /\ UNCHANGED sock
  <2>1. handed' = handed \cup {f} /\ call' = [call EXCEPT ![t] = NULL] /\ sock' = sock
    BY <1>1, <1>3, NetAssumption DEF leaves, Result
  <2>2. DialsOn(t, f) /\ sock[f].kind # "free"
    BY <1>1 DEF IInv, Owned, DialsOn
  <2> QED BY <1>1, <2>1, <2>2 DEF IInv, TypesOK, CallsOK, Flagged, Owned, DialsOn
<1> QED BY <1>2, <1>3 DEF checks

LEMMA AcceptsKeeps ==
  ASSUME IInv, NEW t \in Tasks, accepts(t)
  PROVE  IInv'
<1> DEFINE f == call[t].fd
<1>1. /\ call[t] # NULL /\ call[t].op = "accept" /\ f \in Fds
      /\ sock[f].kind = "listener" /\ f \in handed /\ UNCHANGED udata
  BY DEF accepts, At, IInv, CallsOK, taskVars
<1>2. ASSUME NEW errno, leaves(t, Result(call[t], NULL, errno)), UNCHANGED sock
      PROVE  IInv'
  <2>1. handed' = handed /\ call' = [call EXCEPT ![t] = NULL] /\ sock' = sock
    BY <1>2 DEF leaves, Result
  <2> QED BY <1>1, <2>1 DEF IInv, TypesOK, CallsOK, Flagged, Owned, DialsOn
<1>3. ASSUME NEW peer_ \in sock[f].backlog, NEW g \in Fds, sock[g].kind = "free",
             sock' = [sock EXCEPT ![f].backlog = @ \ {peer_}, ![g] = fdnoblock(Socket("up"))],
             call' = [u \in Tasks |->
                   IF u = t THEN NULL
                   ELSE IF call[u] # NULL /\ call[u].op = "accept" /\ call[u].fd = f
                        THEN [call[u] EXCEPT !.overtaken = TRUE] ELSE call[u]],
             handed' = handed \cup {g}
      PROVE  IInv'
  <2> DEFINE s == fdnoblock(Socket("up"))
             l == [sock[f] EXCEPT !.backlog = @ \ {peer_}]
  <2>1. s \in Sockets /\ s.kind = "up" /\ s.noblock
    BY SocketType
  <2>2. l \in Sockets /\ l.kind = "listener" /\ l.noblock = sock[f].noblock
    BY <1>1 DEF IInv, TypesOK, Sockets
  <2>3. f # g /\ sock' = [sock EXCEPT ![f] = l, ![g] = s]
    BY <1>1, <1>3
  <2>4. g \notin handed /\ \A u \in Tasks : ~DialsOn(u, g)
    BY <1>3 DEF IInv, Owned
  <2>5. \A u \in Tasks \ {t} :
          /\ call'[u] \in Calls \cup {NULL} /\ (call'[u] = NULL <=> call[u] = NULL)
          /\ call[u] # NULL => /\ call'[u].op = call[u].op /\ call'[u].fd = call[u].fd
                               /\ call'[u].next = call[u].next
    <3> SUFFICES ASSUME NEW u \in Tasks \ {t}, call[u] # NULL
                 PROVE  /\ call'[u] \in Calls
                        /\ call'[u].op = call[u].op /\ call'[u].fd = call[u].fd
                        /\ call'[u].next = call[u].next
      BY <1>3, NetAssumption
    <3>1. call[u] \in Calls
      BY DEF IInv, TypesOK
    <3> QED BY <1>3, <3>1 DEF Calls
  <2>6. call'[t] = NULL
    BY <1>3
  <2> HIDE DEF s, l
  <2>7. TypesOK' /\ Flagged'
    BY <1>1, <1>3, <2>1, <2>2, <2>3, <2>5, <2>6 DEF IInv, TypesOK, Flagged
  <2>8. CallsOK'
    BY <1>1, <1>3, <2>1, <2>2, <2>3, <2>4, <2>5, <2>6 DEF IInv, TypesOK, CallsOK
  <2>9. \A u \in Tasks, h \in Fds : DialsOn(u, h)' <=> DialsOn(u, h)
    BY <1>1, <2>5, <2>6 DEF DialsOn
  <2>10. Owned'
    BY <1>1, <1>3, <2>1, <2>2, <2>3, <2>4, <2>9 DEF IInv, TypesOK, Owned
  <2> QED BY <2>7, <2>8, <2>10 DEF IInv
<1> QED BY <1>2, <1>3 DEF accepts, Free

LEMMA ReturnsKeeps ==
  ASSUME IInv, NEW t \in Tasks, returns(t)
  PROVE  IInv'
<1>1. UNCHANGED <<sock, handed, udata>> /\ udata[t] \in W!Reasons
  BY DEF returns, W!returns, IInv, TypesOK
<1>2. CASE call[t] = NULL
  <2>1. call' = call
    BY <1>2 DEF returns
  <2> QED BY <1>1, <2>1, SameCalls DEF IInv, TypesOK
<1>3. CASE call[t] # NULL
  <2> DEFINE c == [call[t] EXCEPT !.reason = udata[t]]
  <2>1. call[t] \in Calls
    BY <1>3 DEF IInv, TypesOK
  <2>2. /\ c \in Calls /\ c # NULL
        /\ c.op = call[t].op /\ c.fd = call[t].fd /\ c.next = call[t].next
    BY <1>1, <2>1, NetAssumption DEF Calls, W!Reasons
  <2>3. call' = [call EXCEPT ![t] = c]
    BY <1>3 DEF returns
  <2> HIDE DEF c
  <2> QED BY <1>1, <1>3, <2>2, <2>3, SameCalls DEF IInv, TypesOK
<1> QED BY <1>2, <1>3

LEMMA ClosesKeeps ==
  ASSUME IInv, NEW t \in Tasks, NEW f \in Fds, closes(t, f)
  PROVE  IInv'
<1> DEFINE s == Socket("free")
<1>1. s \in Sockets /\ s.kind = "free"
  BY SocketType
<1>2. /\ f \in handed /\ sock' = [sock EXCEPT ![f] = s] /\ handed' = handed \ {f}
      /\ UNCHANGED <<call, udata>>
      /\ \A u \in Tasks : call[u] # NULL => call[u].fd # f
  BY DEF closes, taskVars
<1> HIDE DEF s
<1> QED BY <1>1, <1>2 DEF IInv, TypesOK, CallsOK, Flagged, Owned, DialsOn

LEMMA PeerKeeps ==
  ASSUME IInv, NEW f \in Fds, peer(f)
  PROVE  IInv'
<1>1. PICK s \in Sockets :
        /\ s.noblock = sock[f].noblock /\ sock' = [sock EXCEPT ![f] = s]
        /\ \/ s.kind = sock[f].kind
           \/ s.kind # "free" /\ sock[f].kind # "free" /\ f \notin handed
  <2>1. ASSUME NEW p \in Peers, sock' = [sock EXCEPT ![f].backlog = @ \cup {p}]
        PROVE  \E s \in Sockets : s.kind = sock[f].kind /\ s.noblock = sock[f].noblock
                                  /\ sock' = [sock EXCEPT ![f] = s]
    <3> DEFINE s == [sock[f] EXCEPT !.backlog = @ \cup {p}]
    <3>1. s \in Sockets /\ s.kind = sock[f].kind /\ s.noblock = sock[f].noblock
      BY DEF IInv, TypesOK, Sockets
    <3> QED BY <2>1, <3>1
  <2>2. ASSUME NEW kind \in {"up", "refused"}, sock' = [sock EXCEPT ![f].kind = kind]
        PROVE  \E s \in Sockets : s.kind = kind /\ s.noblock = sock[f].noblock
                                  /\ sock' = [sock EXCEPT ![f] = s]
    <3> DEFINE s == [sock[f] EXCEPT !.kind = kind]
    <3>1. s \in Sockets /\ s.kind = kind /\ s.noblock = sock[f].noblock
      BY DEF IInv, TypesOK, Sockets
    <3> QED BY <2>2, <3>1
  <2> QED BY <2>1, <2>2 DEF peer
<1>2. UNCHANGED <<call, handed, udata>>
  BY DEF peer, taskVars
<1>3. TypesOK' /\ Flagged'
  BY <1>1, <1>2 DEF IInv, TypesOK, Flagged
<1>4. CallsOK'
  BY <1>1, <1>2 DEF IInv, TypesOK, CallsOK
<1>5. Owned'
  BY <1>1, <1>2 DEF IInv, TypesOK, Owned, DialsOn
<1> QED BY <1>3, <1>4, <1>5 DEF IInv

\* Steps that only schedule, put to sleep or wake.
LEMMA WaitingKeeps ==
  ASSUME IInv, NEW t \in Tasks, givesUp(t) \/ dispatch(t) \/ wakes(t)
  PROVE  IInv'
<1>1. UNCHANGED <<sock, call, handed>>
  BY DEF givesUp, dispatch, wakes
<1>2. udata' \in [Tasks -> W!Reasons]
  <2>1. CASE givesUp(t) \/ dispatch(t)
    BY <2>1 DEF givesUp, dispatch, delays, W!pauses, W!taskdelay, W!aborts, W!dispatch,
               IInv, TypesOK
  <2>2. CASE wakes(t)
    <3>1. PICK reason \in W!Reasons : W!wakes([u \in {t} |-> reason])
      BY <2>2 DEF wakes
    <3>2. udata' = [u \in Tasks |-> IF u = t THEN reason ELSE udata[u]]
      BY <3>1 DEF W!wakes
    <3> QED BY <3>2 DEF IInv, TypesOK
  <2> QED BY <2>1, <2>2
<1> QED BY <1>1, <1>2, SameCalls DEF IInv, TypesOK

LEMMA NextKeeps == IInv /\ [Next]_vars => IInv'
<1> SUFFICES ASSUME IInv, [Next]_vars PROVE IInv'
  OBVIOUS
<1>1. CASE UNCHANGED vars
  BY <1>1, SameCalls DEF vars, taskVars, IInv, TypesOK
<1>2. ASSUME NEW t \in Tasks, NEW istcp \in BOOLEAN, netannounce(t, istcp) \/ netdial(t, istcp)
      PROVE  IInv'
  BY <1>2, NetannounceKeeps, NetdialKeeps
<1>3. ASSUME NEW t \in Tasks, NEW f \in Fds, netaccept6(t, f) \/ closes(t, f)
      PROVE  IInv'
  BY <1>3, Netaccept6Keeps, ClosesKeeps
<1>4. ASSUME NEW t \in Tasks, CallStep(t)
      PROVE  IInv'
  BY <1>4, AcceptsKeeps, ConnectsKeeps, ChecksKeeps, ReturnsKeeps DEF CallStep
<1>5. ASSUME NEW t \in Tasks, givesUp(t) \/ dispatch(t) \/ wakes(t)
      PROVE  IInv'
  BY <1>5, WaitingKeeps
<1>6. ASSUME NEW f \in Fds, peer(f) PROVE IInv'
  BY <1>6, PeerKeeps
<1>7. CASE aborted /\ UNCHANGED vars
  BY <1>1, <1>7
<1> QED BY <1>1, <1>2, <1>3, <1>4, <1>5, <1>6, <1>7 DEF Next

LEMMA Invariant == Spec => []IInv
<1> QED BY InitIInv, NextKeeps, PTL DEF Spec

-----------------------------------------------------------------------------

\* netannounce, netaccept6 and netdial lose no descriptor, whichever of their
\* steps fails or times out, for any number of tasks and descriptors.
THEOREM NothingLeaks == Spec => []NoLeak
<1>1. IInv => NoLeak
  <2> SUFFICES ASSUME IInv PROVE NoLeak
    OBVIOUS
  <2>1. \A t \in Tasks, f \in Fds : f \in Dialing(t) <=> DialsOn(t, f)
    BY DEF Dialing, DialsOn
  <2>2. \A t \in Tasks : Dialing(t) \subseteq Fds
    BY DEF Dialing, IInv, CallsOK
  <2>3. {f \in Fds : sock[f].kind # "free"} = handed \cup UNION {Dialing(t) : t \in Tasks}
    BY <2>1, <2>2 DEF IInv, TypesOK, Owned
  <2>4. \A t \in Tasks : Dialing(t) \cap handed = {}
    BY <2>1, <2>2 DEF IInv, Owned
  <2>5. \A t, u \in Tasks : t # u => Dialing(t) \cap Dialing(u) = {}
    BY <2>1, <2>2 DEF IInv, Owned
  <2> QED BY <2>3, <2>4, <2>5 DEF NoLeak
<1> QED BY <1>1, Invariant, PTL

\* No accept or connect that has to wait is done on a blocking descriptor, for
\* any number of tasks on one listener.
THEOREM NeverBlocks == Spec => []ProgramNeverBlocks
<1>1. IInv => ProgramNeverBlocks
  BY DEF ProgramNeverBlocks, At, IInv, CallsOK, Flagged, Owned, DialsOn
<1> QED BY <1>1, Invariant, PTL

-----------------------------------------------------------------------------

\* A netaccept6 that was woken for an event, before or after its fdwait ends.
Waited(t) ==
  /\ call[t].op = "accept"
  /\ \/ stage[t] = "woken" /\ udata[t] = "NULL"
     \/ stage[t] = "run" /\ call[t].reason = "NULL"

\* What a call returned is still so, and nobody else has run since.
Told(t) ==
  outcome[t] # NULL =>
    LET o == outcome[t]
    IN  /\ taskrunning = t /\ call[t] = NULL
        /\ o.call.op = "dial" /\ o.ret # NULL => o.ret \in handed /\ sock[o.ret].kind = "up"
        /\ o.errno \in {"LIBTASK_TIMEOUT", "EIO"} => o.call.reason = o.errno
        /\ o.errno = "EAGAIN" => o.call.reason # "NULL" \/ o.call.overtaken

\* What a call in progress will be able to say, if no assertion stopped it before
\* it slept.
Knows(t) ==
  call[t] # NULL =>
    LET f == call[t].fd
    IN  /\ stage[t] = "fdwait" =>
             wait[t].fd = f /\ (call[t].op = "accept" => wait[t].rw = "r")
        /\ ~aborted /\ call[t].next = "check" /\ stage[t] = "run" => call[t].reason = udata[t]
        /\ ~aborted /\ Waited(t) =>
             call[t].overtaken \/ sock[f].backlog # {} \/ ~sock[f].listening

StagesOK ==
  /\ stage \in [Tasks -> W!Stages] /\ DOMAIN wait = Tasks /\ DOMAIN outcome = Tasks

\* OutcomesTrue is not inductive: a result is true because of what its call
\* knew before it returned (Knows).
OInv == StagesOK /\ \A t \in Tasks : Told(t) /\ Knows(t)

LEMMA InitOInv == Init => OInv
BY DEF Init, W!WaitInit, W!Stages, OInv, StagesOK, Told, Knows

\* A task that takes no part in a step knows what it knew.
LEMMA OthersKnow ==
  ASSUME IInv, ~aborted, NEW u \in Tasks, Knows(u),
         stage'[u] = stage[u], wait'[u] = wait[u], udata'[u] = udata[u],
         call'[u] = call[u],
         call[u] # NULL => LET f == call[u].fd
                           IN  sock[f].backlog \subseteq sock'[f].backlog
                               /\ sock'[f].listening = sock[f].listening
  PROVE  Knows(u)'
BY DEF Knows, Waited

\* While a task runs no other has an outcome.
LEMMA OneOutcome ==
  ASSUME OInv, NEW t \in Tasks, taskrunning = t \/ taskrunning = NULL, NEW u \in Tasks, u # t
  PROVE  outcome[u] = NULL
BY NetAssumption DEF OInv, Told

\* A call of the running task t returns, or begins, or t goes on.
LEMMA TellsKeeps ==
  ASSUME IInv, OInv, NEW t \in Tasks, taskrunning = t \/ taskrunning = NULL, NEW o,
         outcome' = [outcome EXCEPT ![t] = o], Told(t)'
  PROVE  \A u \in Tasks : Told(u)'
<1> SUFFICES ASSUME NEW u \in Tasks, u # t PROVE Told(u)'
  OBVIOUS
<1>1. outcome'[u] = NULL
  BY OneOutcome DEF OInv, StagesOK
<1> QED BY <1>1 DEF Told

LEMMA FailsEarlyTells ==
  ASSUME IInv, OInv, NEW t \in Tasks, NEW op \in {"announce", "dial"}, NEW istcp,
         failsEarly(t, op, istcp)
  PROVE  OInv'
<1> DEFINE o == Result(Call(op, istcp, NULL, "done"), NULL, "early")
<1>1. /\ taskrunning = t /\ call[t] = NULL
      /\ call' = [call EXCEPT ![t] = NULL] /\ outcome' = [outcome EXCEPT ![t] = o]
      /\ ~aborted /\ UNCHANGED <<taskrunning, stage, wait, udata, sock>>
  BY DEF failsEarly, Idle, W!Runs, leaves, taskVars
<1>2. call' = call
  BY <1>1 DEF IInv, TypesOK
<1>3. o.ret = NULL /\ o.errno = "early"
  BY DEF Result
<1> HIDE DEF o
<1>4. Told(t)'
  BY <1>1, <1>2, <1>3 DEF Told, OInv, StagesOK
<1>5. \A u \in Tasks : Told(u)'
  BY <1>1, <1>4, TellsKeeps
<1>6. \A u \in Tasks : Knows(u)'
  BY <1>1, <1>2 DEF Knows, Waited, OInv
<1>7. StagesOK'
  BY <1>1 DEF OInv, StagesOK
<1> QED BY <1>5, <1>6, <1>7 DEF OInv

LEMMA NetannounceTells ==
  ASSUME IInv, OInv, NEW t \in Tasks, NEW istcp \in BOOLEAN, netannounce(t, istcp)
  PROVE  OInv'
<1>1. CASE failsEarly(t, "announce", istcp)
  BY <1>1, FailsEarlyTells
<1>2. ASSUME NEW f \in Fds, Idle(t), sock[f].kind = "free", NEW s,
             sock' = [sock EXCEPT ![f] = s],
             leaves(t, Result(Call("announce", istcp, f, "done"), f, "0")),
             UNCHANGED taskVars
      PROVE  OInv'
  <2> DEFINE o == Result(Call("announce", istcp, f, "done"), f, "0")
  <2>1. /\ taskrunning = t /\ call[t] = NULL
        /\ call' = [call EXCEPT ![t] = NULL] /\ outcome' = [outcome EXCEPT ![t] = o]
        /\ ~aborted /\ UNCHANGED <<taskrunning, stage, wait, udata>>
    BY <1>2 DEF Idle, W!Runs, leaves, taskVars
  <2>2. call' = call
    BY <2>1 DEF IInv, TypesOK
  <2>3. o.call.op = "announce" /\ o.errno = "0"
    BY DEF Result, Call
  <2> HIDE DEF o
  <2>4. Told(t)'
    BY <2>1, <2>2, <2>3 DEF Told, OInv, StagesOK
  <2>5. \A u \in Tasks : Told(u)'
    BY <2>1, <2>4, TellsKeeps
  <2>6. \A u \in Tasks : call[u] # NULL => call[u].fd # f
    BY <1>2 DEF IInv, CallsOK, Owned, DialsOn
  <2>7. \A u \in Tasks : Knows(u)'
    BY <1>2, <2>1, <2>2, <2>6 DEF Knows, Waited, OInv, IInv, CallsOK, TypesOK
  <2>8. StagesOK'
    BY <2>1 DEF OInv, StagesOK
  <2> QED BY <2>5, <2>7, <2>8 DEF OInv
<1> QED BY <1>1, <1>2 DEF netannounce, Free

LEMMA Netaccept6Tells ==
  ASSUME IInv, OInv, NEW t \in Tasks, NEW f \in Fds, netaccept6(t, f)
  PROVE  OInv'
<1> DEFINE c == Call("accept", TRUE, f, "accept")
<1>1. /\ taskrunning = t /\ call[t] = NULL /\ stage[t] = "run" /\ ~aborted
      /\ call' = [call EXCEPT ![t] = c] /\ outcome' = [outcome EXCEPT ![t] = NULL]
      /\ UNCHANGED <<udata, sock>>
  BY WaitsDoes DEF netaccept6, Idle
<1>2. c.op = "accept" /\ c.fd = f /\ c.next = "accept"
  BY DEF Call
<1> HIDE DEF c
<1>3. Told(t)'
  BY <1>1 DEF Told, OInv, StagesOK
<1>4. \A u \in Tasks : Told(u)'
  BY <1>1, <1>3, TellsKeeps
<1>5. CASE W!aborts(t)
  <2>1. aborted' /\ UNCHANGED <<stage, wait>>
    BY <1>5 DEF W!aborts
  <2>2. \A u \in Tasks : Knows(u)'
    BY <1>1, <1>2, <2>1 DEF Knows, OInv, StagesOK, IInv, TypesOK
  <2> QED BY <1>1, <1>4, <2>1, <2>2 DEF OInv, StagesOK
<1>6. ASSUME NEW own \in BOOLEAN, W!fdwait(t, f, "r", own)
      PROVE  OInv'
  <2> DEFINE kept == [fd |-> f, rw |-> "r", own |-> own]
  <2>1. stage' = [stage EXCEPT ![t] = "fdwait"] /\ wait' = [wait EXCEPT ![t] = kept]
    BY <1>6 DEF W!fdwait
  <2>2. kept.fd = f /\ kept.rw = "r"
    OBVIOUS
  <2> HIDE DEF kept
  <2>3. Knows(t)'
    BY <1>1, <1>2, <2>1, <2>2 DEF Knows, Waited, OInv, StagesOK, IInv, TypesOK
  <2>4. \A u \in Tasks \ {t} : Knows(u)'
    BY <1>1, <2>1 DEF Knows, Waited, OInv, StagesOK, IInv, TypesOK
  <2>5. StagesOK'
    BY <1>1, <2>1 DEF OInv, StagesOK, W!Stages
  <2> QED BY <1>4, <2>3, <2>4, <2>5 DEF OInv
<1> QED BY <1>5, <1>6, WaitsDoes DEF netaccept6

LEMMA NetdialTells ==
  ASSUME IInv, OInv, NEW t \in Tasks, NEW istcp \in BOOLEAN, netdial(t, istcp)
  PROVE  OInv'
<1>1. CASE failsEarly(t, "dial", istcp)
  BY <1>1, FailsEarlyTells
<1>2. ASSUME NEW f \in Fds, Idle(t), sock[f].kind = "free", NEW s,
             sock' = [sock EXCEPT ![f] = s],
             call' = [call EXCEPT ![t] = Call("dial", istcp, f, "connect")],
             udata' = [udata EXCEPT ![t] = "NULL"],
             outcome' = [outcome EXCEPT ![t] = NULL],
             UNCHANGED <<taskrunning, stage, wait, aborted, handed>>
      PROVE  OInv'
  <2> DEFINE c == Call("dial", istcp, f, "connect")
  <2>1. c.op = "dial" /\ c.fd = f /\ c.next = "connect"
    BY DEF Call
  <2>2. taskrunning = t /\ call[t] = NULL /\ call' = [call EXCEPT ![t] = c] /\ stage[t] = "run"
    BY <1>2 DEF Idle, W!Runs
  <2> HIDE DEF c
  <2>3. Told(t)'
    BY <1>2, <2>2 DEF Told, OInv, StagesOK
  <2>4. \A u \in Tasks : Told(u)'
    BY <1>2, <2>2, <2>3, TellsKeeps
  <2>5. \A u \in Tasks : call[u] # NULL => call[u].fd # f
    BY <1>2 DEF IInv, CallsOK, Owned, DialsOn
  <2>6. Knows(t)'
    BY <1>2, <2>1, <2>2 DEF Knows, Waited, IInv, TypesOK
  <2>7. \A u \in Tasks \ {t} : Knows(u)'
    BY <1>2, <2>2, <2>5 DEF Knows, Waited, OInv, IInv, TypesOK, CallsOK
  <2>8. StagesOK'
    BY <1>2 DEF OInv, StagesOK
  <2> QED BY <2>4, <2>6, <2>7, <2>8 DEF OInv
<1> QED BY <1>1, <1>2 DEF netdial, Free


\* A netdial that fails says why its own wait ended, if it says that.
LEMMA GivesTells ==
  ASSUME IInv, OInv, NEW t \in Tasks, taskrunning = t, call[t] # NULL, call[t].op = "dial",
         NEW errno, gives(t, errno), UNCHANGED taskVars,
         errno \in {"LIBTASK_TIMEOUT", "EIO"} => call[t].reason = errno,
         errno # "EAGAIN"
  PROVE  OInv'
<1> DEFINE f == call[t].fd
           s == Socket("free")
           o == Result(call[t], NULL, errno)
<1>1. /\ call' = [call EXCEPT ![t] = NULL] /\ outcome' = [outcome EXCEPT ![t] = o]
      /\ sock' = [sock EXCEPT ![f] = s]
      /\ UNCHANGED <<taskrunning, stage, wait, udata, aborted>>
  BY DEF gives, leaves, taskVars
<1>2. o.ret = NULL /\ o.errno = errno /\ o.call = call[t]
  BY DEF Result
<1>3. f \in Fds /\ DialsOn(t, f)
  BY DEF IInv, CallsOK, DialsOn
<1>4. \A u \in Tasks : call[u] # NULL /\ u # t => call[u].fd # f
  BY <1>3 DEF IInv, CallsOK, Owned, DialsOn
<1> HIDE DEF o, f, s
<1>5. Told(t)'
  BY <1>1, <1>2 DEF Told, OInv, StagesOK, IInv, TypesOK
<1>6. \A u \in Tasks : Told(u)'
  BY <1>1, <1>5, TellsKeeps
<1>7. Knows(t)'
  BY <1>1 DEF Knows, IInv, TypesOK
<1>8. \A u \in Tasks \ {t} : Knows(u)'
  BY <1>1, <1>4 DEF Knows, Waited, OInv, IInv, TypesOK, CallsOK
<1>9. StagesOK'
  BY <1>1 DEF OInv, StagesOK
<1> QED BY <1>6, <1>7, <1>8, <1>9 DEF OInv

LEMMA ConnectsTells ==
  ASSUME IInv, OInv, NEW t \in Tasks, connects(t)
  PROVE  OInv'
<1> DEFINE f == call[t].fd
<1>1. /\ call[t] # NULL /\ call[t].next = "connect" /\ call[t].op = "dial" /\ f \in Fds
      /\ taskrunning = t
  BY DEF connects, At, W!Runs, IInv, CallsOK
<1>2. CASE gives(t, "connect") /\ UNCHANGED taskVars
  BY <1>1, <1>2, GivesTells
<1>3. ASSUME NEW kind \in {"up", "connecting"},
             sock' = [sock EXCEPT ![f].kind = kind],
             waits(t, f, "w"),
             call' = [call EXCEPT ![t].next = "check"],
             UNCHANGED outcome
      PROVE  OInv'
  <2> DEFINE c == [call[t] EXCEPT !.next = "check"]
  <2>1. stage[t] = "run" /\ ~aborted /\ UNCHANGED udata
    BY <1>3, WaitsDoes
  <2>2. call[t] \in Calls /\ sock \in [Fds -> Sockets] /\ call \in [Tasks -> Calls \cup {NULL}]
    BY <1>1 DEF IInv, TypesOK
  <2>3. c.op = "dial" /\ c.fd = f /\ c.next = "check"
    BY <1>1, <2>2 DEF Calls
  <2>4. call' = [call EXCEPT ![t] = c]
    BY <1>3
  <2>5. DialsOn(t, f) /\ \A u \in Tasks : call[u] # NULL /\ u # t => call[u].fd # f
    BY <1>1 DEF IInv, CallsOK, Owned, DialsOn
  <2>6. W!aborts(t) \/ \E own \in BOOLEAN : W!fdwait(t, f, "w", own)
    BY <1>3, WaitsDoes
  <2> HIDE DEF c, f
  <2>7. \A u \in Tasks : outcome[u] = NULL /\ outcome'[u] = NULL
    BY <1>1, <1>3, OneOutcome DEF OInv, Told
  <2>8. \A u \in Tasks : Told(u)'
    BY <2>7 DEF Told
  <2>9. CASE W!aborts(t)
    <3>1. aborted' /\ UNCHANGED <<stage, wait>>
      BY <2>9 DEF W!aborts
    <3>2. \A u \in Tasks : Knows(u)'
      BY <2>1, <2>2, <2>3, <2>4, <3>1 DEF Knows, OInv
    <3> QED BY <1>3, <2>8, <3>1, <3>2 DEF OInv, StagesOK
  <2>10. ASSUME NEW own \in BOOLEAN, W!fdwait(t, f, "w", own)
         PROVE  OInv'
    <3> DEFINE kept == [fd |-> f, rw |-> "w", own |-> own]
    <3>1. stage' = [stage EXCEPT ![t] = "fdwait"] /\ wait' = [wait EXCEPT ![t] = kept]
      BY <2>10 DEF W!fdwait
    <3>2. kept.fd = f
      OBVIOUS
    <3> HIDE DEF kept
    <3>3. Knows(t)'
      BY <2>1, <2>2, <2>3, <2>4, <3>1, <3>2 DEF Knows, Waited, OInv, StagesOK
    <3>4. \A u \in Tasks \ {t} : Knows(u)'
      BY <1>3, <2>1, <2>2, <2>4, <2>5, <3>1 DEF Knows, Waited, OInv, IInv, CallsOK
    <3>5. StagesOK'
      BY <1>3, <3>1 DEF OInv, StagesOK, W!Stages
    <3> QED BY <2>8, <3>3, <3>4, <3>5 DEF OInv
  <2> QED BY <2>6, <2>9, <2>10
<1> QED BY <1>2, <1>3 DEF connects

LEMMA ChecksTells ==
  ASSUME IInv, OInv, NEW t \in Tasks, checks(t)
  PROVE  OInv'
<1> DEFINE f == call[t].fd
           o == Result(call[t], f, "0")
<1>1. /\ call[t] # NULL /\ call[t].next = "check" /\ call[t].op = "dial" /\ f \in Fds
      /\ taskrunning = t /\ stage[t] = "run" /\ ~aborted /\ udata[t] \in W!Reasons
      /\ UNCHANGED taskVars
  BY DEF checks, At, W!Runs, IInv, CallsOK, TypesOK
<1>2. call[t].reason = udata[t]
  BY <1>1 DEF OInv, Knows
<1>3. CASE gives(t, udata[t])
  BY <1>1, <1>2, <1>3, GivesTells DEF W!Reasons
<1>4. CASE gives(t, "refused")
  BY <1>1, <1>4, GivesTells
<1>5. CASE leaves(t, o) /\ UNCHANGED sock /\ sock[f].kind = "up"
  <2>1. /\ call' = [call EXCEPT ![t] = NULL] /\ outcome' = [outcome EXCEPT ![t] = o]
        /\ o.ret \in handed' /\ UNCHANGED <<taskrunning, stage, wait, udata, aborted, sock>>
    BY <1>1, <1>5, NetAssumption DEF leaves, Result, taskVars
  <2>2. o.ret = f /\ o.errno = "0" /\ o.call = call[t]
    BY DEF Result
  <2> HIDE DEF o, f
  <2>3. Told(t)'
    BY <1>1, <1>5, <2>1, <2>2 DEF Told, OInv, StagesOK, IInv, TypesOK
  <2>4. \A u \in Tasks : Told(u)'
    BY <1>1, <2>1, <2>3, TellsKeeps
  <2>5. \A u \in Tasks : Knows(u)'
    BY <2>1 DEF Knows, Waited, OInv, IInv, TypesOK
  <2>6. StagesOK'
    BY <2>1 DEF OInv, StagesOK
  <2> QED BY <2>4, <2>5, <2>6 DEF OInv
<1> QED BY <1>3, <1>4, <1>5 DEF checks

LEMMA AcceptsTells ==
  ASSUME IInv, OInv, NEW t \in Tasks, accepts(t)
  PROVE  OInv'
<1> DEFINE f == call[t].fd
<1>1. /\ call[t] # NULL /\ call[t].op = "accept" /\ f \in Fds
      /\ sock[f].kind = "listener" /\ f \in handed
      /\ taskrunning = t /\ stage[t] = "run" /\ ~aborted
      /\ UNCHANGED <<taskrunning, stage, wait, udata>>
  BY DEF accepts, At, W!Runs, IInv, CallsOK, taskVars
<1>2. ASSUME NEW errno, leaves(t, Result(call[t], NULL, errno)), UNCHANGED sock,
             errno \notin {"LIBTASK_TIMEOUT", "EIO"},
             errno = "EAGAIN" => sock[f].listening /\ sock[f].backlog = {}
      PROVE  OInv'
  <2> DEFINE o == Result(call[t], NULL, errno)
  <2>1. call' = [call EXCEPT ![t] = NULL] /\ outcome' = [outcome EXCEPT ![t] = o]
    BY <1>2 DEF leaves
  <2>2. o.ret = NULL /\ o.errno = errno /\ o.call = call[t]
    BY DEF Result
  <2>3. errno = "EAGAIN" => call[t].reason # "NULL" \/ call[t].overtaken
    BY <1>1, <1>2 DEF OInv, Knows, Waited
  <2> HIDE DEF o
  <2>4. Told(t)'
    BY <1>1, <1>2, <2>1, <2>2, <2>3 DEF Told, OInv, StagesOK, IInv, TypesOK
  <2>5. \A u \in Tasks : Told(u)'
    BY <1>1, <2>1, <2>4, TellsKeeps
  <2>6. \A u \in Tasks : Knows(u)'
    BY <1>1, <1>2, <2>1 DEF Knows, Waited, OInv, IInv, TypesOK
  <2>7. StagesOK'
    BY <1>1, <2>1 DEF OInv, StagesOK
  <2> QED BY <2>5, <2>6, <2>7 DEF OInv
<1>3. ASSUME NEW peer_ \in sock[f].backlog, NEW g \in Fds, sock[g].kind = "free",
             sock' = [sock EXCEPT ![f].backlog = @ \ {peer_}, ![g] = fdnoblock(Socket("up"))],
             call' = [u \in Tasks |->
                   IF u = t THEN NULL
                   ELSE IF call[u] # NULL /\ call[u].op = "accept" /\ call[u].fd = f
                        THEN [call[u] EXCEPT !.overtaken = TRUE] ELSE call[u]],
             NEW address,
             outcome' = [outcome EXCEPT ![t] =
                     [Result(call[t], g, "0") EXCEPT !.from = peer_, !.address = address]]
      PROVE  OInv'
  <2> DEFINE o == [Result(call[t], g, "0") EXCEPT !.from = peer_, !.address = address]
  <2>1. o.call = call[t] /\ o.errno = "0"
    BY DEF Result
  <2>2. outcome' = [outcome EXCEPT ![t] = o] /\ call'[t] = NULL
    BY <1>3
  <2> HIDE DEF o
  <2>3. Told(t)'
    BY <1>1, <2>1, <2>2 DEF Told, OInv, StagesOK
  <2>4. \A u \in Tasks : Told(u)'
    BY <1>1, <2>2, <2>3, TellsKeeps
  <2>5. Knows(t)'
    BY <2>2 DEF Knows
  <2>6. ASSUME NEW u \in Tasks \ {t} PROVE Knows(u)'
    <3> SUFFICES ASSUME call[u] # NULL PROVE Knows(u)'
      BY <1>3 DEF Knows
    <3>1. call[u] \in Calls /\ Knows(u) /\ call[u].fd \in Fds /\ sock \in [Fds -> Sockets]
      BY DEF IInv, TypesOK, OInv, CallsOK
    <3>2. CASE call[u].op = "accept" /\ call[u].fd = f
      <4>1. /\ call'[u].op = "accept" /\ call'[u].fd = f /\ call'[u].next = call[u].next
            /\ call'[u].reason = call[u].reason /\ call'[u].overtaken
        BY <1>3, <3>1, <3>2 DEF Calls
      <4> HIDE DEF f
      <4> QED BY <1>1, <3>1, <3>2, <4>1 DEF Knows, Waited
    <3>3. CASE ~(call[u].op = "accept" /\ call[u].fd = f)
      <4>1. call'[u] = call[u]
        BY <1>3, <3>3
      <4>2. call[u].op = "accept" => sock'[call[u].fd] = sock[call[u].fd]
        BY <1>3, <3>1, <3>3 DEF IInv, CallsOK
      <4> HIDE DEF f
      <4> QED BY <1>1, <3>1, <4>1, <4>2 DEF Knows, Waited
    <3> QED BY <3>2, <3>3
  <2>7. StagesOK'
    BY <1>1, <2>2 DEF OInv, StagesOK
  <2> QED BY <2>4, <2>5, <2>6, <2>7 DEF OInv
<1>4. CASE \E errno \in {"EINVAL", "EAGAIN", "EMFILE"} :
             /\ leaves(t, Result(call[t], NULL, errno)) /\ UNCHANGED sock
             /\ errno = "EAGAIN" => sock[f].listening /\ sock[f].backlog = {}
  <2>1. PICK errno \in {"EINVAL", "EAGAIN", "EMFILE"} :
             /\ leaves(t, Result(call[t], NULL, errno)) /\ UNCHANGED sock
             /\ errno = "EAGAIN" => sock[f].listening /\ sock[f].backlog = {}
    BY <1>4
  <2>2. errno \notin {"LIBTASK_TIMEOUT", "EIO"}
    OBVIOUS
  <2> QED BY <1>2, <2>1, <2>2
<1>5. CASE \E p \in sock[f].backlog, g \in Fds, address \in Peers \cup {NULL} :
             /\ sock[g].kind = "free"
             /\ sock' = [sock EXCEPT ![f].backlog = @ \ {p}, ![g] = fdnoblock(Socket("up"))]
             /\ call' = [u \in Tasks |->
                   IF u = t THEN NULL
                   ELSE IF call[u] # NULL /\ call[u].op = "accept" /\ call[u].fd = f
                        THEN [call[u] EXCEPT !.overtaken = TRUE] ELSE call[u]]
             /\ outcome' = [outcome EXCEPT ![t] =
                     [Result(call[t], g, "0") EXCEPT !.from = p, !.address = address]]
  BY <1>3, <1>5
<1>6. \A family, p : p \in Peers => RemoteAddresses(family, p) \subseteq Peers \cup {NULL}
  BY DEF RemoteAddresses
<1>7. sock[f].backlog \subseteq Peers
  BY <1>1 DEF IInv, TypesOK, Sockets
<1> QED BY <1>4, <1>5, <1>6, <1>7 DEF accepts, Free

LEMMA ReturnsTells ==
  ASSUME IInv, OInv, NEW t \in Tasks, returns(t)
  PROVE  OInv'
<1>1. /\ taskrunning = t /\ stage[t] = "woken" /\ stage' = [stage EXCEPT ![t] = "run"]
      /\ wait' = [wait EXCEPT ![t] = NULL]
      /\ ~aborted /\ UNCHANGED <<taskrunning, udata, sock, handed, outcome>>
  BY DEF returns, W!returns
<1>2. CASE call[t] = NULL
  <2>1. call' = call
    BY <1>2 DEF returns
  <2>2. \A u \in Tasks : Told(u)' /\ Knows(u)'
    BY <1>1, <1>2, <2>1 DEF OInv, Told, Knows, Waited, StagesOK
  <2> QED BY <1>1, <2>2 DEF OInv, StagesOK, W!Stages
<1>3. CASE call[t] # NULL
  <2> DEFINE c == [call[t] EXCEPT !.reason = udata[t]]
  <2>1. call[t] \in Calls
    BY <1>3 DEF IInv, TypesOK
  <2>2. /\ c.op = call[t].op /\ c.fd = call[t].fd /\ c.next = call[t].next
        /\ c.reason = udata[t] /\ c.overtaken = call[t].overtaken
    BY <2>1 DEF Calls
  <2>3. call' = [call EXCEPT ![t] = c]
    BY <1>3 DEF returns
  <2> HIDE DEF c
  <2>4. Knows(t)'
    BY <1>1, <1>3, <2>2, <2>3 DEF OInv, Knows, Waited, StagesOK, IInv, TypesOK
  <2>5. \A u \in Tasks \ {t} : Knows(u)'
    BY <1>1, <2>3 DEF OInv, Knows, Waited, StagesOK, IInv, TypesOK
  <2>6. outcome[t] = NULL
    BY <1>3 DEF OInv, Told
  <2>7. \A u \in Tasks : Told(u)'
    <3>1. \A u \in Tasks : outcome[u] = NULL
      BY <1>1, <2>6, OneOutcome
    <3> QED BY <1>1, <3>1 DEF Told
  <2>8. StagesOK'
    BY <1>1 DEF OInv, StagesOK, W!Stages
  <2> QED BY <2>4, <2>5, <2>7, <2>8 DEF OInv
<1> QED BY <1>2, <1>3

LEMMA ClosesTells ==
  ASSUME IInv, OInv, NEW t \in Tasks, NEW f \in Fds, closes(t, f)
  PROVE  OInv'
<1> DEFINE s == Socket("free")
<1>1. /\ taskrunning = t /\ sock' = [sock EXCEPT ![f] = s]
      /\ outcome' = [outcome EXCEPT ![t] = NULL]
      /\ ~aborted /\ UNCHANGED <<taskrunning, stage, wait, udata, call>>
      /\ \A u \in Tasks : call[u] # NULL => call[u].fd # f
  BY DEF closes, Idle, W!Runs, taskVars
<1> HIDE DEF s
<1>2. Told(t)'
  BY <1>1 DEF Told, OInv, StagesOK
<1>3. \A u \in Tasks : Told(u)'
  BY <1>1, <1>2, TellsKeeps
<1>4. \A u \in Tasks : Knows(u)'
  BY <1>1 DEF Knows, Waited, OInv, IInv, TypesOK, CallsOK
<1>5. StagesOK'
  BY <1>1 DEF OInv, StagesOK
<1> QED BY <1>3, <1>4, <1>5 DEF OInv

\* A peer touches no connection that was returned, and takes none back that
\* waits to be accepted.
LEMMA PeerTells ==
  ASSUME IInv, OInv, NEW f \in Fds, peer(f)
  PROVE  OInv'
<1>1. ~aborted /\ UNCHANGED <<taskrunning, stage, wait, udata, call, handed, outcome>>
  BY DEF peer, taskVars
<1>2. /\ sock' \in [Fds -> Sockets] /\ sock \in [Fds -> Sockets]
  BY PeerKeeps DEF IInv, TypesOK
<1>3. \A g \in Fds : /\ g \in handed => sock'[g].kind = sock[g].kind
                     /\ sock'[g].listening = sock[g].listening
                     /\ sock[g].backlog \subseteq sock'[g].backlog
  <2>1. ASSUME NEW p \in Peers, sock' = [sock EXCEPT ![f].backlog = @ \cup {p}], NEW g \in Fds
        PROVE  /\ sock'[g].kind = sock[g].kind /\ sock'[g].listening = sock[g].listening
               /\ sock[g].backlog \subseteq sock'[g].backlog
    BY <1>2, <2>1 DEF Sockets
  <2>2. ASSUME NEW kind \in {"up", "refused"}, sock' = [sock EXCEPT ![f].kind = kind],
               f \notin handed, NEW g \in Fds
        PROVE  /\ g \in handed => sock'[g].kind = sock[g].kind
               /\ sock'[g].listening = sock[g].listening
               /\ sock[g].backlog \subseteq sock'[g].backlog
    BY <1>2, <2>2 DEF Sockets
  <2> QED BY <2>1, <2>2 DEF peer
<1>4. \A u \in Tasks : Told(u)'
  BY <1>1, <1>3 DEF OInv, Told, IInv, TypesOK
<1>5. \A u \in Tasks : Knows(u)'
  BY <1>1, <1>3, OthersKnow DEF OInv, IInv, CallsOK
<1>6. StagesOK'
  BY <1>1 DEF OInv, StagesOK
<1> QED BY <1>4, <1>5, <1>6 DEF OInv

LEMMA GivesUpTells ==
  ASSUME IInv, OInv, NEW t \in Tasks, givesUp(t)
  PROVE  OInv'
<1>1. /\ call[t] = NULL /\ taskrunning = t /\ outcome' = [outcome EXCEPT ![t] = NULL]
      /\ stage' \in [Tasks -> W!Stages] /\ \A u \in Tasks : u # t => stage'[u] = stage[u]
      /\ ~aborted /\ UNCHANGED <<wait, udata, sock, call>>
  BY DEF givesUp, delays, W!pauses, W!taskdelay, W!aborts, W!Runs, W!Stages, OInv, StagesOK
<1>2. Told(t)'
  BY <1>1 DEF Told, OInv, StagesOK
<1>3. \A u \in Tasks : Told(u)'
  BY <1>1, <1>2, TellsKeeps
<1>4. \A u \in Tasks : Knows(u)'
  BY <1>1 DEF Knows, Waited, OInv
<1>5. StagesOK'
  BY <1>1 DEF OInv, StagesOK
<1> QED BY <1>3, <1>4, <1>5 DEF OInv

LEMMA DispatchTells ==
  ASSUME IInv, OInv, NEW t \in Tasks, dispatch(t)
  PROVE  OInv'
<1>1. taskrunning = NULL /\ ~aborted /\ UNCHANGED <<stage, wait, udata, sock, call, outcome>>
  BY DEF dispatch, W!dispatch
<1>2. \A u \in Tasks : outcome[u] = NULL
  BY <1>1, NetAssumption DEF OInv, Told
<1> QED BY <1>1, <1>2 DEF OInv, Told, Knows, Waited, StagesOK

\* A task woken for an event on a listener: somebody waits, or listen failed.
LEMMA WakesTells ==
  ASSUME IInv, OInv, NEW t \in Tasks, wakes(t)
  PROVE  OInv'
<1>1. PICK reason \in W!Reasons : W!wakes([u \in {t} |-> reason])
  BY DEF wakes
<1>2. /\ taskrunning = NULL /\ stage[t] \in {"delay", "fdwait"} /\ ~aborted
      /\ W!due(t, reason)
      /\ stage' = [u \in Tasks |-> IF u = t THEN "woken" ELSE stage[u]]
      /\ udata' = [u \in Tasks |-> IF u = t THEN reason ELSE udata[u]]
      /\ UNCHANGED <<taskrunning, wait, sock, call, handed, outcome>>
  BY <1>1 DEF wakes, W!wakes
<1>3. \A u \in Tasks : outcome[u] = NULL
  BY <1>2, NetAssumption DEF OInv, Told
<1>4. \A u \in Tasks \ {t} : Knows(u)'
  BY <1>2 DEF OInv, Knows, Waited
<1>5. ASSUME call[t] # NULL, call[t].op = "accept", reason = "NULL"
      PROVE  sock[call[t].fd].backlog # {} \/ ~sock[call[t].fd].listening
  <2> DEFINE f == call[t].fd
  <2>1. f \in Fds /\ sock[f].kind = "listener"
    BY <1>5 DEF IInv, CallsOK
  <2>2. /\ stage[t] = "fdwait"
        /\ Possible[wait[t].fd] \cap {wait[t].rw, "e"} # {}
    BY <1>2, <1>5 DEF W!due, W!happens
  <2>3. wait[t].fd = f /\ wait[t].rw = "r"
    BY <1>5, <2>2 DEF OInv, Knows
  <2>4. Possible[f] = (IF sock[f].backlog # {} THEN {"r"} ELSE {})
                        \cup (IF sock[f].listening THEN {} ELSE {"e"})
    BY <2>1 DEF Possible
  <2> HIDE DEF f
  <2> QED BY <2>2, <2>3, <2>4 DEF f
<1>6. Knows(t)'
  BY <1>2, <1>5 DEF OInv, Knows, Waited
<1>7. StagesOK'
  BY <1>2 DEF OInv, StagesOK, W!Stages
<1> QED BY <1>2, <1>3, <1>4, <1>6, <1>7 DEF OInv, Told

LEMMA NextTells == IInv /\ OInv /\ [Next]_vars => OInv'
<1> SUFFICES ASSUME IInv, OInv, [Next]_vars PROVE OInv'
  OBVIOUS
<1>1. CASE UNCHANGED vars
  BY <1>1 DEF vars, taskVars, OInv, StagesOK, Told, Knows, Waited
<1>2. ASSUME NEW t \in Tasks, NEW istcp \in BOOLEAN, netannounce(t, istcp) \/ netdial(t, istcp)
      PROVE  OInv'
  BY <1>2, NetannounceTells, NetdialTells
<1>3. ASSUME NEW t \in Tasks, NEW f \in Fds, netaccept6(t, f) \/ closes(t, f)
      PROVE  OInv'
  BY <1>3, Netaccept6Tells, ClosesTells
<1>4. ASSUME NEW t \in Tasks, CallStep(t)
      PROVE  OInv'
  BY <1>4, AcceptsTells, ConnectsTells, ChecksTells, ReturnsTells DEF CallStep
<1>5. ASSUME NEW t \in Tasks, givesUp(t) \/ dispatch(t) \/ wakes(t)
      PROVE  OInv'
  BY <1>5, GivesUpTells, DispatchTells, WakesTells
<1>6. ASSUME NEW f \in Fds, peer(f) PROVE OInv'
  BY <1>6, PeerTells
<1>7. CASE aborted /\ UNCHANGED vars
  BY <1>1, <1>7
<1> QED BY <1>1, <1>2, <1>3, <1>4, <1>5, <1>6, <1>7 DEF Next

\* What netaccept6 and netdial return is what happened to their own wait and
\* their own connection, for any number of tasks on one listener.
THEOREM OutcomesCorrect == Spec => []OutcomesTrue
<1>1. OInv => OutcomesTrue
  BY DEF OInv, Told, OutcomesTrue
<1>2. Spec => []OInv
  BY InitOInv, NextTells, Invariant, PTL DEF Spec
<1> QED BY <1>1, <1>2, PTL

-----------------------------------------------------------------------------

\* The calls, their clients and the sockets keep to FdWait.

\* What FdWait knows of a task.
waitingVars == <<taskrunning, stage, wait, udata, aborted>>

\* What can be done on a descriptor.
Can(s) ==
  CASE s.kind = "listener" -> (IF s.backlog # {} THEN {"r"} ELSE {})
                              \cup (IF s.listening THEN {} ELSE {"e"})
    [] s.kind = "up" -> {"w"}
    [] s.kind = "refused" -> {"r", "w", "e"}
    [] OTHER -> {}

LEMMA CanType ==
  ASSUME NEW s
  PROVE  Can(s) \in SUBSET {"r", "w", "e"}
BY DEF Can

LEMMA PossibleIs ==
  /\ Possible = [f \in Fds |-> Can(sock[f])]
  /\ Possible' = [f \in Fds |-> Can(sock'[f])]
BY DEF Possible, Can

LEMMA PossibleType ==
  Possible' \in [Fds -> SUBSET {"r", "w", "e"}]
<1>1. \A f \in Fds : Can(sock'[f]) \in SUBSET {"r", "w", "e"}
  BY CanType
<1> QED BY <1>1, PossibleIs

\* While a task runs, and while no descriptor changes, anything goes.
LEMMA MayChange ==
  ASSUME UNCHANGED sock \/ \E t \in Tasks : W!Runs(t)
  PROVE  W!Changes
<1>1. CASE UNCHANGED sock
  <2>1. Possible' = Possible
    BY <1>1, PossibleIs
  <2> QED BY <2>1, PossibleType DEF W!Changes
<1>2. CASE \E t \in Tasks : W!Runs(t)
  <2>1. taskrunning # NULL
    BY <1>2, NetAssumption DEF W!Runs
  <2> QED BY <2>1, PossibleType DEF W!Changes
<1> QED BY <1>1, <1>2

\* The steps of a task that FdWait has an action for, and those it does not see.
LEMMA TaskKeepsTo ==
  ASSUME NEW t \in Tasks, W!Changes,
         \/ UNCHANGED waitingVars
         \/ /\ W!Runs(t) /\ udata' = [udata EXCEPT ![t] = "NULL"]
            /\ UNCHANGED <<taskrunning, stage, wait, aborted>>
         \/ \E f \in Fds, rw \in {"r", "w"}, own \in BOOLEAN : W!fdwait(t, f, rw, own)
         \/ W!returns(t) \/ W!pauses(t) \/ W!taskdelay(t) \/ W!dispatch(t) \/ W!aborts(t)
  PROVE  W!Next
<1>1. CASE UNCHANGED waitingVars
  BY <1>1 DEF W!Next, W!taskVars, waitingVars
<1>2. CASE /\ W!Runs(t) /\ udata' = [udata EXCEPT ![t] = "NULL"]
           /\ UNCHANGED <<taskrunning, stage, wait, aborted>>
  <2>1. W!taskdata(t, "NULL") /\ "NULL" \in {"NULL"}
    BY <1>2 DEF W!taskdata
  <2> QED BY <2>1 DEF W!Next, W!TaskStep
<1>3. CASE \E f \in Fds, rw \in {"r", "w"}, own \in BOOLEAN : W!fdwait(t, f, rw, own)
  BY <1>3 DEF W!Next, W!TaskStep
<1>4. CASE W!returns(t) \/ W!pauses(t) \/ W!taskdelay(t) \/ W!dispatch(t) \/ W!aborts(t)
  BY <1>4 DEF W!Next, W!TaskStep
<1> QED BY <1>1, <1>2, <1>3, <1>4

LEMMA StartKeepsTo ==
  ASSUME NEW t \in Tasks,
         \/ \E istcp \in BOOLEAN : netannounce(t, istcp) \/ netdial(t, istcp)
         \/ \E f \in Fds : netaccept6(t, f) \/ closes(t, f)
  PROVE  W!Next
<1>1. W!Runs(t) /\ W!Changes
  <2>1. W!Runs(t)
    BY DEF netannounce, netdial, netaccept6, closes, failsEarly, Idle
  <2> QED BY <2>1, MayChange
<1>2. CASE \E istcp \in BOOLEAN : netannounce(t, istcp) \/ netdial(t, istcp)
  <2>1. \/ UNCHANGED waitingVars
        \/ /\ udata' = [udata EXCEPT ![t] = "NULL"]
           /\ UNCHANGED <<taskrunning, stage, wait, aborted>>
    BY <1>2 DEF netannounce, netdial, failsEarly, taskVars, waitingVars
  <2> QED BY <1>1, <2>1, TaskKeepsTo
<1>3. ASSUME NEW f \in Fds, netaccept6(t, f)
      PROVE  W!Next
  <2>1. W!aborts(t) \/ \E own \in BOOLEAN : W!fdwait(t, f, "r", own)
    BY <1>3, WaitsDoes DEF netaccept6
  <2> QED BY <1>1, <2>1, TaskKeepsTo
<1>4. ASSUME NEW f \in Fds, closes(t, f)
      PROVE  W!Next
  <2>1. UNCHANGED waitingVars
    BY <1>4 DEF closes, taskVars, waitingVars
  <2> QED BY <1>1, <2>1, TaskKeepsTo
<1> QED BY <1>2, <1>3, <1>4

LEMMA CallKeepsTo ==
  ASSUME IInv, NEW t \in Tasks, CallStep(t)
  PROVE  W!Next
<1>1. CASE accepts(t) \/ checks(t)
  <2>1. W!Runs(t) /\ UNCHANGED waitingVars
    BY <1>1 DEF accepts, checks, At, taskVars, waitingVars
  <2> QED BY <2>1, MayChange, TaskKeepsTo
<1>2. CASE connects(t)
  <2>1. W!Runs(t) /\ call[t].fd \in Fds
    BY <1>2 DEF connects, At, IInv, CallsOK
  <2>2. UNCHANGED taskVars \/ waits(t, call[t].fd, "w")
    BY <1>2 DEF connects
  <2>3. \/ UNCHANGED waitingVars
        \/ W!aborts(t) \/ \E own \in BOOLEAN : W!fdwait(t, call[t].fd, "w", own)
    BY <2>2, WaitsDoes DEF taskVars, waitingVars
  <2> QED BY <2>1, <2>3, MayChange, TaskKeepsTo
<1>3. CASE returns(t)
  <2>1. W!returns(t) /\ UNCHANGED sock
    BY <1>3 DEF returns
  <2> QED BY <2>1, MayChange, TaskKeepsTo
<1> QED BY <1>1, <1>2, <1>3 DEF CallStep

\* Peers leave something to be done on every descriptor that had something.
LEMMA PeerKeepsTo ==
  ASSUME IInv, NEW f \in Fds, peer(f)
  PROVE  W!Next
<1>1. sock[f] \in Sockets /\ sock \in [Fds -> Sockets] /\ UNCHANGED waitingVars
  BY DEF IInv, TypesOK, peer, taskVars, waitingVars
<1>2. \A g \in Fds \ {f} : sock'[g] = sock[g]
  BY <1>1 DEF peer
<1>3. Can(sock[f]) # {} => Can(sock'[f]) # {}
  <2>1. ASSUME NEW p \in Peers, sock' = [sock EXCEPT ![f].backlog = @ \cup {p}]
        PROVE  Can(sock[f]) # {} => Can(sock'[f]) # {}
    <3>1. sock'[f] = [sock[f] EXCEPT !.backlog = @ \cup {p}]
      BY <1>1, <2>1
    <3>2. /\ sock'[f].kind = sock[f].kind /\ sock'[f].listening = sock[f].listening
          /\ sock'[f].backlog # {}
      BY <1>1, <3>1 DEF Sockets
    <3> QED BY <3>2 DEF Can
  <2>2. ASSUME NEW kind \in {"up", "refused"}, sock' = [sock EXCEPT ![f].kind = kind]
        PROVE  Can(sock'[f]) # {}
    <3>1. sock'[f].kind = kind
      BY <1>1, <2>2 DEF Sockets
    <3> QED BY <3>1 DEF Can
  <2> QED BY <2>1, <2>2 DEF peer
<1>4. \A g \in Fds : Possible[g] # {} => Possible'[g] # {}
  BY <1>2, <1>3, PossibleIs
<1>5. W!Changes
  BY <1>4, PossibleType DEF W!Changes
<1> QED BY <1>1, <1>5 DEF W!Next, W!taskVars, waitingVars

LEMMA StepKeepsTo ==
  IInv /\ [Next]_vars => [W!Next]_<<waitingVars, Possible>>
<1> SUFFICES ASSUME IInv, [Next]_vars PROVE W!Next \/ UNCHANGED <<waitingVars, Possible>>
  OBVIOUS
<1>1. ASSUME NEW t \in Tasks, NEW istcp \in BOOLEAN, netannounce(t, istcp) \/ netdial(t, istcp)
      PROVE  W!Next
  BY <1>1, StartKeepsTo
<1>2. ASSUME NEW t \in Tasks, NEW f \in Fds, netaccept6(t, f) \/ closes(t, f) PROVE W!Next
  BY <1>2, StartKeepsTo
<1>3. ASSUME NEW t \in Tasks, CallStep(t) PROVE W!Next
  BY <1>3, CallKeepsTo
<1>4. ASSUME NEW t \in Tasks, givesUp(t) \/ dispatch(t) PROVE W!Next
  <2>1. UNCHANGED sock /\ (W!pauses(t) \/ W!taskdelay(t) \/ W!dispatch(t) \/ W!aborts(t))
    BY <1>4 DEF givesUp, delays, dispatch
  <2> QED BY <2>1, MayChange, TaskKeepsTo
<1>5. ASSUME NEW t \in Tasks, wakes(t) PROVE W!Next
  <2>1. PICK reason \in W!Reasons : W!wakes([u \in {t} |-> reason])
    BY <1>5 DEF wakes
  <2>2. [u \in {t} |-> reason] \in [{t} -> W!Reasons] /\ {t} \in SUBSET Tasks
    OBVIOUS
  <2>3. UNCHANGED Possible
    BY <1>5, PossibleIs DEF wakes
  <2> QED BY <2>1, <2>2, <2>3 DEF W!Next, W!Wakes
<1>6. ASSUME NEW f \in Fds, peer(f) PROVE W!Next
  BY <1>6, PeerKeepsTo
<1>7. CASE UNCHANGED vars
  BY <1>7, PossibleIs DEF vars, taskVars, waitingVars
<1> QED BY <1>1, <1>2, <1>3, <1>4, <1>5, <1>6, <1>7 DEF Next

\* The calls of net.c, their clients and the sockets are a client of fd.c as
\* FdWait describes it, which fd.c keeps (FdWaitPromised): tasks call taskdelay,
\* fdwait and taskdata only while they run, and nothing becomes impossible on a
\* descriptor while no task runs.
THEOREM KeepsToFdWait == Spec => W!FdWaitSpec
<1>1. Init => W!Init
  BY PossibleIs DEF Init, W!Init, Socket, Can
<1> QED BY <1>1, Invariant, StepKeepsTo, PTL
        DEF Spec, W!FdWaitSpec, W!waitVars, W!taskVars, waitingVars

-----------------------------------------------------------------------------
(* What netlookup answers.                                                 *)

\* parseip takes the component for a byte, right or wrong.
Taken(c) == c.kind # "other" /\ c.x \in 0 .. 255

\* The bytes parseip has stored are those of the first four components, and it
\* has given up if one of these is none.  What was stored last is final.
AddrExact ==
  LET m == IF Len(name) < 4 THEN Len(name) ELSE 4
  IN  IF \A i \in 1 .. m : Taken(name[i])
      THEN addr \in Seq(0 .. 255) /\ Len(addr) = m /\ \A i \in 1 .. m : addr[i] = name[i].x
      ELSE addr = Unset

IpExact ==
  ip # Unset => ip \in (parseip \ {Unset}) \cup (IF Unset \in parseip THEN Hosts ELSE {})

LookupInv == name \in Seq(Components) /\ AddrExact /\ IpExact

LEMMA InitLookup == ParseInit => LookupInv
<1> SUFFICES ASSUME ParseInit PROVE LookupInv
  OBVIOUS
<1>1. name = << >> /\ addr = << >> /\ ip = Unset
  BY DEF ParseInit
<1>2. name \in Seq(Components) /\ Len(name) = 0 /\ addr \in Seq(0 .. 255) /\ Len(addr) = 0
  BY <1>1
<1>3. AddrExact
  BY <1>2 DEF AddrExact
<1> QED BY <1>1, <1>2, <1>3 DEF LookupInv, IpExact

LEMMA LoopLookup ==
  ASSUME LookupInv, NEW c \in Components, parseipLoop(c)
  PROVE  LookupInv'
<1> DEFINE k == Len(name)
           m == IF k < 4 THEN k ELSE 4
           mm == IF k + 1 < 4 THEN k + 1 ELSE 4
<1>1. /\ name' = Append(name, c) /\ ip = Unset /\ ip' = ip
      /\ addr' = IF addr = Unset \/ Len(addr) = 4 THEN addr
                 ELSE IF Taken(c) THEN Append(addr, c.x) ELSE Unset
  BY DEF parseipLoop, Taken
<1>2. /\ name' \in Seq(Components) /\ k \in Nat /\ Len(name') = k + 1
      /\ name'[k + 1] = c /\ \A i \in 1 .. k : name'[i] = name[i]
  BY <1>1, AppendProperties DEF LookupInv
<1>3. IF \A i \in 1 .. m : Taken(name[i])
      THEN addr \in Seq(0 .. 255) /\ Len(addr) = m /\ \A i \in 1 .. m : addr[i] = name[i].x
      ELSE addr = Unset
  BY DEF LookupInv, AddrExact
<1>4. \A i \in 1 .. m : name'[i] = name[i]
  BY <1>2
<1>5. IF \A i \in 1 .. mm : Taken(name'[i])
      THEN addr' \in Seq(0 .. 255) /\ Len(addr') = mm
           /\ \A i \in 1 .. mm : addr'[i] = name'[i].x
      ELSE addr' = Unset
  <2>1. CASE ~ \A i \in 1 .. m : Taken(name[i])
    <3>1. addr' = Unset
      BY <1>1, <1>3, <2>1
    <3>2. PICK i \in 1 .. m : ~Taken(name[i])
      BY <2>1
    <3>3. i \in 1 .. mm /\ ~Taken(name'[i])
      BY <1>2, <1>4, <3>2
    <3> QED BY <3>1, <3>3
  <2>2. CASE (\A i \in 1 .. m : Taken(name[i])) /\ k >= 4
    <3>1. m = 4 /\ mm = 4 /\ Len(addr) = 4
      BY <1>2, <1>3, <2>2
    <3>2. addr' = addr
      BY <1>1, <3>1
    <3> QED BY <1>3, <1>4, <2>2, <3>1, <3>2
  <2>3. CASE (\A i \in 1 .. m : Taken(name[i])) /\ k < 4
    <3>1. /\ m = k /\ mm = k + 1 /\ Len(addr) = k /\ addr \in Seq(0 .. 255)
          /\ \A i \in 1 .. k : addr[i] = name[i].x /\ Taken(name[i])
      BY <1>2, <1>3, <2>3
    <3>2. addr # Unset /\ Len(addr) # 4
      BY <1>2, <2>3, <3>1, ParseIpAssumption
    <3>3. CASE Taken(c)
      <4>1. addr' = Append(addr, c.x) /\ c.x \in 0 .. 255
        BY <1>1, <3>2, <3>3 DEF Taken
      <4>2. /\ addr' \in Seq(0 .. 255) /\ Len(addr') = k + 1 /\ addr'[k + 1] = c.x
            /\ \A i \in 1 .. k : addr'[i] = addr[i]
        BY <3>1, <4>1, AppendProperties
      <4>3. \A i \in 1 .. k + 1 : i \in 1 .. k \/ i = k + 1
        BY <1>2
      <4>4. \A i \in 1 .. k + 1 : Taken(name'[i]) /\ addr'[i] = name'[i].x
        BY <1>2, <3>1, <3>3, <4>2, <4>3
      <4> QED BY <3>1, <4>2, <4>4
    <3>4. CASE ~Taken(c)
      <4>1. addr' = Unset
        BY <1>1, <3>2, <3>4
      <4>2. k + 1 \in 1 .. mm /\ ~Taken(name'[k + 1])
        BY <1>2, <3>1, <3>4
      <4> QED BY <4>1, <4>2
    <3> QED BY <3>3, <3>4
  <2> QED BY <1>2, <2>1, <2>2, <2>3
<1>6. AddrExact'
  BY <1>2, <1>5 DEF AddrExact
<1> QED BY <1>1, <1>2, <1>6 DEF LookupInv, IpExact

LEMMA StepLookup == LookupInv /\ [ParseNext]_parseVars => LookupInv'
<1> SUFFICES ASSUME LookupInv, [ParseNext]_parseVars PROVE LookupInv'
  OBVIOUS
<1>1. CASE netlookup
  <2>1. UNCHANGED <<name, addr>> /\ parseip' = parseip
        /\ ip' \in (parseip \ {Unset}) \cup (IF Unset \in parseip THEN Hosts ELSE {})
    BY <1>1 DEF netlookup, parseip
  <2> QED BY <2>1 DEF LookupInv, AddrExact, IpExact
<1>2. CASE UNCHANGED parseVars
  <2>1. UNCHANGED <<name, addr, ip>> /\ parseip' = parseip
    BY <1>2 DEF parseVars, parseip
  <2> QED BY <2>1 DEF LookupInv, AddrExact, IpExact
<1> QED BY <1>1, <1>2, LoopLookup DEF ParseNext

\* The two top bits of a byte say how many bytes name the network.
LEMMA Classes ==
  ASSUME NEW x \in 0 .. 255
  PROVE  \/ Network(x) = 1 /\ x \div 64 \in {0, 1}
         \/ Network(x) = 2 /\ x \div 64 = 2
         \/ Network(x) = 3 /\ x \div 64 = 3
<1>1. /\ x < 128 => x \div 64 \in {0, 1}
      /\ ~(x < 128) /\ x < 192 => x \div 64 = 2
      /\ ~(x < 192) => x \div 64 = 3
  BY SMTT(30)
<1> QED BY <1>1 DEF Network

\* A number of two to four bytes, of which one or more name the host, is moved to
\* the network and the host numbered from the right.
LEMMA Spreads ==
  ASSUME NEW a \in Seq(0 .. 255), Len(a) \in 2 .. 4, Len(a) > Network(a[1])
  PROVE  spread(a) = [i \in 1 .. 4 |->
                  IF i <= Network(a[1]) THEN a[i]
                  ELSE IF i > 4 - (Len(a) - Network(a[1])) THEN a[i - 4 + Len(a)] ELSE 0]
<1> DEFINE wide(n, k) == [i \in 1 .. 4 |->
                  IF i <= n THEN a[i] ELSE IF i > 4 - (k - n) THEN a[i - 4 + k] ELSE 0]
<1>1. a[1] \in 0 .. 255
  <2>1. 1 \in 1 .. Len(a)
    OBVIOUS
  <2> QED BY <2>1, ElementOfSeq
<1>2. a = [i \in 1 .. Len(a) |-> a[i]]
  OBVIOUS
<1>0. \A k \in 2 .. 4 : (k > 3 => k = 4) /\ (k > 2 => k \in {3, 4})
  OBVIOUS
<1>3. CASE Network(a[1]) = 1 /\ a[1] \div 64 \in {0, 1}
  <2>1. Network(a[1]) = 1 /\ CLASS(a) < 2 /\ CLASS(a) # 2 /\ CLASS(a) # 3 /\ CLASS(a) < 3
    <3>1. CLASS(a) \in {0, 1}
      BY <1>3 DEF CLASS
    <3> QED BY <1>3, <3>1
  <2>2. CASE Len(a) = 2
    <3>1. spread(a) = <<a[1], 0, 0, a[2]>>
      BY <2>1, <2>2 DEF spread
    <3>2. wide(1, 2) = <<a[1], 0, 0, a[2]>>
      OBVIOUS
    <3> QED BY <2>1, <2>2, <3>1, <3>2
  <2>3. CASE Len(a) = 3
    <3>1. spread(a) = <<a[1], 0, a[2], a[3]>>
      BY <2>1, <2>3 DEF spread
    <3>2. wide(1, 3) = <<a[1], 0, a[2], a[3]>>
      OBVIOUS
    <3> QED BY <2>1, <2>3, <3>1, <3>2
  <2>4. CASE Len(a) = 4
    <3>1. spread(a) = a
      BY <2>1, <2>4 DEF spread
    <3>2. wide(1, 4) = [i \in 1 .. 4 |-> a[i]]
      OBVIOUS
    <3> QED BY <1>2, <2>1, <2>4, <3>1, <3>2
  <2> QED BY <2>2, <2>3, <2>4
<1>4. CASE Network(a[1]) = 2 /\ a[1] \div 64 = 2
  <2>1. Network(a[1]) = 2 /\ CLASS(a) = 2
    BY <1>4 DEF CLASS
  <2>2. CASE Len(a) = 3
    <3>1. spread(a) = <<a[1], a[2], 0, a[3]>>
      BY <2>1, <2>2 DEF spread
    <3>2. wide(2, 3) = <<a[1], a[2], 0, a[3]>>
      OBVIOUS
    <3> QED BY <2>1, <2>2, <3>1, <3>2
  <2>3. CASE Len(a) = 4
    <3>1. spread(a) = a
      BY <2>1, <2>3 DEF spread
    <3>2. wide(2, 4) = [i \in 1 .. 4 |-> a[i]]
      OBVIOUS
    <3> QED BY <1>2, <2>1, <2>3, <3>1, <3>2
  <2>4. Len(a) \in 2 .. 4 /\ Len(a) > 2
    BY <1>4
  <2> QED BY <1>0, <2>2, <2>3, <2>4
<1>5. CASE Network(a[1]) = 3 /\ a[1] \div 64 = 3
  <2>1. Network(a[1]) = 3 /\ CLASS(a) = 3 /\ ~(CLASS(a) < 2) /\ CLASS(a) # 2 /\ Len(a) = 4
    <3>1. CLASS(a) = 3
      BY <1>5 DEF CLASS
    <3>2. Len(a) = 4
      <4>1. Len(a) \in 2 .. 4 /\ Len(a) > 3
        BY <1>5
      <4> QED BY <4>1, <1>0
    <3> QED BY <1>5, <3>1, <3>2
  <2>2. spread(a) = [i \in 1 .. 4 |-> IF i <= 4 THEN a[i] ELSE Unset]
    BY <2>1 DEF spread
  <2>3. wide(3, 4) = [i \in 1 .. 4 |-> a[i]]
    OBVIOUS
  <2>4. \A i \in 1 .. 4 : i <= 4
    OBVIOUS
  <2>5. spread(a) = [i \in 1 .. 4 |-> a[i]]
    BY <2>2, <2>4
  <2> QED BY <2>1, <2>3, <2>5
<1> QED BY <1>1, <1>3, <1>4, <1>5, Classes

\* ... and is an address then.
LEMMA SpreadBytes ==
  ASSUME NEW a \in Seq(0 .. 255), Len(a) \in 2 .. 4, Len(a) > Network(a[1])
  PROVE  spread(a) \in Seq(0 .. 255)
<1>1. ASSUME NEW i \in 1 .. 4
      PROVE  (IF i <= Network(a[1]) THEN a[i]
              ELSE IF i > 4 - (Len(a) - Network(a[1])) THEN a[i - 4 + Len(a)] ELSE 0)
               \in 0 .. 255
  <2>1. Network(a[1]) \in 1 .. 3
    BY DEF Network
  <2>2. CASE i <= Network(a[1])
    <3>1. i \in 1 .. Len(a)
      BY <2>1, <2>2
    <3>2. a[i] \in 0 .. 255
      BY <3>1, ElementOfSeq
    <3> QED BY <2>2, <3>2
  <2>3. CASE i > Network(a[1]) /\ i > 4 - (Len(a) - Network(a[1]))
    <3>1. i - 4 + Len(a) \in 1 .. Len(a)
      BY <2>1, <2>3
    <3>2. a[i - 4 + Len(a)] \in 0 .. 255
      BY <3>1, ElementOfSeq
    <3>3. ~(i <= Network(a[1]))
      BY <2>1, <2>3
    <3> QED BY <2>3, <3>2, <3>3
  <2>4. CASE ~(i <= Network(a[1])) /\ ~(i > 4 - (Len(a) - Network(a[1])))
    <3>1. 0 \in 0 .. 255
      OBVIOUS
    <3> QED BY <2>4, <3>1
  <2>5. i > Network(a[1]) <=> ~(i <= Network(a[1]))
    BY <2>1
  <2> QED BY <2>2, <2>3, <2>4, <2>5
<1>2. [i \in 1 .. 4 |->
           IF i <= Network(a[1]) THEN a[i]
           ELSE IF i > 4 - (Len(a) - Network(a[1])) THEN a[i - 4 + Len(a)] ELSE 0]
         \in [1 .. 4 -> 0 .. 255]
  BY <1>1
<1>3. \A S : \A n \in Nat : \A f \in [1 .. n -> S] : f \in Seq(S)
  <2> SUFFICES ASSUME NEW S, NEW n \in Nat, NEW f \in [1 .. n -> S] PROVE f \in Seq(S)
    OBVIOUS
  <2>1. f \in UNION {[1 .. i -> S] : i \in Nat}
    OBVIOUS
  <2> QED BY <2>1, SeqDef
<1>4. spread(a) \in [1 .. 4 -> 0 .. 255]
  BY <1>2, Spreads
<1> QED BY <1>3, <1>4

\* A name that is an address, with 0 for an empty component, stands for it, and
\* one with a component among the first four that is no byte is left to the
\* resolver.
THEOREM LookupCorrect == ParseSpec => []LookupExact
<1>1. LookupInv => LookupExact
  <2> SUFFICES ASSUME LookupInv, name # << >>
               PROVE  LET n == Network(name[1].x)
                          k == Len(name)
                      IN  /\ IsAddress /\ ip # Unset => ip = [i \in 1 .. 4 |->
                               IF i <= n THEN name[i].x
                               ELSE IF i > 4 - (k - n) THEN name[i - 4 + k].x ELSE 0]
                          /\ (\E i \in 1 .. k : i <= 4 /\ ~name[i].wraps /\ ~IsByte(name[i]))
                               => ip \in Hosts \cup {Unset}
    BY DEF LookupExact
  <2> DEFINE n == Network(name[1].x)
             k == Len(name)
             m == IF k < 4 THEN k ELSE 4
  <2>1. k \in Nat /\ IpExact
        /\ IF \A i \in 1 .. m : Taken(name[i])
           THEN addr \in Seq(0 .. 255) /\ Len(addr) = m /\ \A i \in 1 .. m : addr[i] = name[i].x
           ELSE addr = Unset
    BY DEF LookupInv, AddrExact
  <2>2. ASSUME IsAddress, ip # Unset
        PROVE  ip = [i \in 1 .. 4 |->
                 IF i <= n THEN name[i].x
                 ELSE IF i > 4 - (k - n) THEN name[i - 4 + k].x ELSE 0]
    <3>1. k \in 2 .. 4 /\ k > n /\ m = k /\ \A i \in 1 .. m : Taken(name[i])
      BY <2>1, <2>2 DEF IsAddress, IsByte, Taken
    <3>2. addr \in Seq(0 .. 255) /\ Len(addr) = k /\ \A i \in 1 .. k : addr[i] = name[i].x
      BY <2>1, <3>1
    <3>3. n = Network(addr[1]) /\ n \in {1, 2, 3} /\ addr # Unset
      BY <3>1, <3>2, ParseIpAssumption DEF Network
    <3> HIDE DEF n, k
    <3>4. /\ spread(addr) \in Seq(0 .. 255)
          /\ spread(addr) = [i \in 1 .. 4 |->
               IF i <= n THEN addr[i] ELSE IF i > 4 - (k - n) THEN addr[i - 4 + k] ELSE 0]
      BY <3>1, <3>2, <3>3, Spreads, SpreadBytes
    <3>5. ip = spread(addr)
      <4>1. addr # << >> /\ spread(addr) # Unset
        <5>1. addr # << >>
          BY <3>1, <3>2
        <5>2. spread(addr) # Unset
          BY <3>4, ParseIpAssumption
        <5> QED BY <5>1, <5>2
      <4>2. parseip = {spread(addr)}
        BY <3>3, <4>1 DEF parseip
      <4> QED BY <2>1, <2>2, <4>1, <4>2 DEF IpExact
    <3>6. ASSUME NEW i \in 1 .. 4
          PROVE  (IF i <= n THEN addr[i] ELSE IF i > 4 - (k - n) THEN addr[i - 4 + k] ELSE 0)
                   = (IF i <= n THEN name[i].x
                      ELSE IF i > 4 - (k - n) THEN name[i - 4 + k].x ELSE 0)
      <4>1. i <= n => i \in 1 .. k
        BY <3>1, <3>3
      <4>2. i > 4 - (k - n) => i - 4 + k \in 1 .. k
        BY <3>1, <3>3
      <4> QED BY <4>1, <4>2, <3>2
    <3> QED BY <3>4, <3>5, <3>6
  <2>3. ASSUME NEW i \in 1 .. k, i <= 4, ~name[i].wraps, ~IsByte(name[i])
        PROVE  ip \in Hosts \cup {Unset}
    <3>1. i \in 1 .. m /\ ~Taken(name[i])
      BY <2>1, <2>3 DEF IsByte, Taken
    <3>2. parseip = {Unset}
      BY <2>1, <3>1 DEF parseip
    <3> QED BY <2>1, <3>2 DEF IpExact
  <2> QED BY <2>2, <2>3
<1> QED BY <1>1, InitLookup, StepLookup, PTL DEF ParseSpec

-----------------------------------------------------------------------------

\* print.c.  First what recursion over numbers needs: the least element of a set,
\* induction, and the solution of a recursion.
LEMMA LeastOf ==
  ASSUME NEW T \in SUBSET Nat, T # {}
  PROVE  \E x \in T : \A y \in T : x <= y
<1> DEFINE R == {p \in Nat \X Nat : p[1] < p[2]}
<1>1. OpToRel(<, Nat) = R
  BY DEF OpToRel
<1>2. IsWellFoundedOn(R, Nat)
  BY <1>1, NatLessThanWellFounded, Zenon
<1>3. \A x, y \in Nat : x < y => <<x, y>> \in R
  OBVIOUS
<1> HIDE DEF R
<1>4. PICK x \in T : \A y \in T : ~ (<<y, x>> \in R)
  BY <1>2, WFMin
<1>5. ASSUME NEW y \in T PROVE x <= y
  <2>1. x \in Nat /\ y \in Nat
    OBVIOUS
  <2>2. ~ (y < x)
    BY <1>3, <1>4, <2>1
  <2> QED BY <2>1, <2>2
<1> QED BY <1>5

\* Induction over the elements of a set: as a fact about sets it needs no
\* operator for its parameter.
LEMMA Induction ==
  ASSUME NEW n \in Nat, NEW T, 0 \in T,
         \A k \in 1 .. n : (k - 1) \in T => k \in T
  PROVE  \A k \in 0 .. n : k \in T
<1> DEFINE Out == {k \in 0 .. n : k \notin T}
<1>1. SUFFICES ASSUME Out # {} PROVE FALSE
  OBVIOUS
<1>2. PICK x \in Out : \A y \in Out : x <= y
  <2>1. Out \subseteq Nat
    OBVIOUS
  <2> HIDE DEF Out
  <2> QED BY <1>1, <2>1, LeastOf
<1>3. x # 0 /\ x - 1 \notin Out
  BY <1>2
<1> QED BY <1>3

Solves(p, a, F, n) == p[0] = a /\ \A k \in 1 .. n : p[k] = F[<<k, p[k - 1]>>]

\* Each step of a recursion from a in S stays in S: the recursion has a solution.
LEMMA Recursion ==
  ASSUME NEW S, NEW a \in S, NEW F \in [Nat \X S -> S], NEW n \in Nat
  PROVE  \E p \in [0 .. n -> S] : Solves(p, a, F, n)
<1> USE DEF Solves
<1> DEFINE T == {m \in Nat : \E p \in [0 .. m -> S] : Solves(p, a, F, m)}
<1>1. 0 \in T
  <2> DEFINE p == [i \in 0 .. 0 |-> a]
  <2>1. p \in [0 .. 0 -> S] /\ Solves(p, a, F, 0)
    OBVIOUS
  <2> QED BY <2>1
<1>2. ASSUME NEW k \in 1 .. n, k - 1 \in T PROVE k \in T
  <2>1. PICK p \in [0 .. k - 1 -> S] : Solves(p, a, F, k - 1)
    BY <1>2
  <2> DEFINE q == [i \in 0 .. k |-> IF i = k THEN F[<<k, p[k - 1]>>] ELSE p[i]]
  <2>2. <<k, p[k - 1]>> \in Nat \X S
    OBVIOUS
  <2>3. q \in [0 .. k -> S]
    BY <2>2
  <2>4. q[0] = a
    BY <2>1
  <2>5. ASSUME NEW i \in 1 .. k PROVE q[i] = F[<<i, q[i - 1]>>]
    <3>1. q[i - 1] = p[i - 1]
      OBVIOUS
    <3>2. CASE i = k
      <4>1. q[k] = F[<<k, p[k - 1]>>]
        OBVIOUS
      <4>2. q[k - 1] = p[k - 1]
        BY <3>1, <3>2
      <4> HIDE DEF q
      <4> QED BY <3>2, <4>1, <4>2
    <3>3. CASE i # k
      <4>1. i \in 1 .. k - 1 /\ q[i] = p[i]
        BY <3>3
      <4> QED BY <2>1, <3>1, <4>1
    <3> QED BY <3>2, <3>3
  <2> HIDE DEF q
  <2>6. k \in Nat
    OBVIOUS
  <2> QED BY <2>3, <2>4, <2>5, <2>6
<1> HIDE DEF T
<1>3. n \in T
  BY <1>1, <1>2, Induction
<1> QED BY <1>3 DEF T

Bases == {8, 10, 16}

\* Power(base) holds the powers of base.
LEMMA PowerType ==
  ASSUME NEW base \in Bases
  PROVE  /\ Power(base) \in [0 .. VlongRange -> Nat]
         /\ Power(base)[0] = 1
         /\ \A k \in 1 .. VlongRange : Power(base)[k] = base * Power(base)[k - 1]
<1> DEFINE V == VlongRange
           F == [x \in Nat \X Nat |-> base * x[2]]
           step(p) == [k \in 0 .. V |-> IF k = 0 THEN 1 ELSE base * p[k - 1]]
<1>1. V \in Nat
  BY PrintAssumption
<1>2. base \in Nat
  BY DEF Bases
<1>3. F \in [Nat \X Nat -> Nat]
  BY <1>2
<1>4. PICK p \in [0 .. V -> Nat] : Solves(p, 1, F, V)
  <2>1. 1 \in Nat
    OBVIOUS
  <2> HIDE DEF F
  <2> QED BY <1>1, <1>3, <2>1, Recursion, Zenon
<1>5. \A k \in 1 .. V : p[k] = base * p[k - 1]
  <2> SUFFICES ASSUME NEW k \in 1 .. V PROVE p[k] = base * p[k - 1]
    OBVIOUS
  <2>1. k - 1 \in 0 .. V /\ k \in Nat
    BY <1>1
  <2>2. p[k - 1] \in Nat
    BY <2>1
  <2>3. p[k] = F[<<k, p[k - 1]>>]
    BY <1>4 DEF Solves
  <2> QED BY <2>1, <2>2, <2>3
<1>6. p = step(p)
  BY <1>4, <1>5 DEF Solves
<1>7. Power(base) = CHOOSE q : q = step(q)
  BY DEF Power
<1>8. Power(base) = step(Power(base))
  BY <1>6, <1>7
<1> DEFINE P == Power(base)
           T == {k \in 0 .. V : P[k] \in Nat}
<1> HIDE DEF P
<1>9. P[0] = 1 /\ \A k \in 1 .. V : P[k] = base * P[k - 1]
  <2>1. P = step(P)
    BY <1>8 DEF P
  <2> QED BY <1>1, <2>1
<1>10. \A k \in 0 .. V : k \in T
  <2>1. 0 \in T
    BY <1>1, <1>9
  <2>2. \A k \in 1 .. V : k - 1 \in T => k \in T
    BY <1>2, <1>9
  <2> HIDE DEF T
  <2> QED BY <1>1, <2>1, <2>2, Induction
<1>11. P \in [0 .. V -> Nat]
  <2>1. P = step(P)
    BY <1>8 DEF P
  <2> QED BY <1>10, <2>1
<1> QED BY <1>9, <1>11 DEF P

\* Powers grow, and faster than their exponents.
LEMMA PowerGrows ==
  ASSUME NEW base \in Bases, NEW k \in 0 .. VlongRange
  PROVE  /\ Power(base)[k] \in Nat /\ k < Power(base)[k]
         /\ \A j \in 0 .. k : Power(base)[j] <= Power(base)[k]
<1> DEFINE P == Power(base)
           V == VlongRange
           T == {i \in 0 .. V : i < P[i] /\ \A j \in 0 .. i : P[j] <= P[i]}
<1>1. V \in Nat /\ base \in Nat /\ base >= 2
  BY PrintAssumption DEF Bases
<1>2. P \in [0 .. V -> Nat] /\ P[0] = 1 /\ \A i \in 1 .. V : P[i] = base * P[i - 1]
  BY PowerType
<1> HIDE DEF P
<1>3. 0 \in T
  BY <1>1, <1>2
<1>4. ASSUME NEW i \in 1 .. V, i - 1 \in T PROVE i \in T
  <2>1. P[i] = base * P[i - 1] /\ P[i - 1] \in Nat /\ P[i] \in Nat /\ i - 1 < P[i - 1]
    BY <1>2, <1>4
  <2>2. P[i] >= P[i - 1] + P[i - 1]
    BY <1>1, <2>1, base \in {8, 10, 16} DEF Bases
  <2>3. i < P[i] /\ P[i - 1] <= P[i]
    BY <2>1, <2>2
  <2>4. \A j \in 0 .. i : P[j] <= P[i]
    <3> SUFFICES ASSUME NEW j \in 0 .. i PROVE P[j] <= P[i]
      OBVIOUS
    <3>1. CASE j = i
      BY <2>1, <3>1
    <3>2. CASE j # i
      <4>1. j \in 0 .. i - 1 /\ j \in 0 .. V
        BY <1>1, <3>2
      <4>3. P[j] \in Nat
        BY <1>2, <4>1
      <4>2. P[j] <= P[i - 1]
        BY <1>4, <4>1
      <4> QED BY <2>1, <2>3, <4>3, <4>2
    <3> QED BY <3>1, <3>2
  <2> QED BY <2>3, <2>4
<1>5. k \in T
  <2> HIDE DEF T
  <2> QED BY <1>1, <1>3, <1>4, Induction
<1> QED BY <1>2, <1>5 DEF P

\* k is the number of digits of n.
HasWidth(n, base, k) ==
  n < Power(base)[k] /\ (k > 0 => Power(base)[k - 1] <= n)

LEMMA WidthExists ==
  ASSUME NEW base \in Bases, NEW n \in 0 .. VlongRange - 1
  PROVE  \E k \in 0 .. n : HasWidth(n, base, k)
<1> DEFINE P == Power(base)
           T == {k \in 0 .. n : n < P[k]}
<1>1. VlongRange \in Nat /\ n \in 0 .. VlongRange
  BY PrintAssumption
<1>2. P \in [0 .. VlongRange -> Nat] /\ P[0] = 1
  BY PowerType
<1>3. n < P[n]
  BY <1>1, PowerGrows
<1> HIDE DEF P
<1>4. T \subseteq Nat /\ T # {}
  BY <1>1, <1>3
<1>5. PICK k \in T : \A j \in T : k <= j
  <2> HIDE DEF T
  <2> QED BY <1>4, LeastOf
<1>6. k > 0 => P[k - 1] <= n
  <2> SUFFICES ASSUME k > 0, ~ (P[k - 1] <= n) PROVE FALSE
    OBVIOUS
  <2>1. k - 1 \in 0 .. n /\ k - 1 \in 0 .. VlongRange
    BY <1>1
  <2>2. P[k - 1] \in Nat
    BY <1>2, <2>1
  <2>3. k - 1 \in T
    BY <1>1, <2>1, <2>2
  <2> QED BY <1>5, <2>3
<1> QED BY <1>5, <1>6 DEF HasWidth, P

LEMMA WidthUnique ==
  ASSUME NEW base \in Bases, NEW n \in 0 .. VlongRange - 1,
         NEW j \in 0 .. VlongRange, NEW k \in 0 .. VlongRange,
         HasWidth(n, base, j), HasWidth(n, base, k)
  PROVE  j = k
<1>1. VlongRange \in Nat
  BY PrintAssumption
<1>2. ASSUME NEW x \in 0 .. VlongRange, NEW y \in 0 .. VlongRange,
             HasWidth(n, base, x), HasWidth(n, base, y)
      PROVE  ~ (x < y)
  <2> SUFFICES ASSUME x < y PROVE FALSE
    OBVIOUS
  <2>1. x \in 0 .. y - 1 /\ y - 1 \in 0 .. VlongRange
    BY <1>1
  <2>2. Power(base)[x] <= Power(base)[y - 1]
    BY <2>1, PowerGrows
  <2>3. Power(base)[x] \in Nat /\ Power(base)[y - 1] \in Nat
    BY <2>1, PowerGrows
  <2>4. n < Power(base)[x] /\ Power(base)[y - 1] <= n
    BY <1>2, <2>1 DEF HasWidth
  <2> QED BY <1>1, <2>2, <2>3, <2>4
<1>3. ~ (j < k) /\ ~ (k < j)
  BY <1>2
<1> QED BY <1>1, <1>3

LEMMA NumeralIs ==
  ASSUME NEW base \in Bases, NEW n \in 0 .. VlongRange - 1, NEW k \in 0 .. n,
         HasWidth(n, base, k)
  PROVE  Numeral(n, base)
           = [i \in 1 .. k |-> Digits[((n \div Power(base)[k - i]) % base) + 1]]
<1> DEFINE j == CHOOSE j \in 0 .. n :
             n < Power(base)[j] /\ (j > 0 => Power(base)[j - 1] <= n)
<1>1. j \in 0 .. n /\ HasWidth(n, base, j)
  BY DEF HasWidth
<1>2. j = k
  <2> HIDE DEF j
  <2>1. j \in 0 .. VlongRange /\ k \in 0 .. VlongRange
    BY <1>1, PrintAssumption
  <2> QED BY <1>1, <2>1, WidthUnique
<1>3. Numeral(n, base)
        = [i \in 1 .. j |-> Digits[((n \div Power(base)[j - i]) % base) + 1]]
  BY DEF Numeral
<1> HIDE DEF j
<1> QED BY <1>2, <1>3

\* All characters that are ever written.
DigitChars == {"0", "1", "2", "3", "4", "5", "6", "7", "8", "9", "a", "b", "c", "d", "e", "f"}
Written == Chars \cup DigitChars \cup {blank, "x", "*", "v", "r"}

LEMMA DigitType ==
  ASSUME NEW base \in Bases, NEW n \in Nat
  PROVE  Digits[(n % base) + 1] \in Written
<1>1. (n % base) + 1 \in 1 .. 16
  BY DEF Bases
<1>2. \A d \in 1 .. 16 : Digits[d] \in Written
  <2>1. ASSUME NEW d \in 1 .. 16 PROVE Digits[d] \in DigitChars
    BY DEF Digits, DigitChars
  <2> QED BY <2>1 DEF Written
<1> QED BY <1>1, <1>2

\* 1 .. k with an element for each index is a sequence.
LEMMA IsSequence ==
  ASSUME NEW S, NEW k \in Nat, NEW f \in [1 .. k -> S]
  PROVE  f \in Seq(S) /\ Len(f) = k
<1>1. f \in Seq(S)
  BY SeqDef
<1> QED BY <1>1

LEMMA NumeralType ==
  ASSUME NEW base \in Bases, NEW n \in 0 .. VlongRange - 1
  PROVE  Numeral(n, base) \in Seq(Written)
<1>1. PICK k \in 0 .. n : HasWidth(n, base, k)
  BY WidthExists
<1>2. Numeral(n, base)
        = [i \in 1 .. k |-> Digits[((n \div Power(base)[k - i]) % base) + 1]]
  BY <1>1, NumeralIs
<1>3. ASSUME NEW i \in 1 .. k
      PROVE  Digits[((n \div Power(base)[k - i]) % base) + 1] \in Written
  <2>1. k - i \in 0 .. VlongRange
    BY PrintAssumption
  <2>2. Power(base)[k - i] \in Nat \ {0}
    BY <2>1, PowerGrows
  <2>3. n \div Power(base)[k - i] \in Nat
    BY <2>2
  <2> QED BY <2>3, DigitType
<1>4. Numeral(n, base) \in [1 .. k -> Written]
  BY <1>2, <1>3
<1> QED BY <1>4, IsSequence

LEMMA DivDiv ==
  ASSUME NEW base \in Bases, NEW n \in Nat, NEW p \in Nat \ {0}
  PROVE  (n \div base) \div p = n \div (base * p)
<1>1. CASE base = 8
  BY <1>1
<1>2. CASE base = 10
  BY <1>2
<1>3. CASE base = 16
  BY <1>3
<1> QED BY <1>1, <1>2, <1>3 DEF Bases

\* The last digit of a numeral is the remainder; the others are the numeral of
\* the quotient.
LEMMA NumeralStep ==
  ASSUME NEW base \in Bases, NEW n \in 1 .. VlongRange - 1
  PROVE  /\ n \div base \in 0 .. VlongRange - 1 /\ n \div base < n
         /\ Numeral(n, base) = Append(Numeral(n \div base, base), Digits[(n % base) + 1])
<1> DEFINE P == Power(base)
           m == n \div base
<1>1. VlongRange \in Nat /\ base \in Nat /\ base >= 2
  BY PrintAssumption DEF Bases
<1>2. P[0] = 1 /\ \A i \in 1 .. VlongRange : P[i] = base * P[i - 1] /\ P[i - 1] \in Nat \ {0}
  <2>1. \A i \in 1 .. VlongRange : i - 1 \in 0 .. VlongRange
    BY <1>1
  <2> QED BY <1>1, <2>1, PowerType, PowerGrows
<1>3. m \in 0 .. VlongRange - 1 /\ m < n
  BY <1>1, base \in {8, 10, 16} DEF Bases
<1>4. PICK k \in 0 .. n : HasWidth(n, base, k)
  BY <1>1, WidthExists
<1> HIDE DEF P, m
<1>5. n < P[k] /\ (k > 0 => P[k - 1] <= n)
  BY <1>4 DEF HasWidth, P
<1>6. k > 0
  BY <1>1, <1>2, <1>5
<1>7. k \in 1 .. VlongRange
  BY <1>1, <1>6
<1>8. HasWidth(m, base, k - 1) /\ k - 1 \in 0 .. m
  <2>1. m < P[k - 1]
    <3>1. n < base * P[k - 1] /\ P[k - 1] \in Nat
      BY <1>2, <1>5, <1>7
    <3> QED BY <3>1, base \in {8, 10, 16} DEF Bases, m
  <2>2. k - 1 > 0 => P[k - 2] <= m
    <3> SUFFICES ASSUME k - 1 > 0 PROVE P[k - 2] <= m
      OBVIOUS
    <3>1. k - 1 \in 1 .. VlongRange /\ k - 1 - 1 = k - 2
      BY <1>1, <1>7
    <3>2. P[k - 1] = base * P[k - 2] /\ P[k - 2] \in Nat
      BY <1>2, <3>1
    <3>3. base * P[k - 2] <= n
      BY <1>5, <1>6, <3>2
    <3> QED BY <3>2, <3>3, base \in {8, 10, 16} DEF Bases, m
  <2>3. k - 1 <= m
    <3>1. CASE k = 1
      BY <1>3, <3>1
    <3>2. CASE k # 1
      <4>1. k - 2 \in 0 .. VlongRange
        BY <1>1, <1>7, <3>2
      <4>2. k - 2 < P[k - 2] /\ P[k - 2] \in Nat
        BY <4>1, PowerGrows DEF P
      <4> QED BY <1>1, <1>3, <1>7, <2>2, <3>2, <4>2
    <3> QED BY <3>1, <3>2
  <2>4. k - 1 - 1 = k - 2
    BY <1>7
  <2> QED BY <1>3, <1>7, <2>1, <2>2, <2>3, <2>4 DEF HasWidth, P
<1> DEFINE digit(x, i) == Digits[((x \div P[i]) % base) + 1]
<1>9. Numeral(n, base) = [i \in 1 .. k |-> digit(n, k - i)]
  BY <1>1, <1>4, NumeralIs DEF P
<1>10. Numeral(m, base) = [i \in 1 .. k - 1 |-> digit(m, k - 1 - i)]
  BY <1>3, <1>8, NumeralIs DEF P
<1>11. ASSUME NEW i \in 1 .. k - 1 PROVE digit(m, k - 1 - i) = digit(n, k - i)
  <2>1. k - i \in 1 .. VlongRange /\ (k - i) - 1 = k - 1 - i
    BY <1>1, <1>7
  <2>2. P[k - i] = base * P[k - 1 - i] /\ P[k - 1 - i] \in Nat \ {0}
    BY <1>2, <2>1
  <2>3. m \div P[k - 1 - i] = n \div P[k - i]
    BY <2>2, DivDiv DEF m
  <2> QED BY <2>3
<1>12. digit(n, k - k) = Digits[(n % base) + 1]
  <2>1. k - k = 0 /\ n \div 1 = n
    BY <1>7
  <2> QED BY <1>2, <2>1
<1> HIDE DEF digit
<1>13. Numeral(m, base) \in Seq(Written) /\ Len(Numeral(m, base)) = k - 1
  <2>1. Numeral(m, base) \in Seq(Written)
    BY <1>3, NumeralType
  <2>2. DOMAIN Numeral(m, base) = 1 .. k - 1
    BY <1>10
  <2> QED BY <1>7, <2>1, <2>2, LenProperties
<1>14. Numeral(n, base) = Append(Numeral(m, base), digit(n, k - k))
  BY <1>7, <1>9, <1>10, <1>11, <1>13
<1> QED BY <1>3, <1>12, <1>14 DEF m

-----------------------------------------------------------------------------

LEMMA NumeralZero == ASSUME NEW base \in Bases PROVE Numeral(0, base) = << >>
<1>1. HasWidth(0, base, 0)
  BY PowerType DEF HasWidth
<1>2. 0 \in 0 .. VlongRange - 1 /\ 0 \in 0 .. 0
  BY PrintAssumption
<1>3. Numeral(0, base)
        = [i \in 1 .. 0 |-> Digits[((0 \div Power(base)[0 - i]) % base) + 1]]
  BY <1>1, <1>2, NumeralIs
<1> QED BY <1>3

\* The loop of the code computes the numeral.
LEMMA DigitsAreNumeral ==
  ASSUME NEW base \in Bases, NEW n \in 0 .. VlongRange - 1
  PROVE  digits(base)[n] = Numeral(n, base)
<1> DEFINE V == VlongRange
           step(d) == [i \in 0 .. V - 1 |->
                        IF i = 0 THEN << >> ELSE Append(d[i \div base], Digits[(i % base) + 1])]
           g == [i \in 0 .. V - 1 |-> Numeral(i, base)]
           D == digits(base)
<1>1. V \in Nat
  BY PrintAssumption
<1>2. \A i \in 1 .. V - 1 :
        /\ i \div base \in 0 .. V - 1 /\ i \div base < i
        /\ Numeral(i, base) = Append(Numeral(i \div base, base), Digits[(i % base) + 1])
  BY NumeralStep
<1>3. Numeral(0, base) = << >>
  BY NumeralZero
<1>4. g = step(g)
  BY <1>1, <1>2, <1>3
<1>5. D = CHOOSE d : d = step(d)
  BY DEF digits
<1>6. D = step(D)
  <2> HIDE DEF g, D
  <2> QED BY <1>4, <1>5
<1> DEFINE T == {i \in 0 .. V - 1 : D[i] # Numeral(i, base)}
<1> HIDE DEF D
<1>7. /\ 0 \in 0 .. V - 1 => D[0] = << >>
      /\ \A i \in 1 .. V - 1 : D[i] = Append(D[i \div base], Digits[(i % base) + 1])
  <2>1. \A i \in 0 .. V - 1 :
          D[i] = IF i = 0 THEN << >> ELSE Append(D[i \div base], Digits[(i % base) + 1])
    BY <1>6, Zenon
  <2>2. \A i \in 1 .. V - 1 : i \in 0 .. V - 1 /\ i # 0
    BY <1>1
  <2> QED BY <2>1, <2>2
<1>8. T = {}
  <2> SUFFICES ASSUME T # {} PROVE FALSE
    OBVIOUS
  <2>1. PICK i \in T : \A j \in T : i <= j
    <3>1. T \subseteq Nat
      BY <1>1
    <3> HIDE DEF T
    <3> QED BY <3>1, LeastOf
  <2>2. i \in 1 .. V - 1
    BY <1>1, <1>3, <1>7
  <2>3. i \div base \notin T /\ i \div base \in 0 .. V - 1
    BY <1>1, <1>2, <2>1, <2>2
  <2> QED BY <1>2, <1>7, <2>2, <2>3
<1> QED BY <1>8 DEF D

LEMMA NegMod ==
  ASSUME NEW V \in Nat, NEW d \in 1 .. V - 1
  PROVE  (-d) % V = V - d
<1>1. -d = V * (-1) + (V - d) /\ V - d \in 0 .. V - 1
  OBVIOUS
<1> QED BY <1>1

\* The number that is written is the absolute value of the argument.
LEMMA LuvIsAbsolute ==
  ASSUME NEW item \in Items, item.verb \in Numbers
  PROVE  /\ Value(item) \in Int
         /\ luv(item) = IF Value(item) < 0 THEN -Value(item) ELSE Value(item)
         /\ luv(item) \in 0 .. VlongRange - 1
<1> DEFINE V == VlongRange
           m == Values(item)
           a == item.arg % m
           x == Value(item) % V
<1>1. V \in Nat \ {0} /\ V % 2 = 0 /\ m \in Nat \ {0} /\ m % 2 = 0 /\ m <= V
  BY PrintAssumption DEF Values
<1>2. item.arg \in Int /\ item.unsigned \in BOOLEAN
  BY PrintAssumption
<1>3. Value(item) = IF item.unsigned \/ a < m \div 2 THEN a ELSE a - m
  BY DEF Value
<1>4. luv(item) = IF ~item.unsigned /\ x >= V \div 2 THEN (-x) % V ELSE x
  BY DEF luv
<1> HIDE DEF m
<1>5. a \in 0 .. m - 1
  BY <1>1, <1>2
<1>6. 2 * (m \div 2) = m /\ 2 * (V \div 2) = V
  BY <1>1
<1> HIDE DEF a
<1>7. CASE item.unsigned
  <2>1. Value(item) = a /\ x = a
    BY <1>1, <1>3, <1>5, <1>7
  <2> QED BY <1>1, <1>4, <1>5, <1>7, <2>1
<1>8. CASE ~item.unsigned /\ a < m \div 2
  <2>1. Value(item) = a /\ x = a
    BY <1>1, <1>3, <1>5, <1>8
  <2>2. x < V \div 2
    BY <1>1, <1>5, <1>6, <1>8, <2>1
  <2> QED BY <1>1, <1>4, <1>5, <2>1, <2>2
<1>9. CASE ~item.unsigned /\ ~ (a < m \div 2)
  <2>1. Value(item) = a - m /\ a - m < 0 /\ m - a <= V \div 2 /\ m - a \in 1 .. V - 1
    BY <1>1, <1>3, <1>5, <1>6, <1>9
  <2>2. x = V - (m - a)
    <3>1. a - m = - (m - a)
      BY <1>1, <1>5
    <3> QED BY <1>1, <2>1, <3>1, NegMod
  <2>3. (-x) % V = m - a
    <3>1. V - (m - a) \in 1 .. V - 1 /\ V - (V - (m - a)) = m - a
      BY <1>1, <1>5, <2>1
    <3> QED BY <1>1, <2>2, <3>1, NegMod
  <2>4. x >= V \div 2
    BY <1>1, <1>5, <1>6, <2>1, <2>2
  <2> QED BY <1>1, <1>4, <1>5, <1>9, <2>1, <2>3, <2>4
<1> QED BY <1>7, <1>8, <1>9

LEMMA ConcatThree ==
  ASSUME NEW S, NEW a \in S, NEW b \in S, NEW c \in S
  PROVE  <<a>> \o <<b, c>> = <<a, b, c>>
<1> DEFINE s == <<a>>
           t == <<b, c>>
           u == <<a, b, c>>
<1>1. s \in Seq(S) /\ t \in Seq(S) /\ u \in Seq(S) /\ Len(s) = 1 /\ Len(t) = 2 /\ Len(u) = 3
  OBVIOUS
<1>2. s[1] = a /\ t[1] = b /\ t[2] = c /\ u[1] = a /\ u[2] = b /\ u[3] = c
  OBVIOUS
<1> HIDE DEF s, t, u
<1>3. /\ s \o t \in Seq(S) /\ Len(s \o t) = 3
      /\ \A i \in 1 .. 3 : (s \o t)[i] = IF i <= 1 THEN s[i] ELSE t[i - 1]
  <2>1. /\ s \o t \in Seq(S) /\ Len(s \o t) = Len(s) + Len(t)
        /\ \A i \in 1 .. Len(s) + Len(t) :
             (s \o t)[i] = IF i <= Len(s) THEN s[i] ELSE t[i - Len(s)]
    BY <1>1, ConcatProperties
  <2>2. Len(s) + Len(t) = 3
    BY <1>1
  <2> QED BY <1>1, <2>1, <2>2
<1>4. \A i \in 1 .. 3 : (s \o t)[i] = u[i]
  BY <1>2, <1>3
<1> QED BY <1>1, <1>3, <1>4, SeqEqual DEF s, t, u

\* The text of a conversion before it is put in its field.
Plain(item) ==
  LET n == IF Value(item) < 0 THEN -Value(item) ELSE Value(item)
  IN  CASE item.verb = "s" -> item.arg
        [] item.verb = "d" -> IF n = 0 THEN <<"0">> ELSE Numeral(n, 10)
        [] item.verb = "o" -> <<"0">> \o Numeral(n, 8)
        [] item.verb = "x" -> IF n = 0 THEN <<"0", "0", "x">>
                              ELSE <<"0", "x">> \o Numeral(n, 16)
        [] item.verb = "other" -> <<"*", "v", "e", "r", "b", "*">>

LEMMA TextIsPlain ==
  ASSUME NEW item \in Items
  PROVE  text(item) = Plain(item) /\ Plain(item) \in Seq(Written)
<1>1. item.verb \in Verbs /\ item.size \in Int
  BY PrintAssumption
<1>2. CASE item.verb = "s"
  <2>1. item.arg \in Seq(Chars)
    BY <1>2, PrintAssumption
  <2>2. item.arg \in Seq(Written)
    BY <2>1, SeqMonotonic DEF Written
  <2> QED BY <1>2, <2>2 DEF text, Plain
<1>3. CASE item.verb = "other"
  <2>1. <<"*", "v", "e", "r", "b", "*">> \in Seq(Written)
    BY DEF Written, DigitChars
  <2> QED BY <1>3, <2>1 DEF text, Plain, Numbers
<1>4. CASE item.verb \in Numbers
  <2> DEFINE n == IF Value(item) < 0 THEN -Value(item) ELSE Value(item)
             base == Base(item)
  <2>1. luv(item) = n /\ n \in 0 .. VlongRange - 1
    BY <1>4, LuvIsAbsolute
  <2>2. base \in Bases
    BY <1>4 DEF Base, Bases, Numbers
  <2>3. digits(base)[n] = Numeral(n, base) /\ Numeral(n, base) \in Seq(Written)
    <3> HIDE DEF n, base
    <3> QED BY <2>1, <2>2, DigitsAreNumeral, NumeralType
  <2>4. n = 0 => digits(base)[n] = << >>
    BY <2>1, <2>2, <2>3, NumeralZero
  <2>5. text(item) = digitsOf(item)
    BY <1>4 DEF text, Numbers
  <2> HIDE DEF n
  <2>6. digitsOf(item) = (IF base = 8 \/ n = 0 THEN <<"0">> ELSE << >>)
                         \o (IF base = 16 THEN <<"0", "x">> ELSE << >>) \o Numeral(n, base)
    BY <2>1, <2>3 DEF digitsOf
  <2>7. <<"0">> \in Seq(Written) /\ <<"0", "x">> \in Seq(Written) /\ << >> \in Seq(Written)
        /\ <<"0", "0", "x">> \in Seq(Written)
    BY DEF Written, DigitChars
  <2>8. Numeral(n, base) \in Seq(Written) /\ (n = 0 => Numeral(n, base) = << >>)
    BY <2>3, <2>4
  <2>9. CASE item.verb = "d"
    <3>1. base = 10 /\ Plain(item) = IF n = 0 THEN <<"0">> ELSE Numeral(n, 10)
      BY <2>9 DEF Base, Plain, n
    <3>2. digitsOf(item) = (IF n = 0 THEN <<"0">> ELSE << >>) \o << >> \o Numeral(n, 10)
      BY <2>6, <3>1
    <3> QED BY <2>5, <2>7, <2>8, <3>1, <3>2
  <2>10. CASE item.verb = "o"
    <3>1. base = 8 /\ Plain(item) = <<"0">> \o Numeral(n, 8)
      BY <2>10 DEF Base, Plain, n
    <3>2. digitsOf(item) = <<"0">> \o << >> \o Numeral(n, 8)
      BY <2>6, <3>1
    <3> QED BY <2>5, <2>7, <2>8, <3>1, <3>2
  <2>11. CASE item.verb = "x"
    <3>1. base = 16 /\ Plain(item) = IF n = 0 THEN <<"0", "0", "x">>
                                     ELSE <<"0", "x">> \o Numeral(n, 16)
      BY <2>11 DEF Base, Plain, n
    <3>2. digitsOf(item) = (IF n = 0 THEN <<"0">> ELSE << >>) \o <<"0", "x">> \o Numeral(n, 16)
      BY <2>6, <3>1
    <3>3. Numeral(n, 16) \in Seq(Written) /\ (n = 0 => Numeral(n, 16) = << >>)
      BY <2>8, <3>1
    <3>4. CASE n = 0
      <4>1. <<"0">> \o <<"0", "x">> = <<"0", "0", "x">>
        <5>1. "0" \in Written /\ "x" \in Written
          BY DEF Written, DigitChars
        <5> QED BY <5>1, ConcatThree
      <4>2. <<"0", "0", "x">> \o << >> = <<"0", "0", "x">>
        BY <2>7, ConcatEmptySeq
      <4> QED BY <2>5, <2>7, <3>1, <3>2, <3>3, <3>4, <4>1, <4>2
    <3>5. CASE n # 0
      <4>1. << >> \o <<"0", "x">> = <<"0", "x">>
        OBVIOUS
      <4>2. <<"0", "x">> \o Numeral(n, 16) \in Seq(Written)
        BY <2>7, <3>3, ConcatProperties
      <4> QED BY <2>5, <3>1, <3>2, <3>5, <4>1, <4>2
    <3> QED BY <3>4, <3>5
  <2> QED BY <1>4, <2>9, <2>10, <2>11 DEF Numbers
<1> QED BY <1>1, <1>2, <1>3, <1>4 DEF Verbs

-----------------------------------------------------------------------------

\* Blanks after or before a text.
LEMMA Padded ==
  ASSUME NEW a \in Seq(Written), NEW k \in Nat
  PROVE  /\ a \o Blanks(k) \in Seq(Written) /\ Len(a \o Blanks(k)) = Len(a) + k
         /\ \A i \in 1 .. Len(a) + k : (a \o Blanks(k))[i] = IF i <= Len(a) THEN a[i] ELSE blank
         /\ Blanks(k) \o a \in Seq(Written) /\ Len(Blanks(k) \o a) = k + Len(a)
         /\ \A i \in 1 .. k + Len(a) : (Blanks(k) \o a)[i] = IF i <= k THEN blank ELSE a[i - k]
<1> DEFINE b == Blanks(k)
<1>1. Len(a) \in Nat
  OBVIOUS
<1>2. b \in [1 .. k -> Written] /\ \A i \in 1 .. k : b[i] = blank
  BY DEF Blanks, Written
<1> HIDE DEF b
<1>3. b \in Seq(Written) /\ Len(b) = k
  BY <1>2, IsSequence
<1>4. /\ a \o b \in Seq(Written) /\ Len(a \o b) = Len(a) + k
      /\ \A i \in 1 .. Len(a) + k : (a \o b)[i] = IF i <= Len(a) THEN a[i] ELSE b[i - Len(a)]
  BY <1>3, ConcatProperties
<1>5. /\ b \o a \in Seq(Written) /\ Len(b \o a) = k + Len(a)
      /\ \A i \in 1 .. k + Len(a) : (b \o a)[i] = IF i <= k THEN b[i] ELSE a[i - k]
  BY <1>3, ConcatProperties
<1>6. \A i \in 1 .. Len(a) + k : i > Len(a) => b[i - Len(a)] = blank
  BY <1>1, <1>2
<1>7. \A i \in 1 .. k + Len(a) : i <= k => b[i] = blank
  BY <1>1, <1>2
<1> QED BY <1>1, <1>4, <1>5, <1>6, <1>7 DEF b

\* The field of a conversion, at its whole length.
LEMMA ConvertedField ==
  ASSUME NEW item \in Items
  PROVE  LET s == text(item)
         IN  /\ s \in Seq(Written) /\ Size(item) \in Nat
             /\ \E k \in Nat :
                  /\ Len(s) + k = Most(Len(s), Size(item))
                  /\ k > 0 => Len(s) + k = Size(item)
                  /\ Converted(item) = IF item.size < 0 THEN s \o Blanks(k) ELSE Blanks(k) \o s
<1> DEFINE s == Plain(item)
           d == Size(item) - Len(s)
           k == IF d > 0 THEN d ELSE 0
<1>1. s \in Seq(Written) /\ text(item) = s
  BY TextIsPlain
<1>2. Size(item) \in Nat
  BY PrintAssumption DEF Size
<1>3. Converted(item) = IF item.size < 0 THEN s \o Blanks(d) ELSE Blanks(d) \o s
  BY DEF Converted, Plain
<1> HIDE DEF s
<1>4. Len(s) \in Nat
  BY <1>1
<1>5. Blanks(d) = Blanks(k)
  <2>1. 1 .. d = 1 .. k
    BY <1>2, <1>4
  <2> HIDE DEF d, k
  <2> QED BY <2>1 DEF Blanks
<1>6. k \in Nat /\ Len(s) + k = Most(Len(s), Size(item)) /\ (k > 0 => Len(s) + k = Size(item))
  BY <1>2, <1>4 DEF Most
<1> HIDE DEF d, k
<1> QED BY <1>1, <1>2, <1>3, <1>5, <1>6

LEMMA ConvertedType ==
  ASSUME NEW item \in Items
  PROVE  /\ Converted(item) \in Seq(Written)
         /\ Len(Converted(item)) = Most(Len(text(item)), Size(item))
<1>1. text(item) \in Seq(Written)
  BY ConvertedField
<1>2. PICK k \in Nat :
        /\ Len(text(item)) + k = Most(Len(text(item)), Size(item))
        /\ Converted(item) = IF item.size < 0 THEN text(item) \o Blanks(k)
                                              ELSE Blanks(k) \o text(item)
  BY ConvertedField
<1>3. /\ text(item) \o Blanks(k) \in Seq(Written) /\ Blanks(k) \o text(item) \in Seq(Written)
      /\ Len(text(item) \o Blanks(k)) = Len(text(item)) + k
      /\ Len(Blanks(k) \o text(item)) = k + Len(text(item))
  BY <1>1, Padded
<1>4. Len(text(item)) \in Nat
  BY <1>1
<1> QED BY <1>2, <1>3, <1>4

\* printstr writes its whole field where there is room.
LEMMA PrintstrFits ==
  ASSUME NEW item \in Items, NEW room \in Nat, Len(Converted(item)) < room
  PROVE  printstr(text(item), item, room) = Converted(item)
<1> DEFINE s == text(item)
           want == Most(Len(s), Size(item))
<1>1. s \in Seq(Written) /\ Len(Converted(item)) = want
  BY ConvertedField, ConvertedType
<1>2. PICK k \in Nat :
        /\ Len(s) + k = want
        /\ Converted(item) = IF item.size < 0 THEN s \o Blanks(k) ELSE Blanks(k) \o s
  BY ConvertedField
<1>3. printstr(s, item, room)
        = LET n == IF want >= room THEN room - 1 ELSE want
              l == Least(Len(s), n)
          IN  IF item.size < 0 THEN SubSeq(s, 1, l) \o Blanks(n - l)
                               ELSE Blanks(n - l) \o SubSeq(s, 1, l)
  BY DEF printstr
<1> HIDE DEF s, want
<1>4. Len(s) \in Nat /\ want \in Nat /\ ~ (want >= room)
  BY <1>1, <1>2
<1>5. Least(Len(s), want) = Len(s) /\ want - Len(s) = k
  BY <1>2, <1>4 DEF Least
<1>6. SubSeq(s, 1, Len(s)) = s
  BY <1>1
<1>7. printstr(s, item, room) = IF item.size < 0 THEN SubSeq(s, 1, Len(s)) \o Blanks(want - Len(s))
                                ELSE Blanks(want - Len(s)) \o SubSeq(s, 1, Len(s))
  BY <1>3, <1>4, <1>5
<1>8. printstr(s, item, room) = Converted(item)
  <2>1. Blanks(want - Len(s)) = Blanks(k)
    BY <1>5
  <2> DEFINE a == SubSeq(s, 1, Len(s))
             b == Blanks(want - Len(s))
  <2>2. a = s /\ b = Blanks(k)
    BY <1>6, <2>1
  <2>3. printstr(s, item, room) = IF item.size < 0 THEN a \o b ELSE b \o a
    BY <1>7
  <2> HIDE DEF a, b
  <2>4. printstr(s, item, room) = IF item.size < 0 THEN s \o Blanks(k) ELSE Blanks(k) \o s
    BY <2>2, <2>3, Zenon
  <2> QED BY <1>2, <2>4, Zenon
<1> QED BY <1>8 DEF s

\* Otherwise it fills the room with the field, from which g leading blanks are
\* missing.
AllBlank(c, g) == \A i \in 1 .. g : c[i] = blank
Shifted(out, c, g, n) == \A i \in 1 .. n : out[i] = c[g + i]
Cut(c, out, n) ==
  \E g \in 0 .. Len(c) - n : AllBlank(c, g) /\ out = SubSeq(c, g + 1, g + n)

LEMMA CutIs ==
  ASSUME NEW c \in Seq(Written), NEW n \in Nat, n <= Len(c),
         NEW out \in Seq(Written), Len(out) = n, NEW g \in 0 .. Len(c) - n,
         AllBlank(c, g), Shifted(out, c, g, n)
  PROVE  Cut(c, out, n)
<1>1. Len(c) \in Nat
  OBVIOUS
<1>2. \A i \in g + 1 .. g + n : c[i] \in Written
  BY <1>1, ElementOfSeq
<1>3. /\ SubSeq(c, g + 1, g + n) \in Seq(Written) /\ Len(SubSeq(c, g + 1, g + n)) = n
      /\ \A i \in 1 .. n : SubSeq(c, g + 1, g + n)[i] = c[g + i]
  <2>1. g + 1 \in Int /\ g + n \in Int
    BY <1>1
  <2>2. /\ SubSeq(c, g + 1, g + n) \in Seq(Written)
        /\ Len(SubSeq(c, g + 1, g + n)) = IF g + 1 <= g + n THEN g + n - (g + 1) + 1 ELSE 0
        /\ \A i \in 1 .. g + n - (g + 1) + 1 : SubSeq(c, g + 1, g + n)[i] = c[g + 1 + i - 1]
    BY <1>2, <2>1, SubSeqProperties
  <2>3. g + n - (g + 1) + 1 = n /\ \A i \in 1 .. n : g + 1 + i - 1 = g + i
    BY <1>1
  <2>4. (IF g + 1 <= g + n THEN n ELSE 0) = n
    BY <1>1
  <2> QED BY <2>2, <2>3, <2>4
<1>4. out = SubSeq(c, g + 1, g + n)
  BY <1>3, SeqEqual DEF Shifted
<1> QED BY <1>4 DEF Cut

LEMMA PrintstrCut ==
  ASSUME NEW item \in Items, NEW room \in Nat \ {0}, Len(Converted(item)) >= room
  PROVE  /\ Cut(Converted(item), printstr(text(item), item, room), room - 1)
         /\ printstr(text(item), item, room) \in Seq(Written)
         /\ Len(printstr(text(item), item, room)) = room - 1
<1> DEFINE s == text(item)
           c == Converted(item)
           out == printstr(s, item, room)
           want == Most(Len(s), Size(item))
           n == room - 1
           l == Least(Len(s), n)
           a == SubSeq(s, 1, l)
<1>1. s \in Seq(Written) /\ c \in Seq(Written) /\ Len(c) = want
  BY ConvertedField, ConvertedType
<1>2. PICK k \in Nat :
        /\ Len(s) + k = want
        /\ c = IF item.size < 0 THEN s \o Blanks(k) ELSE Blanks(k) \o s
  BY ConvertedField
<1>3. out = IF item.size < 0 THEN a \o Blanks(n - l) ELSE Blanks(n - l) \o a
  BY <1>1 DEF printstr
<1> HIDE DEF s, c, out, want
<1>4. Len(s) \in Nat /\ n \in Nat /\ want \in Nat /\ want >= room
  BY <1>1, <1>2 DEF c
<1>10. l \in Nat /\ l <= Len(s) /\ l <= n /\ (l < n => l = Len(s))
  BY <1>4 DEF Least
<1> HIDE DEF n, l
<1>5. PICK m \in Nat : m = n - l /\ l \in Nat /\ l <= Len(s) /\ l + m = n
                       /\ (m > 0 => l = Len(s))
  <2> DEFINE m == n - l
  <2>1. m \in Nat /\ l + m = n /\ (m > 0 => l = Len(s))
    BY <1>4, <1>10
  <2> HIDE DEF m
  <2>2. m = n - l
    BY DEF m
  <2> QED BY <1>10, <2>1, <2>2
<1>6. n < want /\ n <= Len(c)
  BY <1>1, <1>4 DEF n
<1>7. a \in Seq(Written) /\ Len(a) = l /\ \A i \in 1 .. l : a[i] = s[i]
  <2>1. \A i \in 1 .. l : s[i] \in Written
    BY <1>1, <1>4, <1>5, ElementOfSeq
  <2>2. /\ a \in Seq(Written) /\ Len(a) = IF 1 <= l THEN l - 1 + 1 ELSE 0
        /\ \A i \in 1 .. l - 1 + 1 : a[i] = s[1 + i - 1]
    BY <1>5, <2>1, SubSeqProperties
  <2> HIDE DEF a
  <2> QED BY <1>5, <2>2
<1> HIDE DEF a
<1>8. CASE item.size < 0
  <2>1. out = a \o Blanks(m) /\ c = s \o Blanks(k)
    BY <1>2, <1>3, <1>5, <1>8
  <2>2. /\ out \in Seq(Written) /\ Len(out) = l + m
        /\ \A i \in 1 .. l + m : out[i] = IF i <= l THEN a[i] ELSE blank
    <3>1. /\ a \o Blanks(m) \in Seq(Written) /\ Len(a \o Blanks(m)) = Len(a) + m
          /\ \A i \in 1 .. Len(a) + m : (a \o Blanks(m))[i] = IF i <= Len(a) THEN a[i] ELSE blank
      BY <1>7, Padded
    <3> QED BY <1>7, <2>1, <3>1
  <2>3. \A i \in 1 .. Len(s) + k : c[i] = IF i <= Len(s) THEN s[i] ELSE blank
    <3>1. \A i \in 1 .. Len(s) + k : (s \o Blanks(k))[i] = IF i <= Len(s) THEN s[i] ELSE blank
      BY <1>1, Padded
    <3> QED BY <2>1, <3>1
  <2>4. Shifted(out, c, 0, n)
    <3> SUFFICES ASSUME NEW i \in 1 .. n PROVE out[i] = c[i]
      BY <1>4 DEF Shifted
    <3>1. i \in 1 .. l + m /\ i \in 1 .. Len(s) + k
      BY <1>2, <1>4, <1>5, <1>6
    <3>2. CASE i <= l
      <4>1. i \in 1 .. l /\ i <= Len(s)
        BY <1>4, <1>5, <3>2
      <4> QED BY <1>7, <2>2, <2>3, <3>1, <4>1
    <3>3. CASE ~ (i <= l)
      <4>1. ~ (i <= Len(s))
        BY <1>4, <1>5, <3>3
      <4> QED BY <2>2, <2>3, <3>1, <3>3, <4>1
    <3> QED BY <3>2, <3>3
  <2>5. 0 \in 0 .. Len(c) - n
    BY <1>1, <1>4, <1>6
  <2>6. Cut(c, out, n)
    <3>1. AllBlank(c, 0)
      BY DEF AllBlank
    <3>2. Len(out) = n
      BY <1>4, <1>5, <2>2
    <3> QED BY <1>1, <1>4, <1>6, <2>2, <2>4, <2>5, <3>1, <3>2, CutIs
  <2> QED BY <1>5, <2>2, <2>6 DEF s, c, out, n
<1>9. CASE ~ (item.size < 0)
  <2>1. out = Blanks(m) \o a /\ c = Blanks(k) \o s
    BY <1>2, <1>3, <1>5, <1>9
  <2>2. /\ out \in Seq(Written) /\ Len(out) = m + l
        /\ \A i \in 1 .. m + l : out[i] = IF i <= m THEN blank ELSE a[i - m]
    <3>1. /\ Blanks(m) \o a \in Seq(Written) /\ Len(Blanks(m) \o a) = m + Len(a)
          /\ \A i \in 1 .. m + Len(a) : (Blanks(m) \o a)[i] = IF i <= m THEN blank ELSE a[i - m]
      BY <1>7, Padded
    <3> QED BY <1>7, <2>1, <3>1
  <2>3. \A i \in 1 .. k + Len(s) : c[i] = IF i <= k THEN blank ELSE s[i - k]
    <3>1. \A i \in 1 .. k + Len(s) : (Blanks(k) \o s)[i] = IF i <= k THEN blank ELSE s[i - k]
      BY <1>1, Padded
    <3> QED BY <2>1, <3>1
  <2>4. PICK g \in Nat : g + m = k
    <3>1. m <= k
      BY <1>2, <1>4, <1>5, <1>6
    <3>2. k - m \in Nat /\ (k - m) + m = k
      BY <3>1
    <3> QED BY <3>2
  <2>5. g \in 0 .. Len(c) - n
    BY <1>1, <1>2, <1>4, <1>5, <1>6, <2>4
  <2>6. AllBlank(c, g)
    <3>1. \A i \in 1 .. g : i \in 1 .. k + Len(s) /\ i <= k
      BY <1>4, <2>4
    <3> QED BY <2>3, <3>1 DEF AllBlank
  <2>7. Shifted(out, c, g, n)
    <3> SUFFICES ASSUME NEW i \in 1 .. n PROVE out[i] = c[g + i]
      BY DEF Shifted
    <3>1. i \in 1 .. m + l /\ g + i \in 1 .. k + Len(s)
      BY <1>2, <1>4, <1>5, <1>6, <2>4
    <3>2. CASE i <= m
      <4>1. g + i <= k
        BY <1>4, <2>4, <3>2
      <4> QED BY <2>2, <2>3, <3>1, <3>2, <4>1
    <3>3. CASE ~ (i <= m)
      <4>1. ~ (g + i <= k) /\ i - m \in 1 .. l /\ g + i - k = i - m
        BY <1>4, <1>5, <2>4, <3>1, <3>3
      <4>2. out[i] = a[i - m] /\ c[g + i] = s[g + i - k]
        BY <2>2, <2>3, <3>1, <3>3, <4>1
      <4> QED BY <1>7, <4>1, <4>2
    <3> QED BY <3>2, <3>3
  <2>8. Cut(c, out, n)
    <3>1. Len(out) = n
      BY <1>4, <1>5, <2>2
    <3> QED BY <1>1, <1>4, <1>6, <2>2, <2>5, <2>6, <2>7, <3>1, CutIs
  <2> QED BY <1>5, <2>2, <2>8 DEF s, c, out, n
<1> QED BY <1>8, <1>9

-----------------------------------------------------------------------------

\* FlattenSeq adds one sequence after the other.
Flattens(f, ss) ==
  /\ FlattenSeq(ss) = f[Len(ss)] /\ f[1] = ss[1]
  /\ \A i \in 2 .. Len(ss) : f[i] = f[i - 1] \o ss[i]

LEMMA FlattenSolves ==
  ASSUME NEW S, NEW ss \in Seq(Seq(S)), ss # << >>
  PROVE  \E f \in [1 .. Len(ss) -> Seq(S)] : Flattens(f, ss)
<1> DEFINE L == Len(ss)
           F == [x \in Nat \X Seq(S) |->
                   IF x[1] + 1 <= L THEN x[2] \o ss[x[1] + 1] ELSE x[2]]
           step(f) == [i \in 1 .. L |-> IF i = 1 THEN ss[i] ELSE f[i - 1] \o ss[i]]
<1>1. L \in Nat /\ L # 0 /\ \A i \in 1 .. L : ss[i] \in Seq(S)
  BY ElementOfSeq
<1>2. F \in [Nat \X Seq(S) -> Seq(S)]
  <2> SUFFICES ASSUME NEW x \in Nat \X Seq(S)
               PROVE (IF x[1] + 1 <= L THEN x[2] \o ss[x[1] + 1] ELSE x[2]) \in Seq(S)
    OBVIOUS
  <2>1. x[1] + 1 <= L => ss[x[1] + 1] \in Seq(S)
    BY <1>1
  <2> HIDE DEF L
  <2> QED BY <2>1, ConcatProperties
<1> HIDE DEF L
<1>3. PICK p \in [0 .. L - 1 -> Seq(S)] : Solves(p, ss[1], F, L - 1)
  <2>1. ss[1] \in Seq(S) /\ L - 1 \in Nat
    BY <1>1
  <2> HIDE DEF F
  <2> QED BY <1>2, <2>1, Recursion, Zenon
<1> DEFINE f == [i \in 1 .. L |-> p[i - 1]]
<1>4. f \in [1 .. L -> Seq(S)]
  BY <1>1
<1>5. f[1] = ss[1]
  BY <1>1, <1>3 DEF Solves
<1>6. ASSUME NEW i \in 2 .. L PROVE f[i] = f[i - 1] \o ss[i]
  <2>1. i - 1 \in 1 .. L - 1 /\ i - 1 \in 1 .. L /\ i \in 1 .. L /\ i - 1 + 1 = i /\ i - 1 \in Nat
        /\ i - 1 - 1 \in 0 .. L - 1 /\ i <= L
    BY <1>1
  <2>2. p[i - 1] = F[<<i - 1, p[i - 1 - 1]>>]
    BY <1>3, <2>1 DEF Solves
  <2>3. p[i - 1 - 1] \in Seq(S)
    BY <2>1
  <2>4. F[<<i - 1, p[i - 1 - 1]>>] = p[i - 1 - 1] \o ss[i]
    BY <2>1, <2>3
  <2>5. f[i] = p[i - 1] /\ f[i - 1] = p[i - 1 - 1]
    BY <2>1
  <2> HIDE DEF f, F
  <2> QED BY <2>2, <2>4, <2>5
<1> HIDE DEF f
<1>7. f = step(f)
  <2>1. ASSUME NEW i \in 1 .. L PROVE f[i] = IF i = 1 THEN ss[i] ELSE f[i - 1] \o ss[i]
    <3>1. i # 1 => i \in 2 .. L
      BY <1>1
    <3> QED BY <1>5, <1>6, <3>1
  <2>2. f = [i \in 1 .. L |-> f[i]]
    BY <1>4
  <2> QED BY <2>1, <2>2
<1> DEFINE h == CHOOSE h : h = step(h)
<1>8. FlattenSeq(ss) = h[L]
  BY <1>1 DEF FlattenSeq, L
<1>9. h = step(h)
  BY <1>7
<1> HIDE DEF h
<1> DEFINE T == {0} \cup {i \in 1 .. L : h[i] = f[i]}
<1>10. \A i \in 0 .. L : i \in T
  <2>1. 0 \in T
    OBVIOUS
  <2>2. ASSUME NEW k \in 1 .. L, k - 1 \in T PROVE k \in T
    <3>1. CASE k = 1
      <4>1. h[1] = ss[1]
        BY <1>1, <1>9
      <4> QED BY <1>1, <1>5, <3>1, <4>1
    <3>2. CASE k # 1
      <4>1. k \in 2 .. L /\ k - 1 # 0
        BY <1>1, <3>2
      <4>2. h[k] = h[k - 1] \o ss[k]
        BY <1>9, <3>2
      <4>3. h[k - 1] = f[k - 1]
        BY <2>2, <4>1
      <4> QED BY <1>6, <4>1, <4>2, <4>3
    <3> QED BY <3>1, <3>2
  <2> HIDE DEF T
  <2> QED BY <1>1, <2>1, <2>2, Induction
<1>11. h[L] = f[L]
  BY <1>1, <1>10
<1> QED BY <1>4, <1>5, <1>6, <1>8, <1>11 DEF L, Flattens

LEMMA FlattenAppend ==
  ASSUME NEW S, NEW ss \in Seq(Seq(S)), NEW x \in Seq(S)
  PROVE  FlattenSeq(ss) \in Seq(S) /\ FlattenSeq(Append(ss, x)) = FlattenSeq(ss) \o x
<1> DEFINE L == Len(ss)
           tt == Append(ss, x)
<1>1. L \in Nat /\ (ss # << >> => L # 0)
  OBVIOUS
<1>2. /\ tt \in Seq(Seq(S)) /\ tt # << >> /\ Len(tt) = L + 1
      /\ tt[L + 1] = x /\ \A i \in 1 .. L : tt[i] = ss[i]
  BY AppendProperties
<1> HIDE DEF L, tt
<1>3. PICK h \in [1 .. L + 1 -> Seq(S)] :
        /\ FlattenSeq(tt) = h[L + 1] /\ h[1] = tt[1]
        /\ \A i \in 2 .. L + 1 : h[i] = h[i - 1] \o tt[i]
  <2>1. \E h \in [1 .. Len(tt) -> Seq(S)] : Flattens(h, tt)
    BY <1>2, FlattenSolves, Zenon
  <2> QED BY <1>2, <2>1 DEF Flattens
<1>4. CASE ss = << >>
  <2>1. L = 0 /\ FlattenSeq(ss) = << >>
    BY <1>4 DEF FlattenSeq, L
  <2>2. FlattenSeq(tt) = x
    BY <1>2, <1>3, <2>1
  <2>3. << >> \o x = x /\ << >> \in Seq(S)
    BY ConcatEmptySeq
  <2> QED BY <2>1, <2>2, <2>3 DEF tt
<1>5. CASE ss # << >>
  <2>1. PICK f \in [1 .. L -> Seq(S)] :
          /\ FlattenSeq(ss) = f[L] /\ f[1] = ss[1]
          /\ \A i \in 2 .. L : f[i] = f[i - 1] \o ss[i]
    BY <1>5, FlattenSolves DEF L, Flattens
  <2> DEFINE T == {0} \cup {i \in 1 .. L : h[i] = f[i]}
  <2>2. \A i \in 0 .. L : i \in T
    <3>1. ASSUME NEW k \in 1 .. L, k - 1 \in T PROVE k \in T
      <4>1. CASE k = 1
        BY <1>1, <1>2, <1>3, <2>1, <4>1
      <4>2. CASE k # 1
        <5>1. k \in 2 .. L /\ k \in 2 .. L + 1 /\ k - 1 # 0
          BY <1>1, <4>2
        <5>2. h[k - 1] = f[k - 1]
          BY <3>1, <5>1
        <5> QED BY <1>2, <1>3, <2>1, <5>1, <5>2
      <4> QED BY <4>1, <4>2
    <3> HIDE DEF T
    <3>2. 0 \in T
      BY DEF T
    <3> QED BY <1>1, <3>1, <3>2, Induction
  <2>3. h[L] = f[L] /\ L \in 1 .. L
    BY <1>1, <1>5, <2>2
  <2>4. L + 1 \in 2 .. L + 1 /\ L + 1 - 1 = L
    BY <1>1, <1>5
  <2>5. h[L + 1] = h[L] \o x
    <3> DEFINE j == L + 1
    <3>5. j \in 2 .. L + 1 /\ j - 1 = L
      BY <1>1, <2>4
    <3>6. tt[j] = x
      BY <1>2
    <3> HIDE DEF j
    <3>1. j \in 2 .. L + 1 /\ j - 1 = L /\ tt[j] = x
      BY <3>5, <3>6
    <3>2. h[j] = h[j - 1] \o tt[j]
      BY <1>3, <3>1
    <3>3. h[j - 1] = h[L]
      BY <3>1
    <3>4. h[j] = h[L] \o x
      BY <3>1, <3>2, <3>3, Zenon
    <3> QED BY <3>4 DEF j
  <2> QED BY <1>3, <2>1, <2>3, <2>5 DEF tt
<1> QED BY <1>4, <1>5

\* What the items read so far stand for.
AllOf(its) == FlattenSeq([i \in DOMAIN its |-> Converted(its[i])])

LEMMA AllOfAppend ==
  ASSUME NEW its \in Seq(Items), NEW item \in Items
  PROVE  AllOf(its) \in Seq(Written) /\ AllOf(Append(its, item)) = AllOf(its) \o Converted(item)
<1> DEFINE n == Len(its)
           ss == [i \in 1 .. n |-> Converted(its[i])]
           its1 == Append(its, item)
<1>1. n \in Nat /\ DOMAIN its = 1 .. n
  OBVIOUS
<1>2. its1 \in Seq(Items) /\ DOMAIN its1 = 1 .. n + 1 /\ its1[n + 1] = item
      /\ \A i \in 1 .. n : its1[i] = its[i]
  <2>1. its1 \in Seq(Items) /\ Len(its1) = n + 1 /\ its1[n + 1] = item
        /\ \A i \in 1 .. n : its1[i] = its[i]
    BY AppendProperties
  <2> HIDE DEF its1, n
  <2> QED BY <2>1, LenProperties
<1>3. \A i \in 1 .. n : Converted(its[i]) \in Seq(Written)
  <2>1. \A i \in 1 .. n : its[i] \in Items
    BY ElementOfSeq
  <2> QED BY <2>1, ConvertedType
<1>4. Converted(item) \in Seq(Written)
  BY ConvertedType
<1> HIDE DEF n, its1
<1>5. ss \in Seq(Seq(Written)) /\ Len(ss) = n
  <2>1. ss \in [1 .. n -> Seq(Written)]
    BY <1>3
  <2> HIDE DEF ss
  <2> QED BY <1>1, <2>1, IsSequence
<1>6. [i \in 1 .. n + 1 |-> Converted(its1[i])] = Append(ss, Converted(item))
  <2> DEFINE tt == [i \in 1 .. n + 1 |-> Converted(its1[i])]
  <2>1. \A i \in 1 .. n + 1 : tt[i] = IF i = n + 1 THEN Converted(item) ELSE ss[i]
    BY <1>1, <1>2
  <2>2. \A i \in 1 .. n + 1 : tt[i] \in Seq(Written)
    <3>1. \A i \in 1 .. n : ss[i] \in Seq(Written)
      BY <1>3
    <3>2. \A i \in 1 .. n + 1 : i = n + 1 \/ i \in 1 .. n
      BY <1>1
    <3> HIDE DEF ss, tt
    <3> QED BY <1>4, <2>1, <3>1, <3>2
  <2>3. tt \in Seq(Seq(Written)) /\ Len(tt) = n + 1
    <3>1. tt \in [1 .. n + 1 -> Seq(Written)]
      BY <2>2
    <3> HIDE DEF tt
    <3> QED BY <1>1, <3>1, IsSequence
  <2> HIDE DEF ss, tt
  <2>4. /\ Append(ss, Converted(item)) \in Seq(Seq(Written))
        /\ Len(Append(ss, Converted(item))) = n + 1
        /\ Append(ss, Converted(item))[n + 1] = Converted(item)
        /\ \A i \in 1 .. n : Append(ss, Converted(item))[i] = ss[i]
    BY <1>4, <1>5, AppendProperties
  <2>5. \A i \in 1 .. n + 1 : tt[i] = Append(ss, Converted(item))[i]
    <3>2. \A i \in 1 .. n + 1 : i = n + 1 \/ (i \in 1 .. n /\ i # n + 1)
      BY <1>1
    <3> QED BY <2>1, <2>4, <3>2
  <2>6. tt = Append(ss, Converted(item))
    BY <2>3, <2>4, <2>5, SeqEqual
  <2> QED BY <2>6 DEF tt
<1>7. AllOf(its) = FlattenSeq(ss) /\ AllOf(its1) = FlattenSeq(Append(ss, Converted(item)))
  BY <1>1, <1>2, <1>6 DEF AllOf
<1> HIDE DEF ss
<1>8. FlattenSeq(ss) \in Seq(Written)
      /\ FlattenSeq(Append(ss, Converted(item))) = FlattenSeq(ss) \o Converted(item)
  BY <1>4, <1>5, FlattenAppend
<1> QED BY <1>7, <1>8 DEF its1

-----------------------------------------------------------------------------

LEMMA SubSeqIs ==
  ASSUME NEW s \in Seq(Written), NEW i \in Nat \ {0}, NEW n \in Nat, i + n <= Len(s) + 1
  PROVE  /\ SubSeq(s, i, i + n - 1) \in Seq(Written)
         /\ Len(SubSeq(s, i, i + n - 1)) = n
         /\ \A k \in 1 .. n : SubSeq(s, i, i + n - 1)[k] = s[i + k - 1]
<1> DEFINE j == i + n - 1
<1>1. Len(s) \in Nat /\ j \in Int
  BY LenProperties
<1>2. \A k \in i .. j : s[k] \in Written
  <2>1. \A k \in i .. j : k \in 1 .. Len(s)
    BY <1>1
  <2> QED BY <2>1, ElementOfSeq
<1>3. j - i + 1 = n /\ (IF i <= j THEN n ELSE 0) = n
  BY <1>1
<1> HIDE DEF j
<1>4. /\ SubSeq(s, i, j) \in Seq(Written)
      /\ Len(SubSeq(s, i, j)) = IF i <= j THEN j - i + 1 ELSE 0
      /\ \A k \in 1 .. j - i + 1 : SubSeq(s, i, j)[k] = s[i + k - 1]
  BY <1>1, <1>2, SubSeqProperties
<1>5. /\ SubSeq(s, i, j) \in Seq(Written) /\ Len(SubSeq(s, i, j)) = n
      /\ \A k \in 1 .. n : SubSeq(s, i, j)[k] = s[i + k - 1]
  BY <1>3, <1>4
<1> QED BY <1>5 DEF j

\* The parts of a concatenation.
Joins(c, a, b, p, q) ==
  /\ c \in Seq(Written) /\ Len(c) = p + q
  /\ \A i \in 1 .. p : c[i] = a[i]
  /\ \A i \in 1 .. q : c[p + i] = b[i]

LEMMA Concatenation ==
  ASSUME NEW a \in Seq(Written), NEW b \in Seq(Written),
         NEW p \in Nat, Len(a) = p, NEW q \in Nat, Len(b) = q
  PROVE  Joins(a \o b, a, b, p, q)
<1> DEFINE c == a \o b
<1>1. /\ c \in Seq(Written) /\ Len(c) = p + q
      /\ \A i \in 1 .. p + q : c[i] = IF i <= p THEN a[i] ELSE b[i - p]
  BY ConcatProperties
<1> HIDE DEF c
<1>2. ASSUME NEW i \in 1 .. p PROVE c[i] = a[i]
  <2>1. i \in 1 .. p + q /\ i <= p
    OBVIOUS
  <2> QED BY <1>1, <2>1
<1>3. ASSUME NEW i \in 1 .. q PROVE c[p + i] = b[i]
  <2> DEFINE j == p + i
  <2>1. j \in 1 .. p + q /\ ~ (j <= p) /\ j - p = i
    OBVIOUS
  <2> HIDE DEF j
  <2>2. c[j] = b[j - p]
    BY <1>1, <2>1
  <2>3. c[j] = b[i]
    BY <2>1, <2>2
  <2> QED BY <2>3 DEF j
<1> QED BY <1>1, <1>2, <1>3 DEF c, Joins

\* A part of a sequence: the n characters after the first p.
Part(u, s, p, n) ==
  u \in Seq(Written) /\ Len(u) = n /\ \A k \in 1 .. n : u[k] = s[p + k]

LEMMA PartOf ==
  ASSUME NEW s \in Seq(Written), NEW p \in Nat, NEW n \in Nat, p + n <= Len(s)
  PROVE  Part(SubSeq(s, p + 1, p + n), s, p, n)
<1> DEFINE i == p + 1
           j == p + n
<1>1. /\ i \in Nat \ {0} /\ Len(s) \in Nat /\ i + n <= Len(s) + 1 /\ i + n - 1 = j
  BY LenProperties
<1>2. \A k \in 1 .. n : i + k - 1 = p + k
  OBVIOUS
<1> HIDE DEF i, j
<1>3. /\ SubSeq(s, i, i + n - 1) \in Seq(Written)
      /\ Len(SubSeq(s, i, i + n - 1)) = n
      /\ \A k \in 1 .. n : SubSeq(s, i, i + n - 1)[k] = s[i + k - 1]
  BY <1>1, SubSeqIs
<1>4. /\ SubSeq(s, i, j) \in Seq(Written) /\ Len(SubSeq(s, i, j)) = n
      /\ \A k \in 1 .. n : SubSeq(s, i, j)[k] = s[p + k]
  BY <1>1, <1>2, <1>3
<1> QED BY <1>4 DEF i, j, Part

\* What two sequences have in common at the beginning.
LEMMA IsPrefixOf ==
  ASSUME NEW x \in Seq(Written), NEW y \in Seq(Written),
         Len(x) <= Len(y), \A k \in 1 .. Len(x) : x[k] = y[k]
  PROVE  IsPrefix(x, y)
<1> DEFINE n == Len(x)
<1>1. n \in Nat /\ Len(y) \in Nat /\ 0 + n <= Len(x) /\ 0 + n <= Len(y) /\ 0 \in Nat
      /\ 0 + 1 = 1 /\ 0 + n = n /\ \A k \in 1 .. n : 0 + k = k
  OBVIOUS
<1> HIDE DEF n
<1>2. /\ SubSeq(x, 0 + 1, 0 + n) \in Seq(Written) /\ Len(SubSeq(x, 0 + 1, 0 + n)) = n
      /\ \A k \in 1 .. n : SubSeq(x, 0 + 1, 0 + n)[k] = x[0 + k]
  BY <1>1, PartOf DEF Part
<1>3. /\ SubSeq(y, 0 + 1, 0 + n) \in Seq(Written) /\ Len(SubSeq(y, 0 + 1, 0 + n)) = n
      /\ \A k \in 1 .. n : SubSeq(y, 0 + 1, 0 + n)[k] = y[0 + k]
  BY <1>1, PartOf DEF Part
<1>4. \A k \in 1 .. n : SubSeq(x, 0 + 1, 0 + n)[k] = SubSeq(y, 0 + 1, 0 + n)[k]
  BY <1>1, <1>2, <1>3 DEF n
<1>5. SubSeq(x, 0 + 1, 0 + n) = SubSeq(y, 0 + 1, 0 + n)
  BY <1>2, <1>3, <1>4, SeqEqual
<1>6. SubSeq(x, 1, Len(x)) = SubSeq(y, 1, Len(x))
  BY <1>1, <1>5 DEF n
<1> QED BY <1>6 DEF IsPrefix, n

\* What is cut off the last field is cut off the end of everything, but for g
\* blanks.
LEMMA CutAtEnd ==
  ASSUME NEW v \in Seq(Written), NEW c \in Seq(Written), NEW n \in Nat,
         NEW g \in Nat, g + n <= Len(c), AllBlank(c, g)
  PROVE  LET all == v \o c
             p == Len(v)
         IN  /\ p \in 0 .. Len(all) /\ g \in 0 .. Len(all) - p
             /\ SubSeq(all, p + 1, p + g) = Blanks(g)
             /\ IsPrefix(v \o SubSeq(c, g + 1, g + n),
                         SubSeq(all, 1, p) \o SubSeq(all, p + g + 1, Len(all)))
<1>1. PICK p \in Nat, q \in Nat, m \in Nat :
        p = Len(v) /\ q = p + g /\ g + m = Len(c) /\ n <= m
  <2> DEFINE p == Len(v)
             m == Len(c) - g
  <2>1. p \in Nat /\ p + g \in Nat /\ m \in Nat /\ g + m = Len(c) /\ n <= m
    BY LenProperties
  <2> HIDE DEF m
  <2> QED BY <2>1
<1> DEFINE all == v \o c
           d == SubSeq(c, g + 1, g + n)
           run == SubSeq(all, p + 1, p + g)
           first == SubSeq(all, 0 + 1, 0 + p)
           rest == SubSeq(all, q + 1, q + m)
<1>2. g + m \in Nat /\ q + m = p + (g + m) /\ q + m \in Nat /\ p + g <= q + m /\ 0 + p <= q + m
      /\ 0 \in Nat /\ g \in Nat /\ n \in Nat
  BY <1>1
<1>3. /\ all \in Seq(Written) /\ Len(all) = p + (g + m)
      /\ \A i \in 1 .. p : all[i] = v[i]
      /\ \A i \in 1 .. g + m : all[p + i] = c[i]
  <2>1. Len(v) = p /\ Len(c) = g + m
    BY <1>1
  <2>2. Joins(all, v, c, p, g + m)
    BY <1>2, <2>1, Concatenation, Zenon
  <2> QED BY <2>2 DEF Joins
<1> HIDE DEF all
<1>4. d \in Seq(Written) /\ Len(d) = n /\ \A k \in 1 .. n : d[k] = c[g + k]
  <2>1. g + n <= Len(c)
    OBVIOUS
  <2>2. Part(d, c, g, n)
    BY <1>2, <2>1, PartOf, Zenon
  <2> QED BY <2>2 DEF Part
<1>5. run \in Seq(Written) /\ Len(run) = g /\ \A k \in 1 .. g : run[k] = all[p + k]
  <2>1. p + g <= Len(all)
    BY <1>1, <1>2, <1>3
  <2>2. Part(run, all, p, g)
    BY <1>2, <1>3, <2>1, PartOf, Zenon
  <2> QED BY <2>2 DEF Part
<1>6. first \in Seq(Written) /\ Len(first) = p /\ \A k \in 1 .. p : first[k] = all[0 + k]
  <2>1. 0 + p <= Len(all)
    BY <1>1, <1>2, <1>3
  <2>2. Part(first, all, 0, p)
    BY <1>2, <1>3, <2>1, PartOf, Zenon
  <2> QED BY <2>2 DEF Part
<1>7. rest \in Seq(Written) /\ Len(rest) = m /\ \A k \in 1 .. m : rest[k] = all[q + k]
  <2>1. q + m <= Len(all)
    BY <1>1, <1>2, <1>3
  <2>2. Part(rest, all, q, m)
    BY <1>2, <1>3, <2>1, PartOf, Zenon
  <2> QED BY <2>2 DEF Part
<1> HIDE DEF d, run, first, rest
<1>8. run = Blanks(g)
  <2>1. \A k \in 1 .. g : run[k] = blank
    <3> SUFFICES ASSUME NEW k \in 1 .. g PROVE run[k] = blank
      OBVIOUS
    <3>1. k \in 1 .. g + m
      BY <1>1
    <3>2. run[k] = c[k]
      BY <1>3, <1>5, <3>1
    <3> QED BY <3>2 DEF AllBlank
  <2>2. /\ Blanks(g) \in Seq(Written) /\ Len(Blanks(g)) = g
        /\ \A k \in 1 .. g : Blanks(g)[k] = blank
    <3>1. Blanks(g) \in [1 .. g -> Written] /\ \A k \in 1 .. g : Blanks(g)[k] = blank
      BY DEF Blanks, Written
    <3> QED BY <3>1, IsSequence
  <2> QED BY <1>5, <2>1, <2>2, SeqEqual
<1>9. \A k \in 1 .. p : first[k] = v[k]
  <2>1. \A k \in 1 .. p : 0 + k = k
    OBVIOUS
  <2> QED BY <1>3, <1>6, <2>1
<1>10. \A k \in 1 .. m : rest[k] = c[g + k]
  <2> SUFFICES ASSUME NEW k \in 1 .. m PROVE rest[k] = c[g + k]
    OBVIOUS
  <2> DEFINE j == g + k
  <2>1. j \in 1 .. g + m /\ q + k = p + j
    BY <1>1
  <2>2. rest[k] = all[q + k]
    BY <1>7
  <2>3. all[q + k] = all[p + j]
    BY <2>1
  <2> HIDE DEF j
  <2>4. all[p + j] = c[j]
    BY <1>3, <2>1
  <2> QED BY <2>2, <2>3, <2>4 DEF j
<1> DEFINE x == v \o d
           y == first \o rest
<1>11. /\ x \in Seq(Written) /\ Len(x) = p + n
       /\ \A i \in 1 .. p : x[i] = v[i]
       /\ \A i \in 1 .. n : x[p + i] = d[i]
  <2>1. Len(v) = p
    BY <1>1
  <2>2. Joins(x, v, d, p, n)
    BY <1>2, <1>4, <2>1, Concatenation, Zenon
  <2> QED BY <2>2 DEF Joins
<1>12. /\ y \in Seq(Written) /\ Len(y) = p + m
       /\ \A i \in 1 .. p : y[i] = first[i]
       /\ \A i \in 1 .. m : y[p + i] = rest[i]
  <2>1. Joins(y, first, rest, p, m)
    BY <1>6, <1>7, Concatenation, Zenon
  <2> QED BY <2>1 DEF Joins
<1> HIDE DEF x, y
<1>13. IsPrefix(x, y)
  <2>1. Len(x) <= Len(y)
    BY <1>1, <1>11, <1>12
  <2>2. \A i \in 1 .. n : x[p + i] = y[p + i]
    <3>1. \A i \in 1 .. n : i \in 1 .. m
      BY <1>1
    <3> QED BY <1>4, <1>10, <1>11, <1>12, <3>1
  <2>3. \A i \in 1 .. Len(x) : x[i] = y[i]
    <3> SUFFICES ASSUME NEW i \in 1 .. p + n PROVE x[i] = y[i]
      BY <1>11
    <3>1. CASE i <= p
      <4>1. i \in 1 .. p
        BY <3>1
      <4> QED BY <1>9, <1>11, <1>12, <4>1
    <3>2. CASE ~ (i <= p)
      <4>1. PICK j \in 1 .. n : i = p + j
        <5>1. i - p \in 1 .. n /\ i = p + (i - p)
          BY <3>2
        <5> QED BY <5>1
      <4> QED BY <2>2, <4>1
    <3> QED BY <3>1, <3>2
  <2> QED BY <1>11, <1>12, <2>1, <2>3, IsPrefixOf
<1>14. p \in 0 .. Len(all) /\ g \in 0 .. Len(all) - p
  BY <1>1, <1>3
<1>15. 0 + 1 = 1 /\ 0 + p = p /\ q + 1 = p + g + 1 /\ q + m = Len(all)
  BY <1>1, <1>2, <1>3
<1>16. first = SubSeq(all, 1, p) /\ rest = SubSeq(all, p + g + 1, Len(all))
  BY <1>15 DEF first, rest
<1> QED BY <1>1, <1>8, <1>13, <1>14, <1>16 DEF all, d, run, x, y

-----------------------------------------------------------------------------

\* Formats of any items, in a buffer of any room.
PrintSpec == PrintInit /\ [][PrintNext]_printVars

\* The inductive invariant: PrintExact is one by itself, but for the types.
PrintInv ==
  /\ edst \in Rooms /\ w \in Seq(Written) /\ items \in Seq(Items)
  /\ PrintExact

\* v is the beginning of all, of which one run of blanks may be missing.
BeginningOf(v, all) ==
  \E p \in 0 .. Len(all) : \E g \in 0 .. Len(all) - p :
    /\ SubSeq(all, p + 1, p + g) = Blanks(g)
    /\ IsPrefix(v, SubSeq(all, 1, p) \o SubSeq(all, p + g + 1, Len(all)))
Holds(v, all, room) ==
  IF Len(all) < room THEN v = all ELSE Len(v) = room - 1 /\ BeginningOf(v, all)

LEMMA ExactIs ==
  PrintExact = Holds(w, AllOf(items), edst)
BY DEF PrintExact, Holds, BeginningOf, AllOf

LEMMA InitPrint ==
  PrintInit => PrintInv
<1> SUFFICES ASSUME PrintInit PROVE PrintInv
  OBVIOUS
<1>1. edst \in Rooms /\ w = << >> /\ items = << >> /\ edst \in Nat \ {0}
  BY PrintAssumption DEF PrintInit
<1>2. AllOf(items) = << >>
  <2>1. [i \in DOMAIN items |-> Converted(items[i])] = << >>
    BY <1>1
  <2>2. FlattenSeq(<< >>) = << >>
    BY DEF FlattenSeq
  <2> QED BY <2>1, <2>2 DEF AllOf
<1>3. Len(<< >>) = 0
  OBVIOUS
<1>4. Holds(w, AllOf(items), edst)
  BY <1>1, <1>2, <1>3 DEF Holds
<1> QED BY <1>1, <1>4, ExactIs DEF PrintInv

\* A field at the end of what was written.
LEMMA FieldAdded ==
  ASSUME NEW v \in Seq(Written), NEW item \in Items, NEW room \in Nat, Len(v) < room
  PROVE  LET out == printstr(text(item), item, room - Len(v))
         IN  v \o out \in Seq(Written) /\ Holds(v \o out, v \o Converted(item), room)
<1> DEFINE p == Len(v)
           c == Converted(item)
           m == Len(c)
           r == room - p
           out == printstr(text(item), item, r)
           all == v \o c
           x == v \o out
<1>1. p \in Nat /\ m \in Nat /\ c \in Seq(Written) /\ r \in Nat \ {0} /\ p + r = room
  <2>1. c \in Seq(Written)
    BY ConvertedType
  <2> HIDE DEF c
  <2> QED BY <2>1, LenProperties
<1>2. all \in Seq(Written) /\ Len(all) = p + m
  BY <1>1, ConcatProperties
<1>3. CASE m < r
  <2>1. out = c
    BY <1>1, <1>3, PrintstrFits
  <2>2. x = all
    BY <2>1, Zenon
  <2>3. Len(all) < room
    BY <1>1, <1>2, <1>3
  <2> HIDE DEF x, all
  <2>4. x \in Seq(Written) /\ Holds(x, all, room)
    BY <1>2, <2>2, <2>3 DEF Holds
  <2> QED BY <2>4 DEF x, all
<1>4. CASE ~ (m < r)
  <2>1. Cut(c, out, r - 1) /\ out \in Seq(Written) /\ Len(out) = r - 1
    <3>1. r \in Nat \ {0} /\ Len(Converted(item)) >= r
      BY <1>1, <1>4
    <3> HIDE DEF r
    <3> QED BY <3>1, PrintstrCut, Zenon
  <2>2. PICK n \in Nat : n = r - 1 /\ n <= m /\ p + n = room - 1 /\ ~ (p + m < room)
    <3>1. r - 1 \in Nat /\ r - 1 <= m /\ p + (r - 1) = room - 1 /\ ~ (p + m < room)
      BY <1>1, <1>4
    <3> HIDE DEF r
    <3> QED BY <3>1
  <2>3. PICK g \in 0 .. m - n : AllBlank(c, g) /\ out = SubSeq(c, g + 1, g + n)
    <3>1. Cut(c, out, n)
      BY <2>1, <2>2
    <3> QED BY <3>1 DEF Cut
  <2>4. x \in Seq(Written) /\ Len(x) = room - 1
    <3>1. Len(out) = n
      BY <2>1, <2>2
    <3> HIDE DEF out
    <3>2. x \in Seq(Written) /\ Len(x) = p + n
      BY <2>1, <3>1, ConcatProperties
    <3> HIDE DEF x
    <3> QED BY <2>2, <3>2
  <2>5. g \in Nat /\ g + n <= m
    BY <1>1, <2>2
  <2>6. /\ p \in 0 .. Len(all) /\ g \in 0 .. Len(all) - p
        /\ SubSeq(all, p + 1, p + g) = Blanks(g)
        /\ IsPrefix(x, SubSeq(all, 1, p) \o SubSeq(all, p + g + 1, Len(all)))
    <3> HIDE DEF out, c
    <3>1. /\ p \in 0 .. Len(all) /\ g \in 0 .. Len(all) - p
          /\ SubSeq(all, p + 1, p + g) = Blanks(g)
          /\ IsPrefix(v \o SubSeq(c, g + 1, g + n),
                      SubSeq(all, 1, p) \o SubSeq(all, p + g + 1, Len(all)))
      BY <1>1, <2>3, <2>5, CutAtEnd, Zenon
    <3> QED BY <2>3, <3>1, Zenon
  <2>7. ~ (Len(all) < room)
    BY <1>2, <2>2
  <2> HIDE DEF x, all, p
  <2>8. BeginningOf(x, all)
    BY <2>6, Zenon DEF BeginningOf
  <2>9. Holds(x, all, room)
    BY <2>4, <2>7, <2>8 DEF Holds
  <2> QED BY <2>4, <2>9 DEF x, all, p
<1> QED BY <1>3, <1>4

LEMMA StepPrint ==
  PrintInv /\ [PrintNext]_printVars => PrintInv'
<1> SUFFICES ASSUME PrintInv, [PrintNext]_printVars PROVE PrintInv'
  OBVIOUS
<1> USE DEF PrintInv
<1>1. ASSUME NEW item \in Items, vseprint(item) PROVE PrintInv'
  <2> DEFINE out == printstr(text(item), item, edst - Len(w))
  <2>1. /\ Len(w) < edst - 1 /\ items' = Append(items, item) /\ w' = w \o out /\ edst' = edst
    BY <1>1 DEF vseprint
  <2> HIDE DEF out
  <2>2. edst \in Nat /\ Len(w) \in Nat /\ Len(w) < edst /\ ~ (Len(w) = edst - 1)
    BY <2>1, PrintAssumption
  <2>3. w = AllOf(items)
    <3>1. Holds(w, AllOf(items), edst)
      BY ExactIs
    <3> QED BY <2>2, <3>1 DEF Holds
  <2>4. AllOf(items') = w \o Converted(item)
    BY <2>1, <2>3, AllOfAppend
  <2>5. w' \in Seq(Written) /\ Holds(w', w \o Converted(item), edst)
    BY <2>1, <2>2, FieldAdded DEF out
  <2>6. items' \in Seq(Items)
    BY <2>1, AppendProperties
  <2>7. PrintExact' = Holds(w', AllOf(items'), edst')
    BY DEF PrintExact, Holds, BeginningOf, AllOf
  <2> QED BY <2>1, <2>4, <2>5, <2>6, <2>7
<1>2. CASE vseprintEnds
  BY <1>2 DEF vseprintEnds, PrintExact
<1>3. CASE UNCHANGED printVars
  BY <1>3 DEF printVars, PrintExact
<1> QED BY <1>1, <1>2, <1>3 DEF PrintNext

\* print.c writes what the conversions of the format stand for, and no more than
\* the buffer holds, for int, long and vlong of any widths, every value, base
\* and size of a field, every string, and any number of items: the digits are
\* the numeral of the absolute value, unsigned or not, padding goes where it
\* belongs, and what does not fit is cut off at the end.
THEOREM PrintingCorrect ==
  PrintSpec => []PrintExact
<1>1. PrintInv => PrintExact
  BY DEF PrintInv
<1> QED BY <1>1, InitPrint, StepPrint, PTL DEF PrintSpec

=============================================================================
