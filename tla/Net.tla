-------------------------------- MODULE Net --------------------------------
(***************************************************************************)
(* libtask/net.c with __wrap_accept and __wrap_connect of fd.c: listeners  *)
(* and outgoing connections, on top of what FdWait promises.  Descriptors  *)
(* may run out, and fd.c takes some for itself; the kernel completes,      *)
(* refuses and loses connections and brings in new ones whatever the tasks *)
(* do meanwhile.  A step is one call that may put its task to sleep, with  *)
(* what follows it up to the next one or the return.  What happens to a    *)
(* connection after it was returned is left out, and so is a close while   *)
(* another task uses the descriptor.                                       *)
(***************************************************************************)
EXTENDS Naturals, FiniteSets

CONSTANTS Tasks, NULL, Fds, Callback,
          Refused, \* descriptors that epoll_ctl may refuse to register
          Limit,   \* descriptors the program may have
          Peers   \* who may connect to a listener

\* A call.  next: what is done when its task runs again.  reason: how its
\* fdwait ended.  overtaken: another task accepted a connection on the
\* listener since the call began.
Calls == [op : {"announce", "accept", "dial"}, istcp : BOOLEAN, fd : Fds \cup {NULL},
          next : {"accept", "connect", "check", "done"},
          reason : {"NULL", "LIBTASK_TIMEOUT", "EIO"}, overtaken : BOOLEAN]

ASSUME NetAssumption ==
  /\ NULL \notin Tasks \cup Fds \cup Peers \cup Calls
  /\ IsFiniteSet(Tasks) /\ Callback \in BOOLEAN
  /\ Refused \subseteq Fds /\ Limit \in Nat

VARIABLES
  taskrunning, stage, wait, udata, aborted,  \* of FdWait
  instances, \* descriptors of epoll, which fd.c never closes
  sock,     \* the other descriptors, but for the dups of fdwait
  call,     \* the locals of the call a task is in, NULL outside
  handed,   \* history: descriptors that were returned and not closed since
  outcome   \* history: what the task's last call returned, until it goes on

taskVars == <<taskrunning, stage, wait, udata, aborted, instances>>
vars == <<taskVars, sock, call, handed, outcome>>

\* A listener, whose listen() may have failed, has the peers that wait to be
\* accepted; the other kinds are the life of one end of a connection.
Sockets == [kind : {"free", "listener", "new", "connecting", "up", "refused"},
            family : {"AF_INET", "AF_INET6"}, noblock : BOOLEAN, listening : BOOLEAN,
            backlog : SUBSET Peers]

Socket(kind) == [kind |-> kind, family |-> "AF_INET", noblock |-> FALSE,
                 listening |-> FALSE, backlog |-> {}]

Possible == [f \in Fds |->
  LET s == sock[f]
  IN  CASE s.kind = "listener" -> (IF s.backlog # {} THEN {"r"} ELSE {})
                                  \cup (IF s.listening THEN {} ELSE {"e"})
        [] s.kind = "up" -> {"w"}
        [] s.kind = "refused" -> {"r", "w", "e"}
        [] OTHER -> {}]

W == INSTANCE FdWait WITH
  Clients <- Tasks, RW <- {"r", "w"}, Data <- {"NULL"}, MaxEvents <- Cardinality(Tasks),
  possible <- Possible

Init ==
  /\ W!WaitInit /\ instances = 0
  /\ sock = [f \in Fds |-> Socket("free")]
  /\ call = [t \in Tasks |-> NULL]
  /\ handed = {}
  /\ outcome = [t \in Tasks |-> NULL]

-----------------------------------------------------------------------------

Idle(t) == W!Runs(t) /\ call[t] = NULL
At(t, next) == W!Runs(t) /\ call[t] # NULL /\ call[t].next = next

Call(op, istcp, f, next) ==
  [op |-> op, istcp |-> istcp, fd |-> f, next |-> next, reason |-> "NULL", overtaken |-> FALSE]

\* What call c returns; NULL stands for -1, and for no peer.
Result(c, ret, errno) ==
  [call |-> c, ret |-> ret, errno |-> errno, from |-> NULL, address |-> NULL]

leaves(t, result) ==
  /\ call' = [call EXCEPT ![t] = NULL]
  /\ outcome' = [outcome EXCEPT ![t] = result]
  /\ handed' = handed \cup ({result.ret} \ {NULL})

\* Descriptors left, when each fdwait that made a dup has one of them.
spare == Limit - instances - Cardinality({f \in Fds : sock[f].kind # "free"})
               - Cardinality({t \in Tasks : wait[t] # NULL /\ wait[t].own})

Free == IF spare > 0 THEN {f \in Fds : sock[f].kind = "free"} ELSE {}

\* _startfdtask makes an epoll instance the first time, and again after the
\* callback stopped the fd task, when nobody is left asleep.
mayStart == \/ instances = 0
            \/ Callback /\ \A u \in Tasks : stage[u] \notin {"delay", "fdwait"}

startfd == \/ instances > 0 /\ UNCHANGED instances
           \/ mayStart /\ spare > 0 /\ instances' = instances + 1

delays(t) == \/ W!taskdelay(t) /\ startfd
             \/ mayStart /\ W!aborts(t) /\ UNCHANGED instances

\* fdwait sleeps, for a dup if another task has registered f already, or an
\* assertion fails: there is no descriptor or no memory for the instance or the
\* dup.
waits(t, f, rw) ==
  \/ W!fdwait(t, f, rw, FALSE) /\ startfd
  \/ W!fdwait(t, f, rw, TRUE) /\ instances > 0 /\ spare > 0 /\ UNCHANGED instances
  \/ /\ mayStart \/ \E u \in Tasks \ {t} : wait[u] # NULL /\ wait[u].fd = f
     /\ W!aborts(t) /\ UNCHANGED instances

\* Fault: the flag is not set.
fdnoblock_Not(s) == s

fdnoblock(s) == [s EXCEPT !.noblock = TRUE]

\* A call returns -1 before it has a descriptor: the name is not found, there
\* is no descriptor left, or bind fails and the socket is closed again.
failsEarly(t, op, istcp) ==
  /\ Idle(t)
  /\ leaves(t, Result(Call(op, istcp, NULL, "done"), NULL, "early"))
  /\ UNCHANGED <<taskVars, sock>>

\* For datagrams there is no listen(); for TCP its result is not looked at.
netannounce(t, istcp) ==
  \/ failsEarly(t, "announce", istcp)
  \/ \E f \in Free, listening \in BOOLEAN :
       /\ Idle(t)
       /\ sock' = [sock EXCEPT ![f] =
                     fdnoblock(IF istcp
                               THEN [Socket("listener") EXCEPT !.listening = listening]
                               ELSE Socket("up"))]
       /\ leaves(t, Result(Call("announce", istcp, f, "done"), f, "0"))
       /\ UNCHANGED taskVars

\* netaccept6 up to the fdwait of __wrap_accept.
netaccept6(t, f) ==
  /\ Idle(t) /\ f \in handed /\ sock[f].kind = "listener"
  /\ waits(t, f, "r")
  /\ call' = [call EXCEPT ![t] = Call("accept", TRUE, f, "accept")]
  /\ outcome' = [outcome EXCEPT ![t] = NULL]
  /\ UNCHANGED <<sock, handed>>

\* Fault: accept is tried again after EAGAIN, whatever ended the wait.
accepts_Again(t) ==
  /\ At(t, "accept")
  /\ sock[call[t].fd].backlog = {}
  /\ waits(t, call[t].fd, "r")
  /\ UNCHANGED <<sock, call, handed, outcome>>

\* What netaccept6 can report as the remote address: bytes 8 to 23 of its local
\* variable, the address in a sockaddr_in6.  For a listener of netannounce the
\* kernel writes a sockaddr_in, which has padding there and then ends: half of
\* the bytes are never set.
RemoteAddresses(family, peer) ==
  IF family = "AF_INET6" THEN {peer} ELSE Peers \cup {NULL}

\* __real_accept and the rest.  Its result may be EINVAL, EMFILE or EAGAIN; it
\* does not return on a blocking listener for which nobody waits.
accepts(t) ==
  LET f == call[t].fd
      s == sock[f]
      fails(errno) == leaves(t, Result(call[t], NULL, errno)) /\ UNCHANGED sock
  IN  /\ At(t, "accept")
      /\ \/ ~s.listening /\ fails("EINVAL")
         \/ s.listening /\ s.backlog = {} /\ s.noblock /\ fails("EAGAIN")
         \/ s.backlog # {} /\ Free = {} /\ fails("EMFILE")
         \/ \E peer \in s.backlog, g \in Free :
              /\ sock' = [sock EXCEPT ![f].backlog = @ \ {peer}, ![g] = fdnoblock(Socket("up"))]
              /\ \E address \in RemoteAddresses(s.family, peer) :
                   outcome' = [outcome EXCEPT ![t] =
                     [Result(call[t], g, "0") EXCEPT !.from = peer, !.address = address]]
              /\ call' = [u \in Tasks |->
                   IF u = t THEN NULL
                   ELSE IF call[u] # NULL /\ call[u].op = "accept" /\ call[u].fd = f
                        THEN [call[u] EXCEPT !.overtaken = TRUE] ELSE call[u]]
              /\ handed' = handed \cup {g}
      /\ UNCHANGED taskVars

\* netdial up to the connect of __wrap_connect.
netdial(t, istcp) ==
  \/ failsEarly(t, "dial", istcp)
  \/ \E f \in Free :
       /\ Idle(t)
       /\ sock' = [sock EXCEPT ![f] = fdnoblock(Socket("new"))]
       /\ call' = [call EXCEPT ![t] = Call("dial", istcp, f, "connect")]
       /\ udata' = [udata EXCEPT ![t] = "NULL"]
       /\ outcome' = [outcome EXCEPT ![t] = NULL]
       /\ UNCHANGED <<taskrunning, stage, wait, aborted, instances, handed>>

\* Fault: the descriptor is not closed.
gives_Up(t, errno) ==
  /\ leaves(t, Result(call[t], NULL, errno))
  /\ UNCHANGED sock

\* netdial closes its descriptor when __wrap_connect has failed.
gives(t, errno) ==
  /\ leaves(t, Result(call[t], NULL, errno))
  /\ sock' = [sock EXCEPT ![call[t].fd] = Socket("free")]

\* __real_connect, which fails, or begins to connect, or is done at once.
connects(t) ==
  /\ At(t, "connect")
  /\ \/ gives(t, "connect") /\ UNCHANGED taskVars
     \/ \E kind \in {"up"} \cup (IF call[t].istcp THEN {"connecting"} ELSE {}) :
          /\ sock' = [sock EXCEPT ![call[t].fd].kind = kind]
          /\ waits(t, call[t].fd, "w")
          /\ call' = [call EXCEPT ![t].next = "check"]
          /\ UNCHANGED <<handed, outcome>>

\* Fault: the end of the wait is taken for the end of the connect.
checks_Udata(t) ==
  /\ At(t, "check")
  /\ IF udata[t] # "NULL" THEN gives(t, udata[t])
     ELSE leaves(t, Result(call[t], call[t].fd, "0")) /\ UNCHANGED sock
  /\ UNCHANGED taskVars

\* The rest of __wrap_connect and of netdial.
checks(t) ==
  /\ At(t, "check")
  /\ \/ udata[t] # "NULL" /\ gives(t, udata[t])
     \/ /\ udata[t] = "NULL" /\ sock[call[t].fd].kind = "up"
        /\ leaves(t, Result(call[t], call[t].fd, "0"))
        /\ UNCHANGED sock
     \/ udata[t] = "NULL" /\ sock[call[t].fd].kind # "up" /\ gives(t, "refused")
  /\ UNCHANGED taskVars

\* The rest of fdwait, or of a taskdelay of the client's own.
returns(t) ==
  /\ W!returns(t)
  /\ call' = IF call[t] = NULL THEN call ELSE [call EXCEPT ![t].reason = udata[t]]
  /\ UNCHANGED <<instances, sock, handed, outcome>>

-----------------------------------------------------------------------------

\* Between calls a client closes what it was given, or gives up the CPU.
closes(t, f) ==
  /\ Idle(t) /\ f \in handed
  /\ \A u \in Tasks : call[u] # NULL => call[u].fd # f
  /\ sock' = [sock EXCEPT ![f] = Socket("free")]
  /\ handed' = handed \ {f}
  /\ outcome' = [outcome EXCEPT ![t] = NULL]
  /\ UNCHANGED <<taskVars, call>>

givesUp(t) ==
  /\ call[t] = NULL
  /\ (W!pauses(t) /\ UNCHANGED instances) \/ delays(t)
  /\ outcome' = [outcome EXCEPT ![t] = NULL]
  /\ UNCHANGED <<sock, call, handed>>

dispatch(t) == W!dispatch(t) /\ UNCHANGED <<instances, sock, call, handed, outcome>>

\* The fd task wakes t.  Others woken in the same pass are a step of their own.
wakes(t) ==
  /\ \E reason \in W!Reasons : W!wakes([u \in {t} |-> reason])
  /\ UNCHANGED <<instances, sock, call, handed, outcome>>

\* A peer connects, or answers, or refuses or ends a connection.
peer(f) ==
  /\ ~aborted
  /\ \/ \E p \in Peers \ sock[f].backlog :
          sock[f].listening /\ sock' = [sock EXCEPT ![f].backlog = @ \cup {p}]
     \/ \E kind \in {"up", "refused"} :
          /\ sock[f].kind \in {"connecting", "up"} \ {kind} /\ f \notin handed
          /\ sock' = [sock EXCEPT ![f].kind = kind]
  /\ UNCHANGED <<taskVars, call, handed, outcome>>

CallStep(t) == accepts(t) \/ connects(t) \/ checks(t) \/ returns(t)

Next ==
  \/ \E t \in Tasks :
       \/ \E istcp \in BOOLEAN : netannounce(t, istcp) \/ netdial(t, istcp)
       \/ \E f \in Fds : netaccept6(t, f) \/ closes(t, f)
       \/ CallStep(t) \/ givesUp(t) \/ dispatch(t) \/ wakes(t)
  \/ \E f \in Fds : peer(f)
  \/ aborted /\ UNCHANGED vars

\* A task that is awake runs in the end, goes on with its call and gives up the
\* CPU after it; the fd task wakes every sleeper, at the latest in time.
Fairness ==
  /\ WF_vars(\E t \in Tasks : CallStep(t))
  /\ SF_vars(\E t \in Tasks : givesUp(t))
  /\ \A t \in Tasks : SF_vars(dispatch(t)) /\ SF_vars(wakes(t))

Spec == Init /\ [][Next]_vars
FairSpec == Spec /\ Fairness

-----------------------------------------------------------------------------

\* The descriptors a task has opened in a netdial that has not returned.
Dialing(t) == IF call[t] # NULL /\ call[t].op = "dial" THEN {call[t].fd} ELSE {}

\* No descriptor is lost: whichever step of netannounce, netaccept6 or netdial
\* fails or times out, an open descriptor was returned to a client or is that
\* of one netdial in progress (the calls of close).  The descriptors of epoll,
\* which do get lost, are in instances.
NoLeak ==
  /\ {f \in Fds : sock[f].kind # "free"} = handed \cup UNION {Dialing(t) : t \in Tasks}
  /\ \A t \in Tasks : Dialing(t) \cap handed = {}
  /\ \A t, u \in Tasks : t # u => Dialing(t) \cap Dialing(u) = {}

\* "puts task to sleep ... instead of blocking the whole program": no accept or
\* connect that has to wait is done on a blocking descriptor, also when
\* somebody else took the connection the task was woken for (fdnoblock).  What
\* does block the program is the name lookup before a netdial (net.c:136).
ProgramNeverBlocks ==
  \A t \in Tasks :
    /\ At(t, "accept") => LET s == sock[call[t].fd]
                          IN  s.noblock \/ s.backlog # {} \/ ~s.listening
    /\ At(t, "connect") => sock[call[t].fd].noblock

\* What a call returns is what happened to its own wait and its own connection:
\* netdial returns a descriptor that is connected, or was when getpeername
\* looked; it reports a timeout only of the wait it made; and netaccept6 finds
\* nobody only if its wait ended without a connection or another task took it.
OutcomesTrue ==
  \A t \in Tasks : outcome[t] # NULL =>
    LET o == outcome[t]
    IN  /\ o.call.op = "dial" /\ o.ret # NULL => sock[o.ret].kind = "up"
        /\ o.errno \in {"LIBTASK_TIMEOUT", "EIO"} => o.call.reason = o.errno
        /\ o.errno = "EAGAIN" => o.call.reason # "NULL" \/ o.call.overtaken

\* Every netaccept6 and netdial returns, whether or not anyone connects or
\* answers: a timeout in fdwait ends either; unless an assertion in fd.c ends
\* the program, for want of a descriptor of its own (waits).
CallsReturn == \A t \in Tasks : call[t] # NULL ~> (call[t] = NULL \/ aborted)

\* "it must point at a buffer ... that is filled in with the remote IP address"
\* (README, netaccept6).
RemoteAddressGiven ==
  \A t \in Tasks : outcome[t] # NULL => outcome[t].address = outcome[t].from

=============================================================================
