------------------------------- MODULE FdWait -------------------------------
(***************************************************************************)
(* What taskdelay and fdwait of libtask/fd.c promise their callers, without *)
(* a sleeping list, alarms, registrations, counts or a run queue: a task   *)
(* runs until it waits, is woken for a reason it finds in its udata, and   *)
(* runs again some time later, when the reason may be gone; or the program *)
(* aborts.  FdTask implements this; the modules of the wrapped system      *)
(* calls and of net.c are built on it.                                     *)
(***************************************************************************)
EXTENDS Naturals, FiniteSets

CONSTANTS Clients, NULL, Fds, RW,
          Refused,    \* descriptors that epoll_ctl may refuse to register
          Data,       \* what clients store with taskdata
          MaxEvents,  \* events the fd task learns of at once
          Callback    \* may the fd task be stopped by its callback

VARIABLES
  taskrunning,  \* the client that runs, NULL while none does
  stage,        \* in its own code, asleep, or woken and not yet returned
  wait,         \* the arguments of the fdwait a task is in
  udata,        \* what taskdata() returns
  aborted,      \* an assertion failed
  possible      \* what can be done on each descriptor

taskVars == <<taskrunning, stage, wait, udata, aborted>>
waitVars == <<taskVars, possible>>

Stages == {"run", "delay", "fdwait", "woken"}
Reasons == {"NULL", "LIBTASK_TIMEOUT", "EIO"}

WaitInit ==
  /\ taskrunning = NULL
  /\ stage = [t \in Clients |-> "run"]
  /\ wait = [t \in Clients |-> NULL]
  /\ udata = [t \in Clients |-> "NULL"]
  /\ aborted = FALSE

\* The state of the tasks.
TasksOK ==
  /\ taskrunning \in Clients \cup {NULL}
  /\ stage \in [Clients -> Stages]
  /\ wait \in [Clients -> [fd : Fds, rw : RW, own : BOOLEAN] \cup {NULL}]
  /\ udata \in [Clients -> Reasons \cup Data]
  /\ aborted \in BOOLEAN

Runs(t) == ~aborted /\ taskrunning = t /\ stage[t] = "run"

\* Whoever is awake may be next: FdTask's run queue says more.
dispatch(t) ==
  /\ ~aborted /\ taskrunning = NULL /\ stage[t] \in {"run", "woken"}
  /\ taskrunning' = t
  /\ UNCHANGED <<stage, wait, udata, aborted>>

\* A task gives up the CPU in any other way than through fd.c, or ends.
pauses(t) ==
  /\ Runs(t)
  /\ taskrunning' = NULL
  /\ UNCHANGED <<stage, wait, udata, aborted>>

taskdelay(t) ==
  /\ Runs(t)
  /\ taskrunning' = NULL
  /\ stage' = [stage EXCEPT ![t] = "delay"]
  /\ UNCHANGED <<wait, udata, aborted>>

\* If another task waits on the descriptor, a dup of it may be needed.
fdwait(t, f, rw, own) ==
  /\ Runs(t)
  /\ own => \E u \in Clients \ {t} : wait[u] # NULL /\ wait[u].fd = f
  /\ taskrunning' = NULL
  /\ stage' = [stage EXCEPT ![t] = "fdwait"]
  /\ wait' = [wait EXCEPT ![t] = [fd |-> f, rw |-> rw, own |-> own]]
  /\ UNCHANGED <<udata, aborted>>

\* An epoll instance or a dup is needed and cannot be had.
aborts(t) ==
  /\ Runs(t)
  /\ aborted' = TRUE
  /\ UNCHANGED <<taskrunning, stage, wait, udata>>

\* The event that a task in fdwait waits for is there.
happens(t) == stage[t] = "fdwait" /\ possible[wait[t].fd] \cap {wait[t].rw, "e"} # {}

Happening == {t \in Clients : happens(t)}

\* An event wakes with NULL; time wakes whoever has no event, or one too many
\* for the fd task to learn of, or perhaps no registration; a callback that
\* stops the fd task, or did so before and took a registration away, wakes
\* anyone.
due(t, reason) ==
  CASE reason = "NULL" -> happens(t)
    [] reason = "LIBTASK_TIMEOUT" ->
         happens(t) => \/ Callback \/ wait[t].fd \in Refused
                       \/ Cardinality(Happening) > MaxEvents
    [] reason = "EIO" -> Callback

\* The fd task wakes some sleepers, each for a reason.
wakes(why) ==
  /\ ~aborted /\ taskrunning = NULL
  /\ \A t \in DOMAIN why : stage[t] \in {"delay", "fdwait"} /\ due(t, why[t])
  /\ stage' = [t \in Clients |-> IF t \in DOMAIN why THEN "woken" ELSE stage[t]]
  /\ udata' = [t \in Clients |-> IF t \in DOMAIN why THEN why[t] ELSE udata[t]]
  /\ UNCHANGED <<taskrunning, wait, aborted>>

returns(t) ==
  /\ ~aborted /\ taskrunning = t /\ stage[t] = "woken"
  /\ stage' = [stage EXCEPT ![t] = "run"]
  /\ wait' = [wait EXCEPT ![t] = NULL]
  /\ UNCHANGED <<taskrunning, udata, aborted>>

taskdata(t, data) ==
  /\ Runs(t)
  /\ udata' = [udata EXCEPT ![t] = data]
  /\ UNCHANGED <<taskrunning, stage, wait, aborted>>

TaskStep(t) ==
  \/ dispatch(t) \/ pauses(t) \/ taskdelay(t) \/ aborts(t) \/ returns(t)
  \/ \E f \in Fds, rw \in RW, own \in BOOLEAN : fdwait(t, f, rw, own)
  \/ \E data \in Data : taskdata(t, data)

Wakes == \E W \in SUBSET Clients : \E why \in [W -> Reasons] : wakes(why)

\* Things become possible, and a running task may use them up.
Changes ==
  /\ possible' \in [Fds -> SUBSET {"r", "w", "e"}]
  /\ \A f \in Fds : possible[f] # {} /\ possible'[f] = {} => taskrunning # NULL

\* The descriptors change at any time, also in the step of a task.
Next ==
  \/ Wakes /\ UNCHANGED possible
  \/ (UNCHANGED taskVars \/ \E t \in Clients : TaskStep(t)) /\ Changes

Init == WaitInit /\ possible = [f \in Fds |-> {}]

FdWaitSpec == Init /\ [][Next]_waitVars

=============================================================================
