------------------------------- MODULE Channel -------------------------------
(***************************************************************************)
(* libtask/channel.c.  A call of chanalt names an array of alternatives;   *)
(* chansend, chanrecv and their variants are chanalt on an array of one.   *)
(* The arrays live on the stack of the calling task, so what counts is     *)
(* which task left which entry of its array on which channel: an Alt* is   *)
(* the pair of its task and its index.  An Altarray is a set of such       *)
(* pairs, since altexec picks from it with rand().                         *)
(***************************************************************************)
EXTENDS TaskCore

CONSTANTS Channels,  \* addresses of Channel structures
          BufSize,   \* bufsize of each channel
          Values,    \* elements
          Zero,      \* the element of which all bytes are 0
          Arrays     \* the arrays of alternatives the client uses

CHANSND == "send"
CHANRCV == "receive"
CHANNOP == "nop"

\* v is the element to send, or any element for a place to receive one; NULL
\* is the null pointer.
Alt == [c : Channels, op : {CHANSND, CHANRCV, CHANNOP}, v : Values \cup {NULL}]

ASSUME ChannelAssumption ==
  /\ BufSize \in [Channels -> Nat]
  /\ Zero \in Values /\ NULL \notin Values \cup Alt
  /\ Arrays \subseteq Seq(Alt) \ {<< >>}
  /\ IsFiniteSet(Tasks)

VARIABLES
  live,               \* channels made by chancreate and not freed
  nbuf, off, buf,     \* the ring buffer of each channel
  asend, arecv,       \* entries waiting on each channel
  a,                  \* the argument of each task's chanalt, << >> outside
  xalt,               \* a[0].xalt - a, counted from 1
  ret, got,           \* what chanalt returned and the element it received,
                      \* until the client's next call; NULL: nothing received
  aborted             \* the library called abort()

bufVars == <<nbuf, off, buf>>
waitVars == <<asend, arecv>>
callVars == <<a, xalt, ret, got>>
vars == <<coreVars, live, bufVars, waitVars, callVars, aborted>>

Entries == Tasks \X Nat

TypeOK ==
  /\ CoreTypeOK
  /\ live \subseteq Channels
  /\ nbuf \in [Channels -> Nat]
  /\ off \in [Channels -> Nat]
  /\ DOMAIN buf = Channels
  /\ \A c \in Channels :
       /\ nbuf[c] <= BufSize[c]
       /\ off[c] < BufSize[c] \/ off[c] = 0
       /\ buf[c] \in [0 .. BufSize[c] - 1 -> Values \cup {NULL}]
  /\ asend \in [Channels -> SUBSET Entries]
  /\ arecv \in [Channels -> SUBSET Entries]
  /\ a \in [Tasks -> Arrays \cup {<< >>}]
  /\ xalt \in [Tasks -> Nat]
  /\ ret \in [Tasks -> Int]
  /\ got \in [Tasks -> Values \cup {NULL}]
  /\ aborted \in BOOLEAN

Init ==
  /\ taskrunqueue \in [1 .. Cardinality(Tasks) -> Tasks]
  /\ IsInjective(taskrunqueue) /\ Range(taskrunqueue) = Tasks
  /\ state = [t \in Tasks |-> "ready"]
  /\ taskrunning = NULL
  /\ live = {}
  /\ nbuf = [c \in Channels |-> 0] /\ off = [c \in Channels |-> 0]
  /\ buf = [c \in Channels |-> [k \in 0 .. BufSize[c] - 1 |-> NULL]]
  /\ asend = [c \in Channels |-> {}] /\ arecv = [c \in Channels |-> {}]
  /\ a = [t \in Tasks |-> << >>] /\ xalt = [t \in Tasks |-> 0]
  /\ ret = [t \in Tasks |-> 0] /\ got = [t \in Tasks |-> NULL]
  /\ aborted = FALSE

-----------------------------------------------------------------------------

Runs(t) == ~aborted /\ taskrunning = t /\ a[t] = << >>

\* malloc does not clear the buffer: its elements are no value anyone sent.
chancreate(t, c) ==
  /\ Runs(t) /\ c \notin live
  /\ live' = live \cup {c}
  /\ nbuf' = [nbuf EXCEPT ![c] = 0]
  /\ off' = [off EXCEPT ![c] = 0]
  /\ buf' = [buf EXCEPT ![c] = [k \in 0 .. BufSize[c] - 1 |-> NULL]]
  /\ asend' = [asend EXCEPT ![c] = {}] /\ arecv' = [arecv EXCEPT ![c] = {}]
  /\ UNCHANGED <<coreVars, callVars, aborted>>

\* "bug - work out races": a client may free a channel nobody waits on.
chanfree(t, c) ==
  /\ Runs(t) /\ c \in live
  /\ asend[c] = {} /\ arecv[c] = {}
  /\ live' = live \ {c}
  /\ UNCHANGED <<coreVars, bufVars, waitVars, callVars, aborted>>

otherop(op) == IF op = CHANSND THEN CHANRCV ELSE CHANSND

chanarray(c, op) == IF op = CHANSND THEN asend[c] ELSE arecv[c]

\* Fault: the last place of the buffer is not used.
altcanexec_LeavesPlace(x) ==
  /\ x.op # CHANNOP
  /\ IF BufSize[x.c] = 0 THEN chanarray(x.c, otherop(x.op)) # {}
     ELSE IF x.op = CHANSND THEN nbuf[x.c] + 1 < BufSize[x.c] ELSE nbuf[x.c] > 0

altcanexec(x) ==
  /\ x.op # CHANNOP
  /\ IF BufSize[x.c] = 0 THEN chanarray(x.c, otherop(x.op)) # {}
     ELSE IF x.op = CHANSND THEN nbuf[x.c] < BufSize[x.c] ELSE nbuf[x.c] > 0

\* amove of a null source clears the destination.
element(s) == IF s.v = NULL THEN Zero ELSE s.v

\* Fault: off is not wrapped.
nextoff_Unwrapped(c) == off[c] + 1

nextoff(c) == IF off[c] + 1 = BufSize[c] THEN 0 ELSE off[c] + 1

\* Fault: a sender and a receiver always meet directly, past a full buffer.
isdirect_Always(c, s, r) == s # NULL /\ r # NULL

isdirect(c, s, r) == s # NULL /\ r # NULL /\ nbuf[c] = 0

\* altcopy on channel c, from the alternative s to the alternative r of task
\* to; either may be NULL.  With both and nothing in the ring the copy is
\* direct; otherwise an element leaves the ring, then one enters it.
altcopy(c, s, r, to) ==
  LET direct == isdirect(c, s, r)
      o == IF r = NULL THEN off[c] ELSE nextoff(c)
      n == IF r = NULL THEN nbuf[c] ELSE nbuf[c] - 1
  IN  /\ IF direct THEN UNCHANGED bufVars
         ELSE /\ off' = [off EXCEPT ![c] = o]
              /\ nbuf' = [nbuf EXCEPT ![c] = IF s = NULL THEN n ELSE n + 1]
              /\ buf' = IF s = NULL THEN buf
                        ELSE [buf EXCEPT ![c][(o + n) % BufSize[c]] = element(s)]
      /\ got' = [t \in Tasks |->
                   IF r # NULL /\ t = to
                   THEN IF r.v = NULL THEN NULL
                        ELSE IF direct THEN element(s) ELSE buf[c][off[c]]
                   ELSE IF t = taskrunning THEN NULL ELSE got[t]]

\* Fault: only the first alternative is entered.
entries_First(t, s, c, op) ==
  {<<t, i>> : i \in {i \in {1} : s[i].c = c /\ s[i].op = op}}

\* The entries for channel c and operation op in array s of task t.
entries(t, s, c, op) ==
  {<<t, i>> : i \in {i \in DOMAIN s : s[i].c = c /\ s[i].op = op}}

queued(t, i) == <<t, i>> \in chanarray(a[t][i].c, a[t][i].op)

\* Fault: a woken task is left on the channels it did not use.
altalldequeue_SendOnly(t) ==
  /\ asend' = [c \in Channels |-> asend[c] \ entries(t, a[t], c, CHANSND)]
  /\ UNCHANGED <<arecv, aborted>>

\* It aborts with "cannot find self in altdq" if an entry is not there.
altalldequeue(t) ==
  /\ asend' = [c \in Channels |-> asend[c] \ entries(t, a[t], c, CHANSND)]
  /\ arecv' = [c \in Channels |-> arecv[c] \ entries(t, a[t], c, CHANRCV)]
  /\ aborted' = \E i \in DOMAIN a[t] : a[t][i].op # CHANNOP /\ ~queued(t, i)

\* Task t executes alternative i of array s, on its own or with a task that
\* waits for it, which is taken off all its channels and readied.
altexec(t, s, i) ==
  LET x == s[i]
      partners == chanarray(x.c, otherop(x.op))
  IN  /\ \/ /\ partners = {}
            /\ IF x.op = CHANSND THEN altcopy(x.c, x, NULL, NULL)
                                 ELSE altcopy(x.c, NULL, x, t)
            /\ UNCHANGED <<waitVars, xalt, taskrunqueue, state, aborted>>
         \/ \E e \in partners :
              LET u == e[1]
                  y == a[u][e[2]]
              IN  /\ IF x.op = CHANSND THEN altcopy(x.c, x, y, u)
                                       ELSE altcopy(x.c, y, x, t)
                  /\ altalldequeue(u)
                  /\ xalt' = [xalt EXCEPT ![u] = e[2]]
                  /\ taskready(u)
      /\ ret' = [ret EXCEPT ![t] = i]
      /\ UNCHANGED <<taskrunning, a>>

\* chanalt up to its return, or up to its taskswitch when nothing can be done
\* and the array ends with CHANEND rather than CHANNOBLK.
chanalt(t, s, canblock) ==
  LET can == {i \in DOMAIN s : altcanexec(s[i])}
  IN  /\ Runs(t)
      /\ \A i \in DOMAIN s : s[i].op # CHANNOP => s[i].c \in live
      /\ \/ \E i \in can : altexec(t, s, i)
         \/ /\ can = {} /\ ~canblock
            /\ ret' = [ret EXCEPT ![t] = -1]
            /\ got' = [got EXCEPT ![t] = NULL]
            /\ UNCHANGED <<coreVars, bufVars, waitVars, a, xalt, aborted>>
         \/ /\ can = {} /\ canblock
            /\ asend' = [c \in Channels |-> asend[c] \cup entries(t, s, c, CHANSND)]
            /\ arecv' = [c \in Channels |-> arecv[c] \cup entries(t, s, c, CHANRCV)]
            /\ a' = [a EXCEPT ![t] = s]
            /\ xalt' = [xalt EXCEPT ![t] = 1]
            /\ ret' = [ret EXCEPT ![t] = 0]
            /\ got' = [got EXCEPT ![t] = NULL]
            /\ taskswitch
            /\ UNCHANGED <<taskrunqueue, state, bufVars, aborted>>
      /\ UNCHANGED live

\* The rest of chanalt, after its taskswitch.
chanaltReturns(t) ==
  /\ ~aborted /\ taskrunning = t /\ a[t] # << >>
  /\ ret' = [ret EXCEPT ![t] = xalt[t]]
  /\ a' = [a EXCEPT ![t] = << >>]
  /\ xalt' = [xalt EXCEPT ![t] = 0]
  /\ UNCHANGED <<coreVars, live, bufVars, waitVars, got, aborted>>

taskyield(t) ==
  /\ Runs(t)
  /\ taskready(t) /\ taskswitch
  /\ ret' = [ret EXCEPT ![t] = 0] /\ got' = [got EXCEPT ![t] = NULL]
  /\ UNCHANGED <<live, bufVars, waitVars, a, xalt, aborted>>

scheduler ==
  ~aborted /\ schedule /\ UNCHANGED <<live, bufVars, waitVars, callVars, aborted>>

TaskStep(t) ==
  \/ \E s \in Arrays, canblock \in BOOLEAN : chanalt(t, s, canblock)
  \/ chanaltReturns(t)
  \/ \E c \in Channels : chancreate(t, c) \/ chanfree(t, c)
  \/ taskyield(t)
Next == scheduler \/ \E t \in Tasks : TaskStep(t)

Spec == Init /\ [][Next]_vars

-----------------------------------------------------------------------------

\* A task that sleeps in chanalt.
Waits(t) == a[t] # << >> /\ state[t] = "none" /\ taskrunning # t

\* The entries for channel c and operation op in the arrays of those tasks.
Listed(c, op) ==
  UNION {entries(t, a[t], c, op) : t \in {u \in Tasks : Waits(u)}}

\* The entries waiting on a channel are those of the arrays of the tasks that
\* sleep in chanalt, on the channel and side they name, all of them and no
\* others: no channel keeps a pointer into the stack of a task that has gone
\* on, no sleeper is missing from one, and none sleeps on a freed channel
\* (altqueue, altalldequeue).
EntriesExact ==
  \A c \in Channels :
    /\ asend[c] = Listed(c, CHANSND)
    /\ arecv[c] = Listed(c, CHANRCV)
    /\ c \notin live => asend[c] \cup arecv[c] = {}

\* A task waits only for what cannot happen yet: a receiver only on an empty
\* buffer, a sender only on a full one, and two different tasks never wait
\* for each other.
NoMissedMatch ==
  \A c \in Channels :
    /\ arecv[c] # {} => nbuf[c] = 0
    /\ asend[c] # {} => nbuf[c] = BufSize[c]
    /\ \A e \in asend[c], f \in arecv[c] : e[1] = f[1]

\* altdequeue always finds the entry ("cannot find self in altdq").
NeverAborts == ~aborted

\* The channels of channel.c implement those of ChannelSpec: the ring is the
\* queue, a task blocked with its entries out is a pending call, and xalt or
\* the returned index and the element say which alternative was executed.
Line(b, o, n, size) == [k \in 1 .. n |-> b[(o + k - 1) % size]]
Queues == [c \in Channels |->
  IF c \in live THEN Line(buf[c], off[c], nbuf[c], BufSize[c]) ELSE << >>]
Pending == [t \in Tasks |-> IF Waits(t) THEN a[t] ELSE << >>]
Outcomes == [t \in Tasks |->
  [index |-> IF Waits(t) \/ a[t] = << >> THEN ret[t] ELSE xalt[t], value |-> got[t]]]

Promise == INSTANCE ChannelSpec WITH
  open <- live, q <- Queues, pending <- Pending, outcome <- Outcomes

Refinement == Promise!ChannelSpec

=============================================================================
