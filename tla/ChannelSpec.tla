----------------------------- MODULE ChannelSpec -----------------------------
(***************************************************************************)
(* What channels promise, without ring buffers, entries or scheduling: a   *)
(* channel is a FIFO queue of bounded length; a call executes exactly one  *)
(* of its alternatives, at once if it can; and a sender and a receiver     *)
(* that meet exchange through the queue, in one step, however short it is. *)
(***************************************************************************)
EXTENDS Integers, Sequences

CONSTANTS Tasks, NULL, Channels, BufSize, Zero, Arrays

VARIABLES
  open,     \* the channels there are
  q,        \* the elements in each channel
  pending,  \* the array of alternatives a task is blocked on, or << >>
  outcome   \* what became of the last call of each task

specVars == <<open, q, pending, outcome>>

None == [index |-> 0, value |-> NULL]

SpecInit ==
  /\ open = {}
  /\ q = [c \in Channels |-> << >>]
  /\ pending = [t \in Tasks |-> << >>]
  /\ outcome = [t \in Tasks |-> None]

Sent(x) == IF x.v = NULL THEN Zero ELSE x.v

\* A receive with a null pointer throws the element away.
Into(x, e) == IF x.v = NULL THEN NULL ELSE e

\* Blocked alternative j of task u could meet alternative x.
Meets(u, j, x) == /\ pending[u][j].c = x.c
                  /\ {pending[u][j].op, x.op} = {"send", "receive"}

Alone(x) == \A u \in Tasks : \A j \in DOMAIN pending[u] : ~Meets(u, j, x)

Possible(x) ==
  \/ x.op = "send" /\ Len(q[x.c]) < BufSize[x.c]
  \/ x.op = "receive" /\ q[x.c] # << >>
  \/ ~Alone(x)

Send(t, i, x) ==
  /\ x.op = "send" /\ Len(q[x.c]) < BufSize[x.c] /\ Alone(x)
  /\ q' = [q EXCEPT ![x.c] = Append(@, Sent(x))]
  /\ outcome' = [outcome EXCEPT ![t] = [index |-> i, value |-> NULL]]
  /\ UNCHANGED pending

Receive(t, i, x) ==
  /\ x.op = "receive" /\ q[x.c] # << >> /\ Alone(x)
  /\ q' = [q EXCEPT ![x.c] = Tail(@)]
  /\ outcome' = [outcome EXCEPT ![t] = [index |-> i, value |-> Into(x, Head(q[x.c]))]]
  /\ UNCHANGED pending

\* One end of the exchange calls now, the other was blocked.
Exchange(t, i, x, u, j) ==
  LET y == pending[u][j]
      line == Append(q[x.c], Sent(IF x.op = "send" THEN x ELSE y))
  IN  /\ Meets(u, j, x)
      /\ q' = [q EXCEPT ![x.c] = Tail(line)]
      /\ pending' = [pending EXCEPT ![u] = << >>]
      /\ outcome' = [outcome EXCEPT
           ![t] = [index |-> i,
                   value |-> IF x.op = "receive" THEN Into(x, Head(line)) ELSE NULL],
           ![u] = [index |-> j,
                   value |-> IF y.op = "receive" THEN Into(y, Head(line)) ELSE NULL]]

Execute(t, s) ==
  \E i \in DOMAIN s :
    \/ Send(t, i, s[i])
    \/ Receive(t, i, s[i])
    \/ \E u \in Tasks : \E j \in DOMAIN pending[u] : Exchange(t, i, s[i], u, j)

GiveUp(t, s) ==
  /\ \A i \in DOMAIN s : ~Possible(s[i])
  /\ \/ /\ outcome' = [outcome EXCEPT ![t] = [index |-> -1, value |-> NULL]]
        /\ UNCHANGED pending
     \/ /\ pending' = [pending EXCEPT ![t] = s]
        /\ outcome' = [outcome EXCEPT ![t] = None]
  /\ UNCHANGED q

Call(t) ==
  /\ pending[t] = << >>
  /\ \E s \in Arrays : /\ \A i \in DOMAIN s : s[i].op # "nop" => s[i].c \in open
                       /\ Execute(t, s) \/ GiveUp(t, s)
  /\ UNCHANGED open

Forget(t) ==
  /\ outcome' = [outcome EXCEPT ![t] = None]
  /\ UNCHANGED <<open, q, pending>>

\* A channel is made empty, and closed when no task is blocked on it.
Open(c) == c \notin open /\ open' = open \cup {c} /\ UNCHANGED <<q, pending, outcome>>
Close(c) ==
  /\ c \in open
  /\ \A t \in Tasks : \A i \in DOMAIN pending[t] :
       pending[t][i].op # "nop" => pending[t][i].c # c
  /\ open' = open \ {c}
  /\ q' = [q EXCEPT ![c] = << >>]
  /\ UNCHANGED <<pending, outcome>>

SpecNext == \/ \E t \in Tasks : Call(t) \/ Forget(t)
            \/ \E c \in Channels : Open(c) \/ Close(c)

ChannelSpec == SpecInit /\ [][SpecNext]_specVars

=============================================================================
