---------------------------- MODULE ChannelProofs ----------------------------
(***************************************************************************)
(* The channels of channel.c are correct, and implement ChannelSpec, for   *)
(* any tasks, channels, buffer sizes and arrays of alternatives.           *)
(***************************************************************************)
EXTENDS Channel, TaskCoreProofs

\* The inductive invariant.  EntriesExact and NoMissedMatch need each other:
\* that a call may go to sleep is decided on the entries, and that a call may
\* use the ring without looking at them on NoMissedMatch.
NoneExits == \A t \in Tasks : state[t] # "exiting"

IInv ==
  /\ TypeOK
  /\ RunqueueExact
  /\ NoneExits
  /\ NeverAborts
  /\ EntriesExact
  /\ NoMissedMatch

-----------------------------------------------------------------------------

\* What an alternative of an array is.
LEMMA ArrayAlt ==
  ASSUME NEW s \in Arrays
  PROVE  /\ s # << >> /\ DOMAIN s \subseteq Nat \ {0}
         /\ \A i \in DOMAIN s : /\ s[i] \in Alt /\ s[i] # NULL
                                /\ s[i].c \in Channels
                                /\ s[i].op \in {CHANSND, CHANRCV, CHANNOP}
                                /\ s[i].v \in Values \cup {NULL}
<1>1. s \in Seq(Alt) /\ s # << >>
  BY ChannelAssumption
<1>2. DOMAIN s \subseteq Nat \ {0} /\ \A i \in DOMAIN s : s[i] \in Alt
  BY <1>1
<1>3. NULL \notin Alt
  BY ChannelAssumption
<1> QED BY <1>1, <1>2, <1>3 DEF Alt

\* Listed, entry by entry, before and after a step.
LEMMA ListedMeaning ==
  ASSUME NEW c, NEW op, NEW e
  PROVE  /\ e \in Listed(c, op) <=>
              \E t \in Tasks : Waits(t) /\ e \in entries(t, a[t], c, op)
         /\ e \in Listed(c, op)' <=>
              \E t \in Tasks : Waits(t)' /\ e \in entries(t, a'[t], c, op)
<1>1. e \in Listed(c, op) <=> \E t \in Tasks : Waits(t) /\ e \in entries(t, a[t], c, op)
  BY DEF Listed
<1>2. Listed(c, op)' = UNION {entries(t, a'[t], c, op) : t \in {u \in Tasks : Waits(u)'}}
  BY DEF Listed, entries
<1>3. e \in Listed(c, op)' <=> \E t \in Tasks : Waits(t)' /\ e \in entries(t, a'[t], c, op)
  BY <1>2
<1> QED BY <1>1, <1>3

\* The entries of a channel, one by one.
LEMMA EntryMeaning ==
  ASSUME TypeOK, EntriesExact, NEW c \in Channels
  PROVE  /\ \A t \in Tasks : \A i : <<t, i>> \in asend[c] <=>
              Waits(t) /\ i \in DOMAIN a[t] /\ a[t][i].c = c /\ a[t][i].op = CHANSND
         /\ \A t \in Tasks : \A i : <<t, i>> \in arecv[c] <=>
              Waits(t) /\ i \in DOMAIN a[t] /\ a[t][i].c = c /\ a[t][i].op = CHANRCV
         /\ \A e \in asend[c] \cup arecv[c] :
              /\ e = <<e[1], e[2]>> /\ e[1] \in Tasks /\ Waits(e[1])
              /\ e[2] \in DOMAIN a[e[1]] /\ a[e[1]] \in Arrays
              /\ a[e[1]][e[2]].c = c
<1> DEFINE S == {u \in Tasks : Waits(u)}
<1>1. asend[c] = Listed(c, CHANSND) /\ arecv[c] = Listed(c, CHANRCV)
  BY DEF EntriesExact
<1>2. \A e, op : \A t : e \in entries(t, a[t], c, op) <=>
         \E i \in DOMAIN a[t] : e = <<t, i>> /\ a[t][i].c = c /\ a[t][i].op = op
  BY DEF entries
<1>3. \A e, op : e \in Listed(c, op) <=>
         \E t \in S : \E i \in DOMAIN a[t] :
            e = <<t, i>> /\ a[t][i].c = c /\ a[t][i].op = op
  BY <1>2, ListedMeaning
<1>4. \A e \in asend[c] : \E t \in S : \E i \in DOMAIN a[t] :
         e = <<t, i>> /\ a[t][i].c = c /\ a[t][i].op = CHANSND
  BY <1>1, <1>3
<1>5. \A e \in arecv[c] : \E t \in S : \E i \in DOMAIN a[t] :
         e = <<t, i>> /\ a[t][i].c = c /\ a[t][i].op = CHANRCV
  BY <1>1, <1>3
<1>6. \A t \in S : a[t] \in Arrays
  BY DEF TypeOK, Waits
<1>7. \A t \in Tasks : \A i : <<t, i>> \in asend[c] <=>
        t \in S /\ i \in DOMAIN a[t] /\ a[t][i].c = c /\ a[t][i].op = CHANSND
  <2> SUFFICES ASSUME NEW t \in Tasks, NEW i
               PROVE  <<t, i>> \in asend[c] <=>
        t \in S /\ i \in DOMAIN a[t] /\ a[t][i].c = c /\ a[t][i].op = CHANSND
    OBVIOUS
  <2>1. <<t, i>> \in asend[c] => 
        t \in S /\ i \in DOMAIN a[t] /\ a[t][i].c = c /\ a[t][i].op = CHANSND
    BY <1>4
  <2>2. ASSUME t \in S, i \in DOMAIN a[t], a[t][i].c = c, a[t][i].op = CHANSND
        PROVE  <<t, i>> \in asend[c]
    BY <1>1, <1>3, <2>2
  <2> QED BY <2>1, <2>2
<1>8. \A t \in Tasks : \A i : <<t, i>> \in arecv[c] <=>
        t \in S /\ i \in DOMAIN a[t] /\ a[t][i].c = c /\ a[t][i].op = CHANRCV
  <2> SUFFICES ASSUME NEW t \in Tasks, NEW i
               PROVE  <<t, i>> \in arecv[c] <=>
        t \in S /\ i \in DOMAIN a[t] /\ a[t][i].c = c /\ a[t][i].op = CHANRCV
    OBVIOUS
  <2>1. <<t, i>> \in arecv[c] => 
        t \in S /\ i \in DOMAIN a[t] /\ a[t][i].c = c /\ a[t][i].op = CHANRCV
    BY <1>5
  <2>2. ASSUME t \in S, i \in DOMAIN a[t], a[t][i].c = c, a[t][i].op = CHANRCV
        PROVE  <<t, i>> \in arecv[c]
    BY <1>1, <1>3, <2>2
  <2> QED BY <2>1, <2>2
<1>9. \A e \in asend[c] \cup arecv[c] :
        /\ e = <<e[1], e[2]>> /\ e[1] \in Tasks /\ Waits(e[1])
        /\ e[2] \in DOMAIN a[e[1]] /\ a[e[1]] \in Arrays
        /\ a[e[1]][e[2]].c = c
  BY <1>4, <1>5, <1>6
<1> QED BY <1>7, <1>8, <1>9

\* The entries stay as they are when the same tasks sleep with the same arrays.
LEMMA SameEntries ==
  ASSUME EntriesExact, UNCHANGED waitVars, live \subseteq live',
         \A t \in Tasks : (Waits(t)' <=> Waits(t)),
         \A t \in Tasks : Waits(t) => a'[t] = a[t]
  PROVE  EntriesExact'
<1> SUFFICES ASSUME NEW c \in Channels
             PROVE  /\ asend'[c] = Listed(c, CHANSND)'
                    /\ arecv'[c] = Listed(c, CHANRCV)'
                    /\ c \notin live' => asend'[c] \cup arecv'[c] = {}
  BY DEF EntriesExact
<1>1. /\ asend[c] = Listed(c, CHANSND) /\ arecv[c] = Listed(c, CHANRCV)
      /\ c \notin live => asend[c] \cup arecv[c] = {}
  BY DEF EntriesExact
<1>2. \A op : \A t \in Tasks : Waits(t) => entries(t, a'[t], c, op) = entries(t, a[t], c, op)
  OBVIOUS
<1>3. \A op : Listed(c, op)' = Listed(c, op)
  <2> TAKE op
  <2>1. \A e : e \in Listed(c, op)' <=> e \in Listed(c, op)
    BY <1>2, ListedMeaning
  <2> QED BY <2>1
<1> QED BY <1>1, <1>3 DEF waitVars

\* The ring of one channel.
Ring(c) ==
  /\ nbuf[c] \in Nat /\ nbuf[c] <= BufSize[c]
  /\ off[c] \in Nat
  /\ off[c] < BufSize[c] \/ off[c] = 0
  /\ buf[c] \in [0 .. BufSize[c] - 1 -> Values \cup {NULL}]

\* altcopy keeps the ring within its bounds: it is called with a place in the
\* buffer for a sender, an element in it for a receiver, or with both.
LEMMA AltcopyKeeps ==
  ASSUME TypeOK, NEW c \in Channels, NEW s \in Alt \cup {NULL}, NEW r \in Alt \cup {NULL},
         NEW to, altcopy(c, s, r, to),
         s # NULL \/ r # NULL,
         s # NULL /\ r = NULL => nbuf[c] < BufSize[c],
         s = NULL /\ r # NULL => nbuf[c] > 0
  PROVE  /\ r = NULL => nbuf' = [nbuf EXCEPT ![c] = nbuf[c] + 1]
         /\ s = NULL => nbuf' = [nbuf EXCEPT ![c] = nbuf[c] - 1]
         /\ s # NULL /\ r # NULL => nbuf' = nbuf
         /\ nbuf' \in [Channels -> Nat] /\ off' \in [Channels -> Nat]
         /\ DOMAIN buf' = Channels
         /\ \A d \in Channels : Ring(d)'
         /\ got' \in [Tasks -> Values \cup {NULL}]
<1> DEFINE direct == isdirect(c, s, r)
           o == IF r = NULL THEN off[c] ELSE nextoff(c)
           n == IF r = NULL THEN nbuf[c] ELSE nbuf[c] - 1
<1>1. /\ BufSize[c] \in Nat /\ \A d \in Channels : Ring(d)
      /\ DOMAIN buf = Channels
      /\ nbuf \in [Channels -> Nat] /\ off \in [Channels -> Nat]
      /\ got \in [Tasks -> Values \cup {NULL}]
  BY ChannelAssumption DEF TypeOK, Ring
<1>2. nextoff(c) \in Nat /\ (BufSize[c] > 0 => nextoff(c) < BufSize[c])
  BY <1>1 DEF nextoff, Ring
<1>3. s # NULL => element(s) \in Values
  BY ChannelAssumption DEF element, Alt
<1>4. CASE direct
  <2>1. UNCHANGED bufVars /\ s # NULL /\ r # NULL
    BY <1>4 DEF altcopy, isdirect
  <2>2. \A d \in Channels : Ring(d)'
    BY <1>1, <2>1 DEF Ring, bufVars
  <2>3. got' \in [Tasks -> Values \cup {NULL}]
    BY <1>1, <1>3, <1>4, <2>1 DEF altcopy
  <2> QED BY <1>1, <2>1, <2>2, <2>3 DEF bufVars
<1>5. CASE ~direct
  <2>1. /\ off' = [off EXCEPT ![c] = o]
        /\ nbuf' = [nbuf EXCEPT ![c] = IF s = NULL THEN n ELSE n + 1]
        /\ buf' = IF s = NULL THEN buf
                  ELSE [buf EXCEPT ![c][(o + n) % BufSize[c]] = element(s)]
    BY <1>5 DEF altcopy
  <2>2. r # NULL => nbuf[c] > 0
    BY <1>1, <1>5 DEF isdirect, Ring
  <2>3. n \in Nat /\ o \in Nat /\ BufSize[c] > 0 /\ o < BufSize[c]
    BY <1>1, <1>2, <2>2 DEF Ring
  <2>4. (o + n) % BufSize[c] \in 0 .. BufSize[c] - 1
    BY <1>1, <2>3
  <2>5. /\ nbuf' \in [Channels -> Nat] /\ off' \in [Channels -> Nat]
        /\ nbuf' = [nbuf EXCEPT ![c] = IF r = NULL THEN nbuf[c] + 1
                                       ELSE IF s = NULL THEN nbuf[c] - 1 ELSE nbuf[c]]
    <3>1. nbuf[c] \in Nat /\ nbuf[c] + 1 \in Nat /\ (n + 1) \in Nat
      BY <1>1, <2>3
    <3>2. r # NULL => n + 1 = nbuf[c]
      BY <3>1
    <3>3. (IF s = NULL THEN n ELSE n + 1)
            = IF r = NULL THEN nbuf[c] + 1 ELSE IF s = NULL THEN nbuf[c] - 1 ELSE nbuf[c]
      BY <3>2
    <3>4. (IF s = NULL THEN n ELSE n + 1) \in Nat
      BY <3>1, <2>3
    <3> HIDE DEF n, o
    <3> QED BY <1>1, <2>1, <2>3, <3>3, <3>4
  <2>6. \A d \in Channels : Ring(d)'
    <3> SUFFICES ASSUME NEW d \in Channels PROVE Ring(d)'
      OBVIOUS
    <3>1. nbuf'[d] <= BufSize[d] /\ (off'[d] < BufSize[d] \/ off'[d] = 0)
      BY <1>1, <2>1, <2>2, <2>3, <2>5 DEF Ring
    <3>2. buf'[d] \in [0 .. BufSize[d] - 1 -> Values \cup {NULL}]
      BY <1>1, <1>3, <2>1, <2>4 DEF Ring, TypeOK
    <3> QED BY <2>5, <3>1, <3>2 DEF Ring
  <2>7. got' \in [Tasks -> Values \cup {NULL}]
    <3>1. r # NULL => buf[c][off[c]] \in Values \cup {NULL}
      BY <1>1, <2>3 DEF Ring
    <3> QED BY <1>1, <1>5, <3>1 DEF altcopy
  <2>8. /\ r = NULL => nbuf' = [nbuf EXCEPT ![c] = nbuf[c] + 1]
        /\ s = NULL => nbuf' = [nbuf EXCEPT ![c] = nbuf[c] - 1]
        /\ s # NULL /\ r # NULL => nbuf' = nbuf
    BY <1>1, <2>5
  <2>9. DOMAIN buf' = Channels
    BY <1>1, <2>1
  <2> QED BY <2>5, <2>6, <2>7, <2>8, <2>9
<1> QED BY <1>4, <1>5

-----------------------------------------------------------------------------

LEMMA InitIInv == Init => IInv
<1> SUFFICES ASSUME Init PROVE IInv
  OBVIOUS
<1>1. Cardinality(Tasks) \in Nat
  BY ChannelAssumption, FS_CardinalityType
<1>2. taskrunqueue \in Seq(Tasks)
  <2>1. taskrunqueue \in [1 .. Cardinality(Tasks) -> Tasks]
    BY DEF Init
  <2> QED BY <1>1, <2>1, IsASeq
<1>3. CoreTypeOK /\ RunqueueExact
  BY <1>2, NullAssumption DEF Init, CoreTypeOK, States, RunqueueExact
<1>4. \A c \in Channels : [k \in 0 .. BufSize[c] - 1 |-> NULL]
                            \in [0 .. BufSize[c] - 1 -> Values \cup {NULL}]
  OBVIOUS
<1>5. TypeOK
  <2>1. \A c \in Channels : Ring(c)
    BY <1>4, ChannelAssumption DEF Init, Ring
  <2>2. nbuf \in [Channels -> Nat] /\ off \in [Channels -> Nat]
    BY DEF Init
  <2>3. asend \in [Channels -> SUBSET Entries] /\ arecv \in [Channels -> SUBSET Entries]
    BY DEF Init
  <2>4. a \in [Tasks -> Arrays \cup {<< >>}]
    BY DEF Init
  <2>5. xalt \in [Tasks -> Nat] /\ ret \in [Tasks -> Int]
    BY DEF Init
  <2>6. /\ got \in [Tasks -> Values \cup {NULL}] /\ DOMAIN buf = Channels
        /\ live \subseteq Channels /\ aborted \in BOOLEAN
    BY DEF Init
  <2> QED BY <1>3, <2>1, <2>2, <2>3, <2>4, <2>5, <2>6 DEF TypeOK, Ring
<1>6. EntriesExact
  <2>1. \A c, op : \A e : e \notin Listed(c, op)
    BY ListedMeaning DEF Init, Waits
  <2>2. \A c \in Channels : asend[c] = {} /\ arecv[c] = {}
    BY DEF Init
  <2> QED BY <2>1, <2>2 DEF EntriesExact
<1>7. NoneExits /\ NeverAborts /\ NoMissedMatch
  BY DEF Init, NoneExits, NeverAborts, NoMissedMatch
<1> QED BY <1>3, <1>5, <1>6, <1>7 DEF IInv

\* A channel is made.
LEMMA ChancreateKeeps ==
  ASSUME IInv, NEW t \in Tasks, NEW c \in Channels, chancreate(t, c)
  PROVE  IInv'
<1> USE DEF IInv
<1>1. /\ c \notin live /\ live' = live \cup {c}
      /\ nbuf' = [nbuf EXCEPT ![c] = 0]
      /\ off' = [off EXCEPT ![c] = 0]
      /\ buf' = [buf EXCEPT ![c] = [k \in 0 .. BufSize[c] - 1 |-> NULL]]
      /\ asend' = [asend EXCEPT ![c] = {}] /\ arecv' = [arecv EXCEPT ![c] = {}]
      /\ UNCHANGED <<taskrunqueue, state, taskrunning, a, xalt, ret, got, aborted>>
  BY DEF chancreate, coreVars, callVars
<1>2. asend[c] = {} /\ arecv[c] = {}
  BY <1>1 DEF EntriesExact
<1>3. asend' = asend /\ arecv' = arecv
  BY <1>1, <1>2 DEF TypeOK
<1>4. CoreTypeOK' /\ RunqueueExact' /\ NoneExits' /\ NeverAborts'
  BY <1>1 DEF TypeOK, CoreTypeOK, RunqueueExact, NoneExits, NeverAborts
<1>5. TypeOK'
  <2>1. \A d \in Channels \ {c} : Ring(d)'
    BY <1>1 DEF TypeOK, Ring
  <2>3. nbuf'[c] = 0 /\ off'[c] = 0 /\ BufSize[c] \in Nat
    BY <1>1, ChannelAssumption DEF TypeOK
  <2>4. buf'[c] \in [0 .. BufSize[c] - 1 -> Values \cup {NULL}]
    BY <1>1 DEF TypeOK
  <2>5. Ring(c)'
    BY <2>3, <2>4 DEF Ring
  <2>2. nbuf' \in [Channels -> Nat] /\ off' \in [Channels -> Nat]
    BY <1>1 DEF TypeOK
  <2> QED BY <1>1, <1>3, <1>4, <2>1, <2>2, <2>5 DEF TypeOK, Ring
<1>6. EntriesExact'
  BY <1>1, <1>3, SameEntries DEF Waits, waitVars
<1>7. NoMissedMatch'
  BY <1>1, <1>2, <1>3 DEF NoMissedMatch, TypeOK
<1> QED BY <1>4, <1>5, <1>6, <1>7

\* A channel nobody waits on is freed.
LEMMA ChanfreeKeeps ==
  ASSUME IInv, NEW t \in Tasks, NEW c \in Channels, chanfree(t, c)
  PROVE  IInv'
<1> USE DEF IInv
<1>1. /\ live' = live \ {c} /\ asend[c] = {} /\ arecv[c] = {}
      /\ UNCHANGED <<taskrunqueue, state, taskrunning, nbuf, off, buf, asend, arecv,
                     a, xalt, ret, got, aborted>>
  BY DEF chanfree, coreVars, bufVars, waitVars, callVars
<1>2. CoreTypeOK' /\ RunqueueExact' /\ NoneExits' /\ NeverAborts'
  BY <1>1 DEF TypeOK, CoreTypeOK, RunqueueExact, NoneExits, NeverAborts
<1>3. TypeOK' /\ NoMissedMatch'
  BY <1>1, <1>2 DEF TypeOK, NoMissedMatch
<1>4. \A u \in Tasks : Waits(u)' <=> Waits(u)
  BY <1>1 DEF Waits
<1>5. EntriesExact'
  <2>1. \A d, op : \A e : e \in Listed(d, op)' <=> e \in Listed(d, op)
    BY <1>1, <1>4, ListedMeaning
  <2>2. \A d \in Channels : /\ asend[d] = Listed(d, CHANSND) /\ arecv[d] = Listed(d, CHANRCV)
                            /\ d \notin live' => asend[d] \cup arecv[d] = {}
    BY <1>1 DEF EntriesExact
  <2>3. \A d, op : Listed(d, op)' = Listed(d, op)
    BY <2>1
  <2> QED BY <1>1, <2>2, <2>3 DEF EntriesExact
<1> QED BY <1>2, <1>3, <1>5

\* The rest of chanalt after its switch.
LEMMA ChanaltReturnsKeeps ==
  ASSUME IInv, NEW t \in Tasks, chanaltReturns(t)
  PROVE  IInv'
<1> USE DEF IInv
<1>1. /\ taskrunning = t
      /\ ret' = [ret EXCEPT ![t] = xalt[t]]
      /\ a' = [a EXCEPT ![t] = << >>]
      /\ xalt' = [xalt EXCEPT ![t] = 0]
      /\ UNCHANGED <<taskrunqueue, state, taskrunning, live, nbuf, off, buf,
                     asend, arecv, got, aborted>>
  BY DEF chanaltReturns, coreVars, bufVars, waitVars
<1>2. CoreTypeOK' /\ RunqueueExact' /\ NoneExits' /\ NeverAborts'
  BY <1>1 DEF TypeOK, CoreTypeOK, RunqueueExact, NoneExits, NeverAborts
<1>3. TypeOK' /\ NoMissedMatch'
  BY <1>1, <1>2 DEF TypeOK, NoMissedMatch
<1>4. /\ \A u \in Tasks : Waits(u)' <=> Waits(u)
      /\ \A u \in Tasks : Waits(u) => a'[u] = a[u]
  BY <1>1 DEF Waits, TypeOK
<1>5. EntriesExact'
  BY <1>1, <1>4, SameEntries DEF waitVars
<1> QED BY <1>2, <1>3, <1>5

\* A task gives up the CPU and stays ready.
LEMMA TaskyieldKeeps ==
  ASSUME IInv, NEW t \in Tasks, taskyield(t)
  PROVE  IInv'
<1> USE DEF IInv
<1>1. /\ taskrunning = t /\ a[t] = << >> /\ taskready(t) /\ taskrunning' = NULL
      /\ ret' = [ret EXCEPT ![t] = 0] /\ got' = [got EXCEPT ![t] = NULL]
      /\ UNCHANGED <<live, nbuf, off, buf, asend, arecv, a, xalt, aborted>>
  BY DEF taskyield, Runs, taskswitch, bufVars, waitVars
<1>2. /\ taskrunqueue' \in Seq(Tasks)
      /\ state' = [state EXCEPT ![t] = "ready"]
      /\ state' \in [Tasks -> States]
      /\ IsInjective(taskrunqueue')
      /\ Range(taskrunqueue') = {u \in Tasks : state'[u] = "ready"}
  BY <1>1, TaskreadyKeeps DEF TypeOK
<1>3. CoreTypeOK' /\ RunqueueExact'
  BY <1>1, <1>2 DEF CoreTypeOK, RunqueueExact
<1>4. NoneExits' /\ NeverAborts'
  BY <1>1, <1>2 DEF NoneExits, NeverAborts, TypeOK, CoreTypeOK
<1>5. TypeOK' /\ NoMissedMatch'
  BY <1>1, <1>3 DEF TypeOK, NoMissedMatch
<1>6. /\ \A u \in Tasks : Waits(u)' <=> Waits(u)
      /\ \A u \in Tasks : Waits(u) => a'[u] = a[u]
  BY <1>1, <1>2, NullAssumption DEF Waits, TypeOK, CoreTypeOK
<1>7. EntriesExact'
  BY <1>1, <1>6, SameEntries DEF waitVars
<1> QED BY <1>3, <1>4, <1>5, <1>7

\* A round of the scheduler.
LEMMA SchedulerKeeps ==
  ASSUME IInv, scheduler
  PROVE  IInv'
<1> USE DEF IInv
<1>1. /\ schedule /\ taskrunning = NULL
      /\ UNCHANGED <<live, nbuf, off, buf, asend, arecv, a, xalt, ret, got, aborted>>
  BY DEF scheduler, schedule, bufVars, waitVars, callVars
<1>2. /\ CoreTypeOK' /\ RunqueueExact'
      /\ taskrunning' \in Tasks
      /\ state[taskrunning'] = "ready"
      /\ state' = [state EXCEPT ![taskrunning'] = "none"]
  BY <1>1, ScheduleKeeps DEF TypeOK
<1>3. NoneExits' /\ NeverAborts'
  BY <1>1, <1>2 DEF NoneExits, NeverAborts, TypeOK, CoreTypeOK
<1>4. TypeOK' /\ NoMissedMatch'
  BY <1>1, <1>2 DEF TypeOK, NoMissedMatch
<1>5. /\ \A u \in Tasks : Waits(u)' <=> Waits(u)
      /\ \A u \in Tasks : Waits(u) => a'[u] = a[u]
  BY <1>1, <1>2, NullAssumption DEF Waits, TypeOK, CoreTypeOK
<1>6. EntriesExact'
  BY <1>1, <1>5, SameEntries DEF waitVars
<1> QED BY <1>2, <1>3, <1>4, <1>6

\* The running task has its entries on no channel.
LEMMA RunningSleepsNot ==
  ASSUME NEW t \in Tasks, Runs(t)
  PROVE  ~Waits(t) /\ a[t] = << >> /\ taskrunning = t /\ t # NULL
BY NullAssumption DEF Runs, Waits

\* chanalt can do nothing and goes to sleep with its entries on the channels.
LEMMA BlockKeeps ==
  ASSUME IInv, NEW t \in Tasks, NEW s \in Arrays, Runs(t),
         \A i \in DOMAIN s : s[i].op # CHANNOP => s[i].c \in live,
         \A i \in DOMAIN s : ~altcanexec(s[i]),
         asend' = [c \in Channels |-> asend[c] \cup entries(t, s, c, CHANSND)],
         arecv' = [c \in Channels |-> arecv[c] \cup entries(t, s, c, CHANRCV)],
         a' = [a EXCEPT ![t] = s],
         xalt' = [xalt EXCEPT ![t] = 1],
         ret' = [ret EXCEPT ![t] = 0],
         got' = [got EXCEPT ![t] = NULL],
         taskrunning' = NULL,
         UNCHANGED <<taskrunqueue, state, live, nbuf, off, buf, aborted>>
  PROVE  /\ IInv'
         /\ Waits(t)'
         /\ \A u \in Tasks \ {t} : (Waits(u)' <=> Waits(u)) /\ a'[u] = a[u]
<1> USE DEF IInv
<1>1. ~Waits(t) /\ a[t] = << >> /\ taskrunning = t /\ t # NULL
  BY RunningSleepsNot
<1>2. state[t] = "none"
  BY <1>1 DEF TypeOK, CoreTypeOK, States, RunqueueExact, NoneExits
<1>3. /\ \A u \in Tasks \ {t} : (Waits(u)' <=> Waits(u)) /\ a'[u] = a[u]
      /\ Waits(t)' /\ a'[t] = s
  BY <1>1, <1>2, NullAssumption, ArrayAlt DEF Waits, TypeOK
<1>4. CoreTypeOK' /\ RunqueueExact' /\ NoneExits' /\ NeverAborts'
  BY DEF TypeOK, CoreTypeOK, RunqueueExact, NoneExits, NeverAborts
<1>5. \A c \in Channels : \A op : entries(t, s, c, op) \subseteq Entries
  BY ArrayAlt DEF entries, Entries
<1>6. TypeOK'
  <2>1. asend' \in [Channels -> SUBSET Entries] /\ arecv' \in [Channels -> SUBSET Entries]
    BY <1>5 DEF TypeOK
  <2>2. xalt' \in [Tasks -> Nat] /\ ret' \in [Tasks -> Int]
    BY DEF TypeOK
  <2>3. a' \in [Tasks -> Arrays \cup {<< >>}] /\ got' \in [Tasks -> Values \cup {NULL}]
    BY DEF TypeOK
  <2> QED BY <1>4, <2>1, <2>2, <2>3 DEF TypeOK
<1>7. EntriesExact'
  <2> SUFFICES ASSUME NEW c \in Channels
               PROVE  /\ asend'[c] = Listed(c, CHANSND)'
                      /\ arecv'[c] = Listed(c, CHANRCV)'
                      /\ c \notin live => asend'[c] \cup arecv'[c] = {}
    BY DEF EntriesExact
  <2>1. \A op : Listed(c, op)' = Listed(c, op) \cup entries(t, s, c, op)
    <3> TAKE op
    <3>1. \A u \in Tasks \ {t} : entries(u, a'[u], c, op) = entries(u, a[u], c, op)
      BY <1>3
    <3>2. \A e : e \in Listed(c, op)' <=> e \in Listed(c, op) \/ e \in entries(t, s, c, op)
      BY <1>1, <1>3, <3>1, ListedMeaning
    <3> QED BY <3>2
  <2>2. c \notin live => entries(t, s, c, CHANSND) \cup entries(t, s, c, CHANRCV) = {}
    <3>1. c \notin live => \A i \in DOMAIN s : s[i].c = c => s[i].op = CHANNOP
      OBVIOUS
    <3> QED BY <3>1 DEF entries, CHANSND, CHANRCV, CHANNOP
  <2>3. /\ asend[c] = Listed(c, CHANSND) /\ arecv[c] = Listed(c, CHANRCV)
        /\ c \notin live => asend[c] \cup arecv[c] = {}
    BY DEF EntriesExact
  <2>4. /\ asend'[c] = asend[c] \cup entries(t, s, c, CHANSND)
        /\ arecv'[c] = arecv[c] \cup entries(t, s, c, CHANRCV)
    OBVIOUS
  <2> QED BY <2>1, <2>2, <2>3, <2>4
<1>8. NoMissedMatch'
  <2> SUFFICES ASSUME NEW c \in Channels
               PROVE  /\ arecv'[c] # {} => nbuf[c] = 0
                      /\ asend'[c] # {} => nbuf[c] = BufSize[c]
                      /\ \A e \in asend'[c], f \in arecv'[c] : e[1] = f[1]
    BY DEF NoMissedMatch
  <2>1. Ring(c) /\ BufSize[c] \in Nat
    BY ChannelAssumption DEF TypeOK, Ring
  <2>2. entries(t, s, c, CHANSND) # {} =>
          nbuf[c] = BufSize[c] /\ (BufSize[c] = 0 => arecv[c] = {})
    <3> SUFFICES ASSUME NEW i \in DOMAIN s, s[i].c = c, s[i].op = CHANSND
                 PROVE  nbuf[c] = BufSize[c] /\ (BufSize[c] = 0 => arecv[c] = {})
      BY DEF entries
    <3>1. ~altcanexec(s[i])
      OBVIOUS
    <3> QED BY <2>1, <3>1 DEF altcanexec, Ring, chanarray, otherop, CHANSND, CHANRCV, CHANNOP
  <2>3. entries(t, s, c, CHANRCV) # {} =>
          nbuf[c] = 0 /\ (BufSize[c] = 0 => asend[c] = {})
    <3> SUFFICES ASSUME NEW i \in DOMAIN s, s[i].c = c, s[i].op = CHANRCV
                 PROVE  nbuf[c] = 0 /\ (BufSize[c] = 0 => asend[c] = {})
      BY DEF entries
    <3>1. ~altcanexec(s[i])
      OBVIOUS
    <3> QED BY <2>1, <3>1 DEF altcanexec, Ring, chanarray, otherop, CHANSND, CHANRCV, CHANNOP
  <2>4. /\ arecv[c] # {} => nbuf[c] = 0
        /\ asend[c] # {} => nbuf[c] = BufSize[c]
        /\ \A e \in asend[c], f \in arecv[c] : e[1] = f[1]
    BY DEF NoMissedMatch
  <2>5. /\ asend'[c] = asend[c] \cup entries(t, s, c, CHANSND)
        /\ arecv'[c] = arecv[c] \cup entries(t, s, c, CHANRCV)
    OBVIOUS
  <2>6. \A op : \A e \in entries(t, s, c, op) : e[1] = t
    BY DEF entries
  <2>7. ASSUME NEW e \in asend'[c], NEW f \in arecv'[c] PROVE e[1] = f[1]
    <3>1. nbuf[c] = 0 /\ BufSize[c] = 0
      BY <2>2, <2>3, <2>4, <2>5, <2>7
    <3> QED BY <2>2, <2>3, <2>4, <2>5, <2>6, <2>7, <3>1
  <2> QED BY <2>2, <2>3, <2>4, <2>5, <2>7
<1> QED BY <1>3, <1>4, <1>6, <1>7, <1>8

\* chanalt executes an alternative on its own, in the ring.
LEMMA AloneKeeps ==
  ASSUME IInv, NEW t \in Tasks, NEW x \in Alt, Runs(t), altcanexec(x),
         NEW i \in Int,
         chanarray(x.c, otherop(x.op)) = {},
         IF x.op = CHANSND THEN altcopy(x.c, x, NULL, NULL) ELSE altcopy(x.c, NULL, x, t),
         ret' = [ret EXCEPT ![t] = i],
         UNCHANGED <<taskrunqueue, state, taskrunning, live, asend, arecv, a, xalt, aborted>>
  PROVE  /\ IInv'
         /\ \A u \in Tasks : (Waits(u)' <=> Waits(u)) /\ a'[u] = a[u]
         /\ BufSize[x.c] > 0
         /\ x.op = CHANSND => nbuf[x.c] < BufSize[x.c]
         /\ x.op = CHANRCV => nbuf[x.c] > 0
<1> DEFINE c == x.c
<1> USE DEF IInv
<1>1. /\ c \in Channels /\ x # NULL /\ x \in Alt \cup {NULL} /\ NULL \in Alt \cup {NULL}
      /\ x.op \in {CHANSND, CHANRCV}
  BY ChannelAssumption DEF Alt, altcanexec
<1>2. Ring(c) /\ BufSize[c] \in Nat
  BY <1>1, ChannelAssumption DEF TypeOK, Ring
<1>3. /\ BufSize[c] > 0
      /\ x.op = CHANSND => nbuf[c] < BufSize[c] /\ arecv[c] = {}
      /\ x.op = CHANRCV => nbuf[c] > 0 /\ asend[c] = {}
  BY <1>1, <1>2 DEF altcanexec, Ring, chanarray, otherop, CHANSND, CHANRCV
<1>4. \A u \in Tasks : (Waits(u)' <=> Waits(u)) /\ a'[u] = a[u]
  BY DEF Waits
<1>5. CoreTypeOK' /\ RunqueueExact' /\ NoneExits' /\ NeverAborts'
  BY DEF TypeOK, CoreTypeOK, RunqueueExact, NoneExits, NeverAborts
<1>6. /\ nbuf' \in [Channels -> Nat] /\ off' \in [Channels -> Nat]
      /\ DOMAIN buf' = Channels
      /\ \A d \in Channels : Ring(d)'
      /\ got' \in [Tasks -> Values \cup {NULL}]
      /\ \A d \in Channels \ {c} : nbuf'[d] = nbuf[d]
  <2>1. CASE x.op = CHANSND
    <3>1. altcopy(c, x, NULL, NULL)
      BY <2>1
    <3>2. TypeOK /\ nbuf[c] < BufSize[c] /\ x # NULL
      BY <1>1, <1>3, <2>1
    <3> HIDE DEF c, IInv
    <3>3. /\ nbuf' = [nbuf EXCEPT ![c] = nbuf[c] + 1]
          /\ nbuf' \in [Channels -> Nat] /\ off' \in [Channels -> Nat]
          /\ DOMAIN buf' = Channels
          /\ \A d \in Channels : Ring(d)'
          /\ got' \in [Tasks -> Values \cup {NULL}]
      BY <1>1, <3>1, <3>2, AltcopyKeeps
    <3> QED BY <3>2, <3>3 DEF TypeOK
  <2>2. CASE x.op = CHANRCV
    <3>1. altcopy(c, NULL, x, t)
      BY <2>2 DEF CHANSND, CHANRCV
    <3>2. TypeOK /\ nbuf[c] > 0 /\ x # NULL
      BY <1>1, <1>3, <2>2
    <3> HIDE DEF c, IInv
    <3>4. NULL \in Alt \cup {NULL} /\ t \in Tasks /\ c \in Channels
      BY <1>1
    <3>3. /\ nbuf' = [nbuf EXCEPT ![c] = nbuf[c] - 1]
          /\ nbuf' \in [Channels -> Nat] /\ off' \in [Channels -> Nat]
          /\ DOMAIN buf' = Channels
          /\ \A d \in Channels : Ring(d)'
          /\ got' \in [Tasks -> Values \cup {NULL}]
      BY <1>1, <3>1, <3>2, AltcopyKeeps
    <3> QED BY <3>2, <3>3 DEF TypeOK
  <2> QED BY <1>1, <2>1, <2>2
<1>7. TypeOK'
  BY <1>5, <1>6 DEF TypeOK, Ring
<1>8. EntriesExact'
  BY <1>4, SameEntries DEF waitVars
<1>9. asend[c] = {} /\ arecv[c] = {}
  BY <1>1, <1>2, <1>3 DEF NoMissedMatch, Ring
<1>10. NoMissedMatch'
  BY <1>6, <1>9 DEF NoMissedMatch
<1> QED BY <1>3, <1>4, <1>5, <1>7, <1>8, <1>10

\* A task that waits for the other side of x, and its alternative.
LEMMA PartnerIs ==
  ASSUME TypeOK, EntriesExact, NEW x \in Alt, x.op # CHANNOP,
         NEW e \in chanarray(x.c, otherop(x.op))
  PROVE  /\ e = <<e[1], e[2]>> /\ e[1] \in Tasks /\ Waits(e[1])
         /\ e[2] \in DOMAIN a[e[1]] /\ e[2] \in Nat /\ a[e[1]] \in Arrays
         /\ a[e[1]][e[2]] \in Alt /\ a[e[1]][e[2]] # NULL
         /\ a[e[1]][e[2]].c = x.c /\ a[e[1]][e[2]].op = otherop(x.op)
<1> DEFINE c == x.c
           y == a[e[1]][e[2]]
<1>1. c \in Channels /\ x.op \in {CHANSND, CHANRCV}
  BY DEF Alt
<1> HIDE DEF c
<1>2. /\ x.op = CHANSND => e \in arecv[c]
      /\ x.op = CHANRCV => e \in asend[c]
  BY <1>1 DEF chanarray, otherop, CHANSND, CHANRCV, c
<1>3. /\ e = <<e[1], e[2]>> /\ e[1] \in Tasks /\ Waits(e[1])
      /\ e[2] \in DOMAIN a[e[1]] /\ a[e[1]] \in Arrays /\ y.c = c
  BY <1>1, <1>2, EntryMeaning
<1>4. y \in Alt /\ y # NULL /\ e[2] \in Nat
  BY <1>3, ArrayAlt
<1>5. y.op = otherop(x.op)
  <2>1. CASE x.op = CHANSND
    BY <1>1, <1>2, <1>3, <2>1, EntryMeaning DEF otherop
  <2>2. CASE x.op = CHANRCV
    BY <1>1, <1>2, <1>3, <2>2, EntryMeaning DEF otherop, CHANSND, CHANRCV
  <2> QED BY <1>1, <2>1, <2>2
<1> QED BY <1>3, <1>4, <1>5 DEF c

\* chanalt executes an alternative with a task that sleeps for it.
LEMMA PartnerKeeps ==
  ASSUME IInv, NEW t \in Tasks, NEW x \in Alt, Runs(t), x.op # CHANNOP, NEW i \in Int,
         NEW e \in chanarray(x.c, otherop(x.op)),
         NEW u, u = e[1], NEW y, y = a[u][e[2]],
         IF x.op = CHANSND THEN altcopy(x.c, x, y, u) ELSE altcopy(x.c, y, x, t),
         altalldequeue(u), taskready(u),
         xalt' = [xalt EXCEPT ![u] = e[2]],
         ret' = [ret EXCEPT ![t] = i],
         UNCHANGED <<taskrunning, live, a>>
  PROVE  /\ IInv'
         /\ u \in Tasks /\ u # t /\ ~Waits(u)'
         /\ \A w \in Tasks \ {u} : Waits(w)' <=> Waits(w)
         /\ x.op = CHANSND => nbuf[x.c] = 0
         /\ x.op = CHANRCV => nbuf[x.c] = BufSize[x.c]
<1> DEFINE c == x.c
<1>1. /\ TypeOK /\ RunqueueExact /\ NoneExits /\ NeverAborts /\ EntriesExact
      /\ NoMissedMatch
  BY DEF IInv
<1>2. /\ c \in Channels /\ x # NULL /\ x.op \in {CHANSND, CHANRCV}
      /\ x \in Alt \cup {NULL}
  BY ChannelAssumption DEF Alt
<1> HIDE DEF c
<1>3. /\ x.op = CHANSND => e \in arecv[c]
      /\ x.op = CHANRCV => e \in asend[c]
  BY <1>2 DEF chanarray, otherop, CHANSND, CHANRCV, c
<1>4. /\ e = <<u, e[2]>> /\ u \in Tasks /\ Waits(u)
      /\ e[2] \in DOMAIN a[u] /\ a[u] \in Arrays /\ y.c = c
  BY <1>1, PartnerIs DEF c
<1>5. /\ y \in Alt /\ y # NULL /\ y \in Alt \cup {NULL} /\ e[2] \in Nat
      /\ y.op = otherop(x.op)
  BY <1>1, PartnerIs
<1>7. /\ x.op = CHANSND => nbuf[c] = 0
      /\ x.op = CHANRCV => nbuf[c] = BufSize[c]
  BY <1>1, <1>2, <1>3 DEF NoMissedMatch
<1>8. ~Waits(t) /\ taskrunning = t /\ t # NULL /\ u # t
  BY <1>4, RunningSleepsNot
<1>9. /\ taskrunqueue' \in Seq(Tasks)
      /\ state' = [state EXCEPT ![u] = "ready"]
      /\ state' \in [Tasks -> States]
      /\ IsInjective(taskrunqueue')
      /\ Range(taskrunqueue') = {w \in Tasks : state'[w] = "ready"}
  BY <1>1, <1>4, TaskreadyKeeps DEF TypeOK
<1>10. CoreTypeOK' /\ RunqueueExact' /\ NoneExits'
  BY <1>1, <1>4, <1>8, <1>9 DEF TypeOK, CoreTypeOK, RunqueueExact, NoneExits
<1>11. /\ ~Waits(u)' /\ \A w \in Tasks \ {u} : Waits(w)' <=> Waits(w)
  BY <1>1, <1>4, <1>9 DEF Waits, TypeOK, CoreTypeOK
<1>12. NeverAborts'
  <2> SUFFICES ASSUME NEW j \in DOMAIN a[u], a[u][j].op # CHANNOP
               PROVE  queued(u, j)
    BY DEF altalldequeue, NeverAborts
  <2>1. a[u][j].c \in Channels /\ a[u][j].op \in {CHANSND, CHANRCV}
    BY <1>4, ArrayAlt
  <2> QED BY <1>1, <1>4, <2>1, EntryMeaning DEF queued, chanarray, CHANSND, CHANRCV
<1>13. /\ nbuf' = nbuf /\ off' \in [Channels -> Nat] /\ DOMAIN buf' = Channels
       /\ \A d \in Channels : Ring(d)'
       /\ got' \in [Tasks -> Values \cup {NULL}]
  <2>1. CASE x.op = CHANSND
    <3>1. altcopy(c, x, y, u)
      BY <2>1 DEF c
    <3> QED BY <1>1, <1>2, <1>5, <3>1, AltcopyKeeps
  <2>2. CASE x.op = CHANRCV
    <3>1. altcopy(c, y, x, t)
      BY <2>2 DEF CHANSND, CHANRCV, c
    <3> QED BY <1>1, <1>2, <1>5, <3>1, AltcopyKeeps
  <2> QED BY <1>2, <2>1, <2>2
<1>14. /\ asend' = [d \in Channels |-> asend[d] \ entries(u, a[u], d, CHANSND)]
       /\ arecv' = [d \in Channels |-> arecv[d] \ entries(u, a[u], d, CHANRCV)]
       /\ aborted' \in BOOLEAN
  BY DEF altalldequeue
<1>15. TypeOK'
  <2>1. asend' \in [Channels -> SUBSET Entries] /\ arecv' \in [Channels -> SUBSET Entries]
    BY <1>1, <1>14 DEF TypeOK
  <2>2. xalt' \in [Tasks -> Nat] /\ ret' \in [Tasks -> Int]
    BY <1>1, <1>5 DEF TypeOK
  <2>3. nbuf' \in [Channels -> Nat] /\ live' \subseteq Channels
        /\ a' \in [Tasks -> Arrays \cup {<< >>}]
    BY <1>1, <1>13 DEF TypeOK
  <2> QED BY <1>10, <1>13, <1>14, <2>1, <2>2, <2>3 DEF TypeOK, Ring
<1>16. EntriesExact'
  <2> SUFFICES ASSUME NEW d \in Channels
               PROVE  /\ asend'[d] = Listed(d, CHANSND)'
                      /\ arecv'[d] = Listed(d, CHANRCV)'
                      /\ d \notin live => asend'[d] \cup arecv'[d] = {}
    BY DEF EntriesExact
  <2>1. \A op : Listed(d, op)' = Listed(d, op) \ entries(u, a[u], d, op)
    <3> TAKE op
    <3>1. \A w \in Tasks : w # u => entries(w, a[w], d, op) \cap entries(u, a[u], d, op) = {}
      BY DEF entries
    <3>2. \A f : f \in Listed(d, op)' <=> \E w \in Tasks : Waits(w)' /\ f \in entries(w, a[w], d, op)
      BY ListedMeaning
    <3>3. \A f : f \in Listed(d, op)' <=> f \in Listed(d, op) /\ f \notin entries(u, a[u], d, op)
      BY <1>4, <1>11, <3>1, <3>2, ListedMeaning
    <3> QED BY <3>3
  <2>2. /\ asend[d] = Listed(d, CHANSND) /\ arecv[d] = Listed(d, CHANRCV)
        /\ d \notin live => asend[d] \cup arecv[d] = {}
    BY <1>1 DEF EntriesExact
  <2>3. /\ asend'[d] = asend[d] \ entries(u, a[u], d, CHANSND)
        /\ arecv'[d] = arecv[d] \ entries(u, a[u], d, CHANRCV)
    BY <1>14
  <2> QED BY <2>1, <2>2, <2>3
<1>17. NoMissedMatch'
  <2>1. \A d \in Channels : asend'[d] \subseteq asend[d] /\ arecv'[d] \subseteq arecv[d]
    BY <1>14
  <2> QED BY <1>1, <1>13, <2>1 DEF NoMissedMatch
<1> QED BY <1>4, <1>5, <1>7, <1>8, <1>10, <1>11, <1>12, <1>15, <1>16, <1>17 DEF IInv, c

\* Any step of chanalt.
LEMMA ChanaltKeeps ==
  ASSUME IInv, NEW t \in Tasks, NEW s \in Arrays, NEW canblock \in BOOLEAN,
         chanalt(t, s, canblock)
  PROVE  IInv'
<1> DEFINE can == {i \in DOMAIN s : altcanexec(s[i])}
<1>1. /\ Runs(t) /\ UNCHANGED live
      /\ \A i \in DOMAIN s : s[i].op # CHANNOP => s[i].c \in live
  BY DEF chanalt
<1>2. CASE \E i \in can : altexec(t, s, i)
  <2>1. PICK i \in can : altexec(t, s, i)
    BY <1>2
  <2>2. /\ s[i] \in Alt /\ altcanexec(s[i]) /\ i \in Int /\ s[i].op # CHANNOP
    BY <2>1, ArrayAlt DEF altcanexec
  <2>3. ret' = [ret EXCEPT ![t] = i] /\ UNCHANGED <<taskrunning, live, a>>
    BY <1>1, <2>1 DEF altexec
  <2>4. \/ /\ chanarray(s[i].c, otherop(s[i].op)) = {}
           /\ IF s[i].op = CHANSND THEN altcopy(s[i].c, s[i], NULL, NULL)
                                   ELSE altcopy(s[i].c, NULL, s[i], t)
           /\ UNCHANGED <<asend, arecv, xalt, taskrunqueue, state, aborted>>
        \/ \E e \in chanarray(s[i].c, otherop(s[i].op)) :
              /\ IF s[i].op = CHANSND THEN altcopy(s[i].c, s[i], a[e[1]][e[2]], e[1])
                                      ELSE altcopy(s[i].c, a[e[1]][e[2]], s[i], t)
              /\ altalldequeue(e[1])
              /\ xalt' = [xalt EXCEPT ![e[1]] = e[2]]
              /\ taskready(e[1])
    BY <2>1 DEF altexec, waitVars
  <2>5. CASE chanarray(s[i].c, otherop(s[i].op)) = {}
    BY <1>1, <2>2, <2>3, <2>4, <2>5, AloneKeeps
  <2>6. ASSUME NEW e \in chanarray(s[i].c, otherop(s[i].op)),
               IF s[i].op = CHANSND THEN altcopy(s[i].c, s[i], a[e[1]][e[2]], e[1])
                                    ELSE altcopy(s[i].c, a[e[1]][e[2]], s[i], t),
               altalldequeue(e[1]), xalt' = [xalt EXCEPT ![e[1]] = e[2]], taskready(e[1])
        PROVE  IInv'
    BY <1>1, <2>2, <2>3, <2>6, PartnerKeeps
  <2> QED BY <2>4, <2>5, <2>6
<1>3. CASE can = {} /\ ~canblock /\ ~(\E i \in can : altexec(t, s, i))
  <2>1. /\ ret' = [ret EXCEPT ![t] = -1] /\ got' = [got EXCEPT ![t] = NULL]
        /\ UNCHANGED <<taskrunqueue, state, taskrunning, live, nbuf, off, buf,
                       asend, arecv, a, xalt, aborted>>
    BY <1>1, <1>3 DEF chanalt, coreVars, bufVars, waitVars
  <2>2. CoreTypeOK' /\ RunqueueExact' /\ NoneExits' /\ NeverAborts'
    BY <2>1 DEF IInv, TypeOK, CoreTypeOK, RunqueueExact, NoneExits, NeverAborts
  <2>3. ret' \in [Tasks -> Int] /\ got' \in [Tasks -> Values \cup {NULL}]
    BY <2>1 DEF IInv, TypeOK
  <2>4. TypeOK' /\ NoMissedMatch'
    BY <2>1, <2>2, <2>3 DEF IInv, TypeOK, NoMissedMatch
  <2>5. EntriesExact'
    BY <2>1, SameEntries DEF IInv, Waits, waitVars
  <2> QED BY <2>2, <2>4, <2>5 DEF IInv
<1>4. CASE can = {} /\ canblock /\ ~(\E i \in can : altexec(t, s, i))
  <2>1. /\ asend' = [c \in Channels |-> asend[c] \cup entries(t, s, c, CHANSND)]
        /\ arecv' = [c \in Channels |-> arecv[c] \cup entries(t, s, c, CHANRCV)]
        /\ a' = [a EXCEPT ![t] = s]
        /\ xalt' = [xalt EXCEPT ![t] = 1]
        /\ ret' = [ret EXCEPT ![t] = 0]
        /\ got' = [got EXCEPT ![t] = NULL]
        /\ taskrunning' = NULL
        /\ UNCHANGED <<taskrunqueue, state, live, nbuf, off, buf, aborted>>
    BY <1>1, <1>4 DEF chanalt, bufVars, taskswitch
  <2>2. \A i \in DOMAIN s : ~altcanexec(s[i])
    BY <1>4
  <2> QED BY <1>1, <2>1, <2>2, BlockKeeps
<1> QED BY <1>2, <1>3, <1>4 DEF chanalt

-----------------------------------------------------------------------------

LEMMA StepIInv == IInv /\ [Next]_vars => IInv'
<1> SUFFICES ASSUME IInv, [Next]_vars PROVE IInv'
  OBVIOUS
<1>1. CASE scheduler
  BY <1>1, SchedulerKeeps
<1>2. ASSUME NEW t \in Tasks, NEW s \in Arrays, NEW canblock \in BOOLEAN,
             chanalt(t, s, canblock)
      PROVE  IInv'
  BY <1>2, ChanaltKeeps
<1>3. ASSUME NEW t \in Tasks, chanaltReturns(t) PROVE IInv'
  BY <1>3, ChanaltReturnsKeeps
<1>4. ASSUME NEW t \in Tasks, NEW c \in Channels, chancreate(t, c) PROVE IInv'
  BY <1>4, ChancreateKeeps
<1>5. ASSUME NEW t \in Tasks, NEW c \in Channels, chanfree(t, c) PROVE IInv'
  BY <1>5, ChanfreeKeeps
<1>6. ASSUME NEW t \in Tasks, taskyield(t) PROVE IInv'
  BY <1>6, TaskyieldKeeps
<1>7. CASE UNCHANGED vars
  <2>1. UNCHANGED <<taskrunqueue, state, taskrunning, live, nbuf, off, buf,
                    asend, arecv, a, xalt, ret, got, aborted>>
    BY <1>7 DEF vars, coreVars, bufVars, waitVars, callVars
  <2>2. CoreTypeOK' /\ RunqueueExact' /\ NoneExits' /\ NeverAborts'
    BY <2>1 DEF IInv, TypeOK, CoreTypeOK, RunqueueExact, NoneExits, NeverAborts
  <2>3. TypeOK' /\ NoMissedMatch'
    BY <2>1, <2>2 DEF IInv, TypeOK, NoMissedMatch
  <2>4. EntriesExact'
    BY <2>1, SameEntries DEF IInv, Waits, waitVars
  <2> QED BY <2>2, <2>3, <2>4 DEF IInv
<1> QED BY <1>1, <1>2, <1>3, <1>4, <1>5, <1>6, <1>7 DEF Next, TaskStep

\* The inductive invariant holds in every behaviour.
THEOREM Invariance == Spec => []IInv
BY InitIInv, StepIInv, PTL DEF Spec

\* The variables keep their types.
THEOREM TypeCorrect == Spec => []TypeOK
<1>1. IInv => TypeOK BY DEF IInv
<1> QED BY Invariance, <1>1, PTL

\* The waiting entries are those of the sleeping tasks, on live channels.
THEOREM EntriesAreExact == Spec => []EntriesExact
<1>1. IInv => EntriesExact BY DEF IInv
<1> QED BY Invariance, <1>1, PTL

\* Nobody sleeps for what could happen.
THEOREM NothingMissed == Spec => []NoMissedMatch
<1>1. IInv => NoMissedMatch BY DEF IInv
<1> QED BY Invariance, <1>1, PTL

\* altdequeue finds every entry it looks for.
THEOREM AbortFree == Spec => []NeverAborts
<1>1. IInv => NeverAborts BY DEF IInv
<1> QED BY Invariance, <1>1, PTL

\* The run queue and the _state flags agree under every call of channel.c.
THEOREM RunqueueKept == Spec => []RunqueueExact
<1>1. IInv => RunqueueExact BY DEF IInv
<1> QED BY Invariance, <1>1, PTL

-----------------------------------------------------------------------------

Elements == Values \cup {NULL}

\* The place k places after o in a ring of size B.
After(o, k, B) == IF o + k < B THEN o + k ELSE o + k - B

LEMMA Wrap ==
  ASSUME NEW B \in Nat \ {0}, NEW x \in 0 .. 2 * B - 1
  PROVE  x % B = IF x < B THEN x ELSE x - B
OBVIOUS

LEMMA WrapAfter ==
  ASSUME NEW B \in Nat \ {0}, NEW o \in 0 .. B - 1, NEW k \in 0 .. B
  PROVE  (o + k) % B = After(o, k, B) /\ After(o, k, B) \in 0 .. B - 1
<1>1. o + k \in 0 .. 2 * B - 1
  OBVIOUS
<1>2. \A x \in 0 .. 2 * B - 1 : x % B = IF x < B THEN x ELSE x - B
  BY Wrap
<1> QED BY <1>1, <1>2 DEF After

Put(b, p, x) == [b EXCEPT ![p] = x]

\* The elements of a ring, by place.
LEMMA LineAt ==
  ASSUME NEW B \in Nat, NEW n \in 0 .. B, NEW o \in Nat, o < B \/ o = 0,
         NEW b \in [0 .. B - 1 -> Elements]
  PROVE  /\ Line(b, o, n, B) \in [1 .. n -> Elements]
         /\ \A k \in 1 .. n : Line(b, o, n, B)[k] = b[After(o, k - 1, B)]
         /\ \A k \in 0 .. n - 1 : Line(b, o, n, B)[k + 1] = b[After(o, k, B)]
         /\ Line(b, o, n, B) \in Seq(Elements)
         /\ Len(Line(b, o, n, B)) = n
         /\ Line(b, o, n, B) = << >> <=> n = 0
<1>1. ASSUME NEW k \in 1 .. n
      PROVE  (o + k - 1) % B = After(o, k - 1, B) /\ After(o, k - 1, B) \in 0 .. B - 1
  <2>1. B \in Nat \ {0} /\ o \in 0 .. B - 1 /\ k - 1 \in 0 .. B
    OBVIOUS
  <2>2. (o + (k - 1)) % B = After(o, k - 1, B) /\ After(o, k - 1, B) \in 0 .. B - 1
    BY <2>1, WrapAfter
  <2>3. o + (k - 1) = o + k - 1
    OBVIOUS
  <2> QED BY <2>2, <2>3
<1>2. \A k \in 1 .. n : Line(b, o, n, B)[k] = b[After(o, k - 1, B)]
  BY <1>1 DEF Line
<1>3. Line(b, o, n, B) \in [1 .. n -> Elements]
  BY <1>1 DEF Line
<1>4. Line(b, o, n, B) \in Seq(Elements)
  BY <1>3, IsASeq
<1>5. Len(Line(b, o, n, B)) = n
  BY <1>3, <1>4
<1>6. Line(b, o, n, B) = << >> <=> n = 0
  BY <1>4, <1>5, EmptySeq
<1>7. ASSUME NEW k \in 0 .. n - 1 PROVE Line(b, o, n, B)[k + 1] = b[After(o, k, B)]
  <2>1. /\ k + 1 \in 1 .. n /\ o + (k + 1) - 1 = o + k
        /\ B \in Nat \ {0} /\ o \in 0 .. B - 1 /\ k \in 0 .. B
    OBVIOUS
  <2>2. (o + k) % B = After(o, k, B)
    BY <2>1, WrapAfter
  <2> QED BY <2>1, <2>2 DEF Line
<1> QED BY <1>2, <1>3, <1>4, <1>5, <1>6, <1>7

\* A ring b of B places with n elements from place o.
RingIs(B, o, n, b) ==
  /\ B \in Nat \ {0} /\ o \in 0 .. B - 1 /\ n \in 0 .. B
  /\ b \in [0 .. B - 1 -> Elements]

Place(o, B) == IF o + 1 = B THEN 0 ELSE o + 1

Adds(n, m) == n \in Nat /\ m = n + 1

\* Putting an element behind the others.
LEMMA LineAdd ==
  ASSUME NEW B, NEW o, NEW n, NEW b, NEW m, NEW x,
         RingIs(B, o, n, b), RingIs(B, o, m, b), x \in Elements, Adds(n, m)
  PROVE  Line(Put(b, After(o, n, B), x), o, m, B) = Append(Line(b, o, n, B), x)
<1> DEFINE p == After(o, n, B)
           L == Line(b, o, n, B)
           M == Line(Put(b, p, x), o, m, B)
<1>0. /\ B \in Nat \ {0} /\ o \in 0 .. B - 1 /\ n \in 0 .. B - 1 /\ m = n + 1 /\ m \in 0 .. B
      /\ b \in [0 .. B - 1 -> Elements]
  BY DEF RingIs, Adds
<1>1. p \in 0 .. B - 1
  BY <1>0 DEF After
<1>2. ASSUME NEW k \in 1 .. n
      PROVE  After(o, k - 1, B) \in 0 .. B - 1 /\ After(o, k - 1, B) # p
  BY <1>0 DEF After
<1> HIDE DEF p
<1>7. Put(b, p, x) \in [0 .. B - 1 -> Elements]
  BY <1>0 DEF Put
<1>8. /\ M \in [1 .. m -> Elements]
      /\ \A k \in 1 .. m : M[k] = Put(b, p, x)[After(o, k - 1, B)]
  BY <1>0, <1>7, LineAt
<1>9. /\ L \in Seq(Elements) /\ Len(L) = n /\ L \in [1 .. n -> Elements]
      /\ \A k \in 1 .. n : L[k] = b[After(o, k - 1, B)]
  BY <1>0, LineAt
<1>3. ASSUME NEW k \in 1 .. m
      PROVE  M[k] = IF k = m THEN x ELSE L[k]
  <2> HIDE DEF L, M
  <2>1. M[k] = [b EXCEPT ![p] = x][After(o, k - 1, B)]
    BY <1>8 DEF Put
  <2>2. CASE k = m
    <3>1. After(o, k - 1, B) = p
      BY <1>0, <2>2 DEF p
    <3> QED BY <1>0, <1>1, <2>1, <2>2, <3>1
  <2>3. CASE k # m
    <3>1. k \in 1 .. n
      BY <1>0, <2>3
    <3> QED BY <1>0, <1>1, <1>2, <1>9, <2>1, <2>3, <3>1
  <2> QED BY <2>2, <2>3
<1> HIDE DEF L, M
<1>4. M = [k \in 1 .. m |-> M[k]]
  BY <1>8
<1>5. L = [k \in 1 .. n |-> L[k]]
  BY <1>9
<1>6. Append(L, x) = [k \in 1 .. m |-> IF k = m THEN x ELSE L[k]]
  BY <1>0, <1>5, <1>9
<1> QED BY <1>3, <1>4, <1>6 DEF p, L, M

\* Taking the first element.
LEMMA LineTake ==
  ASSUME NEW B, NEW o, NEW n, NEW b, NEW m, NEW r,
         RingIs(B, o, n, b), Adds(m, n), r = Place(o, B)
  PROVE  /\ Line(b, r, m, B) = Tail(Line(b, o, n, B))
         /\ Head(Line(b, o, n, B)) = b[o]
         /\ Len(Line(b, o, n, B)) # 0
         /\ Line(b, o, n, B) \in Seq(Elements)
         /\ RingIs(B, r, m, b)
<1> DEFINE L == Line(b, o, n, B)
           M == Line(b, r, m, B)
<1>0. /\ B \in Nat \ {0} /\ o \in 0 .. B - 1 /\ n \in 1 .. B /\ m = n - 1 /\ m \in 0 .. B
      /\ b \in [0 .. B - 1 -> Elements] /\ r \in 0 .. B - 1
  BY DEF RingIs, Adds, Place
<1>1. /\ L \in Seq(Elements) /\ Len(L) = n /\ n # 0 /\ L # << >> /\ L \in [1 .. n -> Elements]
      /\ \A k \in 0 .. n - 1 : L[k + 1] = b[After(o, k, B)]
  BY <1>0, LineAt
<1>7. /\ M \in [1 .. n - 1 -> Elements]
      /\ \A k \in 1 .. n - 1 : M[k] = b[After(r, k - 1, B)]
  BY <1>0, LineAt
<1>2. ASSUME NEW k \in 1 .. n - 1
      PROVE  After(r, k - 1, B) = After(o, k, B)
  BY <1>0 DEF After, Place
<1>3. Tail(L) = [k \in 1 .. n - 1 |-> L[k + 1]]
  <2> HIDE DEF L
  <2>1. L = [k \in 1 .. n |-> L[k]]
    BY <1>1
  <2> QED BY <1>0, <1>1, <2>1
<1>4. \A k \in 1 .. n - 1 : L[k + 1] = b[After(o, k, B)]
  BY <1>0, <1>1
<1>5. M = Tail(L)
  <2>1. \A k \in 1 .. n - 1 : M[k] = L[k + 1]
    <3> HIDE DEF L, M
    <3> QED BY <1>2, <1>4, <1>7
  <2> HIDE DEF L, M
  <2>2. M = [k \in 1 .. n - 1 |-> M[k]]
    BY <1>7
  <2> QED BY <1>3, <2>1, <2>2
<1>6. Head(L) = b[o]
  <2>1. Head(L) = L[1]
    BY <1>1
  <2>2. After(o, 0, B) = o /\ 0 \in 0 .. n - 1 /\ 0 + 1 = 1
    BY <1>0 DEF After
  <2> QED BY <1>1, <2>1, <2>2
<1>8. RingIs(B, r, m, b)
  BY <1>0 DEF RingIs
<1> QED BY <1>1, <1>5, <1>6, <1>8

LEMMA LineHead ==
  ASSUME NEW B, NEW o, NEW n, NEW b, RingIs(B, o, n, b), n # 0
  PROVE  Head(Line(b, o, n, B)) = b[o]
<1> DEFINE m == n - 1
           r == Place(o, B)
<1>1. Adds(m, n) /\ r = Place(o, B)
  BY DEF RingIs, Adds
<1> HIDE DEF m, r
<1> QED BY <1>1, LineTake

\* Taking the first element, then putting one behind the others.
LEMMA LineTakeAdd ==
  ASSUME NEW B, NEW o, NEW n, NEW b, NEW m, NEW r, NEW x,
         RingIs(B, o, n, b), Adds(m, n), r = Place(o, B), x \in Elements
  PROVE  /\ Line(Put(b, After(r, m, B), x), r, n, B) = Tail(Append(Line(b, o, n, B), x))
         /\ Head(Append(Line(b, o, n, B), x)) = b[o]
<1> DEFINE L == Line(b, o, n, B)
<1>1. /\ Line(b, r, m, B) = Tail(L) /\ Head(L) = b[o]
      /\ Len(L) # 0 /\ L \in Seq(Elements) /\ RingIs(B, r, m, b)
  <2>1. RingIs(B, r, m, b)
    BY LineTake
  <2>2. L \in Seq(Elements)
    BY LineTake
  <2>4. Head(L) = b[o]
    BY LineTake
  <2>5. Line(b, r, m, B) = Tail(L)
    BY LineTake
  <2>3. Len(L) # 0
    <3>1. /\ B \in Nat \ {0} /\ o \in 0 .. B - 1 /\ n \in 0 .. B /\ n # 0
          /\ b \in [0 .. B - 1 -> Elements]
      BY DEF RingIs, Adds
    <3> QED BY <3>1, LineAt
  <2> QED BY <2>1, <2>2, <2>3, <2>4, <2>5
<1>2. RingIs(B, r, n, b)
  BY <1>1 DEF RingIs
<1>3. Line(Put(b, After(r, m, B), x), r, n, B) = Append(Line(b, r, m, B), x)
  BY <1>1, <1>2, LineAdd
<1> HIDE DEF L
<1>4. Append(Tail(L), x) = Tail(Append(L, x)) /\ Head(Append(L, x)) = Head(L)
  BY <1>1
<1> QED BY <1>1, <1>3, <1>4 DEF L

\* What Queues is, before and after a step.
LEMMA QueueMeaning ==
  ASSUME TypeOK, NEW c \in Channels
  PROVE  /\ Queues[c] = IF c \in live THEN Line(buf[c], off[c], nbuf[c], BufSize[c]) ELSE << >>
         /\ Queues[c] \in Seq(Elements)
         /\ c \in live => Len(Queues[c]) = nbuf[c] /\ (Queues[c] = << >> <=> nbuf[c] = 0)
<1>1. /\ BufSize[c] \in Nat /\ nbuf[c] \in 0 .. BufSize[c] /\ off[c] \in Nat
      /\ off[c] < BufSize[c] \/ off[c] = 0
      /\ buf[c] \in [0 .. BufSize[c] - 1 -> Elements]
  BY ChannelAssumption DEF TypeOK, Elements
<1> DEFINE L == Line(buf[c], off[c], nbuf[c], BufSize[c])
<1>2. L \in Seq(Elements) /\ Len(L) = nbuf[c] /\ (L = << >> <=> nbuf[c] = 0)
  BY <1>1, LineAt
<1>3. Queues[c] = IF c \in live THEN L ELSE << >>
  BY DEF Queues
<1> HIDE DEF L
<1>4. << >> \in Seq(Elements)
  OBVIOUS
<1> QED BY <1>2, <1>3, <1>4 DEF L

LEMMA QueueMeaningAfter ==
  /\ Queues' = [c \in Channels |->
       IF c \in live' THEN Line(buf'[c], off'[c], nbuf'[c], BufSize[c]) ELSE << >>]
  /\ Queues = [c \in Channels |-> Queues[c]]
BY DEF Queues, Line

\* The queue of the channel that altcopy is called for, and its other effects.
LEMMA AltcopyQueue ==
  ASSUME TypeOK, NEW c \in live, NEW s \in Alt \cup {NULL}, NEW r \in Alt \cup {NULL},
         NEW to, altcopy(c, s, r, to), live' = live,
         s # NULL \/ r # NULL,
         s # NULL /\ r = NULL => nbuf[c] < BufSize[c],
         s = NULL /\ r # NULL => nbuf[c] > 0
  PROVE  /\ r = NULL => Queues'[c] = Append(Queues[c], element(s))
         /\ s = NULL => /\ Queues'[c] = Tail(Queues[c])
                        /\ buf[c][off[c]] = Head(Queues[c])
         /\ s # NULL /\ r # NULL =>
              /\ Queues'[c] = Tail(Append(Queues[c], element(s)))
              /\ (IF isdirect(c, s, r) THEN element(s) ELSE buf[c][off[c]])
                   = Head(Append(Queues[c], element(s)))
<1> DEFINE B == BufSize[c]
           b == buf[c]
           o == off[c]
           n == nbuf[c]
           e == element(s)
<1>1. /\ c \in Channels /\ B \in Nat /\ n \in 0 .. B /\ o \in Nat /\ (o < B \/ o = 0)
      /\ b \in [0 .. B - 1 -> Elements] /\ DOMAIN buf = Channels
      /\ nbuf \in [Channels -> Nat] /\ off \in [Channels -> Nat]
  BY ChannelAssumption DEF TypeOK, Elements
<1>2. s # NULL => e \in Elements
  BY ChannelAssumption DEF element, Alt, Elements
<1>3. /\ Queues[c] = Line(b, o, n, B) /\ Queues[c] \in Seq(Elements)
      /\ Len(Queues[c]) = n
      /\ Queues'[c] = Line(buf'[c], off'[c], nbuf'[c], B)
  BY <1>1, QueueMeaning, QueueMeaningAfter
<1>4. CASE isdirect(c, s, r)
  <2>1. UNCHANGED <<nbuf, off, buf>> /\ n = 0 /\ s # NULL /\ r # NULL
    BY <1>4 DEF altcopy, bufVars, isdirect
  <2> HIDE DEF b, o, n, B, e
  <2>2. Queues'[c] = Queues[c] /\ Queues[c] = << >>
    BY <1>3, <2>1, EmptySeq DEF b, o, n
  <2>3. Tail(Append(<< >>, e)) = << >> /\ Head(Append(<< >>, e)) = e
    BY <1>2, <2>1
  <2> QED BY <1>4, <2>1, <2>2, <2>3 DEF e
<1>5. CASE ~isdirect(c, s, r)
  <2> DEFINE p == Place(o, B)
  <2>1. B \in Nat \ {0} /\ RingIs(B, o, n, b)
    BY <1>1, <1>5 DEF RingIs, isdirect
  <2>2. ASSUME r = NULL
        PROVE  Queues'[c] = Append(Queues[c], e)
    <3>1. /\ off' = [off EXCEPT ![c] = o]
          /\ nbuf' = [nbuf EXCEPT ![c] = n + 1]
          /\ buf' = [buf EXCEPT ![c] = Put(b, (o + n) % B, e)]
      BY <1>5, <2>2 DEF altcopy, Put
    <3>2. off'[c] = o /\ nbuf'[c] = n + 1 /\ buf'[c] = Put(b, (o + n) % B, e)
      BY <1>1, <3>1
    <3>3. (o + n) % B = After(o, n, B)
      <4>1. B \in Nat \ {0} /\ o \in 0 .. B - 1 /\ n \in 0 .. B
        BY <1>1, <2>1 DEF RingIs
      <4> HIDE DEF b, o, n, B, e
      <4> QED BY <4>1, WrapAfter
    <3>4. RingIs(B, o, n + 1, b) /\ Adds(n, n + 1)
      BY <1>1, <2>1, <2>2 DEF RingIs, Adds
    <3>5. e \in Elements
      BY <1>2, <2>2
    <3> DEFINE m == nbuf'[c]
    <3>6. RingIs(B, o, m, b) /\ Adds(n, m)
      BY <3>2, <3>4
    <3> HIDE DEF b, o, n, B, e, m
    <3>7. Line(Put(b, After(o, n, B), e), o, m, B) = Append(Line(b, o, n, B), e)
      BY <2>1, <3>5, <3>6, LineAdd
    <3> QED BY <1>3, <3>2, <3>3, <3>7 DEF m
  <2>3. ASSUME r # NULL
        PROVE  /\ p = nextoff(c) /\ off'[c] = p
               /\ (s = NULL => nbuf'[c] = n - 1 /\ buf' = buf)
               /\ (s # NULL => /\ nbuf'[c] = n
                               /\ buf'[c] = Put(b, After(p, n - 1, B), e))
               /\ Adds(n - 1, n)
    <3>1. /\ off' = [off EXCEPT ![c] = nextoff(c)]
          /\ nbuf' = [nbuf EXCEPT ![c] = IF s = NULL THEN n - 1 ELSE n - 1 + 1]
          /\ buf' = IF s = NULL THEN buf
                    ELSE [buf EXCEPT ![c] = Put(b, (nextoff(c) + (n - 1)) % B, e)]
      BY <1>5, <2>3 DEF altcopy, Put
    <3>2. p = nextoff(c)
      BY DEF nextoff, Place
    <3>3. n \in 1 .. B
      BY <1>1, <1>5, <2>3 DEF isdirect
    <3>4. p \in 0 .. B - 1
      BY <1>1, <2>1 DEF Place, RingIs
    <3>5. (p + (n - 1)) % B = After(p, n - 1, B)
      <4>1. n - 1 \in 0 .. B
        BY <1>1, <3>3
      <4>2. B \in Nat \ {0}
        BY <2>1
      <4> DEFINE m == n - 1
      <4> HIDE DEF b, o, n, B, e, m, p
      <4>3. m \in 0 .. B
        BY <4>1 DEF m
      <4>4. (p + m) % B = After(p, m, B)
        BY <3>4, <4>2, <4>3, WrapAfter
      <4> QED BY <4>4 DEF m
    <3>6. n - 1 + 1 = n /\ Adds(n - 1, n)
      BY <3>3 DEF Adds
    <3>7. off'[c] = p /\ nbuf'[c] = IF s = NULL THEN n - 1 ELSE n
      BY <1>1, <3>1, <3>2, <3>6
    <3>8. s # NULL => buf'[c] = Put(b, After(p, n - 1, B), e)
      BY <1>1, <3>1, <3>2, <3>5
    <3> QED BY <3>1, <3>2, <3>6, <3>7, <3>8
  <2>4. ASSUME s = NULL
        PROVE  Queues'[c] = Tail(Queues[c]) /\ b[o] = Head(Queues[c])
    <3> DEFINE m == nbuf'[c]
    <3>1. off'[c] = p /\ m = n - 1 /\ buf'[c] = b /\ Adds(m, n)
      BY <2>3, <2>4
    <3> HIDE DEF b, o, n, B, e, m
    <3>2. p = Place(o, B)
      OBVIOUS
    <3> HIDE DEF p
    <3>3. Line(b, p, m, B) = Tail(Line(b, o, n, B))
      BY <2>1, <3>1, <3>2, LineTake
    <3>4. Head(Line(b, o, n, B)) = b[o]
      <4>1. n # 0
        BY <3>1 DEF Adds
      <4> QED BY <2>1, <4>1, LineHead
    <3> QED BY <1>3, <3>1, <3>3, <3>4 DEF m
  <2>5. ASSUME s # NULL, r # NULL
        PROVE  Queues'[c] = Tail(Append(Queues[c], e)) /\ b[o] = Head(Append(Queues[c], e))
    <3> DEFINE m == n - 1
    <3>1. off'[c] = p /\ nbuf'[c] = n /\ buf'[c] = Put(b, After(p, m, B), e) /\ Adds(m, n)
      BY <2>3, <2>5
    <3>2. e \in Elements /\ p = Place(o, B)
      BY <1>2, <2>5
    <3> HIDE DEF b, o, n, B, e, m, p
    <3>3. Line(Put(b, After(p, m, B), e), p, n, B) = Tail(Append(Line(b, o, n, B), e))
      BY <2>1, <3>1, <3>2, LineTakeAdd
    <3>4. Head(Append(Line(b, o, n, B), e)) = b[o]
      BY <2>1, <3>1, <3>2, <3>3, LineTakeAdd
    <3> QED BY <1>3, <3>1, <3>3, <3>4
  <2>6. r = NULL => s # NULL
    OBVIOUS
  <2> QED BY <1>5, <2>2, <2>4, <2>5
<1> QED BY <1>4, <1>5

\* No other queue is touched.
LEMMA AltcopyOthers ==
  ASSUME TypeOK, NEW c \in Channels, NEW s, NEW r, NEW to, altcopy(c, s, r, to), live' = live,
         NEW d \in Channels, d # c
  PROVE  Queues'[d] = Queues[d]
<1>1. nbuf'[d] = nbuf[d] /\ off'[d] = off[d] /\ buf'[d] = buf[d]
  BY DEF altcopy, bufVars, TypeOK
<1>2. Queues[d] = IF d \in live THEN Line(buf[d], off[d], nbuf[d], BufSize[d]) ELSE << >>
  BY DEF Queues
<1> QED BY <1>1, <1>2, QueueMeaningAfter

-----------------------------------------------------------------------------

\* A task that sleeps in chanalt has received nothing yet.
Quiet == \A t \in Tasks : Waits(t) => ret[t] = 0 /\ got[t] = NULL

\* What the mapping makes of a task, before and after a step.
LEMMA PendingMeaning ==
  /\ \A t \in Tasks : Pending[t] = IF Waits(t) THEN a[t] ELSE << >>
  /\ Pending' = [t \in Tasks |-> IF Waits(t)' THEN a'[t] ELSE << >>]
BY DEF Pending

Index(t) == IF Waits(t) \/ a[t] = << >> THEN ret[t] ELSE xalt[t]

LEMMA OutcomeMeaning ==
  /\ Outcomes = [t \in Tasks |-> [index |-> Index(t), value |-> got[t]]]
  /\ Outcomes' = [t \in Tasks |-> [index |-> Index(t)', value |-> got'[t]]]
BY DEF Outcomes, Index

\* Alternative j of a blocked task could meet x exactly if it is among the
\* entries that altexec looks at.
LEMMA MeetsMeaning ==
  ASSUME TypeOK, EntriesExact, NEW x \in Alt, x.op # CHANNOP, NEW u \in Tasks, NEW j
  PROVE  (j \in DOMAIN Pending[u] /\ Promise!Meets(u, j, x))
            <=> <<u, j>> \in chanarray(x.c, otherop(x.op))
<1>1. x.c \in Channels /\ x.op \in {CHANSND, CHANRCV}
  BY DEF Alt
<1>2. CASE Waits(u)
  <2>1. Pending[u] = a[u] /\ a[u] \in Arrays
    BY <1>2, PendingMeaning DEF Waits, TypeOK
  <2>2. j \in DOMAIN a[u] => a[u][j].op \in {CHANSND, CHANRCV, CHANNOP}
    BY <2>1, ArrayAlt
  <2>3. j \in DOMAIN a[u] =>
          (Promise!Meets(u, j, x) <=> a[u][j].c = x.c /\ a[u][j].op = otherop(x.op))
    BY <1>1, <2>1, <2>2 DEF Promise!Meets, otherop, CHANSND, CHANRCV, CHANNOP
  <2>4. CASE x.op = CHANSND
    <3>1. otherop(x.op) = CHANRCV /\ chanarray(x.c, otherop(x.op)) = arecv[x.c]
      BY <2>4 DEF otherop, chanarray, CHANSND, CHANRCV
    <3>2. <<u, j>> \in arecv[x.c] <=>
             j \in DOMAIN a[u] /\ a[u][j].c = x.c /\ a[u][j].op = CHANRCV
      BY <1>1, <1>2, EntryMeaning
    <3> QED BY <2>1, <2>3, <3>1, <3>2
  <2>5. CASE x.op = CHANRCV
    <3>1. otherop(x.op) = CHANSND /\ chanarray(x.c, otherop(x.op)) = asend[x.c]
      BY <2>5 DEF otherop, chanarray, CHANSND, CHANRCV
    <3>2. <<u, j>> \in asend[x.c] <=>
             j \in DOMAIN a[u] /\ a[u][j].c = x.c /\ a[u][j].op = CHANSND
      BY <1>1, <1>2, EntryMeaning
    <3> QED BY <2>1, <2>3, <3>1, <3>2
  <2> QED BY <1>1, <2>4, <2>5
<1>3. CASE ~Waits(u)
  <2>1. Pending[u] = << >>
    BY <1>3, PendingMeaning
  <2>2. DOMAIN << >> = {}
    OBVIOUS
  <2>3. <<u, j>> \notin asend[x.c] /\ <<u, j>> \notin arecv[x.c]
    BY <1>1, <1>3, EntryMeaning
  <2> QED BY <2>1, <2>2, <2>3 DEF chanarray
<1> QED BY <1>2, <1>3

LEMMA AloneMeaning ==
  ASSUME TypeOK, EntriesExact, NEW x \in Alt, x.op # CHANNOP
  PROVE  Promise!Alone(x) <=> chanarray(x.c, otherop(x.op)) = {}
<1>1. \A e \in chanarray(x.c, otherop(x.op)) : e = <<e[1], e[2]>> /\ e[1] \in Tasks
  <2>1. x.c \in Channels
    BY DEF Alt
  <2>2. \A e \in asend[x.c] \cup arecv[x.c] : e = <<e[1], e[2]>> /\ e[1] \in Tasks
    BY <2>1, EntryMeaning
  <2>3. chanarray(x.c, otherop(x.op)) \subseteq asend[x.c] \cup arecv[x.c]
    BY DEF chanarray
  <2> QED BY <2>2, <2>3
<1>2. \A u \in Tasks : \A j : (j \in DOMAIN Pending[u] /\ Promise!Meets(u, j, x))
                                <=> <<u, j>> \in chanarray(x.c, otherop(x.op))
  BY MeetsMeaning
<1>3. Promise!Alone(x) <=> \A u \in Tasks : \A j : <<u, j>> \notin chanarray(x.c, otherop(x.op))
  BY <1>2 DEF Promise!Alone
<1> HIDE DEF chanarray
<1> QED BY <1>1, <1>3

\* The mapping does not see a step that changes none of what it shows.
LEMMA SamePending ==
  ASSUME \A t \in Tasks : (Waits(t)' <=> Waits(t)),
         \A t \in Tasks : Waits(t) => a'[t] = a[t]
  PROVE  Pending' = Pending
BY DEF Pending

LEMMA SameQueues ==
  ASSUME UNCHANGED <<live, nbuf, off, buf>>
  PROVE  Queues' = Queues
BY DEF Queues, Line

\* The initial states are those of ChannelSpec.
LEMMA InitRefines == Init => Promise!SpecInit /\ Quiet
<1> SUFFICES ASSUME Init PROVE Promise!SpecInit /\ Quiet
  OBVIOUS
<1>1. \A t \in Tasks : ~Waits(t)
  BY DEF Init, Waits
<1>2. Queues = [c \in Channels |-> << >>]
  BY DEF Init, Queues
<1>3. Pending = [t \in Tasks |-> << >>]
  BY <1>1 DEF Pending
<1>4. Outcomes = [t \in Tasks |-> Promise!None]
  BY <1>1 DEF Outcomes, Init, Promise!None
<1> QED BY <1>1, <1>2, <1>3, <1>4 DEF Init, Promise!SpecInit, Quiet

\* A round of the scheduler and the rest of chanalt change nothing.
LEMMA SchedulerRefines ==
  ASSUME IInv, scheduler, Quiet
  PROVE  UNCHANGED <<live, Queues, Pending, Outcomes>> /\ Quiet'
<1>1. /\ schedule /\ taskrunning = NULL /\ TypeOK /\ RunqueueExact
      /\ UNCHANGED <<live, nbuf, off, buf, asend, arecv, a, xalt, ret, got, aborted>>
  BY DEF scheduler, schedule, bufVars, waitVars, callVars, IInv
<1>2. /\ taskrunning' \in Tasks
      /\ state[taskrunning'] = "ready"
      /\ state' = [state EXCEPT ![taskrunning'] = "none"]
  BY <1>1, ScheduleKeeps DEF TypeOK
<1>3. /\ \A u \in Tasks : Waits(u)' <=> Waits(u)
      /\ \A u \in Tasks : Waits(u) => a'[u] = a[u]
  BY <1>1, <1>2, NullAssumption DEF Waits, TypeOK, CoreTypeOK
<1>4. Outcomes' = Outcomes
  BY <1>1, <1>3 DEF Outcomes
<1> QED BY <1>1, <1>3, <1>4, SamePending, SameQueues DEF Quiet

LEMMA ChanaltReturnsRefines ==
  ASSUME IInv, NEW t \in Tasks, chanaltReturns(t), Quiet
  PROVE  UNCHANGED <<live, Queues, Pending, Outcomes>> /\ Quiet'
<1>1. /\ taskrunning = t /\ a[t] # << >> /\ TypeOK
      /\ ret' = [ret EXCEPT ![t] = xalt[t]]
      /\ a' = [a EXCEPT ![t] = << >>]
      /\ xalt' = [xalt EXCEPT ![t] = 0]
      /\ UNCHANGED <<taskrunqueue, state, taskrunning, live, nbuf, off, buf,
                     asend, arecv, got, aborted>>
  BY DEF chanaltReturns, coreVars, bufVars, waitVars, IInv
<1>2. /\ \A u \in Tasks : Waits(u)' <=> Waits(u)
      /\ \A u \in Tasks : u # t => a'[u] = a[u] /\ ret'[u] = ret[u] /\ xalt'[u] = xalt[u]
      /\ ~Waits(t) /\ a'[t] = << >> /\ ret'[t] = xalt[t]
  BY <1>1 DEF Waits, TypeOK
<1>3. \A u \in Tasks : Index(u)' = Index(u)
  BY <1>1, <1>2 DEF Index
<1>4. Outcomes' = Outcomes
  BY <1>1, <1>3, OutcomeMeaning
<1>5. Quiet'
  BY <1>1, <1>2 DEF Quiet
<1>6. Pending' = Pending
  BY <1>2, SamePending
<1> QED BY <1>1, <1>4, <1>5, <1>6, SameQueues


LEMMA TaskyieldRefines ==
  ASSUME IInv, NEW t \in Tasks, taskyield(t), Quiet
  PROVE  Promise!Forget(t) /\ Quiet'
<1>1. /\ taskrunning = t /\ a[t] = << >> /\ taskready(t) /\ taskrunning' = NULL /\ TypeOK
      /\ ret' = [ret EXCEPT ![t] = 0] /\ got' = [got EXCEPT ![t] = NULL]
      /\ UNCHANGED <<live, nbuf, off, buf, asend, arecv, a, xalt, aborted>>
  BY DEF taskyield, Runs, taskswitch, bufVars, waitVars, IInv
<1>2. state' = [state EXCEPT ![t] = "ready"]
  BY <1>1, TaskreadyKeeps DEF IInv, TypeOK
<1>3. /\ \A u \in Tasks : Waits(u)' <=> Waits(u)
      /\ \A u \in Tasks : Waits(u) => a'[u] = a[u]
  BY <1>1, <1>2, NullAssumption DEF Waits, TypeOK, CoreTypeOK
<1>4. /\ \A u \in Tasks \ {t} : Index(u)' = Index(u) /\ got'[u] = got[u]
      /\ Index(t)' = 0 /\ got'[t] = NULL /\ ~Waits(t)
  <2>1. ~Waits(t) /\ a'[t] = << >> /\ ret'[t] = 0 /\ got'[t] = NULL
    BY <1>1 DEF Waits, TypeOK
  <2>2. \A u \in Tasks \ {t} : ret'[u] = ret[u] /\ got'[u] = got[u]
    BY <1>1 DEF TypeOK
  <2> QED BY <1>1, <1>3, <2>1, <2>2 DEF Index
<1>5. Outcomes' = [Outcomes EXCEPT ![t] = Promise!None]
  BY <1>4, OutcomeMeaning DEF Promise!None
<1>6. Quiet'
  <2>1. \A u \in Tasks \ {t} : ret'[u] = ret[u] /\ got'[u] = got[u]
    BY <1>1 DEF TypeOK
  <2> QED BY <1>3, <1>4, <2>1 DEF Quiet
<1> QED BY <1>1, <1>3, <1>5, <1>6, SamePending, SameQueues DEF Promise!Forget

\* chancreate and chanfree open and close a queue.
LEMMA ChancreateRefines ==
  ASSUME IInv, NEW t \in Tasks, NEW c \in Channels, chancreate(t, c), Quiet
  PROVE  Promise!Open(c) /\ Quiet'
<1>1. /\ c \notin live /\ live' = live \cup {c} /\ TypeOK
      /\ nbuf' = [nbuf EXCEPT ![c] = 0]
      /\ off' = [off EXCEPT ![c] = 0]
      /\ buf' = [buf EXCEPT ![c] = [k \in 0 .. BufSize[c] - 1 |-> NULL]]
      /\ UNCHANGED <<taskrunqueue, state, taskrunning, a, xalt, ret, got, aborted>>
  BY DEF chancreate, coreVars, callVars, IInv
<1>2. \A u \in Tasks : (Waits(u)' <=> Waits(u)) /\ a'[u] = a[u]
  BY <1>1 DEF Waits
<1>3. Pending' = Pending /\ Outcomes' = Outcomes /\ Quiet'
  BY <1>1, <1>2, SamePending DEF Outcomes, Quiet
<1>4. Queues'[c] = << >> /\ Queues[c] = << >>
  <2> DEFINE b == buf'[c]
             B == BufSize[c]
  <2>1. /\ nbuf'[c] = 0 /\ off'[c] = 0 /\ B \in Nat
        /\ b \in [0 .. B - 1 -> Elements]
    BY <1>1, ChannelAssumption DEF TypeOK, Elements
  <2>2. Queues'[c] = Line(b, 0, 0, B)
    BY <1>1, <2>1, QueueMeaningAfter
  <2> HIDE DEF b, B
  <2>3. Line(b, 0, 0, B) = << >>
    BY <2>1, LineAt
  <2> QED BY <1>1, <2>2, <2>3 DEF Queues
<1>5. ASSUME NEW d \in Channels, d # c PROVE Queues'[d] = Queues[d]
  <2>1. nbuf'[d] = nbuf[d] /\ off'[d] = off[d] /\ buf'[d] = buf[d] /\ (d \in live' <=> d \in live)
    BY <1>1, <1>5 DEF TypeOK
  <2>2. Queues[d] = IF d \in live THEN Line(buf[d], off[d], nbuf[d], BufSize[d]) ELSE << >>
    BY DEF Queues
  <2> QED BY <2>1, <2>2, QueueMeaningAfter
<1>6. Queues' = Queues
  BY <1>4, <1>5, QueueMeaningAfter
<1> QED BY <1>1, <1>3, <1>6 DEF Promise!Open

LEMMA ChanfreeRefines ==
  ASSUME IInv, NEW t \in Tasks, NEW c \in Channels, chanfree(t, c), Quiet
  PROVE  Promise!Close(c) /\ Quiet'
<1>1. /\ c \in live /\ live' = live \ {c} /\ TypeOK /\ EntriesExact
      /\ asend[c] = {} /\ arecv[c] = {}
      /\ UNCHANGED <<taskrunqueue, state, taskrunning, nbuf, off, buf, asend, arecv,
                     a, xalt, ret, got, aborted>>
  BY DEF chanfree, coreVars, bufVars, waitVars, callVars, IInv
<1>2. \A u \in Tasks : (Waits(u)' <=> Waits(u)) /\ a'[u] = a[u]
  BY <1>1 DEF Waits
<1>3. Pending' = Pending /\ Outcomes' = Outcomes /\ Quiet'
  BY <1>1, <1>2, SamePending DEF Outcomes, Quiet
<1>4. Queues' = [Queues EXCEPT ![c] = << >>]
  <2>1. Queues'[c] = << >>
    BY <1>1, QueueMeaningAfter
  <2>2. \A d \in Channels : d # c => Queues'[d] = Queues[d]
    BY <1>1, QueueMeaningAfter DEF Queues
  <2> QED BY <2>1, <2>2, QueueMeaningAfter
<1>5. ASSUME NEW u \in Tasks, NEW i \in DOMAIN Pending[u], Pending[u][i].op # "nop"
      PROVE  Pending[u][i].c # c
  <2>1. Waits(u) /\ Pending[u] = a[u] /\ a[u] \in Arrays
    <3>1. DOMAIN << >> = {}
      OBVIOUS
    <3> QED BY <1>1, <3>1, PendingMeaning DEF Waits, TypeOK
  <2>2. a[u][i].op \in {CHANSND, CHANRCV}
    BY <1>5, <2>1, ArrayAlt DEF CHANNOP
  <2>3. <<u, i>> \notin asend[c] /\ <<u, i>> \notin arecv[c]
    BY <1>1
  <2>4. TypeOK /\ EntriesExact
    BY <1>1
  <2>5. <<u, i>> \in asend[c] <=>
             Waits(u) /\ i \in DOMAIN a[u] /\ a[u][i].c = c /\ a[u][i].op = CHANSND
    BY <2>4, EntryMeaning
  <2>6. <<u, i>> \in arecv[c] <=>
             Waits(u) /\ i \in DOMAIN a[u] /\ a[u][i].c = c /\ a[u][i].op = CHANRCV
    BY <2>4, EntryMeaning
  <2> QED BY <1>5, <2>1, <2>2, <2>3, <2>5, <2>6
<1> QED BY <1>1, <1>3, <1>4, <1>5 DEF Promise!Close

-----------------------------------------------------------------------------

LEMMA SentMeaning == \A x : Promise!Sent(x) = element(x)
BY DEF Promise!Sent, element

\* A call that executes x on its own is a Send or a Receive.
LEMMA AloneRefines ==
  ASSUME IInv, Quiet, NEW t \in Tasks, NEW x \in Alt, Runs(t), altcanexec(x), x.c \in live,
         NEW i \in Int,
         chanarray(x.c, otherop(x.op)) = {},
         IF x.op = CHANSND THEN altcopy(x.c, x, NULL, NULL) ELSE altcopy(x.c, NULL, x, t),
         ret' = [ret EXCEPT ![t] = i],
         UNCHANGED <<taskrunqueue, state, taskrunning, live, asend, arecv, a, xalt, aborted>>
  PROVE  (Promise!Send(t, i, x) \/ Promise!Receive(t, i, x)) /\ Quiet'
<1> DEFINE c == x.c
<1>1. /\ TypeOK /\ EntriesExact /\ c \in Channels /\ BufSize[c] \in Nat /\ nbuf[c] \in Nat
      /\ x # NULL /\ x \in Alt \cup {NULL} /\ NULL \in Alt \cup {NULL}
      /\ x.op \in {CHANSND, CHANRCV} /\ x.op # CHANNOP
      /\ c \in live
  BY ChannelAssumption DEF IInv, TypeOK, Alt, altcanexec
<1>2. /\ \A u \in Tasks : (Waits(u)' <=> Waits(u)) /\ a'[u] = a[u]
      /\ x.op = CHANSND => nbuf[c] < BufSize[c]
      /\ x.op = CHANRCV => nbuf[c] > 0
  BY AloneKeeps
<1>3. taskrunning = t /\ a[t] = << >> /\ ~Waits(t)
  BY RunningSleepsNot
<1>4. Pending' = Pending /\ Promise!Alone(x)
  BY <1>1, <1>2, SamePending, AloneMeaning
<1> HIDE DEF c
<1>5. /\ \A u \in Tasks \ {t} : Index(u)' = Index(u) /\ ret'[u] = ret[u]
      /\ Index(t)' = i
  BY <1>1, <1>2, <1>3 DEF Index, TypeOK
<1>6. Len(Queues[c]) = nbuf[c] /\ (Queues[c] = << >> <=> nbuf[c] = 0)
  BY <1>1, QueueMeaning
<1>7. CASE x.op = CHANSND
  <2>1. altcopy(c, x, NULL, NULL)
    BY <1>7 DEF c
  <2>2. \A u \in Tasks : got'[u] = IF u = t THEN NULL ELSE got[u]
    BY <1>3, <2>1 DEF altcopy
  <2>3. Queues'[c] = Append(Queues[c], element(x))
    BY <1>1, <1>2, <1>7, <2>1, AltcopyQueue
  <2>4. \A d \in Channels : d # c => Queues'[d] = Queues[d]
    BY <1>1, <2>1, AltcopyOthers
  <2>5. Queues' = [Queues EXCEPT ![c] = Append(@, Promise!Sent(x))]
    BY <1>1, <2>3, <2>4, QueueMeaningAfter, SentMeaning
  <2>6. Outcomes' = [Outcomes EXCEPT ![t] = [index |-> i, value |-> NULL]]
    BY <1>5, <2>2, OutcomeMeaning
  <2>7. Promise!Send(t, i, x)
    BY <1>1, <1>2, <1>4, <1>6, <1>7, <2>5, <2>6 DEF Promise!Send, CHANSND, c
  <2>8. Quiet'
    BY <1>2, <1>3, <1>5, <2>2 DEF Quiet
  <2> QED BY <2>7, <2>8
<1>8. CASE x.op = CHANRCV
  <2>1. altcopy(c, NULL, x, t)
    BY <1>8 DEF c, CHANSND, CHANRCV
  <2>2. \A u \in Tasks : u # t => got'[u] = got[u]
    BY <1>1, <1>3, <2>1 DEF altcopy
  <2>3. got'[t] = IF x.v = NULL THEN NULL ELSE buf[c][off[c]]
    BY <1>1, <2>1 DEF altcopy, isdirect
  <2>4. Queues'[c] = Tail(Queues[c]) /\ buf[c][off[c]] = Head(Queues[c])
    BY <1>1, <1>2, <1>8, <2>1, AltcopyQueue
  <2>5. \A d \in Channels : d # c => Queues'[d] = Queues[d]
    BY <1>1, <2>1, AltcopyOthers
  <2>6. Queues' = [Queues EXCEPT ![c] = Tail(@)]
    BY <1>1, <2>4, <2>5, QueueMeaningAfter
  <2>7. got'[t] = Promise!Into(x, Head(Queues[c]))
    BY <2>3, <2>4 DEF Promise!Into
  <2>8. Outcomes' = [Outcomes EXCEPT
                       ![t] = [index |-> i, value |-> Promise!Into(x, Head(Queues[c]))]]
    BY <1>5, <2>2, <2>7, OutcomeMeaning
  <2>9. Promise!Receive(t, i, x)
    BY <1>1, <1>2, <1>4, <1>6, <1>8, <2>6, <2>8 DEF Promise!Receive, CHANRCV, c
  <2>10. Quiet'
    BY <1>2, <1>3, <1>5, <2>2 DEF Quiet
  <2> QED BY <2>9, <2>10
<1> QED BY <1>1, <1>7, <1>8

\* A call that executes x with a task that sleeps for it is an Exchange.
LEMMA PartnerRefines ==
  ASSUME IInv, Quiet, NEW t \in Tasks, NEW x \in Alt, Runs(t), x.op # CHANNOP, NEW i \in Int,
         x.c \in live,
         NEW e \in chanarray(x.c, otherop(x.op)),
         NEW u, u = e[1], NEW y, y = a[u][e[2]],
         IF x.op = CHANSND THEN altcopy(x.c, x, y, u) ELSE altcopy(x.c, y, x, t),
         altalldequeue(u), taskready(u),
         xalt' = [xalt EXCEPT ![u] = e[2]],
         ret' = [ret EXCEPT ![t] = i],
         UNCHANGED <<taskrunning, live, a>>
  PROVE  /\ u \in Tasks /\ e[2] \in DOMAIN Pending[u]
         /\ Promise!Exchange(t, i, x, u, e[2])
         /\ Quiet'
<1> DEFINE c == x.c
           j == e[2]
           s == IF x.op = "send" THEN x ELSE y
           line == Append(Queues[c], Promise!Sent(s))
<1>1. /\ TypeOK /\ EntriesExact /\ c \in Channels
      /\ x # NULL /\ x \in Alt \cup {NULL}
      /\ x.op \in {CHANSND, CHANRCV}
      /\ c \in live
  BY ChannelAssumption DEF IInv, TypeOK, Alt
<1>2. /\ u \in Tasks /\ u # t /\ Waits(u) /\ ~Waits(u)' /\ j \in DOMAIN a[u]
      /\ \A w \in Tasks \ {u} : Waits(w)' <=> Waits(w)
      /\ y \in Alt /\ y # NULL /\ y.c = c /\ y.op = otherop(x.op)
  <2>4. /\ u \in Tasks /\ Waits(u) /\ j \in DOMAIN a[u]
        /\ y \in Alt /\ y # NULL /\ y.c = c /\ y.op = otherop(x.op)
    BY <1>1, PartnerIs
  <2>1. u # t
    BY <2>4, RunningSleepsNot
  <2>2. ~Waits(u)'
    <3>1. state' = [state EXCEPT ![u] = "ready"]
      BY <1>1, <2>4, TaskreadyKeeps DEF IInv, TypeOK
    <3> QED BY <1>1, <2>4, <3>1 DEF Waits, TypeOK, CoreTypeOK
  <2>3. \A w \in Tasks \ {u} : Waits(w)' <=> Waits(w)
    BY PartnerKeeps
  <2> QED BY <2>1, <2>2, <2>3, <2>4
<1>3. taskrunning = t /\ a[t] = << >> /\ ~Waits(t)
  BY RunningSleepsNot
<1>4. Pending[u] = a[u]
  BY <1>2, PendingMeaning
<1>5. Promise!Meets(u, j, x)
  BY <1>1, <1>2, <1>4 DEF Promise!Meets, otherop, CHANSND, CHANRCV
<1>6. Pending' = [Pending EXCEPT ![u] = << >>]
  <2>1. \A w \in Tasks : (IF Waits(w)' THEN a'[w] ELSE << >>)
                           = IF w = u THEN << >> ELSE Pending[w]
    BY <1>2, PendingMeaning
  <2> QED BY <1>2, <2>1, PendingMeaning DEF Pending
<1> HIDE DEF c, j
<1>7. /\ \A w \in Tasks \ {t, u} : Index(w)' = Index(w)
      /\ Index(t)' = i /\ Index(u)' = j
      /\ \A w \in Tasks \ {t} : ret'[w] = ret[w]
  <2>1. /\ \A w \in Tasks \ {t} : ret'[w] = ret[w]
        /\ \A w \in Tasks \ {u} : xalt'[w] = xalt[w]
        /\ ret'[t] = i /\ xalt'[u] = j /\ a' = a
    BY <1>1, <1>2 DEF TypeOK, j
  <2>2. a[u] # << >>
    BY <1>2 DEF Waits
  <2> QED BY <1>2, <1>3, <2>1, <2>2 DEF Index
<1>8. \A d \in Channels : d # c => Queues'[d] = Queues[d]
  <2>1. altcopy(c, x, y, u) \/ altcopy(c, y, x, t)
    BY DEF c
  <2> QED BY <1>1, <2>1, AltcopyOthers
<1>9. /\ Queues'[c] = Tail(line)
      /\ got'[t] = IF x.op = "receive" THEN Promise!Into(x, Head(line)) ELSE NULL
      /\ got'[u] = IF y.op = "receive" THEN Promise!Into(y, Head(line)) ELSE NULL
      /\ \A w \in Tasks \ {t, u} : got'[w] = got[w]
  <2>1. CASE x.op = CHANSND
    <3>1. altcopy(c, x, y, u)
      BY <2>1 DEF c
    <3>2. y.op = "receive" /\ x.op = "send" /\ Promise!Sent(s) = element(x)
      BY <1>2, <2>1, SentMeaning DEF otherop, CHANSND, CHANRCV
    <3>3. /\ Queues'[c] = Tail(Append(Queues[c], element(x)))
          /\ (IF isdirect(c, x, y) THEN element(x) ELSE buf[c][off[c]])
               = Head(Append(Queues[c], element(x)))
      BY <1>1, <1>2, <3>1, AltcopyQueue
    <3>4. /\ got'[t] = NULL /\ \A w \in Tasks \ {t, u} : got'[w] = got[w]
          /\ got'[u] = IF y.v = NULL THEN NULL
                       ELSE IF isdirect(c, x, y) THEN element(x) ELSE buf[c][off[c]]
      BY <1>2, <1>3, <3>1 DEF altcopy
    <3>5. line = Append(Queues[c], element(x))
      BY <3>2
    <3> HIDE DEF s, line
    <3> QED BY <3>2, <3>3, <3>4, <3>5 DEF Promise!Into
  <2>2. CASE x.op = CHANRCV
    <3>1. altcopy(c, y, x, t)
      BY <2>2 DEF c, CHANSND, CHANRCV
    <3>2. y.op = "send" /\ x.op = "receive" /\ Promise!Sent(s) = element(y)
      BY <1>2, <2>2, SentMeaning DEF otherop, CHANSND, CHANRCV
    <3>3. /\ Queues'[c] = Tail(Append(Queues[c], element(y)))
          /\ (IF isdirect(c, y, x) THEN element(y) ELSE buf[c][off[c]])
               = Head(Append(Queues[c], element(y)))
      BY <1>1, <1>2, <3>1, AltcopyQueue
    <3>4. /\ \A w \in Tasks \ {t} : got'[w] = got[w]
          /\ got'[t] = IF x.v = NULL THEN NULL
                       ELSE IF isdirect(c, y, x) THEN element(y) ELSE buf[c][off[c]]
      BY <1>1, <1>2, <1>3, <3>1 DEF altcopy
    <3>5. line = Append(Queues[c], element(y))
      BY <3>2
    <3>6. got[u] = NULL
      BY <1>2 DEF Quiet
    <3> HIDE DEF s, line
    <3> QED BY <1>2, <3>2, <3>3, <3>4, <3>5, <3>6 DEF Promise!Into
  <2> QED BY <1>1, <2>1, <2>2
<1>10. Queues' = [Queues EXCEPT ![c] = Tail(line)]
  <2> HIDE DEF line
  <2> QED BY <1>1, <1>8, <1>9, QueueMeaningAfter
<1>11. Outcomes' = [Outcomes EXCEPT
          ![t] = [index |-> i,
                  value |-> IF x.op = "receive" THEN Promise!Into(x, Head(line)) ELSE NULL],
          ![u] = [index |-> j,
                  value |-> IF y.op = "receive" THEN Promise!Into(y, Head(line)) ELSE NULL]]
  <2> HIDE DEF line
  <2> QED BY <1>2, <1>7, <1>9, OutcomeMeaning
<1>12. Promise!Exchange(t, i, x, u, j)
  <2>1. Pending[u][j] = y
    BY <1>4 DEF j
  <2> QED BY <1>5, <1>6, <1>10, <1>11, <2>1 DEF Promise!Exchange, c
<1>13. Quiet'
  BY <1>2, <1>3, <1>7, <1>9 DEF Quiet
<1> QED BY <1>2, <1>4, <1>12, <1>13 DEF j

-----------------------------------------------------------------------------

\* An alternative that cannot be executed is not possible.
LEMMA CannotExec ==
  ASSUME IInv, NEW x \in Alt, ~altcanexec(x), x.op # CHANNOP => x.c \in live
  PROVE  ~Promise!Possible(x)
<1>1. TypeOK /\ EntriesExact /\ NoMissedMatch
  BY DEF IInv
<1>2. x.c \in Channels /\ x.op \in {CHANSND, CHANRCV, CHANNOP}
  BY DEF Alt
<1>3. CASE x.op = CHANNOP
  <2>1. \A u, j : ~Promise!Meets(u, j, x)
    BY <1>3 DEF Promise!Meets, CHANNOP
  <2> QED BY <1>3, <2>1 DEF Promise!Possible, Promise!Alone, CHANNOP
<1>4. CASE x.op # CHANNOP
  <2> DEFINE c == x.c
  <2>1. /\ BufSize[c] \in Nat /\ Ring(c)
        /\ IF BufSize[c] = 0 THEN chanarray(c, otherop(x.op)) = {}
           ELSE IF x.op = CHANSND THEN ~(nbuf[c] < BufSize[c]) ELSE ~(nbuf[c] > 0)
    BY <1>1, <1>2, <1>4, ChannelAssumption DEF TypeOK, Ring, altcanexec
  <2>2. Len(Queues[c]) = nbuf[c] /\ (Queues[c] = << >> <=> nbuf[c] = 0)
    BY <1>1, <1>2, <1>4, QueueMeaning
  <2>3. /\ arecv[c] # {} => nbuf[c] = 0
        /\ asend[c] # {} => nbuf[c] = BufSize[c]
    BY <1>1, <1>2 DEF NoMissedMatch
  <2>4. chanarray(c, otherop(x.op)) = {}
    <3>1. CASE x.op = CHANSND
      BY <2>1, <2>3, <3>1 DEF chanarray, otherop, Ring, CHANSND, CHANRCV
    <3>2. CASE x.op = CHANRCV
      BY <2>1, <2>3, <3>2 DEF chanarray, otherop, Ring, CHANSND, CHANRCV
    <3> QED BY <1>2, <1>4, <3>1, <3>2
  <2>5. Promise!Alone(x)
    BY <1>1, <1>4, <2>4, AloneMeaning
  <2>6. x.op = CHANSND => ~(Len(Queues[c]) < BufSize[c])
    BY <2>1, <2>2 DEF Ring
  <2>7. x.op = CHANRCV => Queues[c] = << >>
    BY <2>1, <2>2 DEF Ring, CHANSND, CHANRCV
  <2> HIDE DEF c
  <2> QED BY <2>5, <2>6, <2>7 DEF Promise!Possible, CHANSND, CHANRCV, c
<1> QED BY <1>3, <1>4

\* Any step of chanalt is a Call.
LEMMA ChanaltRefines ==
  ASSUME IInv, Quiet, NEW t \in Tasks, NEW s \in Arrays, NEW canblock \in BOOLEAN,
         chanalt(t, s, canblock)
  PROVE  Promise!Call(t) /\ Quiet'
<1> DEFINE can == {i \in DOMAIN s : altcanexec(s[i])}
<1>1. /\ Runs(t) /\ UNCHANGED live
      /\ \A i \in DOMAIN s : s[i].op # CHANNOP => s[i].c \in live
  BY DEF chanalt
<1>2. taskrunning = t /\ a[t] = << >> /\ ~Waits(t) /\ t # NULL
  BY <1>1, RunningSleepsNot
<1>3. Pending[t] = << >>
  BY <1>2, PendingMeaning
<1>4. SUFFICES (Promise!Execute(t, s) \/ Promise!GiveUp(t, s)) /\ Quiet'
  BY <1>1, <1>3 DEF Promise!Call, CHANNOP
<1>5. CASE \E i \in can : altexec(t, s, i)
  <2>1. PICK i \in can : altexec(t, s, i)
    BY <1>5
  <2>2. /\ s[i] \in Alt /\ altcanexec(s[i]) /\ i \in Int /\ s[i].op # CHANNOP
        /\ s[i].c \in live /\ i \in DOMAIN s
    BY <1>1, <2>1, ArrayAlt DEF altcanexec
  <2>3. ret' = [ret EXCEPT ![t] = i] /\ UNCHANGED <<taskrunning, live, a>>
    BY <1>1, <2>1 DEF altexec
  <2>4. \/ /\ chanarray(s[i].c, otherop(s[i].op)) = {}
           /\ IF s[i].op = CHANSND THEN altcopy(s[i].c, s[i], NULL, NULL)
                                   ELSE altcopy(s[i].c, NULL, s[i], t)
           /\ UNCHANGED <<asend, arecv, xalt, taskrunqueue, state, aborted>>
        \/ \E e \in chanarray(s[i].c, otherop(s[i].op)) :
              /\ IF s[i].op = CHANSND THEN altcopy(s[i].c, s[i], a[e[1]][e[2]], e[1])
                                      ELSE altcopy(s[i].c, a[e[1]][e[2]], s[i], t)
              /\ altalldequeue(e[1])
              /\ xalt' = [xalt EXCEPT ![e[1]] = e[2]]
              /\ taskready(e[1])
    BY <2>1 DEF altexec, waitVars
  <2>5. CASE chanarray(s[i].c, otherop(s[i].op)) = {}
    <3>1. (Promise!Send(t, i, s[i]) \/ Promise!Receive(t, i, s[i])) /\ Quiet'
      BY <1>1, <2>2, <2>3, <2>4, <2>5, AloneRefines
    <3> QED BY <2>2, <3>1 DEF Promise!Execute
  <2>6. ASSUME NEW e \in chanarray(s[i].c, otherop(s[i].op)),
               IF s[i].op = CHANSND THEN altcopy(s[i].c, s[i], a[e[1]][e[2]], e[1])
                                    ELSE altcopy(s[i].c, a[e[1]][e[2]], s[i], t),
               altalldequeue(e[1]), xalt' = [xalt EXCEPT ![e[1]] = e[2]], taskready(e[1])
        PROVE  Promise!Execute(t, s) /\ Quiet'
    <3>1. /\ e[1] \in Tasks /\ e[2] \in DOMAIN Pending[e[1]]
          /\ Promise!Exchange(t, i, s[i], e[1], e[2])
          /\ Quiet'
      BY <1>1, <2>2, <2>3, <2>6, PartnerRefines
    <3> QED BY <2>2, <3>1 DEF Promise!Execute
  <2> QED BY <2>4, <2>5, <2>6
<1>6. ASSUME can = {}
      PROVE  \A i \in DOMAIN s : ~Promise!Possible(s[i])
  <2> SUFFICES ASSUME NEW i \in DOMAIN s PROVE ~Promise!Possible(s[i])
    OBVIOUS
  <2>1. s[i] \in Alt /\ ~altcanexec(s[i]) /\ (s[i].op # CHANNOP => s[i].c \in live)
    BY <1>1, <1>6, ArrayAlt
  <2> QED BY <2>1, CannotExec
<1>7. TypeOK
  BY DEF IInv
<1>8. CASE can = {} /\ ~canblock /\ ~(\E i \in can : altexec(t, s, i))
  <2>1. /\ ret' = [ret EXCEPT ![t] = -1] /\ got' = [got EXCEPT ![t] = NULL]
        /\ UNCHANGED <<taskrunqueue, state, taskrunning, live, nbuf, off, buf,
                       asend, arecv, a, xalt, aborted>>
    BY <1>1, <1>8 DEF chanalt, coreVars, bufVars, waitVars
  <2>2. \A u \in Tasks : (Waits(u)' <=> Waits(u)) /\ a'[u] = a[u]
    BY <2>1 DEF Waits
  <2>3. /\ \A u \in Tasks \ {t} : got'[u] = got[u] /\ ret'[u] = ret[u]
        /\ ret'[t] = -1 /\ got'[t] = NULL
    BY <1>7, <2>1 DEF TypeOK
  <2>4. /\ \A u \in Tasks \ {t} : Index(u)' = Index(u)
        /\ Index(t)' = -1
    BY <1>2, <2>1, <2>2, <2>3 DEF Index
  <2>5. Outcomes' = [Outcomes EXCEPT ![t] = [index |-> -1, value |-> NULL]]
    BY <2>3, <2>4, OutcomeMeaning
  <2>6. Pending' = Pending /\ Queues' = Queues
    BY <2>1, <2>2, SamePending, SameQueues
  <2>7. Quiet'
    BY <1>2, <2>2, <2>3 DEF Quiet
  <2> QED BY <1>6, <1>8, <2>5, <2>6, <2>7 DEF Promise!GiveUp
<1>9. CASE can = {} /\ canblock /\ ~(\E i \in can : altexec(t, s, i))
  <2>1. /\ asend' = [c \in Channels |-> asend[c] \cup entries(t, s, c, CHANSND)]
        /\ arecv' = [c \in Channels |-> arecv[c] \cup entries(t, s, c, CHANRCV)]
        /\ a' = [a EXCEPT ![t] = s]
        /\ xalt' = [xalt EXCEPT ![t] = 1]
        /\ ret' = [ret EXCEPT ![t] = 0]
        /\ got' = [got EXCEPT ![t] = NULL]
        /\ taskrunning' = NULL
        /\ UNCHANGED <<taskrunqueue, state, live, nbuf, off, buf, aborted>>
    BY <1>1, <1>9 DEF chanalt, bufVars, taskswitch
  <2>2. \A i \in DOMAIN s : ~altcanexec(s[i])
    BY <1>9
  <2>3. /\ Waits(t)'
        /\ \A u \in Tasks \ {t} : (Waits(u)' <=> Waits(u)) /\ a'[u] = a[u]
    BY <1>1, <2>1, <2>2, BlockKeeps
  <2>4. /\ \A u \in Tasks \ {t} : got'[u] = got[u] /\ ret'[u] = ret[u] /\ xalt'[u] = xalt[u]
        /\ ret'[t] = 0 /\ got'[t] = NULL /\ a'[t] = s
    BY <1>7, <2>1 DEF TypeOK
  <2>5. /\ \A u \in Tasks \ {t} : Index(u)' = Index(u)
        /\ Index(t)' = 0
    BY <2>3, <2>4 DEF Index
  <2>6. Outcomes' = [Outcomes EXCEPT ![t] = Promise!None]
    BY <2>4, <2>5, OutcomeMeaning DEF Promise!None
  <2>7. Pending' = [Pending EXCEPT ![t] = s]
    <3>1. \A w \in Tasks : (IF Waits(w)' THEN a'[w] ELSE << >>)
                             = IF w = t THEN s ELSE Pending[w]
      BY <2>3, <2>4, PendingMeaning
    <3> QED BY <3>1, PendingMeaning DEF Pending
  <2>8. Queues' = Queues
    BY <2>1, SameQueues
  <2>9. Quiet'
    BY <2>3, <2>4 DEF Quiet
  <2> QED BY <1>6, <1>9, <2>6, <2>7, <2>8, <2>9 DEF Promise!GiveUp
<1> QED BY <1>5, <1>8, <1>9 DEF chanalt

LEMMA StepRefines ==
  IInv /\ Quiet /\ [Next]_vars => [Promise!SpecNext]_<<live, Queues, Pending, Outcomes>> /\ Quiet'
<1> SUFFICES ASSUME IInv, Quiet, [Next]_vars
             PROVE  [Promise!SpecNext]_<<live, Queues, Pending, Outcomes>> /\ Quiet'
  OBVIOUS
<1>1. CASE scheduler
  BY <1>1, SchedulerRefines
<1>2. ASSUME NEW t \in Tasks, NEW s \in Arrays, NEW canblock \in BOOLEAN,
             chanalt(t, s, canblock)
      PROVE  Promise!SpecNext /\ Quiet'
  BY <1>2, ChanaltRefines DEF Promise!SpecNext
<1>3. ASSUME NEW t \in Tasks, chanaltReturns(t)
      PROVE  UNCHANGED <<live, Queues, Pending, Outcomes>> /\ Quiet'
  BY <1>3, ChanaltReturnsRefines
<1>4. ASSUME NEW t \in Tasks, NEW c \in Channels, chancreate(t, c)
      PROVE  Promise!SpecNext /\ Quiet'
  BY <1>4, ChancreateRefines DEF Promise!SpecNext
<1>5. ASSUME NEW t \in Tasks, NEW c \in Channels, chanfree(t, c)
      PROVE  Promise!SpecNext /\ Quiet'
  BY <1>5, ChanfreeRefines DEF Promise!SpecNext
<1>6. ASSUME NEW t \in Tasks, taskyield(t) PROVE Promise!SpecNext /\ Quiet'
  BY <1>6, TaskyieldRefines DEF Promise!SpecNext
<1>7. CASE UNCHANGED vars
  <2>1. UNCHANGED <<taskrunqueue, state, taskrunning, live, nbuf, off, buf,
                    asend, arecv, a, xalt, ret, got, aborted>>
    BY <1>7 DEF vars, coreVars, bufVars, waitVars, callVars
  <2>2. \A u \in Tasks : (Waits(u)' <=> Waits(u)) /\ a'[u] = a[u]
    BY <2>1 DEF Waits
  <2> QED BY <2>1, <2>2, SamePending, SameQueues DEF Outcomes, Quiet
<1> QED BY <1>1, <1>2, <1>3, <1>4, <1>5, <1>6, <1>7 DEF Next, TaskStep

\* The channels of channel.c implement those of ChannelSpec.
THEOREM Refines == Spec => Refinement
<1>1. Init => Promise!SpecInit /\ Quiet
  BY InitRefines
<1>2. IInv /\ Quiet /\ [Next]_vars
        => [Promise!SpecNext]_<<live, Queues, Pending, Outcomes>> /\ Quiet'
  BY StepRefines
<1> QED BY <1>1, <1>2, Invariance, PTL DEF Spec, Refinement, Promise!ChannelSpec, Promise!specVars

=============================================================================
