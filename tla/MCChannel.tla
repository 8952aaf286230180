------------------------------- MODULE MCChannel -------------------------------
(* Channel with an unbuffered channel and a buffered one.  The client sends   *)
(* and receives on each, with and without a place for the element, and        *)
(* chooses between the two channels and between both ends of one.             *)
EXTENDS Channel, TLC
CONSTANTS c0, c2, t1, t2, t3, v1, v2

MCBufSize == c0 :> 0 @@ c2 :> 2

send(c, v) == [c |-> c, op |-> CHANSND, v |-> v]
recv(c, v) == [c |-> c, op |-> CHANRCV, v |-> v]
nop(c) == [c |-> c, op |-> CHANNOP, v |-> NULL]

MCArrays == { <<send(c0, v2)>>, <<recv(c0, v1)>>,
              <<send(c2, v2)>>,
              <<recv(c2, v1), send(c0, v1)>>,
              <<nop(c0), recv(c0, NULL), send(c2, NULL)>>,
              <<send(c0, v1), recv(c0, v1)>> }

Perms == Permutations(Tasks)
=============================================================================
