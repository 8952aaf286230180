------------------------------ MODULE MCFdTask ------------------------------
(* FdTask with a few clients and one descriptor. *)
EXTENDS FdTask, TLC

Perms == Permutations(Clients)
=============================================================================
