------------------------------ MODULE MCWrapIO ------------------------------
(* WrapIO with two tasks that share one connection. *)
EXTENDS WrapIO
=============================================================================
