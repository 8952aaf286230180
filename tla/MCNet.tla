------------------------------- MODULE MCNet -------------------------------
(* Net with two tasks, who soon run out of descriptors. *)
EXTENDS Net
=============================================================================
