------------------------------- MODULE MCTask -------------------------------
(* Task with a few tasks, an int of few values and a table that grows often. *)
(* No symmetry: the run checks liveness. *)
EXTENDS Task
=============================================================================
