------------------------------- MODULE MCRendez -------------------------------
(* Rendez with one Rendez that names the lock and one that does not. *)
EXTENDS Rendez
=============================================================================
