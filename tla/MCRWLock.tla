------------------------------- MODULE MCRWLock -------------------------------
(* RWLock for a few tasks.  No symmetry: the run checks liveness. *)
EXTENDS RWLock
=============================================================================
