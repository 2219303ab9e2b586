------------------------------ MODULE MCCleanup ------------------------------
(* Model values for TLC: the name of a job. *)
EXTENDS Cleanup

CONSTANT j1

=============================================================================
