--------------------------- MODULE MCProcessLock ---------------------------
(* Model values for TLC: processes. *)
EXTENDS ProcessLock

CONSTANTS p1, p2, p3, p4

=============================================================================
