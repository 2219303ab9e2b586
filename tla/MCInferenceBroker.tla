--------------------------- MODULE MCInferenceBroker ---------------------------
(* Model values for TLC: leases and requests. *)
EXTENDS InferenceBroker

CONSTANTS root, c1, c2, r1, r2

=============================================================================
