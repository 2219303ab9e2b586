--------------------------- MODULE MCSubagentHost ---------------------------
(* Model values for TLC: the names of children of both waves. *)
EXTENDS SubagentHost

CONSTANTS a1, b1, b2

=============================================================================
