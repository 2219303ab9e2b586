---------------------------- MODULE MCJobControl ----------------------------
(* Model values for TLC, and the symmetry of the runs that check no liveness. *)
EXTENDS JobControl, TLC

CONSTANTS j1, j2, l1, l2, l3, c1, c2

Symmetry ==
  Permutations(Job) \union Permutations(Launch) \union Permutations(Client)

=============================================================================
