------------------------------ MODULE MCRecovery ------------------------------
(* Recovery for TLC: interchangeable clients. *)
EXTENDS Recovery, TLC

ClientSymmetry == Permutations(Client)
=============================================================================
