-------------------------- MODULE MCInstallLifecycle --------------------------
(* Model values for TLC: releases, and a host policy. *)
EXTENDS InstallLifecycle

CONSTANTS a, b, c, p

=============================================================================
