------------------------------ MODULE JobStatus ------------------------------
(***************************************************************************)
(* The statuses of a job and the transitions assertTransition accepts      *)
(* (src/state-machine.ts).                                                 *)
(***************************************************************************)

\* The transition matrix "allowed": the successors of each status.
Allowed ==
  [queued       |-> {"provisioning", "cancelling", "failed", "interrupted"},
   provisioning |-> {"running", "cancelling", "failed", "interrupted"},
   running      |-> {"verifying", "cancelling", "failed", "interrupted"},
   verifying    |-> {"committing", "cancelling", "failed", "interrupted"},
   committing   |-> {"succeeded", "cancelling", "failed", "interrupted"},
   cancelling   |-> {"cancelled", "failed", "interrupted"},
   succeeded    |-> {},
   failed       |-> {},
   cancelled    |-> {},
   interrupted  |-> {}]

TerminalStatuses == {"succeeded", "failed", "cancelled", "interrupted"}

LiveStatuses == {"queued", "provisioning", "running", "verifying",
                 "committing", "cancelling"}

Statuses == LiveStatuses \union TerminalStatuses

\* canTransition: a status may be rewritten with itself or with a successor.
CanTransition(from, to) ==
  from \in Statuses /\ (from = to \/ to \in Allowed[from])

=============================================================================
