----------------------------- MODULE JobLifecycle -----------------------------
(***************************************************************************)
(* What the control plane promises a client about a job: the state diagram *)
(* of docs/technical-overview.md, extended with the owner-confirmed resume *)
(* of ADR-0017.  A job is created once, moves along the diagram, ends in   *)
(* exactly one terminal status, and leaves it only when an interrupted job *)
(* is resumed, which opens a new, numbered execution attempt.              *)
(***************************************************************************)
EXTENDS Naturals, JobStatus

CONSTANTS Job       \* the job identifiers

VARIABLES status,   \* the status of each job, "absent" before its creation
          ordinal   \* how many execution attempts each job has had

lifecycleVars == <<status, ordinal>>

LifecycleInit ==
  /\ status = [j \in Job |-> "absent"]
  /\ ordinal = [j \in Job |-> 0]

Create(j) ==
  /\ status[j] = "absent"
  /\ status' = [status EXCEPT ![j] = "queued"]
  /\ ordinal' = [ordinal EXCEPT ![j] = 1]

\* A live job moves along the diagram, within its attempt.
Move(j) ==
  /\ status[j] \in LiveStatuses
  /\ \E s \in Allowed[status[j]] : status' = [status EXCEPT ![j] = s]
  /\ UNCHANGED ordinal

Resume(j) ==
  /\ status[j] = "interrupted"
  /\ status' = [status EXCEPT ![j] = "queued"]
  /\ ordinal' = [ordinal EXCEPT ![j] = @ + 1]

LifecycleNext == \E j \in Job : Create(j) \/ Move(j) \/ Resume(j)

LifecycleSpec == LifecycleInit /\ [][LifecycleNext]_lifecycleVars

=============================================================================
