----------------------------- MODULE ResumePromise -----------------------------
(***************************************************************************)
(* What safe resume promises (ADR-0017): the effects of a job, Prime first, *)
(* its gates in order and the commit last, each begin at most once and only *)
(* after every earlier one was done, however often the job is interrupted  *)
(* and resumed; and a job succeeds only when all of them are done.          *)
(***************************************************************************)
EXTENDS Naturals

CONSTANT Effects    \* the number of effects of a job

VARIABLES phase, verdict

promiseVars == <<phase, verdict>>

PromiseInit ==
  /\ phase = [e \in 1..Effects |-> "none"]
  /\ verdict = "open"

\* beginCheckpoint and the start of the effect.
Begin(e) ==
  /\ verdict = "open"
  /\ phase[e] = "none"
  /\ \A d \in 1..(e - 1) : phase[d] = "done"
  /\ phase' = [phase EXCEPT ![e] = "begun"]
  /\ UNCHANGED verdict

\* Its result becomes evidence.
End(e, r) ==
  /\ phase[e] = "begun"
  /\ phase' = [phase EXCEPT ![e] = r]
  /\ UNCHANGED verdict

Conclude(v) ==
  /\ verdict = "open"
  /\ v = "succeeded" => \A e \in 1..Effects : phase[e] = "done"
  /\ verdict' = v
  /\ UNCHANGED phase

PromiseNext ==
  \/ \E e \in 1..Effects : Begin(e) \/ End(e, "done") \/ End(e, "failed")
  \/ Conclude("succeeded") \/ Conclude("failed")

PromiseSpec == PromiseInit /\ [][PromiseNext]_promiseVars

=============================================================================
