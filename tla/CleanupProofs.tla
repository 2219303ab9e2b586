----------------------------- MODULE CleanupProofs -----------------------------
(***************************************************************************)
(* Proofs about Cleanup for every set of jobs, any number of plans and     *)
(* revisions, and every crash: what a cleanup deletes, and what it never   *)
(* does to a job that runs or is about to.                                 *)
(***************************************************************************)
EXTENDS Cleanup, TLAPS

Whole(j) == content[<<j, "worktree">>] >= 0 /\ content[<<j, "branch">>] >= 0

Started(r) == \E t \in Target : action[r][t] \in {"applying", "applied"}

\* A job that runs has a revision left for its end.
ActiveMayEnd == \A j \in Job : status[j] = "active" => revision[j] < MaxRevision

\* Plans are inserted in the order of their numbers, and only a run that was applied
\* has touched its actions.
RunsInOrder ==
  /\ \A r, p \in Run : p < r /\ run[r] # "none" => run[p] \notin {"none", "planning"}
  /\ \A r \in Run, t \in Target : run[r] = "none" => action[r][t] = "none"
  /\ \A r \in Run, t \in Target :
       run[r] \in {"planning", "planned"} => action[r][t] \in {"none", "planned"}
  /\ \A r \in Run : run[r] = "completed" => Pending(r) = {}

\* The applying process knows what its run has still to do.
ApplierKnows ==
  at # "idle" =>
    /\ applier \in Run
    /\ run[applier] = "applying"
    /\ left \subseteq Deletes(applier)
    /\ Pending(applier) \subseteq left

\* Past reserveJobs it holds every job it deletes from (cleanup.ts reserveJobs).
ApplierHolds ==
  at \in {"loop", "delete", "remove", "commit"} => \A j \in JobsOf(applier) : reserved[j] = applier

\* What applyAction has checked of its target stays so until it has deleted it.
TargetIsCurrent ==
  at \in {"delete", "remove", "commit"} =>
    /\ target \in left
    /\ action[applier][target] = "applying"
    /\ status[target[1]] # "active"
    /\ revision[target[1]] = expect[applier][target[1]]

\* What was compared stays the reviewed content until it is removed, but for the head of
\* a worktree, which its branch then follows.
StillReviewed ==
  at = "remove" =>
    /\ target[2] # "branch"
    /\ \/ content[target] \in {reviewed[applier][target], Partial}
       \/ target[2] = "worktree" /\ content[<<target[1], "branch">>] = content[target]

\* A job is reserved or leased, never both (lease.ts:124-141, cleanup.ts reserveJobs).
LeaseOrReservation == leaseOf # None => reserved[leaseOf] = None

\* What a resume has checked stays so until it is consumed.
CheckedIsWhole == resumer = "checked" => leaseOf # None /\ Whole(leaseOf)

\* Of the runs that delete the same target the first that is not skipped does it.
FirstApplies ==
  \A r, p \in Run, t \in Target :
    p < r /\ action[r][t] = "applying" => action[p][t] \in {"none", "skipped"}

CleanupInv ==
  /\ TypeOK
  /\ ActiveMayEnd
  /\ RunsInOrder
  /\ ApplierKnows
  /\ ApplierHolds
  /\ TargetIsCurrent
  /\ StillReviewed
  /\ LeaseOrReservation
  /\ CheckedIsWhole
  /\ ActiveJobIsWhole
  /\ StartedRunKeepsItsJobs
  /\ FirstApplies
  /\ MissingIsBeingDeleted

-----------------------------------------------------------------------------
(* Types *)

LEMMA Constants ==
  /\ NRuns \in Nat \ {0} /\ MaxRevision \in Nat
  /\ None \notin Job /\ None \notin Target /\ None \notin Run
  BY CleanupAssumption DEF CleanupAssumption

LEMMA Contents ==
  /\ Absent \in Content /\ Partial \in Content /\ Edited \in Content
  /\ ~(Absent >= 0) /\ ~(Partial >= 0) /\ Edited >= 0 /\ Absent # Partial
  /\ \A n \in 0..MaxRevision : n \in Content /\ n >= 0
  BY Constants DEF Absent, Partial, Edited, Content

LEMMA Targets ==
  /\ \A j \in Job, k \in Kind : <<j, k>> \in Target
  /\ \A t \in Target : t[1] \in Job /\ t[2] \in Kind /\ t = <<t[1], t[2]>>
  BY DEF Target

\* A step that sets one action of a run sets no other.
LEMMA ActionSet ==
  ASSUME TypeOK, NEW r \in Run, NEW t \in Target, NEW s \in ActionStatus,
         action' = [action EXCEPT ![r][t] = s]
  PROVE  /\ action' \in [Run -> [Target -> ActionStatus]]
         /\ action'[r][t] = s
         /\ \A p \in Run, u \in Target : p # r \/ u # t => action'[p][u] = action[p][u]
  BY DEF TypeOK

\* Select touches the actions of its run only, and makes them planned ones.
LEMMA ActionsSelected ==
  ASSUME TypeOK, NEW r \in Run, NEW j, NEW K, Select(r, j, K)
  PROVE  /\ action' \in [Run -> [Target -> ActionStatus]]
         /\ reviewed' \in [Run -> [Target -> Content]]
         /\ \A t \in Target : action'[r][t] \in {action[r][t], "planned"}
         /\ \A p \in Run : p # r => action'[p] = action[p] /\ reviewed'[p] = reviewed[p]
<1>1. /\ action' \in [Run -> [Target -> ActionStatus]]
      /\ reviewed' \in [Run -> [Target -> Content]]
  BY DEF Select, TypeOK, ActionStatus
<1>2. \A t \in Target : action'[r][t] \in {action[r][t], "planned"}
  BY DEF Select, TypeOK
<1>3. \A p \in Run : p # r => action'[p] = action[p] /\ reviewed'[p] = reviewed[p]
  BY DEF Select, TypeOK
<1> QED  BY <1>1, <1>2, <1>3

\* What takes something away.
Removal == Remove \/ CutRemove \/ DeleteBranch

\* Type correctness: every operation of jobs, plans and the applying process keeps the
\* tables well formed.
LEMMA TypeStep ==
  ASSUME TypeOK, ActiveMayEnd, ApplierKnows, TargetIsCurrent, [Next]_vars
  PROVE  TypeOK'
<1> USE DEF jobVars, dataVars, planVars, applyVars, JobStatus, RunStatus, ActionStatus
<1>1. ASSUME NEW j \in Job,
             AcquireForResume(j) \/ CheckEvidence(j) \/ Consume(j) \/ LetGo(j) \/ EndJob(j)
      PROVE  TypeOK'
  <2>1. CASE AcquireForResume(j)
    BY <2>1 DEF AcquireForResume, TypeOK
  <2>2. CASE CheckEvidence(j)
    BY <2>2 DEF CheckEvidence, TypeOK
  <2>3. CASE Consume(j)
    BY <2>3, Constants DEF Consume, TypeOK
  <2>4. CASE LetGo(j)
    BY <2>4 DEF LetGo, TypeOK
  <2>5. CASE EndJob(j)
    <3>1. revision[j] \in 0..MaxRevision /\ revision[j] < MaxRevision
      BY <2>5 DEF EndJob, TypeOK, ActiveMayEnd
    <3>2. revision' \in [Job -> 0..MaxRevision]
      BY <2>5, <3>1, Constants DEF EndJob, TypeOK
    <3>3. status' \in [Job -> JobStatus] /\ uncertain' \in [Job -> BOOLEAN]
      BY <2>5 DEF EndJob, TypeOK
    <3>4. leaseOf' \in Job \union {None}
      BY <2>5 DEF EndJob, TypeOK
    <3> QED  BY <2>5, <3>2, <3>3, <3>4 DEF EndJob, TypeOK
  <2> QED  BY <1>1, <2>1, <2>2, <2>3, <2>4, <2>5
<1>2. ASSUME NEW j \in Job, Work(j) \/ Edit(j) \/ CommitEdits(j) PROVE TypeOK'
  <2>1. CASE Work(j)
    <3>1. revision[j] \in Content
      BY Contents DEF TypeOK
    <3>2. content' \in [Target -> Content]
      BY <2>1, <3>1 DEF Work, TypeOK
    <3>3. retained' \in [Job -> BOOLEAN] /\ uncommitted' \in [Job -> BOOLEAN]
      BY <2>1 DEF Work, TypeOK
    <3> QED  BY <2>1, <3>2, <3>3 DEF Work, TypeOK
  <2>2. CASE Edit(j)
    BY <2>2 DEF Edit, TypeOK
  <2>3. CASE CommitEdits(j)
    BY <2>3, Contents DEF CommitEdits, TypeOK
  <2> QED  BY <1>2, <2>1, <2>2, <2>3
<1>3. ASSUME NEW r \in Run, BeginPlan(r) \/ CommitPlan(r) \/ ApplyCompleted(r) \/ BeginApply(r)
      PROVE  TypeOK'
  <2>1. CASE BeginPlan(r)
    BY <2>1 DEF BeginPlan, TypeOK
  <2>2. CASE CommitPlan(r)
    BY <2>2 DEF CommitPlan, TypeOK
  <2>3. CASE ApplyCompleted(r)
    BY <2>3 DEF ApplyCompleted, Released, TypeOK
  <2>4. CASE BeginApply(r)
    BY <2>4 DEF BeginApply, Deletes, TypeOK
  <2> QED  BY <1>3, <2>1, <2>2, <2>3, <2>4
<1>4. ASSUME NEW r \in Run, NEW j \in Job,
             PlanState(r, j) \/ PlanVerify(r, j) \/ PlanInventory(r, j)
      PROVE  TypeOK'
  <2>2. CASE PlanState(r, j)
    BY <2>2 DEF PlanState, TypeOK
  <2>3. CASE PlanVerify(r, j)
    BY <2>3, ActionsSelected DEF PlanVerify, TypeOK
  <2>4. CASE PlanInventory(r, j)
    BY <2>4, ActionsSelected DEF PlanInventory, TypeOK
  <2> QED  BY <1>4, <2>2, <2>3, <2>4
<1>5. CASE Reserve
  BY <1>5 DEF Reserve, TypeOK
<1>6. ASSUME NEW t \in Target, Skip(t) \/ MarkApplying(t) PROVE TypeOK'
  <2>1. applier \in Run
    BY <1>6 DEF Skip, MarkApplying, IsNext, ApplierKnows
  <2>2. action' \in [Run -> [Target -> ActionStatus]]
    BY <1>6, <2>1, ActionSet DEF Skip, MarkApplying
  <2> QED  BY <1>6, <2>2 DEF Skip, MarkApplying, TypeOK
<1>7. CASE Removal
  <2>1. PICK remains \in {Absent, Partial} : Without(target, remains)
    BY <1>7 DEF Removal, Remove, CutRemove, DeleteBranch
  <2>2. content' \in [Target -> Content]
    BY <2>1, Contents DEF Without, TypeOK
  <2>3. uncommitted' \in [Job -> BOOLEAN]
    BY <2>1 DEF Without, TypeOK
  <2> QED  BY <1>7, <2>2, <2>3 DEF Removal, Remove, CutRemove, DeleteBranch, Idle, TypeOK
<1>11. CASE AlreadyGone \/ Compare
  BY <1>11 DEF AlreadyGone, Compare, TypeOK
<1>8. CASE CommitAction
  <2>1. applier \in Run /\ target \in Target
    BY <1>8 DEF CommitAction, ApplierKnows, TargetIsCurrent, TypeOK
  <2>2. action' \in [Run -> [Target -> ActionStatus]]
    BY <1>8, <2>1, ActionSet DEF CommitAction
  <2>3. retained' \in [Job -> BOOLEAN]
    BY <1>8, <2>1, Targets DEF CommitAction, TypeOK
  <2> QED  BY <1>8, <2>2, <2>3 DEF CommitAction, TypeOK
<1>9. CASE CompleteRun \/ CompleteUnreported \/ InterruptRun \/ CrashApply
  <2>1. reserved' \in [Job -> Run \union {None}]
    BY <1>9 DEF CompleteRun, CompleteUnreported, InterruptRun, CrashApply, Released, TypeOK
  <2>2. run' \in [Run -> RunStatus]
    BY <1>9 DEF CompleteRun, CompleteUnreported, InterruptRun, CrashApply, TypeOK
  <2>3. /\ applier' \in Run \union {None} /\ at' = "idle" /\ target' \in Target \union {None}
        /\ begun' \subseteq Target /\ left' \subseteq Target
    BY <1>9 DEF CompleteRun, CompleteUnreported, InterruptRun, CrashApply, Idle
  <2>4. UNCHANGED <<jobVars, dataVars, audited, planVars, action>>
    BY <1>9 DEF CompleteRun, CompleteUnreported, InterruptRun, CrashApply
  <2> QED  BY <2>1, <2>2, <2>3, <2>4 DEF TypeOK
<1>10. CASE UNCHANGED vars
  BY <1>10 DEF vars, TypeOK
<1> QED
  BY <1>1, <1>2, <1>3, <1>4, <1>5, <1>6, <1>7, <1>8, <1>9, <1>10, <1>11 DEF Next, Removal

-----------------------------------------------------------------------------
(* The operations of jobs *)

JobAction ==
  \E j \in Job :
    \/ AcquireForResume(j) \/ CheckEvidence(j) \/ Consume(j) \/ LetGo(j)
    \/ Work(j) \/ EndJob(j) \/ Edit(j) \/ CommitEdits(j)

\* What no operation of a job touches.
LEMMA JobFrame ==
  JobAction => UNCHANGED <<audited, planVars, run, action, reserved, applyVars>>
BY DEF JobAction, AcquireForResume, CheckEvidence, Consume, LetGo, Work, EndJob, Edit,
       CommitEdits

\* The job an apply is at is neither leased nor running.
LEMMA TargetIsHeld ==
  ASSUME CleanupInv, at \in {"delete", "remove", "commit"}
  PROVE  /\ target \in Target /\ target[1] \in Job
         /\ reserved[target[1]] = applier /\ applier \in Run /\ applier # None
         /\ leaseOf # target[1]
<1>1. target \in Deletes(applier) /\ applier \in Run /\ target \in Target
  BY DEF CleanupInv, TypeOK, TargetIsCurrent, ApplierKnows, Deletes
<1>2. target[1] \in Job /\ reserved[target[1]] = applier
  BY <1>1, Targets DEF CleanupInv, ApplierHolds, JobsOf
<1> QED  BY <1>1, <1>2, Constants DEF CleanupInv, LeaseOrReservation

\* Every operation of a job keeps the invariant: a resume finds no reservation, and
\* what it writes is never absent.
LEMMA JobStep ==
  ASSUME CleanupInv, JobAction
  PROVE  /\ ActiveMayEnd' /\ TargetIsCurrent' /\ LeaseOrReservation' /\ CheckedIsWhole'
         /\ ActiveJobIsWhole' /\ MissingIsBeingDeleted'
<1> USE JobFrame DEF jobVars, dataVars, planVars, applyVars
<1>0. /\ status \in [Job -> JobStatus] /\ revision \in [Job -> 0..MaxRevision]
      /\ content \in [Target -> Content] /\ retained \in [Job -> BOOLEAN]
      /\ reserved \in [Job -> Run \union {None}] /\ leaseOf \in Job \union {None}
  BY DEF CleanupInv, TypeOK
<1>1. PICK j \in Job :
        \/ AcquireForResume(j) \/ CheckEvidence(j) \/ Consume(j) \/ LetGo(j)
        \/ Work(j) \/ EndJob(j) \/ Edit(j) \/ CommitEdits(j)
  BY DEF JobAction
<1>2. CASE AcquireForResume(j)
  BY <1>0, <1>2
  DEF AcquireForResume, CleanupInv, ActiveMayEnd, TargetIsCurrent, LeaseOrReservation,
      CheckedIsWhole, ActiveJobIsWhole, MissingIsBeingDeleted, Whole
<1>3. CASE CheckEvidence(j)
  <2>1. leaseOf = j /\ leaseOf # None /\ Whole(j)
    BY <1>3, Constants DEF CheckEvidence, Whole
  <2> QED
    BY <1>0, <1>3, <2>1
    DEF CheckEvidence, CleanupInv, ActiveMayEnd, TargetIsCurrent, LeaseOrReservation,
        CheckedIsWhole, ActiveJobIsWhole, MissingIsBeingDeleted, Whole
<1>4. CASE Consume(j)
  <2>1. Whole(j)
    BY <1>4 DEF Consume, CleanupInv, CheckedIsWhole
  <2>2. ActiveMayEnd'
    BY <1>0, <1>4, Constants DEF Consume, CleanupInv, ActiveMayEnd
  <2>3. ActiveJobIsWhole'
    BY <1>0, <1>4, <2>1 DEF Consume, CleanupInv, ActiveJobIsWhole, Whole
  <2>4. TargetIsCurrent'
    <3>1. at \in {"delete", "remove", "commit"} => target[1] # j
      BY <1>4, TargetIsHeld DEF Consume, Resumable
    <3> QED  BY <1>0, <1>4, <3>1 DEF Consume, CleanupInv, TargetIsCurrent
  <2> QED
    BY <1>4, <2>2, <2>3, <2>4
    DEF Consume, CleanupInv, LeaseOrReservation, CheckedIsWhole, MissingIsBeingDeleted
<1>5. CASE LetGo(j)
  BY <1>5
  DEF LetGo, CleanupInv, ActiveMayEnd, TargetIsCurrent, LeaseOrReservation,
      CheckedIsWhole, ActiveJobIsWhole, MissingIsBeingDeleted
<1>6. CASE Work(j)
  <2>1. \A t \in Target : content'[t] = content[t] \/ content'[t] >= 0
    BY <1>0, <1>6, Contents DEF Work
  <2>2. \A i \in Job : Whole(i) => Whole(i)'
    BY <2>1, Targets DEF Whole, Kind
  <2>3. MissingIsBeingDeleted'
    <3>1. \A i \in Job : content'[<<i, "artifact">>] = Absent
                         => /\ content[<<i, "artifact">>] = Absent
                            /\ retained'[i] = retained[i]
      <4> SUFFICES ASSUME NEW i \in Job, content'[<<i, "artifact">>] = Absent
                   PROVE  /\ content[<<i, "artifact">>] = Absent
                          /\ retained'[i] = retained[i]
        OBVIOUS
      <4>1. <<i, "artifact">> \in Target
        BY Targets DEF Kind
      <4>2. content[<<i, "artifact">>] = Absent
        BY <2>1, <4>1, Contents
      <4>3. PICK K \in {{"artifact", "cache"}, {"worktree", "branch"}} :
              /\ content' = [t \in Target |-> IF t[1] = j /\ t[2] \in K THEN revision[j]
                                              ELSE content[t]]
              /\ retained' = [retained EXCEPT ![j] = @ \/ "artifact" \in K]
        BY <1>6 DEF Work
      <4>4. i = j => "artifact" \notin K
        BY <1>0, <4>1, <4>3, Contents
      <4>5. retained'[i] = retained[i]
        BY <1>0, <4>3, <4>4
      <4> QED  BY <4>2, <4>5
    <3> QED  BY <3>1 DEF CleanupInv, MissingIsBeingDeleted
  <2>4. UNCHANGED <<status, revision, leaseOf, resumer>>
    BY <1>6 DEF Work
  <2>5. ActiveJobIsWhole'
    BY <2>2, <2>4 DEF CleanupInv, ActiveJobIsWhole, Whole
  <2>6. CheckedIsWhole'
    BY <1>0, <2>2, <2>4 DEF CleanupInv, CheckedIsWhole
  <2> QED
    BY <2>3, <2>4, <2>5, <2>6
    DEF CleanupInv, ActiveMayEnd, TargetIsCurrent, LeaseOrReservation
<1>7. CASE EndJob(j)
  <2>1. /\ status[j] = "active" /\ status'[j] # "active"
        /\ \A i \in Job : i # j => status'[i] = status[i] /\ revision'[i] = revision[i]
        /\ leaseOf' = leaseOf \/ (leaseOf' = None /\ resumer = "idle")
    BY <1>0, <1>7 DEF EndJob
  <2>2. at \in {"delete", "remove", "commit"} => target[1] # j
    BY <2>1 DEF CleanupInv, TargetIsCurrent
  <2>3. TargetIsCurrent'
    BY <2>1, <2>2, TargetIsHeld DEF CleanupInv, TargetIsCurrent
  <2>4. ActiveMayEnd' /\ ActiveJobIsWhole'
    BY <1>7, <2>1 DEF EndJob, CleanupInv, ActiveMayEnd, ActiveJobIsWhole
  <2>5. LeaseOrReservation' /\ CheckedIsWhole' /\ MissingIsBeingDeleted'
    BY <1>7, <2>1
    DEF EndJob, CleanupInv, LeaseOrReservation, CheckedIsWhole, MissingIsBeingDeleted, Whole
  <2> QED  BY <2>3, <2>4, <2>5
<1>8. CASE Edit(j)
  BY <1>8
  DEF Edit, CleanupInv, ActiveMayEnd, TargetIsCurrent, LeaseOrReservation, CheckedIsWhole,
      ActiveJobIsWhole, MissingIsBeingDeleted, Whole
<1>9. CASE CommitEdits(j)
  <2>1. \A t \in Target : content'[t] = content[t] \/ (content'[t] >= 0 /\ t[2] # "artifact")
    BY <1>0, <1>9, Contents DEF CommitEdits
  <2>2. \A i \in Job : Whole(i) => Whole(i)'
    BY <2>1, Targets DEF Whole, Kind
  <2>3. \A i \in Job : content'[<<i, "artifact">>] = content[<<i, "artifact">>]
    BY <2>1, Targets DEF Kind
  <2>4. UNCHANGED <<status, revision, leaseOf, resumer, retained>>
    BY <1>9 DEF CommitEdits
  <2>5. ActiveJobIsWhole'
    BY <2>2, <2>4 DEF CleanupInv, ActiveJobIsWhole, Whole
  <2>6. CheckedIsWhole'
    BY <1>0, <2>2, <2>4 DEF CleanupInv, CheckedIsWhole
  <2> QED
    BY <2>3, <2>4, <2>5, <2>6
    DEF CleanupInv, ActiveMayEnd, TargetIsCurrent, LeaseOrReservation, MissingIsBeingDeleted
<1> QED  BY <1>1, <1>2, <1>3, <1>4, <1>5, <1>6, <1>7, <1>8, <1>9

\* While a removal is under way its job does not work; the owner may commit to its
\* worktree, and the branch follows.
LEMMA JobStepKeepsReview ==
  ASSUME CleanupInv, JobAction
  PROVE  StillReviewed'
<1> USE JobFrame DEF planVars, applyVars
<1> SUFFICES ASSUME at = "remove"
             PROVE  StillReviewed'
  BY DEF StillReviewed
<1>1. /\ target \in Target /\ target[1] \in Job /\ status[target[1]] # "active"
      /\ content \in [Target -> Content] /\ <<target[1], "branch">> \in Target
  BY TargetIsHeld, Targets DEF CleanupInv, TypeOK, TargetIsCurrent, Kind
<1>2. PICK j \in Job :
        \/ AcquireForResume(j) \/ CheckEvidence(j) \/ Consume(j) \/ LetGo(j)
        \/ Work(j) \/ EndJob(j) \/ Edit(j) \/ CommitEdits(j)
  BY DEF JobAction
<1>3. CASE content' = content
  BY <1>3 DEF CleanupInv, StillReviewed
<1>4. CASE Work(j)
  <2>1. j # target[1]
    BY <1>1, <1>4 DEF Work
  <2>2. content'[target] = content[target]
        /\ content'[<<target[1], "branch">>] = content[<<target[1], "branch">>]
    BY <1>1, <1>4, <2>1 DEF Work
  <2> QED  BY <2>2 DEF CleanupInv, StillReviewed
<1>5. CASE CommitEdits(j)
  <2>1. CASE target = <<j, "worktree">>
    <3>1. content'[target] = Edited /\ content'[<<target[1], "branch">>] = Edited
          /\ target[2] = "worktree"
      BY <1>1, <1>5, <2>1 DEF CommitEdits
    <3> QED  BY <3>1 DEF StillReviewed
  <2>2. CASE target # <<j, "worktree">>
    <3>1. target[2] # "branch"
      BY DEF CleanupInv, StillReviewed
    <3>2. target # <<j, "branch">>
      BY <3>1
    <3>3. content'[target] = content[target]
      BY <1>1, <1>5, <2>2, <3>2 DEF CommitEdits
    <3>4. target[2] = "worktree" => target[1] # j
      BY <1>1, <2>2, Targets
    <3>5. target[2] = "worktree" =>
            content'[<<target[1], "branch">>] = content[<<target[1], "branch">>]
      BY <1>1, <1>5, <3>4 DEF CommitEdits
    <3> QED  BY <3>3, <3>5 DEF CleanupInv, StillReviewed
  <2> QED  BY <2>1, <2>2
<1> QED
  BY <1>2, <1>3, <1>4, <1>5
  DEF AcquireForResume, CheckEvidence, Consume, LetGo, EndJob, Edit, dataVars

\* It changes nothing of what a run does.
LEMMA JobStepKeepsRuns ==
  ASSUME CleanupInv, JobAction
  PROVE  /\ RunsInOrder' /\ ApplierKnows' /\ ApplierHolds'
         /\ StartedRunKeepsItsJobs' /\ FirstApplies'
BY JobFrame
DEF CleanupInv, planVars, applyVars, RunsInOrder, ApplierKnows, ApplierHolds,
    StartedRunKeepsItsJobs, FirstApplies, Pending, Deletes, JobsOf

-----------------------------------------------------------------------------
(* Planning *)

PlanAction ==
  \E r \in Run :
    \/ BeginPlan(r) \/ CommitPlan(r)
    \/ \E j \in Job : PlanState(r, j) \/ PlanVerify(r, j) \/ PlanInventory(r, j)

\* What planning the run r does: it plans actions of its own, and nothing else that
\* an apply or a resume depends on.
Plans(r) ==
  /\ run[r] \in {"none", "planning"} /\ run'[r] \in {"planning", "planned"}
  /\ run[r] = "none" => \A p \in Run : p < r => run[p] \notin {"none", "planning"}
  /\ \A t \in Target : action[r][t] \in {"none", "planned"}
                       /\ action'[r][t] \in {"none", "planned"}
  /\ \A p \in Run : p # r => /\ run'[p] = run[p]
                             /\ action'[p] = action[p]
                             /\ expect'[p] = expect[p]
                             /\ reviewed'[p] = reviewed[p]
  /\ UNCHANGED <<jobVars, dataVars, reserved, applyVars>>

LEMMA PlanFacts ==
  ASSUME CleanupInv, PlanAction
  PROVE  \E r \in Run : Plans(r)
<1> USE DEF jobVars, dataVars, planVars, applyVars
<1>1. PICK r \in Run :
        \/ BeginPlan(r) \/ CommitPlan(r)
        \/ \E j \in Job : PlanState(r, j) \/ PlanVerify(r, j) \/ PlanInventory(r, j)
  BY DEF PlanAction
<1>2. /\ run \in [Run -> RunStatus]
      /\ expect \in [Run -> [Job -> {Absent} \union 0..MaxRevision]]
      /\ TypeOK
  BY DEF CleanupInv, TypeOK
<1>3. run[r] \in {"none", "planning"}
  BY <1>1 DEF BeginPlan, CommitPlan, PlanState, PlanVerify, PlanInventory
<1>4. \A t \in Target : action[r][t] \in {"none", "planned"}
  BY <1>3 DEF CleanupInv, RunsInOrder
<1>5. CASE BeginPlan(r)
  <2>1. \A p \in Run : p < r => run[p] \notin {"none", "planning"}
    <3> SUFFICES ASSUME NEW p \in Run, p < r PROVE run[p] \notin {"none", "planning"}
      OBVIOUS
    <3>1. r > 1 /\ r - 1 \in Run /\ (p = r - 1 \/ p < r - 1)
      BY Constants DEF Run
    <3>2. run[r - 1] \notin {"none", "planning"}
      BY <1>5, <3>1 DEF BeginPlan
    <3> QED  BY <3>1, <3>2 DEF CleanupInv, RunsInOrder
  <2> QED  BY <1>2, <1>3, <1>4, <1>5, <2>1 DEF BeginPlan, Plans
<1>6. CASE CommitPlan(r)
  BY <1>2, <1>3, <1>4, <1>6 DEF CommitPlan, Plans
<1>7. ASSUME NEW j \in Job, PlanState(r, j) PROVE Plans(r)
  BY <1>2, <1>3, <1>4, <1>7 DEF PlanState, Plans
<1>8. ASSUME NEW j \in Job, PlanVerify(r, j) \/ PlanInventory(r, j) PROVE Plans(r)
  <2>1. /\ run[r] = "planning" /\ run' = run
        /\ expect' = expect
        /\ UNCHANGED <<jobVars, dataVars, reserved, applyVars>>
        /\ \E K : Select(r, j, K)
    BY <1>8 DEF PlanVerify, PlanInventory
  <2>2. /\ \A t \in Target : action'[r][t] \in {action[r][t], "planned"}
        /\ \A p \in Run : p # r => action'[p] = action[p] /\ reviewed'[p] = reviewed[p]
    BY <1>2, <2>1, ActionsSelected
  <2>3. \A t \in Target : action'[r][t] \in {"none", "planned"}
    BY <1>4, <2>2
  <2> QED  BY <1>4, <2>1, <2>2, <2>3 DEF Plans
<1> QED  BY <1>1, <1>5, <1>6, <1>7, <1>8

\* Planning keeps the invariant: the run being planned is not the one that is applied,
\* and nothing that was applied refers to it.
LEMMA PlanStep ==
  ASSUME CleanupInv, PlanAction
  PROVE  /\ RunsInOrder' /\ ApplierKnows' /\ ApplierHolds' /\ TargetIsCurrent'
         /\ StartedRunKeepsItsJobs' /\ FirstApplies' /\ MissingIsBeingDeleted'
         /\ ActiveMayEnd' /\ LeaseOrReservation' /\ CheckedIsWhole' /\ ActiveJobIsWhole'
         /\ StillReviewed'
<1>1. PICK r \in Run : Plans(r)
  BY PlanFacts
<1>2. UNCHANGED <<status, revision, leaseOf, resumer, content, retained, reserved,
                  applier, at, target, left>>
  BY <1>1 DEF Plans, jobVars, dataVars, applyVars
<1>3. \A p \in Run : p # r => /\ run'[p] = run[p] /\ action'[p] = action[p]
                              /\ expect'[p] = expect[p] /\ reviewed'[p] = reviewed[p]
                              /\ Pending(p)' = Pending(p) /\ Deletes(p)' = Deletes(p)
                              /\ JobsOf(p)' = JobsOf(p)
  BY <1>1 DEF Plans, Pending, Deletes, JobsOf
<1>4. \A t \in Target : action[r][t] \in {"none", "planned"}
                        /\ action'[r][t] \in {"none", "planned"}
  BY <1>1 DEF Plans
<1>5. run[r] \in {"none", "planning"} /\ run'[r] \in {"planning", "planned"}
  BY <1>1 DEF Plans
<1>6. RunsInOrder'
  <2>1. ASSUME NEW q \in Run, NEW p \in Run, p < q, run'[q] # "none"
        PROVE  run'[p] \notin {"none", "planning"}
    <3>1. q # r => run[q] # "none"
      BY <1>3, <2>1
    <3>2. p # r
      BY <1>5, <2>1, <3>1, Constants DEF CleanupInv, RunsInOrder, Run
    <3>3. run[p] \notin {"none", "planning"}
      BY <1>1, <2>1, <3>1 DEF Plans, CleanupInv, RunsInOrder
    <3> QED  BY <1>3, <3>2, <3>3
  <2>2. ASSUME NEW q \in Run, NEW t \in Target
        PROVE  /\ run'[q] = "none" => action'[q][t] = "none"
               /\ run'[q] \in {"planning", "planned"} => action'[q][t] \in {"none", "planned"}
    BY <1>3, <1>4, <1>5 DEF CleanupInv, RunsInOrder
  <2>3. ASSUME NEW q \in Run, run'[q] = "completed" PROVE Pending(q)' = {}
    BY <1>3, <1>5, <2>3 DEF CleanupInv, RunsInOrder
  <2> QED  BY <2>1, <2>2, <2>3 DEF RunsInOrder
<1>7. at # "idle" => applier # r
  BY <1>5 DEF CleanupInv, ApplierKnows
<1>8. ApplierKnows' /\ ApplierHolds'
  BY <1>2, <1>3, <1>7 DEF CleanupInv, ApplierKnows, ApplierHolds
<1>9. TargetIsCurrent'
  BY <1>2, <1>3, <1>7 DEF CleanupInv, TargetIsCurrent, ApplierKnows
<1>10. StartedRunKeepsItsJobs'
  BY <1>2, <1>3, <1>4 DEF CleanupInv, StartedRunKeepsItsJobs
<1>11. FirstApplies'
  <2> SUFFICES ASSUME NEW q \in Run, NEW p \in Run, NEW t \in Target, p < q,
                      action'[q][t] = "applying"
               PROVE  action'[p][t] \in {"none", "skipped"}
    BY DEF FirstApplies
  <2>1. q # r /\ action[q][t] = "applying"
    BY <1>3, <1>4
  <2>2. run[q] # "none"
    BY <2>1 DEF CleanupInv, RunsInOrder
  <2>3. p # r
    BY <1>5, <2>2 DEF CleanupInv, RunsInOrder
  <2> QED  BY <1>3, <2>1, <2>3 DEF CleanupInv, FirstApplies
<1>12. MissingIsBeingDeleted'
  <2> SUFFICES ASSUME NEW j \in Job, retained'[j], content'[<<j, "artifact">>] = Absent
               PROVE  \E q \in Run : action'[q][<<j, "artifact">>] = "applying"
                                     /\ reserved'[j] = q
    BY DEF MissingIsBeingDeleted
  <2>1. PICK q \in Run : action[q][<<j, "artifact">>] = "applying" /\ reserved[j] = q
    BY <1>2 DEF CleanupInv, MissingIsBeingDeleted
  <2>2. q # r
    BY <1>4, <2>1, Targets DEF Kind
  <2> QED  BY <1>2, <1>3, <2>1, <2>2
<1>13. ActiveMayEnd' /\ LeaseOrReservation' /\ CheckedIsWhole' /\ ActiveJobIsWhole'
  BY <1>2
  DEF CleanupInv, ActiveMayEnd, LeaseOrReservation, CheckedIsWhole, ActiveJobIsWhole, Whole
<1>14. StillReviewed'
  BY <1>2, <1>3, <1>7 DEF CleanupInv, StillReviewed, ApplierKnows
<1> QED
  BY <1>6, <1>8, <1>9, <1>10, <1>11, <1>12, <1>13, <1>14

-----------------------------------------------------------------------------
(* Applying *)

\* A step of the applying process that sets an action of its run which is left to do.
LEMMA SettingAction ==
  ASSUME CleanupInv, at \in {"loop", "commit"},
         NEW t \in left, NEW s \in {"applying", "applied", "skipped"},
         action' = [action EXCEPT ![applier][t] = s],
         UNCHANGED <<run, reserved, applier>>
  PROVE  /\ \A p \in Run : Deletes(p)' = Deletes(p) /\ JobsOf(p)' = JobsOf(p)
         /\ Pending(applier)' = IF s = "applying" THEN Pending(applier) \union {t}
                                                  ELSE Pending(applier) \ {t}
         /\ RunsInOrder' /\ StartedRunKeepsItsJobs'
<1>1. /\ applier \in Run /\ t \in Target /\ run[applier] = "applying"
      /\ action[applier][t] # "none" /\ TypeOK
      /\ \A j \in JobsOf(applier) : reserved[j] = applier
  BY DEF CleanupInv, ApplierKnows, ApplierHolds, Deletes
<1>2. /\ action'[applier][t] = s
      /\ \A p \in Run, u \in Target : p # applier \/ u # t => action'[p][u] = action[p][u]
  <2>1. applier \in Run /\ t \in Target /\ action \in [Run -> [Target -> ActionStatus]]
    BY <1>1 DEF TypeOK
  <2>2. action' = [action EXCEPT ![applier][t] = s]
    OBVIOUS
  <2> QED  BY ONLY <2>1, <2>2
<1>3. \A p \in Run : Deletes(p)' = Deletes(p)
  BY <1>1, <1>2 DEF Deletes
<1>4. \A p \in Run : JobsOf(p)' = JobsOf(p)
  BY <1>3 DEF JobsOf
<1>5. Pending(applier)' = IF s = "applying" THEN Pending(applier) \union {t}
                                            ELSE Pending(applier) \ {t}
  <2>1. Pending(applier)' = {u \in Target : action'[applier][u] \in {"planned", "applying"}}
    <3>1. applier' = applier
      OBVIOUS
    <3> QED  BY <3>1 DEF Pending
  <2>2. \A u \in Target :
          u \in Pending(applier)' <=> IF u = t THEN s = "applying" ELSE u \in Pending(applier)
    BY <1>1, <1>2, <2>1 DEF Pending
  <2> QED  BY <1>1, <2>1, <2>2 DEF Pending
<1>6. \A p \in Run : p # applier => Pending(p)' = Pending(p)
  BY <1>1, <1>2 DEF Pending
<1>7. RunsInOrder'
  BY <1>1, <1>2, <1>6 DEF CleanupInv, RunsInOrder
<1>8. StartedRunKeepsItsJobs'
  <2> SUFFICES ASSUME NEW r \in Run, Pending(r)' # {},
                      \E u \in Target : action'[r][u] \in {"applying", "applied"},
                      NEW j \in JobsOf(r)'
               PROVE  reserved'[j] = r
    BY DEF StartedRunKeepsItsJobs
  <2>1. CASE r = applier
    BY <1>1, <1>4, <2>1
  <2>2. CASE r # applier
    BY <1>2, <1>4, <1>6, <2>2 DEF CleanupInv, StartedRunKeepsItsJobs
  <2> QED  BY <2>1, <2>2
<1> QED  BY <1>3, <1>4, <1>5, <1>7, <1>8

LEMMA SkipStep ==
  ASSUME CleanupInv, NEW t \in Target, Skip(t)
  PROVE  /\ RunsInOrder' /\ ApplierKnows' /\ ApplierHolds' /\ TargetIsCurrent'
         /\ StartedRunKeepsItsJobs' /\ FirstApplies' /\ MissingIsBeingDeleted'
<1> USE DEF jobVars, dataVars, planVars, applyVars
<1>1. /\ at = "loop" /\ at' = "loop" /\ t \in left /\ left' = left \ {t}
      /\ action' = [action EXCEPT ![applier][t] = "skipped"]
      /\ PriorIs(applier, t, {"applied"})
      /\ UNCHANGED <<run, reserved, applier, content, retained>>
  BY DEF Skip, IsNext
<1>2. /\ \A p \in Run : Deletes(p)' = Deletes(p) /\ JobsOf(p)' = JobsOf(p)
      /\ Pending(applier)' = Pending(applier) \ {t}
      /\ RunsInOrder' /\ StartedRunKeepsItsJobs'
  BY <1>1, SettingAction
<1>3. /\ applier \in Run /\ run[applier] = "applying" /\ TypeOK
      /\ left \subseteq Deletes(applier) /\ Pending(applier) \subseteq left
  BY <1>1 DEF CleanupInv, ApplierKnows
<1>4. /\ action'[applier][t] = "skipped"
      /\ \A p \in Run, u \in Target : p # applier \/ u # t => action'[p][u] = action[p][u]
  <2>1. applier \in Run /\ t \in Target /\ action \in [Run -> [Target -> ActionStatus]]
    BY <1>1, <1>3 DEF TypeOK
  <2>2. action' = [action EXCEPT ![applier][t] = "skipped"]
    BY <1>1
  <2> QED  BY ONLY <2>1, <2>2
<1>5. ApplierKnows' /\ ApplierHolds' /\ TargetIsCurrent'
  BY <1>1, <1>2, <1>3 DEF CleanupInv, ApplierKnows, ApplierHolds, TargetIsCurrent
<1>6. action[applier][t] # "applying"
  <2>1. PICK p \in Run : p < applier /\ action[p][t] \in {"planned", "applying", "applied"}
    BY <1>1 DEF PriorIs, Prior
  <2> QED  BY <1>3, <2>1 DEF CleanupInv, FirstApplies
<1>7. \A p \in Run, u \in Target : action'[p][u] = "applying" <=> action[p][u] = "applying"
  BY <1>3, <1>4, <1>6
<1>8. FirstApplies'
  BY <1>3, <1>4, <1>7 DEF CleanupInv, FirstApplies
<1>9. MissingIsBeingDeleted'
  BY <1>1, <1>7, Targets DEF CleanupInv, MissingIsBeingDeleted, Kind
<1> QED  BY <1>2, <1>5, <1>8, <1>9

LEMMA MarkStep ==
  ASSUME CleanupInv, NEW t \in Target, MarkApplying(t)
  PROVE  /\ RunsInOrder' /\ ApplierKnows' /\ ApplierHolds' /\ TargetIsCurrent'
         /\ StartedRunKeepsItsJobs' /\ FirstApplies' /\ MissingIsBeingDeleted'
<1> USE DEF jobVars, dataVars, planVars, applyVars
<1>1. /\ at = "loop" /\ at' = "delete" /\ t \in left /\ target' = t
      /\ action' = [action EXCEPT ![applier][t] = "applying"]
      /\ Prior(applier, t) = {}
      /\ revision[t[1]] = expect[applier][t[1]] /\ status[t[1]] # "active"
      /\ UNCHANGED <<run, reserved, applier, left, content, retained, status, revision,
                     expect>>
  BY DEF MarkApplying, IsNext, Current, Unsafe
<1>2. /\ \A p \in Run : Deletes(p)' = Deletes(p) /\ JobsOf(p)' = JobsOf(p)
      /\ Pending(applier)' = Pending(applier) \union {t}
      /\ RunsInOrder' /\ StartedRunKeepsItsJobs'
  BY <1>1, SettingAction
<1>3. /\ applier \in Run /\ run[applier] = "applying" /\ TypeOK
      /\ left \subseteq Deletes(applier) /\ Pending(applier) \subseteq left
  BY <1>1 DEF CleanupInv, ApplierKnows
<1>4. /\ action'[applier][t] = "applying"
      /\ \A p \in Run, u \in Target : p # applier \/ u # t => action'[p][u] = action[p][u]
  <2>1. applier \in Run /\ t \in Target /\ action \in [Run -> [Target -> ActionStatus]]
    BY <1>1, <1>3 DEF TypeOK
  <2>2. action' = [action EXCEPT ![applier][t] = "applying"]
    BY <1>1
  <2> QED  BY ONLY <2>1, <2>2
<1>5. ApplierKnows' /\ ApplierHolds' /\ TargetIsCurrent'
  BY <1>1, <1>2, <1>3, <1>4 DEF CleanupInv, ApplierKnows, ApplierHolds, TargetIsCurrent
<1>6. FirstApplies'
  <2> SUFFICES ASSUME NEW r \in Run, NEW p \in Run, NEW u \in Target, p < r,
                      action'[r][u] = "applying"
               PROVE  action'[p][u] \in {"none", "skipped"}
    BY DEF FirstApplies
  <2>1. CASE r = applier /\ u = t
    <3>1. action[p][t] \notin {"planned", "applying", "applied"}
      BY <1>1, <2>1 DEF Prior
    <3>2. p # applier
      BY <2>1 DEF Run
    <3> QED  BY <1>3, <1>4, <2>1, <3>1, <3>2 DEF TypeOK, ActionStatus
  <2>2. CASE ~(r = applier /\ u = t)
    <3>1. action[r][u] = "applying"
      BY <1>4, <2>2
    <3>2. ~(p = applier /\ u = t)
      <4> SUFFICES ASSUME p = applier, u = t PROVE FALSE
        OBVIOUS
      <4>1. r # applier
        BY DEF Run
      <4>2. t \in Pending(r) /\ t[1] \in JobsOf(r)
        BY <3>1 DEF Pending, JobsOf, Deletes
      <4>3. reserved[t[1]] = r
        BY <3>1, <4>2 DEF CleanupInv, StartedRunKeepsItsJobs
      <4>4. t[1] \in JobsOf(applier)
        BY <1>1, <1>3 DEF JobsOf
      <4> QED  BY <1>1, <4>1, <4>3, <4>4 DEF CleanupInv, ApplierHolds
    <3> QED  BY <1>4, <3>1, <3>2 DEF CleanupInv, FirstApplies
  <2> QED  BY <2>1, <2>2
<1>7. MissingIsBeingDeleted'
  BY <1>1, <1>4, Targets DEF CleanupInv, MissingIsBeingDeleted, Kind
<1> QED  BY <1>2, <1>5, <1>6, <1>7

LEMMA CommitActionStep ==
  ASSUME CleanupInv, CommitAction
  PROVE  /\ RunsInOrder' /\ ApplierKnows' /\ ApplierHolds' /\ TargetIsCurrent'
         /\ StartedRunKeepsItsJobs' /\ FirstApplies' /\ MissingIsBeingDeleted'
<1> USE DEF jobVars, dataVars, planVars, applyVars
<1>1. /\ at = "commit" /\ at' = "loop" /\ left' = left \ {target}
      /\ action' = [action EXCEPT ![applier][target] = "applied"]
      /\ retained' = IF target[2] = "artifact" THEN [retained EXCEPT ![target[1]] = FALSE]
                     ELSE retained
      /\ UNCHANGED <<run, reserved, applier, content>>
  BY DEF CommitAction
<1>2. /\ applier \in Run /\ run[applier] = "applying" /\ TypeOK
      /\ left \subseteq Deletes(applier) /\ Pending(applier) \subseteq left
      /\ target \in left /\ target \in Target /\ action[applier][target] = "applying"
  BY <1>1 DEF CleanupInv, ApplierKnows, TargetIsCurrent, Deletes
<1>3. /\ \A p \in Run : Deletes(p)' = Deletes(p) /\ JobsOf(p)' = JobsOf(p)
      /\ Pending(applier)' = Pending(applier) \ {target}
      /\ RunsInOrder' /\ StartedRunKeepsItsJobs'
  BY <1>1, <1>2, SettingAction
<1>4. /\ action'[applier][target] = "applied"
      /\ \A p \in Run, u \in Target :
           p # applier \/ u # target => action'[p][u] = action[p][u]
  <2>1. applier \in Run /\ target \in Target /\ action \in [Run -> [Target -> ActionStatus]]
    BY <1>1, <1>2 DEF TypeOK
  <2>2. action' = [action EXCEPT ![applier][target] = "applied"]
    BY <1>1
  <2> QED  BY ONLY <2>1, <2>2
<1>5. ApplierKnows' /\ ApplierHolds' /\ TargetIsCurrent'
  BY <1>1, <1>2, <1>3 DEF CleanupInv, ApplierKnows, ApplierHolds, TargetIsCurrent
<1>6. FirstApplies'
  BY <1>2, <1>4 DEF CleanupInv, FirstApplies
<1>7. MissingIsBeingDeleted'
  <2> SUFFICES ASSUME NEW j \in Job, retained'[j], content'[<<j, "artifact">>] = Absent
               PROVE  \E r \in Run : action'[r][<<j, "artifact">>] = "applying"
                                     /\ reserved'[j] = r
    BY DEF MissingIsBeingDeleted
  <2>1. retained[j] /\ target # <<j, "artifact">>
    BY <1>1, <1>2, Targets DEF TypeOK
  <2>2. PICK r \in Run : action[r][<<j, "artifact">>] = "applying" /\ reserved[j] = r
    BY <1>1, <2>1 DEF CleanupInv, MissingIsBeingDeleted
  <2> QED  BY <1>1, <1>4, <2>1, <2>2, Targets DEF Kind
<1> QED  BY <1>3, <1>5, <1>6, <1>7

\* A step that leaves the jobs, their content and the actions alone.
LEMMA OutsideJobs ==
  ASSUME CleanupInv, UNCHANGED <<jobVars, dataVars>>,
         \A j \in Job : reserved[j] = None => reserved'[j] = None \/ leaseOf # j
  PROVE  /\ ActiveMayEnd' /\ LeaseOrReservation' /\ CheckedIsWhole' /\ ActiveJobIsWhole'
BY DEF CleanupInv, TypeOK, jobVars, dataVars, ActiveMayEnd, LeaseOrReservation,
       CheckedIsWhole, ActiveJobIsWhole, Whole

LEMMA SameActions ==
  ASSUME UNCHANGED action
  PROVE  /\ \A r \in Run : /\ Pending(r)' = Pending(r) /\ Deletes(r)' = Deletes(r)
                           /\ JobsOf(r)' = JobsOf(r)
         /\ FirstApplies <=> FirstApplies'
BY DEF Pending, Deletes, JobsOf, FirstApplies

LEMMA BeginApplyStep ==
  ASSUME CleanupInv, NEW r \in Run, BeginApply(r)
  PROVE  /\ RunsInOrder' /\ ApplierKnows' /\ ApplierHolds' /\ TargetIsCurrent'
         /\ StartedRunKeepsItsJobs' /\ FirstApplies' /\ MissingIsBeingDeleted'
<1>1. /\ run[r] \in {"planned", "applying", "interrupted"}
      /\ run' = [run EXCEPT ![r] = "applying"] /\ run \in [Run -> RunStatus]
      /\ UNCHANGED <<action, reserved, content, retained>>
  BY DEF BeginApply, dataVars, CleanupInv, TypeOK
<1>2. applier' = r /\ at' = "reserve" /\ left' = {t \in Deletes(r) : action[r][t] # "applied"}
  BY DEF BeginApply
<1>3. RunsInOrder'
  BY <1>1, SameActions DEF CleanupInv, RunsInOrder
<1>4. left' \subseteq Deletes(r)' /\ Pending(r)' \subseteq left'
  BY <1>1, <1>2, SameActions DEF Pending, Deletes
<1>5. ApplierKnows'
  BY <1>1, <1>2, <1>4 DEF ApplierKnows, Deletes, Pending
<1> QED
  BY <1>1, <1>2, <1>3, <1>5, SameActions
  DEF CleanupInv, ApplierHolds, TargetIsCurrent, StartedRunKeepsItsJobs, MissingIsBeingDeleted

LEMMA ReserveStep ==
  ASSUME CleanupInv, Reserve
  PROVE  /\ RunsInOrder' /\ ApplierKnows' /\ ApplierHolds' /\ TargetIsCurrent'
         /\ StartedRunKeepsItsJobs' /\ FirstApplies' /\ MissingIsBeingDeleted'
         /\ LeaseOrReservation'
<1> USE DEF jobVars, dataVars, planVars
<1>1. /\ at = "reserve" /\ at' = "loop"
      /\ \A j \in JobsOf(applier) : reserved[j] \in {None, applier} /\ leaseOf # j
      /\ UNCHANGED <<run, action, applier, left, content, retained, leaseOf>>
  BY DEF Reserve, Reservable, DatabaseUnsafe
<1>2. \A j \in Job : reserved'[j] = IF j \in JobsOf(applier) THEN applier ELSE reserved[j]
  BY DEF Reserve
<1>3. applier \in Run /\ applier # None /\ JobsOf(applier) \subseteq Job
  BY <1>1, Constants, Targets DEF CleanupInv, ApplierKnows, JobsOf, Deletes
<1>4. RunsInOrder'
  BY <1>1, SameActions DEF CleanupInv, RunsInOrder
<1>5. ApplierKnows'
  BY <1>1, SameActions DEF CleanupInv, ApplierKnows, Deletes, Pending
<1>6. ApplierHolds'
  BY <1>1, <1>2, <1>3 DEF ApplierHolds, JobsOf, Deletes
<1>7. \A r \in Run, j \in Job : reserved[j] = r => reserved'[j] = r
  BY <1>1, <1>2, Constants
<1>8. StartedRunKeepsItsJobs'
  BY <1>1, <1>7, SameActions, Targets DEF CleanupInv, StartedRunKeepsItsJobs, JobsOf, Deletes
<1>9. MissingIsBeingDeleted'
  BY <1>1, <1>7 DEF CleanupInv, MissingIsBeingDeleted
<1>10. LeaseOrReservation'
  BY <1>1, <1>2 DEF CleanupInv, TypeOK, LeaseOrReservation
<1> QED
  BY <1>1, <1>4, <1>5, <1>6, <1>8, <1>9, <1>10, SameActions DEF CleanupInv, TargetIsCurrent

\* A target that is already gone, or that the code compares before it removes it.
LEMMA CompareStep ==
  ASSUME CleanupInv, AlreadyGone \/ Compare
  PROVE  /\ RunsInOrder' /\ ApplierKnows' /\ ApplierHolds' /\ TargetIsCurrent'
         /\ StillReviewed' /\ StartedRunKeepsItsJobs' /\ FirstApplies'
         /\ MissingIsBeingDeleted'
<1> USE DEF jobVars, dataVars, planVars
<1>1. /\ at = "delete" /\ at' \in {"remove", "commit"}
      /\ UNCHANGED <<jobVars, dataVars, planVars, run, action, reserved, applier, target, left>>
  BY DEF AlreadyGone, Compare
<1>2. StillReviewed'
  BY <1>1 DEF AlreadyGone, Compare, Deletable, PartlyRemoved, StillReviewed
<1>3. ApplierKnows' /\ ApplierHolds' /\ TargetIsCurrent'
  BY <1>1
  DEF CleanupInv, ApplierKnows, ApplierHolds, TargetIsCurrent, Deletes, Pending, JobsOf
<1>4. RunsInOrder' /\ StartedRunKeepsItsJobs' /\ FirstApplies' /\ MissingIsBeingDeleted'
  BY <1>1, SameActions
  DEF CleanupInv, RunsInOrder, StartedRunKeepsItsJobs, MissingIsBeingDeleted
<1> QED  BY <1>2, <1>3, <1>4

\* What is removed is a target of a job that is neither leased nor running.
LEMMA RemovalStep ==
  ASSUME CleanupInv, Removal
  PROVE  CleanupInv'
<1> USE DEF jobVars, dataVars, planVars, Removal
<1>1. /\ at \in {"delete", "remove"} /\ target \in Target /\ target[1] \in Job
      /\ reserved[target[1]] = applier /\ applier \in Run
      /\ leaseOf # target[1] /\ status[target[1]] # "active"
      /\ action[applier][target] = "applying"
  BY TargetIsHeld DEF Remove, CutRemove, DeleteBranch, CleanupInv, TargetIsCurrent
<1>2. UNCHANGED <<jobVars, retained, audited, planVars, run, action, reserved>>
  BY DEF Remove, CutRemove, DeleteBranch
<1>3. /\ \A t \in Target : t # target => content'[t] = content[t]
      /\ content'[target] = Absent \/ (content'[target] = Partial /\ target[2] # "artifact")
  BY <1>1 DEF Remove, CutRemove, DeleteBranch, Without, CleanupInv, TypeOK
<1>4. \/ UNCHANGED <<applier, target, left>> /\ at' = "commit"
      \/ at' = "idle"
  BY DEF Remove, CutRemove, DeleteBranch, Idle
<1>5. \A j \in Job : j # target[1] => (Whole(j) => Whole(j)')
  <2> SUFFICES ASSUME NEW j \in Job, j # target[1], Whole(j) PROVE Whole(j)'
    OBVIOUS
  <2>1. \A k \in Kind : <<j, k>> \in Target /\ <<j, k>> # target
    BY Targets
  <2>2. \A k \in {"worktree", "branch"} : content'[<<j, k>>] = content[<<j, k>>]
    BY <1>3, <2>1 DEF Kind
  <2> QED  BY <2>2 DEF Whole
<1>6. ActiveJobIsWhole' /\ CheckedIsWhole'
  <2>1. ActiveJobIsWhole'
    BY <1>1, <1>2, <1>5 DEF CleanupInv, ActiveJobIsWhole, Whole
  <2>2. CheckedIsWhole'
    BY <1>1, <1>2, <1>5 DEF CleanupInv, TypeOK, CheckedIsWhole
  <2> QED  BY <2>1, <2>2
<1>7. MissingIsBeingDeleted'
  <2> SUFFICES ASSUME NEW j \in Job, retained'[j], content'[<<j, "artifact">>] = Absent
               PROVE  \E r \in Run : action'[r][<<j, "artifact">>] = "applying"
                                     /\ reserved'[j] = r
    BY DEF MissingIsBeingDeleted
  <2>1. CASE target = <<j, "artifact">>
    BY <1>1, <1>2, <2>1
  <2>2. CASE target # <<j, "artifact">>
    BY <1>2, <1>3, <2>2, Targets DEF CleanupInv, MissingIsBeingDeleted, Kind
  <2> QED  BY <2>1, <2>2
<1>8. ApplierKnows' /\ ApplierHolds' /\ TargetIsCurrent' /\ StillReviewed'
  BY <1>1, <1>2, <1>4
  DEF CleanupInv, ApplierKnows, ApplierHolds, TargetIsCurrent, StillReviewed, Deletes,
      Pending, JobsOf
<1>9. RunsInOrder' /\ StartedRunKeepsItsJobs' /\ FirstApplies'
  BY <1>2, SameActions DEF CleanupInv, RunsInOrder, StartedRunKeepsItsJobs
<1>10. ActiveMayEnd' /\ LeaseOrReservation'
  BY <1>2 DEF CleanupInv, ActiveMayEnd, LeaseOrReservation
<1>11. TypeOK'
  BY TypeStep DEF CleanupInv, Next
<1> QED  BY <1>6, <1>7, <1>8, <1>9, <1>10, <1>11 DEF CleanupInv

\* A run gives its jobs up when it is completed, or when it has not begun.
LEMMA EndStep ==
  ASSUME CleanupInv,
         \/ CompleteRun \/ CompleteUnreported \/ InterruptRun \/ CrashApply
         \/ \E r \in Run : ApplyCompleted(r)
  PROVE  /\ RunsInOrder' /\ ApplierKnows' /\ ApplierHolds' /\ TargetIsCurrent'
         /\ StartedRunKeepsItsJobs' /\ FirstApplies' /\ MissingIsBeingDeleted'
         /\ LeaseOrReservation'
<1> USE DEF jobVars, dataVars, planVars, applyVars
<1>1. at' = "idle" /\ UNCHANGED <<action, content, retained, leaseOf>>
  BY DEF CompleteRun, CompleteUnreported, InterruptRun, CrashApply, ApplyCompleted, Idle
<1>2. \E r \in Run :
        /\ \/ reserved' = reserved
           \/ /\ reserved' = Released(r)
              /\ Pending(r) = {} \/ ~Started(r)
        /\ \/ run' = run
           \/ /\ run[r] = "applying" /\ run' = [run EXCEPT ![r] = "interrupted"]
           \/ /\ run[r] = "applying" /\ run' = [run EXCEPT ![r] = "completed"]
              /\ Pending(r) = {}
  <2>1. CASE CompleteRun \/ CompleteUnreported
    <3>1. at = "loop" /\ left = {} /\ reserved' = Released(applier)
          /\ run' \in {[run EXCEPT ![applier] = "interrupted"],
                       [run EXCEPT ![applier] = "completed"]}
      BY <2>1 DEF CompleteRun, CompleteUnreported
    <3>2. applier \in Run /\ run[applier] = "applying" /\ Pending(applier) = {}
      BY <3>1 DEF CleanupInv, ApplierKnows
    <3> QED  BY <3>1, <3>2
  <2>2. CASE InterruptRun
    <3>1. at # "idle" /\ run' = [run EXCEPT ![applier] = "interrupted"]
          /\ reserved' = IF Started(applier) THEN reserved ELSE Released(applier)
      BY <2>2 DEF InterruptRun, Throws, IsNext, Started
    <3>2. applier \in Run /\ run[applier] = "applying"
      BY <3>1 DEF CleanupInv, ApplierKnows
    <3> QED  BY <3>1, <3>2
  <2>3. CASE CrashApply
    <3>1. applier \in Run
      BY <2>3 DEF CrashApply, CleanupInv, ApplierKnows
    <3> QED  BY <2>3, <3>1 DEF CrashApply
  <2>4. ASSUME NEW r \in Run, ApplyCompleted(r)
        PROVE  /\ reserved' = Released(r) /\ Pending(r) = {} /\ run' = run
    BY <2>4 DEF ApplyCompleted, CleanupInv, RunsInOrder
  <2> QED  BY <2>1, <2>2, <2>3, <2>4
<1>3. PICK r \in Run :
        /\ \/ reserved' = reserved
           \/ /\ reserved' = Released(r)
              /\ Pending(r) = {} \/ ~Started(r)
        /\ \/ run' = run
           \/ /\ run[r] = "applying" /\ run' = [run EXCEPT ![r] = "interrupted"]
           \/ /\ run[r] = "applying" /\ run' = [run EXCEPT ![r] = "completed"]
              /\ Pending(r) = {}
  BY <1>2
<1>4. RunsInOrder'
  <2>1. run \in [Run -> RunStatus]
    BY DEF CleanupInv, TypeOK
  <2>2. \A p \in Run :
          \/ run'[p] = run[p]
          \/ run[p] = "applying" /\ run'[p] = "interrupted"
          \/ run[p] = "applying" /\ run'[p] = "completed" /\ Pending(p) = {}
    <3>1. CASE run' = run
      BY <3>1
    <3>2. CASE run[r] = "applying" /\ run' = [run EXCEPT ![r] = "interrupted"]
      BY <2>1, <3>2
    <3>3. CASE /\ run[r] = "applying" /\ run' = [run EXCEPT ![r] = "completed"]
               /\ Pending(r) = {}
      BY <2>1, <3>3
    <3> QED  BY <1>3, <3>1, <3>2, <3>3
  <2> QED  BY <1>1, <2>2, SameActions DEF CleanupInv, RunsInOrder
<1>5. \A p \in Run, j \in Job : reserved[j] = p /\ reserved'[j] # p
                                => p = r /\ (Pending(r) = {} \/ ~Started(r))
  BY <1>3 DEF Released
<1>6. StartedRunKeepsItsJobs'
  <2> SUFFICES ASSUME NEW p \in Run, Pending(p)' # {},
                      \E t \in Target : action'[p][t] \in {"applying", "applied"},
                      NEW j \in JobsOf(p)'
               PROVE  reserved'[j] = p
    BY DEF StartedRunKeepsItsJobs
  <2>1. Pending(p) # {} /\ Started(p) /\ j \in JobsOf(p) /\ j \in Job
    BY <1>1, SameActions, Targets DEF Started, JobsOf, Deletes
  <2>2. reserved[j] = p
    BY <2>1 DEF CleanupInv, StartedRunKeepsItsJobs, Started
  <2> QED  BY <1>5, <2>1, <2>2
<1>7. MissingIsBeingDeleted'
  <2> SUFFICES ASSUME NEW j \in Job, retained[j], content[<<j, "artifact">>] = Absent
               PROVE  \E p \in Run : action[p][<<j, "artifact">>] = "applying"
                                     /\ reserved'[j] = p
    BY <1>1 DEF MissingIsBeingDeleted
  <2>1. PICK p \in Run : action[p][<<j, "artifact">>] = "applying" /\ reserved[j] = p
    BY DEF CleanupInv, MissingIsBeingDeleted
  <2>2. Pending(p) # {} /\ Started(p)
    BY <2>1, Targets DEF Pending, Started, Kind
  <2> QED  BY <1>5, <2>1, <2>2
<1>8. LeaseOrReservation'
  BY <1>1, <1>3 DEF CleanupInv, TypeOK, LeaseOrReservation, Released
<1> QED
  BY <1>1, <1>4, <1>6, <1>7, <1>8, SameActions
  DEF CleanupInv, ApplierKnows, ApplierHolds, TargetIsCurrent

-----------------------------------------------------------------------------
LEMMA CleanupInvInit == Init => CleanupInv
<1> SUFFICES ASSUME Init PROVE CleanupInv
  OBVIOUS
<1>1. 0 \in Content /\ 0 \in 0..MaxRevision /\ 0 # Absent /\ Absent \in Content
  BY Contents, Constants DEF Absent, Content
<1>2. TypeOK
  BY <1>1 DEF Init, TypeOK, JobStatus, RunStatus, ActionStatus
<1>3. \A r \in Run : Pending(r) = {} /\ Deletes(r) = {}
  BY DEF Init, Pending, Deletes
<1>4. RunsInOrder /\ FirstApplies
  BY <1>3 DEF Init, RunsInOrder, FirstApplies
<1>5. ActiveMayEnd /\ CheckedIsWhole /\ ActiveJobIsWhole
  BY DEF Init, ActiveMayEnd, CheckedIsWhole, ActiveJobIsWhole
<1>6. /\ ApplierKnows /\ ApplierHolds /\ TargetIsCurrent /\ StillReviewed
      /\ LeaseOrReservation
  BY DEF Init, ApplierKnows, ApplierHolds, TargetIsCurrent, StillReviewed, LeaseOrReservation
<1>7. StartedRunKeepsItsJobs
  BY <1>3 DEF StartedRunKeepsItsJobs
<1>8. MissingIsBeingDeleted
  BY <1>1, Targets DEF Init, MissingIsBeingDeleted, Kind
<1> QED  BY <1>2, <1>4, <1>5, <1>6, <1>7, <1>8 DEF CleanupInv

LEMMA CleanupInvStep == CleanupInv /\ [Next]_vars => CleanupInv'
<1> SUFFICES ASSUME CleanupInv, [Next]_vars PROVE CleanupInv'
  OBVIOUS
<1>1. TypeOK'
  BY TypeStep DEF CleanupInv
<1>2. CASE JobAction
  BY <1>1, <1>2, JobStep, JobStepKeepsReview, JobStepKeepsRuns DEF CleanupInv
<1>3. CASE PlanAction
  BY <1>1, <1>3, PlanStep DEF CleanupInv
<1>0. \/ \E r \in Run : BeginApply(r) \/ ApplyCompleted(r)
      \/ \E t \in Target : Skip(t) \/ MarkApplying(t)
      \/ Reserve \/ CommitAction \/ CompleteRun \/ CompleteUnreported
      \/ InterruptRun \/ CrashApply
      => StillReviewed'
  BY DEF BeginApply, ApplyCompleted, Skip, MarkApplying, IsNext, Reserve, CommitAction,
         CompleteRun, CompleteUnreported, InterruptRun, CrashApply, Idle, applyVars,
         StillReviewed
<1>4. CASE \E r \in Run : BeginApply(r)
  <2>1. UNCHANGED <<jobVars, dataVars, reserved>>
    BY <1>4 DEF BeginApply
  <2> QED  BY <1>0, <1>1, <1>4, <2>1, BeginApplyStep, OutsideJobs DEF CleanupInv
<1>5. CASE Reserve
  <2>1. /\ UNCHANGED <<jobVars, dataVars>>
        /\ \A j \in JobsOf(applier) : leaseOf # j
        /\ reserved' = [j \in Job |-> IF j \in JobsOf(applier) THEN applier ELSE reserved[j]]
    BY <1>5 DEF Reserve, Reservable, DatabaseUnsafe
  <2>2. \A j \in Job : reserved[j] = None => reserved'[j] = None \/ leaseOf # j
    BY <2>1
  <2> QED  BY <1>0, <1>1, <1>5, <2>1, <2>2, ReserveStep, OutsideJobs DEF CleanupInv
<1>6. ASSUME NEW t \in Target, Skip(t) \/ MarkApplying(t) PROVE CleanupInv'
  <2>1. UNCHANGED <<jobVars, dataVars, reserved>>
    BY <1>6 DEF Skip, MarkApplying
  <2> QED  BY <1>0, <1>1, <1>6, <2>1, SkipStep, MarkStep, OutsideJobs DEF CleanupInv
<1>7. CASE Removal
  BY <1>7, RemovalStep
<1>12. CASE AlreadyGone \/ Compare
  <2>1. UNCHANGED <<jobVars, dataVars, reserved>>
    BY <1>12 DEF AlreadyGone, Compare
  <2> QED  BY <1>1, <1>12, <2>1, CompareStep, OutsideJobs DEF CleanupInv
<1>8. CASE CommitAction
  <2>1. UNCHANGED <<jobVars, content, uncommitted, reserved>>
    BY <1>8 DEF CommitAction
  <2>2. ActiveMayEnd' /\ LeaseOrReservation' /\ CheckedIsWhole' /\ ActiveJobIsWhole'
    BY <2>1
    DEF CleanupInv, jobVars, ActiveMayEnd, LeaseOrReservation, CheckedIsWhole,
        ActiveJobIsWhole, Whole
  <2> QED  BY <1>0, <1>1, <1>8, <2>2, CommitActionStep DEF CleanupInv
<1>9. CASE \/ CompleteRun \/ CompleteUnreported \/ InterruptRun \/ CrashApply
           \/ \E r \in Run : ApplyCompleted(r)
  <2>1. UNCHANGED <<jobVars, dataVars>>
    BY <1>9 DEF CompleteRun, CompleteUnreported, InterruptRun, CrashApply, ApplyCompleted
  <2>2. ActiveMayEnd' /\ CheckedIsWhole' /\ ActiveJobIsWhole'
    BY <2>1
    DEF CleanupInv, jobVars, dataVars, ActiveMayEnd, CheckedIsWhole, ActiveJobIsWhole, Whole
  <2> QED  BY <1>0, <1>1, <1>9, <2>2, EndStep DEF CleanupInv
<1>10. CASE UNCHANGED vars
  BY <1>1, <1>10, SameActions
  DEF vars, jobVars, dataVars, planVars, applyVars, CleanupInv, ActiveMayEnd, RunsInOrder,
      ApplierKnows, ApplierHolds, TargetIsCurrent, StillReviewed, LeaseOrReservation, CheckedIsWhole,
      ActiveJobIsWhole, StartedRunKeepsItsJobs, MissingIsBeingDeleted, Whole, Deletes,
      Pending, JobsOf
<1>11. ASSUME Next
       PROVE  \/ JobAction \/ PlanAction \/ \E r \in Run : BeginApply(r) \/ ApplyCompleted(r)
              \/ Reserve \/ \E t \in Target : Skip(t) \/ MarkApplying(t)
              \/ AlreadyGone \/ Compare \/ Removal \/ CommitAction \/ CompleteRun \/ CompleteUnreported
              \/ InterruptRun \/ CrashApply
  BY <1>11 DEF Next, JobAction, PlanAction, Removal
<1> QED
  BY <1>2, <1>3, <1>4, <1>5, <1>6, <1>7, <1>8, <1>9, <1>10, <1>11, <1>12

LEMMA CleanupInvariant == Spec => []CleanupInv
<1>1. Init => CleanupInv
  BY CleanupInvInit
<1>2. CleanupInv /\ [Next]_vars => CleanupInv'
  BY CleanupInvStep
<1> QED  BY <1>1, <1>2, PTL DEF Spec

\* The tables and the applying process stay well formed, whatever crashes.
THEOREM CleanupTypeCorrect == Spec => []TypeOK
<1>1. CleanupInv => TypeOK
  BY DEF CleanupInv
<1> QED  BY <1>1, CleanupInvariant, PTL

\* No cleanup takes the worktree or the branch from a running attempt, or from a resume
\* that has checked them (src/docs/adrs/0018).
THEOREM RunningJobIsWhole == Spec => []ActiveJobIsWhole
<1>1. CleanupInv => ActiveJobIsWhole
  BY DEF CleanupInv
<1> QED  BY <1>1, CleanupInvariant, PTL

\* A run that began to delete keeps its jobs until it has finished.
THEOREM ReservationsSurvive == Spec => []StartedRunKeepsItsJobs
<1>1. CleanupInv => StartedRunKeepsItsJobs
  BY DEF CleanupInv
<1> QED  BY <1>1, CleanupInvariant, PTL

\* The rows of artifacts account for the files.
THEOREM RowsAccountForFiles == Spec => []MissingIsBeingDeleted
<1>1. CleanupInv => MissingIsBeingDeleted
  BY DEF CleanupInv
<1> QED  BY <1>1, CleanupInvariant, PTL

\* A removal begins only of a reviewed target, and the job, the lease and the revision it
\* was checked for are still so when it takes effect; only a worktree's head may have
\* moved on, to a commit its branch keeps.
THEOREM ReviewedIsDeleted == Spec => DeletesWhatWasReviewed
<1> DEFINE Begins == at # "remove" /\ at' = "remove" =>
                       content[target] \in {reviewed[applier][target], Partial}
           Deleted(t) ==
             /\ status[t[1]] # "active"
             /\ leaseOf # t[1]
             /\ revision[t[1]] = expect[applier][t[1]]
             /\ \/ content[t] \in {reviewed[applier][t], Partial}
                \/ t[2] = "worktree" /\ content[<<t[1], "branch">>] = content[t]
<1>1. CleanupInv /\ [Next]_vars => Begins
  <2> SUFFICES ASSUME CleanupInv, [Next]_vars, at # "remove", at' = "remove"
               PROVE  content[target] \in {reviewed[applier][target], Partial}
    OBVIOUS
  <2>1. ~JobAction /\ ~PlanAction /\ ~UNCHANGED vars
    BY JobFrame, PlanFacts DEF Plans, vars, applyVars
  <2>2. ~Removal /\ ~AlreadyGone
    BY DEF Removal, Remove, CutRemove, DeleteBranch, AlreadyGone, Idle
  <2>3. ~Reserve /\ ~CommitAction /\ ~\E t \in Target : Skip(t) \/ MarkApplying(t)
    BY DEF Reserve, CommitAction, Skip, MarkApplying
  <2>4. /\ ~\E r \in Run : ApplyCompleted(r) \/ BeginApply(r)
        /\ ~(CompleteRun \/ CompleteUnreported \/ InterruptRun \/ CrashApply)
    BY DEF ApplyCompleted, BeginApply, CompleteRun, CompleteUnreported, InterruptRun,
           CrashApply, Idle, applyVars
  <2>5. Compare
    BY <2>1, <2>2, <2>3, <2>4 DEF Next, JobAction, PlanAction, Removal
  <2> QED  BY <2>5 DEF Compare, Deletable, PartlyRemoved
<1>2. ASSUME CleanupInv, [Next]_vars, NEW t \in Target, Removed(t)
      PROVE  Deleted(t)
  <2> USE DEF jobVars, dataVars
  <2>1. content \in [Target -> Content] /\ revision \in [Job -> 0..MaxRevision]
        /\ content'[t] \in {Absent, Partial} /\ content'[t] # content[t]
    BY <1>2 DEF CleanupInv, TypeOK, Removed
  <2>2. CASE Removal
    <3>1. at \in {"delete", "remove"} /\ t = target
      BY <2>1, <2>2 DEF Removal, Remove, CutRemove, DeleteBranch, Without
    <3>2. \/ content[t] \in {reviewed[applier][t], Partial}
          \/ t[2] = "worktree" /\ content[<<t[1], "branch">>] = content[t]
      <4>1. CASE DeleteBranch
        BY <3>1, <4>1 DEF DeleteBranch, Deletable, PartlyRemoved
      <4>2. CASE at = "remove"
        BY <1>2, <3>1, <4>2 DEF CleanupInv, StillReviewed
      <4> QED  BY <2>2, <4>1, <4>2 DEF Removal, Remove, CutRemove
    <3>3. /\ status[t[1]] # "active" /\ leaseOf # t[1]
          /\ revision[t[1]] = expect[applier][t[1]]
      BY <1>2, <3>1, TargetIsHeld DEF CleanupInv, TargetIsCurrent
    <3> QED  BY <3>2, <3>3
  <2>3. ~JobAction
    <3>1. ASSUME NEW j \in Job, Work(j) \/ CommitEdits(j) PROVE FALSE
      <4>1. content'[t] \in {content[t], revision[j], Edited}
        BY <2>1, <3>1 DEF Work, CommitEdits
      <4>2. revision[j] \in 0..MaxRevision
        BY <2>1
      <4> QED  BY <2>1, <4>1, <4>2, Contents
    <3>2. ~\E j \in Job : \/ AcquireForResume(j) \/ CheckEvidence(j) \/ Consume(j)
                          \/ LetGo(j) \/ EndJob(j) \/ Edit(j)
      BY <2>1 DEF AcquireForResume, CheckEvidence, Consume, LetGo, EndJob, Edit
    <3> QED  BY <3>1, <3>2 DEF JobAction
  <2>4. ~PlanAction /\ ~UNCHANGED vars
    BY <1>2, <2>1, PlanFacts DEF Plans, vars
  <2>5. ~Reserve /\ ~CommitAction /\ ~AlreadyGone /\ ~Compare
    BY <2>1 DEF Reserve, CommitAction, AlreadyGone, Compare
  <2>6. /\ ~\E r \in Run : ApplyCompleted(r) \/ BeginApply(r)
        /\ ~\E u \in Target : Skip(u) \/ MarkApplying(u)
    BY <2>1 DEF ApplyCompleted, BeginApply, Skip, MarkApplying
  <2>7. ~(CompleteRun \/ CompleteUnreported \/ InterruptRun \/ CrashApply)
    BY <2>1 DEF CompleteRun, CompleteUnreported, InterruptRun, CrashApply
  <2> QED
    BY <1>2, <2>2, <2>3, <2>4, <2>5, <2>6, <2>7 DEF Next, JobAction, PlanAction, Removal
<1>3. CleanupInv /\ [Next]_vars => [Begins /\ \A t \in Target : Removed(t) => Deleted(t)]_vars
  BY <1>1, <1>2
<1> QED  BY <1>3, CleanupInvariant, PTL DEF Spec, DeletesWhatWasReviewed

=============================================================================
