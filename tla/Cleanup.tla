-------------------------------- MODULE Cleanup --------------------------------
(***************************************************************************)
(* Retention of terminal jobs (cleanup.ts): plans made from a snapshot of  *)
(* jobs that go on living, their application by one process at a time, its *)
(* crashes and retries, and the resume of an interrupted job that competes *)
(* with it for the job (dispatcher.ts, lease.ts, resume.ts, store.ts).     *)
(*                                                                         *)
(* A target is one kind of content of one job; its content is named by the *)
(* job's revision when it was written: the digest of an artifact or a      *)
(* cache, the head of a worktree or a branch. A worktree may also have     *)
(* files that are not committed, which its digest in the plan covers.      *)
(* Ages, byte quotas and minimum evidence decide which targets a plan      *)
(* selects: any selection they could make is allowed.                      *)
(* The apply lock is module ProcessLock: here at most one process applies. *)
(***************************************************************************)
EXTENDS Integers, FiniteSets

CONSTANTS
  Job,
  NRuns,          \* bound: cleanup plans ever made, numbered in rowid order
  MaxRevision,    \* bound: revisions of a job
  MayBeCut,       \* may a recursive removal be killed halfway?
  None

Run == 1..NRuns
Kind == {"artifact", "cache", "worktree", "branch"}
Target == Job \X Kind

ASSUME CleanupAssumption ==
  /\ NRuns \in Nat \ {0}
  /\ MaxRevision \in Nat
  /\ MayBeCut \in BOOLEAN
  /\ None \notin Job \union Target \union Run

Absent == -1
Partial == -2
Edited == MaxRevision + 1    \* a commit of the owner's
Content == {Absent, Partial} \union 0..Edited

VARIABLES
  status, revision,  \* per job, of its state row
  uncertain,         \* per job, has the last attempt an open or uncertain checkpoint?
  audited,           \* per job, is evidence recorded as missing or quarantined?
  leaseOf,           \* the job the global lease is held for
  resumer,           \* where the resume that holds it is
  content,           \* per target, what is on disk or in the repository
  uncommitted,       \* per job, has the worktree edits that are not committed?
  retained,          \* per job, retention_status of the artifact's row
  run,               \* per run, its status; "planning" before it is inserted
  expect,            \* per run and job, the revision the plan read
  safe,              \* per run and job, what the plan found out about the job
  action,            \* per run and target, the status of its delete action, if it has one
  reviewed,          \* per run and target, the content it is to delete
  inventoried,       \* per run and job, the uncommitted edits in the worktree's digest
  reserved,          \* per job, the run of its row in cleanup_job_reservations
  applier, at,       \* the run being applied, and where
  target,            \* the action it is in
  begun, left        \* the actions already applying at its start, the actions to come

jobVars == <<status, revision, uncertain, leaseOf, resumer>>
dataVars == <<content, uncommitted, retained>>
planVars == <<expect, safe, reviewed, inventoried>>
applyVars == <<applier, at, target, begun, left>>
vars == <<jobVars, dataVars, audited, planVars, run, action, reserved, applyVars>>

JobStatus == {"interrupted", "succeeded", "active"}
RunStatus == {"none", "planning", "planned", "applying", "interrupted", "completed"}
ActionStatus == {"none", "planned", "applying", "applied", "skipped"}

Init ==
  /\ status = [j \in Job |-> "interrupted"]
  /\ revision = [j \in Job |-> 0]
  /\ uncertain = [j \in Job |-> FALSE]
  /\ audited = [j \in Job |-> FALSE]
  /\ leaseOf = None
  /\ resumer = "idle"
  /\ content = [t \in Target |-> 0]
  /\ uncommitted = [j \in Job |-> FALSE]
  /\ retained = [j \in Job |-> TRUE]
  /\ run = [r \in Run |-> "none"]
  /\ expect = [r \in Run |-> [j \in Job |-> Absent]]
  /\ safe = [r \in Run |-> [j \in Job |-> "unread"]]
  /\ action = [r \in Run |-> [t \in Target |-> "none"]]
  /\ reviewed = [r \in Run |-> [t \in Target |-> Absent]]
  /\ inventoried = [r \in Run |-> [j \in Job |-> FALSE]]
  /\ reserved = [j \in Job |-> None]
  /\ applier = None
  /\ at = "idle"
  /\ target = None
  /\ begun = {}
  /\ left = {}

-----------------------------------------------------------------------------
(* The job: its resume and its end *)

\* GlobalJobLease.acquire, in one transaction with the check of the reservation.
AcquireForResume(j) ==
  /\ leaseOf = None
  /\ reserved[j] = None
  /\ leaseOf' = j
  /\ resumer' = "acquired"
  /\ UNCHANGED <<status, revision, uncertain, dataVars, audited, planVars, run, action,
                 reserved, applyVars>>

Resumable(j) == status[j] = "interrupted" /\ ~uncertain[j] /\ reserved[j] = None

\* Mutant of CheckEvidence: the worktree and the branch are not looked at.
CheckStatus(j) ==
  /\ resumer = "acquired"
  /\ leaseOf = j
  /\ Resumable(j)
  /\ resumer' = "checked"
  /\ UNCHANGED <<status, revision, uncertain, leaseOf, dataVars, audited, planVars, run,
                 action, reserved, applyVars>>

\* readResumeConfirmation and assertResumePlanEvidence, under the lease: the plan
\* the owner confirmed names the worktree, the branch and their content.
CheckEvidence(j) ==
  /\ resumer = "acquired"
  /\ leaseOf = j
  /\ Resumable(j)
  /\ content[<<j, "worktree">>] >= 0
  /\ content[<<j, "branch">>] >= 0
  /\ resumer' = "checked"
  /\ UNCHANGED <<status, revision, uncertain, leaseOf, dataVars, audited, planVars, run,
                 action, reserved, applyVars>>

\* consumeResumeConfirmation; its revision is the one the evidence was read at.
Consume(j) ==
  /\ resumer = "checked"
  /\ leaseOf = j
  /\ Resumable(j)
  /\ revision[j] + 1 < MaxRevision
  /\ status' = [status EXCEPT ![j] = "active"]
  /\ revision' = [revision EXCEPT ![j] = @ + 1]
  /\ resumer' = "idle"
  /\ UNCHANGED <<uncertain, leaseOf, dataVars, audited, planVars, run, action, reserved,
                 applyVars>>

\* The lease is released or, when its holder is dead, reconciled.
LetGo(j) ==
  /\ leaseOf = j
  /\ leaseOf' = None
  /\ resumer' = "idle"
  /\ UNCHANGED <<status, revision, uncertain, dataVars, audited, planVars, run, action,
                 reserved, applyVars>>

\* The attempt writes: a commit of all there is moves the worktree and its branch
\* together, and an artifact, written with the caches, is a retained one.
Work(j) ==
  /\ status[j] = "active"
  /\ \E K \in {{"artifact", "cache"}, {"worktree", "branch"}} :
       /\ \E k \in K : content[<<j, k>>] # revision[j]
       /\ content' = [t \in Target |-> IF t[1] = j /\ t[2] \in K THEN revision[j]
                                       ELSE content[t]]
       /\ retained' = [retained EXCEPT ![j] = @ \/ "artifact" \in K]
       /\ uncommitted' = [uncommitted EXCEPT ![j] = @ /\ "worktree" \notin K]
  /\ UNCHANGED <<jobVars, audited, planVars, run, action, reserved, applyVars>>

\* Mutant of EndJob: the row is written twice.
EndJobTwice(j) ==
  /\ status[j] = "active"
  /\ status' = [status EXCEPT ![j] = "succeeded"]
  /\ revision' = [revision EXCEPT ![j] = @ + 2]
  /\ UNCHANGED <<uncertain, leaseOf, resumer, dataVars, audited, planVars, run, action,
                 reserved, applyVars>>

\* finalizeTerminal, or the reconciliation of a dead worker; the attempt's lease may go
\* with it.
EndJob(j) ==
  /\ status[j] = "active"
  /\ \/ status' = [status EXCEPT ![j] = "succeeded"] /\ UNCHANGED uncertain
     \/ /\ status' = [status EXCEPT ![j] = "interrupted"]
        /\ \E u \in BOOLEAN : uncertain' = [uncertain EXCEPT ![j] = u]
  /\ revision' = [revision EXCEPT ![j] = @ + 1]
  /\ leaseOf' \in IF leaseOf = j /\ resumer = "idle" THEN {j, None} ELSE {leaseOf}
  /\ UNCHANGED <<resumer, dataVars, audited, planVars, run, action, reserved, applyVars>>

\* The owner edits files in the worktree of a job that has ended (bound: until the
\* first commit) ...
Edit(j) ==
  /\ status[j] # "active"
  /\ content[<<j, "worktree">>] \in 0..MaxRevision
  /\ uncommitted' = [uncommitted EXCEPT ![j] = TRUE]
  /\ UNCHANGED <<content, retained, jobVars, audited, planVars, run, action, reserved,
                 applyVars>>

\* ... and commits them.
CommitEdits(j) ==
  /\ status[j] # "active"
  /\ uncommitted[j]
  /\ \A k \in {"worktree", "branch"} : content[<<j, k>>] \in 0..MaxRevision
  /\ content' = [t \in Target |-> IF t \in {<<j, "worktree">>, <<j, "branch">>} THEN Edited
                                  ELSE content[t]]
  /\ uncommitted' = [uncommitted EXCEPT ![j] = FALSE]
  /\ UNCHANGED <<jobVars, retained, audited, planVars, run, action, reserved, applyVars>>

-----------------------------------------------------------------------------
(* plan *)

\* databaseUnsafeReason; content in quarantine counts with the audit.
DatabaseUnsafe(j) == leaseOf = j \/ uncertain[j] \/ audited[j]

\* unsafeReason
Unsafe(j) == status[j] = "active" \/ DatabaseUnsafe(j)

BeginPlan(r) ==
  /\ run[r] = "none"
  /\ r > 1 => run[r - 1] \notin {"none", "planning"}
  /\ run' = [run EXCEPT ![r] = "planning"]
  /\ UNCHANGED <<jobVars, dataVars, audited, planVars, action, reserved, applyVars>>

\* The state of one job, and whether it may be touched.
PlanState(r, j) ==
  /\ run[r] = "planning"
  /\ safe[r][j] = "unread"
  /\ expect' = [expect EXCEPT ![r][j] = revision[j]]
  /\ safe' = [safe EXCEPT ![r][j] = IF Unsafe(j) THEN "unsafe" ELSE "unverified"]
  /\ UNCHANGED <<jobVars, dataVars, audited, reviewed, inventoried, run, action, reserved,
                 applyVars>>

\* The delete actions of the plan for K, with the content it found.
Select(r, j, K) ==
  /\ action' = [action EXCEPT ![r] =
                  [t \in Target |-> IF t[1] = j /\ t[2] \in K THEN "planned" ELSE @[t]]]
  /\ reviewed' = [reviewed EXCEPT ![r] =
                    [t \in Target |-> IF t[1] = j /\ t[2] \in K THEN content[t] ELSE @[t]]]

\* The rows of the artifacts, and verifyArtifactIntegrity: a retained artifact that is
\* not there is an audit entry. What age and quota select may be anything.
PlanVerify(r, j) ==
  /\ run[r] = "planning"
  /\ safe[r][j] = "unverified"
  /\ LET missing == retained[j] /\ content[<<j, "artifact">>] = Absent IN
       /\ audited' = [audited EXCEPT ![j] = @ \/ missing]
       /\ safe' = [safe EXCEPT ![r][j] = IF missing THEN "unsafe" ELSE "verified"]
       /\ \E K \in {{}, {"artifact"}} :
            /\ K # {} => retained[j] /\ ~missing
            /\ Select(r, j, K)
  /\ UNCHANGED <<jobVars, dataVars, expect, inventoried, run, reserved, applyVars>>

\* Other content is selected if it is there, a worktree with its branch, and a branch
\* alone only where there is no worktree.
Selectable(j) ==
  {K \in SUBSET {"cache", "worktree", "branch"} :
     /\ \A k \in K : content[<<j, k>>] # Absent
     /\ "worktree" \in K => "branch" \in K
     /\ "branch" \in K => "worktree" \in K \/ content[<<j, "worktree">>] = Absent}

\* The inventory of the caches, and the identity of worktree and branch with the digest
\* of all the files in the worktree.
PlanInventory(r, j) ==
  /\ run[r] = "planning"
  /\ safe[r][j] = "verified"
  /\ safe' = [safe EXCEPT ![r][j] = "safe"]
  /\ \E K \in Selectable(j) :
       /\ Select(r, j, K)
       /\ inventoried' = [inventoried EXCEPT ![r][j] = "worktree" \in K /\ uncommitted[j]]
  /\ UNCHANGED <<jobVars, dataVars, audited, expect, run, reserved, applyVars>>

\* The transaction that inserts the run with its actions.
CommitPlan(r) ==
  /\ run[r] = "planning"
  /\ \A j \in Job : safe[r][j] \in {"safe", "unsafe"}
  /\ safe' = [safe EXCEPT ![r] = [j \in Job |-> "unread"]]
  /\ run' = [run EXCEPT ![r] = "planned"]
  /\ UNCHANGED <<jobVars, dataVars, audited, expect, reviewed, inventoried, action, reserved,
                 applyVars>>

-----------------------------------------------------------------------------
(* apply *)

Deletes(r) == {t \in Target : action[r][t] # "none"}
JobsOf(r) == {t[1] : t \in Deletes(r)}

Released(r) == [j \in Job |-> IF reserved[j] = r THEN None ELSE reserved[j]]

Idle ==
  /\ applier' = None
  /\ at' = "idle"
  /\ target' = None
  /\ begun' = {}
  /\ left' = {}

\* A completed run only drops what is left of its reservations.
ApplyCompleted(r) ==
  /\ at = "idle"
  /\ run[r] = "completed"
  /\ reserved' = Released(r)
  /\ UNCHANGED <<jobVars, dataVars, audited, planVars, run, action, applyVars>>

BeginApply(r) ==
  /\ at = "idle"
  /\ run[r] \in {"planned", "applying", "interrupted"}
  /\ applier' = r
  /\ at' = "reserve"
  /\ run' = [run EXCEPT ![r] = "applying"]
  /\ begun' = {t \in Target : action[r][t] = "applying"}
  /\ left' = {t \in Deletes(r) : action[r][t] # "applied"}
  /\ UNCHANGED <<target, jobVars, dataVars, audited, planVars, action, reserved>>

Reservable(r, j) ==
  /\ revision[j] = expect[r][j]
  /\ ~DatabaseUnsafe(j)
  /\ reserved[j] \in {None, r}

\* reserveJobs: all of the run's jobs or none.
Reserve ==
  /\ at = "reserve"
  /\ \A j \in JobsOf(applier) : Reservable(applier, j)
  /\ reserved' = [j \in Job |-> IF j \in JobsOf(applier) THEN applier ELSE reserved[j]]
  /\ at' = "loop"
  /\ UNCHANGED <<jobVars, dataVars, audited, planVars, run, action, applier, target,
                 begun, left>>

Rank(k) == CASE k = "artifact" -> 1 [] k = "cache" -> 2 [] k = "worktree" -> 3 [] OTHER -> 4

\* The next action of a job; jobs are taken in any order.
IsNext(t) ==
  /\ at = "loop"
  /\ t \in left
  /\ \A u \in left : u[1] = t[1] => Rank(t[2]) <= Rank(u[2])

Current(r, j) == revision[j] = expect[r][j] /\ ~Unsafe(j)

\* The earliest run before this one that has not skipped the same target.
Prior(r, t) == {p \in Run : p < r /\ action[p][t] \in {"planned", "applying", "applied"}}
First(P) == CHOOSE p \in P : \A q \in P : p <= q
PriorIs(r, t, statuses) == Prior(r, t) # {} /\ action[First(Prior(r, t))][t] \in statuses

\* An earlier run deleted the target.
Skip(t) ==
  /\ IsNext(t)
  /\ Current(applier, t[1])
  /\ PriorIs(applier, t, {"applied"})
  /\ action' = [action EXCEPT ![applier][t] = "skipped"]
  /\ left' = left \ {t}
  /\ UNCHANGED <<jobVars, dataVars, audited, planVars, run, reserved, applier, at,
                 target, begun>>

\* The checks of applyAction, and markApplying.
MarkApplying(t) ==
  /\ IsNext(t)
  /\ Current(applier, t[1])
  /\ Prior(applier, t) = {}
  /\ action' = [action EXCEPT ![applier][t] = "applying"]
  /\ at' = "delete"
  /\ target' = t
  /\ UNCHANGED <<jobVars, dataVars, audited, planVars, run, reserved, applier, begun, left>>

\* The branch goes after the worktree that has it checked out.
WorktreeFirst(t) ==
  t[2] = "branch" => action[applier][<<t[1], "worktree">>] \in {"none", "applied"}

\* A worktree is known by its head: one that was removed in part may still have it.
PartlyRemoved(t) == t[2] = "worktree" /\ content[t] = Partial

\* Mutant of Deletable: the content is not compared with the plan's.
DeletableUnreviewed(t) ==
  /\ WorktreeFirst(t)
  /\ content[t] # Absent

\* What is there is what was reviewed, as far as the code compares it: the digest of an
\* artifact or a cache, the head of a branch, and of a worktree nothing but its head.
Deletable(t) ==
  /\ WorktreeFirst(t)
  /\ content[t] # Absent
  /\ content[t] = reviewed[applier][t] \/ PartlyRemoved(t)

\* An earlier attempt of this action removed the target.
AlreadyGone ==
  /\ at = "delete"
  /\ WorktreeFirst(target)
  /\ content[target] = Absent
  /\ target \in begun
  /\ at' = "commit"
  /\ UNCHANGED <<jobVars, dataVars, audited, planVars, run, action, reserved, applier,
                 target, begun, left>>

\* A file, a cache or a worktree is compared with the plan first ...
Compare ==
  /\ at = "delete"
  /\ target[2] # "branch"
  /\ Deletable(target)
  /\ at' = "remove"
  /\ UNCHANGED <<jobVars, dataVars, audited, planVars, run, action, reserved, applier,
                 target, begun, left>>

Without(t, remains) ==
  /\ content' = [content EXCEPT ![t] = remains]
  /\ uncommitted' = [uncommitted EXCEPT ![t[1]] =
                       @ /\ (t[2] = "worktree" => remains # Absent)]

\* ... and removed in a call of its own: rm, or git worktree remove --force, which
\* takes what it finds.
Remove ==
  /\ at = "remove"
  /\ Without(target, Absent)
  /\ at' = "commit"
  /\ UNCHANGED <<retained, jobVars, audited, planVars, run, action, reserved, applier,
                 target, begun, left>>

\* The process is killed in the middle of a recursive removal.
CutRemove ==
  /\ MayBeCut
  /\ at = "remove"
  /\ target[2] \in {"cache", "worktree"}
  /\ Without(target, Partial)
  /\ Idle
  /\ UNCHANGED <<retained, jobVars, audited, planVars, run, action, reserved>>

\* git update-ref -d compares the head and deletes the ref in one.
DeleteBranch ==
  /\ at = "delete"
  /\ target[2] = "branch"
  /\ Deletable(target)
  /\ Without(target, Absent)
  /\ at' = "commit"
  /\ UNCHANGED <<retained, jobVars, audited, planVars, run, action, reserved, applier,
                 target, begun, left>>

\* Mutant of CommitAction: the artifact's row stays retained.
CommitActionOnly ==
  /\ at = "commit"
  /\ action' = [action EXCEPT ![applier][target] = "applied"]
  /\ left' = left \ {target}
  /\ at' = "loop"
  /\ target' = None
  /\ UNCHANGED <<jobVars, dataVars, audited, planVars, run, reserved, applier, begun>>

CommitAction ==
  /\ at = "commit"
  /\ action' = [action EXCEPT ![applier][target] = "applied"]
  /\ retained' = IF target[2] = "artifact" THEN [retained EXCEPT ![target[1]] = FALSE]
                 ELSE retained
  /\ left' = left \ {target}
  /\ at' = "loop"
  /\ target' = None
  /\ UNCHANGED <<content, uncommitted, jobVars, audited, planVars, run, reserved, applier,
                 begun>>

CompleteRun ==
  /\ at = "loop"
  /\ left = {}
  /\ run' = [run EXCEPT ![applier] = "completed"]
  /\ reserved' = Released(applier)
  /\ Idle
  /\ UNCHANGED <<jobVars, dataVars, audited, planVars, action>>

\* The run is completed, but an event of one of its jobs cannot be written: the catch
\* block says interrupted although nothing is left to do.
CompleteUnreported ==
  /\ at = "loop"
  /\ left = {}
  /\ run' = [run EXCEPT ![applier] = "interrupted"]
  /\ reserved' = Released(applier)
  /\ Idle
  /\ UNCHANGED <<jobVars, dataVars, audited, planVars, action>>

\* A check fails, or the removal does; after another failing call the run differs from
\* that of a crash in its status only.
Throws ==
  \/ at = "reserve" /\ \E j \in JobsOf(applier) : ~Reservable(applier, j)
  \/ \E t \in left :
       /\ IsNext(t)
       /\ ~Current(applier, t[1]) \/ PriorIs(applier, t, {"planned", "applying"})
  \/ at \in {"delete", "remove"}

\* Mutant of InterruptRun: the reservations always go.
InterruptAndRelease ==
  /\ Throws
  /\ run' = [run EXCEPT ![applier] = "interrupted"]
  /\ reserved' = Released(applier)
  /\ Idle
  /\ UNCHANGED <<jobVars, dataVars, audited, planVars, action>>

\* The catch block: the reservations go unless something has been deleted.
InterruptRun ==
  /\ Throws
  /\ run' = [run EXCEPT ![applier] = "interrupted"]
  /\ reserved' = IF \E t \in Target : action[applier][t] \in {"applying", "applied"}
                 THEN reserved ELSE Released(applier)
  /\ Idle
  /\ UNCHANGED <<jobVars, dataVars, audited, planVars, action>>

\* The process dies between two of its steps.
CrashApply ==
  /\ at # "idle"
  /\ Idle
  /\ UNCHANGED <<jobVars, dataVars, audited, planVars, run, action, reserved>>

-----------------------------------------------------------------------------
Next ==
  \/ \E j \in Job :
       \/ AcquireForResume(j) \/ CheckEvidence(j) \/ Consume(j) \/ LetGo(j)
       \/ Work(j) \/ EndJob(j) \/ Edit(j) \/ CommitEdits(j)
  \/ \E r \in Run :
       \/ BeginPlan(r) \/ CommitPlan(r) \/ ApplyCompleted(r) \/ BeginApply(r)
       \/ \E j \in Job : PlanState(r, j) \/ PlanVerify(r, j) \/ PlanInventory(r, j)
  \/ Reserve \/ AlreadyGone \/ Compare \/ Remove \/ CutRemove \/ DeleteBranch
  \/ CommitAction \/ CompleteRun
  \/ CompleteUnreported \/ InterruptRun \/ CrashApply
  \/ \E t \in Target : Skip(t) \/ MarkApplying(t)

Spec == Init /\ [][Next]_vars

-----------------------------------------------------------------------------
(* Properties *)

\* Type correctness of the tables and of the applying process.
TypeOK ==
  /\ status \in [Job -> JobStatus]
  /\ revision \in [Job -> 0..MaxRevision]
  /\ uncertain \in [Job -> BOOLEAN]
  /\ audited \in [Job -> BOOLEAN]
  /\ leaseOf \in Job \union {None}
  /\ resumer \in {"idle", "acquired", "checked"}
  /\ content \in [Target -> Content]
  /\ uncommitted \in [Job -> BOOLEAN]
  /\ retained \in [Job -> BOOLEAN]
  /\ run \in [Run -> RunStatus]
  /\ expect \in [Run -> [Job -> {Absent} \union 0..MaxRevision]]
  /\ safe \in [Run -> [Job -> {"unread", "unverified", "verified", "safe", "unsafe"}]]
  /\ action \in [Run -> [Target -> ActionStatus]]
  /\ reviewed \in [Run -> [Target -> Content]]
  /\ inventoried \in [Run -> [Job -> BOOLEAN]]
  /\ reserved \in [Job -> Run \union {None}]
  /\ applier \in Run \union {None}
  /\ at \in {"idle", "reserve", "loop", "delete", "remove", "commit"}
  /\ target \in Target \union {None}
  /\ begun \subseteq Target
  /\ left \subseteq Target

\* A running attempt has its worktree and its branch: no cleanup removes them between
\* the checks of a resume and its start, nor afterwards, however old its plan is
\* (lease.ts:124-141, cleanup.ts reserveJobs, src/docs/adrs/0018 "a resume cannot
\* become active between validation and filesystem deletion").
ActiveJobIsWhole ==
  \A j \in Job : status[j] = "active" =>
    content[<<j, "worktree">>] >= 0 /\ content[<<j, "branch">>] >= 0

Pending(r) == {t \in Target : action[r][t] \in {"planned", "applying"}}

\* A run that has begun to delete and has not finished keeps every job it will delete
\* from, across crashes and failures, so no other run and no resume gets one
\* (cleanup.ts, the catch block of applyWithLock).
StartedRunKeepsItsJobs ==
  \A r \in Run :
    (Pending(r) # {} /\ \E t \in Target : action[r][t] \in {"applying", "applied"}) =>
      \A j \in JobsOf(r) : reserved[j] = r

\* The rows account for the files: a retained artifact that is not on disk is one a
\* run is in the middle of deleting, also after a crash (cleanup.ts, the artifact case
\* of applyAction).
MissingIsBeingDeleted ==
  \A j \in Job :
    (retained[j] /\ content[<<j, "artifact">>] = Absent) =>
      \E r \in Run : action[r][<<j, "artifact">>] = "applying" /\ reserved[j] = r

\* What a step deletes.
Removed(t) == content'[t] \in {Absent, Partial} /\ content'[t] # content[t]

\* A removal begins only of a target that is, by digest or head, the reviewed one. By
\* then and until it is over, although check and removal are separate calls, its job is
\* terminal at the revision the plan read and no lease is held for it, and only a
\* worktree's head may have moved on, to a commit that its branch keeps (cleanup.ts
\* applyAction; src/docs/adrs/0018 "A changed target fails the run instead of being
\* substituted").  It says nothing of edits that are not committed.
DeletesWhatWasReviewed ==
  [][/\ at # "remove" /\ at' = "remove" =>
          content[target] \in {reviewed[applier][target], Partial}
     /\ \A t \in Target : Removed(t) =>
          /\ status[t[1]] # "active"
          /\ leaseOf # t[1]
          /\ revision[t[1]] = expect[applier][t[1]]
          /\ \/ content[t] \in {reviewed[applier][t], Partial}
             \/ t[2] = "worktree" /\ content[<<t[1], "branch">>] = content[t]]_vars

\* The plan reviewed the edits that go with a worktree (src/docs/adrs/0018 "Before each
\* deletion it rechecks the ... digest"). This does not hold: the digest the plan
\* records of a worktree is not compared, and an edit may also come after the check.
DeletesReviewedEdits ==
  [][\A j \in Job : Removed(<<j, "worktree">>) =>
       (uncommitted[j] => inventoried[applier][j])]_vars

=============================================================================
