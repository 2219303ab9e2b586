------------------------------- MODULE Recovery -------------------------------
(***************************************************************************)
(* Checkpoints, worker death and safe resume of one job: worker.ts's stage *)
(* pipeline, the recovery_checkpoints, execution_attempts and              *)
(* resume_confirmations transactions of store.ts, resume.ts, and the       *)
(* worktree and processes they act on.                                     *)
(*                                                                         *)
(* Who may run is JobControl's subject: here the lease admits a resume     *)
(* only when no worker is left, and a job is interrupted when its worker   *)
(* is gone or, with LiveMayBeInterrupted, wrongly found gone.  The gates   *)
(* and Prime processes a worker started survive it (process.ts and         *)
(* agent.ts spawn them detached), and so do, with GitSurvives, its git     *)
(* commands; each may finish or end at any later time.                     *)
(***************************************************************************)
EXTENDS Naturals, FiniteSets

CONSTANTS
  Client,                \* processes that preview and confirm resumes
  NGates,                \* verification gates of the job
  MaxAttempts,           \* bound on execution attempts
  MaxFiles,              \* bound on changes of the worktree's files
  LiveMayBeInterrupted,  \* may a live worker's job be interrupted?
  GitSurvives,           \* may a git command outlive the worker that ran it?
  GitMayBeCut,           \* may git worktree add end halfway?
  Editable               \* may others edit the worktree?

ASSUME BoundsAssumption ==
  NGates \in Nat /\ MaxAttempts \in Nat \ {0} /\ MaxFiles \in Nat
ASSUME RecoveryFaults == {LiveMayBeInterrupted, GitSurvives, GitMayBeCut, Editable} \subseteq BOOLEAN

Attempt == 1..MaxAttempts

\* The operations of an attempt in STAGE_ORDER; a stage of several operations,
\* verification, has one for each gate.
Worktree == 1
Provision == 2
Prime == 3
Quiesce == 4
Gates == 5..(4 + NGates)
Commit == 5 + NGates
Terminal == 6 + NGates
Op == 1..Terminal

VARIABLES
  \* the store: the state, the checkpoints and resume plan of each attempt,
  \* the commit a checkpoint or plan records, and the confirmations handed out
  status, current, cp, plan, sha, offers,
  \* the worktree: how complete it is, the version of its files, of its index
  \* and of HEAD, and the number of commits at HEAD over the base
  tree, files, index, committed, head,
  \* the attempts whose worker was at work when somebody edited the worktree
  touched,
  \* workers, one for each attempt, and the process of their current operation
  wpc, at, proc, agent,
  \* how often Prime and each gate were started
  runs,
  \* previewing and confirming clients
  client

storeVars == <<status, current, cp, plan, sha, offers>>
worldVars == <<tree, files, index, committed, head, touched>>
workerVars == <<wpc, at, proc, agent, runs>>
vars == <<storeVars, worldVars, workerVars, client>>

WorkerAlive(a) == wpc[a] \in {"queued", "begin", "work", "failing"}
Working == \E a \in Attempt : WorkerAlive(a)

\* The attempt a checkpoint transaction accepts.
IsActive(a) == current = a /\ status = "live"

-----------------------------------------------------------------------------
(* Evidence *)

NoPlan == [attempt |-> 0, next |-> Worktree, commit |-> 0, snapshot |-> <<"none", 0>>]

\* snapshotWorktree sees files, not how git worktree add got on.
Snapshot == <<tree, files>>

\* mergeResumeEvidence: an attempt inherits every operation before the stage
\* its plan starts at.
Evidence(a) == [o \in Op |-> IF o < plan[a].next THEN "completed" ELSE cp[a][o]]

Done(a, o) == Evidence(a)[o] = "completed"

\* verifyPreservedWorktree: a worktree of this repository on its branch, with
\* HEAD at the recorded commit or else at the base.
WorktreeMatches(commit) == tree \in {"partial", "exact"} /\ head = commit

\* Mutant: the plan's worktree is compared by HEAD alone.
PlanHoldsByHead(p) == p.next # Worktree => WorktreeMatches(p.commit)

\* assertResumePlanEvidence.
PlanHolds(p) ==
  p.next # Worktree => WorktreeMatches(p.commit) /\ Snapshot = p.snapshot

\* Mutants: an inspection that marks a worktree it cannot classify failed, and
\* one that settles an uncertain commit only when there is none.
ResolutionsWithFailure(o) ==
  CASE o = Worktree -> IF WorktreeMatches(0) THEN {"completed"}
                       ELSE IF tree = "absent" THEN {"retryable"} ELSE {"failed"}
    [] o = Commit -> IF head = 0 THEN {"retryable"} ELSE {"completed"}
    [] o \in {Provision, Terminal} -> {"retryable"}
    [] OTHER -> {}

ResolutionsWithoutCommit(o) ==
  CASE o = Worktree -> IF WorktreeMatches(0) THEN {"completed"}
                       ELSE IF tree = "absent" THEN {"retryable"} ELSE {}
    [] o \in {Provision, Terminal} \/ (o = Commit /\ head = 0) -> {"retryable"}
    [] OTHER -> {}

\* inspectUncertainWorktree, inspectUncertainCommit and the fixed decisions for
\* the other two: what an uncertain operation that may be reconciled becomes.
Resolutions(o) ==
  CASE o = Worktree -> IF WorktreeMatches(0) THEN {"completed"}
                       ELSE IF tree = "absent" THEN {"retryable"} ELSE {}
    [] o = Provision -> {"retryable"}
    [] o = Commit -> IF head = 0 THEN {"retryable"} ELSE IF head = 1 THEN {"completed"} ELSE {}
    [] o = Terminal -> {"retryable"}
    [] OTHER -> {}

Reconcilable == {Worktree, Provision, Commit, Terminal}
Uncertain(a) == {o \in Op : Evidence(a)[o] = "uncertain"}

\* The stage assessSafeResume continues with.
NextStage(a) ==
  IF ~Done(a, Worktree) THEN Worktree
  ELSE IF ~Done(a, Prime) THEN Provision
  ELSE CHOOSE o \in Gates \union {Commit, Terminal} :
         /\ ~Done(a, o)
         /\ \A p \in Gates \union {Commit} : p < o => Done(a, p)

\* Mutant: a completed Prime run counts as a quiesced one.
SafeUnquiesced(a) ==
  /\ Uncertain(a) = {}
  /\ Done(a, Worktree) => WorktreeMatches(sha[a])
  /\ \A o \in Gates : Evidence(a)[o] # "failed"
  /\ ~Done(a, Terminal)

\* Its checks once every reconcilable operation is settled: nothing uncertain,
\* the worktree as recorded, Prime quiesced if it completed, no failed gate,
\* and completed operations that depend on completed ones.
SafeToResume(a) ==
  /\ Uncertain(a) = {}
  /\ Done(a, Worktree) => WorktreeMatches(sha[a])
  /\ Done(a, Prime) => Done(a, Quiesce)
  /\ \A o \in Gates : Evidence(a)[o] # "failed"
  /\ ~Done(a, Terminal)
  /\ \A o \in Op \ {Quiesce}, p \in Op \ {Quiesce} : p < o /\ Done(a, o) => Done(a, p)

ResumePlan(a) ==
  [attempt |-> a, next |-> NextStage(a), commit |-> sha[a],
   snapshot |-> IF Done(a, Worktree) THEN Snapshot ELSE <<"none", 0>>]

-----------------------------------------------------------------------------
(* The worker of an attempt *)

Goto(a, pc, o) ==
  /\ wpc' = [wpc EXCEPT ![a] = pc]
  /\ at' = [at EXCEPT ![a] = o]

\* The worker claims the lease, publishes itself and checks a resume plan.
WorkerStarts(a) ==
  /\ wpc[a] = "queued"
  /\ IF status = "live" /\ PlanHolds(plan[a])
       THEN Goto(a, "begin", plan[a].next)
       ELSE Goto(a, "failing", at[a])
  /\ UNCHANGED <<storeVars, worldVars, proc, agent, runs, client>>

\* beginCheckpoint refuses another attempt's worker and a repeated operation.
BeginCheckpoint(a) ==
  LET o == at[a] IN
  /\ wpc[a] = "begin"
  /\ IF IsActive(a) /\ cp[a][o] = "none"
       THEN /\ cp' = [cp EXCEPT ![a][o] = "started"]
            /\ Goto(a, "work", o)
       ELSE /\ Goto(a, "failing", o)
            /\ UNCHANGED cp
  /\ UNCHANGED <<status, current, plan, sha, offers, worldVars, proc, agent, runs, client>>

\* The git command, Prime run or gate of the operation is started.  git
\* worktree add refuses an existing path or branch.
StartProcess(a) ==
  LET o == at[a] IN
  /\ wpc[a] = "work" /\ proc[a] = "none"
  /\ o \in {Worktree, Prime, Commit} \union Gates
  /\ proc' = [proc EXCEPT ![a] =
       IF o = Worktree /\ tree # "absent" THEN "bad" ELSE "running"]
  /\ agent' = [agent EXCEPT ![a] = @ \/ o = Prime]
  /\ runs' = [runs EXCEPT ![o] = @ + 1]
  /\ UNCHANGED <<storeVars, worldVars, wpc, at, client>>

\* agent.dispose: the tree has exited.
QuiesceAgent(a) ==
  /\ wpc[a] = "work" /\ at[a] = Quiesce /\ proc[a] = "none"
  /\ agent' = [agent EXCEPT ![a] = FALSE]
  /\ proc' = [proc EXCEPT ![a] = "ok"]
  /\ UNCHANGED <<storeVars, worldVars, wpc, at, runs, client>>

\* completeCheckpoint with the operation's facts; an unsuccessful gate is
\* recorded as such, and anything else that failed only throws.
CompleteCheckpoint(a) ==
  LET o == at[a]
      ok == o = Provision \/ proc[a] = "ok" IN
  /\ wpc[a] = "work" /\ o # Terminal
  /\ o = Provision \/ proc[a] \in {"ok", "bad"}
  /\ IF IsActive(a) /\ (ok \/ o \in Gates)
       THEN /\ cp' = [cp EXCEPT ![a][o] = IF ok THEN "completed" ELSE "failed"]
            /\ sha' = [sha EXCEPT ![a] = IF o = Commit THEN head ELSE @]
       ELSE UNCHANGED <<cp, sha>>
  /\ IF IsActive(a) /\ ok THEN Goto(a, "begin", o + 1) ELSE Goto(a, "failing", o)
  /\ proc' = [proc EXCEPT ![a] = "none"]
  /\ UNCHANGED <<status, current, plan, offers, worldVars, agent, runs, client>>

\* finalizeTerminal("succeeded") with the terminal checkpoint.
Materialize(a) ==
  /\ wpc[a] = "work" /\ at[a] = Terminal
  /\ IF IsActive(a)
       THEN /\ status' = "succeeded"
            /\ cp' = [cp EXCEPT ![a][Terminal] = "completed"]
            /\ Goto(a, "gone", Terminal)
       ELSE /\ Goto(a, "failing", Terminal)
            /\ UNCHANGED <<status, cp>>
  /\ UNCHANGED <<current, plan, sha, offers, worldVars, proc, agent, runs, client>>

\* A cancellation or the deadline, whose signal ends the command that runs, or
\* any other error between and in the operations.
WorkerThrows(a) ==
  /\ wpc[a] \in {"begin", "work"}
  /\ Goto(a, "failing", at[a])
  /\ proc' = [proc EXCEPT ![a] = "none"]
  /\ UNCHANGED <<storeVars, worldVars, agent, runs, client>>

\* Quiescence ends the agent tree; then the failed or cancelled outcome is
\* recorded, which turns started checkpoints uncertain.
WorkerFails(a) ==
  /\ wpc[a] = "failing"
  /\ agent' = [agent EXCEPT ![a] = FALSE]
  /\ Goto(a, "gone", at[a])
  /\ IF IsActive(a)
       THEN /\ status' = "failed"
            /\ cp' = [cp EXCEPT ![a] =
                 [o \in Op |-> IF @[o] = "started" THEN "uncertain" ELSE @[o]]]
       ELSE UNCHANGED <<status, cp>>
  /\ UNCHANGED <<current, plan, sha, offers, worldVars, proc, runs, client>>

\* The worker process dies; what it started lives on.
WorkerCrash(a) ==
  /\ WorkerAlive(a)
  /\ current < MaxAttempts
  /\ Goto(a, "gone", at[a])
  /\ proc' = [proc EXCEPT ![a] =
       IF at[a] \in {Worktree, Commit} /\ ~GitSurvives THEN "none" ELSE @]
  /\ UNCHANGED <<storeVars, worldVars, agent, runs, client>>

-----------------------------------------------------------------------------
(* Processes and the worktree they work on *)

\* git worktree add: the branch, then the registered path, then its files.
AddWorktree(a) ==
  /\ at[a] = Worktree /\ proc[a] = "running"
  /\ tree' = IF ~GitMayBeCut THEN "exact"
             ELSE CASE tree = "absent" -> "branch" [] tree = "branch" -> "partial"
                    [] OTHER -> "exact"
  /\ proc' = [proc EXCEPT ![a] = IF tree' = "exact" THEN "ok" ELSE "running"]
  /\ UNCHANGED <<storeVars, files, index, committed, head, touched, wpc, at, agent, runs, client>>

\* Prime, and whatever of its tree outlives its answer, edits files.
PrimeEdits(a) ==
  /\ agent[a]
  /\ files < MaxFiles
  /\ files' = files + 1
  /\ UNCHANGED <<storeVars, tree, index, committed, head, touched, workerVars, client>>

PrimeAnswers(a) ==
  /\ at[a] = Prime /\ proc[a] = "running"
  /\ \E r \in {"ok", "bad"} : proc' = [proc EXCEPT ![a] = r]
  /\ UNCHANGED <<storeVars, worldVars, wpc, at, agent, runs, client>>

\* A gate may leave files behind.
GateEnds(a) ==
  /\ at[a] \in Gates /\ proc[a] = "running"
  /\ \E r \in {"ok", "bad"} : proc' = [proc EXCEPT ![a] = r]
  /\ files' \in {files, files + 1} /\ files' <= MaxFiles
  /\ UNCHANGED <<storeVars, tree, index, committed, head, touched, wpc, at, agent, runs, client>>

\* finalizeWorktreeCommit: git add, and if anything is staged git commit.
GitAdds(a) ==
  /\ at[a] = Commit /\ proc[a] = "running" /\ WorkerAlive(a)
  /\ index' = files
  /\ proc' = [proc EXCEPT ![a] = IF files = committed THEN "ok" ELSE "staged"]
  /\ UNCHANGED <<storeVars, tree, files, committed, head, touched, wpc, at, agent, runs, client>>

GitCommits(a) ==
  /\ at[a] = Commit /\ proc[a] = "staged"
  /\ IF index # committed
       THEN /\ head' = head + 1
            /\ committed' = index
            /\ proc' = [proc EXCEPT ![a] = "ok"]
       ELSE /\ proc' = [proc EXCEPT ![a] = "bad"]
            /\ UNCHANGED <<head, committed>>
  /\ UNCHANGED <<storeVars, tree, files, index, touched, wpc, at, agent, runs, client>>

\* An orphan ends without its effect.
OrphanEnds(a) ==
  /\ ~WorkerAlive(a)
  /\ proc[a] \in {"running", "staged"} \/ agent[a]
  /\ proc' = [proc EXCEPT ![a] = "none"]
  /\ agent' = [agent EXCEPT ![a] = FALSE]
  /\ UNCHANGED <<storeVars, worldVars, wpc, at, runs, client>>

\* Somebody changes the worktree, whatever its attempt does: no lock keeps the owner out
\* of it, and nothing looks again at it after assertResumePlanEvidence (worker.ts:414).
Edit ==
  /\ Editable
  /\ tree = "exact"
  /\ files < MaxFiles
  /\ files' = files + 1
  /\ touched' = touched \union {a \in Attempt : wpc[a] \in {"begin", "work"}}
  /\ UNCHANGED <<storeVars, tree, index, committed, head, workerVars, client>>

-----------------------------------------------------------------------------
(* Interruption, preview and confirmation *)

\* Mutant: started checkpoints stay started.
InterruptKeepsStarted ==
  /\ status = "live"
  /\ ~WorkerAlive(current) \/ (LiveMayBeInterrupted /\ current < MaxAttempts)
  /\ status' = "interrupted"
  /\ UNCHANGED <<current, cp, plan, sha, offers, worldVars, workerVars, client>>

\* finalizeTerminal("interrupted"): started checkpoints turn uncertain.
Interrupt ==
  /\ status = "live"
  /\ ~WorkerAlive(current) \/ (LiveMayBeInterrupted /\ current < MaxAttempts)
  /\ status' = "interrupted"
  /\ cp' = [cp EXCEPT ![current] =
       [o \in Op |-> IF @[o] = "started" THEN "uncertain" ELSE @[o]]]
  /\ UNCHANGED <<current, plan, sha, offers, worldVars, workerVars, client>>

Idle == [pc |-> "idle", plan |-> NoPlan, op |-> 0, to |-> "none"]

\* assessSafeResume reads an interrupted job.
PreviewReads(c) ==
  /\ client[c] = Idle
  /\ status = "interrupted"
  /\ client' = [client EXCEPT ![c] =
       [Idle EXCEPT !.pc = "assess", !.plan.attempt = current]]
  /\ UNCHANGED <<storeVars, worldVars, workerVars>>

\* It inspects the repository for the first uncertain operation it may settle ...
Assess(c) ==
  LET a == client[c].plan.attempt
      pending == Uncertain(a) \intersect Reconcilable IN
  /\ client[c].pc = "assess"
  /\ pending # {}
  /\ LET o == CHOOSE o \in pending : \A p \in pending : o <= p IN
       IF Resolutions(o) = {}
         THEN client' = [client EXCEPT ![c] = Idle]
         ELSE \E r \in Resolutions(o) :
                client' = [client EXCEPT ![c].pc = "reconcile", ![c].op = o, ![c].to = r,
                                         ![c].plan.commit = head]
  /\ UNCHANGED <<storeVars, worldVars, workerVars>>

\* ... and records the decision: reconcileCheckpoint refuses an attempt that is
\* no longer the interrupted current one and evidence that is not uncertain.
Reconcile(c) ==
  LET a == client[c].plan.attempt
      o == client[c].op IN
  /\ client[c].pc = "reconcile"
  /\ IF current = a /\ status = "interrupted" /\ cp[a][o] = "uncertain"
       THEN /\ cp' = [cp EXCEPT ![a][o] = client[c].to]
            /\ sha' = [sha EXCEPT ![a] =
                 IF o = Commit /\ client[c].to = "completed" THEN client[c].plan.commit ELSE @]
            /\ client' = [client EXCEPT ![c] =
                 [Idle EXCEPT !.pc = "assess", !.plan.attempt = a]]
       ELSE /\ client' = [client EXCEPT ![c] = Idle]
            /\ UNCHANGED <<cp, sha>>
  /\ UNCHANGED <<status, current, plan, offers, worldVars, workerVars>>

\* The rest of assessSafeResume: the plan and its worktree snapshot, or a refusal.
Plan(c) ==
  LET a == client[c].plan.attempt IN
  /\ client[c].pc = "assess"
  /\ Uncertain(a) \intersect Reconcilable = {}
  /\ client' = [client EXCEPT ![c] =
       IF SafeToResume(a) THEN [Idle EXCEPT !.pc = "offer", !.plan = ResumePlan(a)] ELSE Idle]
  /\ UNCHANGED <<storeVars, worldVars, workerVars>>

\* createResumeConfirmation refuses a stale plan.
Offer(c) ==
  LET p == client[c].plan IN
  /\ client[c].pc = "offer"
  /\ offers' = IF status = "interrupted" /\ current = p.attempt
                 THEN offers \union {p} ELSE offers
  /\ client' = [client EXCEPT ![c] = Idle]
  /\ UNCHANGED <<status, current, cp, plan, sha, worldVars, workerVars>>

\* resumeConfirmed: the lease, readResumeConfirmation and the plan's evidence ...
Confirm(c, p) ==
  /\ client[c] = Idle
  /\ ~Working /\ \A d \in Client : client[d].pc # "consume"
  /\ p \in offers
  /\ status = "interrupted" /\ current = p.attempt
  /\ PlanHolds(p)
  /\ client' = [client EXCEPT ![c] = [Idle EXCEPT !.pc = "consume", !.plan = p]]
  /\ UNCHANGED <<storeVars, worldVars, workerVars>>

\* ... and consumeResumeConfirmation: a new attempt with a worker to come.  The
\* other confirmations of the source attempt can only be refused from now on.
Consume(c) ==
  LET p == client[c].plan
      a == current + 1 IN
  /\ client[c].pc = "consume"
  /\ IF status = "interrupted" /\ current = p.attempt /\ current < MaxAttempts
       THEN /\ status' = "live"
            /\ current' = a
            /\ plan' = [plan EXCEPT ![a] = p]
            /\ sha' = [sha EXCEPT ![a] = p.commit]
            /\ offers' = {}
            /\ wpc' = [wpc EXCEPT ![a] = "queued"]
            /\ at' = [at EXCEPT ![a] = p.next]
       ELSE UNCHANGED <<status, current, plan, sha, offers, wpc, at>>
  /\ client' = [client EXCEPT ![c] = Idle]
  /\ UNCHANGED <<cp, worldVars, proc, agent, runs>>

-----------------------------------------------------------------------------
(* The specification *)

Init ==
  /\ status = "live"
  /\ current = 1
  /\ cp = [a \in Attempt |-> [o \in Op |-> "none"]]
  /\ plan = [a \in Attempt |-> NoPlan]
  /\ sha = [a \in Attempt |-> 0]
  /\ offers = {}
  /\ tree = "absent"
  /\ files = 0 /\ index = 0 /\ committed = 0 /\ head = 0 /\ touched = {}
  /\ wpc = [a \in Attempt |-> IF a = 1 THEN "queued" ELSE "none"]
  /\ at = [a \in Attempt |-> Worktree]
  /\ proc = [a \in Attempt |-> "none"]
  /\ agent = [a \in Attempt |-> FALSE]
  /\ runs = [o \in Op |-> 0]
  /\ client = [c \in Client |-> Idle]

WorkerProgress(a) ==
  \/ WorkerStarts(a) \/ BeginCheckpoint(a) \/ StartProcess(a) \/ QuiesceAgent(a)
  \/ CompleteCheckpoint(a) \/ Materialize(a) \/ WorkerFails(a)

ProcessProgress(a) ==
  AddWorktree(a) \/ PrimeAnswers(a) \/ GateEnds(a) \/ GitAdds(a) \/ GitCommits(a)

PreviewProgress(c) == Assess(c) \/ Reconcile(c) \/ Plan(c) \/ Offer(c) \/ Consume(c)

Next ==
  \/ \E a \in Attempt :
       \/ WorkerProgress(a) \/ ProcessProgress(a)
       \/ WorkerThrows(a) \/ WorkerCrash(a) \/ PrimeEdits(a) \/ OrphanEnds(a)
  \/ Edit \/ Interrupt
  \/ \E c \in Client :
       \/ PreviewReads(c) \/ PreviewProgress(c)
       \/ \E p \in offers : Confirm(c, p)

Spec == Init /\ [][Next]_vars

\* Live processes run on, dead workers are noticed (any CLI call reconciles),
\* and an owner keeps previewing and confirming.
Fairness ==
  /\ \A a \in Attempt : WF_vars(WorkerProgress(a)) /\ WF_vars(ProcessProgress(a))
  /\ WF_vars(Interrupt)
  /\ \A c \in Client :
       /\ WF_vars(PreviewProgress(c))
       /\ SF_vars(PreviewReads(c))
       /\ SF_vars(\E p \in offers : Confirm(c, p))

FairSpec == Spec /\ Fairness

-----------------------------------------------------------------------------
(* Properties *)

CpStatuses == {"none", "started", "completed", "failed", "uncertain", "retryable"}
PlanType == [attempt : 0..MaxAttempts, next : Op, commit : Nat,
             snapshot : {"none", "partial", "exact"} \X Nat]

\* Every variable has the type its column, file or process has.
TypeOK ==
  /\ status \in {"live", "interrupted", "succeeded", "failed"}
  /\ current \in Attempt
  /\ cp \in [Attempt -> [Op -> CpStatuses]]
  /\ plan \in [Attempt -> PlanType]
  /\ sha \in [Attempt -> Nat]
  /\ offers \subseteq PlanType
  /\ tree \in {"absent", "branch", "partial", "exact"}
  /\ {files, index, committed, head} \subseteq Nat
  /\ touched \subseteq Attempt
  /\ wpc \in [Attempt -> {"none", "queued", "begin", "work", "failing", "gone"}]
  /\ at \in [Attempt -> Op]
  /\ proc \in [Attempt -> {"none", "running", "staged", "ok", "bad"}]
  /\ agent \in [Attempt -> BOOLEAN]
  /\ runs \in [Op -> Nat]
  /\ client \in [Client -> [pc : {"idle", "assess", "reconcile", "offer", "consume"},
                            plan : PlanType, op : Op \union {0},
                            to : {"none", "completed", "retryable"}]]

\* "A known model request, completed gate, commit, or terminal effect is never
\* silently duplicated" (ADR-0017), each begins only when every earlier one
\* succeeded, and success is never invented: the promise, with the effects
\* Prime, gates and commit read off the processes started and the evidence.
EffectOp(e) == IF e = 1 THEN Prime ELSE IF e = NGates + 2 THEN Commit ELSE 4 + (e - 1)

Phase(o) ==
  IF (o = Commit /\ head > 1) \/ (o # Commit /\ runs[o] > 1) THEN "repeated"
  ELSE IF \E a \in Attempt : cp[a][o] = "failed" THEN "failed"
  ELSE IF \E a \in Attempt : cp[a][o] = "completed" THEN "done"
  ELSE IF runs[o] > 0 THEN "begun" ELSE "none"

Promise == INSTANCE ResumePromise WITH
  Effects <- NGates + 2,
  phase <- [e \in 1..(NGates + 2) |-> Phase(EffectOp(e))],
  verdict <- IF status \in {"succeeded", "failed"} THEN status ELSE "open"

EffectsRefined == Promise!PromiseSpec

\* Gates and the commit work on a worktree no Prime process of any attempt can
\* still change (ADR-0010: quiesce "the complete Prime process tree before
\* entering verification").
GatesAfterQuiescence ==
  \A a \in Attempt :
    proc[a] \in {"running", "staged"} /\ at[a] \in Gates \union {Commit}
    => \A b \in Attempt : ~agent[b]

\* An attempt whose plan skips to the commit makes it.
CommitsPlan(a) ==
  /\ plan[a].next = Commit
  /\ at[a] = Commit /\ proc[a] = "staged" /\ proc'[a] = "ok" /\ head' # head

\* "A worktree changed after preview is preserved and rejected rather than committed
\* under stale authorization" (ADR-0017:57-58): what such an attempt commits are the files
\* its owner confirmed. It does not hold: "Disagreements" in README.md.
CommittedAsConfirmed ==
  [][\A a \in Attempt : CommitsPlan(a) => committed' = plan[a].snapshot[2]]_vars

\* What does hold: the living worker of such an attempt commits the files its owner
\* confirmed, whatever was edited before it looked and whatever the git, Prime and gate
\* processes of earlier attempts still do, if nobody edits while it is at work
\* (assertResumePlanEvidence, finalizeWorktreeCommit).
CommittedUnlessTouched ==
  [][\A a \in Attempt : CommitsPlan(a) /\ wpc[a] = "work" /\ a \notin touched
                          => committed' = plan[a].snapshot[2]]_vars

\* A job has at most one Prime Dispatch commit over its base, whatever an
\* interrupted attempt's git commands still do (resume.ts: "no Prime Dispatch
\* commit exists"). It holds unless git survives its worker while others edit the
\* worktree: theorem OneCommit, and "Disagreements" in README.md.
CommitOnce == head <= 1

\* An interrupted job whose evidence leaves nothing uncertain but what recovery
\* settles ends, and so does a live one: resuming never comes to a dead end
\* that no preview or confirmation gets out of.
Hopeful ==
  /\ status \in {"live", "interrupted"}
  /\ \A o \in {Prime, Quiesce} \union Gates : cp[current][o] \notin {"started", "uncertain", "failed"}
  /\ Done(current, Prime) => Done(current, Quiesce)

ResumeEnds == Hopeful ~> ~Hopeful

=============================================================================
