# TLA+ specification of prime-agent-dispatch

`prime-agent-dispatch` runs one coding agent (Prime) at a time in a detached
worker process, keeps all durable state in one SQLite database, and lets any
number of short-lived CLI processes start, observe, steer, cancel and resume
jobs. Nothing but the database, the file system and process identities ties
these processes together, and each of them may die between any two of its
steps. This directory holds the TLA+ modules that model the system, the TLC
configurations that check them and the TLAPS proofs about them. Paths are
relative to the repository; `src/x.ts:1-9` names lines of its sources.

## 1. Inventory

| Component | Source | State it keeps | Operations |
|---|---|---|---|
| Dispatcher | `src/dispatcher.ts` | none (local variables across awaits) | `launch`, `previewResume`, `resumeConfirmed`, `status`, `steer`, `cancel`, `reconcileNonterminalJobs` |
| Global lease | `src/lease.ts` | one row of table `lease` | `acquire`, `claim`, `inspect`, `release` |
| Worker identity | `src/worker-identity.ts`, `src/ipc.ts` | pid, start identity, nonce, socket | `verifyWorkerIdentity`, handshake |
| Worker | `src/worker.ts` | module variables of one process | stages, `requestCancellation`, `quiesceChildrenWithRoot`, terminal recording |
| Root agent | `src/agent.ts`, `src/prime-sdk.ts` | child process, memoized abort | `start`, `steer`, `abort`, `dispose` |
| Store | `src/store.ts`, `src/sqlite.ts`, `src/migrations/` | jobs, attempts, checkpoints, confirmations, events, artifacts, child trees, cleanup runs | one SQLite transaction per operation, then file projections |
| Safe resume | `src/resume.ts`, `src/recovery.ts` | none; reads the store and the worktree | `assessSafeResume`, `assertResumePlanEvidence` |
| Execution | `src/execution.ts`, `src/process.ts` | git worktree, index, HEAD | `prepare`, `finalizeWorktreeCommit`, `runCommand` |
| Child tree | `src/children.ts`, child part of `src/store.ts` | logical children, their attempts, worktrees, leases, proposals, integrations, teardown evidence, wave bases, each with a revision | `admitChild`, `retryChild`, `record...`, `requestChildCancellation`, `completeChildAttempt`, `...Integration`, `recordChildWaveBase`, whole-tree cancellation and interruption |
| Child host | `src/prime-sdk.ts`, `src/child-host-bridge.ts`, `src/child-git.ts` | registered and unbound sessions, an admission queue, settlements under way, git worktrees | `createRlmSubagentRuntime`, `finishRuntime`, `run`, `cancel`, `prepare`, `integrateProposal`, `waitForSettled` |
| Inference broker | `src/inference.ts`, `src/child-inference.ts` | leases with budgets and active requests, usage ledgers; the store's lease and usage rows | `createLease`, `handle`, `recordUsage`, `revoke`, `close` |
| Cleanup | `src/cleanup.ts` | cleanup runs and their actions, reservations of jobs, `retention_status` of artifacts | `plan`, `apply`, `readPlan` |
| Directory lock | `src/process-lock.ts` | a directory with an owner file, a reclaim guard with another, abandoned guards | acquire, reclaim, release |
| Runtime artifact cache | `src/prime-runtime-artifact.ts` | published runtime directories | inspect, publish, verify |
| Plugin lifecycle | `src/openclaw-install.ts` and neighbours | published releases, two links, host configuration, `install.json`, OpenClaw's own configuration and registry | install, rollback, uninstall, audit |
| Chat adapter | `openclaw-plugin/src/` | pending confirmations | forwards commands |

How they interact. A launcher takes the lease, writes the job (or consumes a
resume confirmation), spawns the worker and polls until the worker is confirmed
or gone; the worker claims the launcher's lease row, publishes its identity and
runs the stages *worktree, model provisioning, Prime, quiescence, gates,
commit, terminal record*, each bracketed by checkpoint transactions. Every CLI
call reconciles: it reads a job, inspects lease and worker, and interrupts the
job of a dead worker. Cancellation arrives over the worker's socket while the
stages run. All transactions are `BEGIN IMMEDIATE`; everything between two
transactions is concurrent with everything else.

What is hard. Reads used after an await (reconcilers, launchers, the lease's
stale-row removal); three writers racing for one terminal record (stages,
cancellation, reconciliation); crashes between the lease row, the job row and
the process they describe; processes that outlive their parent; at-most-once
effects without the ability to ask whether an effect happened; several clients
previewing and confirming the same resume; limits shared by concurrent children
and requests.

What makes the components correct:

* lease and dispatcher: at most one executing worker; the lease row stays with
  it; a live worker is never disowned; every live job ends; every launch returns;
* store: the status column follows the transition diagram; attempts form a
  chain; a live job shows no terminal result;
* worker and agent: success, failure and cancellation are recorded only after
  the agent's process tree is gone;
* resume: Prime, each gate and the commit happen at most once and in order,
  a resumed attempt commits what its owner was shown unless somebody edits the
  worktree while its worker is at work, and resuming never comes to a dead end without an ambiguity that justifies it;
* child tree: limits of children, slots, retries and tokens; an attempt ends
  once, with its lease revoked; a dependent child starts from a base with all
  implementation work in it; verification sees a joined tree; the root ends;
* broker: requests upstream stay within each budget and within the children's
  common limit; a lease reported as revoked has nothing upstream and all it
  admitted accounted; what was observed is stored; every lease ends;
* cleanup: what is deleted is what was reviewed as far as the code compares it,
  of a job that does not run; a
  run that began keeps its jobs until it is completed; the rows account for the
  files after a crash;
* directory lock: one holder unless two reclaimers judge one ownerless guard, and
  a dead holder does not keep others out;
* installation: success leaves links, configuration, registry and manifest in
  agreement, failure leaves them as they were but for named files, and what a
  rollback would activate was verified.

`PROJECT.json` lists every component with what is modelled of it, the hazards
with their lines, and the code lines each definition stands for.

## 2. Plan

| | Modules | Subject | State |
|---|---|---|---|
| A | `JobStatus`, `JobLifecycle`, `JobControl`, `MCJobControl`, `JobControlProofs` | lease, launch, worker, reconciliation, cancellation; abstract lifecycle | modelled, checked, its safety properties proved |
| B | `ResumePromise`, `Recovery`, `MCRecovery`, `RecoveryProofs` | checkpoints and safe resume; abstract at-most-once promise | modelled, checked, proved but for liveness |
| C | `ChildTree` | the store's transactions on the child tree | modelled |
| D | `SubagentHost`, `MCSubagentHost`, `SubagentHostProofs`, `Sums` | the worker's processes that drive the tree, over C | modelled, checked, proved but for liveness |
| E | `InferenceBroker`, `MCInferenceBroker`, `InferenceBrokerProofs`, `Sums` | admission, accounting, revocation, close | modelled, checked, proved but for liveness |
| F | `Cleanup`, `MCCleanup`, `CleanupProofs` | plans, reservations and application against lease, resume and work | modelled and checked, its safety properties proved |
| G | `ProcessLock`, `MCProcessLock`, `ProcessLockProofs` | mkdir lock with stale reclaim | modelled, checked, type correctness and exclusion proved |
| H | `InstallLifecycle`, `MCInstallLifecycle`, `InstallLifecycleProofs` | install, rollback, uninstall with failures, undoing and crashes | modelled, checked, all its properties proved |
| I | `Notifications` | event sequence, cursors, projections | left |
| J | `RuntimeCache` | publication of runtime artifacts | left: one rename to a name made from the digest |

Abstract specifications: `JobLifecycle` (the status diagram with resume),
`ResumePromise` (at-most-once effects), and the transactions of `ChildTree` on
their own, which the host is shown to implement. `Cleanup` and `InstallLifecycle` use the lock of
`ProcessLock` through what is proved of it: at most one process applies a plan
or changes an installation. Section 5 tells the properties that are proved from
those that are only checked.

Modules that are proved about hold no recursive operators; each operation is an
action; invariants are conjunctions of named parts.

## 3. Modules and code

### JobStatus, JobLifecycle

`JobStatus` is the status enumeration and the transition matrix of
`src/state-machine.ts`. `JobLifecycle` is the diagram as a specification: a job
is created queued, moves along the matrix, and an interrupted job may be
resumed to queued; terminal statuses are otherwise final.

### JobControl

A *launch* names one start or resume: its launcher process and the worker it
spawns, whose nonces are drawn for that operation. A *client* is a CLI process
running `status()`.

| Variables | Code |
|---|---|
| `status`, `identity`, `result`, `attempt`, `ordinal` | `jobs.state_json` (status, worker fields), `jobs.result_json`, the current row of `execution_attempts` |
| `lease` | the row of `lease` (owner kind and nonce) |
| `lpc`, `jobOf`, `source`, `seen` | locals of `launch`/`resumeConfirmed`, `spawnWorker`, and the row `acquire` inspected |
| `wpc`, `readStatus`, `holding`, `cancel`, `outcome`, `agent`, `aborting` | where `main()` of `worker.ts` is, the state it read, its lease token, `cancellationRequested`/`cancellationPromise`, the outcome it is about to record, the agent's process tree, the memoized abort |
| `client` | locals of `status()` |

One action per transaction or per stretch of code without an await; a worker's
several stage transactions without own hazards (`provisioning` to `running`)
are steps of `WorkerAdvance`. Faults are `LauncherCrash`, `WorkerCrash`,
`WorkerStartFails`, `SpawnProbeThrows` (a `ps` that fails while the launcher
polls), an agent tree that survives SIGKILL, and `CancelRequest` at any time.
`Verdicts` and `Inspections` return every answer the code can get: a live worker
may always look unreachable, a dead one is always disproven (process start
identities are taken to be unique).

### Recovery, ResumePromise

One job with its attempts. Operations are numbered in `STAGE_ORDER`, the
verification stage with one operation per gate. `cp` is the checkpoint table,
`plan` and `sha` the resume plan of each attempt, `offers` the unused
confirmations; `tree`, `files`, `index`, `committed` and `head` are the git
worktree (completeness and versions in place of contents); `proc` and `agent`
are the command and the Prime tree of each attempt's worker, which may outlive
it; `runs` counts process starts for the properties. `client` is a process
running `previewResume` or `resumeConfirmed`; preview reads, inspects and
reconciles in separate steps.

Who may run is `JobControl`'s subject, so the live statuses are one value
"live", the lease is the condition that no worker is left when a confirmation
is accepted, and an interruption may hit a live worker only under
`LiveMayBeInterrupted` (`JobControl` shows that it can). `ResumePromise` says
what ADR-0017 promises: effects begin once and in order, and success needs all
of them.

Left out of `Recovery`: expiry of confirmations and the authorization hash (an
expired one behaves as one not used), the child tree's digest in a plan, git
index locks between two git commands of different attempts, an agent that
commits by itself. `Edit`, the hand of another user, may come at any time, also
while a worker is at work; `touched` is a history variable, the attempts whose
worker was at work when it came.

### ChildTree, SubagentHost

`ChildTree` holds the tables of one root's child tree (`child` with the current
attempt of each, `based`/`base`, the root's status) and each transaction of the
store on them as a pair of a guard and a write. `SubagentHost` has the processes
that call them, all but the last in the worker and concurrent at their awaits:

| Process | Variables | Code |
|---|---|---|
| admission, serialized by `admissionTail` | `admission`, `who` | `createRlmSubagentRuntimeLocked`, `retryRlmSubagentRuntime`, `BoundedRlmHostBridge.run` with its catch block |
| integration of proposals | `picking` | `integrateProposal`, called by the first dependent admission and by the join |
| settlement, one per child | `settle`, `outcome` | `finishRuntimeOnce`, `captureProposal` |
| removal, one per child | `removal` | `BoundedRlmHostBridge.cancel`, `cancelRuntime` |
| main flow | `main`, `corrected` | `PrimeSdkAgentBackend.start`, then `main()` of `worker.ts` |
| quiescence | `quiesce`, `cancelled` | `requestCancellation`, `quiesceChildrenWithRoot` |
| reconciliation | `reconciler` | `interruptUnverifiedWorker`, by any client |

Every await may fail (`AdmissionRefused`, `StartFails`, `SettleFails`,
`RemovalFails`, `QuiesceFails`, `MainThrows`), and the worker may die at any
time. `session` is the SDK's session of a child; the SDK is external: it asks
for children while the root's prompt runs, completes, cancels or deletes those
it was given, and disposing the root session ends the registered ones.

Left out of them: child revisions (a stale one makes a transaction throw, which
any step may do anyway); `reconnect`, `decideChildResult` and advisory children,
which no production code uses; token usage (the pool counts allocations, and the
host allocates equal shares); a cancellation that arrives in the catch block
(see "Disagreements"); resuming a job that has a child tree. Tests and reviews are both
"dependent" roles. `broker.close` revokes all leases in one step here; its own
steps are those of `InferenceBroker`.

### InferenceBroker

One worker's broker, which is one Node process: a handler runs without
interruption between its awaits (the body, each read of the upstream stream,
each write to the store), and an action is such a stretch.

| Variables | Code |
|---|---|
| `lease`, `active`, `count`, `ledger`, `persisted` | the entries of `leases` (`LeaseState`: `revoked`, `active`, `requestCount`, `ledger`, `persistedUsageIds`) |
| `pc`, `on`, `accounted`, `item`, `batch` | where `handle` of each request is, its lease, `accountingAttempted`, and the record and snapshot `onUsageFinalized` was called with |
| `server`, `snapshot`, `broken` | the HTTP server, the leases `close()` revokes and those whose revocation threw |
| `durable`, `rows`, `lost`, `final` | the lease rows of child attempts, the usage rows, what a throwing callback did not write, and the terminal ledger |
| `cancelling` | no child attempt can be active any more |

Upstream is external: it reports any number of terminal events with an id of its
own or none and any usage, ends the stream, or breaks it. Budgets count tokens,
requests and concurrency as the code does: a child's lease has all three limits,
all children share one of concurrency, and the root's lease has a token budget
and the broker's concurrency (`worker.ts:488-520`, `ConcurrencyLimit`). A request that is refused before its
body is read changes nothing and is no step.

### Cleanup

Jobs with their resume and their work, plans numbered in the order of their
rows, and one applying process (the lock is `ProcessLock`).

| Variables | Code |
|---|---|
| `status`, `revision`, `uncertain`, `audited`, `leaseOf` | the job row, the checkpoints of its last attempt, the authority audit, the global lease |
| `resumer` | where `resumeConfirmed` of the lease's job is |
| `content`, `uncommitted`, `retained` | per artifact, cache, worktree and branch what is on disk or in the repository; whether the worktree has edits that are not committed; `retention_status` |
| `run`, `action`, `reserved` | `cleanup_runs`, `cleanup_actions`, `cleanup_job_reservations` |
| `expect`, `safe`, `reviewed`, `inventoried` | what a plan read of revision, safety and content, and whether its digest of the worktree covers uncommitted edits |
| `applier`, `at`, `target`, `begun`, `left` | locals of `applyWithLock` and `applyAction` |

Content is named by the revision of the job that wrote it, or `Edited` for a
commit of the owner's; that stands for the digest of an artifact or a cache and
for the head of a worktree or a branch. The owner edits files of an ended job's
worktree (`Edit`) and commits them (`CommitEdits`) at any time, also between the
comparison and the removal of a target, which are separate calls (`Compare`,
`Remove`); only `git update-ref -d` does both at once (`DeleteBranch`). What
`applyAction` compares of a worktree is its head, not its files.
Ages, quotas and minimum evidence decide which targets a plan selects: any
selection they could make is allowed. A plan reads jobs one after the other
without a transaction (`PlanState`, `PlanVerify`, `PlanInventory`) and is
inserted at the end.

### ProcessLock

`lock` and `guard` are the two directories with maker and owner file, `tomb` the
abandoned guards, `pc` and `seen` the locals of each process. A step is a system
call. "old" says that a directory, or its owner file once there is one, is older
than `staleMs`; it is the only trace of time. A live process writes its owner
file before the directory is old unless `SlowWriter`. A process may die between
any two of its calls, also between making the lock or the guard and its owner
file.

### InstallLifecycle

`Steps` and `UndoSteps` list what each operation does and what its catch block
undoes, in order; `todo` is what is left of the list, and the actions are the
single steps. `disk`, `host`, `manifest` are the files of the lifecycle,
`current` and `extension` the links, `allow`, `entry` and `registry` OpenClaw's
configuration and registry, `was` what the operation read at its start. A
release stands for its content (id, digests and the Prime runtime it carries).
A legacy host has a manifest of an earlier version, whose current release or
rollback pointer may have no published digest. Steps and restores may fail,
before or after they took effect: OpenClaw's calls, and the write of a file,
whose rename is followed by a sync and a `chmod` (`store.ts:387-388`,
`openclaw-install.ts:1503`); `PartlyDone` and `PartlyUndone` say what each may
leave. The process may die; others may allow another plugin or change a release.
`threw` is a history variable, the step that failed.

## 4. Runs

| Run | Question | Bounds |
|---|---|---|
| `custody` | `TypeOK`, `OneActiveWorker`, `EngagedHoldsLease`, `RecordedAfterQuiescence` with cancellations and trees that survive SIGKILL | 2 jobs, 2 launches, 1 client, launcher crashes |
| `attempts` | `AttemptsAreNotForked`, `WorkerRunsItsAttempt` | a start and two competing resumes of a job, 1 client |
| `lifecycle` | `LifecycleRefined` with failing probes and cancellations at any moment | 1 job, 2 launches that may be cancelled, 1 client |
| `progress` | `LiveJobEnds`, `LaunchReturns` under fairness | 1 job, 2 launches, 1 client, no launcher crash |
| `recovery_effects` | `TypeOK`, `GatesAfterQuiescence`, `EffectsRefined` | 2 clients, 2 gates, 3 attempts, 2 file changes, every fault but foreign edits |
| `recovery_progress` | `ResumeEnds` under fairness, `CommittedUnlessTouched`, with foreign edits at any time | 1 client, 1 gate, 3 attempts, 3 file changes, git ends with its worker |
| `child_tree` | `TypeOK`, `WithinPolicy`, `EndIsProven`, `VerificationIsJoined`, `DependentsSeeImplementation`, `EndedAttemptIsFinal`, and `RootEnds` under fairness | 1 implementation and 2 dependent children, 1 active, 2 attempts each, tokens for 3 |
| `broker` | `TypeOK`, `UpstreamWithinLimits`, `RevokedIsQuiet`, `ObservedIsDurable`, `TerminalLedgerIsFinal`, and `LeaseEnds` under fairness, with store callbacks that throw | the root's and two children's leases, 2 requests, 1 token per lease, 1 request per child's lease, 1 at a time per child, 1 of all children, events without an id |
| `retention` | `TypeOK`, `ActiveJobIsWhole`, `StartedRunKeepsItsJobs`, `MissingIsBeingDeleted`, `DeletesWhatWasReviewed` with crashes and half removals | 1 job with all four targets, 2 plans, 1 resume, edits and 1 commit by the owner |
| `lock` | `ExclusionUnlessContended`, and `DeadLockIsReclaimed` under fairness | 4 processes, 6 guards that something refers to |
| `host_install` | `TypeOK`, `SuccessIsCoherent`, `FailureIsUndone`, `RollbackTargetIsPublished`, `CommitIsVerified` | 3 releases (two that an earlier version may have left, one with a runtime), 1 policy, 2 faults, any number of operations |

Why these bounds: the hazards are races of two owners of one row with one
observer, so two launches of one job (three where two resumes compete) and one
or two clients reach them; three attempts are an interrupted attempt, one that
inherits from it and one that inherits what was inherited; two gates tell
"some gates" from "all gates"; in the child tree one slot makes the two
dependents compete while one of them is still being cancelled, and tokens for
three attempts make a retry compete with a first attempt. Two attempts never
live at the same time there; with `MaxActive = 2` the safety properties were
checked as well (1.2 million states up to symmetry), but then three children
cannot exhaust the slots. In `broker` two requests race for the last request of a child's lease, for its
only slot, for the one slot that both children share, and with the end of their
lease: without any one of these three checks `UpstreamWithinLimits` is violated.
Ids of upstream that two requests share are not in the run (`ResponseId` is
empty), since one id makes it five times as large; the proofs are for any set of
them. In `retention` two plans of one job compete for its
targets, and one resume with new work makes a plan stale; jobs meet only in a
reservation, which is all or nothing. In `lock` two processes may die, one with
the lock and one with the guard, and two others reclaim; of six names for guards one is always
free (an invariant TLC confirms). In `host_install` two faults are a failing step and a failing
restore, or a crash and a failure of the operation after it. Launches and clients are interchangeable and
runs without liveness use that symmetry. `CHECK_DEADLOCK FALSE` is set where
a system whose launches are used up, whose job has ended or whose plans are
completed, stops; `lock` and `host_install` go on for ever and are checked for
deadlock.

A wrong variant of a definition ("Mutant of ..." in a comment before it) is
kept for every property: substituting it makes the run report a violation, which
shows that the property depends on that part of the code.

Fairness. Living processes keep running (`WF` on the progress of each launcher,
worker, client and command); an agent answers or is ended by the deadline timer
of `worker.ts`, and an aborted agent whose inference lease is revoked ends;
`SF` on `StatusRead` and on preview and confirmation says that users keep
calling the CLI, which reconciles on every call (`src/cli.ts:75`); no fault is
fair. `RootEnds` needs only that a cancelled main flow comes to its catch block,
that quiescence ends one way or the other, and that clients reconcile; admissions
and settlements may stop anywhere. `LiveJobEnds` needs process trees that do not survive SIGKILL and
launchers that do not die with the lease: `acquire` deletes a dead worker's row
and inserts the launcher's; if that launcher dies before it initialises its job,
the reconciliation of the dead worker's job is refused
(`releaseLeaseInTransaction`) until a later start or resume removes the row.
`LeaseEnds` needs that timers fire and revocations go on when their lease is
idle, and that a request handler goes on when its body has arrived or timed out,
when its aborted stream ends and when the store's callback returns or throws: one
`WF` each. A stream that is not aborted need not end, and `close()` need not go on.
`DeadLockIsReclaimed` needs time to pass, a live process that keeps trying, and
`SF` on `WriteGuardOwner`: writing the owner file of the guard does not fail for
ever. `ResumeEnds` needs finitely many edits of the worktree (`MaxFiles`): every edit
between a preview and its confirmation sends the user back to a preview. It also
needs a git that ends with its worker (`GitSurvives = FALSE` in its run): a commit
that lands after a preview found none leaves a checkpoint "retryable" beside a
commit, which every later preview finds and none settles (33 steps).
`CommittedUnlessTouched` needs no such assumption: it is proved, and was checked
with the same bounds, for a git that survives.

What no property says. With two reconciling clients, one that verified an old
lease holder may write its identity (`dispatcher.ts:331`) over that of the next
attempt's worker, so nothing is claimed of the worker a job names. With `GitMayBeCut` Prime may start in a worktree whose checkout was cut short
(`resume.ts:544` compares path, branch, repository and HEAD only), and a worker
whose job was resumed meanwhile may write its terminal result into the live job
(`worker.ts:858`); no property says otherwise.

### Disagreements of code and documentation

The run `unjoined_root` violates a property that a document of the repository
states (`PROJECT.json` quotes the sentence and the lines): after a child
succeeded and before its proposal is integrated, the worker's end leaves a root
that can become neither interrupted nor cancelled nor failed.

The others below were met while modelling. TLC finds each with the named
property and constants; no run is kept for them.

| Where | What happens | To reproduce |
|---|---|---|
| `src/dispatcher.ts:224` | a failing `ps` in the startup poll releases the live worker's lease; a second worker is admitted | `JobControl`: `OneActiveWorker`, 2 jobs, 2 launches, no client, `ProbeMayFail` |
| `src/dispatcher.ts:383` | a reconciler that read before a resume interrupts the new attempt's live worker | `JobControl`: `LiveWorkerNotInterrupted`, 1 job, 2 launches, 2 clients |
| `src/worker.ts:795` | a cancellation during the failing worker's lease revocation skips quiescence: "cancelled" is recorded while Prime runs | `JobControl`: `CancelledAfterQuiescence`, 1 job, 1 cancellable launch |
| `src/process.ts:49` | a detached `git commit` lands after recovery found no commit; the resumed attempt commits again | `Recovery`: `CommitOnce`, 1 client, 1 gate, 2 attempts, `GitSurvives`, `Editable` |
| `src/agent.ts:168` | an abort during the `mkdir` before the spawn finds no child and is memoized; the abort that the re-check of the signal calls (213) repeats it, and "cancelled" is recorded while Prime runs | the same property and constants |
| `src/worker.ts:414` | the worker compares the worktree with the plan once; what others edit between that look and `git add -A` is committed, against `docs/adrs/0017-mechanically-proven-safe-resume.md:57-58` ("rejected rather than committed under stale authorization"), and so is what they edit beside a `git commit` that outlived its worker. `CommittedUnlessTouched` says what holds | `Recovery`: `CommittedAsConfirmed` in place of `CommittedUnlessTouched` in `RecoveryProgress.cfg`, 32 steps |
| `src/prime-sdk.ts:244` | a child whose session is still being created is recorded as quiesced by its root; the session appears afterwards and is disposed by the failing admission. `RootEnds` therefore speaks of statuses, not of sessions | `SubagentHost` |
| `src/inference.ts:402` | a cancellation between `createLease` and `recordChildInferenceLease` makes the revocation throw: `close()` rejects and the server keeps listening, though `docs/child-runtime-lifecycle.md` has root cancellation revoke broker access first | `InferenceBroker`: `CloseFails` |
| `src/inference.ts:520` | a child's usage record whose write threw stays missing, whereas `syncInferenceUsage` repairs the root's; `ObservedIsDurable` allows it for children | `InferenceBroker` |
| `src/cleanup.ts:204` | `plan` runs `verifyArtifactIntegrity` without the apply lock: it audits an artifact that a run has deleted and not yet marked as missing, and that run then never finishes, against ADR-0018 ("Interrupted runs are explicit and resumable by the same run id") | `Cleanup`, 1 job, 2 plans, 12 steps |
| `src/cleanup.ts:1186-1199` | before `git worktree remove --force` only path and head are compared, so edits of the worktree made after the plan and not committed are deleted, although the plan records a digest of the files (958) and ADR-0018 (56-58, 72) rechecks the "digest" and says "A changed target fails the run"; an edit may also come after the check. `DeletesWhatWasReviewed` speaks of what is compared | `Cleanup`: `DeletesReviewedEdits` as a `PROPERTY` of `Retention.cfg`, 12 steps |
| `src/cleanup.ts`, `Skip` | an action is skipped because an earlier run deleted its target, although the target was created again meanwhile | `Cleanup`, 23 steps |
| `src/cleanup.ts:1158`, `CutRemove` | a recursive removal of a cache that is killed halfway changes the digest: the run can never be completed, and keeps its reservations | `Cleanup`, `MayBeCut` |
| `src/cleanup.ts:605-642` | an event that cannot be written after completion marks the completed run "interrupted" | `Cleanup`: `CompleteUnreported` |
| `src/process-lock.ts:113` | "It prevents another delayed reclaimer from renaming a newly acquired guard" is not so for a guard without an owner file: its tombstone is an empty directory, which `rename` replaces, so two reclaimers that judged it may both go on and two processes hold the lock. `ExclusionUnlessContended` excludes exactly that | `ProcessLock`: `Exclusion` as an `INVARIANT` of `ProcessLock.cfg`, 32 steps |
| `src/openclaw-install.ts:318` | the switch of `current` is outside the `try`: when it fails the new host configuration stays, although ADR-0016 (64) has "failures before that boundary restore prior links, policy, and configuration" | `InstallLifecycle`: `FailureIsUndone` without `threw = "current"` |
| `src/store.ts:387-388`, `src/openclaw-install.ts:356-367`, `456-466` | when the write of `install.json` fails after its rename, install and rollback restore everything but it: the manifest names a release that the links do not. When the activation of a rollback's runtime fails so, or the first write of an install, the new `host.json` stays, for no restore is held | `InstallLifecycle`: `FailureIsUndone` without `threw = "manifest"`, or without `threw = "activate"` |
| `src/openclaw-install.ts`, patch and restore | `plugins.allow` is written back as it was read: another plugin allowed meanwhile is lost | `InstallLifecycle`: `OtherAllows` |

## 5. Proofs

`JobControlProofs` proves, for every set of jobs, launches and clients and
without further assumptions on the fault constants unless named:

* `TypeCorrect`: `Spec => []TypeOK`. `TypeOK` alone is not inductive: an action
  of a worker writes `status[jobOf[l]]`, which is typed only if the launch has
  a job that is in the store. `Links` says that a launch that began has a job,
  that its worker exists only after `Spawn`, that this job exists by then, and
  that a client looks at existing jobs and workers.
* `LeaseIsKept` (`EngagedHoldsLease`) and `MutualExclusion` (`OneActiveWorker`),
  both assuming that probes do not fail (`~ProbeMayFail`; the first disagreement
  above shows that the assumption is needed). The invariant `Names` says whom the lease, a
  job state, a launcher and a client can name: a launcher about to delete a
  worker's row and a client about to present a worker's token have seen that
  worker's process gone, and a process does not come back. `Exclusive` adds to
  `EngagedHoldsLease` that a launcher releases only after its worker is gone or
  was never spawned, which is where a failing probe would break the argument.
* `LifecycleImplemented`: `Spec => LifecycleRefined`. `Starts` says that a start
  works on a job of its own, absent until it initialises it, and that an
  existing job has had an attempt; every step is then a step of `JobLifecycle`
  or leaves `status` alone.

Each step lemma of it has one case per action; `GroupWise` reduces the type
invariant to the group of variables an action touches.

The module goes on with what concerns attempts and their agents:

* `ConfirmationIsUsedOnce` (`AttemptsAreNotForked`, no assumption) and
  `WorkerIsCurrent` (`WorkerRunsItsAttempt`, probes do not fail). `Chain` says
  that the attempt a launch made comes after the one it continues and that no
  other launch continued that one; `Confirmed` and `Began` bound what an idle or
  waiting launch can have planned; `Holders` is the delicate part: a launcher
  that holds has the lease row, or its confirmed attempt is no longer the
  current one, because a client may interrupt a later attempt of its job and
  delete the row with the launcher's token.
* `QuiescenceBeforeResult` (`RecordedAfterQuiescence`, no assumption).
  `Quiesced` follows one worker: before `agent.dispose` only a cancellation
  calls abort and it is over when abort returns, a memoized answer can only
  outlive the tree it answered for under a cancellation, and an outcome that no
  cancellation chose is chosen after an abort that resolved.

`RecoveryProofs` proves, for every set of clients and any numbers of gates and
attempts:

* `RecoveryTypeCorrect` (`TypeOK`) and `QuiescentBeforeGates`
  (`GatesAfterQuiescence`), for all faults. The second speaks of the agents of
  earlier attempts too, so `IInv` says what a resume leaves behind and goes on
  with: `Behind` (worker and agent of a resumed attempt are gone), `Trail` (an
  agent that may live belongs to an attempt still at Prime or its quiescence,
  whose evidence knows that Prime began), `Forward` (an attempt is never before
  where its plan put it) and `Onward` (once one attempt is beyond quiescence all
  later ones start beyond it). `Clients` and `Plans` say what of this a preview
  and an offered confirmation still know when they are used.
* `NothingRunsTwice`, for all faults: Prime and each gate are started at most
  once in the life of a job. `Ran` counts, `Underway` and `Recorded` tie the
  count to the evidence, and `Passed` and `Tried` say that what an attempt or a
  plan has gone past was completed by somebody.
* `EffectsPromised` (`EffectsRefined`) and `OneCommit` (`CommitOnce`), assuming
  `~Editable \/ ~GitSurvives`: TLC refutes the second when others edit the
  worktree and git survives its worker. Each half of the assumption has its own
  reason. Without edits, `Frozen` says that a commit there is has the files as
  they are, and that a git about to commit has staged just these: a git process
  that survives its worker and the resumed attempt's own can only commit the
  same, and the second finds nothing to commit. Without survivors, `CommitInv`
  says that a worker about to commit finds no commit. `WorkerRefines` and
  `OthersRefine` show that each step is one step of `ResumePromise` or none.
* `CommitsAsConfirmed` (`CommittedUnlessTouched`, an action property), for all
  faults, with a git that survives its worker and with edits by others at any
  time. `AsConfirmed` says that while the worker of an attempt that skips to the
  commit is at work and nobody has edited since it began, the files, and what it
  has staged, are those of its plan. `NothingEdits` is its heart: no Prime or
  gate process of any attempt is left by then, by `Behind`, `Trail` and
  `Underway`; a surviving git may still move `HEAD`, which makes the commit
  differ in its parent but not in its files. The property excludes edits during
  the work of that worker, since the code does not look again (section 4).

`SubagentHostProofs` proves, for every finite set of children, all limits and
with the worker dying at any time, what `SubagentHost` promises of the child tree.

The argument goes through the store. `TreeSpec` is the store alone: its
transactions, each in a state where its own guards hold, by any caller in any
order (`StoreNext`). `HostImplementsTree` (`Spec => TreeSpec`) shows that every
one of the host's steps is one such transaction or leaves the tree alone. What
follows is proved of `TreeSpec` where the store suffices for it, and so holds
of any other caller that keeps to the transactions:

* `TreeInvariant`: `TreeSpec => [](StoreType /\ TreeInv)`. From it, for `Spec`,
  `EndsAreProven` (`EndIsProven`), `JoinedBeforeVerification`
  (`VerificationIsJoined`), `DependentsBuildOnWave`
  (`DependentsSeeImplementation`) and `EndedAttemptsStay` (`EndedAttemptIsFinal`,
  an action property). `HostTypeCorrect` (`TypeOK`) is about the host's own
  variables.
* `TreeKeepsPolicy` and `PolicyIsKept` (`WithinPolicy`): children, attempts per
  child, live attempts and the token pool. `Pool` says that the attempts of all
  children, a sum, are within the pool and that a child without an attempt has
  allocated none; a transaction either leaves every ordinal as it is or raises
  one by one after the store found tokens left (`AttemptsBegin`).

One obligation is the caller's: `OfBase` says that the base of the second wave
is recorded when every implementation child is integrated, which
`recordChildWaveBase` alone does not check. `StepShape` reduces a
transaction to inserting an attempt, a change every record survives
(`RecordStays`), the base or the root. `TreeInv` adds to the properties that a
living attempt never has uncertain teardown evidence, with which it could not be
ended as proven, and `Applied`: only a successful proposal is ever being applied, so
nothing can be integrated, or conflict, once the children are joined.
`NoOutcomeAssumption` says that `None` is no outcome.

`ProcessLockProofs` proves, for every set of processes and any number of guards:

* `LockTypeCorrect`: `Spec => []TypeOK`, for all faults. It is strengthened by one
  conjunct: who is about to rename the guard has seen one.
* `LockExclusion`: `Spec => ExclusionUnlessContended`, assuming `~SlowWriter`
  (TLC finds a violation without it), with deaths at any step, also between
  making the guard and writing its owner file. `Exclusion` holds in every
  behaviour in which no two processes judge the same ownerless guard before one
  of them has renamed it (`Contended`); in those that have such a moment TLC
  breaks it (section 4). `Exclusion` alone is not inductive: that two processes hold
  the lock follows only from what is on disk. The invariant `LockInv` adds
  `LockIsKept` (the lock is its maker's until it has an owner and then its
  owner's, and an old one without owner has a dead maker), `GuardIsKept` (the same
  of the guard, so at most one process is between making it and leaving it) and
  `JudgedIsStale` (who is about to rename the lock still finds a stale one; who is
  about to rename the guard finds the one it judged, or, where that had an owner,
  a tombstone that stops it: `SawOwned`, `SawUnowned`). It is the rename of an
  ownerless guard that only one process saw which keeps `SawUnowned`; this is
  what the comment at `src/process-lock.ts:113` has to be restricted to.

`CleanupProofs` proves, for every set of jobs, artifacts, caches and runs, any
revisions and with a deletion that may be cut short:

* `CleanupTypeCorrect` (`TypeOK`), `RunningJobIsWhole` (`ActiveJobIsWhole`),
  `ReservationsSurvive` (`StartedRunKeepsItsJobs`), `RowsAccountForFiles`
  (`MissingIsBeingDeleted`) and `ReviewedIsDeleted` (`DeletesWhatWasReviewed`,
  an action property).

None of them is inductive alone. That a running job has its artifacts rests on
`LeaseOrReservation` (a job is leased or reserved, never both),
`ApplierHolds` (past `reserveJobs` the applier holds every job of its run) and
`CheckedIsWhole` (what a resume has audited under its lease stays whole until it
starts). That only what was reviewed is deleted rests on `ApplierKnows` and
`TargetIsCurrent`: the revision `applyAction` compared is still the one the job
has when its tree is removed, because the job is reserved and the apply lock is
held. `StillReviewed` bridges the check and the removal: in between nobody but
the owner can touch the target, and the owner's commit, which may come there,
moves only the worktree's head and its branch with it, so that the work that was
committed is kept. `FirstApplies` says that of the runs that delete the same target the first
that is not skipped does it. `CleanupInv` is their conjunction.

`InferenceBrokerProofs` proves, for every set of leases, requests and response
ids, every budget and failing writes of the store:

* `BrokerTypeCorrect` (`TypeOK`), `QuietAfterRevocation` (`RevokedIsQuiet`),
  `UsageIsKept` (`ObservedIsDurable`) and `LedgerStaysFinal`
  (`TerminalLedgerIsFinal`, an action property).
* `RequestsWithinLimits` (`UpstreamWithinLimits`): the limits of each lease and
  the one all children share. The second is enforced by a sum of counters over
  the live child leases. `AggregateFalls`, `AggregateOfNewLease` and
  `AggregateOfAdmission` say how the sum moves: leases end and requests leave, a
  new lease has no requests, an admission adds one below the limit. The requests
  upstream are at most the sum of the counters because every one of them is
  counted on its lease (`SumOfFamily`). Requests under a lease that is being
  revoked are outside the sum, in the code as in the property.

The heart of `BrokerInv` is `Counted`: the counters that admission and
revocation read are the cardinalities of the sets of requests there are. With
`RequestsKnow` (a request has its lease from its arrival on and an admitted one
is accounted before it leaves), a lease whose counter is zero has no users, which
is why deleting it is quiet (`GoneIsQuiet`), why nothing is in flight once the
ledger is final, and why only ids whose write threw can be missing then.

`InstallLifecycleProofs` proves, for every set of releases and policies and any
number of faults, all five properties of `InstallLifecycle`. `todo` is always a
suffix of a row of one of the two tables of steps (`Where`); `Ahead` is the set of
its steps, from which each step that is taken removes one (`Advance`, with facts
on the order of the tables in `DoOrder` and `UndoOrder`).

* `SuccessIsWhole` (`SuccessIsCoherent`): `Effects` says what a step that is no
  longer ahead has achieved, `Begun` what a rollback or repair was admitted on.
* `FailureLeavesNothing` (`FailureIsUndone`): `Untouched` and `Restorable` say
  that what changed is covered by a restore the operation holds, or was written
  by the step that threw (`threw`), `Undone` that whatever is not restored is
  still ahead in the undoing, `Stopped` what an operation that fails before its
  `try` leaves. That a detached link is put back only where there is none is
  harmless because an uninstall leaves it absent or as it was.
* `RollbackIsPossible` (`RollbackTargetIsPublished`) and `CommitIsOfVerified`
  (`CommitIsVerified`) from `Offers` and `Retired`, starting from any legacy
  host: a manifest whose rollback target has a digest has a current release that
  has one too, so the swap of the two at a rollback keeps the promise; a target
  without a digest is a legacy directory that no operation touches, and no
  operation that succeeds, an uninstall apart, leaves it in the manifest.
  `NoManifestAssumption` says that `None` is no manifest.

`Sums` holds the facts about sums over finite sets that `SubagentHostProofs` and
`InferenceBrokerProofs` need. The community modules define a sum as a fold, a recursive function in the order of an
unspecified choice; induction is out of the prover's reach, so each lemma
takes the smallest set for which it would fail (`SmallestSet`, from the
well-founded order of finite subsets) and derives a contradiction there:
`SumElement` (what one element contributes, whatever the order), `SumType`,
`SumAgree`, `SumOneChanges`, `SumMonotonic`, `SumSubset` and `SumOfFamily` (a
finite union of finite sets has at most the sum of their sizes).

Only model-checked: liveness, which is outside the prover (`LiveJobEnds`,
`LaunchReturns`, `ResumeEnds`, `RootEnds`, `LeaseEnds`, `DeadLockIsReclaimed`).
Every invariant and action property of the runs is stated by a theorem, under
the assumptions named above.

## 6. Not modelled

* Events, notifications and projections (`appendEvent`, cursors, files rebuilt
  from SQLite), and migrations, which run inside one exclusive transaction.
* The runtime artifact cache: a runtime is published with one rename to a name
  made from its digest, and what precedes it is validation of data.
* The chat adapter, which forwards commands and the confirmation of a resume; the
  CLI, apart from the reconciliation each call makes; release tooling.
* Of modelled components: steering, messages and inspections of children, the
  RPC line protocol of the agent, resuming a job with a child tree, expiry of
  confirmations, age and quota rules of cleanup, worktrees of children in a
  cleanup plan, the plan and audit of an installation (they only read), package
  building and authentication.
* Never: formatting, argument parsing, validation of schemas, SQL data
  definitions, archive inspection and digests, the event-stream and RPC parsers,
  prompt texts; they keep no state that interleaves with anything, and their
  unit tests reach what matters.
