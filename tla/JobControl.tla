------------------------------ MODULE JobControl ------------------------------
(***************************************************************************)
(* Job ownership: the global lease, the job and attempt rows of the store, *)
(* the processes that launch, execute, observe and cancel jobs, and their  *)
(* crashes (dispatcher.ts, lease.ts, worker.ts, worker-identity.ts and the *)
(* transactions of store.ts they call).                                    *)
(*                                                                         *)
(* A launch is one "start" or "resume" operation of the CLI: a launcher    *)
(* process and the detached worker it spawns, both named by the launch     *)
(* (the launcher nonce and the worker nonce are drawn for that operation   *)
(* only).  A client is a CLI process that runs status().  Every SQLite     *)
(* transaction is one step; the awaits between transactions, process       *)
(* inspections and IPC are where the steps of processes interleave, and    *)
(* what a process read before an await is kept in a variable of its own.   *)
(***************************************************************************)
EXTENDS Naturals, FiniteSets, JobStatus

CONSTANTS
  Job,                \* job identifiers
  Launch,             \* start and resume operations
  Client,             \* processes that run status()
  None,               \* no owner, no worker, no job
  Cancellable,        \* the launches whose worker may be asked to cancel
  LauncherMayCrash,   \* may a launcher process die before it returns?
  ProbeMayFail,       \* may reading a live worker's start identity throw?
  TreeMaySurvive      \* may an agent process tree survive SIGKILL?

ASSUME CancellableAssumption == Cancellable \subseteq Launch
ASSUME FaultAssumption == {LauncherMayCrash, ProbeMayFail, TreeMaySurvive} \subseteq BOOLEAN

VARIABLES
  \* the store (store.ts): jobs.state_json, jobs.result_json, execution_attempts
  status, identity, result, attempt, ordinal,
  \* the single row of the lease table (lease.ts)
  lease,
  \* launchers (dispatcher.ts)
  lpc, jobOf, source, seen,
  \* workers (worker.ts)
  wpc, readStatus, holding, cancel, outcome, agent, aborting,
  \* clients (dispatcher.ts status)
  client

storeVars == <<status, identity, result, attempt, ordinal>>
launcherVars == <<lpc, jobOf, source, seen>>
workerVars == <<wpc, readStatus, holding, cancel, outcome, agent, aborting>>
vars == <<storeVars, lease, launcherVars, workerVars, client>>

-----------------------------------------------------------------------------
(* Owners and liveness *)

LauncherOwner(l) == [kind |-> "launcher", launch |-> l]
WorkerOwner(l) == [kind |-> "worker", launch |-> l]
Owner == [kind : {"launcher", "worker"}, launch : Launch]

ASSUME NoneAssumption == None \notin Job \union Launch \union Owner \union Statuses

\* The token a worker presents: its launcher's until claim() returned its own.
WorkerToken(l) == IF holding[l] THEN WorkerOwner(l) ELSE LauncherOwner(l)

LauncherPc == {"idle", "acquire", "remove", "hold", "spawn", "wait",
               "release", "done"}
WorkerPc == {"none", "starting", "claiming", "claimed", "identified",
             "provisioning", "running", "preparing", "prompted", "answered",
             "quiesced", "verifying", "committing", "concluding", "failing", "revoking",
             "reading", "recording", "closing", "draining", "stranded", "gone"}
ClientPc == {"idle", "inspect", "adopt", "verify", "interrupt"}

LauncherAlive(l) == lpc[l] \in LauncherPc \ {"idle", "done"}
WorkerAlive(l) == wpc[l] \in WorkerPc \ {"none", "gone"}

\* A worker answers the handshake from serveCommands until its server closes.
Serving(l) == WorkerAlive(l) /\ wpc[l] \notin {"starting", "draining"}

\* Mutant of Verdicts: a handshake that times out disproves the worker.
TimeoutDisproves(l) ==
  {"disproven"} \union (IF Serving(l) THEN {"verified"} ELSE {})

\* verifyWorkerIdentity: a gone process is disproven; one that still exists
\* may always fail to answer in time.
Verdicts(l) ==
  IF WorkerAlive(l)
    THEN {"unreachable"} \union (IF Serving(l) THEN {"verified"} ELSE {})
    ELSE {"disproven"}

\* Mutant of Inspections: a worker that does not answer makes the row stale.
UnreachableIsStale(o) ==
  IF o = None THEN {"missing"}
  ELSE IF o.kind = "launcher"
         THEN {IF LauncherAlive(o.launch) THEN "live-launcher" ELSE "stale"}
         ELSE {IF v = "verified" THEN "verified-worker" ELSE "stale" : v \in Verdicts(o.launch)}

\* GlobalJobLease.inspect on a row o.
Inspections(o) ==
  IF o = None THEN {"missing"}
  ELSE IF o.kind = "launcher"
         THEN {IF LauncherAlive(o.launch) THEN "live-launcher" ELSE "stale"}
         ELSE {CASE v = "verified" -> "verified-worker"
                 [] v = "unreachable" -> "unreachable-worker"
                 [] OTHER -> "stale" : v \in Verdicts(o.launch)}

\* The memory of a worker process that is gone.
Forget(l) ==
  /\ readStatus' = [readStatus EXCEPT ![l] = None]
  /\ holding' = [holding EXCEPT ![l] = FALSE]
  /\ cancel' = [cancel EXCEPT ![l] = "no"]
  /\ outcome' = [outcome EXCEPT ![l] = None]
  /\ aborting' = [aborting EXCEPT ![l] = "no"]

Exists(j) == status[j] \in Statuses
Terminal(j) == status[j] \in TerminalStatuses
Active(j) == status[j] \in LiveStatuses

-----------------------------------------------------------------------------
(* Transactions of the store *)

\* Mutants of CanFinalize: without the attempt and transition checks, and with
\* a missing lease row refused as a row of another owner is.
UncheckedFinalize(j, s, token) ==
  token = None \/ lease = None \/ lease = token

FinalizeNeedsRow(j, s, token) ==
  /\ attempt[j] = "active"
  /\ CanTransition(status[j], s)
  /\ token = None \/ lease = token

\* Mutant of Finalize: the attempt row is closed with the status read, not the new one.
AttemptKeepsStatus(j, s, token) ==
  /\ status' = [status EXCEPT ![j] = s]
  /\ result' = [result EXCEPT ![j] = s]
  /\ attempt' = [attempt EXCEPT ![j] = status[j]]
  /\ lease' = IF token = None THEN lease ELSE None
  /\ UNCHANGED <<ordinal, identity>>

\* finalizeTerminal: the guards of its transaction, then its writes.  Without
\* a token the lease row is not looked at; with one, a missing row is accepted
\* and a row of another owner aborts the transaction.
CanFinalize(j, s, token) ==
  /\ attempt[j] = "active"
  /\ CanTransition(status[j], s)
  /\ token = None \/ lease = None \/ lease = token

Finalize(j, s, token) ==
  /\ status' = [status EXCEPT ![j] = s]
  /\ result' = [result EXCEPT ![j] = s]
  /\ attempt' = [attempt EXCEPT ![j] = s]
  /\ lease' = IF token = None THEN lease ELSE None
  /\ UNCHANGED <<ordinal, identity>>

\* updateState refuses a terminal target and a transition not in the matrix.
CanUpdate(j, s) == s \in LiveStatuses /\ CanTransition(status[j], s)

-----------------------------------------------------------------------------
(* Launchers *)

\* startConfirmed picks a fresh random job id.
BeginStart(l, j) ==
  /\ lpc[l] = "idle"
  /\ status[j] = "absent"
  /\ \A m \in Launch : jobOf[m] # j
  /\ jobOf' = [jobOf EXCEPT ![l] = j]
  /\ lpc' = [lpc EXCEPT ![l] = "acquire"]
  /\ UNCHANGED <<storeVars, lease, source, seen, workerVars, client>>

\* createResumeConfirmation binds the plan to the current, interrupted attempt;
\* the owner confirms it at any later time.
BeginResume(l, j) ==
  /\ lpc[l] = "idle"
  /\ status[j] = "interrupted"
  /\ attempt[j] = "interrupted"
  /\ jobOf' = [jobOf EXCEPT ![l] = j]
  /\ source' = [source EXCEPT ![l] = ordinal[j]]
  /\ lpc' = [lpc EXCEPT ![l] = "acquire"]
  /\ UNCHANGED <<storeVars, lease, seen, workerVars, client>>

\* acquire: the inserting transaction finds no row.
AcquireFree(l) ==
  /\ lpc[l] = "acquire"
  /\ lease = None
  /\ lease' = LauncherOwner(l)
  /\ lpc' = [lpc EXCEPT ![l] = "hold"]
  /\ UNCHANGED <<storeVars, jobOf, source, seen, workerVars, client>>

\* acquire: there is a row, which inspect() judges; a live or unreachable
\* owner makes acquire throw, before anything has to be undone.
AcquireInspect(l) ==
  /\ lpc[l] = "acquire"
  /\ lease # None
  /\ \E i \in Inspections(lease) :
       IF i = "stale"
         THEN /\ lpc' = [lpc EXCEPT ![l] = "remove"]
              /\ seen' = [seen EXCEPT ![l] = lease]
         ELSE /\ lpc' = [lpc EXCEPT ![l] = "done"]
              /\ UNCHANGED seen
  /\ UNCHANGED <<storeVars, lease, jobOf, source, workerVars, client>>

\* Mutant of AcquireRemove: whatever row is there now is deleted.
RemoveAnyRow(l) ==
  /\ lpc[l] = "remove"
  /\ lease' = None
  /\ seen' = [seen EXCEPT ![l] = None]
  /\ lpc' = [lpc EXCEPT ![l] = "acquire"]
  /\ UNCHANGED <<storeVars, jobOf, source, workerVars, client>>

\* acquire: delete the stale row if it still has the inspected owner, and loop.
AcquireRemove(l) ==
  /\ lpc[l] = "remove"
  /\ lease' = IF lease = seen[l] THEN None ELSE lease
  /\ seen' = [seen EXCEPT ![l] = None]
  /\ lpc' = [lpc EXCEPT ![l] = "acquire"]
  /\ UNCHANGED <<storeVars, jobOf, source, workerVars, client>>

\* launch: store.initialize inserts the job and its first attempt.
Initialize(l) ==
  LET j == jobOf[l] IN
  /\ lpc[l] = "hold"
  /\ source[l] = 0
  /\ status' = [status EXCEPT ![j] = "queued"]
  /\ attempt' = [attempt EXCEPT ![j] = "active"]
  /\ ordinal' = [ordinal EXCEPT ![j] = 1]
  /\ lpc' = [lpc EXCEPT ![l] = "spawn"]
  /\ UNCHANGED <<identity, result, lease, jobOf, source, seen, workerVars, client>>

\* Mutant of CanConsume: any interrupted attempt may be continued.
ConsumeAnyAttempt(l) ==
  status[jobOf[l]] = "interrupted" /\ attempt[jobOf[l]] = "interrupted"

\* consumeResumeConfirmation: the job must still be at the planned attempt.
\* The revision check adds nothing to it: no transaction of this module
\* changes the state of a job that stays interrupted.
CanConsume(l) ==
  LET j == jobOf[l] IN
  /\ status[j] = "interrupted"
  /\ attempt[j] = "interrupted"
  /\ ordinal[j] = source[l]

Consume(l) ==
  LET j == jobOf[l] IN
  /\ lpc[l] = "hold"
  /\ source[l] # 0
  /\ CanConsume(l)
  /\ status' = [status EXCEPT ![j] = "queued"]
  /\ identity' = [identity EXCEPT ![j] = None]
  /\ result' = [result EXCEPT ![j] = None]
  /\ attempt' = [attempt EXCEPT ![j] = "active"]
  /\ ordinal' = [ordinal EXCEPT ![j] = source[l] + 1]
  /\ lpc' = [lpc EXCEPT ![l] = "spawn"]
  /\ UNCHANGED <<lease, jobOf, source, seen, workerVars, client>>

\* Initialisation, the resume checks (a stale, expired or used confirmation,
\* changed evidence) or spawn() throws: the catch block releases the lease.
LauncherFails(l) ==
  /\ lpc[l] \in {"hold", "spawn"}
  /\ lpc' = [lpc EXCEPT ![l] = "release"]
  /\ UNCHANGED <<storeVars, lease, jobOf, source, seen, workerVars, client>>

Spawn(l) ==
  /\ lpc[l] = "spawn"
  /\ lpc' = [lpc EXCEPT ![l] = "wait"]
  /\ wpc' = [wpc EXCEPT ![l] = "starting"]
  /\ UNCHANGED <<storeVars, lease, jobOf, source, seen, readStatus, holding,
                 cancel, outcome, agent, aborting, client>>

\* workerStartupIsConfirmed: the state names this worker, and the job is
\* terminal or the worker answers the handshake.
SpawnConfirmed(l) ==
  /\ lpc[l] = "wait"
  /\ identity[jobOf[l]] = l
  /\ Terminal(jobOf[l]) \/ "verified" \in Verdicts(l)
  /\ lpc' = [lpc EXCEPT ![l] = "done"]
  /\ UNCHANGED <<storeVars, lease, jobOf, source, seen, workerVars, client>>

\* The polling loop sees that the child exited.
SpawnExited(l) ==
  /\ lpc[l] = "wait"
  /\ wpc[l] = "gone"
  /\ lpc' = [lpc EXCEPT ![l] = "release"]
  /\ UNCHANGED <<storeVars, lease, jobOf, source, seen, workerVars, client>>

\* The startup deadline passes: the worker's process group is killed.
SpawnTimeout(l) ==
  /\ lpc[l] = "wait"
  /\ WorkerAlive(l)
  /\ wpc' = [wpc EXCEPT ![l] = "gone"]
  /\ Forget(l)
  /\ lpc' = [lpc EXCEPT ![l] = "release"]
  /\ UNCHANGED <<storeVars, lease, jobOf, source, seen, agent, client>>

\* readProcessStartIdentity throws (ps timed out or could not be run) while a
\* poll verifies the worker the state names: nothing between it and the catch
\* block of launch() handles that, and the worker is not killed.
SpawnProbeThrows(l) ==
  /\ ProbeMayFail
  /\ lpc[l] = "wait"
  /\ identity[jobOf[l]] = l
  /\ ~Terminal(jobOf[l])
  /\ lpc' = [lpc EXCEPT ![l] = "release"]
  /\ UNCHANGED <<storeVars, lease, jobOf, source, seen, workerVars, client>>

\* Mutant of LauncherRelease: the catch block repeats until it has deleted a row.
ReleaseUntilDeleted(l) ==
  /\ lpc[l] = "release"
  /\ lease \in {WorkerOwner(l), LauncherOwner(l)}
  /\ lease' = None
  /\ lpc' = [lpc EXCEPT ![l] = "done"]
  /\ UNCHANGED <<storeVars, jobOf, source, seen, workerVars, client>>

\* The catch block: release the worker's lease or else the launcher's.
LauncherRelease(l) ==
  /\ lpc[l] = "release"
  /\ lease' = IF lease \in {WorkerOwner(l), LauncherOwner(l)} THEN None ELSE lease
  /\ lpc' = [lpc EXCEPT ![l] = "done"]
  /\ UNCHANGED <<storeVars, jobOf, source, seen, workerVars, client>>

LauncherCrash(l) ==
  /\ LauncherMayCrash
  /\ LauncherAlive(l)
  /\ lpc' = [lpc EXCEPT ![l] = "done"]
  /\ seen' = [seen EXCEPT ![l] = None]
  /\ UNCHANGED <<storeVars, lease, jobOf, source, workerVars, client>>

-----------------------------------------------------------------------------
(* Workers: the main flow *)

\* main() reads the state and the attempt before its command server exists.
WorkerStart(l) ==
  /\ wpc[l] = "starting"
  /\ readStatus' = [readStatus EXCEPT ![l] = status[jobOf[l]]]
  /\ wpc' = [wpc EXCEPT ![l] = "claiming"]
  /\ UNCHANGED <<storeVars, lease, launcherVars, holding, cancel, outcome, agent, aborting, client>>

\* serveCommands, then claim: the launcher's row becomes the worker's.
WorkerClaim(l) ==
  /\ wpc[l] = "claiming"
  /\ lease = LauncherOwner(l)
  /\ lease' = WorkerOwner(l)
  /\ holding' = [holding EXCEPT ![l] = TRUE]
  /\ wpc' = [wpc EXCEPT ![l] = "claimed"]
  /\ UNCHANGED <<storeVars, launcherVars, readStatus, cancel, outcome, agent, aborting, client>>

\* The first updateState rewrites the status read at startup, and adds the identity.
WorkerIdentify(l) ==
  LET j == jobOf[l] IN
  /\ wpc[l] = "claimed"
  /\ CanUpdate(j, readStatus[l])
  /\ status' = [status EXCEPT ![j] = readStatus[l]]
  /\ identity' = [identity EXCEPT ![j] = l]
  /\ readStatus' = [readStatus EXCEPT ![l] = None]
  /\ wpc' = [wpc EXCEPT ![l] = "identified"]
  /\ UNCHANGED <<result, attempt, ordinal, lease, launcherVars, holding,
                 cancel, outcome, agent, aborting, client>>

\* assertJobActive and the updateState that opens the next stage.  A resumed
\* worker whose plan starts after Prime skips it.
NextStage(l) ==
  CASE wpc[l] = "identified" -> {"provisioning"}
    [] wpc[l] = "provisioning" -> {"running"}
    [] wpc[l] = "running" /\ source[l] # 0 -> {"verifying"}
    [] wpc[l] = "quiesced" -> {"verifying"}
    [] wpc[l] = "verifying" -> {"committing"}
    [] OTHER -> {}

WorkerAdvance(l) ==
  LET j == jobOf[l] IN
  /\ cancel[l] = "no"
  /\ \E s \in NextStage(l) :
       /\ CanUpdate(j, s)
       /\ status' = [status EXCEPT ![j] = s]
       /\ wpc' = [wpc EXCEPT ![l] = s]
  /\ UNCHANGED <<identity, result, attempt, ordinal, lease, launcherVars, readStatus,
                 holding, cancel, outcome, agent, aborting, client>>

\* agent.start passes its check of the abort signal and awaits mkdir ...
PrepareAgent(l) ==
  /\ wpc[l] = "running"
  /\ cancel[l] = "no"
  /\ wpc' = [wpc EXCEPT ![l] = "preparing"]
  /\ UNCHANGED <<storeVars, lease, launcherVars, readStatus, holding, cancel, outcome, agent,
                 aborting, client>>

\* ... and spawns the Prime process tree, without a look at the signal.  The
\* abort it then calls for an aborted signal is the memoized one.
StartAgent(l) ==
  /\ wpc[l] = "preparing"
  /\ agent' = [agent EXCEPT ![l] = TRUE]
  /\ wpc' = [wpc EXCEPT ![l] = "prompted"]
  /\ UNCHANGED <<storeVars, lease, launcherVars, readStatus, holding, cancel, outcome,
                 aborting, client>>

\* agent.abort, which agent.dispose calls too: the first call kills the tree
\* and waits for its exit, or rejects when the tree survives SIGKILL; its
\* promise is memoized, so that every later call only repeats its answer.
HasBackend(l) == wpc[l] = "preparing" \/ agent[l]

Aborts(l) ==
  IF ~HasBackend(l) THEN {[agent |-> FALSE, aborting |-> aborting[l]]}
  ELSE IF aborting[l] # "no" THEN {[agent |-> agent[l], aborting |-> aborting[l]]}
  ELSE {[agent |-> FALSE, aborting |-> "resolved"]} \union
       (IF agent[l] /\ TreeMaySurvive
          THEN {[agent |-> TRUE, aborting |-> "rejected"]} ELSE {})

Abort(l, a) ==
  /\ agent' = [agent EXCEPT ![l] = a.agent]
  /\ aborting' = [aborting EXCEPT ![l] = a.aborting]

\* agent.start resolved and assertJobActive passed; agent.dispose is next.
AgentAnswers(l) ==
  /\ wpc[l] = "prompted"
  /\ cancel[l] = "no"
  /\ wpc' = [wpc EXCEPT ![l] = "answered"]
  /\ UNCHANGED <<storeVars, lease, launcherVars, readStatus, holding, cancel, outcome, agent,
                 aborting, client>>

\* agent.dispose returned: the tree has exited.
QuiesceAgent(l) ==
  /\ wpc[l] = "answered"
  /\ \E a \in Aborts(l) :
       /\ a.aborting # "rejected"
       /\ Abort(l, a)
  /\ wpc' = [wpc EXCEPT ![l] = "quiesced"]
  /\ UNCHANGED <<storeVars, lease, launcherVars, readStatus, holding, cancel, outcome, client>>

\* The commit and the reports are written and the last assertJobActive passed.
WorkerConclude(l) ==
  /\ wpc[l] = "committing"
  /\ cancel[l] = "no"
  /\ wpc' = [wpc EXCEPT ![l] = "concluding"]
  /\ UNCHANGED <<storeVars, lease, launcherVars, readStatus, holding, cancel, outcome, agent,
                 aborting, client>>

\* The terminal checkpoint must belong to the current attempt.
WorkerSucceed(l) ==
  /\ wpc[l] = "concluding"
  /\ ordinal[jobOf[l]] = source[l] + 1
  /\ CanFinalize(jobOf[l], "succeeded", WorkerToken(l))
  /\ Finalize(jobOf[l], "succeeded", WorkerToken(l))
  /\ wpc' = [wpc EXCEPT ![l] = "closing"]
  /\ UNCHANGED <<launcherVars, readStatus, holding, cancel, outcome, agent, aborting, client>>

-----------------------------------------------------------------------------
(* Workers: cancellation, failure and shutdown *)

\* Anything inside main()'s try block throws: a refused claim or transition,
\* a failed stage or gate, the deadline, or assertJobActive after a
\* cancellation.  agent.start cannot throw between its two steps.
InTry == {"claiming", "claimed", "identified", "provisioning", "running", "preparing",
          "prompted", "answered", "quiesced", "verifying", "committing", "concluding"}

WorkerThrows(l) ==
  /\ wpc[l] \in InTry \ {"preparing"}
  /\ wpc' = [wpc EXCEPT ![l] = "failing"]
  /\ readStatus' = [readStatus EXCEPT ![l] = None]
  /\ UNCHANGED <<storeVars, lease, launcherVars, holding, cancel, outcome, agent, aborting, client>>

\* Before the try block: main().catch releases the launcher's token and exits.
WorkerStartFails(l) ==
  /\ wpc[l] = "starting"
  /\ lease' = IF lease = LauncherOwner(l) THEN None ELSE lease
  /\ wpc' = [wpc EXCEPT ![l] = "gone"]
  /\ UNCHANGED <<storeVars, launcherVars, readStatus, holding, cancel, outcome, agent, aborting,
                 client>>

\* prime_cancel from a client that verified this worker: the handler reads a
\* live state and requestCancellation sets the flag.  The finally block has
\* taken performCancellation away.
CancelRequest(l) ==
  /\ l \in Cancellable
  /\ Serving(l) /\ holding[l] /\ wpc[l] \notin {"closing", "stranded"}
  /\ cancel[l] = "no"
  /\ Active(jobOf[l])
  /\ cancel' = [cancel EXCEPT ![l] = "flagged"]
  /\ UNCHANGED <<storeVars, lease, launcherVars, wpc, readStatus, holding, outcome, agent,
                 aborting, client>>

\* Its updateState("cancelling"), which a terminal job refuses; then the
\* cancellation promise is over without having quiesced anything.
CancelWrite(l) ==
  LET j == jobOf[l] IN
  /\ WorkerAlive(l)
  /\ cancel[l] = "flagged"
  /\ IF CanUpdate(j, "cancelling")
       THEN /\ status' = [status EXCEPT ![j] = "cancelling"]
            /\ cancel' = [cancel EXCEPT ![l] = "written"]
       ELSE /\ cancel' = [cancel EXCEPT ![l] = "over"]
            /\ UNCHANGED status
  /\ UNCHANGED <<identity, result, attempt, ordinal, lease, launcherVars, wpc, readStatus,
                 holding, outcome, agent, aborting, client>>

\* quiesceChildrenWithRoot; its rejection only reaches the cancelling client.
CancelQuiesce(l) ==
  /\ WorkerAlive(l)
  /\ cancel[l] = "written"
  /\ \E a \in Aborts(l) : Abort(l, a)
  /\ cancel' = [cancel EXCEPT ![l] = "over"]
  /\ UNCHANGED <<storeVars, lease, launcherVars, wpc, readStatus, holding, outcome, client>>

\* The catch block awaits a cancellation that already began, then the
\* revocation of the inference lease ...
WorkerCatch(l) ==
  /\ wpc[l] = "failing"
  /\ cancel[l] \in {"no", "over"}
  /\ wpc' = [wpc EXCEPT ![l] = "revoking"]
  /\ UNCHANGED <<storeVars, lease, launcherVars, readStatus, holding, cancel, outcome, agent,
                 aborting, client>>

\* Mutant of WorkerQuiesce: a rejected abort is swallowed.
QuiesceUnproven(l) ==
  /\ wpc[l] = "revoking"
  /\ IF cancel[l] = "no" THEN \E a \in Aborts(l) : Abort(l, a)
                         ELSE UNCHANGED <<agent, aborting>>
  /\ wpc' = [wpc EXCEPT ![l] = "reading"]
  /\ UNCHANGED <<storeVars, lease, launcherVars, readStatus, holding, cancel, outcome, client>>

\* ... and quiesces, unless a cancellation was requested by then.  Unproven
\* quiescence is rethrown: the job keeps its status.
WorkerQuiesce(l) ==
  /\ wpc[l] = "revoking"
  /\ IF cancel[l] = "no"
       THEN \E a \in Aborts(l) :
              /\ Abort(l, a)
              /\ wpc' = [wpc EXCEPT ![l] = IF a.aborting = "rejected" THEN "closing"
                                                                      ELSE "reading"]
       ELSE /\ wpc' = [wpc EXCEPT ![l] = "reading"]
            /\ UNCHANGED <<agent, aborting>>
  /\ UNCHANGED <<storeVars, lease, launcherVars, readStatus, holding, cancel, outcome, client>>

\* The catch block reads the state and chooses the outcome from the flag.
WorkerReadsOutcome(l) ==
  /\ wpc[l] = "reading"
  /\ outcome' = [outcome EXCEPT ![l] =
       IF ~Active(jobOf[l]) THEN status[jobOf[l]]
       ELSE IF cancel[l] = "no" THEN "failed" ELSE "cancelled"]
  /\ wpc' = [wpc EXCEPT ![l] = "recording"]
  /\ readStatus' = [readStatus EXCEPT ![l] =
       IF Active(jobOf[l]) THEN None ELSE status[jobOf[l]]]
  /\ UNCHANGED <<storeVars, lease, launcherVars, holding, cancel, agent, aborting, client>>

\* After the evidence capture: finalizeTerminal when the state read was live,
\* otherwise writeTerminalResult, which overwrites the result of the job as it
\* is now.  An error of either only ends the catch block.
WorkerRecord(l) ==
  LET j == jobOf[l] IN
  /\ wpc[l] = "recording"
  /\ wpc' = [wpc EXCEPT ![l] = "closing"]
  /\ IF readStatus[l] = None
       THEN IF CanFinalize(j, outcome[l], WorkerToken(l))
              THEN Finalize(j, outcome[l], WorkerToken(l))
              ELSE UNCHANGED <<storeVars, lease>>
       ELSE /\ result' = [result EXCEPT ![j] = outcome[l]]
            /\ UNCHANGED <<status, identity, attempt, ordinal, lease>>
  /\ readStatus' = [readStatus EXCEPT ![l] = None]
  /\ outcome' = [outcome EXCEPT ![l] = None]
  /\ UNCHANGED <<launcherVars, holding, cancel, agent, aborting, client>>

\* The finally block disposes of the agent and closes the server.  A rejected
\* dispose skips the rest: main().catch releases the lease, but the open server
\* keeps the process, which goes on answering handshakes.
WorkerClose(l) ==
  /\ wpc[l] = "closing"
  /\ \E a \in Aborts(l) :
       /\ Abort(l, a)
       /\ IF a.aborting = "rejected"
            THEN /\ wpc' = [wpc EXCEPT ![l] = "stranded"]
                 /\ lease' = IF lease = WorkerToken(l) THEN None ELSE lease
            ELSE /\ wpc' = [wpc EXCEPT ![l] = "draining"]
                 /\ UNCHANGED lease
  /\ UNCHANGED <<storeVars, launcherVars, readStatus, holding, cancel, outcome, client>>

\* The server closed after its last handler: release the lease and end.
WorkerExit(l) ==
  /\ wpc[l] = "draining"
  /\ cancel[l] \in {"no", "over"}
  /\ lease' = IF lease = WorkerToken(l) THEN None ELSE lease
  /\ wpc' = [wpc EXCEPT ![l] = "gone"]
  /\ Forget(l)
  /\ UNCHANGED <<storeVars, launcherVars, agent, client>>

\* The worker process dies: its lease row and its agent tree stay.
WorkerCrash(l) ==
  /\ WorkerAlive(l)
  /\ wpc' = [wpc EXCEPT ![l] = "gone"]
  /\ Forget(l)
  /\ UNCHANGED <<storeVars, lease, launcherVars, agent, client>>

-----------------------------------------------------------------------------
(* Clients: status() and the reconciliation every CLI start runs *)

AtRest == [pc |-> "idle", job |-> None, status |-> None, who |-> None, token |-> None]

\* interruptUnverifiedWorker is about to present token.
Interrupting(c, token) ==
  client' = [client EXCEPT ![c] =
    [AtRest EXCEPT !.pc = "interrupt", !.job = client[c].job, !.token = token]]

\* status() returns or throws.
Return(c) == client' = [client EXCEPT ![c] = AtRest]

\* readReconciledState finds a live job.
StatusRead(c, j) ==
  /\ client[c].pc = "idle"
  /\ Active(j)
  /\ client' = [client EXCEPT ![c] =
       IF identity[j] = None
         THEN [AtRest EXCEPT !.pc = "inspect", !.job = j, !.status = status[j]]
         ELSE [AtRest EXCEPT !.pc = "verify", !.job = j, !.who = identity[j]]]
  /\ UNCHANGED <<storeVars, lease, launcherVars, workerVars>>

\* The state read names no worker: the lease row decides.
OwnLease(c) == lease # None /\ jobOf[lease.launch] = client[c].job

StatusInspect(c) ==
  /\ client[c].pc = "inspect"
  /\ \E i \in Inspections(lease) :
       \/ /\ OwnLease(c) /\ i = "verified-worker"
          /\ client' = [client EXCEPT ![c].pc = "adopt", ![c].who = lease.launch]
       \/ /\ OwnLease(c)
          /\ i = "unreachable-worker" \/ (i = "live-launcher" /\ client[c].status = "queued")
          /\ Return(c)
       \/ /\ OwnLease(c) => i = "stale" \/ (i = "live-launcher" /\ client[c].status # "queued")
          /\ Interrupting(c, IF OwnLease(c) THEN lease ELSE None)
  /\ UNCHANGED <<storeVars, lease, launcherVars, workerVars>>

\* The verified lease holder's identity is written with the status read before.
StatusAdopt(c) ==
  LET j == client[c].job IN
  /\ client[c].pc = "adopt"
  /\ IF CanUpdate(j, client[c].status)
       THEN /\ status' = [status EXCEPT ![j] = client[c].status]
            /\ identity' = [identity EXCEPT ![j] = client[c].who]
            /\ client' = [client EXCEPT ![c].pc = "verify", ![c].status = None]
       ELSE Return(c) /\ UNCHANGED <<status, identity>>
  /\ UNCHANGED <<result, attempt, ordinal, lease, launcherVars, workerVars>>

StatusVerify(c) ==
  /\ client[c].pc = "verify"
  /\ \E v \in Verdicts(client[c].who) :
       IF v = "disproven"
         THEN Interrupting(c, WorkerOwner(client[c].who))
         ELSE Return(c)
  /\ UNCHANGED <<storeVars, lease, launcherVars, workerVars>>

\* interruptUnverifiedWorker's finalizeTerminal; a refusal makes status() throw.
StatusInterrupt(c) ==
  /\ client[c].pc = "interrupt"
  /\ IF CanFinalize(client[c].job, "interrupted", client[c].token)
       THEN Finalize(client[c].job, "interrupted", client[c].token)
       ELSE UNCHANGED <<storeVars, lease>>
  /\ Return(c)
  /\ UNCHANGED <<launcherVars, workerVars>>

-----------------------------------------------------------------------------
(* The specification *)

Init ==
  /\ status = [j \in Job |-> "absent"]
  /\ identity = [j \in Job |-> None]
  /\ result = [j \in Job |-> None]
  /\ attempt = [j \in Job |-> None]
  /\ ordinal = [j \in Job |-> 0]
  /\ lease = None
  /\ lpc = [l \in Launch |-> "idle"]
  /\ jobOf = [l \in Launch |-> None]
  /\ source = [l \in Launch |-> 0]
  /\ seen = [l \in Launch |-> None]
  /\ wpc = [l \in Launch |-> "none"]
  /\ readStatus = [l \in Launch |-> None]
  /\ holding = [l \in Launch |-> FALSE]
  /\ cancel = [l \in Launch |-> "no"]
  /\ outcome = [l \in Launch |-> None]
  /\ agent = [l \in Launch |-> FALSE]
  /\ aborting = [l \in Launch |-> "no"]
  /\ client = [c \in Client |-> AtRest]

\* The steps a launcher, a worker and a client take when nothing goes wrong ...
LauncherProgress(l) ==
  \/ AcquireFree(l) \/ AcquireInspect(l) \/ AcquireRemove(l)
  \/ Initialize(l) \/ Consume(l) \/ Spawn(l)
  \/ LauncherFails(l)
  \/ SpawnConfirmed(l) \/ SpawnExited(l) \/ SpawnTimeout(l)
  \/ LauncherRelease(l)

WorkerProgress(l) ==
  \/ WorkerStart(l) \/ WorkerClaim(l) \/ WorkerIdentify(l)
  \/ WorkerAdvance(l) \/ PrepareAgent(l) \/ StartAgent(l) \/ AgentAnswers(l) \/ QuiesceAgent(l)
  \/ WorkerConclude(l) \/ WorkerSucceed(l) \/ WorkerThrows(l)
  \/ CancelWrite(l) \/ CancelQuiesce(l)
  \/ WorkerCatch(l) \/ WorkerQuiesce(l) \/ WorkerReadsOutcome(l)
  \/ WorkerRecord(l) \/ WorkerClose(l) \/ WorkerExit(l)

StatusProgress(c) ==
  StatusInspect(c) \/ StatusAdopt(c) \/ StatusVerify(c) \/ StatusInterrupt(c)

\* ... and what users and the environment do to them.
Fault(l) ==
  \/ SpawnProbeThrows(l) \/ LauncherCrash(l)
  \/ WorkerStartFails(l) \/ CancelRequest(l) \/ WorkerCrash(l)

Next ==
  \/ \E l \in Launch :
       \/ \E j \in Job : BeginStart(l, j) \/ BeginResume(l, j)
       \/ LauncherProgress(l) \/ WorkerProgress(l) \/ Fault(l)
  \/ \E c \in Client :
       \/ \E j \in Job : StatusRead(c, j)
       \/ StatusProgress(c)

Spec == Init /\ [][Next]_vars

\* Processes that live keep running; an agent ends at the latest with the
\* deadline of its job; and CLI processes keep reconciling every live job
\* (reconcileNonterminalJobs).
Fairness ==
  /\ \A l \in Launch : WF_vars(LauncherProgress(l)) /\ WF_vars(WorkerProgress(l))
  /\ \A c \in Client : WF_vars(StatusProgress(c))
  /\ \A c \in Client, j \in Job : SF_vars(StatusRead(c, j))

FairSpec == Spec /\ Fairness

-----------------------------------------------------------------------------
(* Properties *)

StoreTypeOK ==
  /\ status \in [Job -> Statuses \union {"absent"}]
  /\ identity \in [Job -> Launch \union {None}]
  /\ result \in [Job -> TerminalStatuses \union {None}]
  /\ attempt \in [Job -> TerminalStatuses \union {"active", None}]
  /\ ordinal \in [Job -> Nat]
  /\ lease \in Owner \union {None}

LauncherTypeOK ==
  /\ lpc \in [Launch -> LauncherPc]
  /\ jobOf \in [Launch -> Job \union {None}]
  /\ source \in [Launch -> Nat]
  /\ seen \in [Launch -> Owner \union {None}]

WorkerTypeOK ==
  /\ wpc \in [Launch -> WorkerPc]
  /\ readStatus \in [Launch -> Statuses \union {None}]
  /\ holding \in [Launch -> BOOLEAN]
  /\ cancel \in [Launch -> {"no", "flagged", "written", "over"}]
  /\ outcome \in [Launch -> TerminalStatuses \union {None}]
  /\ agent \in [Launch -> BOOLEAN]
  /\ aborting \in [Launch -> {"no", "resolved", "rejected"}]

ClientTypeOK ==
  client \in [Client -> [pc : ClientPc, job : Job \union {None},
                         status : LiveStatuses \union {None},
                         who : Launch \union {None}, token : Owner \union {None}]]

\* Every variable has the type its column, field or local variable has.
TypeOK == StoreTypeOK /\ LauncherTypeOK /\ WorkerTypeOK /\ ClientTypeOK

\* A worker between its claim and the transaction that records its outcome.
Engaged(l) ==
  \/ wpc[l] \in InTry \ {"claiming"}
  \/ wpc[l] \in {"failing", "revoking", "reading", "recording"} /\ holding[l]

\* "A global filesystem lease admits one active job" (ADR-0002): whatever
\* launchers, workers and reconciling clients do, and whichever of them die
\* between two of their transactions, at most one worker executes a job.
OneActiveWorker ==
  \A l, m \in Launch : Engaged(l) /\ Engaged(m) => l = m

\* The same from the worker's side, and what makes it inductive: no launcher,
\* client or other worker ever takes the lease row of an executing worker.
EngagedHoldsLease ==
  \A l \in Launch : Engaged(l) => lease = WorkerOwner(l)

\* Two resumes never continue the same attempt of a job, although each was
\* confirmed on a plan read long before (ADR-0017: the confirmation "binds the
\* owner route, source attempt, and authoritative job revision").
AttemptsAreNotForked ==
  \A l, m \in Launch :
    /\ wpc[l] # "none" /\ wpc[m] # "none"
    /\ jobOf[l] = jobOf[m] /\ source[l] = source[m]
    => l = m

\* The worker that executes a live job executes the attempt its own launch
\* created: what it writes to the state belongs to the current attempt.
WorkerRunsItsAttempt ==
  \A l \in Launch :
    Engaged(l) /\ Active(jobOf[l]) => ordinal[jobOf[l]] = source[l] + 1

\* The store's status column follows the documented state diagram, with every
\* interleaving and fault of the processes that write it: no write of a stale
\* process revives a finished attempt or moves a job off the diagram.
Lifecycle == INSTANCE JobLifecycle
LifecycleRefined == Lifecycle!LifecycleSpec

\* A worker that records success or failure has proven before that its Prime
\* process tree exited (docs/child-runtime-lifecycle.md, ADR-0010).
RecordedAfterQuiescence ==
  [][\A l \in Launch :
       /\ wpc[l] \in {"concluding", "recording"} /\ wpc'[l] = "closing"
       /\ Active(jobOf[l]) /\ status'[jobOf[l]] \in {"succeeded", "failed"}
       => ~agent[l]]_vars

\* The same of a cancelled job: root cancellation "quiesces the root process
\* tree. Only then can it ... materialize the terminal root result"
\* (docs/child-runtime-lifecycle.md). It does not hold, and no run checks it: see
\* "Disagreements" in README.md.
CancelledAfterQuiescence ==
  [][\A j \in Job :
       status[j] # "cancelled" /\ status'[j] = "cancelled" /\ identity[j] # None
       => ~agent[identity[j]]]_vars

\* "Reconciliation marks a nonterminal job interrupted when its recorded worker
\* no longer exists" (ADR-0002), and only then. It does not hold with two clients, and
\* no run checks it: see "Disagreements" in README.md.
LiveWorkerNotInterrupted ==
  [][\A j \in Job :
       status[j] # "interrupted" /\ status'[j] = "interrupted" /\ identity[j] # None
       => ~WorkerAlive(identity[j])]_vars

\* Every live job ends: its worker finishes it, or dies and reconciliation
\* interrupts it ("a dead or disproven worker is reconciled to interrupted",
\* docs/technical-overview.md), whoever holds the lease meanwhile.
LiveJobEnds == \A j \in Job : Active(j) ~> Terminal(j)

\* Every start or resume returns to its caller: acquire's loop ends although
\* the row it inspects may be replaced under it, and so does startup polling.
LaunchReturns == \A l \in Launch : lpc[l] # "idle" ~> lpc[l] = "done"

=============================================================================
