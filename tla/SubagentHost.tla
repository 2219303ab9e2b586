----------------------------- MODULE SubagentHost -----------------------------
(***************************************************************************)
(* The processes that drive the child tree of a running root job: the      *)
(* worker's main flow and its quiescence, the subagent host with its       *)
(* serialized admissions and the settlement of each child (prime-sdk.ts,   *)
(* child-host-bridge.ts, child-git.ts), and the reconciliation of a dead   *)
(* worker (dispatcher.ts).                                                 *)
(*                                                                         *)
(* The worker is one Node process: admissions, settlements, cancellations  *)
(* and the main flow are concurrent at their awaits, and all of them end,  *)
(* with every child session, when it dies.  The Prime SDK is external: it  *)
(* asks for children while the root's prompt runs, completes, cancels or   *)
(* deletes the sessions the host published, and disposing the root session *)
(* ends those sessions.                                                    *)
(***************************************************************************)
EXTENDS ChildTree

CONSTANT WorkerMayDie   \* may the worker process die at any time?

ASSUME WorkerAssumption == WorkerMayDie \in BOOLEAN
ASSUME NoOutcomeAssumption == None \notin {"succeeded", "failed"}

Role == {Implementation, Dependent}

VARIABLES
  main,        \* where main() of worker.ts and the agent's start() are
  corrected,   \* has the root been prompted a second time?
  quiesce,     \* where quiesceChildrenWithRoot is
  cancelled,   \* cancellationRequested
  admission,   \* where the holder of admissionTail is
  who,         \* the child it is about
  picking,     \* the child whose proposal Git is applying to the root
  settle,      \* per child, the settlement of its session
  outcome,     \* the outcome a settlement is about to record
  removal,     \* per child, BoundedRlmHostBridge.cancel
  session,     \* per child, its SDK session
  reconciler   \* where a client's interruptUnverifiedWorker is

hostVars == <<admission, who, picking, settle, outcome, removal, session>>
mainVars == <<main, corrected, quiesce, cancelled>>
vars == <<storeVars, mainVars, hostVars, reconciler>>

MainPc == {"prompt", "settling", "joining", "joined", "verifying", "committing", "catch", "gone"}
QuiescePc == {"no", "request", "close", "complete", "done", "failed"}
AdmissionPc == {"idle", "wave", "integrate", "decide", "prepare", "lease", "record", "create",
                "bind", "undo", "undone"}
SettlePc == {"no", "disposed", "revoked", "torn", "proposed", "failed"}
RemovalPc == {"no", "requested", "quiet", "torn"}

\* "unbound" sessions are not registered with the host yet.
SessionState == {"none", "unbound", "registered"}

Alive == main # "gone"

\* The root session acts on its children until it is disposed.
RootPrompts == main = "prompt" /\ quiesce \notin {"complete", "done"}

\* ProductionInferenceBroker.createLease fails once close() closed its server.
BrokerOpen == quiesce \notin {"complete", "done"}

Init ==
  /\ StoreInit
  /\ main = "prompt"
  /\ corrected = FALSE
  /\ quiesce = "no"
  /\ cancelled = FALSE
  /\ admission = "idle"
  /\ who = None
  /\ picking = None
  /\ settle = [c \in Child |-> "no"]
  /\ outcome = [c \in Child |-> None]
  /\ removal = [c \in Child |-> "no"]
  /\ session = [c \in Child |-> "none"]
  /\ reconciler = "idle"

-----------------------------------------------------------------------------
(* Admission *)

\* createRlmSubagentRuntime: the root's prompt asks for a child; the previous
\* holder of the tail has released it.
RequestChild(c) ==
  /\ RootPrompts
  /\ admission = "idle"
  /\ who' = c
  /\ admission' = IF c \in Dependent /\ ~based THEN "wave" ELSE "decide"
  /\ UNCHANGED <<storeVars, mainVars, picking, settle, outcome, removal, session, reconciler>>

AdmissionTo(pc) ==
  /\ admission' = pc
  /\ who' = IF pc = "idle" THEN None ELSE who

\* The request throws before anything is admitted: a policy limit, a stale
\* revision, a child that cannot be retried, a wave that is not integrated, Git.
\* A proposal that Git was applying keeps its record "applying".
AdmissionRefused ==
  /\ Alive
  /\ admission \in {"wave", "integrate", "decide"}
  /\ picking' = IF admission = "integrate" THEN None ELSE picking
  /\ AdmissionTo("idle")
  /\ UNCHANGED <<storeVars, mainVars, settle, outcome, removal, session, reconciler>>

\* settlePending, then the tree integrateImplementationWave reads: there are
\* implementation children and all of them succeeded.
WaveSettled ==
  /\ Alive
  /\ admission = "wave"
  /\ \A c \in Child : settle[c] = "no"
  /\ Implementation \intersect Admitted # {}
  /\ \A c \in Implementation \intersect Admitted : child[c].status = "succeeded"
  /\ AdmissionTo("integrate")
  /\ UNCHANGED <<storeVars, mainVars, picking, settle, outcome, removal, session, reconciler>>

-----------------------------------------------------------------------------
(* Integration of proposals, by an admission of the second wave or the join *)

Integrating == admission = "integrate" \/ main = "joining"

\* integrateProposal, called in a loop over the children: a conflicted or
\* unfinished record makes it throw.
IntegrateNext ==
  /\ Alive
  /\ Integrating
  /\ picking = None
  /\ \E c \in (IF admission = "integrate" THEN Implementation ELSE Child) :
       /\ CanBeginIntegration(c)
       /\ BeginIntegration(c)
       /\ picking' = c
  /\ UNCHANGED <<mainVars, admission, who, settle, outcome, removal, session, reconciler>>

\* The proposal applies cleanly, or there was nothing to apply.
IntegrateClean ==
  /\ Alive
  /\ picking # None
  /\ EndIntegration(picking, "integrated")
  /\ picking' = None
  /\ UNCHANGED <<mainVars, admission, who, settle, outcome, removal, session, reconciler>>

\* Git reports a conflict; the root is restored and the caller throws.
IntegrateConflict ==
  /\ Alive
  /\ picking # None
  /\ child[picking].proposal = "commit"
  /\ EndIntegration(picking, "conflicted")
  /\ picking' = None
  /\ IF admission = "integrate"
       THEN AdmissionTo("idle") /\ UNCHANGED main
       ELSE main' = "catch" /\ UNCHANGED <<admission, who>>
  /\ UNCHANGED <<corrected, quiesce, cancelled, settle, outcome, removal, session, reconciler>>

\* Mutant of WaveBase: the base is recorded without the loop before it.
WaveBaseEarly ==
  /\ Alive
  /\ admission = "integrate"
  /\ root = "running" /\ ~based
  /\ RecordBase
  /\ AdmissionTo("decide")
  /\ UNCHANGED <<mainVars, picking, settle, outcome, removal, session, reconciler>>

\* The loop is through: recordWaveBase, and the tree is read again.
WaveBase ==
  /\ Alive
  /\ admission = "integrate"
  /\ picking = None
  /\ \A c \in Implementation \intersect Admitted : child[c].integration = "integrated"
  /\ CanRecordBase
  /\ RecordBase
  /\ AdmissionTo("decide")
  /\ UNCHANGED <<mainVars, picking, settle, outcome, removal, session, reconciler>>

AdmitOrRetry ==
  /\ Alive
  /\ admission = "decide"
  /\ \/ CanAdmit(who) /\ Admit(who)
     \/ CanRetry(who) /\ Retry(who)
  /\ AdmissionTo("prepare")
  /\ UNCHANGED <<mainVars, picking, settle, outcome, removal, session, reconciler>>

\* ChildGitCoordinator.prepare.
PrepareWorktree ==
  /\ Alive
  /\ admission = "prepare"
  /\ CanRecordWorktree(who)
  /\ RecordWorktree(who)
  /\ AdmissionTo("lease")
  /\ UNCHANGED <<mainVars, picking, settle, outcome, removal, session, reconciler>>

\* createLease: the broker answers for a lease the store does not know yet.
LeaseInference ==
  /\ Alive
  /\ admission = "lease"
  /\ BrokerOpen
  /\ AdmissionTo("record")
  /\ UNCHANGED <<storeVars, mainVars, picking, settle, outcome, removal, session, reconciler>>

RecordInferenceLease ==
  /\ Alive
  /\ admission = "record"
  /\ CanRecordLease(who)
  /\ RecordLease(who)
  /\ AdmissionTo("create")
  /\ UNCHANGED <<mainVars, picking, settle, outcome, removal, session, reconciler>>

\* runtime.run: the SDK creates the session.
CreateSession ==
  /\ Alive
  /\ admission = "create"
  /\ session' = [session EXCEPT ![who] = "unbound"]
  /\ AdmissionTo("bind")
  /\ UNCHANGED <<storeVars, mainVars, picking, settle, outcome, removal, reconciler>>

\* bindChildRuntime and publishStartedRuntime.
BindRuntime ==
  /\ Alive
  /\ admission = "bind"
  /\ CanBind(who)
  /\ Bind(who)
  /\ session' = [session EXCEPT ![who] = "registered"]
  /\ AdmissionTo("idle")
  /\ UNCHANGED <<mainVars, picking, settle, outcome, removal, reconciler>>

\* An admitted child's start throws: Git, the broker, the SDK, a refused
\* transaction.
StartFails ==
  /\ Alive
  /\ admission \in {"prepare", "lease", "record", "create", "bind"}
  /\ AdmissionTo("undo")
  /\ UNCHANGED <<storeVars, mainVars, picking, settle, outcome, removal, session, reconciler>>

\* The catch block disposes the session, if there is one, and revokes the lease,
\* ignoring a revocation that fails.
UndoRuntime ==
  /\ Alive
  /\ admission = "undo"
  /\ session' = [session EXCEPT ![who] = "none"]
  /\ \E r \in {child[who], Revoked(child[who])} : child' = [child EXCEPT ![who] = r]
  /\ AdmissionTo("undone")
  /\ UNCHANGED <<root, based, base, mainVars, picking, settle, outcome, removal, reconciler>>

\* ... and records a child that is still active as interrupted, unless the
\* session's end could not be confirmed or the transaction is refused.
UndoComplete ==
  /\ Alive
  /\ admission = "undone"
  /\ \/ /\ child[who].status = "active"
        /\ CanComplete(who, "interrupted")
        /\ Complete(who, "interrupted")
     \/ UNCHANGED storeVars
  /\ AdmissionTo("idle")
  /\ UNCHANGED <<mainVars, picking, settle, outcome, removal, session, reconciler>>

-----------------------------------------------------------------------------
(* Settlement of a child whose session ended *)

\* finishRuntimeOnce up to records.delete: whether the session ended well and
\* answered decides what will be recorded.
SessionEnds(c) ==
  /\ RootPrompts
  /\ session[c] = "registered"
  /\ settle[c] = "no"
  /\ session' = [session EXCEPT ![c] = "none"]
  /\ settle' = [settle EXCEPT ![c] = "disposed"]
  /\ \E o \in {"succeeded", "failed"} : outcome' = [outcome EXCEPT ![c] = o]
  /\ UNCHANGED <<storeVars, mainVars, admission, who, picking, removal, reconciler>>

SettleTo(c, pc) ==
  /\ settle' = [settle EXCEPT ![c] = pc]
  /\ UNCHANGED <<mainVars, admission, who, picking, removal, session, reconciler>>

SettleRevoke(c) ==
  /\ settle[c] = "disposed"
  /\ child' = [child EXCEPT ![c] = Revoked(child[c])]
  /\ SettleTo(c, "revoked")
  /\ UNCHANGED <<root, based, base, outcome>>

SettleTeardown(c) ==
  /\ settle[c] = "revoked"
  /\ CanRecordTeardown(c)
  /\ RecordTeardown(c)
  /\ SettleTo(c, "torn")
  /\ UNCHANGED outcome

SettlePropose(c) ==
  /\ settle[c] = "torn"
  /\ CanPropose(c)
  /\ \E p \in {"commit", "no_change"} : Propose(c, p)
  /\ SettleTo(c, "proposed")
  /\ UNCHANGED outcome

SettleComplete(c) ==
  /\ settle[c] = "proposed"
  /\ CanComplete(c, outcome[c])
  /\ Complete(c, outcome[c])
  /\ outcome' = [outcome EXCEPT ![c] = None]
  /\ SettleTo(c, "no")

\* Git, a revocation or a refused transaction makes a settlement throw: its
\* promise stays rejected in the set of settlements.  When nobody awaits it
\* yet Node may end the process, which is WorkerDies.
SettleFails(c) ==
  /\ settle[c] \in {"disposed", "revoked", "torn", "proposed"}
  /\ outcome' = [outcome EXCEPT ![c] = None]
  /\ SettleTo(c, "failed")
  /\ UNCHANGED storeVars

-----------------------------------------------------------------------------
(* Removal of a child by the root's session: BoundedRlmHostBridge.cancel *)

RemovalTo(c, pc) ==
  /\ removal' = [removal EXCEPT ![c] = pc]
  /\ UNCHANGED <<mainVars, admission, who, picking, settle, outcome, reconciler>>

\* finishRuntime with status "cancelled", deleteRlmSubagentRuntime and
\* disposeRlmSubagentRuntimes.
RequestRemoval(c) ==
  /\ RootPrompts
  /\ session[c] = "registered"
  /\ removal[c] = "no"
  /\ CanRequestCancellation(c)
  /\ RequestCancellation(c)
  /\ RemovalTo(c, "requested")
  /\ UNCHANGED session

\* The lease's revocation and the runtime's teardown, both awaited; the first
\* may fail.
RemovalQuiesce(c) ==
  /\ removal[c] = "requested"
  /\ \E r \in {child[c], Revoked(child[c])} : child' = [child EXCEPT ![c] = r]
  /\ session' = [session EXCEPT ![c] = "none"]
  /\ RemovalTo(c, "quiet")
  /\ UNCHANGED <<root, based, base>>

RemovalTeardown(c) ==
  /\ removal[c] = "quiet"
  /\ CanRecordTeardown(c)
  /\ RecordTeardown(c)
  /\ RemovalTo(c, "torn")
  /\ UNCHANGED session

RemovalComplete(c) ==
  /\ removal[c] = "torn"
  /\ CanComplete(c, "cancelled")
  /\ Complete(c, "cancelled")
  /\ RemovalTo(c, "no")
  /\ UNCHANGED session

\* The teardown times out or a transaction is refused: the child stays
\* "cancelling", and its session registered if it was.
RemovalFails(c) ==
  /\ removal[c] # "no"
  /\ \E r \in {child[c], Revoked(child[c])} : child' = [child EXCEPT ![c] = r]
  /\ RemovalTo(c, "no")
  /\ UNCHANGED <<root, based, base, session>>

-----------------------------------------------------------------------------
(* The main flow of the worker *)

WithoutRegistered(S) ==
  [c \in Child |-> IF c \in S /\ session[c] = "registered" THEN "none" ELSE session[c]]

MainTo(pc) == main' = pc /\ UNCHANGED <<corrected, quiesce, cancelled, hostVars, reconciler>>

\* promptAndWait and waitForRlmQuiescence: no child of the SDK is at work.
PromptEnds ==
  /\ main = "prompt"
  /\ admission = "idle"
  /\ \A c \in Child : session[c] # "registered"
  /\ MainTo("settling")
  /\ UNCHANGED storeVars

Settled ==
  /\ main = "settling"
  /\ \A c \in Child : settle[c] = "no"
  /\ MainTo("joining")
  /\ UNCHANGED storeVars

\* Every successful proposal is integrated; the roles that are required may
\* still be incomplete, which the root is told once.
Join ==
  /\ main = "joining"
  /\ picking = None
  /\ \A c \in Child : ~Unintegrated(c)
  /\ IF \A R \in Role : \E c \in R : child[c].status = "succeeded"
       THEN main' = "joined" /\ UNCHANGED corrected
       ELSE ~corrected /\ main' = "prompt" /\ corrected' = TRUE
  /\ UNCHANGED <<storeVars, quiesce, cancelled, hostVars, reconciler>>

Verify ==
  /\ main = "joined"
  /\ CanMoveRoot("verifying")
  /\ MoveRoot("verifying")
  /\ MainTo("verifying")

Commit ==
  /\ main = "verifying"
  /\ CanMoveRoot("committing")
  /\ MoveRoot("committing")
  /\ MainTo("committing")

\* Anything in try throws: Prime, a rejected settlement, a conflict, a gate, the
\* deadline, the abort signal of a cancellation, a refused transaction.  The
\* agent disposes its root session, and the SDK the children's with it.
MainThrows ==
  /\ main \in MainPc \ {"catch", "gone"}
  /\ main' = "catch"
  /\ picking' = IF main = "joining" THEN None ELSE picking
  /\ session' = WithoutRegistered(Child)
  /\ UNCHANGED <<storeVars, corrected, quiesce, cancelled, admission, who, settle, outcome,
                 removal, reconciler>>

\* The process is gone: its promises and the children's sessions with it.
WorkerGone ==
  /\ main' = "gone"
  /\ corrected' = FALSE
  /\ quiesce' = "no"
  /\ cancelled' = FALSE
  /\ admission' = "idle"
  /\ who' = None
  /\ picking' = None
  /\ settle' = [c \in Child |-> "no"]
  /\ outcome' = [c \in Child |-> None]
  /\ removal' = [c \in Child |-> "no"]
  /\ session' = [c \in Child |-> "none"]
  /\ UNCHANGED reconciler

Succeed ==
  /\ main = "committing"
  /\ CanEndRoot("succeeded")
  /\ MoveRoot("succeeded")
  /\ WorkerGone

\* requestCancellation.  A cancellation that arrives in the catch block is the
\* subject of JobControl and left out here.
RequestCancel ==
  /\ Alive
  /\ main # "catch"
  /\ quiesce = "no"
  /\ CanMoveRoot("cancelling")
  /\ MoveRoot("cancelling")
  /\ cancelled' = TRUE
  /\ quiesce' = "request"
  /\ UNCHANGED <<main, corrected, hostVars, reconciler>>

\* The catch block quiesces unless a cancellation does.
CatchQuiesces ==
  /\ main = "catch"
  /\ quiesce = "no"
  /\ quiesce' = "request"
  /\ UNCHANGED <<storeVars, main, corrected, cancelled, hostVars, reconciler>>

QuiesceTo(pc) == quiesce' = pc /\ UNCHANGED <<main, corrected, cancelled, reconciler>>

QuiesceRequest ==
  /\ quiesce = "request"
  /\ RequestAllCancellations
  /\ QuiesceTo("close")
  /\ UNCHANGED hostVars

\* inferenceBroker.close revokes every lease and agent.abort disposes a root
\* session that is still there, and with it the registered sessions.  A lease
\* the store does not know yet cannot be revoked, which makes close throw.
QuiesceClose ==
  /\ quiesce = "close"
  /\ admission # "record"
  /\ child' = [c \in Child |-> Revoked(child[c])]
  /\ session' = IF main = "catch" THEN session ELSE WithoutRegistered(Child)
  /\ QuiesceTo("complete")
  /\ UNCHANGED <<root, based, base, admission, who, picking, settle, outcome, removal>>

QuiesceComplete ==
  /\ quiesce = "complete"
  /\ CanCompleteCancelled
  /\ CompleteCancelled
  /\ QuiesceTo("done")
  /\ UNCHANGED hostVars

\* A revocation or the abort is not confirmed, or a transaction is refused; what
\* was revoked or disposed until then stays so.
QuiesceFails ==
  /\ quiesce \in {"request", "close", "complete"}
  /\ IF quiesce = "close"
       THEN \E R \in SUBSET {c \in Child : child[c].lease = "active"},
               S \in SUBSET {c \in Child : session[c] = "registered"} :
              /\ child' = [c \in Child |-> IF c \in R THEN Revoked(child[c]) ELSE child[c]]
              /\ session' = WithoutRegistered(S)
       ELSE UNCHANGED <<child, session>>
  /\ QuiesceTo("failed")
  /\ UNCHANGED <<root, based, base, admission, who, picking, settle, outcome, removal>>

\* The rest of the catch block: a cancelled job does not need a quiescence
\* that succeeded, a failed one does.
Recordable ==
  /\ main = "catch"
  /\ IF cancelled THEN quiesce \in {"done", "failed"} /\ CanEndRoot("cancelled")
                  ELSE quiesce = "done" /\ CanEndRoot("failed")

RecordFailure ==
  /\ Recordable
  /\ MoveRoot(IF cancelled THEN "cancelled" ELSE "failed")
  /\ WorkerGone

\* The catch block throws; main() is rejected and the process exits.
WorkerExits ==
  /\ main = "catch"
  /\ quiesce \in {"done", "failed"}
  /\ ~Recordable
  /\ WorkerGone
  /\ UNCHANGED storeVars

WorkerDies ==
  /\ WorkerMayDie
  /\ Alive
  /\ WorkerGone
  /\ UNCHANGED storeVars

-----------------------------------------------------------------------------
(* interruptUnverifiedWorker, by any client that finds the worker gone *)

ReconcileChildren ==
  /\ ~Alive
  /\ root \in LiveStatuses
  /\ reconciler = "idle"
  /\ InterruptActive
  /\ reconciler' = "children"
  /\ UNCHANGED <<mainVars, hostVars>>

\* finalizeTerminal as interrupted; when it throws, status() does.
ReconcileRoot ==
  /\ reconciler = "children"
  /\ IF CanEndRoot("interrupted") THEN MoveRoot("interrupted") ELSE UNCHANGED storeVars
  /\ reconciler' = "idle"
  /\ UNCHANGED <<mainVars, hostVars>>

-----------------------------------------------------------------------------
(* Specification *)

AdmissionSteps ==
  \/ AdmissionRefused \/ WaveSettled \/ WaveBase \/ AdmitOrRetry
  \/ PrepareWorktree \/ LeaseInference \/ RecordInferenceLease \/ CreateSession \/ BindRuntime
  \/ StartFails \/ UndoRuntime \/ UndoComplete

ChildSteps(c) ==
  \/ RequestChild(c)
  \/ SessionEnds(c) \/ SettleRevoke(c) \/ SettleTeardown(c) \/ SettlePropose(c)
  \/ SettleComplete(c) \/ SettleFails(c)
  \/ RequestRemoval(c) \/ RemovalQuiesce(c) \/ RemovalTeardown(c)
  \/ RemovalComplete(c) \/ RemovalFails(c)

Next ==
  \/ AdmissionSteps
  \/ IntegrateNext \/ IntegrateClean \/ IntegrateConflict
  \/ \E c \in Child : ChildSteps(c)
  \/ PromptEnds \/ Settled \/ Join \/ Verify \/ Commit \/ MainThrows \/ Succeed
  \/ RequestCancel \/ CatchQuiesces
  \/ QuiesceRequest \/ QuiesceClose \/ QuiesceComplete \/ QuiesceFails
  \/ RecordFailure \/ WorkerExits \/ WorkerDies
  \/ ReconcileChildren \/ ReconcileRoot

Spec == Init /\ [][Next]_vars

\* Fairness: an aborted main flow comes to its catch block, the quiescence and
\* the catch block run on, and clients keep reconciling (every CLI call does).
WorkerEnds ==
  \/ cancelled /\ MainThrows
  \/ CatchQuiesces \/ QuiesceRequest \/ QuiesceClose \/ QuiesceComplete \/ QuiesceFails
  \/ RecordFailure \/ WorkerExits

FairSpec ==
  /\ Spec
  /\ WF_vars(WorkerEnds)
  /\ WF_vars(ReconcileChildren)
  /\ WF_vars(ReconcileRoot)

-----------------------------------------------------------------------------
(* Properties *)

\* The types of all variables, and that processes have what their places say:
\* an admission is about a child, a settlement has an outcome.
TypeOK ==
  /\ root \in Statuses
  /\ child \in [Child -> ChildRecord]
  /\ based \in BOOLEAN /\ base \in SUBSET Child /\ (base # {} => based)
  /\ main \in MainPc /\ quiesce \in QuiescePc /\ {corrected, cancelled} \subseteq BOOLEAN
  /\ admission \in AdmissionPc
  /\ who \in Child \union {None} /\ (who = None <=> admission = "idle")
  /\ picking \in Child \union {None}
  /\ settle \in [Child -> SettlePc]
  /\ outcome \in [Child -> {"succeeded", "failed", None}]
  /\ \A c \in Child : outcome[c] = None <=> settle[c] \in {"no", "failed"}
  /\ removal \in [Child -> RemovalPc]
  /\ session \in [Child -> SessionState]
  /\ reconciler \in {"idle", "children"}

\* Admissions and retries of all children together respect the policy: the
\* children, the attempts of a child, the live attempts, among them those being
\* cancelled, and the token pool, which ended attempts do not give back.
SlotsWithinPolicy ==
  /\ Cardinality(Admitted) <= MaxChildren
  /\ \A c \in Child : child[c].ordinal <= MaxAttempts
  /\ Cardinality(LiveChildren) <= MaxActive

WithinPolicy == SlotsWithinPolicy /\ AttemptsAllocated <= PoolAttempts

\* However an attempt ends (settlement, removal, root cancellation, a failed
\* start, reconciliation), its lease is revoked by then, and the end of a bound
\* runtime is backed by evidence unless it is recorded as interrupted.
EndIsProven ==
  \A c \in Child : child[c].status \in TerminalAttempt =>
    /\ child[c].lease # "active"
    /\ child[c].status # "interrupted" /\ child[c].handle =>
         child[c].teardown \in {"quiesced", "early"}

\* From trusted verification on, no attempt lives and every successful proposal
\* is in the root's tree, although admissions, settlements and removals run
\* beside the main flow.
VerificationIsJoined == root \in {"verifying", "committing", "succeeded"} => Joined

\* A dependent child is admitted to a base that contains every implementation
\* child, and none is admitted, retried or changed afterwards.
DependentsSeeImplementation ==
  \A c \in Dependent \intersect Admitted :
    /\ based
    /\ Implementation \intersect Admitted \subseteq base
    /\ \A d \in base : child[d].status = "succeeded" /\ child[d].integration = "integrated"

\* The record of an ended attempt is final but for its integration, whichever
\* of its settlement, its removal, the quiescence and a reconciler comes later.
EndedAttemptIsFinal ==
  [][\A c \in Child :
       child[c].status \in TerminalAttempt /\ child'[c].ordinal = child[c].ordinal =>
         [child'[c] EXCEPT !.integration = child[c].integration] = child[c]]_vars

\* A cancelled root and the root of a worker that is gone become terminal,
\* unless the worker left a successful proposal out of the root's tree.
RootEnds ==
  (cancelled \/ ~Alive) ~>
    (root \in TerminalStatuses \/ (~Alive /\ \E c \in Child : Unintegrated(c)))

\* "A dead or disproven worker is reconciled to interrupted"
\* (docs/technical-overview.md): the root becomes terminal in any case.
DeadWorkerIsReconciled == ~Alive ~> root \in TerminalStatuses

=============================================================================
