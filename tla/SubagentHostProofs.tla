-------------------------- MODULE SubagentHostProofs --------------------------
(***************************************************************************)
(* Proofs about SubagentHost, for any children, limits and deaths of the   *)
(* worker.  Every step of the host is one transaction of the child tree    *)
(* under that transaction's own guards, or none: the host implements       *)
(* TreeSpec, the tree with its transactions called in any order.  What is  *)
(* then proved of the tree is proved of TreeSpec, whoever calls it.        *)
(***************************************************************************)
EXTENDS SubagentHost, Sums

-----------------------------------------------------------------------------
(* The transactions *)

\* A transaction on one child, called in a state that allows it.
OfChild(c) ==
  \/ CanAdmit(c) /\ Admit(c)
  \/ CanRetry(c) /\ Retry(c)
  \/ CanRecordWorktree(c) /\ RecordWorktree(c)
  \/ CanRecordLease(c) /\ RecordLease(c)
  \/ CanBind(c) /\ Bind(c)
  \/ CanRecordTeardown(c) /\ RecordTeardown(c)
  \/ CanPropose(c) /\ \E p \in {"commit", "no_change"} : Propose(c, p)
  \/ CanRequestCancellation(c) /\ RequestCancellation(c)
  \/ \E o \in TerminalAttempt : CanComplete(c, o) /\ Complete(c, o)
  \/ CanBeginIntegration(c) /\ BeginIntegration(c)
  \/ \E r \in {"integrated", "conflicted"} : EndIntegration(c, r)

\* The leases of some children are revoked.
RevokeSome ==
  /\ \E R \in SUBSET Child :
       child' = [c \in Child |-> IF c \in R THEN Revoked(child[c]) ELSE child[c]]
  /\ UNCHANGED <<root, based, base>>

\* A transaction on all children.
OfTree ==
  \/ RevokeSome
  \/ RequestAllCancellations
  \/ CanCompleteCancelled /\ CompleteCancelled
  \/ root \in LiveStatuses /\ InterruptActive

\* The base of the second wave has every implementation child there is.
OfBase ==
  /\ \A c \in Implementation \intersect Admitted : child[c].integration = "integrated"
  /\ CanRecordBase
  /\ RecordBase

\* The root moves on or ends.
OfRoot == \E s \in Statuses : (CanMoveRoot(s) \/ CanEndRoot(s)) /\ MoveRoot(s)

StoreNext == (\E c \in Child : OfChild(c)) \/ OfTree \/ OfBase \/ OfRoot \/ UNCHANGED storeVars

\* The child tree, with its transactions called by anyone in any order.  Two guards are
\* the callers': InterruptActive of a job that has ended, and the base of OfBase.
TreeSpec == StoreInit /\ [][StoreNext]_storeVars

-----------------------------------------------------------------------------
(* Types *)

StoreType ==
  /\ root \in Statuses
  /\ child \in [Child -> ChildRecord]
  /\ based \in BOOLEAN /\ base \in SUBSET Child /\ (base # {} => based)

HostType ==
  /\ main \in MainPc /\ quiesce \in QuiescePc /\ {corrected, cancelled} \subseteq BOOLEAN
  /\ admission \in AdmissionPc
  /\ who \in Child \union {None} /\ (who = None <=> admission = "idle")
  /\ picking \in Child \union {None}
  /\ settle \in [Child -> SettlePc]
  /\ outcome \in [Child -> {"succeeded", "failed", None}]
  /\ \A c \in Child : outcome[c] = None <=> settle[c] \in {"no", "failed"}
  /\ removal \in [Child -> RemovalPc]
  /\ session \in [Child -> SessionState]
  /\ reconciler \in {"idle", "children"}

LEMMA TypeParts == TypeOK <=> StoreType /\ HostType
BY DEF TypeOK, StoreType, HostType

\* Records of children with one or several parts replaced.
LEMMA RecordParts ==
  ASSUME NEW r \in ChildRecord
  PROVE  /\ Revoked(r) \in ChildRecord /\ Cancelling(r) \in ChildRecord
         /\ \A t \in {"quiesced", "uncertain"} : WithTeardown(r, t) \in ChildRecord
         /\ \A o \in TerminalAttempt : [r EXCEPT !.status = o] \in ChildRecord
         /\ [r EXCEPT !.worktree = TRUE] \in ChildRecord
         /\ [r EXCEPT !.lease = "active"] \in ChildRecord
         /\ [r EXCEPT !.handle = TRUE] \in ChildRecord
         /\ [r EXCEPT !.teardown = "quiesced"] \in ChildRecord
         /\ \A p \in {"commit", "no_change"} : [r EXCEPT !.proposal = p] \in ChildRecord
         /\ \A i \in {"applying", "integrated", "conflicted"} :
              [r EXCEPT !.integration = i] \in ChildRecord
<1> USE DEF ChildRecord, LiveAttempt, TerminalAttempt
<1>1. Revoked(r) \in ChildRecord
  BY DEF Revoked
<1>2. Cancelling(r) \in ChildRecord
  BY DEF Cancelling
<1>3. \A t \in {"quiesced", "uncertain"} : WithTeardown(r, t) \in ChildRecord
  BY DEF WithTeardown
<1>4. /\ \A o \in TerminalAttempt : [r EXCEPT !.status = o] \in ChildRecord
      /\ \A p \in {"commit", "no_change"} : [r EXCEPT !.proposal = p] \in ChildRecord
      /\ \A i \in {"applying", "integrated", "conflicted"} :
           [r EXCEPT !.integration = i] \in ChildRecord
  OBVIOUS
<1>5. /\ [r EXCEPT !.worktree = TRUE] \in ChildRecord
      /\ [r EXCEPT !.lease = "active"] \in ChildRecord
      /\ [r EXCEPT !.handle = TRUE] \in ChildRecord
      /\ [r EXCEPT !.teardown = "quiesced"] \in ChildRecord
  OBVIOUS
<1> QED  BY ONLY <1>1, <1>2, <1>3, <1>4, <1>5

\* What revocation and evidence leave of a record.
LEMMA PartsKept ==
  ASSUME NEW r \in ChildRecord, NEW t \in {"quiesced", "uncertain"}
  PROVE  /\ WithTeardown(r, t).status = r.status /\ WithTeardown(r, t).lease = r.lease
         /\ WithTeardown(r, t).integration = r.integration
         /\ Revoked(r).status = r.status /\ Revoked(r).teardown = r.teardown
         /\ Revoked(r).handle = r.handle /\ Revoked(r).proposal = r.proposal
         /\ Revoked(r).integration = r.integration /\ Revoked(r).lease # "active"
         /\ r.lease # "active" => Revoked(r) = r
<1>1. /\ WithTeardown(r, t).status = r.status /\ WithTeardown(r, t).lease = r.lease
      /\ WithTeardown(r, t).integration = r.integration
  BY DEF WithTeardown, ChildRecord
<1>2. /\ Revoked(r).status = r.status /\ Revoked(r).teardown = r.teardown
      /\ Revoked(r).handle = r.handle /\ Revoked(r).proposal = r.proposal
      /\ Revoked(r).integration = r.integration /\ Revoked(r).lease # "active"
  BY DEF Revoked, ChildRecord
<1>3. r.lease # "active" => Revoked(r) = r
  BY DEF Revoked, ChildRecord
<1> QED  BY ONLY <1>1, <1>2, <1>3

LEMMA FreshParts ==
  ASSUME NEW n \in 0..MaxAttempts
  PROVE  /\ FreshAttempt(n) \in ChildRecord
         /\ [FreshAttempt(n) EXCEPT !.status = "absent"] \in ChildRecord
BY DEF FreshAttempt, ChildRecord, LiveAttempt, TerminalAttempt

LEMMA InitStoreTypes == StoreInit => StoreType
<1>1. 0 \in 0..MaxAttempts
  BY PolicyAssumption
<1> QED  BY <1>1, FreshParts DEF StoreInit, StoreType, Statuses, LiveStatuses

LEMMA InitTypes == Init => TypeOK
<1> SUFFICES ASSUME Init PROVE TypeOK
  OBVIOUS
<1>2. StoreType
  BY InitStoreTypes DEF Init
<1>3. HostType
  BY DEF Init, HostType, MainPc, QuiescePc, AdmissionPc, SettlePc, RemovalPc, SessionState
<1> QED  BY <1>2, <1>3, TypeParts

\* A transaction on one child replaces its record and leaves the root and the base alone.
LEMMA ChildTypes ==
  ASSUME StoreType, NEW c \in Child, OfChild(c)
  PROVE  StoreType'
<1>1. UNCHANGED <<root, based, base>>
  BY DEF OfChild, Admit, Retry, RecordWorktree, RecordLease, Bind, RecordTeardown, Propose,
         RequestCancellation, Complete, BeginIntegration, EndIntegration
<1>2. ASSUME NEW r \in ChildRecord, child' = [child EXCEPT ![c] = r]
      PROVE  StoreType'
  BY <1>1, <1>2 DEF StoreType
<1>0. child \in [Child -> ChildRecord] /\ child[c] \in ChildRecord
  BY DEF StoreType
<1>3. CASE CanAdmit(c) /\ Admit(c)
  <2>1. 1 \in 0..MaxAttempts
    BY PolicyAssumption
  <2> QED  BY <1>2, <1>3, <2>1, FreshParts DEF Admit
<1>4. CASE CanRetry(c) /\ Retry(c)
  <2>1. child[c].ordinal + 1 \in 0..MaxAttempts
    BY <1>0, <1>4, PolicyAssumption DEF CanRetry, ChildRecord
  <2> QED  BY <1>2, <1>4, <2>1, FreshParts DEF Retry
<1>5. CASE CanRequestCancellation(c) /\ RequestCancellation(c)
  BY <1>0, <1>2, <1>5, RecordParts DEF RequestCancellation
<1>6. CASE RecordWorktree(c)
  BY <1>0, <1>2, <1>6, RecordParts DEF RecordWorktree
<1>7. CASE RecordLease(c)
  BY <1>0, <1>2, <1>7, RecordParts DEF RecordLease
<1>8. CASE Bind(c)
  BY <1>0, <1>2, <1>8, RecordParts DEF Bind
<1>9. CASE RecordTeardown(c)
  BY <1>0, <1>2, <1>9, RecordParts DEF RecordTeardown
<1>10. CASE \E p \in {"commit", "no_change"} : Propose(c, p)
  BY <1>0, <1>2, <1>10, RecordParts DEF Propose
<1>11. CASE \E o \in TerminalAttempt : Complete(c, o)
  BY <1>0, <1>2, <1>11, RecordParts DEF Complete
<1>12. CASE BeginIntegration(c)
  BY <1>0, <1>2, <1>12, RecordParts DEF BeginIntegration
<1>13. CASE \E r \in {"integrated", "conflicted"} : EndIntegration(c, r)
  BY <1>0, <1>2, <1>13, RecordParts DEF EndIntegration
<1> QED  BY <1>3, <1>4, <1>5, <1>6, <1>7, <1>8, <1>9, <1>10, <1>11, <1>12, <1>13 DEF OfChild

LEMMA StoreTypes ==
  ASSUME StoreType, StoreNext
  PROVE  StoreType'
<1>0. \A d \in Child : child[d] \in ChildRecord
  BY DEF StoreType
<1>1. ASSUME NEW c \in Child, OfChild(c)
      PROVE  StoreType'
  BY <1>1, ChildTypes
<1>2. CASE RevokeSome
  <2>1. child' \in [Child -> ChildRecord]
    BY <1>0, <1>2, RecordParts DEF RevokeSome
  <2> QED  BY <1>2, <2>1 DEF StoreType, RevokeSome
<1>3. CASE RequestAllCancellations
  <2>1. child' \in [Child -> ChildRecord]
    BY <1>0, <1>3, RecordParts DEF RequestAllCancellations
  <2> QED  BY <1>3, <2>1 DEF StoreType, RequestAllCancellations
<1>4. CASE CompleteCancelled
  <2>1. child' \in [Child -> ChildRecord]
    <3>1. PICK ends \in [Child -> {"cancelled", "interrupted"}] :
                 child' = [c \in Child |->
                   IF child[c].status = "cancelling"
                     THEN [WithTeardown(child[c], "quiesced") EXCEPT !.status = ends[c]]
                     ELSE child[c]]
      BY <1>4 DEF CompleteCancelled
    <3>2. \A d \in Child : ends[d] \in TerminalAttempt
      BY DEF TerminalAttempt
    <3>3. \A d \in Child : [WithTeardown(child[d], "quiesced") EXCEPT !.status = ends[d]]
                           \in ChildRecord
      BY <1>0, <3>2, RecordParts
    <3> QED  BY ONLY <1>0, <3>1, <3>3
  <2> QED  BY <1>4, <2>1 DEF StoreType, CompleteCancelled
<1>5. CASE InterruptActive
  <2>1. child' \in [Child -> ChildRecord]
    <3>1. PICK ends \in [Child -> {"cancelled", "interrupted"}] :
                 child' = [c \in Child |->
                   IF Live(c)
                     THEN [Revoked(WithTeardown(child[c], "uncertain"))
                             EXCEPT !.status = ends[c]]
                     ELSE child[c]]
      BY <1>5 DEF InterruptActive
    <3>2. \A d \in Child : ends[d] \in TerminalAttempt
      BY DEF TerminalAttempt
    <3>3. \A d \in Child : [Revoked(WithTeardown(child[d], "uncertain"))
                              EXCEPT !.status = ends[d]] \in ChildRecord
      BY <1>0, <3>2, RecordParts
    <3> QED  BY ONLY <1>0, <3>1, <3>3
  <2> QED  BY <1>5, <2>1 DEF StoreType, InterruptActive
<1>6. CASE OfBase
  BY <1>6 DEF StoreType, OfBase, RecordBase
<1>7. CASE OfRoot
  BY <1>7 DEF StoreType, OfRoot, MoveRoot
<1>8. CASE UNCHANGED storeVars
  BY <1>8 DEF StoreType, storeVars
<1> QED  BY <1>1, <1>2, <1>3, <1>4, <1>5, <1>6, <1>7, <1>8 DEF StoreNext, OfTree

-----------------------------------------------------------------------------
(* Every step is a transaction or none *)

\* One record changed by a revocation is a revocation of some.
LEMMA RevokesOne ==
  ASSUME StoreType, NEW c \in Child, UNCHANGED <<root, based, base>>,
         \E r \in {child[c], Revoked(child[c])} : child' = [child EXCEPT ![c] = r]
  PROVE  RevokeSome
<1>1. CASE child' = [child EXCEPT ![c] = child[c]]
  <2>1. child' = [d \in Child |-> IF d \in {} THEN Revoked(child[d]) ELSE child[d]]
    BY <1>1 DEF StoreType
  <2>2. {} \in SUBSET Child
    OBVIOUS
  <2> QED  BY ONLY <2>1, <2>2, UNCHANGED <<root, based, base>> DEF RevokeSome
<1>2. CASE child' = [child EXCEPT ![c] = Revoked(child[c])]
  <2>1. child' = [d \in Child |-> IF d \in {c} THEN Revoked(child[d]) ELSE child[d]]
    BY <1>2 DEF StoreType
  <2> QED  BY <2>1 DEF RevokeSome
<1> QED  BY <1>1, <1>2

LEMMA RevokesAll ==
  ASSUME child' = [c \in Child |-> Revoked(child[c])], UNCHANGED <<root, based, base>>
  PROVE  RevokeSome
<1>1. child' = [d \in Child |-> IF d \in Child THEN Revoked(child[d]) ELSE child[d]]
  OBVIOUS
<1> QED  BY <1>1 DEF RevokeSome

\* The steps of an admission.
LEMMA AdmissionTransacts ==
  ASSUME StoreType, HostType, AdmissionSteps
  PROVE  StoreNext
<1>0. admission # "idle" => who \in Child
  BY DEF HostType
<1>1. CASE AdmitOrRetry
  BY <1>0, <1>1 DEF AdmitOrRetry, StoreNext, OfChild
<1>2. CASE PrepareWorktree
  BY <1>0, <1>2 DEF PrepareWorktree, StoreNext, OfChild
<1>3. CASE RecordInferenceLease
  BY <1>0, <1>3 DEF RecordInferenceLease, StoreNext, OfChild
<1>4. CASE BindRuntime
  BY <1>0, <1>4 DEF BindRuntime, StoreNext, OfChild
<1>5. CASE UndoRuntime
  BY <1>0, <1>5, RevokesOne DEF UndoRuntime, StoreNext, OfTree
<1>6. CASE UndoComplete
  <2>1. CASE CanComplete(who, "interrupted") /\ Complete(who, "interrupted")
    BY <1>0, <1>6, <2>1 DEF UndoComplete, StoreNext, OfChild, TerminalAttempt
  <2>2. CASE UNCHANGED storeVars
    BY <2>2 DEF StoreNext
  <2> QED  BY <1>6, <2>1, <2>2 DEF UndoComplete
<1>7. CASE WaveBase
  BY <1>7 DEF WaveBase, StoreNext, OfBase
<1>8. CASE AdmissionRefused \/ WaveSettled \/ LeaseInference \/ CreateSession \/ StartFails
  BY <1>8 DEF AdmissionRefused, WaveSettled, LeaseInference, CreateSession, StartFails, StoreNext
<1> QED  BY <1>1, <1>2, <1>3, <1>4, <1>5, <1>6, <1>7, <1>8 DEF AdmissionSteps

\* The steps about one child.
LEMMA ChildTransacts ==
  ASSUME StoreType, HostType, NEW c \in Child, ChildSteps(c)
  PROVE  StoreNext
<1>1. CASE RequestChild(c) \/ SessionEnds(c) \/ SettleFails(c)
  BY <1>1 DEF RequestChild, SessionEnds, SettleFails, StoreNext
<1>2. CASE SettleRevoke(c)
  BY <1>2, RevokesOne DEF SettleRevoke, StoreNext, OfTree
<1>3. CASE SettleTeardown(c) \/ RemovalTeardown(c)
  BY <1>3 DEF SettleTeardown, RemovalTeardown, StoreNext, OfChild
<1>4. CASE SettlePropose(c)
  BY <1>4 DEF SettlePropose, StoreNext, OfChild
<1>5. CASE SettleComplete(c)
  <2>1. outcome[c] \in TerminalAttempt
    BY <1>5 DEF SettleComplete, HostType, TerminalAttempt
  <2> QED  BY <1>5, <2>1 DEF SettleComplete, StoreNext, OfChild
<1>6. CASE RequestRemoval(c)
  BY <1>6 DEF RequestRemoval, StoreNext, OfChild
<1>7. CASE RemovalQuiesce(c) \/ RemovalFails(c)
  BY <1>7, RevokesOne DEF RemovalQuiesce, RemovalFails, StoreNext, OfTree
<1>8. CASE RemovalComplete(c)
  BY <1>8 DEF RemovalComplete, StoreNext, OfChild, TerminalAttempt
<1> QED  BY <1>1, <1>2, <1>3, <1>4, <1>5, <1>6, <1>7, <1>8 DEF ChildSteps

\* The steps of integration, of the main flow, of quiescence and of reconciliation.
LEMMA MainTransacts ==
  ASSUME StoreType, HostType, [Next]_vars,
         ~AdmissionSteps, ~\E c \in Child : ChildSteps(c)
  PROVE  StoreNext
<1>1. CASE IntegrateNext
  <2>1. Implementation \subseteq Child
    BY DEF Child
  <2> QED  BY <1>1, <2>1 DEF IntegrateNext, StoreNext, OfChild
<1>2. CASE IntegrateClean \/ IntegrateConflict
  <2>1. picking \in Child
    BY <1>2 DEF IntegrateClean, IntegrateConflict, HostType
  <2> QED  BY <1>2, <2>1 DEF IntegrateClean, IntegrateConflict, StoreNext, OfChild
<1>3. CASE PromptEnds \/ Settled \/ Join \/ MainThrows \/ CatchQuiesces \/ WorkerExits \/ WorkerDies
  BY <1>3 DEF PromptEnds, Settled, Join, MainThrows, CatchQuiesces, WorkerExits, WorkerDies,
              StoreNext
<1>4. CASE Verify \/ Commit \/ Succeed \/ RequestCancel
  <2>1. {"verifying", "committing", "succeeded", "cancelling"} \subseteq Statuses
    BY DEF Statuses, LiveStatuses, TerminalStatuses
  <2> QED  BY <1>4, <2>1 DEF Verify, Commit, Succeed, RequestCancel, StoreNext, OfRoot
<1>5. CASE QuiesceRequest
  BY <1>5 DEF QuiesceRequest, StoreNext, OfTree
<1>6. CASE QuiesceClose
  BY <1>6, RevokesAll DEF QuiesceClose, StoreNext, OfTree
<1>7. CASE QuiesceComplete
  BY <1>7 DEF QuiesceComplete, StoreNext, OfTree
<1>8. CASE QuiesceFails
  <2>1. CASE quiesce = "close"
    <3>1. PICK R \in SUBSET {c \in Child : child[c].lease = "active"} :
               child' = [c \in Child |-> IF c \in R THEN Revoked(child[c]) ELSE child[c]]
      BY <1>8, <2>1 DEF QuiesceFails
    <3>2. R \in SUBSET Child
      BY <3>1
    <3> QED  BY <1>8, <3>1, <3>2 DEF QuiesceFails, StoreNext, OfTree, RevokeSome
  <2>2. CASE quiesce # "close"
    BY <1>8, <2>2 DEF QuiesceFails, StoreNext, storeVars
  <2> QED  BY <2>1, <2>2
<1>9. CASE RecordFailure
  <2>1. {"failed", "cancelled"} \subseteq Statuses
    BY DEF Statuses, TerminalStatuses
  <2> QED  BY <1>9, <2>1 DEF RecordFailure, Recordable, StoreNext, OfRoot
<1>10. CASE ReconcileChildren
  BY <1>10 DEF ReconcileChildren, StoreNext, OfTree
<1>11. CASE ReconcileRoot
  <2>1. "interrupted" \in Statuses
    BY DEF Statuses, TerminalStatuses
  <2> QED  BY <1>11, <2>1 DEF ReconcileRoot, StoreNext, OfRoot
<1>12. CASE UNCHANGED vars
  BY <1>12 DEF vars, StoreNext
<1> QED  BY <1>1, <1>2, <1>3, <1>4, <1>5, <1>6, <1>7, <1>8, <1>9, <1>10, <1>11, <1>12 DEF Next

LEMMA StepTransacts ==
  ASSUME TypeOK, [Next]_vars
  PROVE  StoreNext
BY TypeParts, AdmissionTransacts, ChildTransacts, MainTransacts

-----------------------------------------------------------------------------
(* The types of the host *)

LEMMA HostTypes ==
  ASSUME HostType, [Next]_vars
  PROVE  HostType'
<1> USE DEF HostType, MainPc, QuiescePc, AdmissionPc, SettlePc, RemovalPc, SessionState, mainVars,
            hostVars
<1>1. ASSUME NEW c \in Child, ChildSteps(c)
      PROVE  HostType'
  <2>1. CASE RequestChild(c)
    BY <2>1, NoneAssumption DEF RequestChild
  <2>2. CASE SessionEnds(c)
    <3>1. PICK o \in {"succeeded", "failed"} : outcome' = [outcome EXCEPT ![c] = o]
      BY <2>2 DEF SessionEnds
    <3>2. o # None
      BY <3>1, NoOutcomeAssumption
    <3> QED  BY <2>2, <3>1, <3>2 DEF SessionEnds
  <2>3. CASE SettleRevoke(c)
    BY <2>3 DEF SettleRevoke, SettleTo
  <2>4. CASE SettleTeardown(c)
    BY <2>4 DEF SettleTeardown, SettleTo
  <2>5. CASE SettlePropose(c)
    BY <2>5 DEF SettlePropose, SettleTo
  <2>6. CASE SettleComplete(c)
    BY <2>6 DEF SettleComplete, SettleTo
  <2>7. CASE SettleFails(c)
    BY <2>7 DEF SettleFails, SettleTo
  <2>8. CASE RequestRemoval(c)
    BY <2>8 DEF RequestRemoval, RemovalTo
  <2>9. CASE RemovalQuiesce(c)
    BY <2>9 DEF RemovalQuiesce, RemovalTo
  <2>10. CASE RemovalTeardown(c)
    BY <2>10 DEF RemovalTeardown, RemovalTo
  <2>11. CASE RemovalComplete(c)
    BY <2>11 DEF RemovalComplete, RemovalTo
  <2>12. CASE RemovalFails(c)
    BY <2>12 DEF RemovalFails, RemovalTo
  <2> QED  BY <1>1, <2>1, <2>2, <2>3, <2>4, <2>5, <2>6, <2>7, <2>8, <2>9, <2>10, <2>11, <2>12
           DEF ChildSteps
<1>2. CASE AdmissionSteps
  <2>1. UNCHANGED <<mainVars, settle, outcome, removal, reconciler>>
    BY <1>2 DEF AdmissionSteps, AdmissionRefused, WaveSettled, WaveBase, AdmitOrRetry,
                PrepareWorktree, LeaseInference, RecordInferenceLease, CreateSession,
                BindRuntime, StartFails, UndoRuntime, UndoComplete
  <2>2. picking' \in Child \union {None}
    BY <1>2 DEF AdmissionSteps, AdmissionRefused, WaveSettled, WaveBase, AdmitOrRetry,
                PrepareWorktree, LeaseInference, RecordInferenceLease, CreateSession,
                BindRuntime, StartFails, UndoRuntime, UndoComplete
  <2>3. session' \in [Child -> SessionState]
    BY <1>2 DEF AdmissionSteps, AdmissionRefused, WaveSettled, WaveBase, AdmitOrRetry,
                PrepareWorktree, LeaseInference, RecordInferenceLease, CreateSession,
                BindRuntime, StartFails, UndoRuntime, UndoComplete
  <2>4. admission # "idle" /\ \E pc \in AdmissionPc : AdmissionTo(pc)
    BY <1>2 DEF AdmissionSteps, AdmissionRefused, WaveSettled, WaveBase, AdmitOrRetry,
                PrepareWorktree, LeaseInference, RecordInferenceLease, CreateSession,
                BindRuntime, StartFails, UndoRuntime, UndoComplete
  <2>5. /\ admission' \in AdmissionPc /\ who' \in Child \union {None}
        /\ who' = None <=> admission' = "idle"
    BY <2>4 DEF AdmissionTo
  <2> QED  BY <2>1, <2>2, <2>3, <2>5
<1>3. CASE IntegrateNext \/ IntegrateClean \/ IntegrateConflict
  <2>1. UNCHANGED <<corrected, quiesce, cancelled, settle, outcome, removal, session, reconciler>>
    BY <1>3 DEF IntegrateNext, IntegrateClean, IntegrateConflict
  <2>2. picking' \in Child \union {None} /\ main' \in MainPc
    BY <1>3 DEF IntegrateNext, IntegrateClean, IntegrateConflict, Child
  <2>3. \/ UNCHANGED <<admission, who>>
        \/ AdmissionTo("idle")
    BY <1>3 DEF IntegrateNext, IntegrateClean, IntegrateConflict
  <2>4. /\ admission' \in AdmissionPc /\ who' \in Child \union {None}
        /\ who' = None <=> admission' = "idle"
    BY <2>3 DEF AdmissionTo
  <2> QED  BY <2>1, <2>2, <2>4
<1>4. CASE WorkerGone
  BY <1>4 DEF WorkerGone
<1>5. CASE PromptEnds \/ Settled \/ Verify \/ Commit \/ CatchQuiesces
  BY <1>5 DEF PromptEnds, Settled, Verify, Commit, CatchQuiesces, MainTo
<1>6. CASE Join
  BY <1>6 DEF Join
<1>7. CASE MainThrows
  BY <1>7 DEF MainThrows, WithoutRegistered
<1>8. CASE RequestCancel
  BY <1>8 DEF RequestCancel
<1>9. CASE QuiesceRequest \/ QuiesceComplete
  BY <1>9 DEF QuiesceRequest, QuiesceComplete, QuiesceTo
<1>10. CASE QuiesceClose \/ QuiesceFails
  <2>1. session' \in [Child -> SessionState]
    BY <1>10 DEF QuiesceClose, QuiesceFails, WithoutRegistered
  <2> QED  BY <1>10, <2>1 DEF QuiesceClose, QuiesceFails, QuiesceTo
<1>11. CASE ReconcileChildren \/ ReconcileRoot
  BY <1>11 DEF ReconcileChildren, ReconcileRoot
<1>12. CASE UNCHANGED vars
  BY <1>12 DEF vars
<1>13. Succeed \/ RecordFailure \/ WorkerExits \/ WorkerDies => WorkerGone
  BY DEF Succeed, RecordFailure, WorkerExits, WorkerDies
<1> QED  BY <1>1, <1>2, <1>3, <1>4, <1>5, <1>6, <1>7, <1>8, <1>9, <1>10, <1>11, <1>12, <1>13
         DEF Next

\* The types of the tree, of the host and of the main flow, for any children and
\* limits.
THEOREM HostTypeCorrect == Spec => []TypeOK
<1>1. TypeOK /\ [Next]_vars => TypeOK'
  <2> SUFFICES ASSUME TypeOK, [Next]_vars PROVE TypeOK'
    OBVIOUS
  <2>1. StoreType' /\ HostType'
    BY TypeParts, StepTransacts, StoreTypes, HostTypes
  <2> QED  BY <2>1 DEF StoreType, HostType, TypeOK
<1> QED  BY <1>1, InitTypes, PTL DEF Spec

\* The host, the worker's main flow, its quiescence and a reconciling client implement
\* the tree: whatever they do together, each step of one of them is a transaction in a
\* state that allows it, or leaves the tree alone.
THEOREM HostImplementsTree == Spec => TreeSpec
<1>1. Init => StoreInit
  BY DEF Init
<1>2. TypeOK /\ [Next]_vars => [StoreNext]_storeVars
  BY StepTransacts
<1> QED  BY <1>1, <1>2, HostTypeCorrect, PTL DEF Spec, TreeSpec

-----------------------------------------------------------------------------
(* What the transactions keep *)

\* The record of an ended attempt, and of one that lives: EndIsProven, and evidence
\* that teardown is uncertain is only ever recorded with the end.
Evidence == EndIsProven /\ \A c \in Child : Live(c) => child[c].teardown # "uncertain"

\* Only a successful attempt's proposal is applied.
Applied ==
  \A c \in Child : child[c].integration # "none" =>
    child[c].status = "succeeded" /\ child[c].proposal # "none"

\* The base of the second wave has all implementation children, integrated, and no
\* dependent child is admitted without it.
BaseHolds ==
  /\ \A d \in base : child[d].status = "succeeded" /\ child[d].integration = "integrated"
  /\ based => Implementation \intersect Admitted \subseteq base
  /\ ~based => Dependent \intersect Admitted = {}

TreeInv == Evidence /\ Applied /\ BaseHolds /\ VerificationIsJoined

LEMMA InitTree == StoreInit => TreeInv
<1> SUFFICES ASSUME StoreInit PROVE TreeInv
  OBVIOUS
<1>1. \A c \in Child : child[c].status = "absent" /\ child[c].integration = "none"
  BY DEF StoreInit, FreshAttempt
<1>2. root = "running" /\ base = {} /\ ~based
  BY DEF StoreInit
<1>3. Evidence
  BY <1>1 DEF Evidence, EndIsProven, Live, LiveAttempt, TerminalAttempt
<1>4. Applied
  BY <1>1 DEF Applied
<1>5. BaseHolds
  BY <1>1, <1>2 DEF BaseHolds, Admitted, Child
<1>6. VerificationIsJoined
  BY <1>2 DEF VerificationIsJoined
<1> QED  BY <1>3, <1>4, <1>5, <1>6 DEF TreeInv

\* A transaction on a child leaves the others, the root and the base alone.
LEMMA OthersStay ==
  ASSUME StoreType, NEW c \in Child, OfChild(c)
  PROVE  /\ UNCHANGED <<root, based, base>>
         /\ \A d \in Child \ {c} : child'[d] = child[d]
BY DEF OfChild, Admit, Retry, RecordWorktree, RecordLease, Bind, RecordTeardown, Propose,
       RequestCancellation, Complete, BeginIntegration, EndIntegration, StoreType

\* The attempt that is inserted by an admission or a retry.
LEMMA AttemptInserted ==
  ASSUME StoreType, NEW c \in Child,
         (CanAdmit(c) /\ Admit(c)) \/ (CanRetry(c) /\ Retry(c))
  PROVE  /\ root = "running" /\ Cardinality(LiveChildren) < MaxActive
         /\ child'[c].status = "active" /\ child'[c].teardown = "none"
         /\ child'[c].integration = "none"
         /\ child[c].status \in {"absent", "failed", "interrupted"}
<1>1. CASE CanAdmit(c) /\ Admit(c)
  BY <1>1 DEF CanAdmit, Admit, FreshAttempt, StoreType, ActiveSlot
<1>2. CASE CanRetry(c) /\ Retry(c)
  BY <1>2 DEF CanRetry, Retry, FreshAttempt, StoreType, ActiveSlot
<1> QED  BY <1>1, <1>2

\* What a transaction on an attempt that exists does to its record: a step of one
\* that lives, its end, or an integration of one that succeeded.
AttemptStep(r, s) ==
  \/ /\ r.status = "active"
     /\ s.status \in LiveAttempt /\ s.integration = r.integration
     /\ s.teardown \in {r.teardown, "quiesced", "early"}
  \/ /\ r.status \in LiveAttempt
     /\ s.status = r.status /\ s.integration = r.integration
     /\ s.teardown = "quiesced"
  \/ /\ r.status \in LiveAttempt /\ r.lease # "active"
     /\ \E o \in TerminalAttempt : s = [r EXCEPT !.status = o]
     /\ r.handle /\ s.status # "interrupted" => r.teardown \in {"quiesced", "early"}
  \/ /\ r.status = "succeeded" /\ r.proposal # "none" /\ r.integration = "none"
     /\ s = [r EXCEPT !.integration = "applying"]
  \/ /\ r.integration = "applying"
     /\ \E i \in {"integrated", "conflicted"} : s = [r EXCEPT !.integration = i]

LEMMA AttemptSteps ==
  ASSUME StoreType, NEW c \in Child, OfChild(c)
  PROVE  \/ CanAdmit(c) /\ Admit(c)
         \/ CanRetry(c) /\ Retry(c)
         \/ AttemptStep(child[c], child'[c])
<1>0. child[c] \in ChildRecord /\ child \in [Child -> ChildRecord]
  BY DEF StoreType
<1> USE DEF ChildRecord, AttemptStep, LiveAttempt
<1>1. CASE CanRecordWorktree(c) /\ RecordWorktree(c)
  BY <1>0, <1>1 DEF CanRecordWorktree, RecordWorktree
<1>2. CASE CanRecordLease(c) /\ RecordLease(c)
  BY <1>0, <1>2 DEF CanRecordLease, RecordLease
<1>3. CASE CanBind(c) /\ Bind(c)
  BY <1>0, <1>3 DEF CanBind, Bind
<1>4. CASE CanRecordTeardown(c) /\ RecordTeardown(c)
  BY <1>0, <1>4 DEF CanRecordTeardown, RecordTeardown, Live
<1>5. CASE CanPropose(c) /\ \E p \in {"commit", "no_change"} : Propose(c, p)
  BY <1>0, <1>5 DEF CanPropose, Propose
<1>6. CASE CanRequestCancellation(c) /\ RequestCancellation(c)
  BY <1>0, <1>6 DEF CanRequestCancellation, RequestCancellation, Cancelling
<1>7. CASE \E o \in TerminalAttempt : CanComplete(c, o) /\ Complete(c, o)
  <2>1. PICK o \in TerminalAttempt : CanComplete(c, o) /\ Complete(c, o)
    BY <1>7
  <2>2. child'[c] = [child[c] EXCEPT !.status = o]
    BY <1>0, <2>1 DEF Complete
  <2>3. /\ child[c].status \in LiveAttempt /\ child[c].lease # "active"
        /\ child[c].handle /\ o # "interrupted" => child[c].teardown \in {"quiesced", "early"}
    BY <2>1 DEF CanComplete, Live
  <2> QED  BY <1>0, <2>2, <2>3
<1>8. CASE CanBeginIntegration(c) /\ BeginIntegration(c)
  BY <1>0, <1>8 DEF CanBeginIntegration, BeginIntegration
<1>9. CASE \E i \in {"integrated", "conflicted"} : EndIntegration(c, i)
  BY <1>0, <1>9 DEF EndIntegration
<1> QED  BY <1>1, <1>2, <1>3, <1>4, <1>5, <1>6, <1>7, <1>8, <1>9 DEF OfChild

\* What a transaction on all children does to a record.
TreeStep(r, s) ==
  \/ s = r
  \/ s = Revoked(r)
  \/ r.status = "active" /\ s = Cancelling(r)
  \/ /\ r.status \in LiveAttempt
     /\ s.status \in {"cancelled", "interrupted"} /\ s.lease # "active"
     /\ s.integration = r.integration
     /\ s.status = "cancelled" => s.teardown \in {"quiesced", "early"}

\* The ends completeRootCancelledChildren and interruptActiveChildren give an attempt.
LEMMA RootEndings ==
  ASSUME NEW r \in ChildRecord, r.status \in LiveAttempt, NEW t \in {"quiesced", "uncertain"},
         NEW o \in RootOutcomes(WithTeardown(r, t))
  PROVE  /\ o \in {"cancelled", "interrupted"}
         /\ o = "cancelled" => WithTeardown(r, t).teardown \in {"quiesced", "early"}
<1> DEFINE w == WithTeardown(r, t)
<1>1. w \in ChildRecord /\ w.status = r.status
  BY RecordParts, PartsKept
<1> HIDE DEF w
<1>2. CASE w.status = "cancelling"
  <2>1. PICK after \in AfterIntent(w) : o = IF after THEN "cancelled" ELSE "interrupted"
    BY <1>2 DEF RootOutcomes, w
  <2>2. AfterIntent(w) \subseteq BOOLEAN
    BY DEF AfterIntent
  <2>3. o = "cancelled" => TRUE \in AfterIntent(w)
    BY <2>1, <2>2
  <2>4. TRUE \in AfterIntent(w) => w.teardown \in {"quiesced", "early"}
    BY <1>1 DEF AfterIntent, ChildRecord
  <2> QED  BY <2>1, <2>2, <2>3, <2>4 DEF w
<1>3. CASE w.status # "cancelling"
  BY <1>3 DEF RootOutcomes, w
<1> QED  BY <1>2, <1>3

LEMMA TreeSteps ==
  ASSUME StoreType, OfTree
  PROVE  /\ UNCHANGED <<root, based, base>>
         /\ \A c \in Child : TreeStep(child[c], child'[c])
<1>0. \A c \in Child : child[c] \in ChildRecord
  BY DEF StoreType
<1>1. CASE RevokeSome
  BY <1>1 DEF RevokeSome, TreeStep
<1>2. CASE RequestAllCancellations
  BY <1>2 DEF RequestAllCancellations, TreeStep
<1>3. CASE CanCompleteCancelled /\ CompleteCancelled
  <2>1. PICK ends \in [Child -> {"cancelled", "interrupted"}] :
          /\ \A c \in Child :
               ends[c] \in IF child[c].status = "cancelling"
                                THEN RootOutcomes(WithTeardown(child[c], "quiesced"))
                                ELSE {"interrupted"}
          /\ child' = [c \in Child |->
                         IF child[c].status = "cancelling"
                           THEN [WithTeardown(child[c], "quiesced") EXCEPT !.status = ends[c]]
                           ELSE child[c]]
    BY <1>3 DEF CompleteCancelled
  <2>2. ASSUME NEW c \in Child, child[c].status = "cancelling"
        PROVE  TreeStep(child[c], child'[c])
    <3> DEFINE w == WithTeardown(child[c], "quiesced")
    <3>1. /\ ends[c] \in {"cancelled", "interrupted"}
          /\ ends[c] = "cancelled" => w.teardown \in {"quiesced", "early"}
      BY <1>0, <2>1, <2>2, RootEndings DEF LiveAttempt
    <3>2. w \in ChildRecord /\ w.lease = child[c].lease /\ w.integration = child[c].integration
      BY <1>0, RecordParts, PartsKept
    <3>3. child'[c] = [w EXCEPT !.status = ends[c]] /\ child[c].lease # "active"
      BY <1>3, <2>1, <2>2 DEF CanCompleteCancelled
    <3> HIDE DEF w
    <3> QED  BY <2>2, <3>1, <3>2, <3>3 DEF TreeStep, LiveAttempt, ChildRecord
  <2>3. ASSUME NEW c \in Child, child[c].status # "cancelling"
        PROVE  TreeStep(child[c], child'[c])
    BY <2>1, <2>3 DEF TreeStep
  <2> QED  BY <1>3, <2>2, <2>3 DEF CompleteCancelled
<1>4. CASE InterruptActive
  <2>1. PICK ends \in [Child -> {"cancelled", "interrupted"}] :
          /\ \A c \in Child : ends[c] \in RootOutcomes(WithTeardown(child[c], "uncertain"))
          /\ child' = [c \in Child |->
                         IF Live(c)
                           THEN [Revoked(WithTeardown(child[c], "uncertain"))
                                   EXCEPT !.status = ends[c]]
                           ELSE child[c]]
    BY <1>4 DEF InterruptActive
  <2>2. ASSUME NEW c \in Child, Live(c)
        PROVE  TreeStep(child[c], child'[c])
    <3> DEFINE w == WithTeardown(child[c], "uncertain")
               v == Revoked(w)
    <3>1. /\ ends[c] \in {"cancelled", "interrupted"}
          /\ ends[c] = "cancelled" => w.teardown \in {"quiesced", "early"}
      BY <1>0, <2>1, <2>2, RootEndings DEF Live
    <3>2. w \in ChildRecord /\ w.integration = child[c].integration
      BY <1>0, RecordParts, PartsKept
    <3>3. child'[c] = [v EXCEPT !.status = ends[c]]
      BY <2>1, <2>2
    <3> HIDE DEF w
    <3>4. /\ v \in ChildRecord /\ v.integration = w.integration /\ v.teardown = w.teardown
          /\ v.lease # "active"
      BY <3>2, RecordParts, PartsKept
    <3> HIDE DEF v
    <3> QED  BY <2>2, <3>1, <3>2, <3>3, <3>4 DEF TreeStep, Live, ChildRecord
  <2>3. ASSUME NEW c \in Child, ~Live(c)
        PROVE  TreeStep(child[c], child'[c])
    BY <2>1, <2>3 DEF TreeStep
  <2> QED  BY <1>4, <2>2, <2>3 DEF InterruptActive
<1> QED  BY <1>1, <1>2, <1>3, <1>4 DEF OfTree

\* Evidence and Applied of one record.
RecordHolds(r) ==
  /\ r.status \in TerminalAttempt =>
       /\ r.lease # "active"
       /\ r.status # "interrupted" /\ r.handle => r.teardown \in {"quiesced", "early"}
  /\ r.status \in LiveAttempt => r.teardown # "uncertain"
  /\ r.integration # "none" => r.status = "succeeded" /\ r.proposal # "none"

LEMMA RecordsHold ==
  Evidence /\ Applied <=> \A c \in Child : RecordHolds(child[c])
BY DEF Evidence, Applied, EndIsProven, RecordHolds, Live

\* A record keeps what it holds and an ended attempt is over.
RecordStays(r, s) ==
  /\ RecordHolds(s)
  /\ r.status = "absent" <=> s.status = "absent"
  /\ s.status \in LiveAttempt => r.status \in LiveAttempt
  /\ r.status \in TerminalAttempt => [s EXCEPT !.integration = r.integration] = r
  /\ r.integration = "integrated" => s.integration = "integrated"
  /\ s.integration = r.integration \/ (r.status = "succeeded" /\ r.proposal # "none"
                                       /\ r.integration # "integrated")

LEMMA AttemptStays ==
  ASSUME NEW r \in ChildRecord, NEW s \in ChildRecord, RecordHolds(r), AttemptStep(r, s)
  PROVE  RecordStays(r, s)
<1> USE DEF ChildRecord, LiveAttempt, TerminalAttempt, RecordHolds
<1>1. CASE /\ r.status = "active"
           /\ s.status \in LiveAttempt /\ s.integration = r.integration
           /\ s.teardown \in {r.teardown, "quiesced", "early"}
  BY <1>1 DEF RecordStays
<1>2. CASE /\ r.status \in LiveAttempt
           /\ s.status = r.status /\ s.integration = r.integration
           /\ s.teardown = "quiesced"
  BY <1>2 DEF RecordStays
<1>3. CASE /\ r.status \in LiveAttempt /\ r.lease # "active"
           /\ \E o \in TerminalAttempt : s = [r EXCEPT !.status = o]
           /\ r.handle /\ s.status # "interrupted" => r.teardown \in {"quiesced", "early"}
  BY <1>3 DEF RecordStays
<1>4. CASE /\ r.status = "succeeded" /\ r.proposal # "none" /\ r.integration = "none"
           /\ s = [r EXCEPT !.integration = "applying"]
  BY <1>4 DEF RecordStays
<1>5. CASE /\ r.integration = "applying"
           /\ \E i \in {"integrated", "conflicted"} : s = [r EXCEPT !.integration = i]
  BY <1>5 DEF RecordStays
<1> QED  BY <1>1, <1>2, <1>3, <1>4, <1>5 DEF AttemptStep

LEMMA TreeStays ==
  ASSUME NEW r \in ChildRecord, NEW s \in ChildRecord, RecordHolds(r), TreeStep(r, s)
  PROVE  RecordStays(r, s)
<1> USE DEF ChildRecord, LiveAttempt, TerminalAttempt, RecordHolds
<1>1. CASE s = r
  BY <1>1 DEF RecordStays
<1>2. CASE s = Revoked(r)
  <2>1. /\ s.status = r.status /\ s.teardown = r.teardown /\ s.handle = r.handle
        /\ s.proposal = r.proposal /\ s.integration = r.integration /\ s.lease # "active"
        /\ r.lease # "active" => s = r
    BY <1>2, PartsKept
  <2> QED  BY <2>1 DEF RecordStays
<1>3. CASE r.status = "active" /\ s = Cancelling(r)
  BY <1>3 DEF RecordStays, Cancelling
<1>4. CASE /\ r.status \in LiveAttempt
           /\ s.status \in {"cancelled", "interrupted"} /\ s.lease # "active"
           /\ s.integration = r.integration
           /\ s.status = "cancelled" => s.teardown \in {"quiesced", "early"}
  BY <1>4 DEF RecordStays
<1> QED  BY <1>1, <1>2, <1>3, <1>4 DEF TreeStep

\* The step inserts an attempt of the child.
Inserts(c) == (CanAdmit(c) /\ Admit(c)) \/ (CanRetry(c) /\ Retry(c))

\* The step leaves the root and the base, and every record stays.
Stays ==
  /\ UNCHANGED <<root, based, base>>
  /\ \A c \in Child : RecordStays(child[c], child'[c])

LEMMA SelfStays ==
  ASSUME NEW r \in ChildRecord, RecordHolds(r)
  PROVE  RecordStays(r, r)
BY TreeStays DEF TreeStep

\* Every transaction inserts an attempt, leaves the records as they may be, or concerns
\* the base or the root alone.
LEMMA StepShape ==
  ASSUME StoreType, StoreNext, TreeInv
  PROVE  (\E c \in Child : Inserts(c)) \/ Stays \/ OfBase \/ OfRoot
<1>0. /\ \A c \in Child : child[c] \in ChildRecord /\ RecordHolds(child[c])
      /\ \A c \in Child : child'[c] \in ChildRecord
  BY StoreTypes, RecordsHold DEF StoreType, TreeInv
<1>1. ASSUME NEW c \in Child, OfChild(c), ~Inserts(c)
      PROVE  Stays
  <2>1. AttemptStep(child[c], child'[c])
    BY <1>1, AttemptSteps DEF Inserts
  <2>2. RecordStays(child[c], child'[c])
    BY <1>0, <2>1, AttemptStays
  <2>3. \A d \in Child \ {c} : RecordStays(child[d], child'[d])
    BY <1>0, <1>1, OthersStay, SelfStays
  <2> QED  BY <1>1, <2>2, <2>3, OthersStay DEF Stays
<1>2. CASE OfTree
  BY <1>0, <1>2, TreeSteps, TreeStays DEF Stays
<1>3. CASE UNCHANGED storeVars
  BY <1>0, <1>3, SelfStays DEF Stays, storeVars
<1> QED  BY <1>1, <1>2, <1>3 DEF StoreNext

LEMMA InsertKeepsTree ==
  ASSUME StoreType, TreeInv, NEW c \in Child, Inserts(c)
  PROVE  TreeInv'
<1>0. /\ OfChild(c) /\ UNCHANGED <<root, based, base>>
      /\ \A d \in Child \ {c} : child'[d] = child[d]
  BY OthersStay DEF Inserts, OfChild
<1>1. /\ root = "running"
      /\ child'[c].status = "active" /\ child'[c].teardown = "none"
      /\ child'[c].integration = "none"
      /\ child[c].status \in {"absent", "failed", "interrupted"}
  BY AttemptInserted DEF Inserts
<1>2. Evidence' /\ Applied'
  <2>1. \A d \in Child : RecordHolds(child[d])
    BY RecordsHold DEF TreeInv
  <2>2. RecordHolds(child'[c])
    BY <1>1 DEF RecordHolds, TerminalAttempt
  <2>3. \A d \in Child : RecordHolds(child'[d])
    BY <1>0, <2>1, <2>2
  <2> QED  BY <2>3 DEF Evidence, Applied, EndIsProven, RecordHolds, Live
<1>3. BaseHolds'
  <2>1. c \notin base
    BY <1>1 DEF TreeInv, BaseHolds
  <2>2. CASE CanAdmit(c)
    <3>1. IF c \in Dependent THEN based ELSE ~based
      BY <2>2 DEF CanAdmit
    <3>2. c \in Implementation => c \notin Dependent
      BY ChildrenAssumption
    <3> QED  BY <1>0, <2>1, <3>1, <3>2 DEF TreeInv, BaseHolds, Admitted, StoreType
  <2>3. CASE CanRetry(c)
    <3>1. c \in Admitted /\ c \notin base
      BY <2>1, <2>3 DEF CanRetry, Admitted
    <3>2. Admitted' = Admitted
      BY <1>0, <1>1, <3>1 DEF Admitted
    <3> QED  BY <1>0, <3>1, <3>2 DEF TreeInv, BaseHolds, StoreType
  <2> QED  BY <2>2, <2>3 DEF Inserts
<1>4. VerificationIsJoined'
  BY <1>0, <1>1 DEF VerificationIsJoined
<1> QED  BY <1>2, <1>3, <1>4 DEF TreeInv

LEMMA StayKeepsTree ==
  ASSUME StoreType, StoreType', TreeInv, Stays
  PROVE  TreeInv'
<1>1. Evidence' /\ Applied'
  BY DEF Stays, RecordStays, Evidence, Applied, EndIsProven, RecordHolds, Live
<1>2. Admitted' = Admitted
  BY DEF Stays, RecordStays, Admitted
<1>0. /\ \A c \in Child : child[c] \in ChildRecord /\ child'[c] \in ChildRecord
      /\ base \subseteq Child /\ base' = base /\ based' = based /\ root' = root
  BY DEF StoreType, Stays
<1>3. \A c \in Child : child[c].status \in TerminalAttempt =>
        /\ child'[c].status = child[c].status /\ child'[c].proposal = child[c].proposal
  <2> SUFFICES ASSUME NEW c \in Child, child[c].status \in TerminalAttempt
               PROVE  /\ child'[c].status = child[c].status
                      /\ child'[c].proposal = child[c].proposal
    OBVIOUS
  <2>1. [child'[c] EXCEPT !.integration = child[c].integration] = child[c]
    BY DEF Stays, RecordStays
  <2> QED  BY <1>0, <2>1 DEF ChildRecord
<1>4. BaseHolds'
  <2>1. \A d \in base : child'[d].status = "succeeded" /\ child'[d].integration = "integrated"
    BY <1>0, <1>3 DEF TreeInv, BaseHolds, TerminalAttempt, Stays, RecordStays
  <2> QED  BY <1>0, <1>2, <2>1 DEF TreeInv, BaseHolds
<1>5. VerificationIsJoined'
  <2> SUFFICES ASSUME root \in {"verifying", "committing", "succeeded"}, NEW c \in Child
               PROVE  (~Live(c) /\ ~Unintegrated(c))'
    BY <1>0 DEF VerificationIsJoined, Joined
  <2>1. ~Live(c) /\ ~Unintegrated(c)
    BY DEF TreeInv, VerificationIsJoined, Joined
  <2>2. ~Live(c)'
    BY <2>1 DEF Live, Stays, RecordStays
  <2>3. child'[c].integration = child[c].integration
    BY <2>1 DEF Stays, RecordStays, Unintegrated
  <2>4. CASE child[c].status = "absent"
    BY <2>2, <2>4 DEF Stays, RecordStays, Unintegrated
  <2>5. CASE child[c].status # "absent"
    <3>1. child[c].status \in TerminalAttempt
      BY <1>0, <2>1, <2>5 DEF Live, ChildRecord
    <3> QED  BY <1>3, <2>1, <2>2, <2>3, <3>1 DEF Unintegrated
  <2> QED  BY <2>4, <2>5
<1> QED  BY <1>1, <1>4, <1>5 DEF TreeInv

LEMMA BaseKeepsTree ==
  ASSUME StoreType, TreeInv, OfBase
  PROVE  TreeInv'
<1>0. UNCHANGED <<root, child>> /\ based'
      /\ base' = {c \in Child : child[c].integration = "integrated"}
  BY DEF OfBase, RecordBase
<1>1. Evidence' /\ Applied'
  BY <1>0 DEF TreeInv, Evidence, Applied, EndIsProven, Live
<1>2. BaseHolds'
  <2>1. \A d \in base' : child'[d].status = "succeeded" /\ child'[d].integration = "integrated"
    BY <1>0 DEF TreeInv, Applied
  <2>2. Implementation \intersect Admitted \subseteq base'
    BY <1>0 DEF OfBase, Admitted
  <2> QED  BY <1>0, <2>1, <2>2 DEF BaseHolds, Admitted
<1>3. VerificationIsJoined'
  BY <1>0 DEF TreeInv, VerificationIsJoined, Joined, Live, Unintegrated
<1> QED  BY <1>1, <1>2, <1>3 DEF TreeInv

\* The root comes to verification and to success from joined children, and to the
\* commit from verification.
LEMMA RootKeepsTree ==
  ASSUME StoreType, TreeInv, OfRoot
  PROVE  TreeInv'
<1>0. UNCHANGED <<child, based, base>>
  BY DEF OfRoot, MoveRoot
<1>1. Evidence' /\ Applied'
  BY <1>0 DEF TreeInv, Evidence, Applied, EndIsProven, Live
<1>2. BaseHolds'
  BY <1>0 DEF TreeInv, BaseHolds, Admitted
<1>3. VerificationIsJoined'
  <2> SUFFICES ASSUME root' \in {"verifying", "committing", "succeeded"}
               PROVE  Joined
    BY <1>0 DEF VerificationIsJoined, Joined, Live, Unintegrated
  <2>1. CASE CanEndRoot(root')
    BY <2>1 DEF CanEndRoot, ChildrenAllow
  <2>2. CASE CanMoveRoot(root') /\ root' = "verifying"
    BY <2>2 DEF CanMoveRoot
  <2>3. CASE CanMoveRoot(root') /\ root' = "committing"
    <3>1. root \in {"verifying", "committing"}
      BY <2>3 DEF CanMoveRoot, CanTransition, Allowed, Statuses, LiveStatuses, TerminalStatuses
    <3> QED  BY <3>1 DEF TreeInv, VerificationIsJoined
  <2>4. ~(CanMoveRoot(root') /\ root' = "succeeded")
    BY DEF CanMoveRoot, LiveStatuses
  <2> QED  BY <2>1, <2>2, <2>3, <2>4 DEF OfRoot, MoveRoot
<1> QED  BY <1>1, <1>2, <1>3 DEF TreeInv

\* What holds of the tree in every state, whoever calls its transactions.
THEOREM TreeInvariant == TreeSpec => [](StoreType /\ TreeInv)
<1>1. StoreInit => StoreType /\ TreeInv
  BY InitStoreTypes, InitTree
<1>2. StoreType /\ TreeInv /\ [StoreNext]_storeVars => (StoreType /\ TreeInv)'
  <2> SUFFICES ASSUME StoreType, TreeInv, [StoreNext]_storeVars
               PROVE  StoreType' /\ TreeInv'
    OBVIOUS
  <2>1. StoreNext
    BY DEF StoreNext
  <2>2. StoreType'
    BY <2>1, StoreTypes
  <2> QED  BY <2>1, <2>2, StepShape, InsertKeepsTree, StayKeepsTree, BaseKeepsTree, RootKeepsTree
<1> QED  BY <1>1, <1>2, PTL DEF TreeSpec

\* However an attempt ends, its lease is revoked by then and the end of a bound runtime
\* is backed by evidence (completeChildAttempt, completeRootCancelledChildren,
\* interruptActiveChildren).
THEOREM EndsAreProven == Spec => []EndIsProven
<1>1. TreeInv => EndIsProven
  BY DEF TreeInv, Evidence
<1> QED  BY <1>1, HostImplementsTree, TreeInvariant, PTL

\* From trusted verification on no attempt lives and every successful proposal is in the
\* root's tree (assertChildrenJoined, and what admissions and settlements may still do).
THEOREM JoinedBeforeVerification == Spec => []VerificationIsJoined
<1>1. TreeInv => VerificationIsJoined
  BY DEF TreeInv
<1> QED  BY <1>1, HostImplementsTree, TreeInvariant, PTL

\* Dependent children are admitted to a base with every implementation child, and none
\* is admitted, retried or changed afterwards (admitChild, recordChildWaveBase).
THEOREM DependentsBuildOnWave == Spec => []DependentsSeeImplementation
<1>1. TreeInv => DependentsSeeImplementation
  BY DEF TreeInv, BaseHolds, DependentsSeeImplementation
<1> QED  BY <1>1, HostImplementsTree, TreeInvariant, PTL

\* No transaction writes the record of an ended attempt again, but for its integration.
THEOREM EndedAttemptsStay == Spec => EndedAttemptIsFinal
<1> DEFINE Final == \A c \in Child :
                      child[c].status \in TerminalAttempt /\ child'[c].ordinal = child[c].ordinal =>
                        [child'[c] EXCEPT !.integration = child[c].integration] = child[c]
<1>1. ASSUME StoreType, TreeInv, StoreNext
      PROVE  Final
  <2>0. StoreType /\ StoreNext
    BY <1>1
  <2>1. CASE Stays
    BY <2>1 DEF Stays, RecordStays
  <2>2. ASSUME NEW c \in Child, Inserts(c)
        PROVE  Final
    <3>1. \A d \in Child \ {c} : child'[d] = child[d]
      BY <2>0, <2>2, OthersStay DEF Inserts, OfChild
    <3>2. child[c].status \in TerminalAttempt => child'[c].ordinal # child[c].ordinal
      BY <2>0, <2>2 DEF Inserts, CanAdmit, Retry, FreshAttempt, StoreType, ChildRecord,
                        TerminalAttempt
    <3>3. \A d \in Child : [child[d] EXCEPT !.integration = child[d].integration] = child[d]
      BY <2>0 DEF StoreType, ChildRecord
    <3> QED  BY <3>1, <3>2, <3>3
  <2>3. CASE UNCHANGED child
    BY <2>0, <2>3 DEF StoreType, ChildRecord
  <2>4. OfBase \/ OfRoot => UNCHANGED child
    BY DEF OfBase, RecordBase, OfRoot, MoveRoot
  <2> QED  BY <1>1, <2>0, <2>1, <2>2, <2>3, <2>4, StepShape
<1>2. TypeOK /\ TreeInv /\ [Next]_vars => [Final]_vars
  BY <1>1, StepTransacts, TypeParts
<1> QED  BY <1>2, HostTypeCorrect, HostImplementsTree, TreeInvariant, PTL
         DEF Spec, EndedAttemptIsFinal

-----------------------------------------------------------------------------
(* The limits of the policy *)

\* A set of children that gains at most one member has at most one more.
LEMMA OneMore ==
  ASSUME NEW S, NEW T, NEW c, S \subseteq Child, T \subseteq S \union {c}
  PROVE  /\ IsFiniteSet(S) /\ Cardinality(S) \in Nat /\ Cardinality(T) \in Nat
         /\ Cardinality(T) <= Cardinality(S) + 1
         /\ T \subseteq S => Cardinality(T) <= Cardinality(S)
<1>1. IsFiniteSet(S)
  BY ChildrenAssumption, FS_Subset
<1>2. /\ IsFiniteSet(S \union {c}) /\ Cardinality(S \union {c}) <= Cardinality(S) + 1
      /\ Cardinality(S) \in Nat /\ Cardinality(S \union {c}) \in Nat
  BY <1>1, FS_AddElement, FS_CardinalityType
<1>3. IsFiniteSet(T) /\ Cardinality(T) <= Cardinality(S \union {c})
  BY <1>2, FS_Subset
<1>4. Cardinality(T) \in Nat
  BY <1>3, FS_CardinalityType
<1>5. T \subseteq S => Cardinality(T) <= Cardinality(S)
  BY <1>1, FS_Subset
<1> QED  BY <1>1, <1>2, <1>3, <1>4, <1>5

LEMMA SlotsKept ==
  ASSUME StoreType, TreeInv, SlotsWithinPolicy, StoreNext
  PROVE  SlotsWithinPolicy'
<1>0. StoreType' /\ {MaxChildren, MaxActive} \subseteq Nat
  BY StoreTypes, PolicyAssumption
<1>1. \A c \in Child : child'[c].ordinal <= MaxAttempts
  BY <1>0, PolicyAssumption DEF StoreType, ChildRecord
<1>2. Admitted \subseteq Child /\ LiveChildren \subseteq Child
  BY DEF Admitted, LiveChildren
<1>3. ASSUME NEW c \in Child, Inserts(c)
      PROVE  SlotsWithinPolicy'
  <2>1. \A d \in Child \ {c} : child'[d] = child[d]
    BY <1>0, <1>3, OthersStay DEF Inserts, OfChild
  <2>2. /\ child'[c].status = "active" /\ Cardinality(LiveChildren) < MaxActive
    BY <1>0, <1>3, AttemptInserted DEF Inserts
  <2>3. Cardinality(LiveChildren') <= MaxActive
    <3>1. LiveChildren' \subseteq LiveChildren \union {c}
      BY <2>1 DEF LiveChildren, Live
    <3>2. /\ Cardinality(LiveChildren) \in Nat /\ Cardinality(LiveChildren') \in Nat
          /\ Cardinality(LiveChildren') <= Cardinality(LiveChildren) + 1
      BY <1>2, <3>1, OneMore
    <3> QED  BY ONLY <1>0, <2>2, <3>2
  <2>4. Cardinality(Admitted') <= MaxChildren
    <3>1. Admitted' \subseteq Admitted \union {c}
      BY <2>1 DEF Admitted
    <3>2. CASE CanAdmit(c)
      <4>1. Cardinality(Admitted) < MaxChildren
        BY <3>2 DEF CanAdmit
      <4>2. /\ Cardinality(Admitted) \in Nat /\ Cardinality(Admitted') \in Nat
            /\ Cardinality(Admitted') <= Cardinality(Admitted) + 1
        BY <1>2, <3>1, OneMore
      <4> QED  BY ONLY <1>0, <4>1, <4>2
    <3>3. CASE CanRetry(c)
      <4>1. Admitted' = Admitted
        BY <2>2, <3>1, <3>3, <2>1 DEF CanRetry, Admitted
      <4> QED  BY <4>1 DEF SlotsWithinPolicy
    <3> QED  BY <1>3, <3>2, <3>3 DEF Inserts
  <2> QED  BY <1>1, <2>3, <2>4 DEF SlotsWithinPolicy
<1>4. CASE Stays
  <2>1. Admitted' = Admitted
    BY <1>4 DEF Stays, RecordStays, Admitted
  <2>2. LiveChildren' \subseteq LiveChildren
    BY <1>4 DEF Stays, RecordStays, LiveChildren, Live
  <2>3. Cardinality(LiveChildren') <= Cardinality(LiveChildren)
    BY <1>2, <2>2, OneMore
  <2>4. Cardinality(LiveChildren') \in Nat /\ Cardinality(LiveChildren) \in Nat
    BY <1>2, <2>2, OneMore
  <2> QED  BY <1>0, <1>1, <2>1, <2>3, <2>4 DEF SlotsWithinPolicy
<1>5. CASE UNCHANGED child
  BY <1>5 DEF SlotsWithinPolicy, Admitted, LiveChildren, Live
<1>6. OfBase \/ OfRoot => UNCHANGED child
  BY DEF OfBase, RecordBase, OfRoot, MoveRoot
<1> QED  BY <1>0, <1>3, <1>4, <1>5, <1>6, StepShape

\* An absent child has had no attempt.
Unallocated == \A c \in Child : child[c].status = "absent" => child[c].ordinal = 0

Ordinals == [c \in Child |-> child[c].ordinal]

\* A record goes on with its attempt.
SameAttempt(r, s) == s.ordinal = r.ordinal /\ (s.status = "absent" => r.status = "absent")

LEMMA PartsOfAttempt ==
  ASSUME NEW r \in ChildRecord, NEW t \in {"quiesced", "uncertain"},
         NEW o \in TerminalAttempt
  PROVE  /\ SameAttempt(r, r) /\ SameAttempt(r, Revoked(r))
         /\ SameAttempt(r, Cancelling(r))
         /\ SameAttempt(r, [WithTeardown(r, t) EXCEPT !.status = o])
         /\ SameAttempt(r, [Revoked(WithTeardown(r, t)) EXCEPT !.status = o])
<1> USE DEF ChildRecord, SameAttempt, TerminalAttempt
<1>1. SameAttempt(r, r) /\ SameAttempt(r, Revoked(r))
  BY DEF Revoked
<1>2. SameAttempt(r, Cancelling(r))
  BY DEF Cancelling
<1>3. SameAttempt(r, [WithTeardown(r, t) EXCEPT !.status = o])
  BY DEF WithTeardown
<1>4. SameAttempt(r, [Revoked(WithTeardown(r, t)) EXCEPT !.status = o])
  BY DEF WithTeardown, Revoked
<1> QED  BY <1>1, <1>2, <1>3, <1>4

\* Only an admission and a retry begin an attempt, each the next one of its child, and
\* only while the token pool pays for one more.
LEMMA AttemptsBegin ==
  ASSUME StoreType, Unallocated, NEW c \in Child, OfChild(c)
  PROVE  \/ SameAttempt(child[c], child'[c])
         \/ /\ TokensLeft /\ child'[c].status = "active"
            /\ child'[c].ordinal = child[c].ordinal + 1
<1>0. child[c] \in ChildRecord /\ child \in [Child -> ChildRecord]
  BY DEF StoreType
<1>1. CASE CanAdmit(c) /\ Admit(c)
  BY <1>0, <1>1 DEF CanAdmit, Admit, FreshAttempt, Unallocated
<1>2. CASE CanRetry(c) /\ Retry(c)
  BY <1>0, <1>2 DEF CanRetry, Retry, FreshAttempt
<1>3. CASE \/ RecordWorktree(c) \/ RecordLease(c) \/ Bind(c) \/ RecordTeardown(c)
           \/ BeginIntegration(c)
  BY <1>0, <1>3 DEF RecordWorktree, RecordLease, Bind, RecordTeardown, BeginIntegration,
                    SameAttempt, ChildRecord
<1>4. CASE RequestCancellation(c)
  BY <1>0, <1>4 DEF RequestCancellation, Cancelling, SameAttempt, ChildRecord
<1>5. CASE \/ \E p \in {"commit", "no_change"} : Propose(c, p)
           \/ \E i \in {"integrated", "conflicted"} : EndIntegration(c, i)
  BY <1>0, <1>5 DEF Propose, EndIntegration, SameAttempt, ChildRecord
<1>6. CASE \E o \in TerminalAttempt : Complete(c, o)
  BY <1>0, <1>6 DEF Complete, SameAttempt, ChildRecord, TerminalAttempt
<1> QED  BY <1>1, <1>2, <1>3, <1>4, <1>5, <1>6 DEF OfChild

LEMMA TreeGoesOn ==
  ASSUME StoreType, OfTree, NEW c \in Child
  PROVE  SameAttempt(child[c], child'[c])
<1>0. child[c] \in ChildRecord
  BY DEF StoreType
<1>1. {"cancelled", "interrupted"} \subseteq TerminalAttempt
  BY DEF TerminalAttempt
<1>2. CASE RevokeSome
  BY <1>0, <1>1, <1>2, PartsOfAttempt DEF RevokeSome
<1>3. CASE RequestAllCancellations
  BY <1>0, <1>1, <1>3, PartsOfAttempt DEF RequestAllCancellations
<1>4. CASE CompleteCancelled
  <2>1. PICK ends \in [Child -> {"cancelled", "interrupted"}] :
               child' = [d \in Child |->
                 IF child[d].status = "cancelling"
                   THEN [WithTeardown(child[d], "quiesced") EXCEPT !.status = ends[d]]
                   ELSE child[d]]
    BY <1>4 DEF CompleteCancelled
  <2>2. ends[c] \in TerminalAttempt
    BY <1>1
  <2>3. child'[c] \in {child[c], [WithTeardown(child[c], "quiesced") EXCEPT !.status = ends[c]]}
    BY <2>1
  <2>4. /\ SameAttempt(child[c], child[c])
        /\ SameAttempt(child[c], [WithTeardown(child[c], "quiesced") EXCEPT !.status = ends[c]])
    BY <1>0, <2>2, PartsOfAttempt
  <2> QED  BY ONLY <2>3, <2>4
<1>5. CASE InterruptActive
  <2>1. PICK ends \in [Child -> {"cancelled", "interrupted"}] :
               child' = [d \in Child |->
                 IF Live(d)
                   THEN [Revoked(WithTeardown(child[d], "uncertain")) EXCEPT !.status = ends[d]]
                   ELSE child[d]]
    BY <1>5 DEF InterruptActive
  <2>2. ends[c] \in TerminalAttempt
    BY <1>1
  <2>3. child'[c] \in {child[c],
                      [Revoked(WithTeardown(child[c], "uncertain")) EXCEPT !.status = ends[c]]}
    BY <2>1
  <2>4. /\ SameAttempt(child[c], child[c])
        /\ SameAttempt(child[c], [Revoked(WithTeardown(child[c], "uncertain")) EXCEPT !.status = ends[c]])
    BY <1>0, <2>2, PartsOfAttempt
  <2> QED  BY ONLY <2>3, <2>4
<1> QED  BY <1>2, <1>3, <1>4, <1>5 DEF OfTree

\* The pool and what it needs to be inductive.
Pool == Unallocated /\ AttemptsAllocated <= PoolAttempts

LEMMA PoolKept ==
  ASSUME StoreType, StoreType', StoreNext, Pool
  PROVE  Pool'
<1>0. /\ IsFiniteSet(Child) /\ NatOn(Ordinals, Child) /\ NatOn(Ordinals', Child)
      /\ PoolAttempts \in Nat
  BY ChildrenAssumption, PolicyAssumption DEF NatOn, Ordinals, StoreType, ChildRecord
<1>1. AttemptsAllocated = SumFunctionOnSet(Ordinals, Child) /\ AttemptsAllocated \in Nat
  BY <1>0, SumType DEF AttemptsAllocated, Ordinals
<1>2. AttemptsAllocated' = SumFunctionOnSet(Ordinals', Child)
  BY DEF AttemptsAllocated, Ordinals
<1>3. ASSUME \A c \in Child : SameAttempt(child[c], child'[c])
      PROVE  Pool'
  <2>1. \A c \in Child : Ordinals[c] = Ordinals'[c]
    BY <1>3 DEF SameAttempt, Ordinals
  <2>2. AttemptsAllocated' = AttemptsAllocated
    BY <1>0, <1>1, <1>2, <2>1, SumAgree
  <2>3. Unallocated'
    BY <1>3 DEF Pool, Unallocated, SameAttempt
  <2> QED  BY <2>2, <2>3 DEF Pool
<1>4. ASSUME NEW c \in Child, OfChild(c)
      PROVE  Pool'
  <2>1. \A d \in Child \ {c} : child'[d] = child[d]
    BY <1>4, OthersStay
  <2>2. CASE SameAttempt(child[c], child'[c])
    <3>1. \A d \in Child : SameAttempt(child[d], child'[d])
      BY <2>1, <2>2 DEF SameAttempt
    <3> QED  BY <1>3, <3>1
  <2>3. CASE /\ TokensLeft /\ child'[c].status = "active"
             /\ child'[c].ordinal = child[c].ordinal + 1
    <3>1. /\ \A d \in Child \ {c} : Ordinals[d] = Ordinals'[d]
          /\ Ordinals'[c] = Ordinals[c] + 1 /\ Ordinals[c] \in Nat
      BY <1>0, <2>1, <2>3 DEF Ordinals, NatOn
    <3>2. AttemptsAllocated' = (AttemptsAllocated - Ordinals[c]) + Ordinals'[c]
      BY <1>0, <1>1, <1>2, <3>1, SumOneChanges
    <3>3. AttemptsAllocated' = AttemptsAllocated + 1
      BY <1>1, <3>1, <3>2
    <3>4. AttemptsAllocated < PoolAttempts
      BY <2>3 DEF TokensLeft
    <3>5. AttemptsAllocated' <= PoolAttempts
      BY <1>0, <1>1, <3>3, <3>4
    <3>6. Unallocated'
      BY <2>1, <2>3 DEF Pool, Unallocated
    <3> QED  BY <3>5, <3>6 DEF Pool
  <2> QED  BY <1>4, <2>2, <2>3, AttemptsBegin DEF Pool
<1>5. CASE OfTree
  BY <1>3, <1>5, TreeGoesOn
<1>6. CASE OfBase \/ OfRoot \/ UNCHANGED storeVars
  <2>1. UNCHANGED child
    BY <1>6 DEF OfBase, RecordBase, OfRoot, MoveRoot, storeVars
  <2> QED  BY <1>3, <2>1 DEF SameAttempt
<1> QED  BY <1>4, <1>5, <1>6 DEF StoreNext

\* The children, the attempts of each, the attempts that live and the attempts all of
\* them have had stay within the policy, whatever admissions, retries and ends come
\* together and whoever calls them (admitChild, retryChild, assertChildActiveSlot,
\* allocateChildInference).
THEOREM TreeKeepsPolicy == TreeSpec => []WithinPolicy
<1>1. StoreInit => SlotsWithinPolicy /\ Pool
  <2> SUFFICES ASSUME StoreInit PROVE SlotsWithinPolicy /\ Pool
    OBVIOUS
  <2>1. \A c \in Child : child[c].ordinal = 0
    BY DEF StoreInit, FreshAttempt
  <2>2. SlotsWithinPolicy
    <3>1. Admitted = {} /\ LiveChildren = {}
      BY DEF StoreInit, FreshAttempt, Admitted, LiveChildren, Live, LiveAttempt
    <3> QED  BY <2>1, <3>1, FS_EmptySet, PolicyAssumption DEF SlotsWithinPolicy
  <2>3. \A c \in Child : Ordinals[c] = 0
    BY <2>1 DEF Ordinals
  <2>4. AttemptsAllocated = 0
    <3>1. IsFiniteSet(Child) /\ NatOn(Ordinals, Child) /\ {} \in SUBSET Child
      BY <2>3, ChildrenAssumption DEF NatOn
    <3>2. SumFunctionOnSet(Ordinals, {}) = SumFunctionOnSet(Ordinals, Child)
      BY <2>3, <3>1, SumSubset
    <3> QED  BY <3>2, SumEmpty DEF AttemptsAllocated, Ordinals
  <2> QED  BY <2>1, <2>2, <2>4, PolicyAssumption DEF Pool, Unallocated
<1>2. StoreType /\ StoreType' /\ TreeInv /\ SlotsWithinPolicy /\ Pool /\ [StoreNext]_storeVars
      => (SlotsWithinPolicy /\ Pool)'
  <2>1. [StoreNext]_storeVars => StoreNext
    BY DEF StoreNext
  <2> QED  BY <2>1, SlotsKept, PoolKept
<1>3. SlotsWithinPolicy /\ Pool => WithinPolicy
  BY DEF Pool, WithinPolicy
<1> QED  BY <1>1, <1>2, <1>3, TreeInvariant, PTL DEF TreeSpec

\* The host's admissions, retries and settlements stay within the policy too.
THEOREM PolicyIsKept == Spec => []WithinPolicy
BY HostImplementsTree, TreeKeepsPolicy, PTL
=============================================================================
