------------------------------ MODULE ChildTree ------------------------------
(***************************************************************************)
(* The child tree of one root job in the store: logical children, their    *)
(* current attempt, its worktree, proposal, inference lease, runtime       *)
(* binding, teardown evidence and integration, and the base of the second  *)
(* wave (the child transactions of src/store.ts).                          *)
(*                                                                         *)
(* The module defines the transactions; who calls them, when and with what *)
(* is the subject of SubagentHost.  Each transaction is a pair: its guards *)
(* as a state predicate, and its writes.                                   *)
(*                                                                         *)
(* A child is named by its session name; only names the host accepts are   *)
(* members of Child.  Earlier attempts of a child are terminal, and their  *)
(* leases revoked, when retryChild starts the next one, and no transaction *)
(* writes them again, so a record per child holds its current attempt.     *)
(* A mutation quotes the child revision its caller read; a stale one       *)
(* throws.  Callers read and write without looking at anything that a      *)
(* concurrent change would leave valid, so such a throw is one of the      *)
(* failures every caller may meet, and revisions are left out.             *)
(***************************************************************************)
EXTENDS Naturals, FiniteSets, FiniteSetsExt, JobStatus

CONSTANTS
  Implementation,   \* the children of wave 1
  Dependent,        \* the children of wave 2: tests and reviews
  MaxChildren,      \* maxChildren of the child tree policy
  MaxActive,        \* maxActiveChildren
  MaxAttempts,      \* maxAttemptsPerChild
  PoolAttempts,     \* the attempts the child token pool pays for
  None

Child == Implementation \union Dependent

ASSUME ChildrenAssumption ==
  /\ IsFiniteSet(Child)
  /\ Implementation \intersect Dependent = {}
ASSUME PolicyAssumption == {MaxChildren, MaxActive, MaxAttempts, PoolAttempts} \subseteq Nat \ {0}
ASSUME NoneAssumption == None \notin Child

VARIABLES
  root,    \* status of the root job
  child,   \* the logical children with their current attempts
  based,   \* is the base of wave 2 recorded?
  base     \* the children whose changes it contains

storeVars == <<root, child, based, base>>

LiveAttempt == {"active", "cancelling"}
TerminalAttempt == {"succeeded", "failed", "cancelled", "interrupted"}

\* "early" teardown evidence was recorded before the cancellation was requested.
ChildRecord ==
  [status : {"absent"} \union LiveAttempt \union TerminalAttempt,
   ordinal : 0..MaxAttempts,
   worktree : BOOLEAN,
   proposal : {"none", "commit", "no_change"},
   lease : {"none", "active", "revoked"},
   handle : BOOLEAN,
   teardown : {"none", "quiesced", "early", "uncertain"},
   integration : {"none", "applying", "integrated", "conflicted"}]

\* An attempt as its insertion leaves it.
FreshAttempt(n) ==
  [status |-> "active", ordinal |-> n, worktree |-> FALSE, proposal |-> "none",
   lease |-> "none", handle |-> FALSE, teardown |-> "none", integration |-> "none"]

Admitted == {c \in Child : child[c].status # "absent"}
Live(c) == child[c].status \in LiveAttempt
LiveChildren == {c \in Child : Live(c)}

\* A successful proposal that is not in the root's tree.  Its decision is
\* "selected" exactly when it is integrated: no caller discards a result.
Unintegrated(c) ==
  /\ child[c].status = "succeeded"
  /\ child[c].proposal # "none"
  /\ child[c].integration # "integrated"

\* assertChildrenJoined.
Joined == \A c \in Child : ~Live(c) /\ ~Unintegrated(c)

\* assertChildrenTerminalForRoot; the host admits required children only.
ChildrenAllow(s) ==
  /\ Joined
  /\ s = "succeeded" => \A c \in Admitted : child[c].status = "succeeded"

-----------------------------------------------------------------------------
(* Admission *)

AttemptsAllocated == SumFunctionOnSet([c \in Child |-> child[c].ordinal], Child)

\* Mutant of ActiveSlot: attempts that are being cancelled hold no slot.
ActiveSlotOfActive == Cardinality({c \in Child : child[c].status = "active"}) < MaxActive

\* assertChildActiveSlot and allocateChildInference.
ActiveSlot == Cardinality(LiveChildren) < MaxActive
TokensLeft == AttemptsAllocated < PoolAttempts

\* admitChild.  A wave-2 envelope names every wave-1 child as a dependency.
CanAdmit(c) ==
  /\ root = "running"
  /\ child[c].status = "absent"
  /\ IF c \in Dependent
       THEN /\ based
            /\ \A d \in Implementation \intersect Admitted :
                 child[d].status = "succeeded" /\ ~Unintegrated(d)
       ELSE ~based
  /\ Cardinality(Admitted) < MaxChildren
  /\ ActiveSlot
  /\ TokensLeft

Admit(c) ==
  /\ child' = [child EXCEPT ![c] = FreshAttempt(1)]
  /\ UNCHANGED <<root, based, base>>

\* Mutant of CanRetry: retries are bounded by the token pool only.
CanRetryUnbounded(c) ==
  /\ root = "running"
  /\ child[c].status \in {"failed", "interrupted"}
  /\ child[c].lease # "active"
  /\ ActiveSlot
  /\ TokensLeft

\* retryChild.
CanRetry(c) ==
  /\ root = "running"
  /\ child[c].status \in {"failed", "interrupted"}
  /\ child[c].lease # "active"
  /\ ActiveSlot
  /\ child[c].ordinal < MaxAttempts
  /\ TokensLeft

Retry(c) ==
  /\ child' = [child EXCEPT ![c] = FreshAttempt(child[c].ordinal + 1)]
  /\ UNCHANGED <<root, based, base>>

-----------------------------------------------------------------------------
(* The life of an attempt *)

CanRecordWorktree(c) == child[c].status = "active" /\ ~child[c].worktree
RecordWorktree(c) ==
  /\ child' = [child EXCEPT ![c].worktree = TRUE]
  /\ UNCHANGED <<root, based, base>>

CanRecordLease(c) == child[c].status = "active" /\ child[c].lease = "none"
RecordLease(c) ==
  /\ child' = [child EXCEPT ![c].lease = "active"]
  /\ UNCHANGED <<root, based, base>>

\* revokeChildInferenceLease of the leases of a set of children.
Revoked(r) == [r EXCEPT !.lease = IF r.lease = "active" THEN "revoked" ELSE r.lease]

CanBind(c) == child[c].status = "active" /\ ~child[c].handle
Bind(c) ==
  /\ child' = [child EXCEPT ![c].handle = TRUE]
  /\ UNCHANGED <<root, based, base>>

CanRecordTeardown(c) == Live(c) /\ child[c].teardown = "none"
RecordTeardown(c) ==
  /\ child' = [child EXCEPT ![c].teardown = "quiesced"]
  /\ UNCHANGED <<root, based, base>>

\* Mutant of CanPropose: an attempt that has ended may still propose.
CanProposeLate(c) == child[c].worktree /\ child[c].proposal = "none"

\* recordChildProposal.
CanPropose(c) ==
  child[c].status = "active" /\ child[c].worktree /\ child[c].proposal = "none"
Propose(c, p) ==
  /\ child' = [child EXCEPT ![c].proposal = p]
  /\ UNCHANGED <<root, based, base>>

\* requestChildCancellation.
Cancelling(r) ==
  [r EXCEPT !.status = "cancelling",
            !.teardown = IF r.teardown = "quiesced" THEN "early" ELSE r.teardown]

CanRequestCancellation(c) == child[c].status = "active"
RequestCancellation(c) ==
  /\ child' = [child EXCEPT ![c] = Cancelling(child[c])]
  /\ UNCHANGED <<root, based, base>>

\* Evidence recorded in the millisecond of the request counts as after it.
AfterIntent(r) ==
  CASE r.teardown = "quiesced" -> {TRUE}
    [] r.teardown = "early" -> BOOLEAN
    [] OTHER -> {FALSE}

\* Mutant of CanComplete: a lease that is still active does not matter.
CanCompleteLeased(c, outcome) ==
  LET r == child[c] IN
  /\ Live(c)
  /\ r.status = "cancelling" => outcome \in {"cancelled", "interrupted"}
  /\ outcome = "cancelled" => r.status = "cancelling" /\ TRUE \in AfterIntent(r)
  /\ r.handle /\ outcome # "interrupted" => r.teardown \in {"quiesced", "early"}
  /\ outcome = "succeeded" /\ r.worktree => r.proposal # "none"

\* completeChildAttempt.
CanComplete(c, outcome) ==
  LET r == child[c] IN
  /\ Live(c)
  /\ r.lease # "active"
  /\ r.status = "cancelling" => outcome \in {"cancelled", "interrupted"}
  /\ outcome = "cancelled" => r.status = "cancelling" /\ TRUE \in AfterIntent(r)
  /\ r.handle /\ outcome # "interrupted" => r.teardown \in {"quiesced", "early"}
  /\ outcome = "succeeded" /\ r.worktree => r.proposal # "none"

Complete(c, outcome) ==
  /\ child' = [child EXCEPT ![c].status = outcome]
  /\ UNCHANGED <<root, based, base>>

-----------------------------------------------------------------------------
(* Integration *)

CanBeginIntegration(c) ==
  /\ child[c].status = "succeeded"
  /\ child[c].proposal # "none"
  /\ child[c].integration = "none"
  /\ \A d \in Child : child[d].integration # "applying"

BeginIntegration(c) ==
  /\ child' = [child EXCEPT ![c].integration = "applying"]
  /\ UNCHANGED <<root, based, base>>

EndIntegration(c, result) ==
  /\ child[c].integration = "applying"
  /\ child' = [child EXCEPT ![c].integration = result]
  /\ UNCHANGED <<root, based, base>>

\* recordChildWaveBase for wave 2: the base is the root's HEAD.
CanRecordBase ==
  /\ root = "running"
  /\ ~based
  /\ \A c \in Implementation : ~Live(c) /\ ~Unintegrated(c)

RecordBase ==
  /\ based' = TRUE
  /\ base' = {c \in Child : child[c].integration = "integrated"}
  /\ UNCHANGED <<root, child>>

-----------------------------------------------------------------------------
(* All children at once *)

\* requestAllChildCancellations.
RequestAllCancellations ==
  /\ child' = [c \in Child |->
                 IF child[c].status = "active" THEN Cancelling(child[c]) ELSE child[c]]
  /\ UNCHANGED <<root, based, base>>

\* The outcomes completeRootCancelledChildren and interruptActiveChildren give
\* an attempt with teardown evidence t, its own or the one they supply.
RootOutcomes(r) ==
  IF r.status = "cancelling"
    THEN {IF after THEN "cancelled" ELSE "interrupted" : after \in AfterIntent(r)}
    ELSE {"interrupted"}

WithTeardown(r, t) == [r EXCEPT !.teardown = IF r.teardown = "none" THEN t ELSE r.teardown]

\* completeRootCancelledChildren.
CanCompleteCancelled ==
  \A c \in Child : child[c].status = "cancelling" => child[c].lease # "active"

CompleteCancelled ==
  /\ \E outcome \in [Child -> {"cancelled", "interrupted"}] :
       /\ \A c \in Child :
            outcome[c] \in IF child[c].status = "cancelling"
                             THEN RootOutcomes(WithTeardown(child[c], "quiesced"))
                             ELSE {"interrupted"}
       /\ child' = [c \in Child |->
                      IF child[c].status = "cancelling"
                        THEN [WithTeardown(child[c], "quiesced") EXCEPT !.status = outcome[c]]
                        ELSE child[c]]
  /\ UNCHANGED <<root, based, base>>

\* Mutant of InterruptActive: attempts that are being cancelled are left alone.
InterruptActiveOnly ==
  /\ child' = [c \in Child |->
                 IF child[c].status = "active"
                   THEN [Revoked(WithTeardown(child[c], "uncertain"))
                           EXCEPT !.status = "interrupted"]
                   ELSE child[c]]
  /\ UNCHANGED <<root, based, base>>

\* interruptActiveChildren.
InterruptActive ==
  /\ \E outcome \in [Child -> {"cancelled", "interrupted"}] :
       /\ \A c \in Child : outcome[c] \in RootOutcomes(WithTeardown(child[c], "uncertain"))
       /\ child' = [c \in Child |->
                      IF Live(c)
                        THEN [Revoked(WithTeardown(child[c], "uncertain"))
                                EXCEPT !.status = outcome[c]]
                        ELSE child[c]]
  /\ UNCHANGED <<root, based, base>>

-----------------------------------------------------------------------------
(* The root job *)

\* Mutant of CanMoveRoot: verification begins with children still unjoined.
CanMoveUnjoined(s) == s \in LiveStatuses /\ CanTransition(root, s)

\* updateState.
CanMoveRoot(s) ==
  s \in LiveStatuses /\ CanTransition(root, s) /\ (s = "verifying" => Joined)

\* finalizeTerminal, as far as the child tree has a say in it.
CanEndRoot(s) ==
  s \in TerminalStatuses /\ root \in LiveStatuses /\ CanTransition(root, s) /\ ChildrenAllow(s)

MoveRoot(s) == root' = s /\ UNCHANGED <<child, based, base>>

StoreInit ==
  /\ root = "running"
  /\ child = [c \in Child |-> [FreshAttempt(0) EXCEPT !.status = "absent"]]
  /\ based = FALSE
  /\ base = {}

=============================================================================
