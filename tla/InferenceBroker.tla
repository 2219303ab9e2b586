---------------------------- MODULE InferenceBroker ----------------------------
(***************************************************************************)
(* The inference broker of a worker (inference.ts): leases, the admission  *)
(* of requests under them, the accounting of what upstream reports, and    *)
(* revocation; with the rows the store keeps of child leases and of usage  *)
(* (store.ts) and the calls that create and revoke leases (worker.ts,      *)
(* child-host-bridge.ts, prime-sdk.ts).                                    *)
(*                                                                         *)
(* The broker is one Node process: a handler runs without interruption     *)
(* between its awaits, which are reading the body, each read of the        *)
(* upstream stream and each write of the store.  Upstream is external: it  *)
(* reports any terminal events, ends the stream, or fails.  A request that *)
(* is refused when its header arrives changes nothing and is not a step.   *)
(***************************************************************************)
EXTENDS Integers, FiniteSets, FiniteSetsExt

CONSTANTS
  Root,            \* the root's lease
  Child,           \* leases of child attempts
  Request,         \* requests; each is sent at most once
  ResponseId,      \* ids upstream may give a response
  Usage,           \* total tokens a terminal event may report, 0 for unknown
  MaxTokens,       \* the token budget of every lease
  MaxRequests, MaxConcurrency,   \* the other limits of a child's
  AggregateLimit,  \* aggregateMaxConcurrency: of all children, and of the root's lease
  StoreMayFail,    \* may a store callback throw?
  None

Lease == Root \union Child

\* The attempt id the broker makes for a request is the request itself.
Id == ResponseId \union Request

\* The root's lease is created with a token budget only: its requests are not limited,
\* and its concurrency is the broker's.
ConcurrencyLimit(l) == IF l \in Child THEN MaxConcurrency ELSE AggregateLimit

ASSUME BrokerAssumption ==
  /\ Root \intersect Child = {}
  /\ ResponseId \intersect Request = {}
  /\ None \notin Lease \union Id
  /\ Usage \subseteq Nat
  /\ {MaxTokens, MaxRequests, MaxConcurrency, AggregateLimit} \subseteq Nat \ {0}
  /\ StoreMayFail \in BOOLEAN

VARIABLES
  lease,      \* per lease, where it is between createLease and its deletion
  active,     \* per lease, requests admitted and not over
  count,      \* per lease, requests ever admitted
  ledger,     \* per lease, the usage recorded
  persisted,  \* per lease, persistedUsageIds
  pc,         \* per request, where its handler is
  on,         \* the lease a request was authorized by
  accounted,  \* per request, accountingAttempted
  item,       \* the response id onUsageFinalized is about
  batch,      \* the ids of the snapshot it was called with
  server,     \* the broker's server
  snapshot,   \* the leases close() revokes
  broken,     \* those of them whose revocation threw
  cancelling, \* have the child attempts been asked to cancel?
  durable,    \* per child lease, its row in the store
  rows,       \* per lease, the ids of the usage rows
  lost,       \* per lease, the ids whose write threw
  final       \* has the terminal ledger been written?

leaseVars == <<lease, active, count, ledger, persisted>>
requestVars == <<pc, on, accounted, item, batch>>
closeVars == <<server, snapshot, broken, cancelling>>
rowVars == <<durable, rows, lost, final>>
vars == <<leaseVars, requestVars, closeVars, rowVars>>

LeaseStatus == {"none", "live", "revoking", "gone"}
RequestPc == {"new", "reading", "upstream", "flushing", "ending", "done"}
InFlight == {"upstream", "flushing", "ending"}

Record == [id : Id, tokens : Usage \union {0}]
Ids(l) == {x.id : x \in ledger[l]}
ObservedTokens(l) == MapThenSumSet(LAMBDA x : x.tokens, ledger[l])

Init ==
  /\ lease = [l \in Lease |-> "none"]
  /\ active = [l \in Lease |-> 0]
  /\ count = [l \in Lease |-> 0]
  /\ ledger = [l \in Lease |-> {}]
  /\ persisted = [l \in Lease |-> {}]
  /\ pc = [r \in Request |-> "new"]
  /\ on = [r \in Request |-> None]
  /\ accounted = [r \in Request |-> FALSE]
  /\ item = [r \in Request |-> None]
  /\ batch = [r \in Request |-> {}]
  /\ server = "open"
  /\ snapshot = {}
  /\ broken = {}
  /\ cancelling = FALSE
  /\ durable = [c \in Child |-> "none"]
  /\ rows = [l \in Lease |-> {}]
  /\ lost = [l \in Lease |-> {}]
  /\ final = FALSE

-----------------------------------------------------------------------------
(* Leases *)

\* server.address() is null once close() has called server.close().
CreateLease(l) ==
  /\ lease[l] = "none"
  /\ server \in {"open", "closing"}
  /\ ~final
  /\ lease' = [lease EXCEPT ![l] = "live"]
  /\ UNCHANGED <<active, count, ledger, persisted, requestVars, closeVars, rowVars>>

\* recordChildInferenceLease; afterwards the runtime is started with the token.
RecordLease(c) ==
  /\ lease[c] = "live"
  /\ durable[c] = "none"
  /\ ~cancelling
  /\ durable' = [durable EXCEPT ![c] = "active"]
  /\ UNCHANGED <<leaseVars, requestVars, closeVars, rows, lost, final>>

\* finishRevocation up to its first await, which aborts what is in flight: the
\* expiry timer, the end of a child or of the root, its cancellation, or the
\* creator whose child could not be recorded.  A second call joins the first.
BeginRevoke(l) ==
  /\ lease[l] = "live"
  /\ lease' = [lease EXCEPT ![l] = "revoking"]
  /\ UNCHANGED <<active, count, ledger, persisted, requestVars, closeVars, rowVars>>

\* The row revokeChildInferenceLease needs.
HasRow(l) == l \in Child => durable[l] # "none"

WithRevokedRow(l) ==
  IF l \in Child THEN [durable EXCEPT ![l] = "revoked"] ELSE durable

\* Mutant of FinishRevoke: the lease goes before its requests are idle.
FinishRevokeBusy(l) ==
  /\ lease[l] = "revoking"
  /\ HasRow(l)
  /\ lease' = [lease EXCEPT ![l] = "gone"]
  /\ durable' = WithRevokedRow(l)
  /\ UNCHANGED <<active, count, ledger, persisted, requestVars, closeVars, rows, lost, final>>

\* waitForIdle, onLeaseRevoked, and the deletion that happens also when it throws.
FinishRevoke(l) ==
  /\ lease[l] = "revoking"
  /\ active[l] = 0
  /\ lease' = [lease EXCEPT ![l] = "gone"]
  /\ \/ /\ HasRow(l)
        /\ durable' = WithRevokedRow(l)
        /\ UNCHANGED broken
     \/ /\ StoreMayFail \/ ~HasRow(l)
        /\ broken' = broken \union ({l} \intersect snapshot)
        /\ UNCHANGED durable
  /\ UNCHANGED <<active, count, ledger, persisted, requestVars, server, snapshot,
                 cancelling, rows, lost, final>>

\* revokeAttemptLease: when the broker no longer holds it, the row is revoked.
RevokeRow(c) ==
  /\ lease[c] = "gone"
  /\ durable[c] = "active"
  /\ durable' = WithRevokedRow(c)
  /\ UNCHANGED <<leaseVars, requestVars, closeVars, rows, lost, final>>

-----------------------------------------------------------------------------
(* The handler of a request *)

\* The header carries a valid token, which a child's runtime has only once the
\* lease has been recorded; then the handler awaits the body.
Arrive(r, l) ==
  /\ pc[r] = "new"
  /\ server \in {"open", "closing"}
  /\ lease[l] = "live"
  /\ l \in Child => durable[l] = "active"
  /\ pc' = [pc EXCEPT ![r] = "reading"]
  /\ on' = [on EXCEPT ![r] = l]
  /\ UNCHANGED <<leaseVars, accounted, item, batch, closeVars, rowVars>>

\* Too large, malformed, unpinned, revoked by now, over budget or disconnected.
Refuse(r) ==
  /\ pc[r] = "reading"
  /\ pc' = [pc EXCEPT ![r] = "done"]
  /\ on' = [on EXCEPT ![r] = None]
  /\ UNCHANGED <<leaseVars, accounted, item, batch, closeVars, rowVars>>

\* activeChildRequests: requests of leases being revoked are not counted.
ActiveChildRequests ==
  SumFunctionOnSet(active, {c \in Child : lease[c] = "live"})

\* Mutant of WithinBudget: off by one.
WithinBudgetAndOne(l) ==
  /\ ObservedTokens(l) <= MaxTokens
  /\ l \in Child => count[l] <= MaxRequests
  /\ active[l] <= ConcurrencyLimit(l)
  /\ l \in Child => ActiveChildRequests <= AggregateLimit

WithinBudget(l) ==
  /\ ObservedTokens(l) < MaxTokens
  /\ l \in Child => count[l] < MaxRequests
  /\ active[l] < ConcurrencyLimit(l)
  /\ l \in Child => ActiveChildRequests < AggregateLimit

Admit(r) ==
  /\ pc[r] = "reading"
  /\ lease[on[r]] = "live"
  /\ WithinBudget(on[r])
  /\ pc' = [pc EXCEPT ![r] = "upstream"]
  /\ active' = [active EXCEPT ![on[r]] = @ + 1]
  /\ count' = [count EXCEPT ![on[r]] = @ + 1]
  /\ UNCHANGED <<lease, ledger, persisted, on, accounted, item, batch, closeVars, rowVars>>

\* Mutant of Leave: the request stays counted.
LeaveCounted(r) == pc' = [pc EXCEPT ![r] = "done"] /\ UNCHANGED active

\* Mutant of Leave: the request is counted off twice.
LeaveTwice(r) ==
  /\ pc' = [pc EXCEPT ![r] = "done"]
  /\ active' = [active EXCEPT ![on[r]] = @ - 2]

\* The finally block, which wakes a revocation that waits for the lease to be idle.
Leave(r) ==
  /\ pc' = [pc EXCEPT ![r] = "done"]
  /\ active' = [active EXCEPT ![on[r]] = @ - 1]

Conflicts(l, x) == \E y \in ledger[l] : y.id = x.id /\ y.tokens # x.tokens

\* recordUsage up to the write; "then" is "flushing" while the stream goes on and
\* "ending" for the last record of a request.
RecordUsage(r, x, then) ==
  LET l == on[r] IN
  /\ accounted' = [accounted EXCEPT ![r] = TRUE]
  /\ IF Conflicts(l, x)
     THEN Leave(r) /\ UNCHANGED <<ledger, item, batch>>
     ELSE /\ ledger' = [ledger EXCEPT ![l] = @ \union {x}]
          /\ IF x.id \in persisted[l]
             THEN /\ IF then = "ending" THEN Leave(r) ELSE UNCHANGED <<pc, active>>
                  /\ UNCHANGED <<item, batch>>
             ELSE /\ pc' = [pc EXCEPT ![r] = then]
                  /\ item' = [item EXCEPT ![r] = x.id]
                  /\ batch' = [batch EXCEPT ![r] =
                                 IF l \in Child THEN {x.id} ELSE Ids(l) \union {x.id}]
                  /\ UNCHANGED active
  /\ UNCHANGED <<lease, count, persisted, on, closeVars, rowVars>>

\* A terminal event of the stream, with upstream's id or the broker's.
TerminalEvent(r) ==
  /\ pc[r] = "upstream"
  /\ \E id \in ResponseId \union {r}, u \in Usage :
       RecordUsage(r, [id |-> id, tokens |-> u], "flushing")

\* The stream ends, breaks or is aborted: what has no record yet gets one.
StreamEnds(r) ==
  /\ pc[r] = "upstream"
  /\ IF accounted[r]
     THEN /\ Leave(r)
          /\ UNCHANGED <<lease, count, ledger, persisted, on, accounted, item, batch,
                         closeVars, rowVars>>
     ELSE RecordUsage(r, [id |-> r, tokens |-> 0], "ending")

Written(r) ==
  /\ item' = [item EXCEPT ![r] = None]
  /\ batch' = [batch EXCEPT ![r] = {}]

\* onUsageFinalized returns: recordChildInferenceUsage, or reconcileInferenceUsage
\* which merges the root ledger as it was when the callback was called.
Persist(r) ==
  LET l == on[r] IN
  /\ pc[r] \in {"flushing", "ending"}
  /\ rows' = [rows EXCEPT ![l] = @ \union batch[r]]
  /\ persisted' = [persisted EXCEPT ![l] = @ \union {item[r]}]
  /\ IF pc[r] = "ending" THEN Leave(r)
     ELSE pc' = [pc EXCEPT ![r] = "upstream"] /\ UNCHANGED active
  /\ Written(r)
  /\ UNCHANGED <<lease, count, ledger, on, accounted, closeVars, durable, lost, final>>

\* It throws, before its transaction or after it: the request ends, and its next
\* records are not written.
PersistFails(r) ==
  LET l == on[r] IN
  /\ StoreMayFail
  /\ pc[r] \in {"flushing", "ending"}
  /\ rows' \in {rows, [rows EXCEPT ![l] = @ \union batch[r]]}
  /\ lost' = [lost EXCEPT ![l] = @ \union {item[r]}]
  /\ Leave(r)
  /\ Written(r)
  /\ UNCHANGED <<lease, count, ledger, persisted, on, accounted, closeVars, durable, final>>

-----------------------------------------------------------------------------
(* The end of the job *)

\* requestAllChildCancellations, or the join that found every child ended: no
\* attempt is active any more.
CancelChildren ==
  /\ ~cancelling
  /\ cancelling' = TRUE
  /\ UNCHANGED <<leaseVars, requestVars, server, snapshot, broken, rowVars>>

\* close() revokes the leases it finds.
BeginClose ==
  /\ cancelling
  /\ server = "open"
  /\ server' = "closing"
  /\ snapshot' = {l \in Lease : lease[l] \in {"live", "revoking"}}
  /\ lease' = [l \in Lease |-> IF lease[l] = "live" THEN "revoking" ELSE lease[l]]
  /\ UNCHANGED <<active, count, ledger, persisted, requestVars, broken, cancelling, rowVars>>

\* A revocation threw: Promise.all rejects and the server keeps listening.
CloseFails ==
  /\ server = "closing"
  /\ broken # {}
  /\ server' = "open"
  /\ snapshot' = {}
  /\ broken' = {}
  /\ UNCHANGED <<leaseVars, requestVars, cancelling, rowVars>>

StopListening ==
  /\ server = "closing"
  /\ broken = {}
  /\ \A l \in snapshot : lease[l] = "gone"
  /\ server' = "draining"
  /\ snapshot' = {}
  /\ UNCHANGED <<leaseVars, requestVars, broken, cancelling, rowVars>>

\* server.close calls back when the last connection has ended.
EndClose ==
  /\ server = "draining"
  /\ \A r \in Request : pc[r] \in {"new", "done"}
  /\ server' = "closed"
  /\ UNCHANGED <<leaseVars, requestVars, snapshot, broken, cancelling, rowVars>>

\* Mutant of Finalize: without syncInferenceUsage.
FinalizeUnsynced ==
  /\ ~final
  /\ cancelling
  /\ \A l \in Lease : lease[l] \in {"none", "gone"}
  /\ final' = TRUE
  /\ UNCHANGED <<leaseVars, requestVars, closeVars, durable, rows, lost>>

\* Mutant of Finalize: the leases are not waited for.
FinalizeEarly ==
  /\ ~final
  /\ cancelling
  /\ rows' = [l \in Lease |-> IF l \in Root THEN rows[l] \union Ids(l) ELSE rows[l]]
  /\ final' = TRUE
  /\ UNCHANGED <<leaseVars, requestVars, closeVars, durable, lost>>

\* finalizeTerminalOutcome once nothing runs: syncInferenceUsage merges the root's
\* ledger, and validateTerminalInference compares the result with the rows.
Finalize ==
  /\ ~final
  /\ cancelling
  /\ \A l \in Lease : lease[l] \in {"none", "gone"}
  /\ rows' = [l \in Lease |-> IF l \in Root THEN rows[l] \union Ids(l) ELSE rows[l]]
  /\ final' = TRUE
  /\ UNCHANGED <<leaseVars, requestVars, closeVars, durable, lost>>

-----------------------------------------------------------------------------
Next ==
  \/ \E l \in Lease : CreateLease(l) \/ BeginRevoke(l) \/ FinishRevoke(l)
  \/ \E c \in Child : RecordLease(c) \/ RevokeRow(c)
  \/ \E r \in Request, l \in Lease : Arrive(r, l)
  \/ \E r \in Request :
       \/ Refuse(r) \/ Admit(r) \/ TerminalEvent(r) \/ StreamEnds(r)
       \/ Persist(r) \/ PersistFails(r)
  \/ CancelChildren \/ BeginClose \/ CloseFails \/ StopListening \/ EndClose \/ Finalize

Spec == Init /\ [][Next]_vars

\* An aborted stream ends, but upstream need not end one that is not aborted.
AbortedStreamEnds(r) == on[r] # None /\ lease[on[r]] = "revoking" /\ StreamEnds(r)

\* Timers fire and revocations go on when their lease is idle; a handler goes on when
\* its body has arrived, or Node's own timeout ends it, when its stream was aborted, and
\* when the store answered.
Fairness ==
  /\ \A l \in Lease : WF_vars(BeginRevoke(l) \/ FinishRevoke(l))
  /\ \A r \in Request :
       WF_vars(Admit(r) \/ Refuse(r) \/ AbortedStreamEnds(r) \/ Persist(r) \/ PersistFails(r))

FairSpec == Spec /\ Fairness

-----------------------------------------------------------------------------
(* Properties *)

\* Type correctness of the broker's maps and of the store's rows.
TypeOK ==
  /\ lease \in [Lease -> LeaseStatus]
  /\ active \in [Lease -> Nat]
  /\ count \in [Lease -> Nat]
  /\ ledger \in [Lease -> SUBSET Record]
  /\ persisted \in [Lease -> SUBSET Id]
  /\ pc \in [Request -> RequestPc]
  /\ on \in [Request -> Lease \union {None}]
  /\ accounted \in [Request -> BOOLEAN]
  /\ item \in [Request -> Id \union {None}]
  /\ batch \in [Request -> SUBSET Id]
  /\ server \in {"open", "closing", "draining", "closed"}
  /\ snapshot \subseteq Lease
  /\ broken \subseteq snapshot
  /\ cancelling \in BOOLEAN
  /\ durable \in [Child -> {"none", "active", "revoked"}]
  /\ rows \in [Lease -> SUBSET Id]
  /\ lost \in [Lease -> SUBSET Id]
  /\ final \in BOOLEAN

UsersOf(l) == {r \in Request : on[r] = l /\ pc[r] \in InFlight}

\* However the handlers interleave at their awaits, the requests upstream of a
\* lease, and of all child leases that are not being revoked, stay within the
\* limits the lease was created with (inference.ts:477-495): the counter the check
\* reads is the number of requests there are.
UpstreamWithinLimits ==
  /\ \A l \in Lease :
       /\ Cardinality(UsersOf(l)) <= ConcurrencyLimit(l)
       /\ l \in Child =>
            Cardinality({r \in Request : on[r] = l /\ pc[r] \in InFlight \union {"done"}})
              <= MaxRequests
  /\ Cardinality(UNION {UsersOf(c) : c \in {d \in Child : lease[d] = "live"}})
       <= AggregateLimit

\* Once a lease is gone or its row says revoked, nothing admitted under it is
\* upstream or being written, and each request it admitted was accounted, so the
\* root and the child that used it can be recorded as ended (inference.ts:402-422).
RevokedIsQuiet ==
  \A l \in Lease :
    (lease[l] = "gone" \/ (l \in Child /\ durable[l] = "revoked")) =>
      /\ UsersOf(l) = {}
      /\ \A r \in Request : (on[r] = l /\ pc[r] = "done") => accounted[r]

\* A record that no longer is being written is a row, or its write threw; in the
\* terminal ledger only the child records whose write threw are missing, and the
\* root's are all there (inference.ts:507-527, worker.ts syncInferenceUsage).
ObservedIsDurable ==
  \A l \in Lease :
    /\ Ids(l) \subseteq rows[l] \union lost[l] \union {item[r] : r \in UsersOf(l)}
    /\ final => Ids(l) \subseteq rows[l] \union (IF l \in Child THEN lost[l] ELSE {})

\* What a job reports as terminal does not change: no usage row is added after the
\* terminal ledger was compared with the rows (store.ts validateTerminalInference).
TerminalLedgerIsFinal == [][final => UNCHANGED <<rows, ledger>>]_vars

\* Every lease is revoked and deleted, however many requests, records and callers
\* its revocation races with.
LeaseEnds == <>[](\A l \in Lease : lease[l] \in {"none", "gone"})

=============================================================================
