------------------------- MODULE InferenceBrokerProofs -------------------------
(***************************************************************************)
(* Proofs about InferenceBroker for every set of leases and requests,      *)
(* every budget and every failing callback: the broker's counters are the  *)
(* requests there are, so a lease that is gone is quiet, and what was      *)
(* observed is stored before the ledger is final.                          *)
(***************************************************************************)
EXTENDS InferenceBroker, Sums

Writing == {"flushing", "ending"}

\* What an admitted request leaves behind: it stays counted in requestCount.
Served(l) == {r \in Request : on[r] = l /\ pc[r] \in InFlight \union {"done"}}

\* A request belongs to a lease from its arrival, and is accounted before it ends.
RequestsKnow ==
  /\ IsFiniteSet({r \in Request : pc[r] # "new"})
  /\ \A r \in Request : pc[r] \in {"reading"} \union InFlight => on[r] \in Lease
  /\ \A r \in Request : on[r] # None => pc[r] # "new" /\ lease[on[r]] # "none"
  /\ \A r \in Request : pc[r] \in Writing => accounted[r] /\ item[r] \in batch[r] /\ item[r] # None
  /\ \A r \in Request : pc[r] \notin Writing => item[r] = None
  /\ \A r \in Request : on[r] # None /\ pc[r] = "done" => accounted[r]

\* The counters that admission and revocation read are the numbers of requests.
Counted ==
  \A l \in Lease :
    /\ active[l] = Cardinality(UsersOf(l)) /\ active[l] <= ConcurrencyLimit(l)
    /\ count[l] = Cardinality(Served(l)) /\ (l \in Child => count[l] <= MaxRequests)

\* Nothing runs under a lease that is gone, and none is left in the end.
GoneIsQuiet ==
  /\ \A l \in Lease : lease[l] = "gone" => UsersOf(l) = {}
  /\ \A c \in Child : durable[c] = "revoked" => lease[c] = "gone"
  /\ final => \A l \in Lease : lease[l] \in {"none", "gone"}

\* Only close() has leases it waits for.
OnlyCloseWaits == server # "closing" => snapshot = {}

PersistedIsStored == \A l \in Lease : persisted[l] \subseteq rows[l]

BrokerInv ==
  /\ TypeOK
  /\ RequestsKnow
  /\ Counted
  /\ GoneIsQuiet
  /\ OnlyCloseWaits
  /\ PersistedIsStored
  /\ ObservedIsDurable

-----------------------------------------------------------------------------
LEMMA Constants ==
  /\ Child \subseteq Lease /\ Root \subseteq Lease /\ Root \intersect Child = {}
  /\ ResponseId \subseteq Id /\ Request \subseteq Id
  /\ None \notin Lease /\ None \notin Id
  /\ MaxRequests \in Nat \ {0}
  /\ \A l \in Lease : ConcurrencyLimit(l) \in Nat \ {0}
  BY BrokerAssumption DEF BrokerAssumption, Lease, Id, ConcurrencyLimit

\* The users of a lease and what it served are finite.
LEMMA UsersAreFinite ==
  ASSUME BrokerInv, NEW l \in Lease
  PROVE  /\ IsFiniteSet(UsersOf(l)) /\ IsFiniteSet(Served(l))
         /\ active[l] \in Nat /\ count[l] \in Nat
<1>1. /\ UsersOf(l) \subseteq {r \in Request : pc[r] # "new"}
      /\ Served(l) \subseteq {r \in Request : pc[r] # "new"}
  BY DEF UsersOf, Served, InFlight
<1>2. IsFiniteSet(UsersOf(l)) /\ IsFiniteSet(Served(l))
  BY <1>1, FS_Subset DEF BrokerInv, RequestsKnow
<1> QED  BY <1>2 DEF BrokerInv, TypeOK

\* A step of an admitted request moves it out of the users of its lease, or nowhere.
LEMMA RequestMoves ==
  ASSUME BrokerInv, NEW r \in Request, pc[r] \in InFlight,
         UNCHANGED <<lease, count, on>>,
         \/ Leave(r)
         \/ UNCHANGED active /\ \E s \in InFlight : pc' = [pc EXCEPT ![r] = s]
         \/ UNCHANGED <<active, pc>>
  PROVE  /\ pc' \in [Request -> RequestPc] /\ active' \in [Lease -> Nat]
         /\ \A q \in Request : q # r => pc'[q] = pc[q]
         /\ IsFiniteSet({q \in Request : pc'[q] # "new"})
         /\ \A l \in Lease : UsersOf(l)' \subseteq UsersOf(l)
         /\ \A l \in Lease : UsersOf(l) \subseteq UsersOf(l)' \union {r}
         /\ pc'[r] \in InFlight => UsersOf(on[r])' = UsersOf(on[r])
         /\ Counted'
<1>1. /\ on[r] \in Lease /\ pc \in [Request -> RequestPc] /\ active \in [Lease -> Nat]
      /\ {"done"} \union InFlight \subseteq RequestPc
  BY DEF BrokerInv, RequestsKnow, TypeOK, InFlight, RequestPc
<1>2. /\ pc' \in [Request -> RequestPc]
      /\ \A q \in Request : q # r => pc'[q] = pc[q]
      /\ pc'[r] \in InFlight \union {"done"}
  BY <1>1 DEF Leave
<1>3. {q \in Request : pc'[q] # "new"} = {q \in Request : pc[q] # "new"}
  BY <1>2 DEF InFlight
<1>4. \A l \in Lease : Served(l)' = Served(l)
  BY <1>2 DEF Served
<1>5. \A l \in Lease : l # on[r] => UsersOf(l)' = UsersOf(l)
  BY <1>2 DEF UsersOf
<1>6. r \in UsersOf(on[r])
  BY DEF UsersOf
<1>7. CASE Leave(r)
  <2>1. pc'[r] = "done" /\ active' = [active EXCEPT ![on[r]] = active[on[r]] - 1]
    BY <1>1, <1>7 DEF Leave
  <2>2. UsersOf(on[r])' = UsersOf(on[r]) \ {r}
    BY <1>2, <2>1 DEF UsersOf, InFlight
  <2>3. /\ IsFiniteSet(UsersOf(on[r])) /\ active[on[r]] = Cardinality(UsersOf(on[r]))
        /\ active[on[r]] \in Nat
    BY <1>1, UsersAreFinite DEF BrokerInv, Counted
  <2>4. Cardinality(UsersOf(on[r])') = active[on[r]] - 1 /\ active[on[r]] - 1 \in Nat
    <3>1. Cardinality(UsersOf(on[r]) \ {r}) = Cardinality(UsersOf(on[r])) - 1
      BY <1>6, <2>3, FS_RemoveElement
    <3>2. Cardinality(UsersOf(on[r]) \ {r}) \in Nat
      BY <2>3, FS_RemoveElement, FS_CardinalityType
    <3> QED  BY <2>2, <2>3, <3>1, <3>2
  <2>5. active' \in [Lease -> Nat]
    BY <1>1, <2>1, <2>4
  <2>6. ASSUME NEW l \in Lease
        PROVE  /\ active'[l] = Cardinality(UsersOf(l)') /\ active'[l] <= ConcurrencyLimit(l)
               /\ count'[l] = Cardinality(Served(l)') /\ (l \in Child => count'[l] <= MaxRequests)
    <3>1. active[l] \in Nat /\ active[l] = Cardinality(UsersOf(l)) /\ active[l] <= ConcurrencyLimit(l)
          /\ count[l] = Cardinality(Served(l)) /\ (l \in Child => count[l] <= MaxRequests)
      BY <1>1 DEF BrokerInv, Counted
    <3>2. CASE l = on[r]
      BY <1>1, <1>4, <2>1, <2>4, <3>1, <3>2, Constants
    <3>3. CASE l # on[r]
      BY <1>1, <1>4, <1>5, <2>1, <3>1, <3>3
    <3> QED  BY <3>2, <3>3
  <2> QED
    BY <1>1, <1>2, <1>3, <1>5, <2>1, <2>2, <2>5, <2>6
    DEF Counted, InFlight, BrokerInv, RequestsKnow
<1>8. CASE UNCHANGED active /\ pc'[r] \in InFlight
  <2>1. \A l \in Lease : UsersOf(l)' = UsersOf(l)
    BY <1>2, <1>5, <1>8 DEF UsersOf
  <2> QED
    BY <1>1, <1>2, <1>3, <1>4, <1>8, <2>1 DEF Counted, BrokerInv, RequestsKnow
<1>9. Leave(r) \/ (UNCHANGED active /\ pc'[r] \in InFlight)
  BY <1>1
<1> QED  BY <1>7, <1>8, <1>9

-----------------------------------------------------------------------------
(* Leases, cancellation and close(): no request moves. *)

LEMMA LeaseFrame ==
  ASSUME BrokerInv, TypeOK', OnlyCloseWaits',
         UNCHANGED <<active, count, ledger, persisted, requestVars, rows, lost, final>>,
         \A l \in Lease : lease[l] # "none" => lease'[l] # "none",
         \A l \in Lease : lease'[l] = "gone" => UsersOf(l) = {},
         \A c \in Child : durable'[c] = "revoked" => lease'[c] = "gone",
         final => UNCHANGED lease
  PROVE  BrokerInv'
<1>1. \A l \in Lease : UsersOf(l)' = UsersOf(l) /\ Served(l)' = Served(l) /\ Ids(l)' = Ids(l)
  BY DEF UsersOf, Served, Ids, requestVars
<1>2. RequestsKnow'
  BY DEF BrokerInv, RequestsKnow, TypeOK, requestVars
<1>3. Counted'
  BY <1>1 DEF BrokerInv, Counted
<1>4. GoneIsQuiet'
  BY <1>1 DEF BrokerInv, GoneIsQuiet
<1>5. PersistedIsStored' /\ ObservedIsDurable'
  BY <1>1 DEF BrokerInv, PersistedIsStored, ObservedIsDurable, requestVars
<1> QED  BY <1>2, <1>3, <1>4, <1>5 DEF BrokerInv

LEMMA RowIsKnown ==
  ASSUME BrokerInv, NEW l \in Lease
  PROVE  /\ WithRevokedRow(l) \in [Child -> {"none", "active", "revoked"}]
         /\ \A c \in Child : c # l => WithRevokedRow(l)[c] = durable[c]
  BY DEF BrokerInv, TypeOK, WithRevokedRow

LEMMA CreateLeaseStep ==
  ASSUME BrokerInv, NEW l \in Lease, CreateLease(l)
  PROVE  BrokerInv'
<1>1. TypeOK' /\ OnlyCloseWaits'
  BY DEF BrokerInv, OnlyCloseWaits, TypeOK, CreateLease,
         requestVars, closeVars, rowVars, LeaseStatus
<1>2. \A k \in Lease : lease'[k] = IF k = l THEN "live" ELSE lease[k]
  BY DEF BrokerInv, OnlyCloseWaits, TypeOK, CreateLease
<1> QED
  BY <1>1, <1>2, LeaseFrame, Constants DEF CreateLease, BrokerInv, GoneIsQuiet, closeVars, rowVars

LEMMA RecordLeaseStep ==
  ASSUME BrokerInv, NEW c \in Child, RecordLease(c)
  PROVE  BrokerInv'
<1>1. TypeOK' /\ OnlyCloseWaits'
  BY DEF BrokerInv, OnlyCloseWaits, TypeOK, RecordLease, leaseVars, requestVars, closeVars
<1>2. \A k \in Child : durable'[k] = IF k = c THEN "active" ELSE durable[k]
  BY DEF BrokerInv, OnlyCloseWaits, TypeOK, RecordLease
<1> QED
  BY <1>1, <1>2, LeaseFrame, Constants DEF RecordLease, BrokerInv, GoneIsQuiet, leaseVars, closeVars

LEMMA BeginRevokeStep ==
  ASSUME BrokerInv, NEW l \in Lease, BeginRevoke(l)
  PROVE  BrokerInv'
<1>1. TypeOK' /\ OnlyCloseWaits'
  BY DEF BrokerInv, OnlyCloseWaits, TypeOK, BeginRevoke,
         requestVars, closeVars, rowVars, LeaseStatus
<1>2. \A k \in Lease : lease'[k] = IF k = l THEN "revoking" ELSE lease[k]
  BY DEF BrokerInv, OnlyCloseWaits, TypeOK, BeginRevoke
<1>3. ~final
  BY DEF BrokerInv, GoneIsQuiet, BeginRevoke
<1> QED
  BY <1>1, <1>2, <1>3, LeaseFrame, Constants
  DEF BeginRevoke, BrokerInv, GoneIsQuiet, closeVars, rowVars

\* waitForIdle has seen the counter at zero: the lease has no user.
LEMMA FinishRevokeStep ==
  ASSUME BrokerInv, NEW l \in Lease, FinishRevoke(l)
  PROVE  BrokerInv'
<1>1. \A k \in Lease : lease'[k] = IF k = l THEN "gone" ELSE lease[k]
  BY DEF BrokerInv, OnlyCloseWaits, TypeOK, FinishRevoke
<1>2. durable' = WithRevokedRow(l) \/ UNCHANGED durable
  BY DEF FinishRevoke
<1>3. /\ durable' \in [Child -> {"none", "active", "revoked"}]
      /\ \A c \in Child : c # l => durable'[c] = durable[c]
  BY <1>2, RowIsKnown DEF BrokerInv, TypeOK
<1>4. broken' \subseteq snapshot
  BY DEF FinishRevoke, BrokerInv, TypeOK
<1>5. TypeOK' /\ OnlyCloseWaits'
  BY <1>3, <1>4 DEF BrokerInv, OnlyCloseWaits, TypeOK, FinishRevoke, requestVars, LeaseStatus
<1>6. UsersOf(l) = {}
  BY UsersAreFinite, FS_EmptySet DEF BrokerInv, Counted, FinishRevoke
<1>7. ~final
  BY DEF BrokerInv, GoneIsQuiet, FinishRevoke
<1> QED
  BY <1>1, <1>3, <1>5, <1>6, <1>7, LeaseFrame, Constants DEF FinishRevoke, BrokerInv, GoneIsQuiet

LEMMA RevokeRowStep ==
  ASSUME BrokerInv, NEW c \in Child, RevokeRow(c)
  PROVE  BrokerInv'
<1>1. c \in Lease
  BY Constants
<1>2. /\ durable' \in [Child -> {"none", "active", "revoked"}]
      /\ \A k \in Child : k # c => durable'[k] = durable[k]
  BY <1>1, RowIsKnown DEF RevokeRow
<1>3. TypeOK' /\ OnlyCloseWaits'
  BY <1>2 DEF BrokerInv, OnlyCloseWaits, TypeOK, RevokeRow, leaseVars, requestVars, closeVars
<1> QED
  BY <1>2, <1>3, LeaseFrame, Constants DEF RevokeRow, BrokerInv, GoneIsQuiet, leaseVars

LEMMA CloseStep ==
  ASSUME BrokerInv,
         CancelChildren \/ BeginClose \/ CloseFails \/ StopListening \/ EndClose
  PROVE  BrokerInv'
<1>1. CASE CancelChildren \/ CloseFails \/ StopListening \/ EndClose
  <2>1. TypeOK' /\ OnlyCloseWaits'
    BY <1>1 DEF BrokerInv, OnlyCloseWaits, TypeOK, CancelChildren, CloseFails, StopListening,
                EndClose, leaseVars, requestVars, rowVars
  <2>2. UNCHANGED <<leaseVars, requestVars, rowVars>>
    BY <1>1 DEF CancelChildren, CloseFails, StopListening, EndClose
  <2> QED
    BY <2>1, <2>2, LeaseFrame, Constants DEF BrokerInv, GoneIsQuiet, leaseVars, rowVars
<1>2. CASE BeginClose
  <2>1. \A l \in Lease : lease'[l] = IF lease[l] = "live" THEN "revoking" ELSE lease[l]
    BY <1>2 DEF BeginClose
  <2>2. lease' \in [Lease -> LeaseStatus]
    BY <1>2 DEF BeginClose, BrokerInv, TypeOK, LeaseStatus
  <2>3. broken' \subseteq snapshot' /\ snapshot' \subseteq Lease
    BY <1>2 DEF BeginClose, BrokerInv, OnlyCloseWaits, TypeOK
  <2>4. TypeOK' /\ OnlyCloseWaits'
    BY <1>2, <2>2, <2>3 DEF BrokerInv, OnlyCloseWaits, TypeOK, BeginClose, requestVars, rowVars
  <2>5. final => UNCHANGED lease
    BY <1>2, <2>1, <2>2 DEF BrokerInv, GoneIsQuiet, TypeOK
  <2> QED
    BY <1>2, <2>1, <2>4, <2>5, LeaseFrame, Constants
    DEF BeginClose, BrokerInv, GoneIsQuiet, rowVars
<1> QED  BY <1>1, <1>2

-----------------------------------------------------------------------------
(* The handler of a request *)

LEMMA ArriveStep ==
  ASSUME BrokerInv, NEW r \in Request, NEW l \in Lease, Arrive(r, l)
  PROVE  BrokerInv'
<1>1. /\ pc[r] = "new" /\ on[r] = None /\ item[r] = None /\ lease[l] = "live"
      /\ pc \in [Request -> RequestPc] /\ on \in [Request -> Lease \union {None}]
  BY DEF BrokerInv, RequestsKnow, TypeOK, Arrive, Writing
<1>2. /\ pc' = [pc EXCEPT ![r] = "reading"] /\ on' = [on EXCEPT ![r] = l]
      /\ UNCHANGED <<leaseVars, accounted, item, batch, closeVars, rowVars>>
  BY DEF Arrive
<1>3. /\ \A q \in Request : q # r => pc'[q] = pc[q] /\ on'[q] = on[q]
      /\ pc'[r] = "reading" /\ on'[r] = l
      /\ pc' \in [Request -> RequestPc] /\ on' \in [Request -> Lease \union {None}]
  BY <1>1, <1>2 DEF RequestPc
<1>4. \A k \in Lease : UsersOf(k)' = UsersOf(k) /\ Served(k)' = Served(k) /\ Ids(k)' = Ids(k)
  <2>1. \A k \in Lease : UsersOf(k)' = UsersOf(k) /\ Served(k)' = Served(k)
    BY <1>1, <1>3 DEF UsersOf, Served, InFlight
  <2> QED  BY <1>2, <2>1 DEF Ids, leaseVars
<1>5. TypeOK'
  BY <1>2, <1>3 DEF BrokerInv, TypeOK, leaseVars, closeVars, rowVars
<1>6. IsFiniteSet({q \in Request : pc'[q] # "new"})
  <2>1. {q \in Request : pc'[q] # "new"} = {q \in Request : pc[q] # "new"} \union {r}
    BY <1>3
  <2>2. IsFiniteSet({q \in Request : pc[q] # "new"})
    BY DEF BrokerInv, RequestsKnow
  <2>3. IsFiniteSet({q \in Request : pc[q] # "new"} \union {r})
    BY <2>2, FS_AddElement
  <2> QED  BY <2>1, <2>3
<1>7. RequestsKnow'
  <2>1. \A q \in Request : pc'[q] \in {"reading"} \union InFlight => on'[q] \in Lease
    BY <1>3 DEF BrokerInv, RequestsKnow
  <2>2. \A q \in Request : on'[q] # None => pc'[q] # "new" /\ lease'[on'[q]] # "none"
    BY <1>1, <1>2, <1>3 DEF BrokerInv, RequestsKnow, leaseVars
  <2>3. \A q \in Request : pc'[q] \in Writing =>
          accounted'[q] /\ item'[q] \in batch'[q] /\ item'[q] # None
    BY <1>1, <1>2, <1>3 DEF BrokerInv, RequestsKnow, Writing
  <2>4. \A q \in Request : pc'[q] \notin Writing => item'[q] = None
    BY <1>1, <1>2, <1>3 DEF BrokerInv, RequestsKnow, Writing
  <2>5. \A q \in Request : on'[q] # None /\ pc'[q] = "done" => accounted'[q]
    BY <1>1, <1>2, <1>3 DEF BrokerInv, RequestsKnow
  <2> QED  BY <1>6, <2>1, <2>2, <2>3, <2>4, <2>5 DEF RequestsKnow
<1>8. Counted' /\ GoneIsQuiet'
  BY <1>2, <1>4 DEF BrokerInv, Counted, GoneIsQuiet, leaseVars, rowVars
<1>9. OnlyCloseWaits' /\ PersistedIsStored' /\ ObservedIsDurable'
  BY <1>2, <1>4 DEF BrokerInv, OnlyCloseWaits, PersistedIsStored, ObservedIsDurable,
                    leaseVars, closeVars, rowVars
<1> QED  BY <1>5, <1>7, <1>8, <1>9 DEF BrokerInv

LEMMA RefuseStep ==
  ASSUME BrokerInv, NEW r \in Request, Refuse(r)
  PROVE  BrokerInv'
<1>1. /\ pc[r] = "reading" /\ item[r] = None
      /\ pc \in [Request -> RequestPc] /\ on \in [Request -> Lease \union {None}]
  BY DEF BrokerInv, RequestsKnow, TypeOK, Refuse, Writing
<1>2. /\ pc' = [pc EXCEPT ![r] = "done"] /\ on' = [on EXCEPT ![r] = None]
      /\ UNCHANGED <<leaseVars, accounted, item, batch, closeVars, rowVars>>
  BY DEF Refuse
<1>3. /\ \A q \in Request : q # r => pc'[q] = pc[q] /\ on'[q] = on[q]
      /\ pc'[r] = "done" /\ on'[r] = None
      /\ pc' \in [Request -> RequestPc] /\ on' \in [Request -> Lease \union {None}]
  BY <1>1, <1>2 DEF RequestPc
<1>4. \A k \in Lease : UsersOf(k)' = UsersOf(k) /\ Served(k)' = Served(k) /\ Ids(k)' = Ids(k)
  <2>1. \A k \in Lease : UsersOf(k)' = UsersOf(k) /\ Served(k)' = Served(k)
    BY <1>1, <1>3, Constants DEF UsersOf, Served, InFlight
  <2> QED  BY <1>2, <2>1 DEF Ids, leaseVars
<1>5. TypeOK'
  BY <1>2, <1>3 DEF BrokerInv, TypeOK, leaseVars, closeVars, rowVars
<1>6. {q \in Request : pc'[q] # "new"} = {q \in Request : pc[q] # "new"}
  BY <1>1, <1>3
<1>7. RequestsKnow'
  <2>1. \A q \in Request : pc'[q] \in {"reading"} \union InFlight => on'[q] \in Lease
    BY <1>3 DEF BrokerInv, RequestsKnow, InFlight
  <2>2. \A q \in Request : on'[q] # None => pc'[q] # "new" /\ lease'[on'[q]] # "none"
    BY <1>1, <1>2, <1>3 DEF BrokerInv, RequestsKnow, leaseVars
  <2>3. \A q \in Request : pc'[q] \in Writing =>
          accounted'[q] /\ item'[q] \in batch'[q] /\ item'[q] # None
    BY <1>1, <1>2, <1>3 DEF BrokerInv, RequestsKnow, Writing
  <2>4. \A q \in Request : pc'[q] \notin Writing => item'[q] = None
    BY <1>1, <1>2, <1>3 DEF BrokerInv, RequestsKnow, Writing
  <2>5. \A q \in Request : on'[q] # None /\ pc'[q] = "done" => accounted'[q]
    BY <1>1, <1>2, <1>3 DEF BrokerInv, RequestsKnow
  <2>6. IsFiniteSet({q \in Request : pc'[q] # "new"})
    BY <1>6 DEF BrokerInv, RequestsKnow
  <2> QED  BY <2>1, <2>2, <2>3, <2>4, <2>5, <2>6 DEF RequestsKnow
<1>8. Counted' /\ GoneIsQuiet'
  BY <1>2, <1>4 DEF BrokerInv, Counted, GoneIsQuiet, leaseVars, rowVars
<1>9. OnlyCloseWaits' /\ PersistedIsStored' /\ ObservedIsDurable'
  BY <1>2, <1>4 DEF BrokerInv, OnlyCloseWaits, PersistedIsStored, ObservedIsDurable,
                    leaseVars, closeVars, rowVars
<1> QED  BY <1>5, <1>7, <1>8, <1>9 DEF BrokerInv

\* The check and the increment are one step: the counter stays below its limit.
LEMMA AdmitStep ==
  ASSUME BrokerInv, NEW r \in Request, Admit(r)
  PROVE  BrokerInv'
<1> DEFINE m == on[r]
<1>1. /\ pc[r] = "reading" /\ item[r] = None /\ m \in Lease /\ lease[m] = "live"
      /\ active[m] < ConcurrencyLimit(m) /\ (m \in Child => count[m] < MaxRequests)
      /\ pc \in [Request -> RequestPc]
      /\ active \in [Lease -> Nat] /\ count \in [Lease -> Nat]
  BY DEF BrokerInv, RequestsKnow, TypeOK, Admit, WithinBudget, Writing
<1>2. /\ pc' = [pc EXCEPT ![r] = "upstream"]
      /\ active' = [active EXCEPT ![m] = active[m] + 1]
      /\ count' = [count EXCEPT ![m] = count[m] + 1]
      /\ UNCHANGED <<lease, ledger, persisted, on, accounted, item, batch, closeVars, rowVars>>
  BY DEF Admit
<1>3. /\ \A q \in Request : q # r => pc'[q] = pc[q]
      /\ pc'[r] = "upstream" /\ pc' \in [Request -> RequestPc]
      /\ active' \in [Lease -> Nat] /\ count' \in [Lease -> Nat]
  BY <1>1, <1>2 DEF RequestPc
<1>4. /\ UsersOf(m)' = UsersOf(m) \union {r} /\ r \notin UsersOf(m)
      /\ Served(m)' = Served(m) \union {r} /\ r \notin Served(m)
      /\ \A k \in Lease : k # m => UsersOf(k)' = UsersOf(k) /\ Served(k)' = Served(k)
      /\ \A k \in Lease : UsersOf(k) \subseteq UsersOf(k)'
  <2>1. UNCHANGED on
    BY <1>2
  <2> QED  BY <1>1, <1>3, <2>1 DEF UsersOf, Served, InFlight
<1>5. /\ Cardinality(UsersOf(m)') = active[m] + 1
      /\ Cardinality(Served(m)') = count[m] + 1
  <2>1. IsFiniteSet(UsersOf(m)) /\ IsFiniteSet(Served(m))
    BY <1>1, UsersAreFinite
  <2>2. Cardinality(UsersOf(m)) = active[m] /\ Cardinality(Served(m)) = count[m]
    BY <1>1 DEF BrokerInv, Counted
  <2>3. /\ Cardinality(UsersOf(m) \union {r}) = Cardinality(UsersOf(m)) + 1
        /\ Cardinality(Served(m) \union {r}) = Cardinality(Served(m)) + 1
    BY <1>4, <2>1, FS_AddElement
  <2> QED  BY ONLY <1>4, <2>2, <2>3
<1>6. Counted'
  <2> SUFFICES ASSUME NEW l \in Lease
               PROVE  /\ active'[l] = Cardinality(UsersOf(l)') /\ active'[l] <= ConcurrencyLimit(l)
                      /\ count'[l] = Cardinality(Served(l)') /\ (l \in Child => count'[l] <= MaxRequests)
    BY DEF Counted
  <2>1. CASE l = m
    BY <1>1, <1>2, <1>5, <2>1, Constants
  <2>2. CASE l # m
    BY <1>1, <1>2, <1>4, <2>2 DEF BrokerInv, Counted
  <2> QED  BY <2>1, <2>2
<1>7. TypeOK'
  BY <1>2, <1>3 DEF BrokerInv, TypeOK, closeVars, rowVars
<1>8. RequestsKnow'
  <2>1. {q \in Request : pc'[q] # "new"} = {q \in Request : pc[q] # "new"}
    BY <1>1, <1>3
  <2>2. \A q \in Request : pc'[q] \in {"reading"} \union InFlight => on'[q] \in Lease
    BY <1>1, <1>2, <1>3 DEF BrokerInv, RequestsKnow
  <2>3. \A q \in Request : on'[q] # None => pc'[q] # "new" /\ lease'[on'[q]] # "none"
    BY <1>1, <1>2, <1>3 DEF BrokerInv, RequestsKnow
  <2>4. \A q \in Request : pc'[q] \in Writing =>
          accounted'[q] /\ item'[q] \in batch'[q] /\ item'[q] # None
    BY <1>1, <1>2, <1>3 DEF BrokerInv, RequestsKnow, Writing
  <2>5. \A q \in Request : pc'[q] \notin Writing => item'[q] = None
    BY <1>1, <1>2, <1>3 DEF BrokerInv, RequestsKnow, Writing
  <2>6. \A q \in Request : on'[q] # None /\ pc'[q] = "done" => accounted'[q]
    BY <1>1, <1>2, <1>3 DEF BrokerInv, RequestsKnow
  <2>7. IsFiniteSet({q \in Request : pc'[q] # "new"})
    BY <2>1 DEF BrokerInv, RequestsKnow
  <2> QED  BY <2>2, <2>3, <2>4, <2>5, <2>6, <2>7 DEF RequestsKnow
<1>9. GoneIsQuiet'
  BY <1>1, <1>2, <1>4 DEF BrokerInv, GoneIsQuiet, rowVars
<1>10. ~final
  BY <1>1 DEF BrokerInv, GoneIsQuiet
<1>11. \A l \in Lease : Ids(l)' = Ids(l)
  BY <1>2 DEF Ids
<1>12. OnlyCloseWaits' /\ PersistedIsStored' /\ ObservedIsDurable'
  BY <1>2, <1>4, <1>10, <1>11
  DEF BrokerInv, OnlyCloseWaits, PersistedIsStored, ObservedIsDurable, closeVars, rowVars
<1> QED  BY <1>6, <1>7, <1>8, <1>9, <1>12 DEF BrokerInv

\* While a request is in flight its lease is not gone, nor is the ledger final.
LEMMA InFlightIsHeld ==
  ASSUME BrokerInv, NEW r \in Request, pc[r] \in InFlight
  PROVE  /\ on[r] \in Lease /\ lease[on[r]] \notin {"none", "gone"}
         /\ ~final /\ on[r] # None
<1>1. on[r] \in Lease /\ r \in UsersOf(on[r])
  BY DEF BrokerInv, RequestsKnow, UsersOf
<1>2. lease[on[r]] # "none" /\ lease[on[r]] # "gone"
  BY <1>1, Constants DEF BrokerInv, RequestsKnow, GoneIsQuiet
<1> QED  BY <1>1, <1>2, Constants DEF BrokerInv, GoneIsQuiet

\* What a step of an admitted request leaves true of the requests and the leases,
\* whatever it records.
LEMMA HandlerFrame ==
  ASSUME BrokerInv, NEW r \in Request, pc[r] \in InFlight,
         UNCHANGED <<lease, count, on, closeVars, durable, final>>,
         \/ Leave(r)
         \/ UNCHANGED active /\ \E s \in InFlight : pc' = [pc EXCEPT ![r] = s]
         \/ UNCHANGED <<active, pc>>,
         \A q \in Request : q # r =>
           accounted'[q] = accounted[q] /\ item'[q] = item[q] /\ batch'[q] = batch[q],
         pc'[r] \in Writing => accounted'[r] /\ item'[r] \in batch'[r] /\ item'[r] # None,
         pc'[r] \notin Writing => item'[r] = None,
         pc'[r] = "done" => accounted'[r]
  PROVE  RequestsKnow' /\ Counted' /\ GoneIsQuiet' /\ OnlyCloseWaits'
<1>1. /\ pc' \in [Request -> RequestPc] /\ active' \in [Lease -> Nat]
      /\ \A q \in Request : q # r => pc'[q] = pc[q]
      /\ IsFiniteSet({q \in Request : pc'[q] # "new"})
      /\ \A l \in Lease : UsersOf(l)' \subseteq UsersOf(l)
      /\ Counted'
  BY RequestMoves
<1>2. pc'[r] \in InFlight \union {"done"}
  BY DEF Leave, BrokerInv, TypeOK, RequestPc
<1>3. RequestsKnow'
  <2>1. \A q \in Request : pc'[q] \in {"reading"} \union InFlight => on'[q] \in Lease
    BY <1>1, InFlightIsHeld DEF BrokerInv, RequestsKnow
  <2>2. \A q \in Request : on'[q] # None => pc'[q] # "new" /\ lease'[on'[q]] # "none"
    BY <1>1, <1>2 DEF BrokerInv, RequestsKnow, InFlight
  <2>3. \A q \in Request : pc'[q] \in Writing =>
          accounted'[q] /\ item'[q] \in batch'[q] /\ item'[q] # None
    BY <1>1 DEF BrokerInv, RequestsKnow
  <2>4. \A q \in Request : pc'[q] \notin Writing => item'[q] = None
    BY <1>1 DEF BrokerInv, RequestsKnow
  <2>5. \A q \in Request : on'[q] # None /\ pc'[q] = "done" => accounted'[q]
    BY <1>1 DEF BrokerInv, RequestsKnow
  <2> QED  BY <1>1, <2>1, <2>2, <2>3, <2>4, <2>5 DEF RequestsKnow
<1>4. GoneIsQuiet' /\ OnlyCloseWaits'
  BY <1>1 DEF BrokerInv, GoneIsQuiet, OnlyCloseWaits, closeVars
<1> QED  BY <1>1, <1>3, <1>4

\* recordUsage: a conflicting record ends the request, a new one is written.
LEMMA RecordUsageStep ==
  ASSUME BrokerInv, NEW r \in Request, NEW x \in Record, NEW s \in Writing,
         pc[r] = "upstream", RecordUsage(r, x, s)
  PROVE  BrokerInv'
<1> DEFINE m == on[r]
<1>1. /\ m \in Lease /\ ~final /\ item[r] = None /\ pc[r] \in InFlight
      /\ lease[m] # "gone"
  BY InFlightIsHeld DEF BrokerInv, RequestsKnow, Writing, InFlight
<1>2. /\ accounted' = [accounted EXCEPT ![r] = TRUE]
      /\ UNCHANGED <<lease, count, persisted, on, closeVars, rowVars>>
  BY DEF RecordUsage
<1>3. /\ accounted' \in [Request -> BOOLEAN] /\ accounted'[r]
      /\ \A q \in Request : q # r => accounted'[q] = accounted[q]
  BY <1>2 DEF BrokerInv, TypeOK
<1>4. UNCHANGED <<durable, final, rows, lost>>
  BY <1>2 DEF rowVars
<1>5. x.id \in Id /\ x.id # None
  BY Constants DEF Record
<1>6. CASE Leave(r) /\ UNCHANGED <<ledger, item, batch>>
  <2>1. pc'[r] = "done"
    BY <1>6 DEF Leave, BrokerInv, TypeOK
  <2>2. RequestsKnow' /\ Counted' /\ GoneIsQuiet' /\ OnlyCloseWaits'
    BY <1>1, <1>2, <1>3, <1>4, <1>6, <2>1, HandlerFrame DEF Writing
  <2>3. /\ pc' \in [Request -> RequestPc] /\ active' \in [Lease -> Nat]
        /\ \A l \in Lease : UsersOf(l) \subseteq UsersOf(l)' \union {r}
    BY <1>1, <1>2, <1>6, RequestMoves
  <2>4. TypeOK'
    BY <1>2, <1>3, <1>4, <1>6, <2>3 DEF BrokerInv, TypeOK, closeVars
  <2>5. \A l \in Lease : Ids(l)' = Ids(l) /\ Ids(l) \subseteq Id
    BY <1>6 DEF Ids, BrokerInv, TypeOK, Record
  <2>6. ASSUME NEW l \in Lease, NEW i \in Ids(l)'
        PROVE  i \in rows[l] \union lost[l] \union {item[q] : q \in UsersOf(l)'}
    <3>1. i \in rows[l] \union lost[l] \union {item[q] : q \in UsersOf(l)} /\ i # None
      BY <2>5, <2>6, Constants DEF BrokerInv, ObservedIsDurable
    <3> QED  BY <1>1, <2>3, <3>1
  <2>7. ObservedIsDurable'
    BY <1>1, <1>4, <1>6, <2>6 DEF ObservedIsDurable
  <2>8. PersistedIsStored'
    BY <1>2, <1>4 DEF BrokerInv, PersistedIsStored
  <2> QED  BY <2>2, <2>4, <2>7, <2>8 DEF BrokerInv
<1>7. ASSUME ledger' = [ledger EXCEPT ![m] = ledger[m] \union {x}]
      PROVE  /\ ledger' \in [Lease -> SUBSET Record]
             /\ \A l \in Lease : l # m => Ids(l)' = Ids(l)
             /\ Ids(m)' = Ids(m) \union {x.id}
             /\ \A l \in Lease : Ids(l) \subseteq Id
  <2>1. on' = on /\ \A l \in Lease : ledger[l] \subseteq Record
    BY <1>2 DEF BrokerInv, TypeOK
  <2>2. /\ ledger' \in [Lease -> SUBSET Record]
        /\ ledger'[m] = ledger[m] \union {x}
        /\ \A l \in Lease : l # m => ledger'[l] = ledger[l]
    BY <1>1, <1>7, <2>1 DEF BrokerInv, TypeOK
  <2>3. Ids(m)' = Ids(m) \union {x.id}
    BY <2>1, <2>2 DEF Ids
  <2> QED  BY <2>1, <2>2, <2>3 DEF Ids, Record
<1>8. CASE /\ ledger' = [ledger EXCEPT ![m] = ledger[m] \union {x}]
           /\ x.id \in persisted[m]
           /\ IF s = "ending" THEN Leave(r) ELSE UNCHANGED <<pc, active>>
           /\ UNCHANGED <<item, batch>>
  <2>1. pc'[r] = "done" \/ pc'[r] = "upstream"
    BY <1>8 DEF Leave, BrokerInv, TypeOK
  <2>2. Leave(r) \/ UNCHANGED <<active, pc>>
    BY <1>8
  <2>3. RequestsKnow' /\ Counted' /\ GoneIsQuiet' /\ OnlyCloseWaits'
    BY <1>1, <1>2, <1>3, <1>4, <1>8, <2>1, <2>2, HandlerFrame DEF Writing
  <2>4. /\ pc' \in [Request -> RequestPc] /\ active' \in [Lease -> Nat]
        /\ \A l \in Lease : UsersOf(l) \subseteq UsersOf(l)' \union {r}
    BY <1>1, <1>2, <2>2, RequestMoves
  <2>5. TypeOK'
    BY <1>2, <1>3, <1>4, <1>7, <1>8, <2>4 DEF BrokerInv, TypeOK, closeVars
  <2>6. ASSUME NEW l \in Lease, NEW i \in Ids(l)'
        PROVE  i \in rows[l] \union lost[l] \union {item[q] : q \in UsersOf(l)'}
    <3>1. CASE i \in Ids(l)
      <4>1. i \in rows[l] \union lost[l] \union {item[q] : q \in UsersOf(l)} /\ i # None
        BY <1>7, <1>8, <3>1, Constants DEF BrokerInv, ObservedIsDurable
      <4> QED  BY <1>1, <2>4, <4>1
    <3>2. CASE i \notin Ids(l)
      <4>1. l = m /\ i = x.id
        BY <1>2, <1>7, <1>8, <2>6, <3>2
      <4> QED  BY <1>1, <1>8, <4>1 DEF BrokerInv, PersistedIsStored
    <3> QED  BY <3>1, <3>2
  <2>7. ObservedIsDurable'
    BY <1>1, <1>4, <1>8, <2>6 DEF ObservedIsDurable
  <2>8. PersistedIsStored'
    BY <1>2, <1>4 DEF BrokerInv, PersistedIsStored
  <2> QED  BY <2>3, <2>5, <2>7, <2>8 DEF BrokerInv
<1>9. CASE /\ ledger' = [ledger EXCEPT ![m] = ledger[m] \union {x}]
           /\ pc' = [pc EXCEPT ![r] = s]
           /\ item' = [item EXCEPT ![r] = x.id]
           /\ batch' = [batch EXCEPT ![r] =
                          IF m \in Child THEN {x.id} ELSE Ids(m) \union {x.id}]
           /\ UNCHANGED active
  <2>1. s \in InFlight /\ pc'[r] = s /\ item'[r] = x.id
    BY <1>9 DEF Writing, InFlight, BrokerInv, TypeOK
  <2>2. /\ item' \in [Request -> Id \union {None}] /\ batch' \in [Request -> SUBSET Id]
        /\ \A q \in Request : q # r => item'[q] = item[q] /\ batch'[q] = batch[q]
        /\ item'[r] \in batch'[r]
    BY <1>1, <1>5, <1>7, <1>9 DEF BrokerInv, TypeOK
  <2>3. RequestsKnow' /\ Counted' /\ GoneIsQuiet' /\ OnlyCloseWaits'
    <3>1. UNCHANGED <<lease, count, on, closeVars, durable, final>>
      BY <1>2, <1>4
    <3>2. UNCHANGED active /\ \E t \in InFlight : pc' = [pc EXCEPT ![r] = t]
      BY <1>9, <2>1
    <3>3. /\ pc'[r] \in Writing => accounted'[r] /\ item'[r] \in batch'[r] /\ item'[r] # None
          /\ pc'[r] \notin Writing => item'[r] = None
          /\ pc'[r] = "done" => accounted'[r]
      BY <1>3, <1>5, <2>1, <2>2 DEF Writing
    <3> QED  BY <1>1, <1>3, <2>2, <3>1, <3>2, <3>3, HandlerFrame
  <2>4. /\ pc' \in [Request -> RequestPc] /\ active' \in [Lease -> Nat]
        /\ \A l \in Lease : UsersOf(l) \subseteq UsersOf(l)' \union {r}
        /\ UsersOf(m)' = UsersOf(m)
    BY <1>1, <1>2, <1>9, <2>1, RequestMoves
  <2>5. TypeOK'
    BY <1>2, <1>3, <1>4, <1>7, <1>9, <2>2, <2>4 DEF BrokerInv, TypeOK, closeVars
  <2>6. ASSUME NEW l \in Lease, NEW i \in Ids(l)'
        PROVE  i \in rows[l] \union lost[l] \union {item'[q] : q \in UsersOf(l)'}
    <3>1. CASE i \in Ids(l)
      <4>1. i \in rows[l] \union lost[l] \union {item[q] : q \in UsersOf(l)} /\ i # None
        BY <1>7, <1>9, <3>1, Constants DEF BrokerInv, ObservedIsDurable
      <4>2. \A q \in UsersOf(l) : item[q] = i => q # r /\ q \in UsersOf(l)' /\ item'[q] = i
        BY <1>1, <2>2, <2>4, <4>1 DEF UsersOf
      <4> QED  BY <4>1, <4>2
    <3>2. CASE i \notin Ids(l)
      <4>1. l = m /\ i = x.id
        BY <1>2, <1>7, <1>9, <2>6, <3>2
      <4>2. r \in UsersOf(m)'
        BY <1>1, <2>4 DEF UsersOf
      <4> QED  BY <1>2, <2>1, <4>1, <4>2
    <3> QED  BY <3>1, <3>2
  <2>7. ObservedIsDurable'
    BY <1>1, <1>4, <1>9, <2>6 DEF ObservedIsDurable
  <2>8. PersistedIsStored'
    BY <1>2, <1>4 DEF BrokerInv, PersistedIsStored
  <2> QED  BY <2>3, <2>5, <2>7, <2>8 DEF BrokerInv
<1> QED  BY <1>6, <1>8, <1>9 DEF RecordUsage

LEMMA TerminalEventStep ==
  ASSUME BrokerInv, NEW r \in Request, TerminalEvent(r)
  PROVE  BrokerInv'
<1>1. PICK i \in ResponseId \union {r}, u \in Usage :
        RecordUsage(r, [id |-> i, tokens |-> u], "flushing")
  BY DEF TerminalEvent
<1>2. [id |-> i, tokens |-> u] \in Record
  BY Constants DEF Record
<1> QED  BY <1>1, <1>2, RecordUsageStep DEF TerminalEvent, Writing

\* A stream that ends without a record gets one of the broker's.
LEMMA StreamEndsStep ==
  ASSUME BrokerInv, NEW r \in Request, StreamEnds(r)
  PROVE  BrokerInv'
<1>1. pc[r] = "upstream" /\ pc[r] \in InFlight
  BY DEF StreamEnds, InFlight
<1>2. CASE accounted[r]
  <2>1. /\ Leave(r)
        /\ UNCHANGED <<lease, count, ledger, persisted, on, accounted, item, batch,
                       closeVars, rowVars>>
    BY <1>2 DEF StreamEnds
  <2>2. pc'[r] = "done" /\ item[r] = None
    BY <1>1, <2>1 DEF Leave, BrokerInv, TypeOK, RequestsKnow, Writing
  <2>3. RequestsKnow' /\ Counted' /\ GoneIsQuiet' /\ OnlyCloseWaits'
    BY <1>1, <1>2, <2>1, <2>2, HandlerFrame DEF Writing, rowVars
  <2>4. /\ pc' \in [Request -> RequestPc] /\ active' \in [Lease -> Nat]
        /\ \A l \in Lease : UsersOf(l) \subseteq UsersOf(l)' \union {r}
    BY <1>1, <2>1, RequestMoves
  <2>5. TypeOK'
    BY <2>1, <2>4 DEF BrokerInv, TypeOK, closeVars, rowVars
  <2>6. \A l \in Lease : Ids(l)' = Ids(l) /\ Ids(l) \subseteq Id
    BY <2>1 DEF Ids, BrokerInv, TypeOK, Record
  <2>7. ASSUME NEW l \in Lease, NEW i \in Ids(l)'
        PROVE  i \in rows[l] \union lost[l] \union {item[q] : q \in UsersOf(l)'}
    <3>1. i \in rows[l] \union lost[l] \union {item[q] : q \in UsersOf(l)} /\ i # None
      BY <2>6, <2>7, Constants DEF BrokerInv, ObservedIsDurable
    <3> QED  BY <2>2, <2>4, <3>1
  <2>8. ~final
    BY <1>1, InFlightIsHeld
  <2>9. ObservedIsDurable' /\ PersistedIsStored'
    BY <2>1, <2>7, <2>8 DEF ObservedIsDurable, PersistedIsStored, BrokerInv, rowVars
  <2> QED  BY <2>3, <2>5, <2>9 DEF BrokerInv
<1>3. CASE ~accounted[r]
  <2>1. RecordUsage(r, [id |-> r, tokens |-> 0], "ending")
    BY <1>3 DEF StreamEnds
  <2>2. [id |-> r, tokens |-> 0] \in Record
    BY Constants DEF Record
  <2> QED  BY <1>1, <2>1, <2>2, RecordUsageStep DEF Writing
<1> QED  BY <1>2, <1>3

\* The write of onUsageFinalized is over: its ids are rows, or the one it was called
\* for is lost.
LEMMA WriteEnds ==
  ASSUME BrokerInv, NEW r \in Request, pc[r] \in Writing, Written(r),
         UNCHANGED <<lease, count, ledger, on, accounted, closeVars, durable, final>>,
         Leave(r) \/ (UNCHANGED active /\ pc' = [pc EXCEPT ![r] = "upstream"]),
         \/ rows' = rows
         \/ rows' = [rows EXCEPT ![on[r]] = rows[on[r]] \union batch[r]],
         \/ /\ rows' = [rows EXCEPT ![on[r]] = rows[on[r]] \union batch[r]]
            /\ persisted' = [persisted EXCEPT ![on[r]] = persisted[on[r]] \union {item[r]}]
            /\ lost' = lost
         \/ /\ lost' = [lost EXCEPT ![on[r]] = lost[on[r]] \union {item[r]}]
            /\ persisted' = persisted
  PROVE  BrokerInv'
<1> DEFINE m == on[r]
<1>1. /\ m \in Lease /\ ~final /\ pc[r] \in InFlight
      /\ accounted[r] /\ item[r] \in batch[r] /\ item[r] # None
  BY InFlightIsHeld DEF BrokerInv, RequestsKnow, Writing, InFlight
<1>2. /\ batch[r] \subseteq Id /\ item[r] \in Id
      /\ rows \in [Lease -> SUBSET Id] /\ lost \in [Lease -> SUBSET Id]
      /\ persisted \in [Lease -> SUBSET Id]
      /\ item \in [Request -> Id \union {None}] /\ batch \in [Request -> SUBSET Id]
  BY <1>1 DEF BrokerInv, TypeOK
<1>3. /\ item' \in [Request -> Id \union {None}] /\ batch' \in [Request -> SUBSET Id]
      /\ item'[r] = None
      /\ \A q \in Request : q # r => item'[q] = item[q] /\ batch'[q] = batch[q]
  BY <1>2 DEF Written
<1>4. pc'[r] \in {"done", "upstream"}
  BY DEF Leave, BrokerInv, TypeOK
<1>5. Leave(r) \/ (UNCHANGED active /\ \E s \in InFlight : pc' = [pc EXCEPT ![r] = s])
  BY DEF InFlight
<1>6. RequestsKnow' /\ Counted' /\ GoneIsQuiet' /\ OnlyCloseWaits'
  BY <1>1, <1>3, <1>4, <1>5, HandlerFrame DEF Writing
<1>7. /\ pc' \in [Request -> RequestPc] /\ active' \in [Lease -> Nat]
      /\ \A l \in Lease : UsersOf(l) \subseteq UsersOf(l)' \union {r}
  BY <1>1, <1>5, RequestMoves
<1>8. rows' \in [Lease -> SUBSET Id] /\ \A l \in Lease : rows[l] \subseteq rows'[l]
  BY <1>1, <1>2
<1>9. lost' \in [Lease -> SUBSET Id] /\ \A l \in Lease : lost[l] \subseteq lost'[l]
  BY <1>1, <1>2
<1>10. item[r] \in rows'[m] \union lost'[m]
  BY <1>1, <1>2
<1>11. persisted' \in [Lease -> SUBSET Id]
  BY <1>1, <1>2
<1>12. PersistedIsStored'
  <2> SUFFICES ASSUME NEW l \in Lease  PROVE persisted'[l] \subseteq rows'[l]
    BY DEF PersistedIsStored
  <2>1. persisted[l] \subseteq rows[l]
    BY DEF BrokerInv, PersistedIsStored
  <2>2. CASE persisted' = persisted
    BY <1>8, <2>1, <2>2
  <2>3. CASE /\ rows' = [rows EXCEPT ![m] = rows[m] \union batch[r]]
             /\ persisted' = [persisted EXCEPT ![m] = persisted[m] \union {item[r]}]
    BY <1>1, <1>2, <2>1, <2>3
  <2> QED  BY <2>2, <2>3
<1>13. TypeOK'
  BY <1>3, <1>7, <1>8, <1>9, <1>11 DEF BrokerInv, TypeOK, closeVars
<1>14. ASSUME NEW l \in Lease, NEW i \in Ids(l)'
       PROVE  i \in rows'[l] \union lost'[l] \union {item'[q] : q \in UsersOf(l)'}
  <2>1. i \in Ids(l)
    BY <1>14 DEF Ids
  <2>2. i \in rows[l] \union lost[l] \union {item[q] : q \in UsersOf(l)}
    BY <2>1 DEF BrokerInv, ObservedIsDurable
  <2>3. CASE i \in rows[l] \union lost[l]
    BY <1>8, <1>9, <2>3
  <2>4. ASSUME NEW q \in UsersOf(l), i = item[q]
        PROVE  i \in rows'[l] \union lost'[l] \union {item'[p] : p \in UsersOf(l)'}
    <3>1. CASE q = r
      BY <1>10, <2>4, <3>1 DEF UsersOf
    <3>2. CASE q # r
      <4>1. q \in UsersOf(l)' /\ item'[q] = i
        BY <1>3, <1>7, <2>4, <3>2 DEF UsersOf
      <4> QED  BY <4>1
    <3> QED  BY <3>1, <3>2
  <2> QED  BY <2>2, <2>3, <2>4
<1>15. ObservedIsDurable'
  BY <1>1, <1>14 DEF ObservedIsDurable
<1> QED  BY <1>6, <1>12, <1>13, <1>15 DEF BrokerInv

LEMMA PersistStep ==
  ASSUME BrokerInv, NEW r \in Request, Persist(r) \/ PersistFails(r)
  PROVE  BrokerInv'
<1>1. CASE Persist(r)
  <2>1. Leave(r) \/ (UNCHANGED active /\ pc' = [pc EXCEPT ![r] = "upstream"])
    BY <1>1 DEF Persist
  <2> QED  BY <1>1, <2>1, WriteEnds DEF Persist, Writing
<1>2. CASE PersistFails(r)
  BY <1>2, WriteEnds DEF PersistFails, Writing
<1> QED  BY <1>1, <1>2

\* finalizeTerminalOutcome: no lease has users, so what was observed is stored but
\* for child records whose write threw.
LEMMA FinalizeStep ==
  ASSUME BrokerInv, Finalize
  PROVE  BrokerInv'
<1>1. \A l \in Lease : UsersOf(l) = {}
  BY Constants DEF BrokerInv, RequestsKnow, GoneIsQuiet, UsersOf, Finalize
<1>2. \A l \in Lease : UsersOf(l)' = UsersOf(l) /\ Served(l)' = Served(l) /\ Ids(l)' = Ids(l)
  BY DEF Finalize, UsersOf, Served, Ids, requestVars, leaseVars
<1>3. \A l \in Lease : Ids(l) \subseteq Id
  BY DEF BrokerInv, TypeOK, Ids, Record
<1>4. /\ rows' \in [Lease -> SUBSET Id]
      /\ \A l \in Lease : rows'[l] = IF l \in Root THEN rows[l] \union Ids(l) ELSE rows[l]
  BY <1>3 DEF BrokerInv, TypeOK, Finalize
<1>5. TypeOK'
  BY <1>4 DEF BrokerInv, TypeOK, Finalize, leaseVars, requestVars, closeVars
<1>6. RequestsKnow'
  BY DEF BrokerInv, RequestsKnow, Finalize, leaseVars, requestVars
<1>7. Counted' /\ OnlyCloseWaits'
  BY <1>2 DEF BrokerInv, Counted, OnlyCloseWaits, Finalize, leaseVars, closeVars
<1>8. GoneIsQuiet'
  BY <1>2 DEF BrokerInv, GoneIsQuiet, Finalize, leaseVars
<1>9. PersistedIsStored'
  BY <1>4 DEF BrokerInv, PersistedIsStored, Finalize, leaseVars
<1>10. ObservedIsDurable'
  <2>1. UNCHANGED lost
    BY DEF Finalize
  <2>2. \A l \in Lease : Ids(l) \subseteq rows[l] \union lost[l]
    BY <1>1 DEF BrokerInv, ObservedIsDurable
  <2>3. \A l \in Lease : l \in Child \/ l \in Root
    BY DEF Lease
  <2> QED  BY <1>2, <1>4, <2>1, <2>2, <2>3 DEF ObservedIsDurable
<1> QED  BY <1>5, <1>6, <1>7, <1>8, <1>9, <1>10 DEF BrokerInv

-----------------------------------------------------------------------------
LEMMA BrokerInitially ==
  Init => BrokerInv
<1> SUFFICES ASSUME Init  PROVE BrokerInv
  OBVIOUS
<1>1. TypeOK
  BY DEF Init, TypeOK, LeaseStatus, RequestPc
<1>2. RequestsKnow
  <2>1. {r \in Request : pc[r] # "new"} = {}
    BY DEF Init
  <2> QED  BY <2>1, FS_EmptySet DEF Init, RequestsKnow, Writing, InFlight
<1>3. Counted
  <2>1. \A l \in Lease : UsersOf(l) = {} /\ Served(l) = {}
    BY DEF Init, UsersOf, Served, InFlight
  <2>2. \A l \in Lease : Cardinality(UsersOf(l)) = 0 /\ Cardinality(Served(l)) = 0
    BY <2>1, FS_EmptySet
  <2>3. \A l \in Lease : active[l] = 0 /\ count[l] = 0
    BY DEF Init
  <2>4. 0 <= MaxRequests /\ \A l \in Lease : 0 <= ConcurrencyLimit(l)
    BY Constants
  <2> QED  BY <2>2, <2>3, <2>4 DEF Counted
<1>4. GoneIsQuiet /\ OnlyCloseWaits /\ PersistedIsStored /\ ObservedIsDurable
  BY DEF Init, GoneIsQuiet, OnlyCloseWaits, PersistedIsStored, ObservedIsDurable, Ids
<1> QED  BY <1>1, <1>2, <1>3, <1>4 DEF BrokerInv

LEMMA BrokerStep ==
  BrokerInv /\ [Next]_vars => BrokerInv'
<1> SUFFICES ASSUME BrokerInv, [Next]_vars  PROVE BrokerInv'
  OBVIOUS
<1>1. ASSUME NEW l \in Lease, CreateLease(l) \/ BeginRevoke(l) \/ FinishRevoke(l)
      PROVE  BrokerInv'
  BY <1>1, CreateLeaseStep, BeginRevokeStep, FinishRevokeStep
<1>2. ASSUME NEW c \in Child, RecordLease(c) \/ RevokeRow(c)  PROVE BrokerInv'
  BY <1>2, RecordLeaseStep, RevokeRowStep
<1>3. ASSUME NEW r \in Request, NEW l \in Lease, Arrive(r, l)  PROVE BrokerInv'
  BY <1>3, ArriveStep
<1>4. ASSUME NEW r \in Request,
             \/ Refuse(r) \/ Admit(r) \/ TerminalEvent(r) \/ StreamEnds(r)
             \/ Persist(r) \/ PersistFails(r)
      PROVE  BrokerInv'
  BY <1>4, RefuseStep, AdmitStep, TerminalEventStep, StreamEndsStep, PersistStep
<1>5. CASE CancelChildren \/ BeginClose \/ CloseFails \/ StopListening \/ EndClose
  BY <1>5, CloseStep
<1>6. CASE Finalize
  BY <1>6, FinalizeStep
<1>7. CASE UNCHANGED vars
  <2>1. UNCHANGED <<leaseVars, requestVars, closeVars, rowVars>>
    BY <1>7 DEF vars
  <2>2. TypeOK' /\ OnlyCloseWaits'
    BY <2>1 DEF BrokerInv, TypeOK, OnlyCloseWaits, leaseVars, requestVars, closeVars, rowVars
  <2> QED
    BY <2>1, <2>2, LeaseFrame, Constants DEF BrokerInv, GoneIsQuiet, leaseVars, rowVars
<1> QED  BY <1>1, <1>2, <1>3, <1>4, <1>5, <1>6, <1>7 DEF Next

LEMMA BrokerInvariant == Spec => []BrokerInv
  BY BrokerInitially, BrokerStep, PTL DEF Spec

\* Type correctness of the broker's maps and of the store's rows.
THEOREM BrokerTypeCorrect == Spec => []TypeOK
<1>1. BrokerInv => TypeOK
  BY DEF BrokerInv
<1> QED  BY <1>1, BrokerInvariant, PTL

-----------------------------------------------------------------------------
(* The aggregate limit *)

LiveChildren == {c \in Child : lease[c] = "live"}

\* The sum that admission reads, over the leases that it can be over.
Aggregate == IsFiniteSet(LiveChildren) /\ ActiveChildRequests <= AggregateLimit

LEMMA AggregateFacts ==
  ASSUME BrokerInv, Aggregate
  PROVE  /\ LiveChildren \subseteq Child /\ Child \subseteq Lease
         /\ IsFiniteSet(LiveChildren) /\ NatOn(active, LiveChildren)
         /\ ActiveChildRequests = SumFunctionOnSet(active, LiveChildren)
         /\ ActiveChildRequests \in Nat /\ AggregateLimit \in Nat
<1>1. /\ LiveChildren \subseteq Child /\ Child \subseteq Lease
      /\ IsFiniteSet(LiveChildren) /\ NatOn(active, LiveChildren)
  BY Constants DEF LiveChildren, Aggregate, NatOn, BrokerInv, TypeOK
<1>2. ActiveChildRequests = SumFunctionOnSet(active, LiveChildren)
  BY DEF ActiveChildRequests, LiveChildren
<1>3. AggregateLimit \in Nat
  BY BrokerAssumption
<1> QED  BY <1>1, <1>2, <1>3, SumType

\* Leases end and requests leave: the sum only falls.
LEMMA AggregateFalls ==
  ASSUME BrokerInv, BrokerInv', Aggregate,
         LiveChildren' \subseteq LiveChildren,
         \A l \in Lease : active'[l] <= active[l]
  PROVE  Aggregate'
<1>1. IsFiniteSet(LiveChildren') /\ NatOn(active, LiveChildren')
  BY AggregateFacts, FS_Subset DEF NatOn
<1>2. NatOn(active', LiveChildren') /\ \A c \in LiveChildren' : active'[c] <= active[c]
  BY AggregateFacts DEF NatOn, BrokerInv, TypeOK
<1>3. SumFunctionOnSet(active', LiveChildren') <= SumFunctionOnSet(active, LiveChildren')
  BY <1>1, <1>2, SumMonotonic
<1>4. SumFunctionOnSet(active, LiveChildren') <= SumFunctionOnSet(active, LiveChildren)
  BY AggregateFacts, SumSubset
<1>5. /\ SumFunctionOnSet(active', LiveChildren') \in Nat
      /\ SumFunctionOnSet(active, LiveChildren') \in Nat
  BY <1>1, <1>2, SumType
<1>6. SumFunctionOnSet(active, LiveChildren) <= AggregateLimit
  BY AggregateFacts DEF Aggregate
<1>7. SumFunctionOnSet(active', LiveChildren') <= AggregateLimit
  BY <1>3, <1>4, <1>5, <1>6, AggregateFacts
<1> QED  BY <1>1, <1>7 DEF Aggregate, ActiveChildRequests, LiveChildren

\* A new lease has no requests yet.
LEMMA AggregateOfNewLease ==
  ASSUME BrokerInv, BrokerInv', Aggregate, NEW l \in Lease, CreateLease(l)
  PROVE  Aggregate'
<1>1. LiveChildren' \subseteq LiveChildren \union {l} /\ LiveChildren \subseteq LiveChildren'
  BY AggregateFacts DEF CreateLease, LiveChildren, BrokerInv, TypeOK
<1>2. IsFiniteSet(LiveChildren')
  <2>1. IsFiniteSet(LiveChildren \union {l})
    BY AggregateFacts, FS_AddElement
  <2> QED  BY <1>1, <2>1, FS_Subset
<1>3. UNCHANGED active /\ NatOn(active, LiveChildren')
  BY Constants DEF CreateLease, LiveChildren, NatOn, BrokerInv, TypeOK
<1>4. active[l] = 0
  <2>1. UsersOf(l) = {}
    BY Constants DEF CreateLease, UsersOf, BrokerInv, RequestsKnow
  <2> QED  BY <2>1, FS_EmptySet DEF BrokerInv, Counted
<1>5. SumFunctionOnSet(active, LiveChildren) = SumFunctionOnSet(active, LiveChildren')
  BY <1>1, <1>2, <1>3, <1>4, SumSubset
<1> QED
  BY <1>2, <1>3, <1>5, AggregateFacts DEF Aggregate, ActiveChildRequests, LiveChildren

\* An admission adds one, to a child's lease only below the limit.
LEMMA AggregateOfAdmission ==
  ASSUME BrokerInv, BrokerInv', Aggregate, NEW r \in Request, Admit(r)
  PROVE  Aggregate'
<1>1. on[r] \in Lease /\ lease[on[r]] = "live" /\ UNCHANGED lease
  BY DEF Admit, BrokerInv, RequestsKnow
<1>2. LiveChildren' = LiveChildren
  BY <1>1 DEF LiveChildren
<1>3. active' = [active EXCEPT ![on[r]] = active[on[r]] + 1] /\ active \in [Lease -> Nat]
  BY DEF Admit, BrokerInv, TypeOK
<1>4. NatOn(active', LiveChildren)
  BY AggregateFacts DEF NatOn, BrokerInv, TypeOK
<1>5. CASE on[r] \in Child
  <2>1. ActiveChildRequests < AggregateLimit
    BY <1>5 DEF Admit, WithinBudget
  <2>2. on[r] \in LiveChildren /\ \A c \in LiveChildren \ {on[r]} : active[c] = active'[c]
    BY <1>1, <1>3, <1>5, AggregateFacts DEF LiveChildren
  <2>3. SumFunctionOnSet(active', LiveChildren) =
          (SumFunctionOnSet(active, LiveChildren) - active[on[r]]) + active'[on[r]]
    BY <1>4, <2>2, AggregateFacts, SumOneChanges
  <2>4. active'[on[r]] = active[on[r]] + 1 /\ active[on[r]] \in Nat
    BY <1>1, <1>3
  <2>5. SumFunctionOnSet(active', LiveChildren) = ActiveChildRequests + 1
    BY <2>3, <2>4, AggregateFacts
  <2>6. SumFunctionOnSet(active', LiveChildren) <= AggregateLimit
    BY <2>1, <2>5, AggregateFacts
  <2> QED  BY <1>2, <2>6 DEF Aggregate, ActiveChildRequests, LiveChildren
<1>6. CASE on[r] \notin Child
  <2>1. \A c \in LiveChildren : active[c] = active'[c]
    BY <1>3, <1>6, AggregateFacts
  <2>2. SumFunctionOnSet(active, LiveChildren) = SumFunctionOnSet(active', LiveChildren)
    BY <2>1, AggregateFacts, SumAgree
  <2> QED  BY <1>2, <2>2 DEF Aggregate, ActiveChildRequests, LiveChildren
<1> QED  BY <1>5, <1>6

LEMMA AggregateKept ==
  ASSUME BrokerInv, BrokerInv', Aggregate, [Next]_vars
  PROVE  Aggregate'
<1>0. \A l \in Lease : active[l] \in Nat
  BY DEF BrokerInv, TypeOK
<1>1. ASSUME LiveChildren' \subseteq LiveChildren, UNCHANGED active
      PROVE  Aggregate'
  BY <1>0, <1>1, AggregateFalls
<1>2. ASSUME NEW r \in Request, UNCHANGED lease, Leave(r) \/ UNCHANGED active
      PROVE  Aggregate'
  <2>1. \A l \in Lease : active'[l] <= active[l]
    BY <1>0, <1>2 DEF Leave, BrokerInv, TypeOK
  <2> QED  BY <1>2, <2>1, AggregateFalls DEF LiveChildren
<1>3. ASSUME NEW l \in Lease, BeginRevoke(l) \/ FinishRevoke(l)
      PROVE  Aggregate'
  <2>1. LiveChildren' \subseteq LiveChildren /\ UNCHANGED active
    BY <1>3, Constants DEF BeginRevoke, FinishRevoke, LiveChildren, BrokerInv, TypeOK
  <2> QED  BY <1>1, <2>1
<1>4. ASSUME NEW r \in Request,
             Refuse(r) \/ TerminalEvent(r) \/ StreamEnds(r) \/ Persist(r) \/ PersistFails(r)
      PROVE  Aggregate'
  <2>1. UNCHANGED lease /\ (Leave(r) \/ UNCHANGED active)
    BY <1>4 DEF Refuse, TerminalEvent, StreamEnds, RecordUsage, Persist, PersistFails, leaseVars
  <2> QED  BY <1>2, <2>1
<1>5. ASSUME UNCHANGED <<lease, active>>
      PROVE  Aggregate'
  BY <1>1, <1>5 DEF LiveChildren
<1>6. ASSUME NEW c \in Child, RecordLease(c) \/ RevokeRow(c)
      PROVE  UNCHANGED <<lease, active>>
  BY <1>6 DEF RecordLease, RevokeRow, leaseVars
<1>7. ASSUME NEW r \in Request, NEW l \in Lease, Arrive(r, l)
      PROVE  UNCHANGED <<lease, active>>
  BY <1>7 DEF Arrive, leaseVars
<1>8. CASE BeginClose
  <2>1. LiveChildren' \subseteq LiveChildren /\ UNCHANGED active
    BY <1>8, Constants DEF BeginClose, LiveChildren
  <2> QED  BY <1>1, <2>1
<1>9. CASE CancelChildren \/ CloseFails \/ StopListening \/ EndClose \/ Finalize \/ UNCHANGED vars
  <2>1. UNCHANGED <<lease, active>>
    BY <1>9 DEF CancelChildren, CloseFails, StopListening, EndClose, Finalize, vars, leaseVars
  <2> QED  BY <1>5, <2>1
<1> QED
  BY <1>3, <1>4, <1>5, <1>6, <1>7, <1>8, <1>9, AggregateOfNewLease, AggregateOfAdmission DEF Next

\* However the handlers interleave at their awaits, the requests upstream of a lease,
\* those it ever served, and the requests upstream of all child leases that are not being
\* revoked are within the limits (inference.ts:477-495).  The aggregate is enforced by a
\* sum of counters, which is at least the number of the requests that are there.
THEOREM RequestsWithinLimits == Spec => []UpstreamWithinLimits
<1>1. Init => Aggregate
  <2> SUFFICES ASSUME Init PROVE Aggregate
    OBVIOUS
  <2>1. LiveChildren = {}
    BY Constants DEF Init, LiveChildren
  <2> QED
    BY <2>1, SumEmpty, FS_EmptySet, BrokerAssumption DEF Aggregate, ActiveChildRequests, LiveChildren
<1>2. BrokerInv /\ BrokerInv' /\ Aggregate /\ [Next]_vars => Aggregate'
  BY AggregateKept
<1>3. BrokerInv /\ Aggregate => UpstreamWithinLimits
  <2> SUFFICES ASSUME BrokerInv, Aggregate PROVE UpstreamWithinLimits
    OBVIOUS
  <2>1. \A l \in Lease :
          /\ Cardinality(UsersOf(l)) <= ConcurrencyLimit(l)
          /\ l \in Child =>
               Cardinality({r \in Request : on[r] = l /\ pc[r] \in InFlight \union {"done"}})
                 <= MaxRequests
    BY DEF BrokerInv, Counted, Served
  <2> DEFINE F == [c \in LiveChildren |-> UsersOf(c)]
  <2>2. \A c \in LiveChildren : IsFiniteSet(F[c]) /\ Cardinality(F[c]) <= active[c]
    BY AggregateFacts, UsersAreFinite DEF BrokerInv, Counted
  <2>3. Cardinality(UNION {F[c] : c \in LiveChildren}) <= SumFunctionOnSet(active, LiveChildren)
        /\ IsFiniteSet(UNION {F[c] : c \in LiveChildren})
    <3> HIDE DEF F
    <3> QED  BY <2>2, AggregateFacts, SumOfFamily
  <2>4. UNION {F[c] : c \in LiveChildren} = UNION {UsersOf(c) : c \in {d \in Child : lease[d] = "live"}}
    BY DEF LiveChildren
  <2>5. Cardinality(UNION {F[c] : c \in LiveChildren}) \in Nat
    BY <2>3, FS_CardinalityType
  <2>6. Cardinality(UNION {F[c] : c \in LiveChildren}) <= AggregateLimit
    <3> HIDE DEF F
    <3> QED  BY <2>3, <2>5, AggregateFacts DEF Aggregate
  <2> HIDE DEF F
  <2> QED  BY <2>1, <2>4, <2>6 DEF UpstreamWithinLimits
<1> QED  BY <1>1, <1>2, <1>3, BrokerInvariant, PTL DEF Spec

-----------------------------------------------------------------------------
\* A lease that is gone has no request upstream or being written, and each request
\* it admitted was accounted (inference.ts:402-422).
THEOREM QuietAfterRevocation == Spec => []RevokedIsQuiet
<1>1. BrokerInv => RevokedIsQuiet
  <2> SUFFICES ASSUME BrokerInv, NEW l \in Lease,
                      lease[l] = "gone" \/ (l \in Child /\ durable[l] = "revoked")
               PROVE  /\ UsersOf(l) = {}
                      /\ \A r \in Request : (on[r] = l /\ pc[r] = "done") => accounted[r]
    BY DEF RevokedIsQuiet
  <2> QED  BY Constants DEF BrokerInv, GoneIsQuiet, RequestsKnow
<1> QED  BY <1>1, BrokerInvariant, PTL

\* Observed usage is a row unless its write threw, and the root's always is in the
\* terminal ledger (inference.ts:507-527, worker.ts syncInferenceUsage).
THEOREM UsageIsKept == Spec => []ObservedIsDurable
<1>1. BrokerInv => ObservedIsDurable
  BY DEF BrokerInv
<1> QED  BY <1>1, BrokerInvariant, PTL

\* No usage row is added after the terminal ledger was compared with the rows.
THEOREM LedgerStaysFinal == Spec => TerminalLedgerIsFinal
<1>1. BrokerInv /\ [Next]_vars => [final => UNCHANGED <<rows, ledger>>]_vars
  <2> SUFFICES ASSUME BrokerInv, [Next]_vars, final  PROVE UNCHANGED <<rows, ledger>>
    OBVIOUS
  <2>1. \A r \in Request : pc[r] \notin InFlight
    BY InFlightIsHeld
  <2>2. ASSUME NEW l \in Lease, CreateLease(l) \/ BeginRevoke(l) \/ FinishRevoke(l)
        PROVE  UNCHANGED <<rows, ledger>>
    BY <2>2 DEF CreateLease, BeginRevoke, FinishRevoke, rowVars
  <2>3. ASSUME NEW c \in Child, RecordLease(c) \/ RevokeRow(c)
        PROVE  UNCHANGED <<rows, ledger>>
    BY <2>3 DEF RecordLease, RevokeRow, leaseVars
  <2>4. ASSUME NEW r \in Request, NEW l \in Lease, Arrive(r, l)
        PROVE  UNCHANGED <<rows, ledger>>
    BY <2>4 DEF Arrive, leaseVars, rowVars
  <2>5. ASSUME NEW r \in Request,
               \/ Refuse(r) \/ Admit(r) \/ TerminalEvent(r) \/ StreamEnds(r)
               \/ Persist(r) \/ PersistFails(r)
        PROVE  UNCHANGED <<rows, ledger>>
    BY <2>1, <2>5 DEF Refuse, Admit, TerminalEvent, StreamEnds, Persist, PersistFails,
                      InFlight, leaseVars, rowVars
  <2>6. CASE CancelChildren \/ BeginClose \/ CloseFails \/ StopListening \/ EndClose
    BY <2>6 DEF CancelChildren, BeginClose, CloseFails, StopListening, EndClose,
                leaseVars, rowVars
  <2>7. CASE Finalize
    BY <2>7 DEF Finalize
  <2>8. CASE UNCHANGED vars
    BY <2>8 DEF vars, leaseVars, rowVars
  <2> QED  BY <2>2, <2>3, <2>4, <2>5, <2>6, <2>7, <2>8 DEF Next
<1> QED  BY <1>1, BrokerInvariant, PTL DEF Spec, TerminalLedgerIsFinal

=============================================================================
