--------------------------- MODULE JobControlProofs ---------------------------
(***************************************************************************)
(* Proofs about JobControl for every set of jobs, launches and clients.    *)
(***************************************************************************)
EXTENDS JobControl, TLAPS

-----------------------------------------------------------------------------
(* Type correctness *)

Unspawned == {"idle", "acquire", "remove", "hold", "spawn"}

\* What TypeOK needs to be inductive: a launch that began has a job, its worker
\* exists only after Spawn, its job is in the store by then, and a client that
\* looks at a job or a worker looks at an existing one.
Links ==
  /\ \A l \in Launch : lpc[l] # "idle" => jobOf[l] \in Job
  /\ \A l \in Launch : lpc[l] \in Unspawned => wpc[l] = "none"
  /\ \A l \in Launch : lpc[l] \in {"spawn", "wait"} \/ wpc[l] # "none"
                       => status[jobOf[l]] \in Statuses
  /\ \A c \in Client : client[c].pc # "idle" => client[c].job \in Job
  /\ \A c \in Client : client[c].pc \in {"adopt", "verify"} => client[c].who \in Launch

\* The transition matrix leads from live statuses to statuses.
LEMMA AllowedFacts ==
  ASSUME NEW from \in Statuses, NEW to \in Allowed[from]
  PROVE  from \in LiveStatuses /\ to \in Statuses
<1>1. CASE from \in TerminalStatuses
  <2>1. /\ Allowed["succeeded"] = {} /\ Allowed["failed"] = {}
        /\ Allowed["cancelled"] = {} /\ Allowed["interrupted"] = {}
    BY DEF Allowed
  <2> QED  BY <1>1, <2>1 DEF TerminalStatuses
<1>2. CASE from \in LiveStatuses
  <2>1. /\ Allowed["queued"] \subseteq Statuses /\ Allowed["provisioning"] \subseteq Statuses
        /\ Allowed["running"] \subseteq Statuses /\ Allowed["verifying"] \subseteq Statuses
        /\ Allowed["committing"] \subseteq Statuses /\ Allowed["cancelling"] \subseteq Statuses
    BY DEF Allowed, Statuses, LiveStatuses, TerminalStatuses
  <2> QED  BY <1>2, <2>1 DEF LiveStatuses
<1> QED  BY <1>1, <1>2 DEF Statuses

\* Each variable is typed if its group is typed or untouched.
LEMMA GroupWise ==
  ASSUME TypeOK,
         StoreTypeOK' \/ UNCHANGED <<storeVars, lease>>,
         LauncherTypeOK' \/ UNCHANGED launcherVars,
         WorkerTypeOK' \/ UNCHANGED workerVars,
         ClientTypeOK' \/ UNCHANGED client
  PROVE  TypeOK'
  BY DEF TypeOK, StoreTypeOK, LauncherTypeOK, WorkerTypeOK, ClientTypeOK,
         storeVars, launcherVars, workerVars

LEMMA FinalizeType ==
  ASSUME StoreTypeOK, NEW j \in Job, NEW s \in TerminalStatuses, NEW token,
         Finalize(j, s, token)
  PROVE  StoreTypeOK'
  BY DEF StoreTypeOK, Finalize, Statuses

LEMMA AbortsType ==
  ASSUME WorkerTypeOK, NEW l \in Launch, NEW a \in Aborts(l)
  PROVE  a.agent \in BOOLEAN /\ a.aborting \in {"no", "resolved", "rejected"}
<1>1. agent[l] \in BOOLEAN /\ aborting[l] \in {"no", "resolved", "rejected"}
  BY DEF WorkerTypeOK
<1>2. \/ a = [agent |-> FALSE, aborting |-> aborting[l]]
      \/ a = [agent |-> agent[l], aborting |-> aborting[l]]
      \/ a = [agent |-> FALSE, aborting |-> "resolved"]
      \/ a = [agent |-> TRUE, aborting |-> "rejected"]
  BY Zenon DEF Aborts
<1>3. CASE a = [agent |-> FALSE, aborting |-> aborting[l]]
  BY <1>1, <1>3
<1>4. CASE a = [agent |-> agent[l], aborting |-> aborting[l]]
  BY <1>1, <1>4
<1>5. CASE a = [agent |-> FALSE, aborting |-> "resolved"]
  BY <1>5
<1>6. CASE a = [agent |-> TRUE, aborting |-> "rejected"]
  BY <1>6
<1> QED  BY <1>2, <1>3, <1>4, <1>5, <1>6

LEMMA OwnersTyped ==
  ASSUME NEW l \in Launch
  PROVE  LauncherOwner(l) \in Owner /\ WorkerOwner(l) \in Owner
  BY DEF LauncherOwner, WorkerOwner, Owner

LEMMA Working ==
  ASSUME Links, NEW l \in Launch, wpc[l] # "none"
  PROVE  lpc[l] # "idle" /\ jobOf[l] \in Job /\ status[jobOf[l]] \in Statuses
  BY DEF Links, Unspawned

LEMMA InterruptingType ==
  ASSUME ClientTypeOK, NEW c \in Client, NEW token \in Owner \union {None},
         Interrupting(c, token)
  PROVE  ClientTypeOK'
  BY DEF Interrupting, AtRest, ClientTypeOK, ClientPc

LEMMA ReturnType ==
  ASSUME ClientTypeOK, NEW c \in Client, Return(c)
  PROVE  ClientTypeOK'
  BY DEF Return, AtRest, ClientTypeOK, ClientPc

\* Every step preserves the types ...
LEMMA TypeStep ==
  ASSUME TypeOK, Links, Next
  PROVE  TypeOK'
<1> USE DEF TypeOK
<1>1. ASSUME NEW l \in Launch, NEW j \in Job, BeginStart(l, j)
      PROVE  TypeOK'
  <2>1. LauncherTypeOK'
    BY <1>1 DEF BeginStart, LauncherTypeOK, LauncherPc
  <2> QED  BY <1>1, <2>1, GroupWise DEF BeginStart, storeVars, launcherVars, workerVars
<1>2. ASSUME NEW l \in Launch, NEW j \in Job, BeginResume(l, j)
      PROVE  TypeOK'
  <2>1. LauncherTypeOK'
    BY <1>2 DEF BeginResume, LauncherTypeOK, StoreTypeOK, LauncherPc
  <2> QED  BY <1>2, <2>1, GroupWise DEF BeginResume, storeVars, launcherVars, workerVars
<1>3. ASSUME NEW l \in Launch, AcquireFree(l)
      PROVE  TypeOK'
  <2>1. StoreTypeOK'
    BY <1>3, OwnersTyped DEF AcquireFree, StoreTypeOK, storeVars
  <2>2. LauncherTypeOK'
    BY <1>3 DEF AcquireFree, LauncherTypeOK, LauncherPc
  <2> QED  BY <1>3, <2>1, <2>2, GroupWise DEF AcquireFree, storeVars, launcherVars,
      workerVars
<1>4. ASSUME NEW l \in Launch, AcquireInspect(l)
      PROVE  TypeOK'
  <2>1. LauncherTypeOK'
    BY <1>4 DEF AcquireInspect, LauncherTypeOK, StoreTypeOK, LauncherPc
  <2> QED  BY <1>4, <2>1, GroupWise DEF AcquireInspect, storeVars, launcherVars, workerVars
<1>5. ASSUME NEW l \in Launch, AcquireRemove(l)
      PROVE  TypeOK'
  <2>1. StoreTypeOK'
    BY <1>5 DEF AcquireRemove, StoreTypeOK, storeVars
  <2>2. LauncherTypeOK'
    BY <1>5 DEF AcquireRemove, LauncherTypeOK, LauncherPc
  <2> QED  BY <1>5, <2>1, <2>2, GroupWise DEF AcquireRemove, storeVars, launcherVars,
      workerVars
<1>6. ASSUME NEW l \in Launch, Initialize(l)
      PROVE  TypeOK'
  <2>1. StoreTypeOK'
    BY <1>6 DEF Initialize, StoreTypeOK, Links, Statuses, LiveStatuses
  <2>2. LauncherTypeOK'
    BY <1>6 DEF Initialize, LauncherTypeOK, LauncherPc
  <2> QED  BY <1>6, <2>1, <2>2, GroupWise DEF Initialize, storeVars, launcherVars,
      workerVars
<1>7. ASSUME NEW l \in Launch, Consume(l)
      PROVE  TypeOK'
  <2>1. StoreTypeOK'
    BY <1>7 DEF Consume, StoreTypeOK, LauncherTypeOK, Links, Statuses, LiveStatuses
  <2>2. LauncherTypeOK'
    BY <1>7 DEF Consume, LauncherTypeOK, LauncherPc
  <2> QED  BY <1>7, <2>1, <2>2, GroupWise DEF Consume, storeVars, launcherVars, workerVars
<1>8. ASSUME NEW l \in Launch, Spawn(l)
      PROVE  TypeOK'
  <2>1. LauncherTypeOK'
    BY <1>8 DEF Spawn, LauncherTypeOK, LauncherPc
  <2>2. WorkerTypeOK'
    BY <1>8 DEF Spawn, WorkerTypeOK, WorkerPc
  <2> QED  BY <1>8, <2>1, <2>2, GroupWise DEF Spawn, storeVars, launcherVars, workerVars
<1>9. ASSUME NEW l \in Launch, LauncherFails(l)
      PROVE  TypeOK'
  <2>1. LauncherTypeOK'
    BY <1>9 DEF LauncherFails, LauncherTypeOK, LauncherPc
  <2> QED  BY <1>9, <2>1, GroupWise DEF LauncherFails, storeVars, launcherVars, workerVars
<1>10. ASSUME NEW l \in Launch, SpawnConfirmed(l)
      PROVE  TypeOK'
  <2>1. LauncherTypeOK'
    BY <1>10 DEF SpawnConfirmed, LauncherTypeOK, LauncherPc
  <2> QED  BY <1>10, <2>1, GroupWise DEF SpawnConfirmed, storeVars, launcherVars, workerVars
<1>11. ASSUME NEW l \in Launch, SpawnExited(l)
      PROVE  TypeOK'
  <2>1. LauncherTypeOK'
    BY <1>11 DEF SpawnExited, LauncherTypeOK, LauncherPc
  <2> QED  BY <1>11, <2>1, GroupWise DEF SpawnExited, storeVars, launcherVars, workerVars
<1>12. ASSUME NEW l \in Launch, SpawnTimeout(l)
      PROVE  TypeOK'
  <2>1. LauncherTypeOK'
    BY <1>12 DEF SpawnTimeout, LauncherTypeOK, LauncherPc
  <2>2. WorkerTypeOK'
    BY <1>12 DEF SpawnTimeout, WorkerTypeOK, WorkerPc, Forget
  <2> QED  BY <1>12, <2>1, <2>2, GroupWise DEF SpawnTimeout, storeVars, launcherVars,
      workerVars
<1>13. ASSUME NEW l \in Launch, LauncherRelease(l)
      PROVE  TypeOK'
  <2>1. StoreTypeOK'
    BY <1>13 DEF LauncherRelease, StoreTypeOK, storeVars
  <2>2. LauncherTypeOK'
    BY <1>13 DEF LauncherRelease, LauncherTypeOK, LauncherPc
  <2> QED  BY <1>13, <2>1, <2>2, GroupWise DEF LauncherRelease, storeVars, launcherVars,
      workerVars
<1>14. ASSUME NEW l \in Launch, WorkerStart(l)
      PROVE  TypeOK'
  <2>1. WorkerTypeOK'
    BY <1>14, Working DEF WorkerStart, WorkerTypeOK, WorkerPc
  <2> QED  BY <1>14, <2>1, GroupWise DEF WorkerStart, storeVars, launcherVars, workerVars
<1>15. ASSUME NEW l \in Launch, WorkerClaim(l)
      PROVE  TypeOK'
  <2>1. StoreTypeOK'
    BY <1>15, OwnersTyped DEF WorkerClaim, StoreTypeOK, storeVars
  <2>2. WorkerTypeOK'
    BY <1>15 DEF WorkerClaim, WorkerTypeOK, WorkerPc
  <2> QED  BY <1>15, <2>1, <2>2, GroupWise DEF WorkerClaim, storeVars, launcherVars,
      workerVars
<1>16. ASSUME NEW l \in Launch, WorkerIdentify(l)
      PROVE  TypeOK'
  <2>1. StoreTypeOK'
    BY <1>16, Working DEF WorkerIdentify, CanUpdate, StoreTypeOK, Statuses
  <2>2. WorkerTypeOK'
    BY <1>16 DEF WorkerIdentify, WorkerTypeOK, WorkerPc
  <2> QED  BY <1>16, <2>1, <2>2, GroupWise DEF WorkerIdentify, storeVars, launcherVars,
      workerVars
<1>17. ASSUME NEW l \in Launch, WorkerAdvance(l)
      PROVE  TypeOK'
  <2>1. StoreTypeOK'
    BY <1>17, Working DEF WorkerAdvance, CanUpdate, NextStage, StoreTypeOK, Statuses
  <2>2. WorkerTypeOK'
    BY <1>17 DEF WorkerAdvance, NextStage, WorkerTypeOK, WorkerPc
  <2> QED  BY <1>17, <2>1, <2>2, GroupWise DEF WorkerAdvance, storeVars, launcherVars,
      workerVars
<1>18. ASSUME NEW l \in Launch, PrepareAgent(l)
      PROVE  TypeOK'
  <2>1. WorkerTypeOK'
    BY <1>18 DEF PrepareAgent, WorkerTypeOK, WorkerPc
  <2> QED  BY <1>18, <2>1, GroupWise DEF PrepareAgent, storeVars, launcherVars, workerVars
<1>19. ASSUME NEW l \in Launch, StartAgent(l)
      PROVE  TypeOK'
  <2>1. WorkerTypeOK'
    BY <1>19 DEF StartAgent, WorkerTypeOK, WorkerPc
  <2> QED  BY <1>19, <2>1, GroupWise DEF StartAgent, storeVars, launcherVars, workerVars
<1>20. ASSUME NEW l \in Launch, AgentAnswers(l)
      PROVE  TypeOK'
  <2>1. WorkerTypeOK'
    BY <1>20 DEF AgentAnswers, WorkerTypeOK, WorkerPc
  <2> QED  BY <1>20, <2>1, GroupWise DEF AgentAnswers, storeVars, launcherVars, workerVars
<1>21. ASSUME NEW l \in Launch, QuiesceAgent(l)
      PROVE  TypeOK'
  <2>1. WorkerTypeOK'
    BY <1>21, AbortsType DEF QuiesceAgent, Abort, WorkerTypeOK, WorkerPc
  <2> QED  BY <1>21, <2>1, GroupWise DEF QuiesceAgent, storeVars, launcherVars, workerVars
<1>22. ASSUME NEW l \in Launch, WorkerConclude(l)
      PROVE  TypeOK'
  <2>1. WorkerTypeOK'
    BY <1>22 DEF WorkerConclude, WorkerTypeOK, WorkerPc
  <2> QED  BY <1>22, <2>1, GroupWise DEF WorkerConclude, storeVars, launcherVars, workerVars
<1>23. ASSUME NEW l \in Launch, WorkerSucceed(l)
      PROVE  TypeOK'
  <2>1. StoreTypeOK'
    BY <1>23, Working, FinalizeType DEF WorkerSucceed, TerminalStatuses
  <2>2. WorkerTypeOK'
    BY <1>23 DEF WorkerSucceed, WorkerTypeOK, WorkerPc
  <2> QED  BY <1>23, <2>1, <2>2, GroupWise DEF WorkerSucceed, storeVars, launcherVars,
      workerVars
<1>24. ASSUME NEW l \in Launch, WorkerThrows(l)
      PROVE  TypeOK'
  <2>1. WorkerTypeOK'
    BY <1>24 DEF WorkerThrows, WorkerTypeOK, WorkerPc
  <2> QED  BY <1>24, <2>1, GroupWise DEF WorkerThrows, storeVars, launcherVars, workerVars
<1>25. ASSUME NEW l \in Launch, CancelWrite(l)
      PROVE  TypeOK'
  <2>1. StoreTypeOK'
    BY <1>25, Working DEF CancelWrite, WorkerAlive, StoreTypeOK, Statuses, LiveStatuses
  <2>2. WorkerTypeOK'
    BY <1>25 DEF CancelWrite, WorkerTypeOK, WorkerPc
  <2> QED  BY <1>25, <2>1, <2>2, GroupWise DEF CancelWrite, storeVars, launcherVars,
      workerVars
<1>26. ASSUME NEW l \in Launch, CancelQuiesce(l)
      PROVE  TypeOK'
  <2>1. WorkerTypeOK'
    BY <1>26, AbortsType DEF CancelQuiesce, Abort, WorkerTypeOK, WorkerPc
  <2> QED  BY <1>26, <2>1, GroupWise DEF CancelQuiesce, storeVars, launcherVars, workerVars
<1>27. ASSUME NEW l \in Launch, WorkerCatch(l)
      PROVE  TypeOK'
  <2>1. WorkerTypeOK'
    BY <1>27 DEF WorkerCatch, WorkerTypeOK, WorkerPc
  <2> QED  BY <1>27, <2>1, GroupWise DEF WorkerCatch, storeVars, launcherVars, workerVars
<1>28. ASSUME NEW l \in Launch, WorkerQuiesce(l)
      PROVE  TypeOK'
  <2>1. WorkerTypeOK'
    BY <1>28, AbortsType DEF WorkerQuiesce, Abort, WorkerTypeOK, WorkerPc
  <2> QED  BY <1>28, <2>1, GroupWise DEF WorkerQuiesce, storeVars, launcherVars, workerVars
<1>29. ASSUME NEW l \in Launch, WorkerReadsOutcome(l)
      PROVE  TypeOK'
  <2>1. WorkerTypeOK'
    BY <1>29, Working DEF WorkerReadsOutcome, Active, Statuses, TerminalStatuses,
        WorkerTypeOK, WorkerPc
  <2> QED  BY <1>29, <2>1, GroupWise DEF WorkerReadsOutcome, storeVars, launcherVars,
      workerVars
<1>30. ASSUME NEW l \in Launch, WorkerRecord(l)
      PROVE  TypeOK'
  <2>1. StoreTypeOK'
    <3> DEFINE j == jobOf[l]
    <3>1. j \in Job
      BY <1>30, Working DEF WorkerRecord
    <3>2. CASE readStatus[l] = None /\ CanFinalize(j, outcome[l], WorkerToken(l))
      <4>1. outcome[l] \in TerminalStatuses
        BY <3>2, NoneAssumption, AllowedFacts DEF CanFinalize, CanTransition, Statuses, WorkerTypeOK
      <4>2. Finalize(j, outcome[l], WorkerToken(l))
        BY <1>30, <3>2, NoneAssumption DEF WorkerRecord, Statuses
      <4> QED  BY <3>1, <4>1, <4>2, FinalizeType
    <3>3. CASE readStatus[l] = None /\ ~CanFinalize(j, outcome[l], WorkerToken(l))
      BY <1>30, <3>3, NoneAssumption DEF WorkerRecord, Statuses, StoreTypeOK, storeVars
    <3>4. CASE readStatus[l] # None
      BY <1>30, <3>1, <3>4 DEF WorkerRecord, StoreTypeOK, WorkerTypeOK
    <3> QED  BY <3>2, <3>3, <3>4
  <2>2. WorkerTypeOK'
    BY <1>30 DEF WorkerRecord, WorkerTypeOK, WorkerPc
  <2> QED  BY <1>30, <2>1, <2>2, GroupWise DEF WorkerRecord, storeVars, launcherVars,
      workerVars
<1>31. ASSUME NEW l \in Launch, WorkerClose(l)
      PROVE  TypeOK'
  <2>1. StoreTypeOK'
    BY <1>31 DEF WorkerClose, StoreTypeOK, storeVars
  <2>2. WorkerTypeOK'
    BY <1>31, AbortsType DEF WorkerClose, Abort, WorkerTypeOK, WorkerPc
  <2> QED  BY <1>31, <2>1, <2>2, GroupWise DEF WorkerClose, storeVars, launcherVars,
      workerVars
<1>32. ASSUME NEW l \in Launch, WorkerExit(l)
      PROVE  TypeOK'
  <2>1. StoreTypeOK'
    BY <1>32 DEF WorkerExit, StoreTypeOK, storeVars
  <2>2. WorkerTypeOK'
    BY <1>32 DEF WorkerExit, WorkerTypeOK, WorkerPc, Forget
  <2> QED  BY <1>32, <2>1, <2>2, GroupWise DEF WorkerExit, storeVars, launcherVars,
      workerVars
<1>33. ASSUME NEW l \in Launch, SpawnProbeThrows(l)
      PROVE  TypeOK'
  <2>1. LauncherTypeOK'
    BY <1>33 DEF SpawnProbeThrows, LauncherTypeOK, LauncherPc
  <2> QED  BY <1>33, <2>1, GroupWise DEF SpawnProbeThrows, storeVars, launcherVars,
      workerVars
<1>34. ASSUME NEW l \in Launch, LauncherCrash(l)
      PROVE  TypeOK'
  <2>1. LauncherTypeOK'
    BY <1>34 DEF LauncherCrash, LauncherTypeOK, LauncherPc
  <2> QED  BY <1>34, <2>1, GroupWise DEF LauncherCrash, storeVars, launcherVars, workerVars
<1>35. ASSUME NEW l \in Launch, WorkerStartFails(l)
      PROVE  TypeOK'
  <2>1. StoreTypeOK'
    BY <1>35 DEF WorkerStartFails, StoreTypeOK, storeVars
  <2>2. WorkerTypeOK'
    BY <1>35 DEF WorkerStartFails, WorkerTypeOK, WorkerPc
  <2> QED  BY <1>35, <2>1, <2>2, GroupWise DEF WorkerStartFails, storeVars, launcherVars,
      workerVars
<1>36. ASSUME NEW l \in Launch, CancelRequest(l)
      PROVE  TypeOK'
  <2>1. WorkerTypeOK'
    BY <1>36 DEF CancelRequest, WorkerTypeOK, WorkerPc
  <2> QED  BY <1>36, <2>1, GroupWise DEF CancelRequest, storeVars, launcherVars, workerVars
<1>37. ASSUME NEW l \in Launch, WorkerCrash(l)
      PROVE  TypeOK'
  <2>1. WorkerTypeOK'
    BY <1>37 DEF WorkerCrash, WorkerTypeOK, WorkerPc, Forget
  <2> QED  BY <1>37, <2>1, GroupWise DEF WorkerCrash, storeVars, launcherVars, workerVars
<1>38. ASSUME NEW c \in Client, NEW j \in Job, StatusRead(c, j)
      PROVE  TypeOK'
  <2>1. ClientTypeOK'
    BY <1>38, NoneAssumption DEF StatusRead, Active, AtRest, ClientTypeOK, StoreTypeOK,
        ClientPc, Statuses
  <2> QED  BY <1>38, <2>1, GroupWise DEF StatusRead, storeVars, launcherVars, workerVars
<1>39. ASSUME NEW c \in Client, StatusInspect(c)
      PROVE  TypeOK'
  <2>1. ClientTypeOK'
    <3>1. PICK i \in Inspections(lease) : StatusInspect(c)!2!(i)
      BY <1>39 DEF StatusInspect
    <3>2. CASE OwnLease(c) /\ client' = [client EXCEPT ![c].pc = "adopt", ![c].who = lease.launch]
      <4>1. lease.launch \in Launch
        BY <3>2 DEF OwnLease, StoreTypeOK, Owner
      <4> QED  BY <3>2, <4>1 DEF ClientTypeOK, ClientPc
    <3>3. CASE Return(c)
      BY <3>3, ReturnType
    <3>4. CASE Interrupting(c, IF OwnLease(c) THEN lease ELSE None)
      BY <3>4, InterruptingType DEF StoreTypeOK, OwnLease
    <3> QED  BY <3>1, <3>2, <3>3, <3>4
  <2> QED  BY <1>39, <2>1, GroupWise DEF StatusInspect, storeVars, launcherVars, workerVars
<1>40. ASSUME NEW c \in Client, StatusAdopt(c)
      PROVE  TypeOK'
  <2>1. StoreTypeOK'
    BY <1>40 DEF StatusAdopt, CanUpdate, StoreTypeOK, Links, Statuses
  <2>2. ClientTypeOK'
    BY <1>40 DEF StatusAdopt, Return, AtRest, ClientTypeOK, ClientPc
  <2> QED  BY <1>40, <2>1, <2>2, GroupWise DEF StatusAdopt, storeVars, launcherVars,
      workerVars
<1>41. ASSUME NEW c \in Client, StatusVerify(c)
      PROVE  TypeOK'
  <2>1. ClientTypeOK'
    <3>1. CASE Return(c)
      BY <3>1, ReturnType
    <3>2. CASE Interrupting(c, WorkerOwner(client[c].who))
      <4>1. WorkerOwner(client[c].who) \in Owner
        BY <1>41, OwnersTyped DEF StatusVerify, Links
      <4> QED  BY <3>2, <4>1, InterruptingType
    <3> QED  BY <1>41, <3>1, <3>2 DEF StatusVerify
  <2> QED  BY <1>41, <2>1, GroupWise DEF StatusVerify, storeVars, launcherVars, workerVars
<1>42. ASSUME NEW c \in Client, StatusInterrupt(c)
      PROVE  TypeOK'
  <2>1. StoreTypeOK'
    BY <1>42, FinalizeType DEF StatusInterrupt, StoreTypeOK, Links, TerminalStatuses,
        storeVars
  <2>2. ClientTypeOK'
    BY <1>42 DEF StatusInterrupt, Return, AtRest, ClientTypeOK, ClientPc
  <2> QED  BY <1>42, <2>1, <2>2, GroupWise DEF StatusInterrupt, storeVars, launcherVars,
      workerVars
<1> QED  BY <1>1, <1>2, <1>3, <1>4, <1>5, <1>6, <1>7, <1>8, <1>9, <1>10, <1>11, <1>12,
    <1>13, <1>14, <1>15, <1>16, <1>17, <1>18, <1>19, <1>20, <1>21, <1>22, <1>23, <1>24,
    <1>25, <1>26, <1>27, <1>28, <1>29, <1>30, <1>31, <1>32, <1>33, <1>34, <1>35, <1>36,
    <1>37, <1>38, <1>39, <1>40, <1>41, <1>42 DEF Next, LauncherProgress, WorkerProgress,
    StatusProgress, Fault

\* ... and the links between launches, workers, clients and jobs.
LEMMA LinksStep ==
  ASSUME TypeOK, Links, Next
  PROVE  Links'
<1> USE NoneAssumption DEF Links, Unspawned, Statuses, LiveStatuses, TerminalStatuses,
           CanTransition, TypeOK, StoreTypeOK, LauncherTypeOK, WorkerTypeOK, ClientTypeOK,
           storeVars, launcherVars, workerVars
<1>1. ASSUME NEW l \in Launch, NEW j \in Job, BeginStart(l, j)
      PROVE  Links'
  BY <1>1 DEF BeginStart
<1>2. ASSUME NEW l \in Launch, NEW j \in Job, BeginResume(l, j)
      PROVE  Links'
  BY <1>2 DEF BeginResume
<1>3. ASSUME NEW l \in Launch, AcquireFree(l)
      PROVE  Links'
  BY <1>3 DEF AcquireFree
<1>4. ASSUME NEW l \in Launch, AcquireInspect(l)
      PROVE  Links'
  BY <1>4 DEF AcquireInspect
<1>5. ASSUME NEW l \in Launch, AcquireRemove(l)
      PROVE  Links'
  BY <1>5 DEF AcquireRemove
<1>6. ASSUME NEW l \in Launch, Initialize(l)
      PROVE  Links'
  BY <1>6 DEF Initialize
<1>7. ASSUME NEW l \in Launch, Consume(l)
      PROVE  Links'
  BY <1>7 DEF Consume
<1>8. ASSUME NEW l \in Launch, Spawn(l)
      PROVE  Links'
  BY <1>8 DEF Spawn
<1>9. ASSUME NEW l \in Launch, LauncherFails(l)
      PROVE  Links'
  BY <1>9 DEF LauncherFails
<1>10. ASSUME NEW l \in Launch, SpawnConfirmed(l)
      PROVE  Links'
  BY <1>10 DEF SpawnConfirmed
<1>11. ASSUME NEW l \in Launch, SpawnExited(l)
      PROVE  Links'
  BY <1>11 DEF SpawnExited
<1>12. ASSUME NEW l \in Launch, SpawnTimeout(l)
      PROVE  Links'
  BY <1>12 DEF SpawnTimeout
<1>13. ASSUME NEW l \in Launch, LauncherRelease(l)
      PROVE  Links'
  BY <1>13 DEF LauncherRelease
<1>14. ASSUME NEW l \in Launch, WorkerStart(l)
      PROVE  Links'
  BY <1>14 DEF WorkerStart
<1>15. ASSUME NEW l \in Launch, WorkerClaim(l)
      PROVE  Links'
  BY <1>15 DEF WorkerClaim
<1>16. ASSUME NEW l \in Launch, WorkerIdentify(l)
      PROVE  Links'
  BY <1>16 DEF WorkerIdentify, CanUpdate
<1>17. ASSUME NEW l \in Launch, WorkerAdvance(l)
      PROVE  Links'
  BY <1>17 DEF WorkerAdvance, NextStage
<1>18. ASSUME NEW l \in Launch, PrepareAgent(l)
      PROVE  Links'
  BY <1>18 DEF PrepareAgent
<1>19. ASSUME NEW l \in Launch, StartAgent(l)
      PROVE  Links'
  BY <1>19 DEF StartAgent
<1>20. ASSUME NEW l \in Launch, AgentAnswers(l)
      PROVE  Links'
  BY <1>20 DEF AgentAnswers
<1>21. ASSUME NEW l \in Launch, QuiesceAgent(l)
      PROVE  Links'
  BY <1>21 DEF QuiesceAgent
<1>22. ASSUME NEW l \in Launch, WorkerConclude(l)
      PROVE  Links'
  BY <1>22 DEF WorkerConclude
<1>23. ASSUME NEW l \in Launch, WorkerSucceed(l)
      PROVE  Links'
  BY <1>23 DEF WorkerSucceed, Finalize
<1>24. ASSUME NEW l \in Launch, WorkerThrows(l)
      PROVE  Links'
  BY <1>24 DEF WorkerThrows, InTry
<1>25. ASSUME NEW l \in Launch, CancelWrite(l)
      PROVE  Links'
  BY <1>25 DEF CancelWrite
<1>26. ASSUME NEW l \in Launch, CancelQuiesce(l)
      PROVE  Links'
  BY <1>26 DEF CancelQuiesce
<1>27. ASSUME NEW l \in Launch, WorkerCatch(l)
      PROVE  Links'
  BY <1>27 DEF WorkerCatch
<1>28. ASSUME NEW l \in Launch, WorkerQuiesce(l)
      PROVE  Links'
  BY <1>28 DEF WorkerQuiesce
<1>29. ASSUME NEW l \in Launch, WorkerReadsOutcome(l)
      PROVE  Links'
  BY <1>29 DEF WorkerReadsOutcome
<1>30. ASSUME NEW l \in Launch, WorkerRecord(l)
      PROVE  Links'
  BY <1>30, AllowedFacts DEF WorkerRecord, CanFinalize, Finalize
<1>31. ASSUME NEW l \in Launch, WorkerClose(l)
      PROVE  Links'
  BY <1>31 DEF WorkerClose
<1>32. ASSUME NEW l \in Launch, WorkerExit(l)
      PROVE  Links'
  BY <1>32 DEF WorkerExit
<1>33. ASSUME NEW l \in Launch, SpawnProbeThrows(l)
      PROVE  Links'
  BY <1>33 DEF SpawnProbeThrows
<1>34. ASSUME NEW l \in Launch, LauncherCrash(l)
      PROVE  Links'
  BY <1>34 DEF LauncherCrash, LauncherAlive
<1>35. ASSUME NEW l \in Launch, WorkerStartFails(l)
      PROVE  Links'
  BY <1>35 DEF WorkerStartFails
<1>36. ASSUME NEW l \in Launch, CancelRequest(l)
      PROVE  Links'
  BY <1>36 DEF CancelRequest
<1>37. ASSUME NEW l \in Launch, WorkerCrash(l)
      PROVE  Links'
  BY <1>37 DEF WorkerCrash, WorkerAlive
<1>38. ASSUME NEW c \in Client, NEW j \in Job, StatusRead(c, j)
      PROVE  Links'
  BY <1>38 DEF StatusRead
<1>39. ASSUME NEW c \in Client, StatusInspect(c)
      PROVE  Links'
  <2>1. PICK i \in Inspections(lease) : StatusInspect(c)!2!(i)
    BY <1>39 DEF StatusInspect
  <2>2. client[c].pc = "inspect" /\ UNCHANGED <<storeVars, lease, launcherVars, workerVars>>
    BY <1>39 DEF StatusInspect
  <2>3. CASE OwnLease(c) /\ client' = [client EXCEPT ![c].pc = "adopt", ![c].who = lease.launch]
    BY <2>2, <2>3 DEF OwnLease, Owner, ClientPc
  <2>4. CASE Return(c)
    BY <2>2, <2>4 DEF Return, AtRest
  <2>5. CASE Interrupting(c, IF OwnLease(c) THEN lease ELSE None)
    BY <2>2, <2>5 DEF Interrupting, AtRest
  <2> QED  BY <2>1, <2>3, <2>4, <2>5
<1>40. ASSUME NEW c \in Client, StatusAdopt(c)
      PROVE  Links'
  <2>1. CASE CanUpdate(client[c].job, client[c].status)
    BY <1>40, <2>1 DEF StatusAdopt, CanUpdate, ClientPc
  <2>2. CASE ~CanUpdate(client[c].job, client[c].status)
    <3>1. Return(c) /\ UNCHANGED <<storeVars, lease, launcherVars, workerVars>>
      BY <1>40, <2>2 DEF StatusAdopt
    <3> QED  BY <3>1 DEF Return, AtRest
  <2> QED  BY <2>1, <2>2
<1>41. ASSUME NEW c \in Client, StatusVerify(c)
      PROVE  Links'
  <2>1. client[c].pc = "verify" /\ UNCHANGED <<storeVars, lease, launcherVars, workerVars>>
    BY <1>41 DEF StatusVerify
  <2>2. CASE Interrupting(c, WorkerOwner(client[c].who))
    BY <2>1, <2>2 DEF Interrupting, AtRest
  <2>3. CASE Return(c)
    BY <2>1, <2>3 DEF Return, AtRest
  <2> QED  BY <1>41, <2>2, <2>3 DEF StatusVerify
<1>42. ASSUME NEW c \in Client, StatusInterrupt(c)
      PROVE  Links'
  BY <1>42 DEF StatusInterrupt, Finalize, Return, AtRest
<1> QED  BY <1>1, <1>2, <1>3, <1>4, <1>5, <1>6, <1>7, <1>8, <1>9, <1>10, <1>11, <1>12,
    <1>13, <1>14, <1>15, <1>16, <1>17, <1>18, <1>19, <1>20, <1>21, <1>22, <1>23, <1>24,
    <1>25, <1>26, <1>27, <1>28, <1>29, <1>30, <1>31, <1>32, <1>33, <1>34, <1>35, <1>36,
    <1>37, <1>38, <1>39, <1>40, <1>41, <1>42 DEF Next, LauncherProgress, WorkerProgress,
    StatusProgress, Fault

LEMMA TypeInit == Init => TypeOK /\ Links
  BY NoneAssumption DEF Init, AtRest, TypeOK, StoreTypeOK, LauncherTypeOK, WorkerTypeOK,
     ClientTypeOK, Links, Unspawned, LauncherPc, WorkerPc, ClientPc

LEMMA TypeStutter == ASSUME TypeOK, Links, UNCHANGED vars PROVE TypeOK' /\ Links'
  BY DEF vars, storeVars, launcherVars, workerVars, TypeOK, StoreTypeOK, LauncherTypeOK,
     WorkerTypeOK, ClientTypeOK, Links, Unspawned

LEMMA Typed == Spec => [](TypeOK /\ Links)
<1>1. TypeOK /\ Links /\ [Next]_vars => (TypeOK /\ Links)'
  BY TypeStep, LinksStep, TypeStutter
<1> QED  BY <1>1, TypeInit, PTL DEF Spec

\* Every variable keeps the type its column, field or local variable has.
THEOREM TypeCorrect == Spec => []TypeOK
  BY Typed, PTL

-----------------------------------------------------------------------------
(* Mutual exclusion *)

\* Who is named where.  A worker holds its token only between claim and exit;
\* a lease, a job state or a client that names a worker names one that was
\* spawned; and a launcher about to delete a worker's row, or a client about to
\* present a worker's token, has seen that worker's process gone.
Names ==
  /\ \A l \in Launch : holding[l] => wpc[l] \notin {"none", "starting", "claiming", "gone"}
  /\ lease \in Owner /\ lease.kind = "worker" => wpc[lease.launch] # "none"
  /\ \A j \in Job : identity[j] \in Launch => wpc[identity[j]] # "none"
  /\ \A l \in Launch :
       seen[l] \in Owner /\ seen[l].kind = "worker" => wpc[seen[l].launch] = "gone"
  /\ \A c \in Client :
       client[c].pc \in {"adopt", "verify"} => wpc[client[c].who] # "none"
  /\ \A c \in Client :
       /\ client[c].pc = "interrupt"
       /\ client[c].token \in Owner /\ client[c].token.kind = "worker"
       => wpc[client[c].token.launch] = "gone"

LEMMA NamesStep ==
  ASSUME TypeOK, Links, Names, Next
  PROVE  Names'
<1> USE NoneAssumption DEF Links, Unspawned, Names, Owner, TypeOK, StoreTypeOK, LauncherTypeOK, WorkerTypeOK, ClientTypeOK,
           storeVars, launcherVars, workerVars
<1>1. ASSUME NEW l \in Launch, NEW j \in Job, BeginStart(l, j)
      PROVE  Names'
  BY <1>1 DEF BeginStart
<1>2. ASSUME NEW l \in Launch, NEW j \in Job, BeginResume(l, j)
      PROVE  Names'
  BY <1>2 DEF BeginResume
<1>3. ASSUME NEW l \in Launch, AcquireFree(l)
      PROVE  Names'
  BY <1>3 DEF AcquireFree, LauncherOwner
<1>4. ASSUME NEW l \in Launch, AcquireInspect(l)
      PROVE  Names'
  BY <1>4 DEF AcquireInspect, Inspections, Verdicts, LauncherPc, WorkerAlive
<1>5. ASSUME NEW l \in Launch, AcquireRemove(l)
      PROVE  Names'
  BY <1>5 DEF AcquireRemove
<1>6. ASSUME NEW l \in Launch, Initialize(l)
      PROVE  Names'
  BY <1>6 DEF Initialize
<1>7. ASSUME NEW l \in Launch, Consume(l)
      PROVE  Names'
  BY <1>7 DEF Consume
<1>8. ASSUME NEW l \in Launch, Spawn(l)
      PROVE  Names'
  BY <1>8 DEF Spawn
<1>9. ASSUME NEW l \in Launch, LauncherFails(l)
      PROVE  Names'
  BY <1>9 DEF LauncherFails
<1>10. ASSUME NEW l \in Launch, SpawnConfirmed(l)
      PROVE  Names'
  BY <1>10 DEF SpawnConfirmed
<1>11. ASSUME NEW l \in Launch, SpawnExited(l)
      PROVE  Names'
  BY <1>11 DEF SpawnExited
<1>12. ASSUME NEW l \in Launch, SpawnTimeout(l)
      PROVE  Names'
  BY <1>12 DEF SpawnTimeout, Forget
<1>13. ASSUME NEW l \in Launch, LauncherRelease(l)
      PROVE  Names'
  BY <1>13 DEF LauncherRelease
<1>14. ASSUME NEW l \in Launch, WorkerStart(l)
      PROVE  Names'
  BY <1>14 DEF WorkerStart
<1>15. ASSUME NEW l \in Launch, WorkerClaim(l)
      PROVE  Names'
  BY <1>15 DEF WorkerClaim, WorkerOwner
<1>16. ASSUME NEW l \in Launch, WorkerIdentify(l)
      PROVE  Names'
  BY <1>16 DEF WorkerIdentify
<1>17. ASSUME NEW l \in Launch, WorkerAdvance(l)
      PROVE  Names'
  BY <1>17 DEF WorkerAdvance, NextStage
<1>18. ASSUME NEW l \in Launch, PrepareAgent(l)
      PROVE  Names'
  BY <1>18 DEF PrepareAgent
<1>19. ASSUME NEW l \in Launch, StartAgent(l)
      PROVE  Names'
  BY <1>19 DEF StartAgent
<1>20. ASSUME NEW l \in Launch, AgentAnswers(l)
      PROVE  Names'
  BY <1>20 DEF AgentAnswers
<1>21. ASSUME NEW l \in Launch, QuiesceAgent(l)
      PROVE  Names'
  BY <1>21 DEF QuiesceAgent
<1>22. ASSUME NEW l \in Launch, WorkerConclude(l)
      PROVE  Names'
  BY <1>22 DEF WorkerConclude
<1>23. ASSUME NEW l \in Launch, WorkerSucceed(l)
      PROVE  Names'
  BY <1>23 DEF WorkerSucceed, Finalize
<1>24. ASSUME NEW l \in Launch, WorkerThrows(l)
      PROVE  Names'
  BY <1>24 DEF WorkerThrows, InTry
<1>25. ASSUME NEW l \in Launch, CancelWrite(l)
      PROVE  Names'
  BY <1>25 DEF CancelWrite
<1>26. ASSUME NEW l \in Launch, CancelQuiesce(l)
      PROVE  Names'
  BY <1>26 DEF CancelQuiesce
<1>27. ASSUME NEW l \in Launch, WorkerCatch(l)
      PROVE  Names'
  BY <1>27 DEF WorkerCatch
<1>28. ASSUME NEW l \in Launch, WorkerQuiesce(l)
      PROVE  Names'
  BY <1>28 DEF WorkerQuiesce
<1>29. ASSUME NEW l \in Launch, WorkerReadsOutcome(l)
      PROVE  Names'
  BY <1>29 DEF WorkerReadsOutcome
<1>30. ASSUME NEW l \in Launch, WorkerRecord(l)
      PROVE  Names'
  BY <1>30 DEF WorkerRecord, Finalize
<1>31. ASSUME NEW l \in Launch, WorkerClose(l)
      PROVE  Names'
  BY <1>31 DEF WorkerClose
<1>32. ASSUME NEW l \in Launch, WorkerExit(l)
      PROVE  Names'
  BY <1>32 DEF WorkerExit, Forget
<1>33. ASSUME NEW l \in Launch, SpawnProbeThrows(l)
      PROVE  Names'
  BY <1>33 DEF SpawnProbeThrows
<1>34. ASSUME NEW l \in Launch, LauncherCrash(l)
      PROVE  Names'
  BY <1>34 DEF LauncherCrash
<1>35. ASSUME NEW l \in Launch, WorkerStartFails(l)
      PROVE  Names'
  BY <1>35 DEF WorkerStartFails
<1>36. ASSUME NEW l \in Launch, CancelRequest(l)
      PROVE  Names'
  BY <1>36 DEF CancelRequest
<1>37. ASSUME NEW l \in Launch, WorkerCrash(l)
      PROVE  Names'
  BY <1>37 DEF WorkerCrash, Forget
<1>38. ASSUME NEW c \in Client, NEW j \in Job, StatusRead(c, j)
      PROVE  Names'
  BY <1>38 DEF StatusRead
<1>39. ASSUME NEW c \in Client, StatusInspect(c)
      PROVE  Names'
  <2>1. PICK i \in Inspections(lease) : StatusInspect(c)!2!(i)
    BY <1>39 DEF StatusInspect
  <2>2. client[c].pc = "inspect" /\ UNCHANGED <<storeVars, lease, launcherVars, workerVars>>
    BY <1>39 DEF StatusInspect
  <2>3. CASE OwnLease(c) /\ i = "verified-worker"
            /\ client' = [client EXCEPT ![c].pc = "adopt", ![c].who = lease.launch]
    <3>1. lease.kind = "worker"
      BY <2>1, <2>3 DEF OwnLease, Inspections
    <3> QED  BY <2>2, <2>3, <3>1 DEF OwnLease
  <2>4. CASE Return(c)
    BY <2>2, <2>4 DEF Return, AtRest
  <2>5. CASE /\ OwnLease(c) => i \in {"stale", "live-launcher"}
            /\ Interrupting(c, IF OwnLease(c) THEN lease ELSE None)
    <3>1. ASSUME OwnLease(c), lease.kind = "worker" PROVE wpc[lease.launch] = "gone"
      BY <2>1, <2>5, <3>1 DEF OwnLease, Inspections, Verdicts, WorkerAlive, WorkerPc
    <3> QED  BY <2>2, <2>5, <3>1 DEF Interrupting, AtRest
  <2> QED  BY <2>1, <2>3, <2>4, <2>5
<1>40. ASSUME NEW c \in Client, StatusAdopt(c)
      PROVE  Names'
  <2>1. CASE CanUpdate(client[c].job, client[c].status)
    <3>1. /\ client[c].pc = "adopt" /\ UNCHANGED <<lease, launcherVars, workerVars>>
          /\ client' = [client EXCEPT ![c].pc = "verify", ![c].status = None]
          /\ identity' = [identity EXCEPT ![client[c].job] = client[c].who]
      BY <1>40, <2>1 DEF StatusAdopt
    <3> QED  BY <3>1
  <2>2. CASE ~CanUpdate(client[c].job, client[c].status)
    <3>1. Return(c) /\ UNCHANGED <<storeVars, lease, launcherVars, workerVars>>
      BY <1>40, <2>2 DEF StatusAdopt
    <3> QED  BY <3>1 DEF Return, AtRest
  <2> QED  BY <2>1, <2>2
<1>41. ASSUME NEW c \in Client, StatusVerify(c)
      PROVE  Names'
  <2>1. /\ client[c].pc = "verify" /\ client[c].who \in Launch
        /\ UNCHANGED <<storeVars, lease, launcherVars, workerVars>>
    BY <1>41 DEF StatusVerify
  <2>2. CASE "disproven" \in Verdicts(client[c].who) /\ Interrupting(c, WorkerOwner(client[c].who))
    <3>1. wpc[client[c].who] = "gone"
      BY <2>1, <2>2 DEF Verdicts, WorkerAlive, WorkerPc
    <3> QED  BY <2>1, <2>2, <3>1 DEF Interrupting, AtRest, WorkerOwner
  <2>3. CASE Return(c)
    BY <2>1, <2>3 DEF Return, AtRest
  <2> QED  BY <1>41, <2>2, <2>3 DEF StatusVerify
<1>42. ASSUME NEW c \in Client, StatusInterrupt(c)
      PROVE  Names'
  BY <1>42 DEF StatusInterrupt, Finalize, Return, AtRest
<1> QED  BY <1>1, <1>2, <1>3, <1>4, <1>5, <1>6, <1>7, <1>8, <1>9, <1>10, <1>11, <1>12,
    <1>13, <1>14, <1>15, <1>16, <1>17, <1>18, <1>19, <1>20, <1>21, <1>22, <1>23, <1>24,
    <1>25, <1>26, <1>27, <1>28, <1>29, <1>30, <1>31, <1>32, <1>33, <1>34, <1>35, <1>36,
    <1>37, <1>38, <1>39, <1>40, <1>41, <1>42 DEF Next, LauncherProgress, WorkerProgress,
    StatusProgress, Fault

LEMMA NamesInvariant == Spec => []Names
<1>1. Init => Names
  BY NoneAssumption DEF Init, Names, AtRest
<1>2. TypeOK /\ Links /\ Names /\ [Next]_vars => Names'
  <2>1. ASSUME Names, UNCHANGED vars PROVE Names'
    BY <2>1 DEF Names, vars, storeVars, launcherVars, workerVars
  <2> QED  BY <2>1, NamesStep
<1> QED  BY <1>1, <1>2, Typed, PTL DEF Spec

\* The lease row of an executing worker is deleted by nobody: the launcher that
\* spawned it deletes it only once the worker is gone, which is where a probe
\* that throws would break the argument.
Exclusive ==
  /\ \A l \in Launch : lpc[l] = "release" => wpc[l] \in {"none", "gone"}
  /\ EngagedHoldsLease

LEMMA ExclusiveStep ==
  ASSUME ProbeMayFail = FALSE, TypeOK, Links, Names, Exclusive, Next
  PROVE  Exclusive'
<1> USE NoneAssumption DEF Links, Unspawned, Names, Exclusive, EngagedHoldsLease, Engaged, InTry,
           LauncherOwner, WorkerOwner, Owner, TypeOK, StoreTypeOK, LauncherTypeOK, WorkerTypeOK, ClientTypeOK,
           storeVars, launcherVars, workerVars
<1>1. ASSUME NEW l \in Launch, NEW j \in Job, BeginStart(l, j)
      PROVE  Exclusive'
  BY <1>1 DEF BeginStart
<1>2. ASSUME NEW l \in Launch, NEW j \in Job, BeginResume(l, j)
      PROVE  Exclusive'
  BY <1>2 DEF BeginResume
<1>3. ASSUME NEW l \in Launch, AcquireFree(l)
      PROVE  Exclusive'
  BY <1>3 DEF AcquireFree
<1>4. ASSUME NEW l \in Launch, AcquireInspect(l)
      PROVE  Exclusive'
  BY <1>4 DEF AcquireInspect
<1>5. ASSUME NEW l \in Launch, AcquireRemove(l)
      PROVE  Exclusive'
  BY <1>5 DEF AcquireRemove
<1>6. ASSUME NEW l \in Launch, Initialize(l)
      PROVE  Exclusive'
  BY <1>6 DEF Initialize
<1>7. ASSUME NEW l \in Launch, Consume(l)
      PROVE  Exclusive'
  BY <1>7 DEF Consume
<1>8. ASSUME NEW l \in Launch, Spawn(l)
      PROVE  Exclusive'
  BY <1>8 DEF Spawn
<1>9. ASSUME NEW l \in Launch, LauncherFails(l)
      PROVE  Exclusive'
  BY <1>9 DEF LauncherFails
<1>10. ASSUME NEW l \in Launch, SpawnConfirmed(l)
      PROVE  Exclusive'
  BY <1>10 DEF SpawnConfirmed
<1>11. ASSUME NEW l \in Launch, SpawnExited(l)
      PROVE  Exclusive'
  BY <1>11 DEF SpawnExited
<1>12. ASSUME NEW l \in Launch, SpawnTimeout(l)
      PROVE  Exclusive'
  BY <1>12 DEF SpawnTimeout, Forget
<1>13. ASSUME NEW l \in Launch, LauncherRelease(l)
      PROVE  Exclusive'
  BY <1>13 DEF LauncherRelease
<1>14. ASSUME NEW l \in Launch, WorkerStart(l)
      PROVE  Exclusive'
  BY <1>14 DEF WorkerStart
<1>15. ASSUME NEW l \in Launch, WorkerClaim(l)
      PROVE  Exclusive'
  BY <1>15 DEF WorkerClaim
<1>16. ASSUME NEW l \in Launch, WorkerIdentify(l)
      PROVE  Exclusive'
  BY <1>16 DEF WorkerIdentify
<1>17. ASSUME NEW l \in Launch, WorkerAdvance(l)
      PROVE  Exclusive'
  BY <1>17 DEF WorkerAdvance, NextStage
<1>18. ASSUME NEW l \in Launch, PrepareAgent(l)
      PROVE  Exclusive'
  BY <1>18 DEF PrepareAgent
<1>19. ASSUME NEW l \in Launch, StartAgent(l)
      PROVE  Exclusive'
  BY <1>19 DEF StartAgent
<1>20. ASSUME NEW l \in Launch, AgentAnswers(l)
      PROVE  Exclusive'
  BY <1>20 DEF AgentAnswers
<1>21. ASSUME NEW l \in Launch, QuiesceAgent(l)
      PROVE  Exclusive'
  BY <1>21 DEF QuiesceAgent
<1>22. ASSUME NEW l \in Launch, WorkerConclude(l)
      PROVE  Exclusive'
  BY <1>22 DEF WorkerConclude
<1>23. ASSUME NEW l \in Launch, WorkerSucceed(l)
      PROVE  Exclusive'
  BY <1>23 DEF WorkerSucceed
<1>24. ASSUME NEW l \in Launch, WorkerThrows(l)
      PROVE  Exclusive'
  BY <1>24 DEF WorkerThrows
<1>25. ASSUME NEW l \in Launch, CancelWrite(l)
      PROVE  Exclusive'
  BY <1>25 DEF CancelWrite
<1>26. ASSUME NEW l \in Launch, CancelQuiesce(l)
      PROVE  Exclusive'
  BY <1>26 DEF CancelQuiesce
<1>27. ASSUME NEW l \in Launch, WorkerCatch(l)
      PROVE  Exclusive'
  BY <1>27 DEF WorkerCatch
<1>28. ASSUME NEW l \in Launch, WorkerQuiesce(l)
      PROVE  Exclusive'
  BY <1>28 DEF WorkerQuiesce
<1>29. ASSUME NEW l \in Launch, WorkerReadsOutcome(l)
      PROVE  Exclusive'
  BY <1>29 DEF WorkerReadsOutcome
<1>30. ASSUME NEW l \in Launch, WorkerRecord(l)
      PROVE  Exclusive'
  BY <1>30 DEF WorkerRecord, CanFinalize, WorkerToken
<1>31. ASSUME NEW l \in Launch, WorkerClose(l)
      PROVE  Exclusive'
  BY <1>31 DEF WorkerClose, WorkerToken
<1>32. ASSUME NEW l \in Launch, WorkerExit(l)
      PROVE  Exclusive'
  BY <1>32 DEF WorkerExit, WorkerToken, Forget
<1>33. ASSUME NEW l \in Launch, SpawnProbeThrows(l)
      PROVE  Exclusive'
  BY <1>33 DEF SpawnProbeThrows
<1>34. ASSUME NEW l \in Launch, LauncherCrash(l)
      PROVE  Exclusive'
  BY <1>34 DEF LauncherCrash
<1>35. ASSUME NEW l \in Launch, WorkerStartFails(l)
      PROVE  Exclusive'
  BY <1>35 DEF WorkerStartFails
<1>36. ASSUME NEW l \in Launch, CancelRequest(l)
      PROVE  Exclusive'
  BY <1>36 DEF CancelRequest
<1>37. ASSUME NEW l \in Launch, WorkerCrash(l)
      PROVE  Exclusive'
  BY <1>37 DEF WorkerCrash, Forget
<1>38. ASSUME NEW c \in Client, NEW j \in Job, StatusRead(c, j)
      PROVE  Exclusive'
  BY <1>38 DEF StatusRead
<1>39. ASSUME NEW c \in Client, StatusInspect(c)
      PROVE  Exclusive'
  BY <1>39 DEF StatusInspect
<1>40. ASSUME NEW c \in Client, StatusAdopt(c)
      PROVE  Exclusive'
  BY <1>40 DEF StatusAdopt
<1>41. ASSUME NEW c \in Client, StatusVerify(c)
      PROVE  Exclusive'
  BY <1>41 DEF StatusVerify
<1>42. ASSUME NEW c \in Client, StatusInterrupt(c)
      PROVE  Exclusive'
  BY <1>42 DEF StatusInterrupt, CanFinalize, Finalize
<1> QED  BY <1>1, <1>2, <1>3, <1>4, <1>5, <1>6, <1>7, <1>8, <1>9, <1>10, <1>11, <1>12,
    <1>13, <1>14, <1>15, <1>16, <1>17, <1>18, <1>19, <1>20, <1>21, <1>22, <1>23, <1>24,
    <1>25, <1>26, <1>27, <1>28, <1>29, <1>30, <1>31, <1>32, <1>33, <1>34, <1>35, <1>36,
    <1>37, <1>38, <1>39, <1>40, <1>41, <1>42 DEF Next, LauncherProgress, WorkerProgress,
    StatusProgress, Fault

LEMMA ExclusiveInvariant ==
  ASSUME ProbeMayFail = FALSE
  PROVE  Spec => []Exclusive
<1>1. Init => Exclusive
  BY DEF Init, Exclusive, EngagedHoldsLease, Engaged, InTry
<1>2. TypeOK /\ Links /\ Names /\ Exclusive /\ [Next]_vars => Exclusive'
  <2>1. ASSUME Exclusive, UNCHANGED vars PROVE Exclusive'
    BY <2>1 DEF Exclusive, EngagedHoldsLease, Engaged, InTry, vars, storeVars, launcherVars,
                workerVars
  <2> QED  BY <2>1, ExclusiveStep
<1> QED  BY <1>1, <1>2, Typed, NamesInvariant, PTL DEF Spec

\* Nobody takes the lease of an executing worker, for any number of jobs,
\* launches and clients, whichever processes die, as long as process probes
\* do not throw.
THEOREM LeaseIsKept ==
  ASSUME ProbeMayFail = FALSE
  PROVE  Spec => []EngagedHoldsLease
<1>1. Exclusive => EngagedHoldsLease
  BY DEF Exclusive
<1> QED  BY <1>1, ExclusiveInvariant, PTL

\* "A global filesystem lease admits one active job": at most one worker
\* executes at a time, under the same assumption.
THEOREM MutualExclusion ==
  ASSUME ProbeMayFail = FALSE
  PROVE  Spec => []OneActiveWorker
<1>1. EngagedHoldsLease => OneActiveWorker
  BY DEF EngagedHoldsLease, OneActiveWorker, WorkerOwner
<1> QED  BY <1>1, LeaseIsKept, PTL

-----------------------------------------------------------------------------
(* The status column follows the documented state diagram *)

\* A start works on a job of its own, which is absent until it initialises it,
\* and a job that exists has had an attempt.
Starts ==
  /\ \A l \in Launch :
       lpc[l] \in {"acquire", "remove", "hold"} /\ source[l] = 0
       => /\ status[jobOf[l]] = "absent"
          /\ \A m \in Launch : jobOf[m] = jobOf[l] => m = l
  /\ \A j \in Job : status[j] \in Statuses => ordinal[j] # 0

LEMMA StartsStep ==
  ASSUME TypeOK, Links, Starts, Next
  PROVE  Starts'
<1> USE NoneAssumption DEF Links, Unspawned, Starts, CanTransition, Statuses, LiveStatuses,
           TerminalStatuses, TypeOK, StoreTypeOK, LauncherTypeOK, WorkerTypeOK, ClientTypeOK,
           storeVars, launcherVars, workerVars
<1>1. ASSUME NEW l \in Launch, NEW j \in Job, BeginStart(l, j)
      PROVE  Starts'
  BY <1>1 DEF BeginStart
<1>2. ASSUME NEW l \in Launch, NEW j \in Job, BeginResume(l, j)
      PROVE  Starts'
  BY <1>2 DEF BeginResume
<1>3. ASSUME NEW l \in Launch, AcquireFree(l)
      PROVE  Starts'
  BY <1>3 DEF AcquireFree
<1>4. ASSUME NEW l \in Launch, AcquireInspect(l)
      PROVE  Starts'
  BY <1>4 DEF AcquireInspect
<1>5. ASSUME NEW l \in Launch, AcquireRemove(l)
      PROVE  Starts'
  BY <1>5 DEF AcquireRemove
<1>6. ASSUME NEW l \in Launch, Initialize(l)
      PROVE  Starts'
  BY <1>6 DEF Initialize
<1>7. ASSUME NEW l \in Launch, Consume(l)
      PROVE  Starts'
  BY <1>7 DEF Consume
<1>8. ASSUME NEW l \in Launch, Spawn(l)
      PROVE  Starts'
  BY <1>8 DEF Spawn
<1>9. ASSUME NEW l \in Launch, LauncherFails(l)
      PROVE  Starts'
  BY <1>9 DEF LauncherFails
<1>10. ASSUME NEW l \in Launch, SpawnConfirmed(l)
      PROVE  Starts'
  BY <1>10 DEF SpawnConfirmed
<1>11. ASSUME NEW l \in Launch, SpawnExited(l)
      PROVE  Starts'
  BY <1>11 DEF SpawnExited
<1>12. ASSUME NEW l \in Launch, SpawnTimeout(l)
      PROVE  Starts'
  BY <1>12 DEF SpawnTimeout
<1>13. ASSUME NEW l \in Launch, LauncherRelease(l)
      PROVE  Starts'
  BY <1>13 DEF LauncherRelease
<1>14. ASSUME NEW l \in Launch, WorkerStart(l)
      PROVE  Starts'
  BY <1>14 DEF WorkerStart
<1>15. ASSUME NEW l \in Launch, WorkerClaim(l)
      PROVE  Starts'
  BY <1>15 DEF WorkerClaim
<1>16. ASSUME NEW l \in Launch, WorkerIdentify(l)
      PROVE  Starts'
  BY <1>16 DEF WorkerIdentify
<1>17. ASSUME NEW l \in Launch, WorkerAdvance(l)
      PROVE  Starts'
  BY <1>17 DEF WorkerAdvance, CanUpdate
<1>18. ASSUME NEW l \in Launch, PrepareAgent(l)
      PROVE  Starts'
  BY <1>18 DEF PrepareAgent
<1>19. ASSUME NEW l \in Launch, StartAgent(l)
      PROVE  Starts'
  BY <1>19 DEF StartAgent
<1>20. ASSUME NEW l \in Launch, AgentAnswers(l)
      PROVE  Starts'
  BY <1>20 DEF AgentAnswers
<1>21. ASSUME NEW l \in Launch, QuiesceAgent(l)
      PROVE  Starts'
  BY <1>21 DEF QuiesceAgent
<1>22. ASSUME NEW l \in Launch, WorkerConclude(l)
      PROVE  Starts'
  BY <1>22 DEF WorkerConclude
<1>23. ASSUME NEW l \in Launch, WorkerSucceed(l)
      PROVE  Starts'
  BY <1>23 DEF WorkerSucceed, Finalize
<1>24. ASSUME NEW l \in Launch, WorkerThrows(l)
      PROVE  Starts'
  BY <1>24 DEF WorkerThrows
<1>25. ASSUME NEW l \in Launch, CancelWrite(l)
      PROVE  Starts'
  BY <1>25 DEF CancelWrite, CanUpdate
<1>26. ASSUME NEW l \in Launch, CancelQuiesce(l)
      PROVE  Starts'
  BY <1>26 DEF CancelQuiesce
<1>27. ASSUME NEW l \in Launch, WorkerCatch(l)
      PROVE  Starts'
  BY <1>27 DEF WorkerCatch
<1>28. ASSUME NEW l \in Launch, WorkerQuiesce(l)
      PROVE  Starts'
  BY <1>28 DEF WorkerQuiesce
<1>29. ASSUME NEW l \in Launch, WorkerReadsOutcome(l)
      PROVE  Starts'
  BY <1>29 DEF WorkerReadsOutcome
<1>30. ASSUME NEW l \in Launch, WorkerRecord(l)
      PROVE  Starts'
  BY <1>30 DEF WorkerRecord, Finalize
<1>31. ASSUME NEW l \in Launch, WorkerClose(l)
      PROVE  Starts'
  BY <1>31 DEF WorkerClose
<1>32. ASSUME NEW l \in Launch, WorkerExit(l)
      PROVE  Starts'
  BY <1>32 DEF WorkerExit
<1>33. ASSUME NEW l \in Launch, SpawnProbeThrows(l)
      PROVE  Starts'
  BY <1>33 DEF SpawnProbeThrows
<1>34. ASSUME NEW l \in Launch, LauncherCrash(l)
      PROVE  Starts'
  BY <1>34 DEF LauncherCrash
<1>35. ASSUME NEW l \in Launch, WorkerStartFails(l)
      PROVE  Starts'
  BY <1>35 DEF WorkerStartFails
<1>36. ASSUME NEW l \in Launch, CancelRequest(l)
      PROVE  Starts'
  BY <1>36 DEF CancelRequest
<1>37. ASSUME NEW l \in Launch, WorkerCrash(l)
      PROVE  Starts'
  BY <1>37 DEF WorkerCrash
<1>38. ASSUME NEW c \in Client, NEW j \in Job, StatusRead(c, j)
      PROVE  Starts'
  BY <1>38 DEF StatusRead
<1>39. ASSUME NEW c \in Client, StatusInspect(c)
      PROVE  Starts'
  BY <1>39 DEF StatusInspect
<1>40. ASSUME NEW c \in Client, StatusAdopt(c)
      PROVE  Starts'
  BY <1>40 DEF StatusAdopt, CanUpdate
<1>41. ASSUME NEW c \in Client, StatusVerify(c)
      PROVE  Starts'
  BY <1>41 DEF StatusVerify
<1>42. ASSUME NEW c \in Client, StatusInterrupt(c)
      PROVE  Starts'
  BY <1>42 DEF StatusInterrupt, CanFinalize, Finalize
<1> QED  BY <1>1, <1>2, <1>3, <1>4, <1>5, <1>6, <1>7, <1>8, <1>9, <1>10, <1>11, <1>12,
    <1>13, <1>14, <1>15, <1>16, <1>17, <1>18, <1>19, <1>20, <1>21, <1>22, <1>23, <1>24,
    <1>25, <1>26, <1>27, <1>28, <1>29, <1>30, <1>31, <1>32, <1>33, <1>34, <1>35, <1>36,
    <1>37, <1>38, <1>39, <1>40, <1>41, <1>42 DEF Next, LauncherProgress, WorkerProgress,
    StatusProgress, Fault

LEMMA StartsInvariant == Spec => []Starts
<1>1. Init => Starts
  BY DEF Init, Starts, Statuses, LiveStatuses, TerminalStatuses
<1>2. TypeOK /\ Links /\ Starts /\ [Next]_vars => Starts'
  <2>1. ASSUME Starts, UNCHANGED vars PROVE Starts'
    BY <2>1 DEF Starts, vars, storeVars, launcherVars
  <2> QED  BY <2>1, StartsStep
<1> QED  BY <1>1, <1>2, Typed, PTL DEF Spec

\* A write that the transition matrix accepts is a move along the diagram, or
\* leaves the status as it is.
LEMMA MoveStep ==
  ASSUME TypeOK, NEW j \in Job, NEW s, CanTransition(status[j], s),
         status' = [status EXCEPT ![j] = s], UNCHANGED ordinal
  PROVE  [Lifecycle!LifecycleNext]_<<status, ordinal>>
  BY AllowedFacts DEF CanTransition, TypeOK, StoreTypeOK, Lifecycle!LifecycleNext,
     Lifecycle!Move, Lifecycle!LiveStatuses, LiveStatuses, Lifecycle!Allowed, Allowed

\* Every step is a step of the diagram or leaves status and ordinal unchanged.
LEMMA LifecycleStep ==
  ASSUME TypeOK, Links, Starts, Next
  PROVE  [Lifecycle!LifecycleNext]_<<status, ordinal>>
<1> USE NoneAssumption DEF Links, Unspawned, Starts, storeVars, TypeOK, StoreTypeOK, LauncherTypeOK,
           Lifecycle!LifecycleNext, Lifecycle!Create, Lifecycle!Resume
<1>1. ASSUME NEW l \in Launch, NEW j \in Job, BeginStart(l, j)
      PROVE  [Lifecycle!LifecycleNext]_<<status, ordinal>>
  BY <1>1 DEF BeginStart
<1>2. ASSUME NEW l \in Launch, NEW j \in Job, BeginResume(l, j)
      PROVE  [Lifecycle!LifecycleNext]_<<status, ordinal>>
  BY <1>2 DEF BeginResume
<1>3. ASSUME NEW l \in Launch, AcquireFree(l)
      PROVE  [Lifecycle!LifecycleNext]_<<status, ordinal>>
  BY <1>3 DEF AcquireFree
<1>4. ASSUME NEW l \in Launch, AcquireInspect(l)
      PROVE  [Lifecycle!LifecycleNext]_<<status, ordinal>>
  BY <1>4 DEF AcquireInspect
<1>5. ASSUME NEW l \in Launch, AcquireRemove(l)
      PROVE  [Lifecycle!LifecycleNext]_<<status, ordinal>>
  BY <1>5 DEF AcquireRemove
<1>6. ASSUME NEW l \in Launch, Initialize(l)
      PROVE  [Lifecycle!LifecycleNext]_<<status, ordinal>>
  BY <1>6 DEF Initialize
<1>7. ASSUME NEW l \in Launch, Consume(l)
      PROVE  [Lifecycle!LifecycleNext]_<<status, ordinal>>
  BY <1>7 DEF Consume, CanConsume
<1>8. ASSUME NEW l \in Launch, Spawn(l)
      PROVE  [Lifecycle!LifecycleNext]_<<status, ordinal>>
  BY <1>8 DEF Spawn
<1>9. ASSUME NEW l \in Launch, LauncherFails(l)
      PROVE  [Lifecycle!LifecycleNext]_<<status, ordinal>>
  BY <1>9 DEF LauncherFails
<1>10. ASSUME NEW l \in Launch, SpawnConfirmed(l)
      PROVE  [Lifecycle!LifecycleNext]_<<status, ordinal>>
  BY <1>10 DEF SpawnConfirmed
<1>11. ASSUME NEW l \in Launch, SpawnExited(l)
      PROVE  [Lifecycle!LifecycleNext]_<<status, ordinal>>
  BY <1>11 DEF SpawnExited
<1>12. ASSUME NEW l \in Launch, SpawnTimeout(l)
      PROVE  [Lifecycle!LifecycleNext]_<<status, ordinal>>
  BY <1>12 DEF SpawnTimeout
<1>13. ASSUME NEW l \in Launch, LauncherRelease(l)
      PROVE  [Lifecycle!LifecycleNext]_<<status, ordinal>>
  BY <1>13 DEF LauncherRelease
<1>14. ASSUME NEW l \in Launch, WorkerStart(l)
      PROVE  [Lifecycle!LifecycleNext]_<<status, ordinal>>
  BY <1>14 DEF WorkerStart
<1>15. ASSUME NEW l \in Launch, WorkerClaim(l)
      PROVE  [Lifecycle!LifecycleNext]_<<status, ordinal>>
  BY <1>15 DEF WorkerClaim
<1>16. ASSUME NEW l \in Launch, WorkerIdentify(l)
      PROVE  [Lifecycle!LifecycleNext]_<<status, ordinal>>
  BY <1>16, MoveStep DEF WorkerIdentify, CanUpdate
<1>17. ASSUME NEW l \in Launch, WorkerAdvance(l)
      PROVE  [Lifecycle!LifecycleNext]_<<status, ordinal>>
  BY <1>17, MoveStep DEF WorkerAdvance, NextStage, CanUpdate
<1>18. ASSUME NEW l \in Launch, PrepareAgent(l)
      PROVE  [Lifecycle!LifecycleNext]_<<status, ordinal>>
  BY <1>18 DEF PrepareAgent
<1>19. ASSUME NEW l \in Launch, StartAgent(l)
      PROVE  [Lifecycle!LifecycleNext]_<<status, ordinal>>
  BY <1>19 DEF StartAgent
<1>20. ASSUME NEW l \in Launch, AgentAnswers(l)
      PROVE  [Lifecycle!LifecycleNext]_<<status, ordinal>>
  BY <1>20 DEF AgentAnswers
<1>21. ASSUME NEW l \in Launch, QuiesceAgent(l)
      PROVE  [Lifecycle!LifecycleNext]_<<status, ordinal>>
  BY <1>21 DEF QuiesceAgent
<1>22. ASSUME NEW l \in Launch, WorkerConclude(l)
      PROVE  [Lifecycle!LifecycleNext]_<<status, ordinal>>
  BY <1>22 DEF WorkerConclude
<1>23. ASSUME NEW l \in Launch, WorkerSucceed(l)
      PROVE  [Lifecycle!LifecycleNext]_<<status, ordinal>>
  BY <1>23, MoveStep DEF WorkerSucceed, CanFinalize, Finalize
<1>24. ASSUME NEW l \in Launch, WorkerThrows(l)
      PROVE  [Lifecycle!LifecycleNext]_<<status, ordinal>>
  BY <1>24 DEF WorkerThrows
<1>25. ASSUME NEW l \in Launch, CancelWrite(l)
      PROVE  [Lifecycle!LifecycleNext]_<<status, ordinal>>
  BY <1>25, MoveStep DEF CancelWrite, CanUpdate
<1>26. ASSUME NEW l \in Launch, CancelQuiesce(l)
      PROVE  [Lifecycle!LifecycleNext]_<<status, ordinal>>
  BY <1>26 DEF CancelQuiesce
<1>27. ASSUME NEW l \in Launch, WorkerCatch(l)
      PROVE  [Lifecycle!LifecycleNext]_<<status, ordinal>>
  BY <1>27 DEF WorkerCatch
<1>28. ASSUME NEW l \in Launch, WorkerQuiesce(l)
      PROVE  [Lifecycle!LifecycleNext]_<<status, ordinal>>
  BY <1>28 DEF WorkerQuiesce
<1>29. ASSUME NEW l \in Launch, WorkerReadsOutcome(l)
      PROVE  [Lifecycle!LifecycleNext]_<<status, ordinal>>
  BY <1>29 DEF WorkerReadsOutcome
<1>30. ASSUME NEW l \in Launch, WorkerRecord(l)
      PROVE  [Lifecycle!LifecycleNext]_<<status, ordinal>>
  BY <1>30, MoveStep DEF WorkerRecord, CanFinalize, Finalize
<1>31. ASSUME NEW l \in Launch, WorkerClose(l)
      PROVE  [Lifecycle!LifecycleNext]_<<status, ordinal>>
  BY <1>31 DEF WorkerClose
<1>32. ASSUME NEW l \in Launch, WorkerExit(l)
      PROVE  [Lifecycle!LifecycleNext]_<<status, ordinal>>
  BY <1>32 DEF WorkerExit
<1>33. ASSUME NEW l \in Launch, SpawnProbeThrows(l)
      PROVE  [Lifecycle!LifecycleNext]_<<status, ordinal>>
  BY <1>33 DEF SpawnProbeThrows
<1>34. ASSUME NEW l \in Launch, LauncherCrash(l)
      PROVE  [Lifecycle!LifecycleNext]_<<status, ordinal>>
  BY <1>34 DEF LauncherCrash
<1>35. ASSUME NEW l \in Launch, WorkerStartFails(l)
      PROVE  [Lifecycle!LifecycleNext]_<<status, ordinal>>
  BY <1>35 DEF WorkerStartFails
<1>36. ASSUME NEW l \in Launch, CancelRequest(l)
      PROVE  [Lifecycle!LifecycleNext]_<<status, ordinal>>
  BY <1>36 DEF CancelRequest
<1>37. ASSUME NEW l \in Launch, WorkerCrash(l)
      PROVE  [Lifecycle!LifecycleNext]_<<status, ordinal>>
  BY <1>37 DEF WorkerCrash
<1>38. ASSUME NEW c \in Client, NEW j \in Job, StatusRead(c, j)
      PROVE  [Lifecycle!LifecycleNext]_<<status, ordinal>>
  BY <1>38 DEF StatusRead
<1>39. ASSUME NEW c \in Client, StatusInspect(c)
      PROVE  [Lifecycle!LifecycleNext]_<<status, ordinal>>
  BY <1>39 DEF StatusInspect
<1>40. ASSUME NEW c \in Client, StatusAdopt(c)
      PROVE  [Lifecycle!LifecycleNext]_<<status, ordinal>>
  BY <1>40, MoveStep DEF StatusAdopt, CanUpdate
<1>41. ASSUME NEW c \in Client, StatusVerify(c)
      PROVE  [Lifecycle!LifecycleNext]_<<status, ordinal>>
  BY <1>41 DEF StatusVerify
<1>42. ASSUME NEW c \in Client, StatusInterrupt(c)
      PROVE  [Lifecycle!LifecycleNext]_<<status, ordinal>>
  BY <1>42, MoveStep DEF StatusInterrupt, CanFinalize, Finalize
<1> QED  BY <1>1, <1>2, <1>3, <1>4, <1>5, <1>6, <1>7, <1>8, <1>9, <1>10, <1>11, <1>12,
    <1>13, <1>14, <1>15, <1>16, <1>17, <1>18, <1>19, <1>20, <1>21, <1>22, <1>23, <1>24,
    <1>25, <1>26, <1>27, <1>28, <1>29, <1>30, <1>31, <1>32, <1>33, <1>34, <1>35, <1>36,
    <1>37, <1>38, <1>39, <1>40, <1>41, <1>42 DEF Next, LauncherProgress, WorkerProgress,
    StatusProgress, Fault

\* The detailed system implements the documented lifecycle: a job is created
\* once, follows the diagram, ends once per attempt and is reopened only by a
\* resume of an interrupted attempt, whatever the processes interleave and
\* whichever faults are enabled.
THEOREM LifecycleImplemented == Spec => LifecycleRefined
<1>1. Init => Lifecycle!LifecycleInit
  BY DEF Init, Lifecycle!LifecycleInit
<1>2. TypeOK /\ Links /\ Starts /\ [Next]_vars
      => [Lifecycle!LifecycleNext]_Lifecycle!lifecycleVars
  <2>1. ASSUME UNCHANGED vars PROVE UNCHANGED <<status, ordinal>>
    BY <2>1 DEF vars, storeVars
  <2> QED  BY <2>1, LifecycleStep DEF Lifecycle!lifecycleVars
<1> QED
  BY <1>1, <1>2, Typed, StartsInvariant, PTL DEF Spec, LifecycleRefined, Lifecycle!LifecycleSpec

-----------------------------------------------------------------------------
(***************************************************************************)
(* The attempts of jobs: a confirmation is consumed once however long ago  *)
(* it was planned, and the worker that holds the lease runs the attempt    *)
(* its own launch made.                                                    *)
(***************************************************************************)

\* A launch that has made its attempt: it initialised or consumed and is about to
\* spawn, or has spawned.
Made(l) == lpc[l] = "spawn" \/ wpc[l] # "none"

\* The attempt a launch made comes after the one it continues, and no other launch
\* continued that one.
Chain ==
  /\ \A l \in Launch : Made(l) => source[l] < ordinal[jobOf[l]]
  /\ \A l, m \in Launch :
       Made(l) /\ Made(m) /\ jobOf[l] = jobOf[m] /\ source[l] = source[m] => l = m

\* A resume that has not consumed yet: the attempt it was planned on is over, or is
\* no longer the current one.
Confirmed ==
  \A l \in Launch :
    lpc[l] \in {"acquire", "remove", "hold"} /\ source[l] # 0
    => /\ source[l] <= ordinal[jobOf[l]]
       /\ source[l] = ordinal[jobOf[l]] => attempt[jobOf[l]] # "active"

\* No attempt is planned on before a resume begins.
Fresh == \A l \in Launch : lpc[l] = "idle" => source[l] = 0

\* A launcher named by the lease has begun and has inserted that row; one judged
\* stale is over; and a client presents the token of a launcher of its own job.
Began ==
  /\ \A l \in Launch :
       lease = LauncherOwner(l) => lpc[l] \notin {"idle", "acquire", "remove"}
  /\ \A l, m \in Launch : seen[l] = LauncherOwner(m) => lpc[m] = "done"
  /\ \A c \in Client, l \in Launch :
       client[c].token = LauncherOwner(l) => lpc[l] # "idle" /\ jobOf[l] = client[c].job

\* A launcher that holds has the lease, or has lost it to a client that interrupted a
\* later attempt of its job; and whose row the lease is made the current attempt.
Holders ==
  /\ \A l \in Launch :
       lpc[l] = "hold" => \/ lease = LauncherOwner(l)
                          \/ source[l] # 0 /\ source[l] < ordinal[jobOf[l]]
  /\ \A l \in Launch :
       Made(l) /\ lease \in {LauncherOwner(l), WorkerOwner(l)}
       => ordinal[jobOf[l]] = source[l] + 1

\* A step that begins, takes or makes nothing: it may end attempts, delete the row of
\* a launch that does not hold, and end launchers and the work of clients.
Quiet ==
  /\ UNCHANGED <<ordinal, jobOf, source>>
  /\ \A j \in Job : attempt'[j] = "active" => attempt[j] = "active"
  /\ \/ lease' = lease
     \/ /\ lease' = None
        /\ \A l \in Launch : lease = LauncherOwner(l) => lpc[l] # "hold"
  /\ \A l \in Launch : wpc'[l] = "none" <=> wpc[l] = "none"
  /\ \A l \in Launch : lpc'[l] = lpc[l] \/ (lpc[l] # "idle" /\ lpc'[l] \in {"release", "done"})
  /\ \A l \in Launch : lpc[l] = "done" => lpc'[l] = "done"
  /\ \A l \in Launch : seen'[l] \in {seen[l], None}
  /\ \A c \in Client :
       \/ client'[c].token \notin {LauncherOwner(l) : l \in Launch}
       \/ client'[c].token = client[c].token /\ client'[c].job = client[c].job

LEMMA WorkerQuiet ==
  ASSUME TypeOK, Links, Names, NEW l \in Launch,
         \/ WorkerStart(l) \/ WorkerIdentify(l) \/ WorkerAdvance(l)
         \/ PrepareAgent(l) \/ StartAgent(l) \/ AgentAnswers(l) \/ QuiesceAgent(l)
         \/ WorkerConclude(l) \/ WorkerSucceed(l) \/ WorkerThrows(l)
         \/ CancelWrite(l) \/ CancelQuiesce(l) \/ WorkerCatch(l) \/ WorkerQuiesce(l)
         \/ WorkerReadsOutcome(l) \/ WorkerRecord(l) \/ WorkerClose(l) \/ WorkerExit(l)
         \/ WorkerStartFails(l) \/ CancelRequest(l) \/ WorkerCrash(l)
  PROVE  Quiet
<1> USE NoneAssumption DEF TypeOK, StoreTypeOK, LauncherTypeOK, WorkerTypeOK, ClientTypeOK,
        Links, Unspawned, storeVars, launcherVars, workerVars, Quiet
<1>0. \A m \in Launch : wpc[l] # "none" /\ WorkerToken(l) = LauncherOwner(m) => lpc[m] # "hold"
  BY DEF WorkerToken, LauncherOwner, WorkerOwner
<1>1. CASE WorkerStart(l) \/ WorkerIdentify(l) \/ PrepareAgent(l) \/ StartAgent(l)
           \/ AgentAnswers(l)
  BY <1>1 DEF WorkerStart, WorkerIdentify, PrepareAgent, StartAgent, AgentAnswers
<1>2. CASE WorkerAdvance(l)
  BY <1>2 DEF WorkerAdvance, NextStage
<1>3. CASE QuiesceAgent(l) \/ WorkerConclude(l) \/ CancelWrite(l) \/ CancelQuiesce(l)
           \/ WorkerCatch(l) \/ CancelRequest(l)
  BY <1>3 DEF QuiesceAgent, WorkerConclude, CancelWrite, CancelQuiesce, WorkerCatch, CancelRequest
<1>4. CASE WorkerThrows(l)
  BY <1>4 DEF WorkerThrows, InTry
<1>5. CASE WorkerSucceed(l)
  BY <1>0, <1>5 DEF WorkerSucceed, CanFinalize, Finalize
<1>6. CASE WorkerQuiesce(l) \/ WorkerReadsOutcome(l)
  BY <1>6 DEF WorkerQuiesce, WorkerReadsOutcome
<1>7. CASE WorkerRecord(l)
  <2>1. CASE CanFinalize(jobOf[l], outcome[l], WorkerToken(l))
             /\ Finalize(jobOf[l], outcome[l], WorkerToken(l))
    <3>1. outcome[l] # "active" /\ WorkerToken(l) # None
      <4>1. jobOf[l] \in Job /\ status[jobOf[l]] \in Statuses
        BY <1>7, Working DEF WorkerRecord
      <4>2. outcome[l] \in Statuses
        BY <2>1, <4>1, AllowedFacts DEF CanFinalize, CanTransition
      <4> QED
        BY <4>2, OwnersTyped
        DEF WorkerToken, Statuses, LiveStatuses, TerminalStatuses
    <3>2. wpc[l] = "recording" /\ wpc' = [wpc EXCEPT ![l] = "closing"]
          /\ UNCHANGED <<launcherVars, client>>
      BY <1>7 DEF WorkerRecord
    <3>3. \A j \in Job : attempt'[j] = "active" => attempt[j] = "active"
      BY <2>1, <3>1 DEF Finalize
    <3>4. lease' = None /\ lease \in {None, WorkerToken(l)} /\ UNCHANGED ordinal
      BY <2>1, <3>1 DEF Finalize, CanFinalize
    <3>5. \A m \in Launch : lease = LauncherOwner(m) => lpc[m] # "hold"
      BY <1>0, <3>2, <3>4 DEF LauncherOwner, Owner
    <3> QED  BY <3>2, <3>3, <3>4, <3>5
  <2>2. CASE UNCHANGED <<attempt, ordinal, lease>>
    BY <1>7, <2>2 DEF WorkerRecord
  <2> QED  BY <1>7, <2>1, <2>2 DEF WorkerRecord
<1>8. CASE WorkerClose(l)
  BY <1>0, <1>8 DEF WorkerClose
<1>9. CASE WorkerExit(l)
  BY <1>0, <1>9 DEF WorkerExit
<1>10. CASE WorkerStartFails(l)
  BY <1>10 DEF WorkerStartFails, LauncherOwner
<1>11. CASE WorkerCrash(l)
  BY <1>11 DEF WorkerCrash, WorkerAlive
<1> QED  BY <1>1, <1>2, <1>3, <1>4, <1>5, <1>6, <1>7, <1>8, <1>9, <1>10, <1>11

LEMMA LauncherQuiet ==
  ASSUME TypeOK, Links, Names, NEW l \in Launch,
         \/ LauncherFails(l) \/ SpawnConfirmed(l) \/ SpawnExited(l) \/ SpawnTimeout(l)
         \/ SpawnProbeThrows(l) \/ LauncherRelease(l) \/ LauncherCrash(l)
  PROVE  Quiet
<1> USE NoneAssumption DEF TypeOK, StoreTypeOK, LauncherTypeOK, WorkerTypeOK, ClientTypeOK,
        Links, Unspawned, storeVars, launcherVars, workerVars, Quiet
<1>1. CASE LauncherFails(l) \/ SpawnConfirmed(l) \/ SpawnExited(l) \/ SpawnProbeThrows(l)
  BY <1>1 DEF LauncherFails, SpawnConfirmed, SpawnExited, SpawnProbeThrows
<1>2. CASE SpawnTimeout(l)
  BY <1>2 DEF SpawnTimeout, WorkerAlive
<1>3. CASE LauncherRelease(l)
  BY <1>3 DEF LauncherRelease, LauncherOwner, WorkerOwner
<1>4. CASE LauncherCrash(l)
  BY <1>4 DEF LauncherCrash, LauncherAlive
<1> QED  BY <1>1, <1>2, <1>3, <1>4

\* Rows of different launches, or of a launcher and a worker, differ.
LEMMA OwnersDiffer ==
  ASSUME NEW l \in Launch, NEW m \in Launch
  PROVE  /\ LauncherOwner(l) = LauncherOwner(m) => l = m
         /\ WorkerOwner(l) = WorkerOwner(m) => l = m
         /\ LauncherOwner(l) # WorkerOwner(m)
         /\ LauncherOwner(l) # None /\ WorkerOwner(l) # None
  BY NoneAssumption, OwnersTyped DEF LauncherOwner, WorkerOwner

LEMMA ClientQuiet ==
  ASSUME TypeOK, Links, NEW c \in Client,
         \/ \E j \in Job : StatusRead(c, j)
         \/ StatusAdopt(c) \/ StatusVerify(c)
  PROVE  Quiet
<1> USE NoneAssumption DEF TypeOK, StoreTypeOK, LauncherTypeOK, WorkerTypeOK, ClientTypeOK,
        storeVars, launcherVars, workerVars, Quiet
<1>1. ASSUME NEW j \in Job, StatusRead(c, j)  PROVE Quiet
  <2> DEFINE r == IF identity[j] = None
         THEN [AtRest EXCEPT !.pc = "inspect", !.job = j, !.status = status[j]]
         ELSE [AtRest EXCEPT !.pc = "verify", !.job = j, !.who = identity[j]]
  <2>1. r.token = None
    BY DEF AtRest
  <2>2. /\ client' = [client EXCEPT ![c] = r]
        /\ UNCHANGED <<storeVars, lease, launcherVars, workerVars>>
    BY <1>1 DEF StatusRead
  <2> HIDE DEF r
  <2> QED  BY <2>1, <2>2, OwnersDiffer
<1>2. CASE StatusAdopt(c)
  <2>1. /\ UNCHANGED <<attempt, ordinal, lease, launcherVars, workerVars>>
        /\ \/ client' = [client EXCEPT ![c].pc = "verify", ![c].status = None]
           \/ client' = [client EXCEPT ![c] = AtRest]
    BY <1>2 DEF StatusAdopt, Return
  <2>2. \A d \in Client : client'[d].token = None
          \/ (client'[d].token = client[d].token /\ client'[d].job = client[d].job)
    <3>1. CASE client' = [client EXCEPT ![c].pc = "verify", ![c].status = None]
      BY <3>1
    <3>2. CASE client' = [client EXCEPT ![c] = AtRest]
      BY <3>2 DEF AtRest
    <3> QED  BY <2>1, <3>1, <3>2
  <2> QED  BY <2>1, <2>2, OwnersDiffer
<1>3. CASE StatusVerify(c)
  <2>1. \/ client' = [client EXCEPT ![c] = AtRest]
        \/ client' = [client EXCEPT ![c] = [AtRest EXCEPT !.pc = "interrupt",
                                             !.job = client[c].job,
                                             !.token = WorkerOwner(client[c].who)]]
    BY <1>3 DEF StatusVerify, Return, Interrupting
  <2>2. \A d \in Client :
          \/ client'[d].token \notin {LauncherOwner(l) : l \in Launch}
          \/ client'[d].token = client[d].token /\ client'[d].job = client[d].job
    <3>1. CASE client' = [client EXCEPT ![c] = AtRest]
      BY <3>1, OwnersDiffer DEF AtRest
    <3>2. CASE client' = [client EXCEPT ![c] = [AtRest EXCEPT !.pc = "interrupt",
                                             !.job = client[c].job,
                                             !.token = WorkerOwner(client[c].who)]]
      BY <3>2 DEF AtRest, WorkerOwner, LauncherOwner
    <3> QED  BY <2>1, <3>1, <3>2
  <2> QED  BY <1>3, <2>2 DEF StatusVerify
<1> QED  BY <1>1, <1>2, <1>3

AttemptInv == Chain /\ Confirmed /\ Fresh /\ Began /\ Holders

LEMMA QuietKeeps ==
  ASSUME TypeOK, Links, AttemptInv, Quiet
  PROVE  AttemptInv'
<1> USE DEF AttemptInv, Quiet
<1>1. \A l \in Launch : Made(l)' => Made(l)
  BY DEF Made
<1>2. \A l \in Launch : lpc[l] # "idle" => jobOf[l] \in Job
  BY DEF Links
<1>3. Chain'
  BY <1>1 DEF Chain
<1>4. Confirmed'
  BY <1>2 DEF Confirmed
<1>5. Began'
  <2>1. \A l \in Launch : lease' = LauncherOwner(l) => lpc'[l] \notin {"idle", "acquire", "remove"}
    BY OwnersDiffer DEF Began
  <2>2. \A l, m \in Launch : seen'[l] = LauncherOwner(m) => lpc'[m] = "done"
    BY OwnersDiffer DEF Began
  <2>3. \A c \in Client, l \in Launch : client'[c].token = LauncherOwner(l) =>
          lpc'[l] # "idle" /\ jobOf'[l] = client'[c].job
    BY DEF Began
  <2> QED  BY <2>1, <2>2, <2>3 DEF Began
<1>6. Holders'
  BY <1>1, OwnersDiffer DEF Holders
<1>7. Fresh'
  BY DEF Fresh
<1> QED  BY <1>7, <1>3, <1>4, <1>5, <1>6

-----------------------------------------------------------------------------
(* The steps that begin, take and make *)

LEMMA BeginKeeps ==
  ASSUME TypeOK, Links, Starts, AttemptInv, NEW l \in Launch, NEW j \in Job,
         BeginStart(l, j) \/ BeginResume(l, j)
  PROVE  AttemptInv'
<1> USE DEF AttemptInv
<1>1. /\ lpc[l] = "idle" /\ wpc[l] = "none"
      /\ lpc' = [lpc EXCEPT ![l] = "acquire"] /\ jobOf' = [jobOf EXCEPT ![l] = j]
      /\ source' \in {source, [source EXCEPT ![l] = ordinal[j]]}
      /\ UNCHANGED <<storeVars, lease, seen, workerVars, client>>
  BY DEF BeginStart, BeginResume, Links, Unspawned
<1>2. \A m \in Launch : m # l => lpc'[m] = lpc[m] /\ jobOf'[m] = jobOf[m] /\ source'[m] = source[m]
  BY <1>1 DEF TypeOK, LauncherTypeOK
<1>3. lpc'[l] = "acquire" /\ jobOf'[l] = j
  BY <1>1 DEF TypeOK, LauncherTypeOK
<1>4. UNCHANGED <<wpc, ordinal, attempt>>
  BY <1>1 DEF storeVars, workerVars
<1>5. \A m \in Launch : Made(m)' => Made(m) /\ m # l
  BY <1>1, <1>2, <1>3, <1>4 DEF Made
<1>6. Chain'
  BY <1>2, <1>4, <1>5 DEF Chain
<1>7. source'[l] # 0 => source'[l] <= ordinal[j] /\ attempt[j] # "active"
  <2>1. CASE BeginStart(l, j)
    <3>1. source' = source /\ status[j] = "absent"
      BY <2>1 DEF BeginStart
    <3>2. source[l] = 0
      BY <1>1 DEF Fresh
    <3> QED  BY <3>1, <3>2
  <2>2. CASE BeginResume(l, j)
    BY <2>2 DEF BeginResume, TypeOK, LauncherTypeOK, StoreTypeOK
  <2> QED  BY <2>1, <2>2
<1>8. Confirmed'
  BY <1>2, <1>3, <1>4, <1>7 DEF Confirmed
<1>9. Began'
  BY <1>1, <1>2 DEF Began
<1>10. Holders'
  BY <1>1, <1>2, <1>3, <1>4, <1>5 DEF Holders
<1>11. Fresh'
  BY <1>2, <1>3 DEF Fresh
<1> QED  BY <1>11, <1>6, <1>8, <1>9, <1>10

LEMMA AcquireKeeps ==
  ASSUME TypeOK, Links, AttemptInv, NEW l \in Launch,
         AcquireFree(l) \/ AcquireInspect(l) \/ AcquireRemove(l)
  PROVE  AttemptInv'
<1> USE DEF AttemptInv
<1>1. /\ UNCHANGED <<storeVars, jobOf, source, workerVars, client>>
      /\ lpc[l] \in {"acquire", "remove"} /\ wpc[l] = "none"
      /\ \A m \in Launch : m # l => lpc'[m] = lpc[m] /\ seen'[m] = seen[m]
      /\ lpc'[l] \in {"acquire", "remove", "hold", "done"}
  BY DEF AcquireFree, AcquireInspect, AcquireRemove, Links, Unspawned, TypeOK, LauncherTypeOK
<1>2. UNCHANGED <<wpc, ordinal, attempt>>
  BY <1>1 DEF storeVars, workerVars
<1>3. \A m \in Launch : Made(m)' => Made(m) /\ m # l
  BY <1>1, <1>2 DEF Made
<1>4. Chain' /\ Confirmed' /\ Fresh'
  <2>1. Chain'
    BY <1>1, <1>2, <1>3 DEF Chain
  <2>2. Confirmed'
    BY <1>1, <1>2 DEF Confirmed
  <2>3. Fresh'
    BY <1>1 DEF Fresh
  <2> QED  BY <2>1, <2>2, <2>3
<1>5. \A c \in Client, m \in Launch :
        client'[c].token = LauncherOwner(m) => lpc'[m] # "idle" /\ jobOf'[m] = client'[c].job
  BY <1>1 DEF Began
<1>6. CASE AcquireFree(l)
  <2>1. /\ lease' = LauncherOwner(l) /\ lpc'[l] = "hold" /\ lease = None
        /\ seen' = seen
    BY <1>6 DEF AcquireFree, TypeOK, LauncherTypeOK
  <2>2. \A k, m \in Launch : seen'[k] = LauncherOwner(m) => lpc'[m] = "done"
    BY <1>1, <2>1 DEF Began
  <2>3. \A m \in Launch : lease' = LauncherOwner(m) => lpc'[m] \notin {"idle", "acquire", "remove"}
    BY <2>1, OwnersDiffer
  <2>4. Holders'
    BY <1>1, <1>2, <1>3, <2>1, OwnersDiffer DEF Holders
  <2> QED  BY <1>4, <1>5, <2>2, <2>3, <2>4 DEF Began
<1>7. CASE AcquireInspect(l)
  <2>1. PICK i \in Inspections(lease) :
          IF i = "stale" THEN /\ lpc' = [lpc EXCEPT ![l] = "remove"]
                              /\ seen' = [seen EXCEPT ![l] = lease]
                         ELSE lpc' = [lpc EXCEPT ![l] = "done"] /\ seen' = seen
    BY <1>7 DEF AcquireInspect
  <2>2. lease' = lease /\ lpc'[l] \in {"remove", "done"}
    BY <1>7, <2>1 DEF AcquireInspect, TypeOK, LauncherTypeOK
  <2>3. ASSUME NEW m \in Launch, lease = LauncherOwner(m), i = "stale"
        PROVE  lpc[m] = "done"
    <3>1. lpc[m] \in LauncherPc /\ lpc[m] # "idle"
      BY <2>3 DEF Began, TypeOK, LauncherTypeOK
    <3>2. ~LauncherAlive(m)
      <4>1. lease # None /\ lease.kind = "launcher" /\ lease.launch = m
        BY <2>3, OwnersDiffer DEF LauncherOwner
      <4> QED  BY <2>1, <2>3, <4>1 DEF Inspections
    <3> QED  BY <3>1, <3>2 DEF LauncherAlive
  <2>4. ASSUME NEW k \in Launch, NEW m \in Launch, seen'[k] = LauncherOwner(m)
        PROVE  lpc'[m] = "done"
    <3>1. CASE seen'[k] = seen[k]
      <4>1. lpc[m] = "done"
        BY <2>4, <3>1 DEF Began
      <4> QED  BY <1>1, <4>1
    <3>2. CASE seen'[k] # seen[k]
      <4>1. i = "stale" /\ lease = LauncherOwner(m)
        BY <1>1, <2>1, <2>4, <3>2 DEF TypeOK, LauncherTypeOK
      <4>2. lpc[m] = "done"
        BY <2>3, <4>1
      <4> QED  BY <1>1, <4>2
    <3> QED  BY <3>1, <3>2
  <2>5. \A m \in Launch : lease' = LauncherOwner(m) => lpc'[m] \notin {"idle", "acquire", "remove"}
    BY <1>1, <2>2 DEF Began
  <2>6. Holders'
    BY <1>1, <1>2, <1>3, <2>2 DEF Holders
  <2> QED  BY <1>4, <1>5, <2>4, <2>5, <2>6 DEF Began
<1>8. CASE AcquireRemove(l)
  <2>1. /\ lease' = IF lease = seen[l] THEN None ELSE lease
        /\ seen' = [seen EXCEPT ![l] = None] /\ lpc'[l] = "acquire"
    BY <1>8 DEF AcquireRemove, TypeOK, LauncherTypeOK
  <2>2. \A k, m \in Launch : seen'[k] = LauncherOwner(m) => lpc'[m] = "done"
    <3>1. \A k, m \in Launch : seen'[k] = LauncherOwner(m) => seen[k] = LauncherOwner(m)
      BY <2>1, OwnersDiffer DEF TypeOK, LauncherTypeOK
    <3> QED  BY <1>1, <3>1 DEF Began
  <2>3. \A m \in Launch : lease' = LauncherOwner(m) => lpc'[m] \notin {"idle", "acquire", "remove"}
    BY <1>1, <2>1, OwnersDiffer DEF Began
  <2>4. \A m \in Launch : lease = LauncherOwner(m) /\ lease' # lease => lpc[m] = "done"
    BY <2>1 DEF Began
  <2>5. \A m \in Launch : lpc'[m] = "hold" => lpc[m] = "hold"
    BY <1>1, <2>1
  <2>6. \A m \in Launch : lpc'[m] = "hold" =>
          lease' = LauncherOwner(m) \/ (source[m] # 0 /\ source[m] < ordinal[jobOf[m]])
    BY <2>4, <2>5 DEF Holders
  <2>7. \A m \in Launch : Made(m) /\ lease' \in {LauncherOwner(m), WorkerOwner(m)} =>
          ordinal[jobOf[m]] = source[m] + 1
    BY <2>1, OwnersDiffer DEF Holders
  <2>8. Holders'
    BY <1>1, <1>2, <1>3, <2>6, <2>7 DEF Holders
  <2> QED  BY <1>4, <1>5, <2>2, <2>3, <2>8 DEF Began
<1> QED  BY <1>6, <1>7, <1>8

\* The first attempt of a job that no other launch knows.
LEMMA InitializeKeeps ==
  ASSUME TypeOK, Links, Starts, AttemptInv, NEW l \in Launch, Initialize(l)
  PROVE  AttemptInv'
<1> USE DEF AttemptInv
<1> DEFINE j == jobOf[l]
<1>1. /\ lpc[l] = "hold" /\ source[l] = 0 /\ j \in Job /\ wpc[l] = "none"
      /\ \A m \in Launch : jobOf[m] = j => m = l
  BY DEF Initialize, Links, Unspawned, Starts
<1>2. /\ \A m \in Launch : m # l => lpc'[m] = lpc[m]
      /\ lpc'[l] = "spawn"
      /\ ordinal'[j] = 1
      /\ \A k \in Job : k # j => ordinal'[k] = ordinal[k] /\ attempt'[k] = attempt[k]
      /\ UNCHANGED <<lease, jobOf, source, seen, workerVars, client>>
  BY <1>1 DEF Initialize, TypeOK, LauncherTypeOK, StoreTypeOK
<1>3. \A m \in Launch : Made(m)' => m = l \/ Made(m)
  BY <1>2 DEF Made, workerVars
<1>4. \A m \in Launch : Made(m) => jobOf[m] \in Job
  BY DEF Made, Links, Unspawned
<1>5. \A m \in Launch : Made(m) /\ m # l => ordinal'[jobOf[m]] = ordinal[jobOf[m]]
  BY <1>1, <1>2, <1>4
<1>6. Chain'
  BY <1>1, <1>2, <1>3, <1>5 DEF Chain
<1>7. Confirmed'
  <2>1. \A m \in Launch : lpc[m] \in {"acquire", "remove", "hold"} => jobOf[m] \in Job
    BY DEF Links
  <2> QED  BY <1>1, <1>2, <2>1 DEF Confirmed
<1>8. Began'
  BY <1>1, <1>2 DEF Began
<1>9. Holders'
  <2>1. \A m \in Launch : lpc'[m] = "hold" => lpc[m] = "hold" /\ m # l /\ jobOf[m] \in Job
    BY <1>2 DEF Links
  <2>2. \A m \in Launch : lpc'[m] = "hold" => ordinal'[jobOf[m]] = ordinal[jobOf[m]]
    BY <1>1, <1>2, <2>1
  <2> QED  BY <1>1, <1>2, <1>3, <1>5, <2>1, <2>2 DEF Holders
<1>10. Fresh'
  BY <1>2 DEF Fresh
<1> QED  BY <1>10, <1>6, <1>7, <1>8, <1>9

\* A confirmation is consumed by a launcher that still has the lease: had it lost it,
\* the attempt it was planned on would not be the current one.
LEMMA ConsumeKeeps ==
  ASSUME TypeOK, Links, Starts, AttemptInv, NEW l \in Launch, Consume(l)
  PROVE  AttemptInv'
<1> USE DEF AttemptInv
<1> DEFINE j == jobOf[l]
<1>1. /\ lpc[l] = "hold" /\ source[l] # 0 /\ j \in Job /\ wpc[l] = "none"
      /\ ordinal[j] = source[l] /\ source[l] \in Nat /\ lease = LauncherOwner(l)
      /\ ordinal \in [Job -> Nat] /\ source \in [Launch -> Nat]
  BY DEF Consume, CanConsume, Links, Unspawned, Holders, TypeOK, LauncherTypeOK, StoreTypeOK
<1>2. /\ \A m \in Launch : m # l => lpc'[m] = lpc[m]
      /\ lpc'[l] = "spawn"
      /\ ordinal'[j] = source[l] + 1
      /\ \A k \in Job : k # j => ordinal'[k] = ordinal[k] /\ attempt'[k] = attempt[k]
      /\ UNCHANGED <<lease, jobOf, source, seen, workerVars, client>>
  BY <1>1 DEF Consume, TypeOK, LauncherTypeOK, StoreTypeOK
<1>3. \A m \in Launch : Made(m)' => m = l \/ Made(m)
  BY <1>2 DEF Made, workerVars
<1>4. \A m \in Launch : Made(m) => jobOf[m] \in Job /\ m # l
  BY <1>1 DEF Made, Links, Unspawned
<1>5. \A k \in Job : ordinal[k] <= ordinal'[k]
  BY <1>1, <1>2
<1>6. Chain'
  <2>1. \A m \in Launch : Made(m)' => source[m] < ordinal'[jobOf[m]]
    BY <1>1, <1>2, <1>3, <1>4 DEF Chain
  <2>2. \A m \in Launch : Made(m) => ~(jobOf[m] = j /\ source[m] = source[l])
    BY <1>1 DEF Chain
  <2> QED  BY <1>2, <1>3, <2>1, <2>2 DEF Chain
<1>7. Confirmed'
  <2>1. \A m \in Launch : lpc[m] \in {"acquire", "remove", "hold"} => jobOf[m] \in Job
    BY DEF Links
  <2> QED  BY <1>1, <1>2, <2>1 DEF Confirmed
<1>8. Began'
  BY <1>1, <1>2 DEF Began
<1>9. Holders'
  <2>1. \A m \in Launch : lpc'[m] = "hold" => lpc[m] = "hold" /\ m # l /\ jobOf[m] \in Job
    BY <1>2 DEF Links
  <2>2. \A m \in Launch : lpc'[m] = "hold" => source[m] # 0 /\ source[m] < ordinal[jobOf[m]]
    BY <1>1, <2>1, OwnersDiffer DEF Holders
  <2>3. \A m \in Launch : lpc'[m] = "hold" => source[m] # 0 /\ source[m] < ordinal'[jobOf[m]]
    BY <1>1, <1>2, <2>1, <2>2
  <2> QED  BY <1>1, <1>2, <1>3, <2>3, OwnersDiffer DEF Holders
<1>10. Fresh'
  BY <1>2 DEF Fresh
<1> QED  BY <1>10, <1>6, <1>7, <1>8, <1>9

LEMMA SpawnKeeps ==
  ASSUME TypeOK, Links, AttemptInv, NEW l \in Launch, Spawn(l)
  PROVE  AttemptInv'
<1> USE DEF AttemptInv
<1>1. /\ lpc[l] = "spawn" /\ lpc' = [lpc EXCEPT ![l] = "wait"]
      /\ wpc' = [wpc EXCEPT ![l] = "starting"]
      /\ UNCHANGED <<storeVars, lease, jobOf, source, seen, client>>
  BY DEF Spawn
<1>2. \A m \in Launch : Made(m)' => Made(m)
  BY <1>1 DEF Made, TypeOK, WorkerTypeOK, LauncherTypeOK
<1>3. UNCHANGED <<ordinal, attempt>>
  BY <1>1 DEF storeVars
<1>4. \A m \in Launch : lpc'[m] = lpc[m] \/ (m = l /\ lpc'[m] = "wait")
  BY <1>1 DEF TypeOK, LauncherTypeOK
<1>5. Chain'
  BY <1>1, <1>2, <1>3 DEF Chain
<1>6. Confirmed'
  BY <1>1, <1>3, <1>4 DEF Confirmed
<1>7. Began'
  BY <1>1, <1>4 DEF Began
<1>8. Holders'
  BY <1>1, <1>2, <1>3, <1>4 DEF Holders
<1>9. Fresh'
  BY <1>1, <1>4 DEF Fresh
<1> QED  BY <1>9, <1>5, <1>6, <1>7, <1>8

\* The row changes hands within a launch: its attempt stays the current one.
LEMMA ClaimKeeps ==
  ASSUME TypeOK, Links, AttemptInv, NEW l \in Launch, WorkerClaim(l)
  PROVE  AttemptInv'
<1> USE DEF AttemptInv
<1>1. /\ wpc[l] = "claiming" /\ wpc' = [wpc EXCEPT ![l] = "claimed"]
      /\ lease = LauncherOwner(l) /\ lease' = WorkerOwner(l)
      /\ UNCHANGED <<storeVars, launcherVars, client>>
  BY DEF WorkerClaim
<1>2. UNCHANGED <<ordinal, attempt, lpc, jobOf, source, seen>>
  BY <1>1 DEF storeVars, launcherVars
<1>3. \A m \in Launch : (Made(m)' <=> Made(m)) /\ (m = l => Made(m))
  BY <1>1, <1>2 DEF Made, TypeOK, WorkerTypeOK
<1>4. Chain' /\ Confirmed'
  BY <1>2, <1>3 DEF Chain, Confirmed
<1>5. Began'
  BY <1>1, <1>2, OwnersDiffer DEF Began
<1>6. Holders'
  <2>1. lpc[l] # "hold"
    BY <1>1 DEF Links, Unspawned
  <2> QED  BY <1>1, <1>2, <1>3, <2>1, OwnersDiffer DEF Holders
<1>7. Fresh'
  BY <1>2 DEF Fresh
<1> QED  BY <1>7, <1>4, <1>5, <1>6

\* The client interrupts the job whose launcher's row it presents: that launcher's
\* attempt is not the active one unless it has been made.
LEMMA InterruptKeeps ==
  ASSUME TypeOK, Links, Starts, AttemptInv, NEW c \in Client, StatusInterrupt(c)
  PROVE  AttemptInv'
<1> USE DEF AttemptInv
<1> DEFINE j == client[c].job
           token == client[c].token
<1>1. /\ client' = [client EXCEPT ![c] = AtRest] /\ UNCHANGED <<launcherVars, workerVars>>
      /\ j \in Job
      /\ \/ CanFinalize(j, "interrupted", token) /\ Finalize(j, "interrupted", token)
         \/ UNCHANGED <<storeVars, lease>>
  BY DEF StatusInterrupt, Return, Links
<1>2. \A d \in Client, l \in Launch :
        client'[d].token = LauncherOwner(l) =>
          client'[d].token = client[d].token /\ client'[d].job = client[d].job
  BY <1>1, OwnersDiffer DEF AtRest, TypeOK, ClientTypeOK
<1>3. CASE UNCHANGED <<storeVars, lease>> \/ token = None
  <2>1. /\ UNCHANGED <<ordinal, lease>>
        /\ \A k \in Job : attempt'[k] = "active" => attempt[k] = "active"
    BY <1>1, <1>3 DEF Finalize, storeVars, TypeOK, StoreTypeOK
  <2>2. Quiet
    BY <1>1, <1>2, <2>1 DEF Quiet, launcherVars, workerVars
  <2> QED  BY <2>2, QuietKeeps
<1>4. CASE /\ token # None
           /\ CanFinalize(j, "interrupted", token) /\ Finalize(j, "interrupted", token)
  <2>1. /\ lease \in {None, token} /\ lease' = None /\ attempt[j] = "active"
        /\ status[j] # "absent"
        /\ UNCHANGED ordinal /\ \A k \in Job : attempt'[k] = "active" => attempt[k] = "active"
    BY <1>1, <1>4 DEF CanFinalize, Finalize, CanTransition, Statuses, LiveStatuses,
                      TerminalStatuses, TypeOK, StoreTypeOK
  <2>2. UNCHANGED <<lpc, jobOf, source, seen, wpc>>
    BY <1>1 DEF launcherVars, workerVars
  <2>3. Chain' /\ Fresh'
    BY <2>1, <2>2 DEF Chain, Fresh, Made
  <2>4. Confirmed'
    BY <2>1, <2>2 DEF Confirmed, Links
  <2>5. Began'
    BY <1>2, <2>1, <2>2, OwnersDiffer DEF Began
  <2>6. ASSUME NEW l \in Launch, lpc[l] = "hold", lease = LauncherOwner(l)
        PROVE  source[l] # 0 /\ source[l] < ordinal[jobOf[l]]
    <3>1. jobOf[l] = j
      BY <2>1, <2>6, OwnersDiffer DEF Began
    <3>2. source[l] # 0
      BY <2>1, <2>6, <3>1 DEF Starts
    <3>3. source[l] <= ordinal[j] /\ source[l] # ordinal[j]
      BY <2>1, <2>6, <3>1, <3>2 DEF Confirmed
    <3> QED
      BY <1>1, <3>1, <3>2, <3>3 DEF TypeOK, LauncherTypeOK, StoreTypeOK
  <2>7. Holders'
    BY <2>1, <2>2, <2>6, OwnersDiffer DEF Holders
  <2> QED  BY <2>3, <2>4, <2>5, <2>7
<1> QED  BY <1>1, <1>3, <1>4

LEMMA InspectKeeps ==
  ASSUME TypeOK, Links, AttemptInv, NEW c \in Client, StatusInspect(c)
  PROVE  AttemptInv'
<1> USE DEF AttemptInv
<1>1. /\ UNCHANGED <<storeVars, lease, launcherVars, workerVars>>
      /\ \/ client' = [client EXCEPT ![c].pc = "adopt", ![c].who = lease.launch]
         \/ client' = [client EXCEPT ![c] = AtRest]
         \/ client' = [client EXCEPT ![c] = [AtRest EXCEPT !.pc = "interrupt",
                          !.job = client[c].job,
                          !.token = IF OwnLease(c) THEN lease ELSE None]]
  BY DEF StatusInspect, Return, Interrupting
<1>2. UNCHANGED <<ordinal, attempt, lpc, jobOf, source, seen, wpc, lease>>
  BY <1>1 DEF storeVars, launcherVars, workerVars
<1>3. Chain' /\ Confirmed' /\ Fresh' /\ Holders'
  BY <1>2 DEF Chain, Confirmed, Fresh, Holders, Made
<1>4. ASSUME NEW d \in Client, NEW l \in Launch, client'[d].token = LauncherOwner(l)
      PROVE  lpc[l] # "idle" /\ jobOf[l] = client'[d].job
  <2>1. CASE client'[d].token = client[d].token /\ client'[d].job = client[d].job
    BY <1>4, <2>1 DEF Began
  <2>2. CASE ~(client'[d].token = client[d].token /\ client'[d].job = client[d].job)
    <3>1. d = c
      BY <1>1, <2>2 DEF TypeOK, ClientTypeOK
    <3>2. CASE client' = [client EXCEPT ![c].pc = "adopt", ![c].who = lease.launch]
      BY <2>2, <3>1, <3>2 DEF TypeOK, ClientTypeOK
    <3>3. CASE client' = [client EXCEPT ![c] = AtRest]
      BY <1>4, <3>1, <3>3, OwnersDiffer DEF AtRest, TypeOK, ClientTypeOK
    <3>4. CASE client' = [client EXCEPT ![c] = [AtRest EXCEPT !.pc = "interrupt",
                            !.job = client[c].job,
                            !.token = IF OwnLease(c) THEN lease ELSE None]]
      <4>1. /\ client'[c].job = client[c].job
            /\ client'[c].token = IF OwnLease(c) THEN lease ELSE None
        BY <3>4 DEF AtRest, TypeOK, ClientTypeOK
      <4>2. OwnLease(c) /\ lease = LauncherOwner(l)
        BY <1>4, <3>1, <4>1, OwnersDiffer
      <4>3. jobOf[l] = client[c].job
        BY <4>2 DEF OwnLease, LauncherOwner
      <4> QED  BY <3>1, <4>1, <4>2, <4>3 DEF Began
    <3> QED  BY <1>1, <3>2, <3>3, <3>4
  <2> QED  BY <2>1, <2>2
<1>5. Began'
  BY <1>2, <1>4 DEF Began
<1> QED  BY <1>3, <1>5

LEMMA AttemptStep ==
  ASSUME TypeOK, Links, Names, Starts, AttemptInv, [Next]_vars
  PROVE  AttemptInv'
<1>1. ASSUME NEW l \in Launch, \E j \in Job : BeginStart(l, j) \/ BeginResume(l, j)
      PROVE  AttemptInv'
  BY <1>1, BeginKeeps
<1>2. ASSUME NEW l \in Launch, LauncherProgress(l)  PROVE AttemptInv'
  BY <1>2, AcquireKeeps, InitializeKeeps, ConsumeKeeps, SpawnKeeps, LauncherQuiet, QuietKeeps
  DEF LauncherProgress
<1>3. ASSUME NEW l \in Launch, WorkerProgress(l)  PROVE AttemptInv'
  BY <1>3, ClaimKeeps, WorkerQuiet, QuietKeeps DEF WorkerProgress
<1>4. ASSUME NEW l \in Launch, Fault(l)  PROVE AttemptInv'
  BY <1>4, LauncherQuiet, WorkerQuiet, QuietKeeps DEF Fault
<1>5. ASSUME NEW c \in Client, \E j \in Job : StatusRead(c, j)  PROVE AttemptInv'
  BY <1>5, ClientQuiet, QuietKeeps
<1>6. ASSUME NEW c \in Client, StatusProgress(c)  PROVE AttemptInv'
  BY <1>6, InspectKeeps, InterruptKeeps, ClientQuiet, QuietKeeps DEF StatusProgress
<1>7. CASE UNCHANGED vars
  <2>1. Quiet
    BY <1>7 DEF Quiet, vars, storeVars, launcherVars, workerVars
  <2> QED  BY <2>1, QuietKeeps
<1> QED  BY <1>1, <1>2, <1>3, <1>4, <1>5, <1>6, <1>7 DEF Next

LEMMA AttemptInvariant == Spec => []AttemptInv
<1>1. Init => AttemptInv
  <2> SUFFICES ASSUME Init  PROVE AttemptInv
    OBVIOUS
  <2>1. Chain /\ Confirmed /\ Fresh
    BY DEF Init, Chain, Confirmed, Fresh, Made
  <2>2. Began /\ Holders
    BY OwnersDiffer DEF Init, Began, Holders, Made, AtRest
  <2> QED  BY <2>1, <2>2 DEF AttemptInv
<1>2. TypeOK /\ Links /\ Names /\ Starts /\ AttemptInv /\ [Next]_vars => AttemptInv'
  BY AttemptStep
<1> QED  BY <1>1, <1>2, Typed, NamesInvariant, StartsInvariant, PTL DEF Spec

\* Two resumes never continue the same attempt of a job, although each was confirmed
\* on a plan read long before (ADR-0017), whatever crashes and fails.
THEOREM ConfirmationIsUsedOnce == Spec => []AttemptsAreNotForked
<1>1. AttemptInv => AttemptsAreNotForked
  BY DEF AttemptInv, Chain, Made, AttemptsAreNotForked
<1> QED  BY <1>1, AttemptInvariant, PTL

\* The worker that executes a live job executes the attempt its own launch created, as
\* long as process probes do not throw.
THEOREM WorkerIsCurrent ==
  ASSUME ProbeMayFail = FALSE
  PROVE  Spec => []WorkerRunsItsAttempt
<1>1. AttemptInv /\ EngagedHoldsLease => WorkerRunsItsAttempt
  BY DEF AttemptInv, Holders, Made, EngagedHoldsLease, WorkerRunsItsAttempt, Engaged, InTry
<1> QED  BY <1>1, AttemptInvariant, LeaseIsKept, PTL

-----------------------------------------------------------------------------
(* A result is recorded after the process tree is gone *)

\* Before agent.dispose only a cancellation calls abort, and it is over when abort returns;
\* the answer of an abort that came before the tree is kept.  From agent.dispose on, and
\* under an outcome that no cancellation chose, the tree is gone.
Quiesced(l) ==
  /\ wpc[l] \in {"none", "starting", "claiming", "claimed", "identified", "provisioning",
                 "running", "preparing", "quiesced", "verifying", "committing", "concluding"}
     => ~agent[l]
  /\ wpc[l] \in {"none", "starting", "claiming", "claimed", "identified", "provisioning",
                 "running", "preparing", "prompted", "answered"} /\ aborting[l] # "no"
     => cancel[l] = "over"
  /\ agent[l] /\ aborting[l] = "resolved" => cancel[l] = "over"
  /\ wpc[l] = "answered" /\ cancel[l] = "over" /\ aborting[l] = "resolved" => ~agent[l]
  /\ wpc[l] = "reading" /\ cancel[l] = "no" => ~agent[l]
  /\ wpc[l] = "recording" /\ readStatus[l] = None => outcome[l] = "cancelled" \/ ~agent[l]

Quiescence == \A l \in Launch : Quiesced(l)

LEMMA AbortCases ==
  ASSUME TypeOK, NEW l \in Launch, NEW a \in Aborts(l)
  PROVE  /\ a.agent \in BOOLEAN /\ a.aborting \in {"no", "resolved", "rejected"}
         /\ a.agent => agent[l]
         /\ ~HasBackend(l) => a.agent = FALSE /\ a.aborting = aborting[l]
         /\ HasBackend(l) /\ aborting[l] # "no" => a.agent = agent[l] /\ a.aborting = aborting[l]
         /\ aborting[l] = "no" /\ a.agent => a.aborting = "rejected"
<1>1. a.agent \in BOOLEAN /\ a.aborting \in {"no", "resolved", "rejected"}
  BY AbortsType DEF TypeOK
<1>2. agent[l] \in BOOLEAN /\ aborting[l] \in {"no", "resolved", "rejected"}
  BY DEF TypeOK, WorkerTypeOK
<1>3. CASE ~HasBackend(l)
  <2>1. a = [agent |-> FALSE, aborting |-> aborting[l]]
    BY <1>3 DEF Aborts
  <2> QED  BY <1>1, <1>3, <2>1
<1>4. CASE HasBackend(l) /\ aborting[l] # "no"
  <2>1. a = [agent |-> agent[l], aborting |-> aborting[l]]
    BY <1>4 DEF Aborts
  <2> QED  BY <1>1, <1>4, <2>1
<1>5. CASE HasBackend(l) /\ aborting[l] = "no"
  <2>1. a = [agent |-> FALSE, aborting |-> "resolved"]
        \/ (agent[l] /\ a = [agent |-> TRUE, aborting |-> "rejected"])
    BY <1>5 DEF Aborts
  <2> QED  BY <1>1, <1>5, <2>1
<1> QED  BY <1>3, <1>4, <1>5

\* What an abort leaves of the invariant's part about trees and answers.
LEMMA AbortKeeps ==
  ASSUME TypeOK, NEW l \in Launch, Quiesced(l), NEW a \in Aborts(l), Abort(l, a)
  PROVE  /\ agent' = [agent EXCEPT ![l] = a.agent]
         /\ aborting' = [aborting EXCEPT ![l] = a.aborting]
         /\ agent'[l] = a.agent /\ aborting'[l] = a.aborting
         /\ agent'[l] => agent[l]
         /\ agent'[l] /\ aborting'[l] # "rejected" => cancel[l] = "over" /\ aborting[l] = "resolved"
<1>1. /\ agent' = [agent EXCEPT ![l] = a.agent]
      /\ aborting' = [aborting EXCEPT ![l] = a.aborting]
  BY DEF Abort
<1>2. agent'[l] = a.agent /\ aborting'[l] = a.aborting
  BY <1>1 DEF TypeOK, WorkerTypeOK
<1>3. ASSUME a.agent, a.aborting # "rejected"
      PROVE  cancel[l] = "over" /\ aborting[l] = "resolved"
  <2>1. agent[l] /\ HasBackend(l) /\ aborting[l] # "no" /\ a.aborting = aborting[l]
    BY <1>3, AbortCases DEF HasBackend
  <2>2. aborting[l] = "resolved"
    BY <1>3, <2>1 DEF TypeOK, WorkerTypeOK
  <2> QED  BY <2>1, <2>2 DEF Quiesced
<1> QED  BY <1>1, <1>2, <1>3, AbortCases

\* A step of one worker that changes nothing of the others.
LEMMA OneWorker ==
  ASSUME TypeOK, Quiescence, NEW l \in Launch, Quiesced(l)',
         \A m \in Launch \ {l} :
           /\ wpc'[m] = wpc[m] /\ readStatus'[m] = readStatus[m] /\ cancel'[m] = cancel[m]
           /\ outcome'[m] = outcome[m] /\ agent'[m] = agent[m] /\ aborting'[m] = aborting[m]
  PROVE  Quiescence'
BY DEF Quiescence, Quiesced

LEMMA QuiescenceOfSpawned ==
  ASSUME TypeOK, Links, Quiescence, NEW l \in Launch,
         Spawn(l) \/ SpawnTimeout(l) \/ WorkerCrash(l) \/ WorkerExit(l) \/ WorkerStartFails(l)
  PROVE  Quiescence'
<1> USE DEF TypeOK, WorkerTypeOK
<1>1. Quiesced(l)
  BY DEF Quiescence
<1>2. CASE Spawn(l)
  <2>1. wpc[l] = "none"
    BY <1>2 DEF Spawn, Links, Unspawned
  <2>2. Quiesced(l)'
    BY <1>1, <1>2, <2>1 DEF Spawn, Quiesced
  <2> QED  BY <1>2, <2>2, OneWorker DEF Spawn
<1>3. CASE SpawnTimeout(l) \/ WorkerCrash(l) \/ WorkerExit(l)
  <2>1. /\ wpc' = [wpc EXCEPT ![l] = "gone"] /\ UNCHANGED agent /\ Forget(l)
    BY <1>3 DEF SpawnTimeout, WorkerCrash, WorkerExit
  <2>2. Quiesced(l)'
    BY <2>1 DEF Forget, Quiesced
  <2> QED  BY <2>1, <2>2, OneWorker DEF Forget
<1>4. CASE WorkerStartFails(l)
  <2>1. Quiesced(l)'
    BY <1>1, <1>4 DEF WorkerStartFails, Quiesced
  <2> QED  BY <1>4, <2>1, OneWorker DEF WorkerStartFails
<1> QED  BY <1>2, <1>3, <1>4

\* The main flow of a worker.
LEMMA QuiescenceOfFlow ==
  ASSUME TypeOK, Links, Quiescence, NEW l \in Launch,
         \/ WorkerStart(l) \/ WorkerClaim(l) \/ WorkerIdentify(l) \/ WorkerAdvance(l)
         \/ PrepareAgent(l) \/ StartAgent(l) \/ AgentAnswers(l) \/ QuiesceAgent(l)
         \/ WorkerConclude(l) \/ WorkerSucceed(l) \/ WorkerThrows(l)
  PROVE  Quiescence'
<1> USE DEF TypeOK, WorkerTypeOK
<1>1. Quiesced(l)
  BY DEF Quiescence
<1>2. CASE WorkerStart(l)
  <2>1. Quiesced(l)'
    BY <1>1, <1>2 DEF WorkerStart, Quiesced
  <2> QED  BY <1>2, <2>1, OneWorker DEF WorkerStart
<1>3. CASE WorkerClaim(l)
  <2>1. Quiesced(l)'
    BY <1>1, <1>3 DEF WorkerClaim, Quiesced
  <2> QED  BY <1>3, <2>1, OneWorker DEF WorkerClaim
<1>4. CASE WorkerIdentify(l)
  <2>1. Quiesced(l)'
    BY <1>1, <1>4 DEF WorkerIdentify, Quiesced
  <2> QED  BY <1>4, <2>1, OneWorker DEF WorkerIdentify
<1>5. CASE WorkerAdvance(l)
  <2>1. PICK s \in NextStage(l) : wpc' = [wpc EXCEPT ![l] = s]
    BY <1>5 DEF WorkerAdvance
  <2>2. /\ wpc[l] \in {"identified", "provisioning", "running", "quiesced", "verifying"}
        /\ s \in {"provisioning", "running", "verifying", "committing"}
        /\ s \in {"provisioning", "running"} => wpc[l] \in {"identified", "provisioning"}
    BY DEF NextStage
  <2>3. cancel[l] = "no" /\ UNCHANGED <<readStatus, holding, cancel, outcome, agent, aborting>>
    BY <1>5 DEF WorkerAdvance
  <2>4. Quiesced(l)'
    BY <1>1, <2>1, <2>2, <2>3 DEF Quiesced
  <2> QED  BY <2>1, <2>3, <2>4, OneWorker
<1>6. CASE PrepareAgent(l)
  <2>1. Quiesced(l)'
    BY <1>1, <1>6 DEF PrepareAgent, Quiesced
  <2> QED  BY <1>6, <2>1, OneWorker DEF PrepareAgent
<1>7. CASE StartAgent(l)
  <2>1. Quiesced(l)'
    BY <1>1, <1>7 DEF StartAgent, Quiesced
  <2> QED  BY <1>7, <2>1, OneWorker DEF StartAgent
<1>8. CASE AgentAnswers(l)
  <2>1. Quiesced(l)'
    BY <1>1, <1>8 DEF AgentAnswers, Quiesced
  <2> QED  BY <1>8, <2>1, OneWorker DEF AgentAnswers
<1>9. CASE QuiesceAgent(l)
  <2>1. /\ wpc[l] = "answered" /\ wpc' = [wpc EXCEPT ![l] = "quiesced"]
        /\ UNCHANGED <<readStatus, cancel, outcome>>
    BY <1>9 DEF QuiesceAgent
  <2>2. PICK a \in Aborts(l) : a.aborting # "rejected" /\ Abort(l, a)
    BY <1>9 DEF QuiesceAgent
  <2>3. ~agent'[l]
    BY <1>1, <2>1, <2>2, AbortKeeps DEF Quiesced
  <2>4. Quiesced(l)'
    BY <2>1, <2>3 DEF Quiesced
  <2> QED  BY <1>1, <2>1, <2>2, <2>4, OneWorker, AbortKeeps
<1>10. CASE WorkerConclude(l)
  <2>1. Quiesced(l)'
    BY <1>1, <1>10 DEF WorkerConclude, Quiesced
  <2> QED  BY <1>10, <2>1, OneWorker DEF WorkerConclude
<1>11. CASE WorkerSucceed(l)
  <2>1. Quiesced(l)'
    BY <1>1, <1>11 DEF WorkerSucceed, Quiesced
  <2> QED  BY <1>11, <2>1, OneWorker DEF WorkerSucceed
<1>12. CASE WorkerThrows(l)
  <2>1. Quiesced(l)'
    BY <1>1, <1>12 DEF WorkerThrows, Quiesced
  <2> QED  BY <1>12, <2>1, OneWorker DEF WorkerThrows
<1> QED
  BY <1>2, <1>3, <1>4, <1>5, <1>6, <1>7, <1>8, <1>9, <1>10, <1>11, <1>12

\* Cancellation, failure and shutdown.
LEMMA QuiescenceOfEnd ==
  ASSUME TypeOK, Links, Quiescence, NEW l \in Launch,
         \/ CancelRequest(l) \/ CancelWrite(l) \/ CancelQuiesce(l)
         \/ WorkerCatch(l) \/ WorkerQuiesce(l) \/ WorkerReadsOutcome(l)
         \/ WorkerRecord(l) \/ WorkerClose(l)
  PROVE  Quiescence'
<1> USE DEF TypeOK, WorkerTypeOK
<1>1. Quiesced(l)
  BY DEF Quiescence
<1>2. CASE CancelRequest(l)
  <2>1. Quiesced(l)'
    BY <1>1, <1>2 DEF CancelRequest, Quiesced
  <2> QED  BY <1>2, <2>1, OneWorker DEF CancelRequest
<1>3. CASE CancelWrite(l)
  <2>1. /\ cancel[l] = "flagged" /\ cancel' \in {[cancel EXCEPT ![l] = "written"],
                                                [cancel EXCEPT ![l] = "over"]}
        /\ UNCHANGED <<wpc, readStatus, outcome, agent, aborting>>
    BY <1>3 DEF CancelWrite
  <2>2. cancel'[l] \in {"written", "over"} /\ \A m \in Launch \ {l} : cancel'[m] = cancel[m]
    BY <2>1
  <2>3. Quiesced(l)'
    BY <1>1, <2>1, <2>2 DEF Quiesced
  <2> QED  BY <2>1, <2>2, <2>3, OneWorker
<1>4. CASE CancelQuiesce(l)
  <2>1. /\ cancel[l] = "written" /\ cancel' = [cancel EXCEPT ![l] = "over"]
        /\ UNCHANGED <<wpc, readStatus, outcome>>
    BY <1>4 DEF CancelQuiesce
  <2>2. PICK a \in Aborts(l) : Abort(l, a)
    BY <1>4 DEF CancelQuiesce
  <2>3. agent'[l] => agent[l] /\ aborting'[l] = "rejected"
    BY <1>1, <2>1, <2>2, AbortKeeps, AbortCases
  <2>4. Quiesced(l)'
    BY <1>1, <2>1, <2>3 DEF Quiesced
  <2> QED  BY <1>1, <2>1, <2>2, <2>4, OneWorker, AbortKeeps
<1>5. CASE WorkerCatch(l)
  <2>1. Quiesced(l)'
    BY <1>1, <1>5 DEF WorkerCatch, Quiesced
  <2> QED  BY <1>5, <2>1, OneWorker DEF WorkerCatch
<1>6. CASE WorkerQuiesce(l) /\ cancel[l] = "no"
  <2>1. PICK a \in Aborts(l) :
          /\ Abort(l, a)
          /\ wpc' = [wpc EXCEPT ![l] = IF a.aborting = "rejected" THEN "closing" ELSE "reading"]
    BY <1>6 DEF WorkerQuiesce
  <2>2. UNCHANGED <<readStatus, cancel, outcome>>
    BY <1>6 DEF WorkerQuiesce
  <2>3. agent'[l] => aborting'[l] = "rejected" /\ wpc'[l] = "closing"
    BY <1>1, <1>6, <2>1, AbortKeeps
  <2>4. wpc'[l] \in {"closing", "reading"}
    BY <2>1
  <2>5. Quiesced(l)'
    BY <2>3, <2>4 DEF Quiesced
  <2> QED  BY <1>1, <2>1, <2>2, <2>5, OneWorker, AbortKeeps
<1>7. CASE WorkerQuiesce(l) /\ cancel[l] # "no"
  <2>1. Quiesced(l)'
    BY <1>1, <1>7 DEF WorkerQuiesce, Quiesced
  <2> QED  BY <1>7, <2>1, OneWorker DEF WorkerQuiesce
<1>8. CASE WorkerReadsOutcome(l)
  <2>1. /\ wpc[l] = "reading" /\ wpc' = [wpc EXCEPT ![l] = "recording"]
        /\ UNCHANGED <<cancel, agent, aborting>>
        /\ readStatus' = [readStatus EXCEPT ![l] =
             IF Active(jobOf[l]) THEN None ELSE status[jobOf[l]]]
        /\ outcome' = [outcome EXCEPT ![l] =
             IF ~Active(jobOf[l]) THEN status[jobOf[l]]
             ELSE IF cancel[l] = "no" THEN "failed" ELSE "cancelled"]
    BY <1>8 DEF WorkerReadsOutcome
  <2>2. status[jobOf[l]] \in Statuses
    BY <2>1 DEF Links
  <2>3. readStatus'[l] = None => outcome'[l] = "cancelled" \/ cancel[l] = "no"
    BY <2>1, <2>2, NoneAssumption
  <2>4. Quiesced(l)'
    BY <1>1, <2>1, <2>3 DEF Quiesced
  <2> QED  BY <2>1, <2>4, OneWorker
<1>9. CASE WorkerRecord(l)
  <2>1. Quiesced(l)'
    BY <1>1, <1>9 DEF WorkerRecord, Quiesced
  <2> QED  BY <1>9, <2>1, OneWorker DEF WorkerRecord
<1>10. CASE WorkerClose(l)
  <2>1. /\ wpc' \in {[wpc EXCEPT ![l] = "stranded"], [wpc EXCEPT ![l] = "draining"]}
        /\ UNCHANGED <<readStatus, cancel, outcome>>
    BY <1>10 DEF WorkerClose
  <2>2. PICK a \in Aborts(l) : Abort(l, a)
    BY <1>10 DEF WorkerClose
  <2>3. wpc'[l] \in {"stranded", "draining"} /\ \A m \in Launch \ {l} : wpc'[m] = wpc[m]
    BY <2>1
  <2>4. Quiesced(l)'
    BY <1>1, <2>1, <2>2, <2>3, AbortKeeps DEF Quiesced
  <2> QED  BY <1>1, <2>1, <2>2, <2>3, <2>4, OneWorker, AbortKeeps
<1> QED
  BY <1>2, <1>3, <1>4, <1>5, <1>6, <1>7, <1>8, <1>9, <1>10

LEMMA QuiescenceStep ==
  ASSUME TypeOK, Links, Quiescence, [Next]_vars
  PROVE  Quiescence'
<1>1. CASE UNCHANGED workerVars
  BY <1>1 DEF Quiescence, Quiesced, workerVars
<1>2. ASSUME NEW l \in Launch, NEW j \in Job, BeginStart(l, j) \/ BeginResume(l, j)
      PROVE  Quiescence'
  BY <1>1, <1>2 DEF BeginStart, BeginResume
<1>3. ASSUME NEW l \in Launch, LauncherProgress(l)  PROVE Quiescence'
  BY <1>1, <1>3, QuiescenceOfSpawned
  DEF LauncherProgress, AcquireFree, AcquireInspect, AcquireRemove, Initialize, Consume,
      LauncherFails, SpawnConfirmed, SpawnExited, LauncherRelease
<1>4. ASSUME NEW l \in Launch, WorkerProgress(l)  PROVE Quiescence'
  BY <1>4, QuiescenceOfSpawned, QuiescenceOfFlow, QuiescenceOfEnd DEF WorkerProgress
<1>5. ASSUME NEW l \in Launch, Fault(l)  PROVE Quiescence'
  BY <1>1, <1>5, QuiescenceOfSpawned, QuiescenceOfEnd
  DEF Fault, SpawnProbeThrows, LauncherCrash
<1>6. ASSUME NEW c \in Client,
             StatusProgress(c) \/ \E j \in Job : StatusRead(c, j)
      PROVE  Quiescence'
  BY <1>1, <1>6
  DEF StatusProgress, StatusRead, StatusInspect, StatusAdopt, StatusVerify, StatusInterrupt
<1>7. CASE UNCHANGED vars
  BY <1>1, <1>7 DEF vars
<1> QED  BY <1>2, <1>3, <1>4, <1>5, <1>6, <1>7 DEF Next

\* What the two transactions that record a result write.
LEMMA RecordStep ==
  ASSUME TypeOK, Links, Quiescence, [Next]_vars, NEW l \in Launch,
         wpc[l] \in {"concluding", "recording"}, wpc'[l] = "closing",
         Active(jobOf[l]), status'[jobOf[l]] \in {"succeeded", "failed"}
  PROVE  ~agent[l]
<1> USE DEF TypeOK, WorkerTypeOK
<1>1. Quiesced(l)
  BY DEF Quiescence
<1>2. CASE wpc[l] = "concluding"
  BY <1>1, <1>2 DEF Quiesced
<1>3. CASE wpc[l] = "recording"
  <2>1. WorkerRecord(l)
    <3>1. ASSUME NEW m \in Launch, WorkerProgress(m) \/ Fault(m) \/ LauncherProgress(m)
                   \/ \E j \in Job : BeginStart(m, j) \/ BeginResume(m, j)
          PROVE  WorkerRecord(l)
      <4>1. wpc'[l] # wpc[l]
        BY <1>3
      <4>2. CASE WorkerProgress(m)
        <5>1. WorkerRecord(m) \/ (m = l => wpc[m] # "recording") \/ UNCHANGED wpc
          BY <4>2
          DEF WorkerProgress, WorkerStart, WorkerClaim, WorkerIdentify, WorkerAdvance, NextStage,
              PrepareAgent, StartAgent, AgentAnswers, QuiesceAgent, WorkerConclude,
              WorkerSucceed, WorkerThrows, InTry, CancelWrite, CancelQuiesce, WorkerCatch,
              WorkerQuiesce, WorkerReadsOutcome, WorkerClose, WorkerExit
        <5>2. \A k \in Launch \ {m} : wpc'[k] = wpc[k]
          <6>1. CASE WorkerClose(m) \/ WorkerQuiesce(m)
            BY <6>1 DEF WorkerClose, WorkerQuiesce
          <6>2. CASE WorkerAdvance(m)
            BY <6>2 DEF WorkerAdvance
          <6> QED
            BY <4>2, <6>1, <6>2
            DEF WorkerProgress, WorkerStart, WorkerClaim, WorkerIdentify, PrepareAgent,
                StartAgent, AgentAnswers, QuiesceAgent, WorkerConclude, WorkerSucceed,
                WorkerThrows, CancelWrite, CancelQuiesce, WorkerCatch, WorkerReadsOutcome,
                WorkerRecord, WorkerExit
        <5> QED  BY <1>3, <4>1, <5>1, <5>2
      <4>3. CASE Fault(m)
        BY <1>3, <4>1, <4>3
        DEF Fault, SpawnProbeThrows, LauncherCrash, WorkerStartFails, CancelRequest,
            WorkerCrash, workerVars
      <4>4. CASE LauncherProgress(m)
        BY <1>3, <4>1, <4>4
        DEF LauncherProgress, AcquireFree, AcquireInspect, AcquireRemove, Initialize, Consume,
            LauncherFails, Spawn, SpawnConfirmed, SpawnExited, SpawnTimeout, LauncherRelease,
            workerVars
      <4>5. CASE \E j \in Job : BeginStart(m, j) \/ BeginResume(m, j)
        BY <4>1, <4>5 DEF BeginStart, BeginResume, workerVars
      <4> QED  BY <3>1, <4>2, <4>3, <4>4, <4>5
    <3>2. ASSUME NEW c \in Client,
                 StatusProgress(c) \/ \E j \in Job : StatusRead(c, j)
          PROVE  FALSE
      BY <1>3, <3>2
      DEF StatusProgress, StatusRead, StatusInspect, StatusAdopt, StatusVerify,
          StatusInterrupt, workerVars
    <3>3. ~UNCHANGED vars
      BY <1>3 DEF vars, workerVars
    <3> QED  BY <3>1, <3>2, <3>3 DEF Next
  <2>2. jobOf[l] \in Job /\ status \in [Job -> Statuses \union {"absent"}]
    BY <1>3 DEF Links, Unspawned, StoreTypeOK
  <2>3. status[jobOf[l]] \notin {"succeeded", "failed"}
    BY DEF Active, LiveStatuses
  <2>4. readStatus[l] = None /\ Finalize(jobOf[l], outcome[l], WorkerToken(l))
    BY <2>1, <2>3 DEF WorkerRecord, storeVars
  <2>5. status'[jobOf[l]] = outcome[l]
    BY <2>2, <2>4 DEF Finalize
  <2> QED  BY <1>1, <1>3, <2>4, <2>5 DEF Quiesced
<1> QED  BY <1>2, <1>3

\* A worker that records success or failure has no process tree left: with a tree that
\* survives SIGKILL, a cancellation at any moment and the crashes of everybody else.
THEOREM QuiescenceBeforeResult == Spec => RecordedAfterQuiescence
<1>1. Init => Quiescence
  BY DEF Init, Quiescence, Quiesced
<1>2. TypeOK /\ Links /\ Quiescence /\ [Next]_vars => Quiescence'
  BY QuiescenceStep
<1>3. TypeOK /\ Links /\ Quiescence /\ [Next]_vars =>
      [\A l \in Launch :
         /\ wpc[l] \in {"concluding", "recording"} /\ wpc'[l] = "closing"
         /\ Active(jobOf[l]) /\ status'[jobOf[l]] \in {"succeeded", "failed"}
         => ~agent[l]]_vars
  BY RecordStep
<1> QED
  BY <1>1, <1>2, <1>3, Typed, PTL DEF Spec, RecordedAfterQuiescence

=============================================================================
