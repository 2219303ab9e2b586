---------------------------- MODULE RecoveryProofs ----------------------------
(***************************************************************************)
(* Proofs about Recovery, for any number of clients, gates and attempts    *)
(* and whatever of its faults are switched on: its type invariant, that no *)
(* gate and no commit works beside a Prime process of any attempt, that    *)
(* nothing runs twice and, unless git outlives its worker while others     *)
(* edit the worktree, that a job has one commit and Recovery implements    *)
(* ResumePromise.  What a resumed worker commits in a worktree that nobody *)
(* edits while it is at work is what was confirmed.                        *)
(***************************************************************************)
EXTENDS Recovery, WellFoundedInduction, TLAPS

\* An attempt not made yet has no process.
Ahead ==
  \A a \in Attempt :
    a > current => wpc[a] = "none" /\ proc[a] = "none" /\ ~agent[a] /\ at[a] = Worktree

\* A resumed attempt's worker is gone, and so is its agent.
Behind == \A a \in Attempt : a < current => ~WorkerAlive(a) /\ ~agent[a]

\* An attempt starts where its plan says, which is never between Prime's answer and
\* quiescence, and goes forward from there.
Forward ==
  \A a \in Attempt :
    /\ plan[a].next <= at[a] /\ plan[a].next \notin {Prime, Quiesce}
    /\ wpc[a] = "queued" => at[a] = plan[a].next

\* What the evidence says of Prime: completed once the worker has gone past it, and
\* known to have begun while an agent may live.
TrailOf(a) ==
  /\ \A o \in {Prime, Quiesce} : cp[a][o] = "completed" => o < at[a]
  /\ Prime < at[a] => Prime < plan[a].next \/ cp[a][Prime] = "completed"
  /\ wpc[a] = "work" /\ at[a] = Prime => cp[a][Prime] \in {"started", "uncertain"}
  /\ agent[a] => /\ at[a] \in {Prime, Quiesce}
                 /\ cp[a][Prime] \in {"started", "uncertain", "completed"}
  /\ at[a] = Quiesce /\ proc[a] = "ok" => ~agent[a]

Trail == \A a \in Attempt : TrailOf(a)

\* An interrupted attempt has no started checkpoint.
Settled == status = "interrupted" => \A o \in Op : cp[current][o] # "started"

\* A client works on an attempt that is interrupted or behind, settles only what may
\* be settled, and consumes alone, with no worker left.
Clients ==
  \A c \in Client :
    /\ client[c].pc # "idle" => /\ client[c].plan.attempt \in 1..current
                                /\ client[c].plan.attempt = current => status = "interrupted"
    /\ client[c].pc = "reconcile" => client[c].op \in Reconcilable
    /\ client[c].pc = "consume" =>
         ~Working /\ \A d \in Client : client[d].pc = "consume" => d = c

\* A plan of the current attempt, offered or about to be: its agent is gone and its
\* Prime run is not in doubt, and beyond quiescence it resumes beyond quiescence.
PlanIsSafe(p) ==
  /\ p.next \notin {Prime, Quiesce}
  /\ p.attempt \in 1..current
  /\ p.attempt = current =>
       /\ status = "interrupted"
       /\ ~agent[current]
       /\ at[current] = Prime => cp[current][Prime] # "uncertain"
       /\ at[current] > Quiesce => p.next > Quiesce

Plans ==
  /\ \A p \in offers : PlanIsSafe(p)
  /\ \A c \in Client : client[c].pc \in {"offer", "consume"} => PlanIsSafe(client[c].plan)

\* Once an attempt got beyond quiescence, every later one starts beyond it.
Onward == \A a \in Attempt : a < current /\ at[a] > Quiesce => at[current] > Quiesce

-----------------------------------------------------------------------------
(* The stage a plan continues with *)

\* Among the operations after quiescence there is a first one that is not done, if the
\* last one is not.
LEMMA FirstUndone ==
  ASSUME NEW S, S \subseteq Nat, S # {}
  PROVE  \E o \in S : \A p \in S : o <= p
<1> DEFINE Less == {ss \in Nat \X Nat : ss[1] < ss[2]}
<1>1. IsWellFoundedOn(Less, Nat)
  BY NatLessThanWellFounded DEF OpToRel
<1>2. PICK o \in S : \A p \in S : ~(<<p, o>> \in Less)
  BY <1>1, WFMin
<1>3. \A p \in S : ~(p < o)
  BY <1>2
<1> QED  BY <1>3

LEMMA NextStageIsSafe ==
  ASSUME NEW a \in Attempt, ~Done(a, Terminal)
  PROVE  /\ NextStage(a) \in Op \ {Prime, Quiesce}
         /\ Done(a, Worktree) /\ Done(a, Prime) =>
              /\ NextStage(a) > Quiesce
              /\ NextStage(a) \in Gates \union {Commit, Terminal} /\ ~Done(a, NextStage(a))
              /\ \A p \in Gates \union {Commit} : p < NextStage(a) => Done(a, p)
<1> USE BoundsAssumption DEF Op, Worktree, Provision, Prime, Quiesce, Gates, Commit, Terminal
<1> DEFINE S == {o \in Gates \union {Commit, Terminal} : ~Done(a, o)}
<1>1. PICK o \in S : \A p \in S : o <= p
  <2>1. S \subseteq Nat /\ Terminal \in S
    OBVIOUS
  <2> QED  BY <2>1, FirstUndone
<1>2. /\ o \in Gates \union {Commit, Terminal} /\ ~Done(a, o)
      /\ \A p \in Gates \union {Commit} : p < o => Done(a, p)
  BY <1>1
<1> HIDE DEF S
<1> QED  BY <1>2 DEF NextStage

LEMMA OpFacts ==
  /\ Op \subseteq Nat \ {0} /\ {Worktree, Provision, Prime, Quiesce, Commit, Terminal} \subseteq Op
  /\ Gates \subseteq Op
  /\ \A o \in Op : o # Terminal => o + 1 \in Op
  /\ Worktree = 1 /\ Provision = 2 /\ Prime = 3 /\ Quiesce = 4 /\ Commit > 4 /\ Terminal > 4
  /\ \A o \in Gates : o > 4 /\ o < Commit
  /\ \A o \in Op : o > 4 => o \in Gates \union {Commit, Terminal}
  /\ 1 \in Attempt /\ Attempt \subseteq Nat
  /\ Reconcilable \subseteq Op /\ Prime \notin Reconcilable /\ Quiesce \notin Reconcilable
BY BoundsAssumption DEF Op, Worktree, Provision, Prime, Quiesce, Gates, Commit, Terminal,
     Attempt, Reconcilable

LEMMA AttemptFacts ==
  ASSUME current \in Attempt
  PROVE  /\ \A a \in 1..current : a \in Attempt
         /\ Attempt \subseteq 0..MaxAttempts
         /\ current < MaxAttempts => current + 1 \in Attempt
BY BoundsAssumption DEF Attempt

-----------------------------------------------------------------------------
(* Types *)

ClientType == [pc : {"idle", "assess", "reconcile", "offer", "consume"},
               plan : PlanType, op : Op \union {0}, to : {"none", "completed", "retryable"}]

\* The parts of a plan, and plans and clients with some of them replaced.
LEMMA PlanParts ==
  ASSUME NEW p \in PlanType
  PROVE  /\ p.attempt \in 0..MaxAttempts /\ p.next \in Op /\ p.commit \in Nat
         /\ \A n \in Nat : [p EXCEPT !.commit = n] \in PlanType
         /\ \A a \in 0..MaxAttempts : [p EXCEPT !.attempt = a] \in PlanType
BY DEF PlanType

LEMMA ClientParts ==
  ASSUME NEW C \in ClientType, NEW o \in Op, NEW r \in {"completed", "retryable"},
         NEW n \in Nat
  PROVE  /\ C.plan \in PlanType /\ C.op \in Op \union {0}
         /\ C.to \in {"none", "completed", "retryable"}
         /\ [C EXCEPT !.pc = "reconcile", !.op = o, !.to = r,
                      !.plan = [C.plan EXCEPT !.commit = n]] \in ClientType
BY PlanParts DEF ClientType

LEMMA NoPlanType == NoPlan \in PlanType
BY OpFacts, BoundsAssumption DEF NoPlan, PlanType

LEMMA InitType == Init => TypeOK
BY OpFacts, NoPlanType DEF Init, TypeOK, Idle, CpStatuses

\* A plan a preview makes is one.
LEMMA PlanTyped ==
  ASSUME TypeOK, NEW a \in Attempt, SafeToResume(a)
  PROVE  ResumePlan(a) \in PlanType
<1>1. NextStage(a) \in Op
  BY NextStageIsSafe DEF SafeToResume
<1>2. Done(a, Worktree) => Snapshot \in {"none", "partial", "exact"} \X Nat
  BY DEF SafeToResume, WorktreeMatches, Snapshot, TypeOK
<1>3. <<"none", 0>> \in {"none", "partial", "exact"} \X Nat
  OBVIOUS
<1> QED  BY <1>1, <1>2, <1>3, BoundsAssumption DEF ResumePlan, PlanType, TypeOK, Attempt

LEMMA WorkerTypes ==
  ASSUME TypeOK, NEW a \in Attempt,
         WorkerProgress(a) \/ WorkerThrows(a) \/ WorkerCrash(a)
  PROVE  TypeOK'
<1> USE OpFacts DEF TypeOK, CpStatuses, Goto, storeVars, worldVars, workerVars
<1>1. CASE WorkerStarts(a)
  <2>1. plan[a].next \in Op
    BY DEF PlanType
  <2>2. /\ wpc' \in [Attempt -> {"none", "queued", "begin", "work", "failing", "gone"}]
        /\ at' \in [Attempt -> Op]
    BY <1>1, <2>1 DEF WorkerStarts
  <2>3. UNCHANGED <<storeVars, worldVars, proc, agent, runs, client>>
    BY <1>1 DEF WorkerStarts
  <2> QED  BY <2>2, <2>3
<1>2. CASE BeginCheckpoint(a)
  BY <1>2 DEF BeginCheckpoint
<1>3. CASE StartProcess(a)
  <2>1. agent' = [agent EXCEPT ![a] = agent[a] \/ at[a] = Prime]
    BY <1>3 DEF StartProcess
  <2>2. (agent[a] \/ at[a] = Prime) \in BOOLEAN
    OBVIOUS
  <2>3. agent' \in [Attempt -> BOOLEAN]
    BY <2>1, <2>2
  <2>4. runs' \in [Op -> Nat]
    <3>1. at[a] \in Op /\ runs \in [Op -> Nat]
      OBVIOUS
    <3>2. runs' = [runs EXCEPT ![at[a]] = runs[at[a]] + 1]
      BY <1>3 DEF StartProcess
    <3> QED  BY ONLY <3>1, <3>2
  <2>5. proc' \in [Attempt -> {"none", "running", "staged", "ok", "bad"}]
    BY <1>3 DEF StartProcess
  <2> QED  BY <1>3, <2>3, <2>4, <2>5 DEF StartProcess
<1>4. CASE QuiesceAgent(a)
  BY <1>4 DEF QuiesceAgent
<1>5. CASE CompleteCheckpoint(a)
  <2>1. at[a] \in Op /\ at[a] + 1 \in Op
    BY <1>5 DEF CompleteCheckpoint
  <2>2. /\ wpc' \in [Attempt -> {"none", "queued", "begin", "work", "failing", "gone"}]
        /\ at' \in [Attempt -> Op]
    BY <1>5, <2>1 DEF CompleteCheckpoint
  <2>3. cp' \in [Attempt -> [Op -> CpStatuses]] /\ sha' \in [Attempt -> Nat]
    BY <1>5, <2>1 DEF CompleteCheckpoint
  <2> QED  BY <1>5, <2>2, <2>3 DEF CompleteCheckpoint
<1>6. CASE Materialize(a)
  BY <1>6 DEF Materialize
<1>7. CASE WorkerFails(a)
  BY <1>7 DEF WorkerFails
<1>8. CASE WorkerThrows(a)
  BY <1>8 DEF WorkerThrows
<1>9. CASE WorkerCrash(a)
  BY <1>9 DEF WorkerCrash
<1> QED  BY <1>1, <1>2, <1>3, <1>4, <1>5, <1>6, <1>7, <1>8, <1>9 DEF WorkerProgress

LEMMA ProcessTypes ==
  ASSUME TypeOK, NEW a \in Attempt,
         ProcessProgress(a) \/ PrimeEdits(a) \/ OrphanEnds(a) \/ Edit \/ Interrupt
  PROVE  TypeOK'
<1> USE OpFacts DEF TypeOK, CpStatuses, storeVars, worldVars, workerVars
<1>1. CASE AddWorktree(a)
  BY <1>1 DEF AddWorktree
<1>2. CASE PrimeAnswers(a)
  BY <1>2 DEF PrimeAnswers
<1>3. CASE GateEnds(a)
  BY <1>3 DEF GateEnds
<1>4. CASE GitAdds(a)
  BY <1>4 DEF GitAdds
<1>5. CASE GitCommits(a)
  BY <1>5 DEF GitCommits
<1>6. CASE PrimeEdits(a)
  BY <1>6 DEF PrimeEdits
<1>7. CASE OrphanEnds(a)
  BY <1>7 DEF OrphanEnds
<1>8. CASE Edit
  <2>1. files' \in Nat
    BY <1>8 DEF Edit
  <2>3. touched' \subseteq Attempt
    BY <1>8, Zenon DEF Edit
  <2>2. UNCHANGED <<storeVars, tree, index, committed, head, workerVars, client>>
    BY <1>8 DEF Edit
  <2> QED  BY <2>1, <2>2, <2>3
<1>9. CASE Interrupt
  BY <1>9 DEF Interrupt
<1> QED  BY <1>1, <1>2, <1>3, <1>4, <1>5, <1>6, <1>7, <1>8, <1>9 DEF ProcessProgress

LEMMA ClientTypes ==
  ASSUME TypeOK, Clients, NEW c \in Client,
         PreviewReads(c) \/ PreviewProgress(c) \/ (\E p \in offers : Confirm(c, p))
  PROVE  TypeOK'
<1> USE OpFacts DEF TypeOK, CpStatuses, storeVars, worldVars, workerVars
<1>0. /\ Idle \in ClientType /\ client \in [Client -> ClientType]
      /\ \A a \in Attempt : [Idle.plan EXCEPT !.attempt = a] \in PlanType
      /\ client[c].plan \in PlanType
  <2>1. Idle \in ClientType /\ client \in [Client -> ClientType]
    BY NoPlanType DEF Idle, ClientType
  <2>2. Idle.plan = NoPlan
    BY DEF Idle
  <2> QED  BY <2>1, <2>2, NoPlanType, PlanParts, AttemptFacts DEF ClientType
<1>1. CASE PreviewReads(c)
  BY <1>0, <1>1 DEF PreviewReads, Idle
<1>2. CASE Assess(c)
  <2>1. \A o : Resolutions(o) \subseteq {"completed", "retryable"}
    BY DEF Resolutions
  <2>2. [client[c].plan EXCEPT !.commit = head] \in PlanType
    BY <1>0 DEF PlanType
  <2>3. PICK o \in Reconcilable :
             \/ client' = [client EXCEPT ![c] = Idle]
             \/ \E r \in Resolutions(o) :
                  client' = [client EXCEPT ![c].pc = "reconcile", ![c].op = o, ![c].to = r,
                                           ![c].plan.commit = head]
    <3>1. \E o \in Uncertain(client[c].plan.attempt) \intersect Reconcilable :
            \A p \in Uncertain(client[c].plan.attempt) \intersect Reconcilable : o <= p
      BY <1>2, FirstUndone DEF Assess
    <3> DEFINE pending == Uncertain(client[c].plan.attempt) \intersect Reconcilable
               o == CHOOSE o \in pending : \A p \in pending : o <= p
    <3>2. o \in pending
      BY <3>1
    <3> HIDE DEF o
    <3>3. o \in Reconcilable
      BY <3>2
    <3>4. \/ client' = [client EXCEPT ![c] = Idle]
          \/ \E r \in Resolutions(o) :
               client' = [client EXCEPT ![c].pc = "reconcile", ![c].op = o, ![c].to = r,
                                        ![c].plan.commit = head]
      BY <1>2 DEF Assess, o
    <3> QED  BY <3>3, <3>4
  <2>4. CASE client' = [client EXCEPT ![c] = Idle]
    BY <1>0, <1>2, <2>4 DEF Assess, ClientType
  <2>5. ASSUME NEW r \in Resolutions(o),
               client' = [client EXCEPT ![c].pc = "reconcile", ![c].op = o, ![c].to = r,
                                        ![c].plan.commit = head]
        PROVE  TypeOK'
    <3> DEFINE C == [client[c] EXCEPT !.pc = "reconcile", !.op = o, !.to = r,
                                      !.plan = [@ EXCEPT !.commit = head]]
    <3>1. C \in ClientType
      <4>1. client[c] \in ClientType /\ o \in Op /\ r \in {"completed", "retryable"}
        BY <1>0, <2>1
      <4> QED  BY <4>1, ClientParts
    <3>2. client' = [client EXCEPT ![c] = C]
      BY ONLY <2>5, Zenon
    <3> HIDE DEF C
    <3> QED  BY <1>2, <3>1, <3>2 DEF Assess, ClientType
  <2> QED  BY <2>3, <2>4, <2>5
<1>3. CASE Reconcile(c)
  <2>1. client[c].plan.attempt \in Attempt
    BY <1>3, AttemptFacts DEF Reconcile, Clients
  <2>2. client[c].op \in Op /\ client[c].to \in {"none", "completed", "retryable"}
        /\ client[c].plan.commit \in Nat
    BY <1>0, <1>3, PlanParts DEF Reconcile, Clients
  <2>3. client' = [client EXCEPT ![c] = Idle]
        \/ client' = [client EXCEPT ![c] =
             [Idle EXCEPT !.pc = "assess", !.plan.attempt = client[c].plan.attempt]]
    BY <1>3 DEF Reconcile
  <2>4. [Idle EXCEPT !.pc = "assess", !.plan.attempt = client[c].plan.attempt] \in ClientType
    BY <1>0, <2>1 DEF Idle, ClientType
  <2>5. client' \in [Client -> ClientType]
    BY <1>0, <2>3, <2>4
  <2>6. cp' \in [Attempt -> [Op -> CpStatuses]] /\ sha' \in [Attempt -> Nat]
    <3>1. CASE UNCHANGED <<cp, sha>>
      BY <3>1
    <3>2. CASE /\ client[c].pc = "reconcile"
               /\ cp' = [cp EXCEPT ![client[c].plan.attempt][client[c].op] = client[c].to]
               /\ sha' = [sha EXCEPT ![client[c].plan.attempt] =
                    IF client[c].op = Commit /\ client[c].to = "completed"
                      THEN client[c].plan.commit ELSE @]
      <4>1. client[c].to \in CpStatuses
        BY <2>2
      <4>2. cp' \in [Attempt -> [Op -> CpStatuses]]
        BY <2>1, <2>2, <3>2, <4>1
      <4>3. sha' \in [Attempt -> Nat]
        BY <2>1, <2>2, <3>2
      <4> QED  BY <4>2, <4>3
    <3> QED  BY <1>3, <3>1, <3>2 DEF Reconcile
  <2> QED  BY <1>3, <2>5, <2>6 DEF Reconcile, ClientType
<1>4. CASE Plan(c)
  <2>1. client[c].plan.attempt \in Attempt
    BY <1>4, AttemptFacts DEF Plan, Clients
  <2>2. CASE SafeToResume(client[c].plan.attempt)
    BY <1>0, <1>4, <2>1, <2>2, PlanTyped DEF Plan, Idle
  <2>3. CASE ~SafeToResume(client[c].plan.attempt)
    BY <1>0, <1>4, <2>3 DEF Plan, ClientType
  <2> QED  BY <2>2, <2>3
<1>5. CASE Offer(c)
  BY <1>0, <1>5 DEF Offer, ClientType
<1>6. CASE Consume(c)
  <2>1. /\ current \in Nat /\ (current < MaxAttempts => current + 1 \in Attempt)
        /\ client[c].plan.next \in Op /\ client[c].plan.commit \in Nat
    BY <1>0, AttemptFacts, PlanParts
  <2>2. /\ status' \in {"live", "interrupted", "succeeded", "failed"}
        /\ current' \in Attempt /\ offers' \subseteq PlanType
    BY <1>0, <1>6, <2>1 DEF Consume
  <2>3. /\ plan' \in [Attempt -> PlanType] /\ sha' \in [Attempt -> Nat]
        /\ at' \in [Attempt -> Op]
    BY <1>0, <1>6, <2>1 DEF Consume
  <2>4. wpc' \in [Attempt -> {"none", "queued", "begin", "work", "failing", "gone"}]
    BY <1>6, <2>1 DEF Consume
  <2>5. client' \in [Client -> ClientType]
    BY <1>0, <1>6 DEF Consume
  <2>6. UNCHANGED <<cp, tree, files, index, committed, head, touched, proc, agent, runs>>
    BY <1>6 DEF Consume
  <2> QED  BY ONLY TypeOK, <2>2, <2>3, <2>4, <2>5, <2>6 DEF TypeOK, ClientType
<1>7. ASSUME NEW p \in offers, Confirm(c, p)
      PROVE  TypeOK'
  BY <1>0, <1>7 DEF Confirm, Idle
<1> QED  BY <1>1, <1>2, <1>3, <1>4, <1>5, <1>6, <1>7 DEF PreviewProgress

-----------------------------------------------------------------------------
(* The invariant is inductive *)

Attempts == Ahead /\ Behind /\ Forward /\ Trail /\ Settled /\ Onward

\* Nothing about attempts depends on operations other than Prime and quiescence.
LEMMA AttemptsKept ==
  ASSUME Attempts, UNCHANGED <<status, current, plan, wpc, at, proc, agent>>,
         \A a \in Attempt : cp'[a][Prime] = cp[a][Prime] /\ cp'[a][Quiesce] = cp[a][Quiesce],
         Settled'
  PROVE  Attempts'
<1>1. Ahead' /\ Behind' /\ Forward' /\ Onward'
  BY DEF Attempts, Ahead, Behind, WorkerAlive, Forward, Onward
<1>2. Trail'
  BY DEF Attempts, Trail, TrailOf
<1> QED  BY <1>1, <1>2 DEF Attempts

\* A step of one client that does not come to consume.
LEMMA ClientsKept ==
  ASSUME Clients, client \in [Client -> ClientType], NEW c \in Client, NEW C,
         client' = [client EXCEPT ![c] = C],
         UNCHANGED <<status, current, wpc>>,
         C.pc # "consume",
         C.pc # "idle" => /\ C.plan.attempt \in 1..current
                          /\ C.plan.attempt = current => status = "interrupted",
         C.pc = "reconcile" => C.op \in Reconcilable
  PROVE  Clients'
BY DEF Clients, Working, WorkerAlive, Reconcilable

LEMMA PlansKept ==
  ASSUME Plans, client \in [Client -> ClientType], NEW c \in Client, NEW C,
         client' = [client EXCEPT ![c] = C],
         UNCHANGED <<status, current, agent, at, offers>>,
         cp'[current][Prime] = cp[current][Prime],
         C.pc \in {"offer", "consume"} => PlanIsSafe(C.plan)
  PROVE  Plans'
<1>1. \A p : PlanIsSafe(p) <=> PlanIsSafe(p)'
  BY DEF PlanIsSafe
<1> QED  BY <1>1 DEF Plans

\* A plan made when it is safe to resume stays clear of Prime.
LEMMA SafePlan ==
  ASSUME TypeOK, Attempts, NEW a \in 1..current, SafeToResume(a),
         a = current => status = "interrupted"
  PROVE  PlanIsSafe(ResumePlan(a))
<1>0. a \in Attempt
  BY AttemptFacts DEF TypeOK
<1>1. /\ NextStage(a) \notin {Prime, Quiesce}
      /\ Done(a, Worktree) /\ Done(a, Prime) => NextStage(a) > Quiesce
  BY <1>0, NextStageIsSafe DEF SafeToResume
<1>2. TrailOf(a) /\ plan[a].next <= at[a] /\ plan[a].next \notin {Prime, Quiesce}
  BY <1>0 DEF Attempts, Trail, Forward
<1>3. /\ plan[a].next \in Nat /\ at[a] \in Nat /\ agent[a] \in BOOLEAN
      /\ Prime = 3 /\ Quiesce = 4
  BY <1>0, PlanParts, OpFacts DEF TypeOK
<1>4. /\ Evidence(a)[Prime] = IF Prime < plan[a].next THEN "completed" ELSE cp[a][Prime]
      /\ Evidence(a)[Quiesce] = IF Quiesce < plan[a].next THEN "completed" ELSE cp[a][Quiesce]
  BY OpFacts DEF Evidence
<1>5. Evidence(a)[Prime] # "uncertain"
  BY OpFacts DEF SafeToResume, Uncertain
<1>6. Done(a, Prime) => Done(a, Quiesce) /\ Done(a, Worktree)
  <2>1. Worktree \in Op \ {Quiesce} /\ Prime \in Op \ {Quiesce} /\ Worktree < Prime
    BY OpFacts
  <2> QED  BY <2>1 DEF SafeToResume
<1>7. at[a] > Quiesce => NextStage(a) > Quiesce
  <2>1. at[a] > Quiesce => Done(a, Prime)
    BY <1>2, <1>3, <1>4 DEF TrailOf, Done
  <2> QED  BY <1>1, <1>6, <2>1
<1>8. ASSUME a = current
      PROVE  ~agent[a] /\ (at[a] = Prime => cp[a][Prime] # "uncertain")
  <2>1. cp[a][Prime] # "started"
    BY <1>8, OpFacts DEF Attempts, Settled
  <2>2. CASE Prime < plan[a].next
    BY <1>2, <1>3, <2>2 DEF TrailOf
  <2>3. CASE ~(Prime < plan[a].next)
    <3>1. cp[a][Prime] # "uncertain"
      BY <1>4, <1>5, <2>3
    <3>2. cp[a][Prime] = "completed" => at[a] > Quiesce
      BY <1>2, <1>3, <1>4, <1>6, <2>3 DEF TrailOf, Done
    <3> QED  BY <1>2, <1>3, <2>1, <3>1, <3>2 DEF TrailOf
  <2> QED  BY <2>2, <2>3
<1> QED  BY <1>1, <1>7, <1>8 DEF PlanIsSafe, ResumePlan

LEMMA WorkerSteps ==
  ASSUME TypeOK, Attempts, Clients, Plans, NEW a \in Attempt,
         WorkerProgress(a) \/ WorkerThrows(a) \/ WorkerCrash(a)
  PROVE  Attempts' /\ Clients' /\ Plans'
<1>t. /\ current \in Attempt /\ cp \in [Attempt -> [Op -> CpStatuses]]
      /\ plan \in [Attempt -> PlanType] /\ at \in [Attempt -> Op]
      /\ wpc \in [Attempt -> {"none", "queued", "begin", "work", "failing", "gone"}]
      /\ proc \in [Attempt -> {"none", "running", "staged", "ok", "bad"}]
      /\ agent \in [Attempt -> BOOLEAN] /\ \A b \in Attempt : plan[b].next \in Op
  BY PlanParts DEF TypeOK
<1> USE OpFacts, AttemptFacts, <1>t DEF Attempts, Goto, storeVars, worldVars, workerVars
<1>0. WorkerAlive(a) /\ a = current /\ \A c \in Client : client[c].pc # "consume"
  <2>1. WorkerAlive(a)
    BY DEF WorkerProgress, WorkerStarts, BeginCheckpoint, StartProcess, QuiesceAgent,
           CompleteCheckpoint, Materialize, WorkerFails, WorkerThrows, WorkerCrash, WorkerAlive
  <2>2. a \in Nat /\ current \in Nat
    OBVIOUS
  <2>3. a = current
    BY <2>1, <2>2 DEF Ahead, Behind, WorkerAlive
  <2> QED  BY <2>1, <2>3 DEF Clients, Working
<1>1. CASE WorkerStarts(a)
  <2>1. UNCHANGED <<status, current, cp, plan, at, proc, agent, offers, client>>
        /\ wpc' \in {[wpc EXCEPT ![a] = "begin"], [wpc EXCEPT ![a] = "failing"]}
        /\ wpc[a] = "queued"
    <3>1. at[a] = plan[a].next
      BY <1>1 DEF WorkerStarts, Forward
    <3>2. [at EXCEPT ![a] = at[a]] = at
      OBVIOUS
    <3> QED  BY <1>1, <3>1, <3>2 DEF WorkerStarts
  <2>2. Ahead' /\ Behind' /\ Settled' /\ Onward'
    BY <1>0, <2>1 DEF Ahead, Behind, WorkerAlive, Settled, Onward
  <2>3. Forward' /\ Trail'
    BY <2>1 DEF Forward, Trail, TrailOf
  <2>4. Clients'
    BY <1>0, <2>1 DEF Clients
  <2>5. Plans'
    BY <2>1 DEF Plans, PlanIsSafe
  <2> QED  BY <2>2, <2>3, <2>4, <2>5
<1>2. CASE BeginCheckpoint(a)
  <2>1. Ahead' /\ Behind'
    BY <1>0, <1>2 DEF Ahead, Behind, WorkerAlive, BeginCheckpoint, IsActive
  <2>2. Forward' /\ Onward'
    BY <1>0, <1>2 DEF Forward, Onward, BeginCheckpoint, IsActive
  <2>3. Trail'
    BY <1>0, <1>2 DEF Trail, TrailOf, BeginCheckpoint, IsActive
  <2>4. Settled'
    BY <1>0, <1>2 DEF Settled, BeginCheckpoint, IsActive
  <2>5. Clients'
    BY <1>0, <1>2 DEF Clients, Working, WorkerAlive, BeginCheckpoint, IsActive
  <2>6. Plans'
    BY <1>0, <1>2 DEF Plans, PlanIsSafe, BeginCheckpoint, IsActive
  <2> QED  BY <2>1, <2>2, <2>3, <2>4, <2>5, <2>6
<1>3. CASE StartProcess(a)
  <2>1. Ahead' /\ Behind'
    BY <1>0, <1>3 DEF Ahead, Behind, WorkerAlive, StartProcess
  <2>2. Forward' /\ Onward'
    BY <1>0, <1>3 DEF Forward, Onward, StartProcess
  <2>3. Trail'
    BY <1>0, <1>3 DEF Trail, TrailOf, StartProcess
  <2>4. Settled'
    BY <1>0, <1>3 DEF Settled, StartProcess
  <2>5. Clients'
    BY <1>0, <1>3 DEF Clients, Working, WorkerAlive, StartProcess
  <2>6. Plans'
    <3>1. ASSUME NEW p, PlanIsSafe(p)
          PROVE  PlanIsSafe(p)'
      <4>1. CASE p.attempt = current /\ at[a] = Prime
        <5>1. cp[current][Prime] \in {"started", "uncertain"}
          BY <1>0, <1>3, <4>1 DEF StartProcess, Trail, TrailOf
        <5> QED  BY <1>0, <3>1, <4>1, <5>1 DEF PlanIsSafe, Settled
      <4>2. CASE p.attempt = current /\ at[a] # Prime
        BY <1>3, <3>1, <4>2 DEF StartProcess, PlanIsSafe
      <4>3. CASE p.attempt # current
        BY <1>3, <3>1, <4>3 DEF StartProcess, PlanIsSafe
      <4> QED  BY <4>1, <4>2, <4>3
    <3> QED  BY <1>3, <3>1 DEF Plans, StartProcess
  <2> QED  BY <2>1, <2>2, <2>3, <2>4, <2>5, <2>6
<1>4. CASE QuiesceAgent(a)
  <2>1. Ahead' /\ Behind'
    BY <1>0, <1>4 DEF Ahead, Behind, WorkerAlive, QuiesceAgent
  <2>2. Forward' /\ Onward'
    BY <1>0, <1>4 DEF Forward, Onward, QuiesceAgent
  <2>3. Trail'
    BY <1>0, <1>4 DEF Trail, TrailOf, QuiesceAgent
  <2>4. Settled'
    BY <1>0, <1>4 DEF Settled, QuiesceAgent
  <2>5. Clients'
    BY <1>0, <1>4 DEF Clients, Working, WorkerAlive, QuiesceAgent
  <2>6. Plans'
    BY <1>0, <1>4 DEF Plans, PlanIsSafe, QuiesceAgent
  <2> QED  BY <2>1, <2>2, <2>3, <2>4, <2>5, <2>6
<1>5. CASE CompleteCheckpoint(a)
  <2>1. CASE /\ status = "live" /\ at[a] # Terminal
             /\ at[a] = Quiesce => proc[a] = "ok"
             /\ cp' = [cp EXCEPT ![a][at[a]] = "completed"]
             /\ at' = [at EXCEPT ![a] = at[a] + 1]
             /\ wpc' = [wpc EXCEPT ![a] = "begin"]
    <3>1. at'[a] = at[a] + 1 /\ \A b \in Attempt : b # a => at'[b] = at[b]
      BY <2>1
    <3>2. Ahead' /\ Behind' /\ Settled'
      BY <1>0, <1>5, <2>1 DEF CompleteCheckpoint, Ahead, Behind, WorkerAlive, Settled
    <3>3. Forward' /\ Onward'
      <4>0. at[a] \in Nat /\ current \in Nat /\ \A b \in Attempt : at[b] \in Nat /\ b \in Nat /\ plan[b].next \in Nat
        OBVIOUS
      <4>1. UNCHANGED <<plan, current>> /\ \A b \in Attempt : wpc'[b] = "queued" => b # a /\ wpc[b] = "queued"
        BY <1>5, <2>1 DEF CompleteCheckpoint
      <4>2. Forward'
        BY <3>1, <4>0, <4>1 DEF Forward
      <4>3. Onward'
        BY <1>0, <3>1, <4>0, <4>1 DEF Onward
      <4> QED  BY <4>2, <4>3
    <3>4. Trail'
      <4>1. \A b \in Attempt, o \in Op :
              cp'[b][o] = IF b = a /\ o = at[a] THEN "completed" ELSE cp[b][o]
        BY <2>1
      <4>2. UNCHANGED <<agent, plan>> /\ proc' = [proc EXCEPT ![a] = "none"]
            /\ \A b \in Attempt : wpc'[b] = IF b = a THEN "begin" ELSE wpc[b]
        BY <1>5, <2>1 DEF CompleteCheckpoint
      <4>3. ASSUME NEW b \in Attempt, b # a PROVE TrailOf(b)'
        BY <3>1, <4>1, <4>2, <4>3 DEF Trail, TrailOf
      <4>4. TrailOf(a)'
        <5>0. at[a] = Quiesce => ~agent[a]
          BY <2>1 DEF Trail, TrailOf
        <5>1. /\ TrailOf(a) /\ at[a] \in Nat /\ Prime = 3 /\ Quiesce = 4
              /\ at'[a] = at[a] + 1 /\ wpc'[a] = "begin" /\ proc'[a] = "none"
              /\ cp'[a][Prime] = IF Prime = at[a] THEN "completed" ELSE cp[a][Prime]
              /\ cp'[a][Quiesce] = IF Quiesce = at[a] THEN "completed" ELSE cp[a][Quiesce]
              /\ agent'[a] = agent[a] /\ plan' = plan
              /\ at[a] = Quiesce => ~agent[a]
          BY <3>1, <4>1, <4>2, <5>0 DEF Trail
        <5> HIDE OpFacts, <1>t
        <5> QED  BY <5>1 DEF TrailOf
      <4> QED  BY <4>3, <4>4 DEF Trail
    <3>5. Clients'
      BY <1>0, <1>5, <2>1 DEF CompleteCheckpoint, Clients
    <3>6. Plans'
      BY <1>0, <1>5, <2>1, <3>1 DEF CompleteCheckpoint, Plans, PlanIsSafe
    <3> QED  BY <3>2, <3>3, <3>4, <3>5, <3>6
  <2>2. CASE /\ cp' = cp \/ (at[a] \in Gates /\ cp' = [cp EXCEPT ![a][at[a]] = "failed"])
             /\ at' = at /\ wpc' = [wpc EXCEPT ![a] = "failing"]
    <3>1. \A b \in Attempt, o \in Op :
             cp'[b][o] = cp[b][o] \/ (o > Quiesce /\ cp'[b][o] = "failed")
      <4>1. CASE cp' = cp
        BY <4>1
      <4>2. CASE at[a] \in Gates /\ cp' = [cp EXCEPT ![a][at[a]] = "failed"]
        BY <4>2
      <4> QED  BY <2>2, <4>1, <4>2
    <3>2. Ahead' /\ Behind' /\ Settled'
      BY <1>0, <1>5, <2>2, <3>1 DEF CompleteCheckpoint, Ahead, Behind, WorkerAlive, Settled
    <3>3. Forward' /\ Onward'
      BY <1>5, <2>2 DEF CompleteCheckpoint, Forward, Onward
    <3>4. Trail'
      BY <1>5, <2>2, <3>1 DEF CompleteCheckpoint, Trail, TrailOf
    <3>5. Clients'
      BY <1>0, <1>5 DEF CompleteCheckpoint, Clients
    <3>6. Plans'
      BY <1>5, <2>2, <3>1 DEF CompleteCheckpoint, Plans, PlanIsSafe
    <3> QED  BY <3>2, <3>3, <3>4, <3>5, <3>6
  <2>3. [at EXCEPT ![a] = at[a]] = at
    OBVIOUS
  <2>4. CASE status = "live" /\ (at[a] = Provision \/ proc[a] = "ok")
    BY <1>0, <1>5, <2>1, <2>4 DEF CompleteCheckpoint, IsActive
  <2>5. CASE ~(status = "live" /\ (at[a] = Provision \/ proc[a] = "ok"))
    BY <1>0, <1>5, <2>2, <2>3, <2>5 DEF CompleteCheckpoint, IsActive
  <2> QED  BY <2>4, <2>5
<1>6. CASE Materialize(a)
  <2>1. Ahead' /\ Behind'
    BY <1>0, <1>6 DEF Ahead, Behind, WorkerAlive, Materialize, IsActive
  <2>2. Forward' /\ Onward'
    <3>1. [at EXCEPT ![a] = Terminal] = at \/ at' = at
      BY <1>6 DEF Materialize
    <3>2. at' = at /\ UNCHANGED <<plan, current>> /\ (\A b \in Attempt : wpc'[b] = "queued" => wpc[b] = "queued")
      BY <1>6, <3>1 DEF Materialize
    <3> QED  BY <3>2 DEF Forward, Onward
  <2>3. Trail'
    BY <1>0, <1>6 DEF Trail, TrailOf, Materialize, IsActive
  <2>4. Settled'
    BY <1>0, <1>6 DEF Settled, Materialize, IsActive
  <2>5. Clients'
    BY <1>0, <1>6 DEF Clients, Working, WorkerAlive, Materialize, IsActive
  <2>6. Plans'
    BY <1>0, <1>6 DEF Plans, PlanIsSafe, Materialize, IsActive
  <2> QED  BY <2>1, <2>2, <2>3, <2>4, <2>5, <2>6
<1>7. CASE WorkerFails(a)
  <2>1. Ahead' /\ Behind'
    BY <1>0, <1>7 DEF Ahead, Behind, WorkerAlive, WorkerFails, IsActive
  <2>2. Forward' /\ Onward'
    BY <1>0, <1>7 DEF Forward, Onward, WorkerFails, IsActive
  <2>3. Trail'
    BY <1>0, <1>7 DEF Trail, TrailOf, WorkerFails, IsActive
  <2>4. Settled'
    BY <1>0, <1>7 DEF Settled, WorkerFails, IsActive
  <2>5. Clients'
    BY <1>0, <1>7 DEF Clients, Working, WorkerAlive, WorkerFails, IsActive
  <2>6. Plans'
    BY <1>0, <1>7 DEF Plans, PlanIsSafe, WorkerFails, IsActive
  <2> QED  BY <2>1, <2>2, <2>3, <2>4, <2>5, <2>6
<1>8. CASE WorkerThrows(a)
  <2>1. Ahead' /\ Behind'
    BY <1>0, <1>8 DEF Ahead, Behind, WorkerAlive, WorkerThrows
  <2>2. Forward' /\ Onward'
    BY <1>0, <1>8 DEF Forward, Onward, WorkerThrows
  <2>3. Trail'
    BY <1>0, <1>8 DEF Trail, TrailOf, WorkerThrows
  <2>4. Settled'
    BY <1>0, <1>8 DEF Settled, WorkerThrows
  <2>5. Clients'
    BY <1>0, <1>8 DEF Clients, Working, WorkerAlive, WorkerThrows
  <2>6. Plans'
    BY <1>0, <1>8 DEF Plans, PlanIsSafe, WorkerThrows
  <2> QED  BY <2>1, <2>2, <2>3, <2>4, <2>5, <2>6
<1>9. CASE WorkerCrash(a)
  <2>1. Ahead' /\ Behind'
    BY <1>0, <1>9 DEF Ahead, Behind, WorkerAlive, WorkerCrash
  <2>2. Forward' /\ Onward'
    BY <1>0, <1>9 DEF Forward, Onward, WorkerCrash
  <2>3. Trail'
    BY <1>0, <1>9 DEF Trail, TrailOf, WorkerCrash
  <2>4. Settled'
    BY <1>0, <1>9 DEF Settled, WorkerCrash
  <2>5. Clients'
    BY <1>0, <1>9 DEF Clients, Working, WorkerAlive, WorkerCrash
  <2>6. Plans'
    BY <1>0, <1>9 DEF Plans, PlanIsSafe, WorkerCrash
  <2> QED  BY <2>1, <2>2, <2>3, <2>4, <2>5, <2>6
<1> QED  BY <1>1, <1>2, <1>3, <1>4, <1>5, <1>6, <1>7, <1>8, <1>9 DEF WorkerProgress

LEMMA ProcessSteps ==
  ASSUME TypeOK, Attempts, Clients, Plans, NEW a \in Attempt,
         ProcessProgress(a) \/ PrimeEdits(a) \/ OrphanEnds(a) \/ Edit \/ Interrupt
  PROVE  Attempts' /\ Clients' /\ Plans'
<1>t. /\ current \in Attempt /\ cp \in [Attempt -> [Op -> CpStatuses]]
      /\ plan \in [Attempt -> PlanType] /\ at \in [Attempt -> Op]
      /\ wpc \in [Attempt -> {"none", "queued", "begin", "work", "failing", "gone"}]
      /\ proc \in [Attempt -> {"none", "running", "staged", "ok", "bad"}]
      /\ agent \in [Attempt -> BOOLEAN] /\ \A b \in Attempt : plan[b].next \in Op
  BY PlanParts DEF TypeOK
<1> USE OpFacts, AttemptFacts, <1>t DEF storeVars, worldVars, workerVars
<1>1. CASE ProcessProgress(a)
  <2>1. /\ UNCHANGED <<storeVars, wpc, at, agent, client>>
        /\ at[a] # Quiesce /\ (proc[a] # "none")
        /\ \A b \in Attempt : b # a => proc'[b] = proc[b]
    BY <1>1 DEF ProcessProgress, AddWorktree, PrimeAnswers, GateEnds, GitAdds, GitCommits
  <2>2. Ahead' /\ Behind' /\ Forward' /\ Settled' /\ Onward'
    BY <2>1 DEF Attempts, Ahead, Behind, WorkerAlive, Forward, Settled, Onward
  <2>3. Trail'
    BY <2>1 DEF Attempts, Trail, TrailOf
  <2>4. Clients' /\ Plans'
    BY <2>1 DEF Clients, Working, WorkerAlive, Plans, PlanIsSafe
  <2> QED  BY <2>2, <2>3, <2>4 DEF Attempts
<1>2. CASE OrphanEnds(a)
  <2>1. /\ UNCHANGED <<storeVars, wpc, at, client>>
        /\ proc' = [proc EXCEPT ![a] = "none"] /\ agent' = [agent EXCEPT ![a] = FALSE]
    BY <1>2 DEF OrphanEnds
  <2>2. Ahead' /\ Behind' /\ Forward' /\ Settled' /\ Onward'
    BY <2>1 DEF Attempts, Ahead, Behind, WorkerAlive, Forward, Settled, Onward
  <2>3. Trail'
    BY <2>1 DEF Attempts, Trail, TrailOf
  <2>4. Clients' /\ Plans'
    BY <2>1 DEF Clients, Working, WorkerAlive, Plans, PlanIsSafe
  <2> QED  BY <2>2, <2>3, <2>4 DEF Attempts
<1>3. CASE PrimeEdits(a) \/ Edit
  <2>1. UNCHANGED <<storeVars, workerVars, client>>
    BY <1>3 DEF PrimeEdits, Edit
  <2> QED  BY <2>1 DEF Attempts, Ahead, Behind, Forward, Trail, TrailOf, Settled, Onward,
                       Clients, Plans, PlanIsSafe, Working, WorkerAlive
<1>4. CASE Interrupt
  <2>1. /\ UNCHANGED <<current, plan, offers, workerVars, client>>
        /\ status = "live" /\ status' = "interrupted"
        /\ \A b \in Attempt, o \in Op :
             cp'[b][o] = IF b = current /\ cp[b][o] = "started" THEN "uncertain" ELSE cp[b][o]
    BY <1>4 DEF Interrupt
  <2>2. Ahead' /\ Behind' /\ Forward' /\ Onward'
    BY <2>1 DEF Attempts, Ahead, Behind, WorkerAlive, Forward, Onward
  <2>3. Trail'
    BY <2>1 DEF Attempts, Trail, TrailOf
  <2>4. Settled'
    BY <2>1 DEF Settled
  <2>5. Clients'
    BY <2>1 DEF Clients, Working, WorkerAlive
  <2>6. Plans'
    BY <2>1 DEF Plans, PlanIsSafe
  <2> QED  BY <2>2, <2>3, <2>4, <2>5, <2>6 DEF Attempts
<1> QED  BY <1>1, <1>2, <1>3, <1>4

LEMMA ClientSteps ==
  ASSUME TypeOK, Attempts, Clients, Plans, NEW c \in Client,
         PreviewReads(c) \/ PreviewProgress(c) \/ (\E p \in offers : Confirm(c, p))
  PROVE  Attempts' /\ Clients' /\ Plans'
<1> USE OpFacts, AttemptFacts
<1>0. /\ client \in [Client -> ClientType] /\ current \in Attempt
      /\ Idle.pc = "idle" /\ Idle.plan = NoPlan
      /\ cp \in [Attempt -> [Op -> CpStatuses]]
  BY DEF TypeOK, ClientType, Idle
<1>1. CASE PreviewReads(c)
  <2> DEFINE C == [Idle EXCEPT !.pc = "assess", !.plan.attempt = current]
  <2>1. C.pc = "assess" /\ C.plan.attempt = current /\ current \in 1..current
    BY <1>0, BoundsAssumption DEF Idle, NoPlan, Attempt
  <2>2. client' = [client EXCEPT ![c] = C] /\ UNCHANGED <<storeVars, workerVars>>
        /\ status = "interrupted"
    BY <1>1 DEF PreviewReads
  <2> HIDE DEF C
  <2>3. Clients' /\ Plans'
    BY <1>0, <2>1, <2>2, ClientsKept, PlansKept DEF storeVars, workerVars
  <2> QED  BY <2>2, <2>3, AttemptsKept DEF Attempts, Settled, storeVars, workerVars
<1>2. CASE Assess(c)
  <2>1. PICK C : /\ client' = [client EXCEPT ![c] = C]
                 /\ C.pc \in {"idle", "reconcile"}
                 /\ C.pc = "reconcile" => /\ C.plan.attempt = client[c].plan.attempt
                                          /\ C.op \in Reconcilable
    <3> DEFINE pending == Uncertain(client[c].plan.attempt) \intersect Reconcilable
               o == CHOOSE o \in pending : \A p \in pending : o <= p
    <3>1. o \in Reconcilable
      <4>1. \E q \in pending : \A p \in pending : q <= p
        BY <1>2, FirstUndone DEF Assess
      <4> QED  BY <4>1
    <3>2. CASE client' = [client EXCEPT ![c] = Idle]
      BY <1>0, <3>2
    <3>3. ASSUME NEW r, client' = [client EXCEPT ![c].pc = "reconcile", ![c].op = o,
                                                 ![c].to = r, ![c].plan.commit = head]
          PROVE  \E C : /\ client' = [client EXCEPT ![c] = C]
                        /\ C.pc \in {"idle", "reconcile"}
                        /\ C.pc = "reconcile" => /\ C.plan.attempt = client[c].plan.attempt
                                                 /\ C.op \in Reconcilable
      <4> HIDE DEF o
      <4> DEFINE C == [client[c] EXCEPT !.pc = "reconcile", !.op = o, !.to = r,
                                        !.plan = [@ EXCEPT !.commit = head]]
      <4>1. C.pc = "reconcile" /\ C.op = o /\ C.plan.attempt = client[c].plan.attempt
        BY <1>0 DEF ClientType, PlanType
      <4>2. client' = [client EXCEPT ![c] = C]
        BY ONLY <3>3, Zenon
      <4> HIDE DEF C
      <4> QED  BY <3>1, <4>1, <4>2
    <3> QED  BY <1>2, <3>2, <3>3 DEF Assess
  <2>2. UNCHANGED <<storeVars, workerVars>> /\ client[c].pc = "assess"
    BY <1>2 DEF Assess
  <2>3. /\ client[c].plan.attempt \in 1..current
        /\ client[c].plan.attempt = current => status = "interrupted"
    BY <2>2 DEF Clients
  <2>4. Clients' /\ Plans'
    BY <1>0, <2>1, <2>2, <2>3, ClientsKept, PlansKept DEF storeVars, workerVars
  <2> QED  BY <2>2, <2>4, AttemptsKept DEF Attempts, Settled, storeVars, workerVars
<1>3. CASE Reconcile(c)
  <2> DEFINE a == client[c].plan.attempt
             C == [Idle EXCEPT !.pc = "assess", !.plan.attempt = a]
  <2>1. /\ a \in Attempt /\ a \in 1..current /\ (a = current => status = "interrupted")
        /\ client[c].op \in Reconcilable /\ client[c].to # "started"
    BY <1>0, <1>3 DEF Reconcile, Clients, ClientType
  <2>2. C.pc = "assess" /\ C.plan.attempt = a
    BY DEF Idle, NoPlan
  <2>3. /\ UNCHANGED <<status, current, plan, offers, workerVars>>
        /\ client' = [client EXCEPT ![c] = Idle] \/ client' = [client EXCEPT ![c] = C]
        /\ cp' = cp \/ cp' = [cp EXCEPT ![a][client[c].op] = client[c].to]
    BY <1>3 DEF Reconcile
  <2> HIDE DEF C, a
  <2>4. /\ \A b \in Attempt : cp'[b][Prime] = cp[b][Prime] /\ cp'[b][Quiesce] = cp[b][Quiesce]
        /\ \A b \in Attempt, o \in Op : cp'[b][o] = "started" => cp[b][o] = "started"
    BY <1>0, <2>1, <2>3
  <2>5. Settled'
    BY <1>0, <2>3, <2>4 DEF Attempts, Settled
  <2>6. Clients'
    BY <1>0, <2>1, <2>2, <2>3, ClientsKept DEF workerVars
  <2>7. Plans'
    BY <1>0, <2>2, <2>3, <2>4, PlansKept DEF workerVars
  <2> QED  BY <2>3, <2>4, <2>5, <2>6, <2>7, AttemptsKept DEF workerVars
<1>4. CASE Plan(c)
  <2> DEFINE a == client[c].plan.attempt
             C == [Idle EXCEPT !.pc = "offer", !.plan = ResumePlan(a)]
  <2>1. a \in Attempt /\ a \in 1..current /\ (a = current => status = "interrupted")
    BY <1>0, <1>4 DEF Plan, Clients
  <2>2. UNCHANGED <<storeVars, workerVars>>
    BY <1>4 DEF Plan
  <2>3. C.pc = "offer" /\ C.plan = ResumePlan(a) /\ ResumePlan(a).attempt = a
        /\ ResumePlan(a).next = NextStage(a)
    BY DEF Idle, ResumePlan
  <2>4. ASSUME SafeToResume(a)
        PROVE  PlanIsSafe(ResumePlan(a))
    BY <2>1, <2>4, SafePlan
  <2>5. \/ client' = [client EXCEPT ![c] = Idle]
        \/ SafeToResume(a) /\ client' = [client EXCEPT ![c] = C]
    BY <1>4 DEF Plan
  <2> HIDE DEF a, C
  <2>6. Clients' /\ Plans'
    BY <1>0, <2>1, <2>2, <2>3, <2>4, <2>5, ClientsKept, PlansKept DEF storeVars, workerVars
  <2> QED  BY <2>2, <2>6, AttemptsKept DEF Attempts, Settled, storeVars, workerVars
<1>5. CASE Offer(c)
  <2>1. /\ UNCHANGED <<status, current, cp, plan, workerVars>> /\ client[c].pc = "offer"
        /\ client' = [client EXCEPT ![c] = Idle]
        /\ offers' \subseteq offers \union {client[c].plan}
    BY <1>5 DEF Offer
  <2>2. Clients'
    BY <1>0, <2>1, ClientsKept DEF workerVars
  <2>3. Plans'
    <3>1. \A p : PlanIsSafe(p) <=> PlanIsSafe(p)'
      BY <2>1 DEF PlanIsSafe, workerVars
    <3>2. \A p \in offers' : PlanIsSafe(p)
      BY <2>1 DEF Plans
    <3> QED  BY <1>0, <2>1, <3>1, <3>2 DEF Plans
  <2> QED  BY <2>1, <2>2, <2>3, AttemptsKept DEF Attempts, Settled, workerVars
<1>6. CASE Consume(c)
  <2>1. CASE UNCHANGED <<storeVars, workerVars>> /\ client' = [client EXCEPT ![c] = Idle]
    <3>1. Clients' /\ Plans'
      BY <1>0, <2>1, ClientsKept, PlansKept DEF storeVars, workerVars
    <3> QED  BY <2>1, <3>1, AttemptsKept DEF Attempts, Settled, storeVars, workerVars
  <2> DEFINE p == client[c].plan
             n == current + 1
  <2>2. CASE /\ client[c].pc = "consume" /\ p.attempt = current /\ n \in Attempt
             /\ status' = "live" /\ current' = n /\ plan' = [plan EXCEPT ![n] = p]
             /\ offers' = {} /\ wpc' = [wpc EXCEPT ![n] = "queued"]
             /\ at' = [at EXCEPT ![n] = p.next] /\ client' = [client EXCEPT ![c] = Idle]
             /\ UNCHANGED <<cp, proc, agent>>
    <3>0. /\ p = client[c].plan /\ n = current + 1 /\ current \in Nat /\ Attempt \subseteq Nat
          /\ plan \in [Attempt -> PlanType] /\ wpc \in [Attempt -> {"none", "queued", "begin", "work", "failing", "gone"}]
          /\ at \in [Attempt -> Op]
      BY <1>0 DEF TypeOK
    <3> HIDE DEF p, n
    <3>1. /\ \A b \in Attempt : ~WorkerAlive(b)
          /\ \A d \in Client : client[d].pc = "consume" => d = c
          /\ PlanIsSafe(p)
      BY <2>2, <3>0 DEF Clients, Plans, Working
    <3>2. p.next \in Op /\ p.next \notin {Prime, Quiesce} /\ ~agent[current]
          /\ (at[current] > Quiesce => p.next > Quiesce)
      BY <1>0, <2>2, <3>0, <3>1, PlanParts DEF PlanIsSafe, ClientType
    <3>3. /\ wpc[n] = "none" /\ proc[n] = "none" /\ ~agent[n]
          /\ \A b \in Attempt : b # n => at'[b] = at[b] /\ wpc'[b] = wpc[b] /\ plan'[b] = plan[b]
          /\ at'[n] = p.next /\ wpc'[n] = "queued" /\ plan'[n] = p
          /\ at[n] = Worktree
      BY <2>2, <3>0 DEF Attempts, Ahead
    <3>4. Ahead' /\ Behind'
      BY <2>2, <3>0, <3>1, <3>2, <3>3 DEF Attempts, Ahead, Behind, WorkerAlive
    <3>5. Forward'
      <4>1. p.next \in Nat /\ n \in Attempt
        BY <2>2, <3>2
      <4>2. \A b \in Attempt : b # n => plan'[b] = plan[b] /\ at'[b] = at[b] /\ wpc'[b] = wpc[b]
        BY <3>3
      <4>3. plan'[n].next = at'[n] /\ at'[n] \in Nat /\ plan'[n].next \notin {Prime, Quiesce}
        BY <3>2, <3>3, <4>1
      <4> HIDE DEF n, p
      <4>4. ASSUME NEW b \in Attempt, b # n
            PROVE  /\ plan'[b].next <= at'[b] /\ plan'[b].next \notin {Prime, Quiesce}
                   /\ wpc'[b] = "queued" => at'[b] = plan'[b].next
        BY <4>2, <4>4 DEF Attempts, Forward
      <4>5. plan'[n].next <= at'[n]
        BY <4>3
      <4> QED  BY <4>3, <4>4, <4>5 DEF Forward
    <3>6. Onward'
      BY <2>2, <3>0, <3>2, <3>3 DEF Attempts, Onward
    <3>7. Trail'
      BY <2>2, <3>0, <3>2, <3>3 DEF Attempts, Trail, TrailOf
    <3>8. Settled'
      BY <2>2 DEF Settled
    <3>9. Clients'
      BY <1>0, <2>2, <3>0, <3>1 DEF Clients
    <3>10. Plans'
      <4>1. offers' = {} /\ client' = [client EXCEPT ![c] = Idle]
        BY <2>2
      <4>2. \A q : PlanIsSafe(q) => PlanIsSafe(q)'
        <5>1. SUFFICES ASSUME NEW q, PlanIsSafe(q) PROVE PlanIsSafe(q)'
          OBVIOUS
        <5>2. q.attempt \in 1..current /\ current' = current + 1
          BY <2>2, <3>0, <5>1 DEF PlanIsSafe
        <5> QED  BY <3>0, <5>1, <5>2 DEF PlanIsSafe
      <4> QED  BY <1>0, <4>1, <4>2 DEF Plans
    <3> QED  BY <3>4, <3>5, <3>6, <3>7, <3>8, <3>9, <3>10 DEF Attempts
  <2> QED  BY <1>0, <1>6, <2>1, <2>2 DEF Consume, storeVars, workerVars
<1>7. ASSUME NEW p \in offers, Confirm(c, p)
      PROVE  Attempts' /\ Clients' /\ Plans'
  <2> DEFINE C == [Idle EXCEPT !.pc = "consume", !.plan = p]
  <2>1. C.pc = "consume" /\ C.plan = p
    BY DEF Idle
  <2>2. /\ client' = [client EXCEPT ![c] = C] /\ UNCHANGED <<storeVars, workerVars>>
        /\ status = "interrupted" /\ ~Working
        /\ \A d \in Client : client[d].pc # "consume"
    BY <1>7 DEF Confirm
  <2>3. PlanIsSafe(p)
    BY DEF Plans
  <2> HIDE DEF C
  <2>4. Clients'
    BY <1>0, <2>1, <2>2, <2>3 DEF Clients, PlanIsSafe, Working, WorkerAlive, storeVars, workerVars
  <2>5. Plans'
    BY <1>0, <2>1, <2>2, <2>3, PlansKept DEF storeVars, workerVars
  <2> QED  BY <2>2, <2>4, <2>5, AttemptsKept DEF Attempts, Settled, storeVars, workerVars
<1> QED  BY <1>1, <1>2, <1>3, <1>4, <1>5, <1>6, <1>7 DEF PreviewProgress

-----------------------------------------------------------------------------
(* The theorems *)

IInv == TypeOK /\ Attempts /\ Clients /\ Plans

LEMMA InitIInv == Init => IInv
<1> SUFFICES ASSUME Init PROVE IInv
  OBVIOUS
<1> USE OpFacts
<1>1. TypeOK
  BY InitType
<1>2. /\ current = 1 /\ status = "live" /\ offers = {}
      /\ \A a \in Attempt : /\ a \in Nat \ {0} /\ at[a] = Worktree /\ plan[a].next = Worktree
                           /\ proc[a] = "none" /\ ~agent[a] /\ (a # 1 => wpc[a] = "none")
                           /\ cp[a][Prime] = "none" /\ cp[a][Quiesce] = "none"
                           /\ wpc[a] # "work"
      /\ \A c \in Client : client[c].pc = "idle"
  BY BoundsAssumption DEF Init, NoPlan, Idle, Attempt
<1>3. Ahead /\ Behind /\ Forward /\ Onward /\ Settled
  <2>1. Ahead /\ Settled
    BY ONLY <1>2 DEF Ahead, Settled
  <2>2. Behind /\ Onward
    BY ONLY <1>2 DEF Behind, Onward
  <2>3. Forward
    BY ONLY <1>2 DEF Forward, Worktree, Prime, Quiesce
  <2> QED  BY <2>1, <2>2, <2>3
<1>4. Trail
  BY <1>2 DEF Trail, TrailOf
<1>5. Clients /\ Plans
  BY <1>2 DEF Clients, Plans
<1> QED  BY <1>1, <1>3, <1>4, <1>5 DEF IInv, Attempts

LEMMA StepIInv == IInv /\ [Next]_vars => IInv'
<1> SUFFICES ASSUME IInv, [Next]_vars PROVE IInv'
  OBVIOUS
<1>1. ASSUME NEW a \in Attempt,
             WorkerProgress(a) \/ WorkerThrows(a) \/ WorkerCrash(a)
      PROVE  IInv'
  BY <1>1, WorkerTypes, WorkerSteps DEF IInv
<1>2. ASSUME NEW a \in Attempt, ProcessProgress(a) \/ PrimeEdits(a) \/ OrphanEnds(a)
      PROVE  IInv'
  BY <1>2, ProcessTypes, ProcessSteps DEF IInv
<1>3. CASE Edit \/ Interrupt
  <2>1. 1 \in Attempt
    BY OpFacts
  <2> QED  BY <1>3, <2>1, ProcessTypes, ProcessSteps DEF IInv
<1>4. ASSUME NEW c \in Client,
             PreviewReads(c) \/ PreviewProgress(c) \/ (\E p \in offers : Confirm(c, p))
      PROVE  IInv'
  BY <1>4, ClientTypes, ClientSteps DEF IInv
<1>5. CASE UNCHANGED vars
  <2>1. TypeOK'
    BY <1>5 DEF IInv, TypeOK, vars, storeVars, worldVars, workerVars
  <2>2. Ahead' /\ Behind' /\ Forward' /\ Settled' /\ Onward' /\ Clients' /\ Plans'
    BY <1>5 DEF IInv, Attempts, Ahead, Behind, Forward, Settled, Onward, Clients, Plans,
         PlanIsSafe, Working, WorkerAlive, vars, storeVars, worldVars, workerVars
  <2>3. Trail'
    BY <1>5 DEF IInv, Attempts, Trail, TrailOf, vars, storeVars, worldVars, workerVars
  <2> QED  BY <2>1, <2>2, <2>3 DEF IInv, Attempts
<1> QED  BY <1>1, <1>2, <1>3, <1>4, <1>5 DEF Next

\* The inductive invariant holds in every state of every behaviour.
THEOREM RecoveryInvariant == Spec => []IInv
<1>1. Init => IInv
  BY InitIInv
<1>2. IInv /\ [Next]_vars => IInv'
  BY StepIInv
<1> QED  BY <1>1, <1>2, PTL DEF Spec

\* Checkpoints, plans, confirmations and processes keep their types.
THEOREM RecoveryTypeCorrect == Spec => []TypeOK
<1>1. IInv => TypeOK
  BY DEF IInv
<1> QED  BY <1>1, RecoveryInvariant, PTL

\* However often a job is interrupted, previewed and resumed, and whatever a dead
\* worker leaves behind, no gate and no commit of any attempt runs beside a Prime
\* process of any attempt (worker.ts's quiescence, resume.ts's checks).
THEOREM QuiescentBeforeGates == Spec => []GatesAfterQuiescence
<1>1. IInv => GatesAfterQuiescence
  <2> SUFFICES ASSUME IInv, NEW a \in Attempt, proc[a] \in {"running", "staged"},
                      at[a] \in Gates \union {Commit}, NEW b \in Attempt
               PROVE  ~agent[b]
    BY DEF GatesAfterQuiescence
  <2>1. at[a] > Quiesce /\ Attempt \subseteq Nat /\ current \in Attempt
    BY OpFacts DEF IInv, TypeOK
  <2>2. a <= current
    BY <2>1 DEF IInv, Attempts, Ahead
  <2>3. at[current] > Quiesce
    BY <2>1, <2>2 DEF IInv, Attempts, Onward
  <2>4. at[current] \notin {Prime, Quiesce}
    BY <2>1, <2>3, OpFacts DEF IInv, TypeOK
  <2>5. ~agent[current]
    BY <2>1, <2>4 DEF IInv, Attempts, Trail, TrailOf
  <2> QED  BY <2>1, <2>5 DEF IInv, Attempts, Ahead, Behind
<1> QED  BY <1>1, RecoveryInvariant, PTL

-----------------------------------------------------------------------------
(* Effects begin once and in order *)

\* The operations that are never repeated; the commit may be tried again.
Once == {Prime} \union Gates

\* The operation is completed by the evidence the current attempt has, its own or
\* inherited.
Settles(o) == o < plan[current].next \/ cp[current][o] = "completed"

\* What has run once is not ahead of the current attempt.
Ran ==
  \A o \in Once :
    /\ runs[o] <= 1
    /\ runs[o] > 0 =>
         /\ o <= at[current]
         /\ o < plan[current].next \/ cp[current][o] \notin {"none", "retryable"}
         /\ o = at[current] => \/ wpc[current] = "work" /\ proc[current] # "none"
                               \/ wpc[current] \in {"failing", "gone"}

\* A worker has started what runs, and no process of Prime or a gate is an earlier
\* attempt's.
Underway ==
  \A a \in Attempt :
    /\ wpc[a] \in {"queued", "begin"} => proc[a] = "none"
    /\ WorkerAlive(a) => status \in {"live", "interrupted"}
    /\ at[a] \in Once /\ wpc[a] = "work" => cp[a][at[a]] \in {"started", "uncertain"}
    /\ at[a] \in Once /\ proc[a] = "running" =>
         a = current /\ cp[a][at[a]] \in {"started", "uncertain"}
    /\ at[a] \in Once \union {Commit} /\ proc[a] # "none" => runs[at[a]] > 0

\* Evidence is of what has run; it stops a job when it is of a failed gate.
Recorded ==
  \A a \in Attempt, o \in Once \union {Commit} :
    /\ cp[a][o] = "failed" => /\ a = current /\ at[a] = o
                              /\ wpc[a] \in {"failing", "gone"}
                              /\ o \in Gates
    /\ cp[a][o] \in {"completed", "failed"} => runs[o] > 0
    /\ o # Commit /\ cp[a][o] = "completed" => o < at[current]

\* What the current attempt has gone past is completed, by some attempt.
Passed ==
  \A o \in Once \union {Commit} :
    /\ o < at[current] => Settles(o)
    /\ o < plan[current].next => \E a \in Attempt : cp[a][o] = "completed"

\* A commit is tried beyond the gates, by a process that runs or by one that has.
Tried ==
  /\ head > 0 => runs[Commit] > 0
  /\ runs[Commit] > 0 => at[current] >= Commit
  /\ \A a \in Attempt : proc[a] = "staged" => at[a] = Commit
  /\ \A c \in Client : client[c].pc = "reconcile" /\ client[c].op = Commit
                       /\ client[c].to = "completed" => runs[Commit] > 0

\* A plan of the current attempt goes on behind everything that has run.
PlanGoesOn(p) ==
  p.attempt = current =>
    /\ at[current] \in Once => cp[current][at[current]] \notin {"uncertain", "failed"}
    /\ \A o \in Once : runs[o] > 0 => o < p.next
    /\ \A o \in Once \union {Commit} : o < p.next => Settles(o)
    /\ at[current] >= Commit => p.next >= Commit

PlansGoOn ==
  /\ \A p \in offers : PlanGoesOn(p)
  /\ \A c \in Client : client[c].pc \in {"offer", "consume"} => PlanGoesOn(client[c].plan)

EffectsInv == Ran /\ Underway /\ Recorded /\ Passed /\ Tried /\ PlansGoOn

\* Once a commit was tried the files stay as they are, unless others edit them, and
\* one commit has them all.
Frozen ==
  /\ head <= 1
  /\ head > 0 => index = files /\ committed = files
  /\ \A a \in Attempt : proc[a] = "staged" => index = files

LEMMA OnceFacts ==
  /\ Once \subseteq Op /\ Commit \notin Once /\ Once \intersect Reconcilable = {}
  /\ \A o \in Once : o < Commit /\ o \in Nat /\ o # Terminal /\ o > Provision /\ o # Quiesce
  /\ Commit \in Nat /\ Commit + 1 = Terminal /\ Terminal \in Nat /\ Prime \in Once
  /\ \A o \in Op : o < Commit /\ o > Quiesce => o \in Gates
BY BoundsAssumption DEF Op, Worktree, Provision, Prime, Quiesce, Gates, Commit, Terminal,
     Once, Reconcilable

\* Only the current attempt has a worker, and none has one while a client consumes.
LEMMA OnlyCurrent ==
  ASSUME IInv, NEW b \in Attempt, WorkerAlive(b)
  PROVE  b = current /\ \A c \in Client : client[c].pc # "consume"
<1>1. b \in Nat /\ current \in Nat
  BY OpFacts DEF IInv, TypeOK
<1>2. b = current
  BY <1>1 DEF IInv, Attempts, Ahead, Behind, WorkerAlive
<1> QED  BY <1>2 DEF IInv, Clients, Working

\* Completed evidence stays, and so does what has been passed.
LEMMA PassedKept ==
  ASSUME Passed, UNCHANGED <<current, plan, at>>, current \in Attempt,
         \A b \in Attempt, o \in Op : cp[b][o] = "completed" => cp'[b][o] = "completed"
  PROVE  Passed'
<1>1. ASSUME NEW o \in Once \union {Commit}, o < at[current]
      PROVE  Settles(o)'
  <2>1. o \in Op /\ Settles(o)
    BY <1>1, OnceFacts, OpFacts DEF Passed
  <2> QED  BY <2>1 DEF Settles
<1>2. ASSUME NEW o \in Once \union {Commit}, o < plan[current].next
      PROVE  \E b \in Attempt : cp'[b][o] = "completed"
  <2>1. o \in Op /\ \E b \in Attempt : cp[b][o] = "completed"
    BY <1>2, OnceFacts, OpFacts DEF Passed
  <2> QED  BY <2>1
<1> QED  BY <1>1, <1>2 DEF Passed

LEMMA WorkerEffects ==
  ASSUME IInv, EffectsInv, NEW a \in Attempt,
         WorkerProgress(a) \/ WorkerThrows(a) \/ WorkerCrash(a)
  PROVE  EffectsInv'
<1>t. /\ current \in Attempt /\ cp \in [Attempt -> [Op -> CpStatuses]]
      /\ plan \in [Attempt -> PlanType] /\ at \in [Attempt -> Op]
      /\ wpc \in [Attempt -> {"none", "queued", "begin", "work", "failing", "gone"}]
      /\ proc \in [Attempt -> {"none", "running", "staged", "ok", "bad"}]
      /\ runs \in [Op -> Nat] /\ head \in Nat
      /\ \A b \in Attempt : plan[b].next \in Nat /\ at[b] \in Nat /\ b \in Nat
  BY PlanParts, OpFacts DEF IInv, TypeOK
<1> USE OpFacts, OnceFacts, <1>t DEF EffectsInv, Goto, storeVars, worldVars, workerVars
<1>0. WorkerAlive(a) /\ a = current /\ \A c \in Client : client[c].pc # "consume"
  <2>1. WorkerAlive(a)
    BY DEF WorkerProgress, WorkerStarts, BeginCheckpoint, StartProcess, QuiesceAgent,
           CompleteCheckpoint, Materialize, WorkerFails, WorkerThrows, WorkerCrash, WorkerAlive
  <2> QED  BY <2>1, OnlyCurrent
<1>1. CASE WorkerStarts(a)
  <2>1. Ran'
    BY <1>0, <1>1 DEF Ran, WorkerStarts, IInv, Attempts, Forward
  <2>2. Underway'
    BY <1>0, <1>1 DEF Underway, WorkerAlive, WorkerStarts, IInv, Attempts, Forward
  <2>3. Recorded'
    <3>0. at[a] = plan[a].next
      BY <1>0, <1>1 DEF WorkerStarts, IInv, Attempts, Forward
    <3>1. UNCHANGED <<cp, runs, current>> /\ at' = at
      <4>1. UNCHANGED <<cp, runs, current>>
        BY <1>1 DEF WorkerStarts
      <4>2. at' = [at EXCEPT ![a] = at[a]]
        BY ONLY <1>1, <3>0 DEF WorkerStarts, Goto
      <4> QED  BY ONLY <4>1, <4>2, <1>t
    <3>2. \A b \in Attempt : wpc'[b] = wpc[b] \/ (b = a /\ wpc[b] = "queued")
      BY <1>1 DEF WorkerStarts
    <3>3. wpc[a] = "queued"
      BY <1>1 DEF WorkerStarts
    <3> QED  BY ONLY Recorded, <3>1, <3>2, <3>3, OnceFacts DEF Recorded
  <2>4. Passed'
    <3>1. \A b \in Attempt, o \in Op : cp[b][o] = "completed" => cp'[b][o] = "completed"
      BY <1>1 DEF WorkerStarts, storeVars
    <3>2. UNCHANGED <<current, plan>>
      BY <1>1 DEF WorkerStarts, storeVars
    <3>3. at' = at
      <4>0. wpc[a] = "queued"
        BY <1>1 DEF WorkerStarts
      <4>1. plan[a].next = at[a]
        BY <4>0 DEF IInv, Attempts, Forward
      <4>2. at' = [at EXCEPT ![a] = at[a]]
        BY ONLY <1>1, <4>1 DEF WorkerStarts, Goto
      <4> QED  BY ONLY <4>2, <1>t
    <3> QED  BY <3>1, <3>2, <3>3, PassedKept
  <2>5. Tried'
    BY <1>0, <1>1 DEF Tried, WorkerStarts, IInv, Attempts, Forward
  <2>6. PlansGoOn'
    BY <1>0, <1>1 DEF PlansGoOn, PlanGoesOn, Settles, WorkerStarts, IInv, Attempts, Forward
  <2> QED  BY <2>1, <2>2, <2>3, <2>4, <2>5, <2>6 DEF EffectsInv
<1>2. CASE BeginCheckpoint(a)
  <2>1. Ran'
    BY <1>0, <1>2 DEF Ran, BeginCheckpoint, IsActive
  <2>2. Underway'
    BY <1>0, <1>2 DEF Underway, WorkerAlive, BeginCheckpoint, IsActive
  <2>3. Recorded'
    <3>1. \A b \in Attempt, o \in Op : cp'[b][o] \in {cp[b][o], "started"}
      BY <1>2 DEF BeginCheckpoint
    <3>2. UNCHANGED <<current, runs>> /\ wpc[a] = "begin"
          /\ \A b \in Attempt : at'[b] = at[b] /\ (b # a => wpc'[b] = wpc[b])
      BY <1>2 DEF BeginCheckpoint
    <3>3. ASSUME NEW b \in Attempt, NEW o \in Once \union {Commit},
                 cp'[b][o] \in {"completed", "failed"}
          PROVE  cp'[b][o] = cp[b][o] /\ (cp[b][o] = "failed" => b # a)
      BY <3>1, <3>2, <3>3 DEF Recorded
    <3>4. ASSUME NEW b \in Attempt, NEW o \in Once \union {Commit},
                 cp'[b][o] \in {"completed", "failed"}
          PROVE  /\ cp'[b][o] = "failed" => /\ b = current' /\ at'[b] = o
                                            /\ wpc'[b] \in {"failing", "gone"}
                                            /\ o \in Gates
                 /\ runs'[o] > 0
                 /\ o # Commit /\ cp'[b][o] = "completed" => o < at'[current']
      <4>1. cp'[b][o] = cp[b][o] /\ (cp[b][o] = "failed" => b # a)
        BY <3>3, <3>4
      <4>2. /\ cp[b][o] = "failed" => /\ b = current /\ at[b] = o
                                      /\ wpc[b] \in {"failing", "gone"}
                                      /\ o \in Gates
            /\ runs[o] > 0
            /\ o # Commit /\ cp[b][o] = "completed" => o < at[current]
        BY <3>4, <4>1 DEF Recorded
      <4>3. UNCHANGED <<current, runs>> /\ at'[b] = at[b] /\ at'[current] = at[current]
            /\ (b # a => wpc'[b] = wpc[b])
        BY <3>2
      <4> QED  BY ONLY <4>1, <4>2, <4>3
    <3> QED  BY ONLY <3>4 DEF Recorded
  <2>4. Passed'
    <3>1. \A b \in Attempt, o \in Op : cp[b][o] = "completed" => cp'[b][o] = "completed"
      BY <1>2 DEF BeginCheckpoint
    <3>2. UNCHANGED <<current, plan>> /\ at' = at
      <4>1. [at EXCEPT ![a] = at[a]] = at
        OBVIOUS
      <4> QED  BY <1>2, <4>1 DEF BeginCheckpoint
    <3> QED  BY <3>1, <3>2, PassedKept
  <2>5. Tried'
    BY <1>0, <1>2 DEF Tried, BeginCheckpoint, IsActive
  <2>6. PlansGoOn'
    BY <1>0, <1>2 DEF PlansGoOn, PlanGoesOn, Settles, BeginCheckpoint, IsActive
  <2> QED  BY <2>1, <2>2, <2>3, <2>4, <2>5, <2>6 DEF EffectsInv
<1>3. CASE StartProcess(a)
  <2>1. Ran'
    <3>1. /\ UNCHANGED <<current, at, plan, cp, wpc>> /\ wpc[a] = "work" /\ proc[a] = "none"
          /\ proc'[a] # "none"
          /\ \A o \in Op : runs'[o] = IF o = at[a] THEN runs[o] + 1 ELSE runs[o]
      BY <1>3 DEF StartProcess
    <3>2. ASSUME NEW o \in Once, o = at[a]
          PROVE  runs[o] = 0 /\ cp[a][o] \in {"started", "uncertain"}
      BY <1>0, <3>1, <3>2 DEF Ran, Underway
    <3> QED  BY <1>0, <3>1, <3>2 DEF Ran
  <2>2. Underway'
    BY <1>0, <1>3 DEF Underway, WorkerAlive, StartProcess
  <2>3. Recorded'
    <3>1. UNCHANGED <<current, at, cp, wpc>> /\ \A o \in Op : runs'[o] \in Nat /\ runs'[o] >= runs[o]
      BY <1>3 DEF StartProcess
    <3>2. Recorded /\ Once \union {Commit} \subseteq Op /\ runs \in [Op -> Nat]
      BY OnceFacts
    <3> QED  BY ONLY <3>1, <3>2 DEF Recorded
  <2>4. Passed'
    BY <1>0, <1>3 DEF Passed, Settles, StartProcess
  <2>5. Tried'
    BY <1>0, <1>3 DEF Tried, StartProcess
  <2>6. PlansGoOn'
    <3>1. /\ UNCHANGED <<current, at, plan, cp, status, offers, client>> /\ wpc[a] = "work"
          /\ \A o \in Op : o # at[a] => runs'[o] = runs[o]
      BY <1>3 DEF StartProcess
    <3>2. ASSUME NEW p, PlanIsSafe(p), PlanGoesOn(p)
          PROVE  PlanGoesOn(p)'
      <4>1. ASSUME p.attempt = current
            PROVE  at[a] \notin Once
        <5>1. cp[current][at[a]] # "started"
          BY <3>2, <4>1 DEF IInv, Attempts, Settled, PlanIsSafe
        <5> QED  BY <1>0, <3>1, <3>2, <4>1, <5>1 DEF PlanGoesOn, Underway
      <4> QED  BY <3>1, <3>2, <4>1 DEF PlanGoesOn, Settles
    <3> QED  BY <3>1, <3>2 DEF PlansGoOn, IInv, Plans
  <2> QED  BY <2>1, <2>2, <2>3, <2>4, <2>5, <2>6 DEF EffectsInv
<1>4. CASE QuiesceAgent(a)
  <2>1. Ran'
    BY <1>0, <1>4 DEF Ran, QuiesceAgent
  <2>2. Underway'
    BY <1>0, <1>4 DEF Underway, WorkerAlive, QuiesceAgent
  <2>3. Recorded'
    BY <1>0, <1>4 DEF Recorded, QuiesceAgent
  <2>4. Passed'
    BY <1>0, <1>4 DEF Passed, Settles, QuiesceAgent
  <2>5. Tried'
    BY <1>0, <1>4 DEF Tried, QuiesceAgent
  <2>6. PlansGoOn'
    BY <1>0, <1>4 DEF PlansGoOn, PlanGoesOn, Settles, QuiesceAgent
  <2> QED  BY <2>1, <2>2, <2>3, <2>4, <2>5, <2>6 DEF EffectsInv
<1>5. CASE CompleteCheckpoint(a)
  <2>1. Ran'
    BY <1>0, <1>5 DEF Ran, CompleteCheckpoint, IsActive
  <2>2. Underway'
    BY <1>0, <1>5 DEF Underway, WorkerAlive, CompleteCheckpoint, IsActive
  <2>3. Recorded'
    <3>1. /\ UNCHANGED <<current, runs>> /\ wpc[a] = "work" /\ \A b \in Attempt : b # a => cp'[b] = cp[b] /\ at'[b] = at[b] /\ wpc'[b] = wpc[b]
          /\ \A o \in Op : o # at[a] => cp'[a][o] = cp[a][o]
      BY <1>5 DEF CompleteCheckpoint
    <3>2. at[a] \in Once \union {Commit} => runs[at[a]] > 0
      BY <1>5 DEF CompleteCheckpoint, Underway
    <3>3. \/ at'[a] = at[a] + 1 /\ cp'[a][at[a]] = "completed" 
          \/ at'[a] = at[a] /\ cp'[a][at[a]] = cp[a][at[a]] 
          \/ at'[a] = at[a] /\ cp'[a][at[a]] = "failed" /\ at[a] \in Gates /\ wpc'[a] = "failing"
      BY <1>5 DEF CompleteCheckpoint
    <3>4. \A o \in Once \union {Commit} : cp[a][o] # "failed"
      BY <3>1 DEF Recorded
    <3>5. ASSUME NEW b \in Attempt, b # a, NEW o \in Once \union {Commit}
          PROVE  /\ cp[b][o] # "failed"
                 /\ cp[b][o] = "completed" => runs[o] > 0 /\ (o # Commit => o < at[a])
      BY <1>0, <3>5 DEF Recorded
    <3>6. ASSUME NEW b \in Attempt, b # a, NEW o \in Once \union {Commit}
          PROVE  /\ cp'[b][o] # "failed"
                 /\ cp'[b][o] = "completed" => runs[o] > 0 /\ (o # Commit => o < at'[a])
      <4>1. cp'[b][o] = cp[b][o] /\ at'[a] >= at[a] /\ o \in Nat /\ at[a] \in Nat /\ at'[a] \in Nat
        BY <3>1, <3>3, <3>6
      <4> QED  BY <3>5, <3>6, <4>1
    <3>7. ASSUME NEW o \in Once \union {Commit}
          PROVE  /\ cp'[a][o] = "failed" => at'[a] = o /\ wpc'[a] = "failing" /\ o \in Gates
                 /\ cp'[a][o] \in {"completed", "failed"} => runs[o] > 0
                 /\ o # Commit /\ cp'[a][o] = "completed" => o < at'[a]
      <4>1. CASE o = at[a]
        BY <1>0, <3>2, <3>3, <3>4, <4>1 DEF Recorded
      <4>2. CASE o # at[a]
        BY <1>0, <3>1, <3>3, <3>4, <4>2 DEF Recorded
      <4> QED  BY <4>1, <4>2
    <3> QED  BY <1>0, <3>1, <3>6, <3>7 DEF Recorded
  <2>4. Passed'
    <3>1. /\ UNCHANGED <<current, plan>>
          /\ \A b \in Attempt : b # a => cp'[b] = cp[b] /\ at'[b] = at[b]
          /\ \A o \in Op : o # at[a] => cp'[a][o] = cp[a][o]
      BY <1>5 DEF CompleteCheckpoint
    <3>2. \/ at'[a] = at[a] + 1 /\ cp'[a][at[a]] = "completed"
          \/ at'[a] = at[a] /\ cp'[a][at[a]] = cp[a][at[a]]
          \/ at'[a] = at[a] /\ cp'[a][at[a]] = "failed" /\ at[a] \in Gates
      BY <1>5 DEF CompleteCheckpoint
    <3>3. at[a] \in Once => cp[a][at[a]] # "completed"
      BY <1>0 DEF Recorded
    <3>4. Gates \subseteq Once
      BY DEF Once
    <3>5. \A b \in Attempt, o \in Op : cp[b][o] = "completed" => cp'[b][o] = "completed"
      BY <3>1, <3>2, <3>3, <3>4
    <3>6. ASSUME NEW o \in Once \union {Commit}, o < at'[a]
          PROVE  Settles(o)'
      <4>1. o \in Op /\ (o < at[a] \/ (o = at[a] /\ cp'[a][o] = "completed"))
        <5>1. o \in Op /\ o \in Nat /\ at[a] \in Nat
          OBVIOUS
        <5>2. CASE o < at[a]
          BY <5>1, <5>2
        <5>3. CASE ~(o < at[a])
          BY <3>2, <3>6, <5>1, <5>3
        <5> QED  BY <5>2, <5>3
      <4> QED  BY <1>0, <3>1, <3>5, <4>1 DEF Passed, Settles
    <3>7. ASSUME NEW o \in Once \union {Commit}, o < plan[current].next
          PROVE  \E b \in Attempt : cp'[b][o] = "completed"
      <4>1. o \in Op /\ \E b \in Attempt : cp[b][o] = "completed"
        BY <3>7 DEF Passed
      <4> QED  BY <3>5, <4>1
    <3> QED  BY <1>0, <3>1, <3>6, <3>7 DEF Passed
  <2>5. Tried'
    BY <1>0, <1>5 DEF Tried, CompleteCheckpoint, IsActive
  <2>6. PlansGoOn'
    <3>1. status = "live" => \A p : PlanIsSafe(p) => p.attempt # current
      BY DEF PlanIsSafe
    <3>2. \A p \in offers : PlanIsSafe(p)
      BY DEF IInv, Plans
    <3>3. \A c \in Client : client[c].pc \in {"offer", "consume"} => PlanIsSafe(client[c].plan)
      BY DEF IInv, Plans
    <3>4. CASE status = "live"
      BY <1>5, <3>1, <3>2, <3>3, <3>4 DEF PlansGoOn, PlanGoesOn, CompleteCheckpoint
    <3>5. CASE status # "live"
      <4>1. UNCHANGED <<status, current, plan, cp, runs, offers, client>> /\ \A b \in Attempt : at'[b] = at[b]
        BY <1>5, <3>5 DEF CompleteCheckpoint, IsActive
      <4> QED  BY <4>1 DEF PlansGoOn, PlanGoesOn, Settles
    <3> QED  BY <3>4, <3>5
  <2> QED  BY <2>1, <2>2, <2>3, <2>4, <2>5, <2>6 DEF EffectsInv
<1>6. CASE Materialize(a)
  <2>1. Ran'
    BY <1>0, <1>6 DEF Ran, Materialize, IsActive
  <2>2. Underway'
    <3>1. /\ UNCHANGED <<current, runs, proc>> /\ \A b \in Attempt : at'[b] = at[b]
          /\ \A b \in Attempt, o \in Op : o # Terminal => cp'[b][o] = cp[b][o]
          /\ wpc'[a] \in {"gone", "failing"} /\ \A b \in Attempt : b # a => wpc'[b] = wpc[b]
      BY <1>6 DEF Materialize
    <3>3. wpc'[a] = "failing" => status' = status
      BY <1>6 DEF Materialize
    <3>2. \A b \in Attempt : b # a => ~WorkerAlive(b)
      BY <1>0, OnlyCurrent
    <3> QED  BY <1>0, <3>1, <3>2, <3>3 DEF Underway, WorkerAlive
  <2>3. Recorded'
    <3>1. /\ UNCHANGED <<current, runs>> /\ \A b \in Attempt : at'[b] = at[b]
          /\ \A b \in Attempt, o \in Op : o # Terminal => cp'[b][o] = cp[b][o]
          /\ wpc'[a] \in {"gone", "failing"} /\ \A b \in Attempt : b # a => wpc'[b] = wpc[b]
      BY <1>6 DEF Materialize
    <3> QED  BY <1>0, <3>1 DEF Recorded
  <2>4. Passed'
    BY <1>0, <1>6 DEF Passed, Settles, Materialize, IsActive
  <2>5. Tried'
    BY <1>0, <1>6 DEF Tried, Materialize, IsActive
  <2>6. PlansGoOn'
    BY <1>0, <1>6 DEF PlansGoOn, PlanGoesOn, Settles, Materialize, IsActive
  <2> QED  BY <2>1, <2>2, <2>3, <2>4, <2>5, <2>6 DEF EffectsInv
<1>7. CASE WorkerFails(a)
  <2>1. Ran'
    BY <1>0, <1>7 DEF Ran, WorkerFails, IsActive
  <2>2. Underway'
    <3>1. /\ UNCHANGED <<current, runs, proc>> /\ \A b \in Attempt : at'[b] = at[b]
          /\ \A b \in Attempt, o \in Op : cp[b][o] \in {"started", "uncertain"} => cp'[b][o] \in {"started", "uncertain"}
          /\ wpc'[a] = "gone" /\ \A b \in Attempt : b # a => wpc'[b] = wpc[b]
      BY <1>7 DEF WorkerFails
    <3>2. \A b \in Attempt : b # a => ~WorkerAlive(b)
      BY <1>0, OnlyCurrent
    <3> QED  BY <1>0, <3>1, <3>2 DEF Underway, WorkerAlive
  <2>3. Recorded'
    BY <1>0, <1>7 DEF Recorded, WorkerFails, IsActive
  <2>4. Passed'
    <3>1. \A b \in Attempt, o \in Op : cp[b][o] = "completed" => cp'[b][o] = "completed"
      BY <1>7 DEF WorkerFails
    <3>2. UNCHANGED <<current, plan>> /\ at' = at
      <4>1. [at EXCEPT ![a] = at[a]] = at
        OBVIOUS
      <4> QED  BY <1>7, <4>1 DEF WorkerFails
    <3> QED  BY <3>1, <3>2, PassedKept
  <2>5. Tried'
    BY <1>0, <1>7 DEF Tried, WorkerFails, IsActive
  <2>6. PlansGoOn'
    <3>1. status = "live" => \A p : PlanIsSafe(p) => p.attempt # current
      BY DEF PlanIsSafe
    <3>2. \A p \in offers : PlanIsSafe(p)
      BY DEF IInv, Plans
    <3>3. \A c \in Client : client[c].pc \in {"offer", "consume"} => PlanIsSafe(client[c].plan)
      BY DEF IInv, Plans
    <3>4. CASE status = "live"
      BY <1>7, <3>1, <3>2, <3>3, <3>4 DEF PlansGoOn, PlanGoesOn, WorkerFails
    <3>5. CASE status # "live"
      <4>1. UNCHANGED <<status, current, plan, cp, runs, offers, client>> /\ \A b \in Attempt : at'[b] = at[b]
        BY <1>7, <3>5 DEF WorkerFails, IsActive
      <4> QED  BY <4>1 DEF PlansGoOn, PlanGoesOn, Settles
    <3> QED  BY <3>4, <3>5
  <2> QED  BY <2>1, <2>2, <2>3, <2>4, <2>5, <2>6 DEF EffectsInv
<1>8. CASE WorkerThrows(a)
  <2>1. Ran'
    BY <1>0, <1>8 DEF Ran, WorkerThrows
  <2>2. Underway'
    BY <1>0, <1>8 DEF Underway, WorkerAlive, WorkerThrows
  <2>3. Recorded'
    BY <1>0, <1>8 DEF Recorded, WorkerThrows
  <2>4. Passed'
    BY <1>0, <1>8 DEF Passed, Settles, WorkerThrows
  <2>5. Tried'
    BY <1>0, <1>8 DEF Tried, WorkerThrows
  <2>6. PlansGoOn'
    BY <1>0, <1>8 DEF PlansGoOn, PlanGoesOn, Settles, WorkerThrows
  <2> QED  BY <2>1, <2>2, <2>3, <2>4, <2>5, <2>6 DEF EffectsInv
<1>9. CASE WorkerCrash(a)
  <2>1. Ran'
    BY <1>0, <1>9 DEF Ran, WorkerCrash
  <2>2. Underway'
    BY <1>0, <1>9 DEF Underway, WorkerAlive, WorkerCrash
  <2>3. Recorded'
    BY <1>0, <1>9 DEF Recorded, WorkerCrash
  <2>4. Passed'
    BY <1>0, <1>9 DEF Passed, Settles, WorkerCrash
  <2>5. Tried'
    BY <1>0, <1>9 DEF Tried, WorkerCrash
  <2>6. PlansGoOn'
    BY <1>0, <1>9 DEF PlansGoOn, PlanGoesOn, Settles, WorkerCrash
  <2> QED  BY <2>1, <2>2, <2>3, <2>4, <2>5, <2>6 DEF EffectsInv
<1> QED  BY <1>1, <1>2, <1>3, <1>4, <1>5, <1>6, <1>7, <1>8, <1>9 DEF WorkerProgress

LEMMA ProcessEffects ==
  ASSUME IInv, EffectsInv, NEW a \in Attempt,
         ProcessProgress(a) \/ PrimeEdits(a) \/ OrphanEnds(a) \/ Edit \/ Interrupt
  PROVE  EffectsInv'
<1>t. /\ current \in Attempt /\ cp \in [Attempt -> [Op -> CpStatuses]]
      /\ plan \in [Attempt -> PlanType] /\ at \in [Attempt -> Op]
      /\ wpc \in [Attempt -> {"none", "queued", "begin", "work", "failing", "gone"}]
      /\ proc \in [Attempt -> {"none", "running", "staged", "ok", "bad"}]
      /\ runs \in [Op -> Nat] /\ head \in Nat
      /\ \A b \in Attempt : plan[b].next \in Nat /\ at[b] \in Nat /\ b \in Nat
  BY PlanParts, OpFacts DEF IInv, TypeOK
<1> USE OpFacts, OnceFacts, <1>t DEF EffectsInv, storeVars, worldVars, workerVars
<1>1. CASE AddWorktree(a)
  <2>1. Ran'
    BY <1>1 DEF Ran, AddWorktree
  <2>2. Underway'
    BY <1>1 DEF Underway, WorkerAlive, AddWorktree
  <2>3. Recorded'
    BY <1>1 DEF Recorded, AddWorktree
  <2>4. Passed'
    BY <1>1 DEF Passed, Settles, AddWorktree
  <2>5. Tried'
    BY <1>1 DEF Tried, AddWorktree
  <2>6. PlansGoOn'
    BY <1>1 DEF PlansGoOn, PlanGoesOn, Settles, AddWorktree
  <2> QED  BY <2>1, <2>2, <2>3, <2>4, <2>5, <2>6 DEF EffectsInv
<1>2. CASE PrimeAnswers(a)
  <2>1. Ran'
    BY <1>2 DEF Ran, PrimeAnswers
  <2>2. Underway'
    BY <1>2 DEF Underway, WorkerAlive, PrimeAnswers
  <2>3. Recorded'
    BY <1>2 DEF Recorded, PrimeAnswers
  <2>4. Passed'
    BY <1>2 DEF Passed, Settles, PrimeAnswers
  <2>5. Tried'
    BY <1>2 DEF Tried, PrimeAnswers
  <2>6. PlansGoOn'
    BY <1>2 DEF PlansGoOn, PlanGoesOn, Settles, PrimeAnswers
  <2> QED  BY <2>1, <2>2, <2>3, <2>4, <2>5, <2>6 DEF EffectsInv
<1>3. CASE GateEnds(a)
  <2>1. Ran'
    BY <1>3 DEF Ran, GateEnds
  <2>2. Underway'
    BY <1>3 DEF Underway, WorkerAlive, GateEnds
  <2>3. Recorded'
    BY <1>3 DEF Recorded, GateEnds
  <2>4. Passed'
    BY <1>3 DEF Passed, Settles, GateEnds
  <2>5. Tried'
    BY <1>3 DEF Tried, GateEnds
  <2>6. PlansGoOn'
    BY <1>3 DEF PlansGoOn, PlanGoesOn, Settles, GateEnds
  <2> QED  BY <2>1, <2>2, <2>3, <2>4, <2>5, <2>6 DEF EffectsInv
<1>4. CASE GitAdds(a)
  <2>1. Ran'
    BY <1>4 DEF Ran, GitAdds
  <2>2. Underway'
    BY <1>4 DEF Underway, WorkerAlive, GitAdds
  <2>3. Recorded'
    BY <1>4 DEF Recorded, GitAdds
  <2>4. Passed'
    BY <1>4 DEF Passed, Settles, GitAdds
  <2>5. Tried'
    BY <1>4 DEF Tried, GitAdds
  <2>6. PlansGoOn'
    BY <1>4 DEF PlansGoOn, PlanGoesOn, Settles, GitAdds
  <2> QED  BY <2>1, <2>2, <2>3, <2>4, <2>5, <2>6 DEF EffectsInv
<1>5. CASE GitCommits(a)
  <2>1. Ran'
    BY <1>5 DEF Ran, GitCommits
  <2>2. Underway'
    BY <1>5 DEF Underway, WorkerAlive, GitCommits
  <2>3. Recorded'
    BY <1>5 DEF Recorded, GitCommits
  <2>4. Passed'
    BY <1>5 DEF Passed, Settles, GitCommits
  <2>5. Tried'
    <3>1. at[a] = Commit /\ runs[Commit] > 0
      BY <1>5 DEF GitCommits, Underway
    <3>2. /\ UNCHANGED <<current, at, runs, client>>
          /\ \A b \in Attempt : proc'[b] = "staged" => proc[b] = "staged"
      BY <1>5 DEF GitCommits
    <3> QED  BY <3>1, <3>2 DEF Tried
  <2>6. PlansGoOn'
    BY <1>5 DEF PlansGoOn, PlanGoesOn, Settles, GitCommits
  <2> QED  BY <2>1, <2>2, <2>3, <2>4, <2>5, <2>6 DEF EffectsInv
<1>6. CASE OrphanEnds(a)
  <2>1. Ran'
    <3>1. /\ UNCHANGED <<current, at, plan, cp, wpc, runs>> /\ wpc[a] # "work"
          /\ \A b \in Attempt : b # a => proc'[b] = proc[b]
      BY <1>6 DEF OrphanEnds, WorkerAlive
    <3> QED  BY <3>1 DEF Ran
  <2>2. Underway'
    BY <1>6 DEF Underway, WorkerAlive, OrphanEnds
  <2>3. Recorded'
    BY <1>6 DEF Recorded, OrphanEnds
  <2>4. Passed'
    BY <1>6 DEF Passed, Settles, OrphanEnds
  <2>5. Tried'
    BY <1>6 DEF Tried, OrphanEnds
  <2>6. PlansGoOn'
    BY <1>6 DEF PlansGoOn, PlanGoesOn, Settles, OrphanEnds
  <2> QED  BY <2>1, <2>2, <2>3, <2>4, <2>5, <2>6 DEF EffectsInv
<1>7. CASE PrimeEdits(a) \/ Edit
  <2>1. UNCHANGED <<storeVars, head, workerVars, client>>
    BY <1>7 DEF PrimeEdits, Edit
  <2> QED  BY <2>1 DEF Ran, Underway, WorkerAlive, Recorded, Passed, Tried, PlansGoOn,
             PlanGoesOn, Settles
<1>8. CASE Interrupt
  <2>1. Ran'
    BY <1>8 DEF Ran, Interrupt
  <2>2. Underway'
    BY <1>8 DEF Underway, WorkerAlive, Interrupt
  <2>3. Recorded'
    BY <1>8 DEF Recorded, Interrupt
  <2>4. Passed'
    BY <1>8 DEF Passed, Settles, Interrupt
  <2>5. Tried'
    BY <1>8 DEF Tried, Interrupt
  <2>6. PlansGoOn'
    <3>1. status = "live" => \A p : PlanIsSafe(p) => p.attempt # current
      BY DEF PlanIsSafe
    <3>2. \A p \in offers : PlanIsSafe(p)
      BY DEF IInv, Plans
    <3>3. \A c \in Client : client[c].pc \in {"offer", "consume"} => PlanIsSafe(client[c].plan)
      BY DEF IInv, Plans
    <3> QED  BY <1>8, <3>1, <3>2, <3>3 DEF PlansGoOn, PlanGoesOn, Interrupt
  <2> QED  BY <2>1, <2>2, <2>3, <2>4, <2>5, <2>6 DEF EffectsInv
<1> QED  BY <1>1, <1>2, <1>3, <1>4, <1>5, <1>6, <1>7, <1>8 DEF ProcessProgress

\* Making nothing but a client's step.
LEMMA EffectsKept ==
  ASSUME Ran, Underway, Recorded, Passed, current \in Attempt,
         UNCHANGED <<status, current, plan, wpc, at, proc, runs>>,
         \A a \in Attempt, o \in Once : cp'[a][o] = cp[a][o],
         \A a \in Attempt :
           /\ cp[a][Commit] = "completed" => cp'[a][Commit] = "completed"
           /\ cp'[a][Commit] = "failed" => cp[a][Commit] = "failed"
           /\ cp'[a][Commit] = "completed" => cp[a][Commit] = "completed" \/ runs[Commit] > 0
  PROVE  Ran' /\ Underway' /\ Recorded' /\ Passed'
<1>1. Ran'
  BY DEF Ran
<1>2. Underway'
  BY DEF Underway, WorkerAlive
<1>3. Recorded'
  BY DEF Recorded
<1>4. Passed'
  BY DEF Passed, Settles
<1> QED  BY <1>1, <1>2, <1>3, <1>4

LEMMA NextIsBeyond ==
  ASSUME NEW a \in Attempt, SafeToResume(a)
  PROVE  /\ \A o \in Once \union {Commit} : Done(a, o) => o < NextStage(a)
         /\ \A o \in Once \union {Commit} : o < NextStage(a) => Done(a, o)
         /\ NextStage(a) \in Nat
<1>1. ~Done(a, Terminal)
  BY DEF SafeToResume
<1>2. NextStage(a) \in Op /\ NextStage(a) \in Nat
  BY <1>1, NextStageIsSafe, OpFacts
<1>3. \A o \in Once \union {Commit} : Done(a, o) => Done(a, Worktree) /\ Done(a, Prime)
  <2> SUFFICES ASSUME NEW o \in Once \union {Commit}, Done(a, o)
               PROVE  Done(a, Worktree) /\ Done(a, Prime)
    OBVIOUS
  <2>1. /\ o \in Op \ {Quiesce} /\ {Worktree, Prime} \subseteq Op \ {Quiesce}
        /\ Worktree < o /\ (o = Prime \/ Prime < o)
    BY OpFacts, OnceFacts DEF Once
  <2>2. \A q \in Op \ {Quiesce}, r \in Op \ {Quiesce} : r < q /\ Done(a, q) => Done(a, r)
    BY DEF SafeToResume
  <2> QED  BY <2>1, <2>2
<1>4. CASE Done(a, Worktree) /\ Done(a, Prime)
  <2>1. /\ NextStage(a) \in Gates \union {Commit, Terminal} /\ ~Done(a, NextStage(a))
        /\ \A p \in Gates \union {Commit} : p < NextStage(a) => Done(a, p)
    BY <1>1, <1>4, NextStageIsSafe
  <2>2. ASSUME NEW o \in Once \union {Commit}, Done(a, o)
        PROVE  o < NextStage(a)
    <3>1. /\ o \in Op \ {Quiesce} /\ NextStage(a) \in Op \ {Quiesce}
          /\ o \in Nat /\ NextStage(a) \in Nat
      BY <1>1, <1>2, OpFacts, OnceFacts, NextStageIsSafe
    <3>2. ~(NextStage(a) < o)
      BY <2>1, <2>2, <3>1 DEF SafeToResume
    <3> QED  BY <2>1, <2>2, <3>1, <3>2
  <2>3. ASSUME NEW o \in Once \union {Commit}, o < NextStage(a)
        PROVE  Done(a, o)
    BY <1>4, <2>1, <2>3 DEF Once
  <2> QED  BY <1>2, <2>2, <2>3
<1>5. CASE ~(Done(a, Worktree) /\ Done(a, Prime))
  <2>1. NextStage(a) <= Provision
    BY <1>5, OpFacts DEF NextStage
  <2>2. \A o \in Once \union {Commit} : ~(o < NextStage(a))
    BY <1>2, <2>1, OnceFacts, OpFacts
  <2> QED  BY <1>2, <1>3, <1>5, <2>2
<1> QED  BY <1>4, <1>5

\* A plan made when it is safe to resume goes on behind all that has run.
LEMMA SafePlanGoesOn ==
  ASSUME IInv, EffectsInv, SafeToResume(current), status = "interrupted"
  PROVE  PlanGoesOn(ResumePlan(current))
<1>1. /\ current \in Attempt /\ at[current] \in Nat /\ plan[current].next \in Nat
      /\ plan[current].next <= at[current]
  BY OpFacts, PlanParts DEF IInv, TypeOK, Attempts, Forward
<1>2. \A o \in Op : Evidence(current)[o] =
          IF o < plan[current].next THEN "completed" ELSE cp[current][o]
  BY DEF Evidence
<1>3. \A o \in Op : Done(current, o) <=> Settles(o)
  BY <1>2 DEF Done, Settles
<1>4. \A o \in Op : /\ Evidence(current)[o] # "uncertain"
                    /\ o \in Gates => Evidence(current)[o] # "failed"
  BY DEF SafeToResume, Uncertain
<1>5. /\ \A o \in Once \union {Commit} : Done(current, o) <=> o < NextStage(current)
      /\ NextStage(current) \in Nat
  BY <1>1, NextIsBeyond
<1>6. ASSUME NEW o \in Once, o >= plan[current].next
      PROVE  cp[current][o] \notin {"started", "uncertain", "failed"}
  <2>1. o \in Op /\ o \in Nat
    BY OnceFacts
  <2>2. Evidence(current)[o] = cp[current][o]
    BY <1>1, <1>2, <1>6, <2>1
  <2>3. cp[current][o] # "started"
    BY <2>1 DEF IInv, Attempts, Settled
  <2> QED  BY <1>1, <1>4, <2>1, <2>2, <2>3 DEF EffectsInv, Recorded
<1>7. ASSUME NEW o \in Once, runs[o] > 0
      PROVE  o < NextStage(current)
  <2>1. o \in Op /\ o \in Nat
    BY OnceFacts
  <2>2. o < plan[current].next \/ cp[current][o] \notin {"none", "retryable"}
    BY <1>7 DEF EffectsInv, Ran
  <2>3. cp[current][o] \in CpStatuses
    BY <1>1, <2>1 DEF IInv, TypeOK
  <2>4. Settles(o)
    BY <1>1, <1>6, <2>1, <2>2, <2>3 DEF Settles, CpStatuses
  <2> QED  BY <1>3, <1>5, <2>1, <2>4
<1>8. ASSUME at[current] >= Commit
      PROVE  NextStage(current) >= Commit
  <2>1. \A o \in Once : Done(current, o)
    BY <1>1, <1>3, <1>8, OnceFacts DEF EffectsInv, Passed
  <2>2. \A o \in Once : o < NextStage(current)
    BY <1>5, <2>1
  <2>3. NextStage(current) \in Op \ {Prime, Quiesce} /\ NextStage(current) > Quiesce
    <3>1. NextStage(current) \in Op \ {Prime, Quiesce}
      BY <1>1, NextStageIsSafe DEF SafeToResume
    <3>2. Prime < NextStage(current) /\ Prime = 3 /\ Quiesce = 4
      BY <2>2, OnceFacts, OpFacts
    <3> QED  BY <1>5, <3>1, <3>2
  <2>4. NextStage(current) \notin Gates
    BY <1>5, <2>2 DEF Once
  <2> QED  BY <1>5, <2>3, <2>4, OnceFacts
<1>9. at[current] \in Once => cp[current][at[current]] \notin {"uncertain", "failed"}
  BY <1>1, <1>6
<1>10. \A o \in Once \union {Commit} : o < NextStage(current) => Settles(o)
  BY <1>3, <1>5, OnceFacts, OpFacts
<1>11. ResumePlan(current).next = NextStage(current)
  BY DEF ResumePlan
<1> QED  BY <1>7, <1>8, <1>9, <1>10, <1>11 DEF PlanGoesOn

LEMMA PlansGoOnKept ==
  ASSUME PlansGoOn, client \in [Client -> ClientType], NEW c \in Client, NEW C,
         client' = [client EXCEPT ![c] = C],
         UNCHANGED <<current, plan, at, runs, cp, offers>>,
         C.pc \in {"offer", "consume"} => PlanGoesOn(C.plan)
  PROVE  PlansGoOn'
<1>1. \A p : PlanGoesOn(p) <=> PlanGoesOn(p)'
  BY DEF PlanGoesOn, Settles
<1> QED  BY <1>1 DEF PlansGoOn

LEMMA ClientEffects ==
  ASSUME IInv, EffectsInv, NEW c \in Client,
         PreviewReads(c) \/ PreviewProgress(c) \/ (\E p \in offers : Confirm(c, p))
  PROVE  EffectsInv'
<1>t. /\ current \in Attempt /\ cp \in [Attempt -> [Op -> CpStatuses]]
      /\ plan \in [Attempt -> PlanType] /\ at \in [Attempt -> Op]
      /\ wpc \in [Attempt -> {"none", "queued", "begin", "work", "failing", "gone"}]
      /\ proc \in [Attempt -> {"none", "running", "staged", "ok", "bad"}]
      /\ runs \in [Op -> Nat] /\ head \in Nat
      /\ \A b \in Attempt : plan[b].next \in Nat /\ at[b] \in Nat /\ b \in Nat
  BY PlanParts, OpFacts DEF IInv, TypeOK
<1>0. /\ client \in [Client -> ClientType] /\ Idle.pc = "idle" /\ Idle.plan = NoPlan
  BY DEF IInv, TypeOK, ClientType, Idle
<1> USE <1>0, <1>t DEF EffectsInv
<1>1. CASE PreviewReads(c)
  <2> DEFINE C == [Idle EXCEPT !.pc = "assess", !.plan.attempt = current]
  <2>1. C.pc = "assess"
    BY DEF Idle
  <2>2. client' = [client EXCEPT ![c] = C] /\ UNCHANGED <<storeVars, worldVars, workerVars>>
    BY <1>1 DEF PreviewReads
  <2> HIDE DEF C
  <2>3. Ran' /\ Underway' /\ Recorded' /\ Passed'
    BY <2>2, EffectsKept DEF storeVars, workerVars
  <2>4. PlansGoOn'
    BY <2>1, <2>2, PlansGoOnKept DEF storeVars, workerVars
  <2>5. Tried'
    BY <2>1, <2>2 DEF Tried, storeVars, worldVars, workerVars
  <2> QED  BY <2>3, <2>4, <2>5
<1>2. CASE Assess(c)
  <2> DEFINE pending == Uncertain(client[c].plan.attempt) \intersect Reconcilable
             o == CHOOSE o \in pending : \A p \in pending : o <= p
  <2>1. UNCHANGED <<storeVars, worldVars, workerVars>>
    BY <1>2 DEF Assess
  <2>2. PICK C : /\ client' = [client EXCEPT ![c] = C]
                 /\ C.pc \in {"idle", "reconcile"}
                 /\ C.pc = "reconcile" => C.to \in Resolutions(C.op)
    <3>1. CASE client' = [client EXCEPT ![c] = Idle]
      BY <3>1
    <3> HIDE DEF o
    <3>2. ASSUME NEW r \in Resolutions(o),
                 client' = [client EXCEPT ![c].pc = "reconcile", ![c].op = o, ![c].to = r,
                                          ![c].plan.commit = head]
          PROVE  \E C : /\ client' = [client EXCEPT ![c] = C]
                        /\ C.pc \in {"idle", "reconcile"}
                        /\ C.pc = "reconcile" => C.to \in Resolutions(C.op)
      <4> DEFINE C == [client[c] EXCEPT !.pc = "reconcile", !.op = o, !.to = r,
                                        !.plan = [@ EXCEPT !.commit = head]]
      <4>1. C.pc = "reconcile" /\ C.op = o /\ C.to = r
        BY DEF ClientType
      <4>2. client' = [client EXCEPT ![c] = C]
        BY ONLY <3>2, Zenon
      <4> HIDE DEF C
      <4> QED  BY <3>2, <4>1, <4>2
    <3> QED  BY <1>2, <3>1, <3>2 DEF Assess, o
  <2>3. Ran' /\ Underway' /\ Recorded' /\ Passed'
    BY <2>1, EffectsKept DEF storeVars, workerVars
  <2>4. PlansGoOn'
    BY <2>1, <2>2, PlansGoOnKept DEF storeVars, workerVars
  <2>5. "completed" \in Resolutions(Commit) => head > 0
    BY OpFacts DEF Resolutions
  <2>6. Tried'
    BY <2>1, <2>2, <2>5 DEF Tried, storeVars, worldVars, workerVars
  <2> QED  BY <2>3, <2>4, <2>6
<1>3. CASE Reconcile(c)
  <2> DEFINE a == client[c].plan.attempt
             o == client[c].op
             C == [Idle EXCEPT !.pc = "assess", !.plan.attempt = a]
  <2>1. C.pc = "assess"
    BY DEF Idle
  <2>2. /\ UNCHANGED <<status, current, plan, offers, worldVars, workerVars>>
        /\ client' = [client EXCEPT ![c] = Idle] \/ client' = [client EXCEPT ![c] = C]
        /\ \/ cp' = cp
           \/ cp[a][o] = "uncertain" /\ cp' = [cp EXCEPT ![a][o] = client[c].to]
    BY <1>3 DEF Reconcile
  <2>3. /\ o \in Reconcilable /\ client[c].to \in {"none", "completed", "retryable"}
        /\ o = Commit /\ client[c].to = "completed" => runs[Commit] > 0
        /\ a = current \/ cp' = cp
    BY <1>3 DEF Reconcile, IInv, Clients, ClientType, Tried
  <2> HIDE DEF C, a, o
  <2>4. /\ \A b \in Attempt, q \in Once : cp'[b][q] = cp[b][q]
        /\ \A b \in Attempt :
             \/ cp'[b][Commit] = cp[b][Commit]
             \/ /\ cp[b][Commit] = "uncertain" /\ cp'[b][Commit] # "failed"
                /\ cp'[b][Commit] = "completed" => runs[Commit] > 0
    BY <2>2, <2>3, OnceFacts, OpFacts
  <2>5. Ran' /\ Underway' /\ Recorded' /\ Passed'
    BY <2>2, <2>4, EffectsKept DEF workerVars
  <2>6. Tried'
    BY <2>1, <2>2 DEF Tried, worldVars, workerVars
  <2>7. PlansGoOn'
    <3>1. ASSUME NEW p, PlanGoesOn(p)
          PROVE  PlanGoesOn(p)'
      BY <2>2, <2>4, <3>1 DEF PlanGoesOn, Settles, workerVars
    <3> QED  BY <2>1, <2>2, <3>1 DEF PlansGoOn
  <2> QED  BY <2>5, <2>6, <2>7
<1>4. CASE Plan(c)
  <2> DEFINE a == client[c].plan.attempt
             C == [Idle EXCEPT !.pc = "offer", !.plan = ResumePlan(a)]
  <2>1. UNCHANGED <<storeVars, worldVars, workerVars>> /\ (a = current => status = "interrupted")
    BY <1>4 DEF Plan, IInv, Clients
  <2>2. C.pc = "offer" /\ C.plan = ResumePlan(a) /\ ResumePlan(a).attempt = a
    BY DEF Idle, ResumePlan
  <2>3. \/ client' = [client EXCEPT ![c] = Idle]
        \/ SafeToResume(a) /\ client' = [client EXCEPT ![c] = C]
    BY <1>4 DEF Plan
  <2> HIDE DEF a, C
  <2>4. SafeToResume(a) => PlanGoesOn(ResumePlan(a))
    <3>1. CASE a = current
      BY <2>1, <3>1, SafePlanGoesOn
    <3>2. CASE a # current
      BY <2>2, <3>2 DEF PlanGoesOn
    <3> QED  BY <3>1, <3>2
  <2>5. Ran' /\ Underway' /\ Recorded' /\ Passed'
    BY <2>1, EffectsKept DEF storeVars, workerVars
  <2>6. PlansGoOn'
    BY <2>1, <2>2, <2>3, <2>4, PlansGoOnKept DEF storeVars, workerVars
  <2>7. Tried'
    BY <2>1, <2>2, <2>3 DEF Tried, storeVars, worldVars, workerVars
  <2> QED  BY <2>5, <2>6, <2>7
<1>5. CASE Offer(c)
  <2>1. /\ UNCHANGED <<status, current, cp, plan, worldVars, workerVars>> /\ client[c].pc = "offer"
        /\ client' = [client EXCEPT ![c] = Idle]
        /\ offers' \subseteq offers \union {client[c].plan}
    BY <1>5 DEF Offer
  <2>2. Ran' /\ Underway' /\ Recorded' /\ Passed'
    BY <2>1, EffectsKept DEF workerVars
  <2>3. PlansGoOn'
    <3>1. \A p : PlanGoesOn(p) <=> PlanGoesOn(p)'
      BY <2>1 DEF PlanGoesOn, Settles, workerVars
    <3>2. \A p \in offers' : PlanGoesOn(p)
      BY <2>1 DEF PlansGoOn
    <3> QED  BY <2>1, <3>1, <3>2 DEF PlansGoOn
  <2>4. Tried'
    BY <2>1 DEF Tried, worldVars, workerVars
  <2> QED  BY <2>2, <2>3, <2>4
<1>6. CASE Consume(c)
  <2>1. CASE UNCHANGED <<storeVars, workerVars>> /\ client' = [client EXCEPT ![c] = Idle]
    <3>1. UNCHANGED worldVars
      BY <1>6 DEF Consume
    <3>2. Ran' /\ Underway' /\ Recorded' /\ Passed'
      BY <2>1, EffectsKept DEF storeVars, workerVars
    <3>3. PlansGoOn'
      BY <2>1, PlansGoOnKept DEF storeVars, workerVars
    <3>4. Tried'
      BY <2>1, <3>1 DEF Tried, storeVars, worldVars, workerVars
    <3> QED  BY <3>2, <3>3, <3>4
  <2> DEFINE p == client[c].plan
             n == current + 1
  <2>2. CASE /\ client[c].pc = "consume" /\ p.attempt = current /\ n \in Attempt
             /\ status = "interrupted"
             /\ status' = "live" /\ current' = n /\ plan' = [plan EXCEPT ![n] = p]
             /\ offers' = {} /\ wpc' = [wpc EXCEPT ![n] = "queued"]
             /\ at' = [at EXCEPT ![n] = p.next] /\ client' = [client EXCEPT ![c] = Idle]
             /\ UNCHANGED <<cp, proc, runs, head>>
    <3>0. /\ p = client[c].plan /\ n = current + 1 /\ p.next \in Nat
      BY PlanParts, OpFacts DEF ClientType
    <3> HIDE DEF p, n
    <3>1. /\ \A b \in Attempt : ~WorkerAlive(b)
          /\ PlanGoesOn(p) /\ cp[current][at[current]] # "started"
      BY <2>2, <3>0 DEF IInv, Clients, PlansGoOn, Working, Attempts, Settled
    <3>2. /\ at[current] \in Once => cp[current][at[current]] \notin {"uncertain", "failed"}
          /\ \A o \in Once : runs[o] > 0 => o < p.next
          /\ \A o \in Once \union {Commit} : o < p.next => Settles(o)
          /\ at[current] >= Commit => p.next >= Commit
      BY <2>2, <3>1 DEF PlanGoesOn
    <3>3. /\ proc[n] = "none" /\ n # current
          /\ \A b \in Attempt : b # n => at'[b] = at[b] /\ wpc'[b] = wpc[b] /\ plan'[b] = plan[b]
          /\ at'[n] = p.next /\ wpc'[n] = "queued" /\ plan'[n] = p
      BY <2>2, <3>0 DEF IInv, Attempts, Ahead
    <3>4. Ran'
      BY <2>2, <3>0, <3>2, <3>3, OnceFacts DEF Ran
    <3>5. Underway'
      BY <2>2, <3>1, <3>2, <3>3 DEF Underway, WorkerAlive
    <3>6. Recorded'
      <4>1. ASSUME NEW b \in Attempt, NEW o \in Once \union {Commit}
            PROVE  cp[b][o] # "failed"
        BY <3>2, <4>1 DEF Recorded, Once
      <4>2. ASSUME NEW b \in Attempt, NEW o \in Once \union {Commit}, cp[b][o] = "completed"
            PROVE  runs[o] > 0 /\ (o # Commit => o < p.next)
        BY <3>2, <4>2 DEF Recorded
      <4> QED  BY <2>2, <3>3, <4>1, <4>2 DEF Recorded
    <3>7. Passed'
      <4>1. ASSUME NEW o \in Once \union {Commit}, o < p.next
            PROVE  \E b \in Attempt : cp[b][o] = "completed"
        BY <3>2, <4>1 DEF Settles, Passed
      <4> QED  BY <2>2, <3>0, <3>3, <4>1 DEF Passed, Settles
    <3>8. Tried'
      BY <2>2, <3>2, <3>3 DEF Tried
    <3>9. PlansGoOn'
      <4>1. ASSUME NEW d \in Client, d # c, client[d].pc \in {"offer", "consume"}
            PROVE  client[d].plan.attempt # n
        BY <3>0, <4>1 DEF IInv, Plans, PlanIsSafe
      <4> QED  BY <2>2, <4>1 DEF PlansGoOn, PlanGoesOn
    <3> QED  BY <3>4, <3>5, <3>6, <3>7, <3>8, <3>9
  <2> QED  BY <1>6, <2>1, <2>2, AttemptFacts DEF Consume, storeVars, worldVars, workerVars
<1>7. ASSUME NEW p \in offers, Confirm(c, p)
      PROVE  EffectsInv'
  <2> DEFINE C == [Idle EXCEPT !.pc = "consume", !.plan = p]
  <2>1. C.pc = "consume" /\ C.plan = p
    BY DEF Idle
  <2>2. client' = [client EXCEPT ![c] = C] /\ UNCHANGED <<storeVars, worldVars, workerVars>>
    BY <1>7 DEF Confirm
  <2> HIDE DEF C
  <2>3. Ran' /\ Underway' /\ Recorded' /\ Passed'
    BY <2>2, EffectsKept DEF storeVars, workerVars
  <2>4. PlansGoOn'
    <3>1. PlanGoesOn(p)
      BY DEF PlansGoOn
    <3> QED  BY <2>1, <2>2, <3>1, PlansGoOnKept DEF storeVars, workerVars
  <2>5. Tried'
    BY <2>1, <2>2 DEF Tried, storeVars, worldVars, workerVars
  <2> QED  BY <2>3, <2>4, <2>5
<1> QED  BY <1>1, <1>2, <1>3, <1>4, <1>5, <1>6, <1>7 DEF PreviewProgress

LEMMA EffectsStep == IInv /\ EffectsInv /\ [Next]_vars => EffectsInv'
<1> SUFFICES ASSUME IInv, EffectsInv, [Next]_vars PROVE EffectsInv'
  OBVIOUS
<1>1. ASSUME NEW a \in Attempt,
             WorkerProgress(a) \/ WorkerThrows(a) \/ WorkerCrash(a)
      PROVE  EffectsInv'
  BY <1>1, WorkerEffects
<1>2. ASSUME NEW a \in Attempt, ProcessProgress(a) \/ PrimeEdits(a) \/ OrphanEnds(a)
      PROVE  EffectsInv'
  BY <1>2, ProcessEffects
<1>3. CASE Edit \/ Interrupt
  <2>1. 1 \in Attempt
    BY OpFacts
  <2> QED  BY <1>3, <2>1, ProcessEffects
<1>4. ASSUME NEW c \in Client,
             PreviewReads(c) \/ PreviewProgress(c) \/ (\E p \in offers : Confirm(c, p))
      PROVE  EffectsInv'
  BY <1>4, ClientEffects
<1>5. CASE UNCHANGED vars
  BY <1>5 DEF EffectsInv, Ran, Underway, WorkerAlive, Recorded, Passed, Tried, PlansGoOn,
       PlanGoesOn, Settles, vars, storeVars, worldVars, workerVars
<1> QED  BY <1>1, <1>2, <1>3, <1>4, <1>5 DEF Next

LEMMA InitEffects == Init => EffectsInv /\ Frozen
<1> SUFFICES ASSUME Init PROVE EffectsInv /\ Frozen
  OBVIOUS
<1>1. /\ current = 1 /\ 1 \in Attempt /\ status = "live" /\ offers = {} /\ head = 0
      /\ \A o \in Op : runs[o] = 0
      /\ \A a \in Attempt : /\ at[a] = Worktree /\ plan[a].next = Worktree /\ proc[a] = "none"
                           /\ wpc[a] # "work" /\ \A o \in Op : cp[a][o] = "none"
      /\ \A c \in Client : client[c].pc = "idle"
  BY OpFacts DEF Init, NoPlan, Idle
<1>2. Commit \in Op /\ Once \subseteq Op /\ \A o \in Once \union {Commit} : o \in Op /\ ~(o < Worktree)
  BY OnceFacts, OpFacts DEF Once
<1>3. Ran /\ Underway /\ Recorded /\ Passed
  BY <1>1, <1>2 DEF Ran, Underway, Recorded, Passed
<1>4. Tried /\ PlansGoOn /\ Frozen
  BY <1>1, <1>2 DEF Tried, PlansGoOn, Frozen
<1> QED  BY <1>3, <1>4 DEF EffectsInv

LEMMA FrozenStep ==
  ASSUME ~Editable, IInv, EffectsInv, Frozen, [Next]_vars
  PROVE  Frozen'
<1>1. /\ head \in Nat /\ \A a \in Attempt : a \in Nat /\ at[a] \in Nat
      /\ current \in Attempt /\ Commit \in Nat /\ Commit > 4 /\ Prime = 3 /\ Quiesce = 4
      /\ (\A o \in Gates : o < Commit) /\ runs[Commit] \in Nat
  <2>1. /\ head \in Nat /\ at \in [Attempt -> Op] /\ current \in Attempt /\ runs \in [Op -> Nat]
    BY DEF IInv, TypeOK
  <2>2. Attempt \subseteq Nat /\ Op \subseteq Nat /\ Commit \in Op
    BY OpFacts
  <2> QED  BY <2>1, <2>2, OpFacts
<1>2. CASE /\ UNCHANGED <<files, index, committed, head>>
           /\ \A b \in Attempt : proc'[b] = "staged" => proc[b] = "staged"
  BY <1>2 DEF Frozen
<1>3. CASE runs[Commit] = 0 /\ head' = head /\ proc' = proc
  <2>1. head = 0 /\ \A b \in Attempt : proc[b] # "staged"
    BY <1>1, <1>3 DEF EffectsInv, Tried, Underway
  <2> QED  BY <1>3, <2>1 DEF Frozen
<1>4. runs[Commit] = 0 \/ runs[Commit] > 0
  BY <1>1
<1>5. ASSUME NEW a \in Attempt, PrimeEdits(a)
      PROVE  Frozen'
  <2>1. ASSUME runs[Commit] > 0
        PROVE  FALSE
    <3>1. at[current] >= Commit
      BY <2>1 DEF EffectsInv, Tried
    <3>2. ~agent[current]
      BY <1>1, <3>1 DEF IInv, Attempts, Trail, TrailOf
    <3> QED  BY <1>1, <1>5, <3>2 DEF PrimeEdits, IInv, Attempts, Ahead, Behind
  <2> QED  BY <1>3, <1>4, <1>5, <2>1 DEF PrimeEdits, workerVars
<1>6. ASSUME NEW a \in Attempt, GateEnds(a)
      PROVE  Frozen'
  <2>1. a = current /\ at[a] \in Gates
    BY <1>6 DEF GateEnds, EffectsInv, Underway, Once
  <2>2. runs[Commit] = 0
    BY <1>1, <1>4, <2>1 DEF EffectsInv, Tried
  <2>3. head = 0 /\ \A b \in Attempt : proc[b] # "staged"
    BY <1>1, <2>2 DEF EffectsInv, Tried, Underway
  <2>4. head' = 0 /\ \A b \in Attempt : proc'[b] # "staged"
    BY <1>6, <2>3 DEF GateEnds, IInv, TypeOK
  <2> QED  BY <2>4 DEF Frozen
<1>7. ASSUME NEW a \in Attempt, GitAdds(a)
      PROVE  Frozen'
  BY <1>7 DEF GitAdds, Frozen
<1>8. ASSUME NEW a \in Attempt, GitCommits(a)
      PROVE  Frozen'
  <2>1. /\ UNCHANGED <<files, index>> /\ index = files
        /\ \/ head' = head + 1 /\ committed' = index /\ index # committed
           \/ UNCHANGED <<head, committed>>
    BY <1>8 DEF GitCommits, Frozen
  <2> QED  BY <1>1, <2>1 DEF Frozen
<1>9. ASSUME NEW a \in Attempt,
             \/ WorkerProgress(a) \/ WorkerThrows(a) \/ WorkerCrash(a)
             \/ AddWorktree(a) \/ PrimeAnswers(a) \/ OrphanEnds(a)
      PROVE  Frozen'
  <2>1. UNCHANGED <<files, index, committed, head>>
    BY <1>9 DEF WorkerProgress, WorkerStarts, BeginCheckpoint, StartProcess, QuiesceAgent,
         CompleteCheckpoint, Materialize, WorkerFails, WorkerThrows, WorkerCrash,
         AddWorktree, PrimeAnswers, OrphanEnds, worldVars
  <2>2. proc \in [Attempt -> {"none", "running", "staged", "ok", "bad"}]
    BY DEF IInv, TypeOK
  <2>3. \A b \in Attempt : proc'[b] = "staged" => proc[b] = "staged"
    BY <1>9, <2>2 DEF WorkerProgress, WorkerStarts, BeginCheckpoint, StartProcess, QuiesceAgent,
         CompleteCheckpoint, Materialize, WorkerFails, WorkerThrows, WorkerCrash,
         AddWorktree, PrimeAnswers, OrphanEnds
  <2> QED  BY <1>2, <2>1, <2>3
<1>10. CASE Interrupt \/ UNCHANGED vars
  BY <1>2, <1>10 DEF Interrupt, vars, worldVars, workerVars
<1>11. ASSUME NEW c \in Client,
              PreviewReads(c) \/ PreviewProgress(c) \/ (\E p \in offers : Confirm(c, p))
       PROVE  Frozen'
  BY <1>2, <1>11 DEF PreviewReads, PreviewProgress, Assess, Reconcile, Plan, Offer, Consume,
       Confirm, worldVars, workerVars
<1> QED  BY <1>5, <1>6, <1>7, <1>8, <1>9, <1>10, <1>11 DEF Next, Edit, ProcessProgress

-----------------------------------------------------------------------------
(* What is committed *)

\* Unless git survives its worker, the process of a commit has a worker at work.
Attended == \A a \in Attempt : at[a] = Commit /\ proc[a] # "none" => wpc[a] = "work"

\* A commit that an attempt or a plan has recorded is not ahead of it.
BeforeCommit(p) == p.next <= Commit => p.commit = 0

CommitKnown ==
  /\ \A a \in Attempt : sha[a] # 0 => plan[a].next > Commit \/ cp[a][Commit] = "completed"
  /\ \A a \in Attempt : BeforeCommit(plan[a])
  /\ \A p \in offers : BeforeCommit(p)
  /\ \A c \in Client : client[c].pc \in {"offer", "consume"} => BeforeCommit(client[c].plan)

\* A worker that is to commit finds no commit.
CommitAhead ==
  \A a \in Attempt :
    at[a] = Commit /\ (wpc[a] = "begin" \/ (wpc[a] = "work" /\ proc[a] \notin {"ok", "bad"}))
    => head = 0

CommitInv == Attended /\ CommitKnown /\ CommitAhead /\ CommitOnce

LEMMA CommitFacts ==
  ASSUME IInv, EffectsInv
  PROVE  /\ cp \in [Attempt -> [Op -> CpStatuses]] /\ sha \in [Attempt -> Nat]
         /\ plan \in [Attempt -> PlanType] /\ at \in [Attempt -> Op]
         /\ wpc \in [Attempt -> {"none", "queued", "begin", "work", "failing", "gone"}]
         /\ proc \in [Attempt -> {"none", "running", "staged", "ok", "bad"}]
         /\ current \in Attempt /\ head \in Nat /\ Commit \in Op
         /\ \A a \in Attempt : plan[a].next \in Nat /\ at[a] \in Nat
         /\ \A a \in Attempt : wpc[a] \in {"queued", "begin"} => proc[a] = "none"
         /\ head > 0 => at[current] >= Commit
<1>1. \A a \in Attempt : plan[a].next \in Nat /\ at[a] \in Nat
  BY PlanParts, OpFacts DEF IInv, TypeOK
<1> QED  BY <1>1, OpFacts DEF IInv, TypeOK, EffectsInv, Underway, Tried

LEMMA CommitOps ==
  /\ Commit \in Nat /\ Commit > 4 /\ Commit \notin {Worktree, Provision, Prime, Quiesce}
  /\ Commit \notin Gates /\ Terminal # Commit /\ Commit \in Op
  /\ \A o \in Gates : o < Commit
BY OpFacts, OnceFacts DEF Once

LEMMA CommitWorker ==
  ASSUME ~GitSurvives, IInv, EffectsInv, CommitInv, NEW a \in Attempt,
         WorkerProgress(a) \/ WorkerThrows(a) \/ WorkerCrash(a)
  PROVE  CommitInv'
<1>0. /\ WorkerAlive(a) /\ a = current /\ UNCHANGED <<plan, offers, client, head>>
      /\ \A b \in Attempt \ {a} : wpc[b] \notin {"begin", "work"}
  <2>1. WorkerAlive(a) /\ UNCHANGED <<plan, offers, client, head>>
    BY DEF WorkerProgress, WorkerStarts, BeginCheckpoint, StartProcess, QuiesceAgent,
       CompleteCheckpoint, Materialize, WorkerFails, WorkerThrows, WorkerCrash, WorkerAlive,
       storeVars, worldVars
  <2>2. \A b \in Attempt : WorkerAlive(b) => b = current
    BY OnlyCurrent
  <2> QED  BY <2>1, <2>2 DEF WorkerAlive
<1>t. /\ \A b \in Attempt \ {a} : /\ wpc'[b] = wpc[b] /\ at'[b] = at[b]
                                 /\ proc'[b] = proc[b] /\ sha'[b] = sha[b]
      /\ CommitOnce'
  BY <1>0, CommitFacts DEF WorkerProgress, WorkerStarts, BeginCheckpoint, StartProcess,
     QuiesceAgent, CompleteCheckpoint, Materialize, WorkerFails, WorkerThrows, WorkerCrash,
     Goto, storeVars, worldVars, CommitInv, CommitOnce
\* What is left to show of a step is about the worker that takes it.
<1>k. ASSUME at'[a] = Commit /\ proc'[a] # "none" => wpc'[a] = "work",
             sha'[a] # 0 => plan[a].next > Commit \/ cp'[a][Commit] = "completed",
             \A b \in Attempt \ {a} : cp[b][Commit] = "completed" => cp'[b][Commit] = "completed",
             at'[a] = Commit /\ (wpc'[a] = "begin" \/ (wpc'[a] = "work" /\ proc'[a] \notin {"ok", "bad"}))
               => head = 0
      PROVE  CommitInv'
  <2>1. Attended'
    BY <1>t, <1>k DEF CommitInv, Attended
  <2>2. CommitKnown'
    BY <1>0, <1>t, <1>k DEF CommitInv, CommitKnown, BeforeCommit
  <2>3. CommitAhead'
    BY <1>0, <1>t, <1>k DEF CommitInv, CommitAhead
  <2> QED  BY <1>t, <2>1, <2>2, <2>3 DEF CommitInv
<1>m. /\ sha[a] # 0 => plan[a].next > Commit \/ cp[a][Commit] = "completed"
      /\ at[a] = Commit /\ proc[a] # "none" => wpc[a] = "work"
      /\ at[a] = Commit /\ (wpc[a] = "begin" \/ (wpc[a] = "work" /\ proc[a] \notin {"ok", "bad"}))
           => head = 0
  BY DEF CommitInv, Attended, CommitKnown, CommitAhead
<1>1. CASE WorkerStarts(a)
  <2>1. proc[a] = "none" /\ UNCHANGED <<proc, sha, cp>>
    BY <1>1, CommitFacts DEF WorkerStarts, storeVars
  <2>2. CASE PlanHolds(plan[a]) /\ wpc' = [wpc EXCEPT ![a] = "begin"]
             /\ at' = [at EXCEPT ![a] = plan[a].next]
    <3>1. wpc'[a] = "begin" /\ at'[a] = plan[a].next
      BY <2>2, CommitFacts
    <3>2. plan[a].next = Commit => head = plan[a].commit
      BY <2>2, CommitOps DEF PlanHolds, WorktreeMatches
    <3>3. plan[a].next = Commit => plan[a].commit = 0
      BY CommitOps DEF CommitInv, CommitKnown, BeforeCommit
    <3> QED  BY <1>k, <1>m, <2>1, <3>1, <3>2, <3>3
  <2>3. CASE wpc' = [wpc EXCEPT ![a] = "failing"] /\ at' = [at EXCEPT ![a] = at[a]]
    <3>1. wpc'[a] = "failing"
      BY <2>3, CommitFacts
    <3> QED  BY <1>k, <1>m, <2>1, <3>1
  <2> QED  BY <1>1, <2>2, <2>3 DEF WorkerStarts, Goto
<1>2. CASE BeginCheckpoint(a)
  <2>1. proc'[a] = "none" /\ UNCHANGED sha /\ at'[a] = at[a] /\ wpc[a] = "begin"
        /\ wpc'[a] \in {"work", "failing"}
    BY <1>2, CommitFacts DEF BeginCheckpoint, Goto
  <2>2. \A b \in Attempt : cp[b][Commit] = "completed" => cp'[b][Commit] = "completed"
    BY <1>2, CommitFacts DEF BeginCheckpoint
  <2> QED  BY <1>k, <1>m, <2>1, <2>2
<1>3. CASE StartProcess(a)
  <2>1. proc'[a] \in {"running", "bad"} /\ UNCHANGED <<sha, cp, at, wpc>> /\ wpc[a] = "work"
        /\ proc[a] = "none"
    BY <1>3, CommitFacts DEF StartProcess, storeVars
  <2> QED  BY <1>k, <1>m, <2>1
<1>4. CASE QuiesceAgent(a)
  <2>1. proc'[a] = "ok" /\ UNCHANGED <<sha, cp, at, wpc>> /\ at[a] # Commit
    BY <1>4, CommitFacts, CommitOps DEF QuiesceAgent, storeVars
  <2> QED  BY <1>k, <1>m, <2>1
<1>5. CASE CompleteCheckpoint(a)
  <2>1. proc'[a] = "none" /\ wpc[a] = "work"
    BY <1>5, CommitFacts DEF CompleteCheckpoint
  <2>2. \/ wpc'[a] = "failing"
        \/ wpc'[a] = "begin" /\ at'[a] = at[a] + 1
    BY <1>5, CommitFacts DEF CompleteCheckpoint, Goto
  <2>3. at'[a] = Commit /\ wpc'[a] = "begin" => head = 0
    <3>1. at[a] + 1 = Commit => ~(at[current] >= Commit)
      BY <1>0, CommitFacts, CommitOps
    <3> QED  BY <2>2, <3>1, CommitFacts
  <2>4. /\ \A b \in Attempt \ {a} : cp[b][Commit] = "completed" => cp'[b][Commit] = "completed"
        /\ sha'[a] # 0 => plan[a].next > Commit \/ cp'[a][Commit] = "completed"
    <3>1. CASE UNCHANGED <<cp, sha>>
      BY <1>m, <3>1
    <3>2. CASE at[a] = Commit /\ cp' = [cp EXCEPT ![a][at[a]] = "completed"]
      BY <1>t, <3>2, CommitFacts
    <3>3. ASSUME at[a] # Commit, UNCHANGED sha, NEW r, cp' = [cp EXCEPT ![a][at[a]] = r]
          PROVE  /\ \A b \in Attempt \ {a} : cp[b][Commit] = "completed" => cp'[b][Commit] = "completed"
                 /\ sha'[a] # 0 => plan[a].next > Commit \/ cp'[a][Commit] = "completed"
      BY <1>m, <3>3, CommitFacts
    <3>4. \/ UNCHANGED <<cp, sha>>
          \/ at[a] = Commit /\ cp' = [cp EXCEPT ![a][at[a]] = "completed"]
          \/ at[a] # Commit /\ UNCHANGED sha /\ \E r : cp' = [cp EXCEPT ![a][at[a]] = r]
      <4>1. \/ UNCHANGED <<cp, sha>>
            \/ /\ \E r : cp' = [cp EXCEPT ![a][at[a]] = r]
               /\ (proc[a] = "ok" => cp' = [cp EXCEPT ![a][at[a]] = "completed"])
               /\ at[a] = Commit => proc[a] = "ok"
               /\ at[a] # Commit => sha' = [sha EXCEPT ![a] = sha[a]]
        BY <1>5, CommitOps DEF CompleteCheckpoint
      <4>2. sha = [sha EXCEPT ![a] = sha[a]]
        BY CommitFacts
      <4> QED  BY <4>1, <4>2
    <3> QED  BY <3>1, <3>2, <3>3, <3>4
  <2> QED  BY <1>k, <1>m, <2>1, <2>2, <2>3, <2>4
<1>6. CASE Materialize(a)
  <2>1. at'[a] = Terminal /\ wpc'[a] \in {"gone", "failing"} /\ UNCHANGED sha
    BY <1>6, CommitFacts DEF Materialize, Goto
  <2>2. \A b \in Attempt : cp'[b][Commit] = cp[b][Commit]
    BY <1>6, CommitFacts, CommitOps DEF Materialize
  <2> QED  BY <1>k, <1>m, <2>1, <2>2, CommitOps
<1>7. CASE WorkerFails(a)
  <2>1. at'[a] = at[a] /\ wpc[a] = "failing" /\ wpc'[a] = "gone" /\ UNCHANGED <<sha, proc>>
    BY <1>7, CommitFacts DEF WorkerFails, Goto
  <2>2. \A b \in Attempt : cp[b][Commit] = "completed" => cp'[b][Commit] = "completed"
    BY <1>7, CommitFacts DEF WorkerFails
  <2> QED  BY <1>k, <1>m, <2>1, <2>2
<1>8. CASE WorkerThrows(a) \/ WorkerCrash(a)
  <2>1. at'[a] = at[a] /\ wpc'[a] \in {"failing", "gone"} /\ UNCHANGED <<sha, cp>>
        /\ (at[a] = Commit => proc'[a] = "none")
    BY <1>8, CommitFacts DEF WorkerThrows, WorkerCrash, Goto, storeVars
  <2> QED  BY <1>k, <1>m, <2>1
<1> QED  BY <1>1, <1>2, <1>3, <1>4, <1>5, <1>6, <1>7, <1>8 DEF WorkerProgress

LEMMA CommitProcess ==
  ASSUME IInv, EffectsInv, CommitInv,
         \/ \E a \in Attempt : ProcessProgress(a) \/ PrimeEdits(a) \/ OrphanEnds(a)
         \/ Edit \/ Interrupt
  PROVE  CommitInv'
<1>0. UNCHANGED <<current, plan, sha, offers, wpc, at, client>>
  BY DEF ProcessProgress, AddWorktree, PrimeAnswers, GateEnds, GitAdds, GitCommits, PrimeEdits,
     OrphanEnds, Edit, Interrupt, storeVars, worldVars, workerVars
<1>c. CommitKnown'
  <2>1. \A b \in Attempt : cp[b][Commit] = "completed" => cp'[b][Commit] = "completed"
    BY CommitFacts DEF ProcessProgress, AddWorktree, PrimeAnswers, GateEnds, GitAdds, GitCommits,
       PrimeEdits, OrphanEnds, Edit, Interrupt, storeVars
  <2> QED  BY <1>0, <2>1 DEF CommitInv, CommitKnown, BeforeCommit
\* To the rest only a process of the commit matters.
<1>k. ASSUME UNCHANGED head,
             \A b \in Attempt : at[b] = Commit => proc'[b] = proc[b]
                                                \/ (proc'[b] = "none" /\ ~WorkerAlive(b))
      PROVE  CommitInv'
  <2>1. Attended'
    BY <1>0, <1>k DEF CommitInv, Attended
  <2>2. CommitAhead' /\ CommitOnce'
    BY <1>0, <1>k DEF CommitInv, CommitAhead, CommitOnce, WorkerAlive
  <2> QED  BY <1>c, <2>1, <2>2 DEF CommitInv
<1>1. ASSUME NEW a \in Attempt, AddWorktree(a) \/ PrimeAnswers(a)
      PROVE  CommitInv'
  <2>1. at[a] # Commit
    BY <1>1, CommitOps DEF AddWorktree, PrimeAnswers
  <2>2. UNCHANGED head /\ \A b \in Attempt : b # a => proc'[b] = proc[b]
    BY <1>1, CommitFacts DEF AddWorktree, PrimeAnswers, worldVars
  <2> QED  BY <1>k, <2>1, <2>2
<1>2. ASSUME NEW a \in Attempt, OrphanEnds(a)
      PROVE  CommitInv'
  <2>1. /\ UNCHANGED head /\ \A b \in Attempt : b # a => proc'[b] = proc[b]
        /\ proc'[a] = "none" /\ ~WorkerAlive(a)
    BY <1>2, CommitFacts DEF OrphanEnds, worldVars
  <2> QED  BY <1>k, <2>1
<1>3. ASSUME NEW a \in Attempt, PrimeEdits(a) \/ GateEnds(a)
      PROVE  CommitInv'
  <2>1. /\ UNCHANGED head /\ \A b \in Attempt : b # a => proc'[b] = proc[b]
        /\ at[a] = Commit => proc'[a] = proc[a]
    BY <1>3, CommitFacts, CommitOps DEF PrimeEdits, GateEnds, workerVars
  <2> QED  BY <1>k, <2>1
<1>4. ASSUME NEW a \in Attempt, GitAdds(a)
      PROVE  CommitInv'
  <2>1. /\ at[a] = Commit /\ proc[a] = "running" /\ WorkerAlive(a)
        /\ UNCHANGED head
        /\ proc'[a] \in {"ok", "staged"} /\ \A b \in Attempt : b # a => proc'[b] = proc[b]
    BY <1>4, CommitFacts DEF GitAdds
  <2>2. Attended'
    BY <1>0, <2>1 DEF CommitInv, Attended
  <2>3. CommitAhead' /\ CommitOnce'
    BY <1>0, <2>1 DEF CommitInv, CommitAhead, CommitOnce
  <2> QED  BY <1>c, <2>2, <2>3 DEF CommitInv
<1>5. ASSUME NEW a \in Attempt, GitCommits(a)
      PROVE  CommitInv'
  <2>1. /\ at[a] = Commit /\ proc[a] = "staged"
        /\ head' \in {head, head + 1}
        /\ proc'[a] \in {"ok", "bad"} /\ \A b \in Attempt : b # a => proc'[b] = proc[b]
    BY <1>5, CommitFacts DEF GitCommits
  <2>2. wpc[a] = "work" /\ head = 0
    BY <2>1 DEF CommitInv, Attended, CommitAhead
  <2>3. \A b \in Attempt : wpc[b] \in {"begin", "work"} => b = a
    BY <2>2, OnlyCurrent DEF WorkerAlive
  <2>4. Attended'
    BY <1>0, <2>1 DEF CommitInv, Attended
  <2>5. CommitAhead' /\ CommitOnce'
    BY <1>0, <2>1, <2>2, <2>3 DEF CommitAhead, CommitOnce
  <2> QED  BY <1>c, <2>4, <2>5 DEF CommitInv
<1>6. CASE Edit
  <2>1. UNCHANGED <<head, proc>>
    BY <1>6 DEF Edit, workerVars
  <2> QED  BY <1>k, <2>1
<1>7. CASE Interrupt
  <2>1. UNCHANGED <<head, proc>>
    BY <1>7 DEF Interrupt, worldVars, workerVars
  <2> QED  BY <1>k, <2>1
<1> QED  BY <1>1, <1>2, <1>3, <1>4, <1>5, <1>6, <1>7 DEF ProcessProgress

\* What clients do concerns only what is known of commits.
LEMMA CommitElsewhere ==
  ASSUME CommitInv, UNCHANGED <<plan, worldVars, wpc, at, proc>>, CommitKnown'
  PROVE  CommitInv'
BY DEF CommitInv, Attended, CommitAhead, CommitOnce, worldVars

LEMMA SafePlanKnowsCommit ==
  ASSUME IInv, CommitInv, NEW a \in Attempt, SafeToResume(a)
  PROVE  BeforeCommit(ResumePlan(a))
<1>1. /\ ResumePlan(a).next = NextStage(a) /\ ResumePlan(a).commit = sha[a]
      /\ NextStage(a) \in Nat /\ (Done(a, Commit) => Commit < NextStage(a))
      /\ Commit \in Op /\ Commit \in Nat /\ plan[a].next \in Nat
  BY NextIsBeyond, OpFacts, OnceFacts, PlanParts DEF ResumePlan, IInv, TypeOK
<1>2. sha[a] # 0 => Done(a, Commit)
  BY <1>1 DEF CommitInv, CommitKnown, Done, Evidence
<1> QED  BY <1>1, <1>2 DEF BeforeCommit

LEMMA CommitClient ==
  ASSUME IInv, EffectsInv, CommitInv, NEW c \in Client,
         PreviewReads(c) \/ PreviewProgress(c) \/ (\E p \in offers : Confirm(c, p))
  PROVE  CommitInv'
<1>0. /\ client \in [Client -> ClientType] /\ Idle.pc = "idle"
  BY DEF IInv, TypeOK, ClientType, Idle
<1>k. /\ \A b \in Attempt : sha[b] # 0 => plan[b].next > Commit \/ cp[b][Commit] = "completed"
      /\ \A b \in Attempt : BeforeCommit(plan[b])
      /\ \A p \in offers : BeforeCommit(p)
      /\ \A d \in Client : client[d].pc \in {"offer", "consume"} => BeforeCommit(client[d].plan)
  BY DEF CommitInv, CommitKnown
\* A client that has a plan to offer or to consume has one that knows its commit.
<1>p. ASSUME UNCHANGED <<cp, plan, sha, worldVars, workerVars>>,
             NEW C, client' = [client EXCEPT ![c] = C],
             C.pc \in {"offer", "consume"} => BeforeCommit(C.plan),
             \A p \in offers' : BeforeCommit(p)
      PROVE  CommitInv'
  <2>1. CommitKnown'
    BY <1>0, <1>k, <1>p DEF CommitKnown, BeforeCommit
  <2> QED  BY <1>p, <2>1, CommitElsewhere DEF workerVars
<1>1. CASE PreviewReads(c)
  <2> DEFINE C == [Idle EXCEPT !.pc = "assess", !.plan.attempt = current]
  <2>1. C.pc = "assess"
    BY DEF Idle
  <2>2. client' = [client EXCEPT ![c] = C] /\ UNCHANGED <<storeVars, worldVars, workerVars>>
    BY <1>1 DEF PreviewReads
  <2> HIDE DEF C
  <2> QED  BY <1>k, <1>p, <2>1, <2>2 DEF storeVars
<1>2. CASE Assess(c)
  <2> DEFINE pending == Uncertain(client[c].plan.attempt) \intersect Reconcilable
             o == CHOOSE o \in pending : \A p \in pending : o <= p
  <2>1. \E C : client' = [client EXCEPT ![c] = C] /\ C.pc \in {"idle", "reconcile"}
    <3>1. CASE client' = [client EXCEPT ![c] = Idle]
      BY <1>0, <3>1
    <3> HIDE DEF o
    <3>2. ASSUME NEW r \in Resolutions(o),
                 client' = [client EXCEPT ![c].pc = "reconcile", ![c].op = o, ![c].to = r,
                                          ![c].plan.commit = head]
          PROVE  \E C : client' = [client EXCEPT ![c] = C] /\ C.pc \in {"idle", "reconcile"}
      <4> DEFINE C == [client[c] EXCEPT !.pc = "reconcile", !.op = o, !.to = r,
                                        !.plan.commit = head]
      <4>1. C.pc = "reconcile"
        BY <1>0 DEF ClientType
      <4>2. client' = [client EXCEPT ![c] = C]
        BY ONLY <3>2, ZenonT(60)
      <4> HIDE DEF C
      <4> QED  BY <4>1, <4>2
    <3> QED  BY <1>2, <3>1, <3>2 DEF Assess, o
  <2>2. UNCHANGED <<storeVars, worldVars, workerVars>>
    BY <1>2 DEF Assess
  <2> QED  BY <1>k, <1>p, <2>1, <2>2 DEF storeVars
<1>3. CASE Reconcile(c)
  <2> DEFINE a == client[c].plan.attempt
             o == client[c].op
             C == [Idle EXCEPT !.pc = "assess", !.plan.attempt = a]
  <2>1. UNCHANGED <<status, current, plan, offers, worldVars, workerVars>>
    BY <1>3 DEF Reconcile
  <2>2. CASE client' = [client EXCEPT ![c] = Idle] /\ UNCHANGED <<cp, sha>>
    BY <1>0, <1>k, <1>p, <2>1, <2>2
  <2>3. CASE /\ a \in Attempt /\ cp[a][o] = "uncertain"
             /\ cp' = [cp EXCEPT ![a][o] = client[c].to]
             /\ sha' = [sha EXCEPT ![a] =
                  IF o = Commit /\ client[c].to = "completed" THEN client[c].plan.commit ELSE @]
             /\ client' = [client EXCEPT ![c] = C]
    <3>1. C.pc = "assess"
      BY DEF Idle
    <3>2. o \in Op
      BY <1>3, OpFacts DEF Reconcile, IInv, Clients
    <3> HIDE DEF a, o, C
    <3>3. \A b \in Attempt : sha'[b] # 0 => plan[b].next > Commit \/ cp'[b][Commit] = "completed"
      <4>1. CASE o = Commit /\ client[c].to = "completed"
        BY <1>k, <2>3, <3>2, <4>1, CommitFacts
      <4>2. CASE ~(o = Commit /\ client[c].to = "completed")
        <5>1. sha' = sha /\ \A b \in Attempt : cp[b][Commit] = "completed"
                                               => cp'[b][Commit] = "completed"
          BY <2>3, <3>2, <4>2, CommitFacts
        <5> QED  BY <1>k, <5>1
      <4> QED  BY <4>1, <4>2
    <3>4. CommitKnown'
      BY <1>0, <1>k, <2>1, <2>3, <3>1, <3>3 DEF CommitKnown, BeforeCommit
    <3> QED  BY <2>1, <3>4, CommitElsewhere DEF workerVars
  <2> QED  BY <1>3, <2>2, <2>3 DEF Reconcile, IInv, TypeOK
<1>4. CASE Plan(c)
  <2> DEFINE a == client[c].plan.attempt
             C == [Idle EXCEPT !.pc = "offer", !.plan = ResumePlan(a)]
  <2>1. UNCHANGED <<storeVars, worldVars, workerVars>> /\ a \in Attempt
    BY <1>4, AttemptFacts DEF Plan, IInv, TypeOK, Clients
  <2>2. C.plan = ResumePlan(a)
    BY DEF Idle
  <2>3. \/ client' = [client EXCEPT ![c] = Idle]
        \/ SafeToResume(a) /\ client' = [client EXCEPT ![c] = C]
    BY <1>4 DEF Plan
  <2> HIDE DEF a, C
  <2>4. SafeToResume(a) => BeforeCommit(ResumePlan(a))
    BY <2>1, SafePlanKnowsCommit
  <2> QED  BY <1>0, <1>k, <1>p, <2>1, <2>2, <2>3, <2>4 DEF storeVars
<1>5. CASE Offer(c)
  <2>1. /\ UNCHANGED <<cp, plan, sha, worldVars, workerVars>> /\ client[c].pc = "offer"
        /\ client' = [client EXCEPT ![c] = Idle]
        /\ offers' \subseteq offers \union {client[c].plan}
    BY <1>5 DEF Offer
  <2> QED  BY <1>0, <1>k, <1>p, <2>1
<1>6. CASE Consume(c)
  <2>1. CASE UNCHANGED <<storeVars, workerVars>> /\ client' = [client EXCEPT ![c] = Idle]
    <3>1. UNCHANGED worldVars
      BY <1>6 DEF Consume
    <3> QED  BY <1>0, <1>k, <1>p, <2>1, <3>1 DEF storeVars
  <2> DEFINE p == client[c].plan
             n == current + 1
  <2>2. CASE /\ client[c].pc = "consume" /\ n \in Attempt
             /\ plan' = [plan EXCEPT ![n] = p] /\ sha' = [sha EXCEPT ![n] = p.commit]
             /\ offers' = {} /\ wpc' = [wpc EXCEPT ![n] = "queued"]
             /\ at' = [at EXCEPT ![n] = p.next] /\ client' = [client EXCEPT ![c] = Idle]
             /\ UNCHANGED <<cp, proc, worldVars>>
    <3>0. /\ p = client[c].plan /\ n = current + 1 /\ BeforeCommit(p) /\ p.next \in Nat
          /\ proc[n] = "none" /\ current \in Nat
      BY <1>0, <1>k, <2>2, PlanParts, OpFacts DEF ClientType, IInv, TypeOK, Attempts, Ahead
    <3> HIDE DEF p, n
    <3>1. /\ \A b \in Attempt : b # n => /\ at'[b] = at[b] /\ wpc'[b] = wpc[b]
                                        /\ plan'[b] = plan[b] /\ sha'[b] = sha[b]
          /\ at'[n] = p.next /\ wpc'[n] = "queued" /\ plan'[n] = p /\ sha'[n] = p.commit
      BY <2>2, CommitFacts
    <3>2. CommitKnown'
      BY <1>0, <1>k, <2>2, <3>0, <3>1, CommitOps DEF CommitKnown, BeforeCommit
    <3>3. UNCHANGED <<proc, head>>
      BY <2>2 DEF worldVars
    <3>4. Attended' /\ CommitAhead' /\ CommitOnce'
      BY <3>0, <3>1, <3>3 DEF CommitInv, Attended, CommitAhead, CommitOnce
    <3> QED  BY <3>2, <3>4 DEF CommitInv
  <2> QED  BY <1>6, <2>1, <2>2, AttemptFacts DEF Consume, storeVars, worldVars, workerVars,
              IInv, TypeOK
<1>7. ASSUME NEW p \in offers, Confirm(c, p)
      PROVE  CommitInv'
  <2> DEFINE C == [Idle EXCEPT !.pc = "consume", !.plan = p]
  <2>1. C.plan = p
    BY DEF Idle
  <2>2. client' = [client EXCEPT ![c] = C] /\ UNCHANGED <<storeVars, worldVars, workerVars>>
    BY <1>7, Zenon DEF Confirm
  <2> HIDE DEF C
  <2> QED  BY <1>k, <1>p, <2>1, <2>2 DEF storeVars
<1> QED  BY <1>1, <1>2, <1>3, <1>4, <1>5, <1>6, <1>7 DEF PreviewProgress

LEMMA InitCommit == Init => CommitInv
<1> SUFFICES ASSUME Init PROVE CommitInv
  OBVIOUS
<1>1. /\ offers = {} /\ head = 0
      /\ \A a \in Attempt : /\ sha[a] = 0 /\ proc[a] = "none" /\ plan[a].commit = 0
                           /\ wpc[a] \notin {"begin", "work"}
      /\ \A c \in Client : client[c].pc = "idle"
  BY DEF Init, NoPlan, Idle
<1> QED  BY <1>1 DEF CommitInv, Attended, CommitKnown, BeforeCommit, CommitAhead, CommitOnce

LEMMA CommitStep ==
  ASSUME ~GitSurvives, IInv, EffectsInv, CommitInv, [Next]_vars
  PROVE  CommitInv'
<1>1. ASSUME NEW a \in Attempt, WorkerProgress(a) \/ WorkerThrows(a) \/ WorkerCrash(a)
      PROVE  CommitInv'
  BY <1>1, CommitWorker
<1>2. CASE \/ \E a \in Attempt : ProcessProgress(a) \/ PrimeEdits(a) \/ OrphanEnds(a)
           \/ Edit \/ Interrupt
  BY <1>2, CommitProcess
<1>3. ASSUME NEW c \in Client,
             PreviewReads(c) \/ PreviewProgress(c) \/ (\E p \in offers : Confirm(c, p))
      PROVE  CommitInv'
  BY <1>3, CommitClient
<1>4. CASE UNCHANGED vars
  BY <1>4 DEF CommitInv, Attended, CommitKnown, BeforeCommit, CommitAhead, CommitOnce, vars, storeVars, worldVars, workerVars
<1> QED  BY <1>1, <1>2, <1>3, <1>4 DEF Next

-----------------------------------------------------------------------------
(* What a resumed worker commits *)

\* While the worker of an attempt that skips to the commit is at work and nobody has
\* edited since it began, the files are those of the plan, and so is what it has staged.
AsConfirmed ==
  \A a \in Attempt :
    plan[a].next = Commit /\ wpc[a] \in {"begin", "work"} /\ a \notin touched =>
      /\ files = plan[a].snapshot[2]
      /\ at[a] = Commit /\ proc[a] = "staged" => index = plan[a].snapshot[2]

\* No process of Prime or a gate is left when an attempt that skips them is at work.
LEMMA NothingEdits ==
  ASSUME IInv, EffectsInv, NEW a \in Attempt,
         agent[a] \/ (at[a] \in Gates /\ proc[a] = "running"),
         NEW b \in Attempt, plan[b].next = Commit, wpc[b] \in {"begin", "work"}
  PROVE  FALSE
<1>1. b = current /\ at[b] >= Commit
  BY OnlyCurrent DEF WorkerAlive, IInv, Attempts, Forward
<1>2. /\ current \in Nat /\ a \in Nat /\ at[current] \in Nat /\ Commit \in Nat /\ Commit > 4
      /\ Prime = 3 /\ Quiesce = 4 /\ \A o \in Gates : o < Commit
  BY CommitFacts, CommitOps, OpFacts DEF IInv, TypeOK
<1>3. CASE agent[a]
  <2>1. a = current
    BY <1>2, <1>3 DEF IInv, Attempts, Ahead, Behind
  <2>2. at[a] \in {Prime, Quiesce}
    BY <1>3 DEF IInv, Attempts, Trail, TrailOf
  <2> QED  BY <1>1, <1>2, <2>1, <2>2
<1>4. CASE at[a] \in Gates /\ proc[a] = "running"
  <2>1. a = current
    BY <1>4 DEF EffectsInv, Underway, Once
  <2> QED  BY <1>1, <1>2, <1>4, <2>1, CommitOps
<1> QED  BY <1>3, <1>4

\* A step that leaves files and index alone, and begins or stages nothing, keeps it.
LEMMA ConfirmedFrame ==
  ASSUME AsConfirmed, UNCHANGED <<plan, files, index, touched>>,
         \A b \in Attempt : wpc'[b] \in {"begin", "work"} => wpc[b] \in {"begin", "work"},
         \A b \in Attempt : at'[b] = Commit /\ proc'[b] = "staged"
                            => at[b] = Commit /\ proc[b] = "staged"
  PROVE  AsConfirmed'
BY DEF AsConfirmed

LEMMA ConfirmedWorker ==
  ASSUME IInv, EffectsInv, AsConfirmed, NEW a \in Attempt,
         WorkerProgress(a) \/ WorkerThrows(a) \/ WorkerCrash(a)
  PROVE  AsConfirmed'
<1>1. UNCHANGED <<plan, files, index, touched>>
  BY DEF WorkerProgress, WorkerStarts, BeginCheckpoint, StartProcess, QuiesceAgent,
     CompleteCheckpoint, Materialize, WorkerFails, WorkerThrows, WorkerCrash, storeVars, worldVars
<1>2. \A b \in Attempt \ {a} : wpc'[b] = wpc[b] /\ at'[b] = at[b] /\ proc'[b] = proc[b]
  BY CommitFacts DEF WorkerProgress, WorkerStarts, BeginCheckpoint, StartProcess, QuiesceAgent,
     CompleteCheckpoint, Materialize, WorkerFails, WorkerThrows, WorkerCrash, Goto
<1>3. CASE WorkerStarts(a)
  <2>1. proc' = proc /\ proc[a] = "none"
    BY <1>3, CommitFacts DEF WorkerStarts
  <2>2. CASE PlanHolds(plan[a])
    <3>1. plan[a].next = Commit => Snapshot = plan[a].snapshot
      BY <2>2, CommitOps DEF PlanHolds
    <3>2. Snapshot[2] = files
      BY DEF Snapshot
    <3> QED  BY <1>1, <1>2, <2>1, <3>1, <3>2 DEF AsConfirmed
  <2>3. CASE ~PlanHolds(plan[a])
    <3>1. wpc'[a] = "failing"
      BY <1>3, <2>3, CommitFacts DEF WorkerStarts, Goto
    <3> QED  BY <1>1, <1>2, <2>1, <3>1 DEF AsConfirmed
  <2> QED  BY <2>2, <2>3
<1>4. CASE BeginCheckpoint(a) \/ StartProcess(a) \/ QuiesceAgent(a)
  <2>1. /\ wpc[a] \in {"begin", "work"} /\ at'[a] = at[a]
        /\ proc'[a] \in {proc[a], "bad", "running", "ok"}
    BY <1>4, CommitFacts DEF BeginCheckpoint, StartProcess, QuiesceAgent, Goto
  <2> QED  BY <1>1, <1>2, <2>1, ConfirmedFrame
<1>5. CASE CompleteCheckpoint(a) \/ WorkerThrows(a)
  <2>1. wpc[a] \in {"begin", "work"} /\ proc'[a] = "none"
    BY <1>5, CommitFacts DEF CompleteCheckpoint, WorkerThrows
  <2> QED  BY <1>1, <1>2, <2>1, ConfirmedFrame
<1>6. CASE Materialize(a) \/ WorkerFails(a) \/ WorkerCrash(a)
  <2>1. wpc'[a] \notin {"begin", "work"}
    BY <1>6, CommitFacts DEF Materialize, WorkerFails, WorkerCrash, Goto
  <2>2. at'[a] = at[a] /\ proc'[a] \in {proc[a], "none"}
    BY <1>6, CommitFacts DEF Materialize, WorkerFails, WorkerCrash, Goto
  <2> QED  BY <1>1, <1>2, <2>1, <2>2, ConfirmedFrame
<1> QED  BY <1>3, <1>4, <1>5, <1>6 DEF WorkerProgress

LEMMA ConfirmedProcess ==
  ASSUME IInv, EffectsInv, AsConfirmed,
         \/ \E a \in Attempt : ProcessProgress(a) \/ PrimeEdits(a) \/ OrphanEnds(a)
         \/ Edit \/ Interrupt
  PROVE  AsConfirmed'
<1>0. UNCHANGED <<plan, wpc, at>>
  BY DEF ProcessProgress, AddWorktree, PrimeAnswers, GateEnds, GitAdds, GitCommits, PrimeEdits,
     OrphanEnds, Edit, Interrupt, storeVars, worldVars, workerVars
<1>1. ASSUME NEW a \in Attempt,
             AddWorktree(a) \/ PrimeAnswers(a) \/ OrphanEnds(a) \/ GitCommits(a)
      PROVE  AsConfirmed'
  <2>1. /\ UNCHANGED <<files, index, touched>>
        /\ \A b \in Attempt : proc'[b] = "staged" => proc[b] = "staged"
    BY <1>1, CommitFacts DEF AddWorktree, PrimeAnswers, OrphanEnds, GitCommits, worldVars
  <2> QED  BY <1>0, <2>1, ConfirmedFrame
<1>2. ASSUME NEW a \in Attempt, PrimeEdits(a) \/ GateEnds(a)
      PROVE  AsConfirmed'
  <2>1. agent[a] \/ (at[a] \in Gates /\ proc[a] = "running")
    BY <1>2 DEF PrimeEdits, GateEnds
  <2>2. \A b \in Attempt : ~(plan[b].next = Commit /\ wpc[b] \in {"begin", "work"})
    BY <2>1, NothingEdits
  <2> QED  BY <1>0, <2>2 DEF AsConfirmed
<1>3. ASSUME NEW a \in Attempt, GitAdds(a)
      PROVE  AsConfirmed'
  <2>1. WorkerAlive(a) /\ index' = files /\ UNCHANGED <<files, touched>>
    BY <1>3 DEF GitAdds
  <2>2. \A b \in Attempt : wpc[b] \in {"begin", "work"} => b = a
    BY <2>1, OnlyCurrent DEF WorkerAlive
  <2> QED  BY <1>0, <2>1, <2>2 DEF AsConfirmed
<1>4. CASE Edit
  <2>1. \A b \in Attempt : wpc[b] \in {"begin", "work"} => b \in touched'
    BY <1>4 DEF Edit
  <2> QED  BY <1>0, <2>1 DEF AsConfirmed
<1>5. CASE Interrupt
  BY <1>0, <1>5, ConfirmedFrame DEF Interrupt, worldVars, workerVars
<1> QED  BY <1>1, <1>2, <1>3, <1>4, <1>5 DEF ProcessProgress

LEMMA ConfirmedClient ==
  ASSUME IInv, EffectsInv, AsConfirmed, NEW c \in Client,
         PreviewReads(c) \/ PreviewProgress(c) \/ (\E p \in offers : Confirm(c, p))
  PROVE  AsConfirmed'
<1>1. CASE UNCHANGED <<plan, worldVars, workerVars>>
  BY <1>1, ConfirmedFrame DEF worldVars, workerVars
<1>2. CASE Consume(c)
  <2> DEFINE p == client[c].plan
             n == current + 1
  <2>1. CASE /\ n \in Attempt
             /\ plan' = [plan EXCEPT ![n] = p] /\ wpc' = [wpc EXCEPT ![n] = "queued"]
             /\ at' = [at EXCEPT ![n] = p.next]
             /\ UNCHANGED <<proc, worldVars>>
    <3> HIDE DEF p, n
    <3>1. /\ \A b \in Attempt : b # n => at'[b] = at[b] /\ wpc'[b] = wpc[b] /\ plan'[b] = plan[b]
          /\ wpc'[n] = "queued"
      BY <2>1, CommitFacts
    <3> QED  BY <2>1, <3>1 DEF AsConfirmed, worldVars
  <2> QED  BY <1>1, <1>2, <2>1, AttemptFacts DEF Consume, worldVars, workerVars, IInv, TypeOK
<1>3. CASE \/ PreviewReads(c) \/ Assess(c) \/ Reconcile(c) \/ Plan(c) \/ Offer(c)
           \/ \E p \in offers : Confirm(c, p)
  BY <1>1, <1>3 DEF PreviewReads, Assess, Reconcile, Plan, Offer, Confirm, storeVars
<1> QED  BY <1>2, <1>3 DEF PreviewProgress

LEMMA ConfirmedStep ==
  ASSUME IInv, EffectsInv, AsConfirmed, [Next]_vars
  PROVE  AsConfirmed'
<1>1. CASE UNCHANGED vars
  BY <1>1, ConfirmedFrame DEF vars, storeVars, worldVars, workerVars
<1> QED  BY <1>1, ConfirmedWorker, ConfirmedProcess, ConfirmedClient DEF Next

-----------------------------------------------------------------------------
(* The refinement *)

EffectNo == 1..(NGates + 2)

LEMMA EffectFacts ==
  /\ \A e \in EffectNo : EffectOp(e) \in Once \union {Commit}
  /\ \A o \in Once \union {Commit} : \E e \in EffectNo : EffectOp(e) = o
  /\ \A e \in EffectNo, d \in EffectNo : d # e => EffectOp(d) # EffectOp(e)
  /\ \A e \in EffectNo, d \in EffectNo : d < e => EffectOp(d) \in Once /\ EffectOp(d) < EffectOp(e)
  /\ EffectNo \subseteq Nat /\ \A e \in EffectNo : 1..(e - 1) \subseteq EffectNo
<1> USE BoundsAssumption DEF EffectNo, Once, EffectOp, Prime, Gates, Commit
<1>1. ASSUME NEW o \in Once \union {Commit}
      PROVE  \E e \in EffectNo : EffectOp(e) = o
  <2>1. CASE o = Prime
    <3>1. 1 \in EffectNo
      OBVIOUS
    <3> QED  BY <2>1, <3>1
  <2>2. CASE o # Prime
    <3>1. o - 3 \in EffectNo /\ o - 3 # 1
      BY <2>2
    <3>2. EffectOp(o - 3) = o
      BY <2>2, <3>1
    <3> QED  BY <3>1, <3>2
  <2> QED  BY <2>1, <2>2
<1>2. \A e \in EffectNo : EffectOp(e) = IF e = 1 THEN 3 ELSE e + 3
  OBVIOUS
<1> QED  BY <1>1, <1>2

Completed(o) == \E a \in Attempt : cp[a][o] = "completed"
Failed(o) == \E a \in Attempt : cp[a][o] = "failed"

\* The phase of an operation, without repetition.
LEMMA PhaseIs ==
  ASSUME EffectsInv, CommitOnce, IInv, NEW o \in Once \union {Commit}
  PROVE  Phase(o) = IF Failed(o) THEN "failed" ELSE IF Completed(o) THEN "done"
                    ELSE IF runs[o] > 0 THEN "begun" ELSE "none"
<1>1. o # Commit => runs[o] <= 1 /\ runs[o] \in Nat
  BY OnceFacts DEF EffectsInv, Ran, IInv, TypeOK
<1>2. head \in Nat /\ head <= 1
  BY DEF IInv, TypeOK, CommitOnce
<1> QED  BY <1>1, <1>2 DEF Phase, Failed, Completed

Phases == [e \in EffectNo |-> Phase(EffectOp(e))]
Verdict == IF status \in {"succeeded", "failed"} THEN status ELSE "open"

\* A step in which one operation changes its phase.
LEMMA OnePhase ==
  ASSUME NEW o \in Once \union {Commit}, NEW r,
         \A q \in Once \union {Commit} : q # o => Phase(q)' = Phase(q),
         Phase(o)' = r
  PROVE  \E e \in EffectNo : /\ EffectOp(e) = o
                             /\ Phases[e] = Phase(o)
                             /\ Phases' = [Phases EXCEPT ![e] = r]
<1>1. PICK e \in EffectNo : EffectOp(e) = o
  BY EffectFacts
<1>2. \A d \in EffectNo : Phase(EffectOp(d))' = IF d = e THEN r ELSE Phase(EffectOp(d))
  BY <1>1, EffectFacts
<1>3. Phases' = [d \in EffectNo |-> Phase(EffectOp(d))']
  BY DEF Phases
<1> QED  BY <1>1, <1>2, <1>3 DEF Phases

LEMMA PhasesKept ==
  ASSUME \A o \in Once \union {Commit} : Phase(o)' = Phase(o)
  PROVE  Phases' = Phases
<1>1. \A e \in EffectNo : Phase(EffectOp(e))' = Phase(EffectOp(e))
  BY EffectFacts
<1> QED  BY <1>1 DEF Phases

\* The same of the next state.
LEMMA NextPhaseIs ==
  ASSUME EffectsInv', CommitOnce', IInv', NEW o \in Once \union {Commit}
  PROVE  Phase(o)' = IF Failed(o)' THEN "failed" ELSE IF Completed(o)' THEN "done"
                     ELSE IF runs'[o] > 0 THEN "begun" ELSE "none"
<1>1. o # Commit => runs'[o] <= 1 /\ runs'[o] \in Nat
  BY OnceFacts DEF EffectsInv, Ran, IInv, TypeOK
<1>2. head' \in Nat /\ head' <= 1
  BY DEF IInv, TypeOK, CommitOnce
<1> QED  BY <1>1, <1>2 DEF Phase, Failed, Completed

\* Nothing a phase depends on changes.
LEMMA PhaseKept ==
  ASSUME EffectsInv, CommitOnce, IInv, EffectsInv', CommitOnce', IInv',
         NEW o \in Once \union {Commit}, runs[o] > 0 <=> runs'[o] > 0,
         \A a \in Attempt : /\ cp'[a][o] = "failed" <=> cp[a][o] = "failed"
                            /\ cp'[a][o] = "completed" <=> cp[a][o] = "completed"
  PROVE  Phase(o)' = Phase(o)
<1>1. Failed(o)' = Failed(o) /\ Completed(o)' = Completed(o)
  BY DEF Failed, Completed
<1> QED  BY <1>1, PhaseIs, NextPhaseIs

\* What came before an operation a worker is at is done.
LEMMA EarlierDone ==
  ASSUME IInv, EffectsInv, CommitOnce, wpc[current] = "work",
         NEW o \in Once \union {Commit}, o < at[current]
  PROVE  Phase(o) = "done"
<1>1. Completed(o)
  BY DEF EffectsInv, Passed, Settles, Completed, IInv, TypeOK
<1>2. ~Failed(o)
  BY DEF EffectsInv, Recorded, Failed
<1> QED  BY <1>1, <1>2, PhaseIs

\* An operation under way has begun, and nothing is known of it.
LEMMA UnderWay ==
  ASSUME IInv, EffectsInv, CommitOnce, wpc[current] = "work",
         at[current] \in Once \union {Commit}, proc[current] # "none"
  PROVE  /\ Phase(at[current]) \in {"begun", "done"}
         /\ at[current] \in Gates => Phase(at[current]) = "begun"
         /\ runs[at[current]] > 0
<1>1. runs[at[current]] > 0
  BY DEF EffectsInv, Underway, IInv, TypeOK
<1>2. ~Failed(at[current])
  BY DEF EffectsInv, Recorded, Failed
<1>3. at[current] \in Gates => ~Completed(at[current])
  <2>1. at[current] \in Gates => at[current] \in Once /\ at[current] \in Nat /\ at[current] < Commit
    BY OpFacts DEF Once
  <2> QED  BY <2>1 DEF EffectsInv, Recorded, Completed
<1> QED  BY <1>1, <1>2, <1>3, PhaseIs

\* A step in which nothing of the promise changes, and one that ends an operation.
LEMMA PromiseKept ==
  ASSUME Verdict' = Verdict, \A o \in Once \union {Commit} : Phase(o)' = Phase(o)
  PROVE  UNCHANGED <<Phases, Verdict>>
BY PhasesKept

LEMMA PromiseEnds ==
  ASSUME Verdict' = Verdict, NEW o \in Once \union {Commit}, NEW r \in {"done", "failed"},
         \A q \in Once \union {Commit} : q # o => Phase(q)' = Phase(q),
         Phase(o) = "begun", Phase(o)' = r
  PROVE  [Promise!PromiseNext]_<<Phases, Verdict>>
<1>1. PICK e \in EffectNo : Phases[e] = "begun" /\ Phases' = [Phases EXCEPT ![e] = r]
  BY OnePhase
<1>2. Promise!End(e, r)
  BY <1>1 DEF Promise!End, Phases, Verdict, EffectNo
<1> QED  BY <1>2 DEF Promise!PromiseNext, EffectNo

Step == [Promise!PromiseNext]_<<Phases, Verdict>>

LEMMA WorkerRefines ==
  ASSUME IInv, EffectsInv, CommitOnce, IInv', EffectsInv', CommitOnce', NEW a \in Attempt,
         WorkerProgress(a) \/ WorkerThrows(a) \/ WorkerCrash(a)
  PROVE  Step
<1>t. /\ current \in Attempt /\ cp \in [Attempt -> [Op -> CpStatuses]] /\ at \in [Attempt -> Op]
      /\ runs \in [Op -> Nat] /\ Once \union {Commit} \subseteq Op /\ Terminal \notin Once
      /\ Terminal # Commit /\ at[a] \in Nat
  <2>1. /\ current \in Attempt /\ cp \in [Attempt -> [Op -> CpStatuses]] /\ at \in [Attempt -> Op]
        /\ runs \in [Op -> Nat]
    BY DEF IInv, TypeOK
  <2>2. Once \union {Commit} \subseteq Op /\ Terminal \notin Once /\ Terminal # Commit
    BY OpFacts, OnceFacts
  <2> QED  BY <2>1, <2>2, OpFacts
<1>0. WorkerAlive(a) /\ a = current
  <2>1. WorkerAlive(a)
    BY DEF WorkerProgress, WorkerStarts, BeginCheckpoint, StartProcess, QuiesceAgent,
           CompleteCheckpoint, Materialize, WorkerFails, WorkerThrows, WorkerCrash, WorkerAlive
  <2> QED  BY <2>1, OnlyCurrent
<1> USE <1>t DEF Goto, storeVars, worldVars, workerVars
<1>k. ASSUME Verdict' = Verdict, runs' = runs,
             \A b \in Attempt, o \in Once \union {Commit} :
               /\ cp'[b][o] = "failed" <=> cp[b][o] = "failed"
               /\ cp'[b][o] = "completed" <=> cp[b][o] = "completed"
      PROVE  Step
  BY <1>k, PhaseKept, PromiseKept DEF Step
<1>1. CASE WorkerStarts(a) \/ QuiesceAgent(a) \/ WorkerThrows(a) \/ WorkerCrash(a)
  BY <1>k, <1>1 DEF WorkerStarts, QuiesceAgent, WorkerThrows, WorkerCrash, Verdict
<1>2. CASE BeginCheckpoint(a)
  <2>1. \A b \in Attempt, o \in Op : cp'[b][o] = cp[b][o] \/ (cp[b][o] = "none" /\ cp'[b][o] = "started")
    BY <1>2 DEF BeginCheckpoint
  <2> QED  BY <1>k, <1>2, <2>1 DEF BeginCheckpoint, Verdict
<1>3. CASE StartProcess(a)
  <2>1. /\ UNCHANGED <<cp, status>> /\ wpc[a] = "work" /\ proc[a] = "none"
        /\ \A o \in Op : runs'[o] = IF o = at[a] THEN runs[o] + 1 ELSE runs[o]
    BY <1>3 DEF StartProcess
  <2>2. CASE at[a] \notin Once \union {Commit} \/ (at[a] = Commit /\ runs[Commit] > 0)
    <3>1. \A o \in Once \union {Commit} : runs[o] > 0 <=> runs'[o] > 0
      BY <2>1, <2>2
    <3> QED  BY <2>1, <3>1, PhaseKept, PromiseKept DEF Step, Verdict
  <2>3. CASE at[a] \in Once \/ (at[a] = Commit /\ ~(runs[Commit] > 0))
    <3>1. at[a] \in Once \union {Commit} /\ ~(runs[at[a]] > 0) /\ runs'[at[a]] > 0
      BY <1>0, <2>1, <2>3 DEF EffectsInv, Ran
    <3>2. ~Failed(at[a]) /\ ~Completed(at[a])
      BY <3>1 DEF EffectsInv, Recorded, Failed, Completed
    <3>3. Phase(at[a]) = "none"
      BY <3>1, <3>2, PhaseIs
    <3>4. Failed(at[a])' = Failed(at[a]) /\ Completed(at[a])' = Completed(at[a])
      BY <1>3 DEF StartProcess, Failed, Completed
    <3>5. PICK o \in Once \union {Commit} : o = at[a]
      BY <3>1
    <3>6. ~Failed(o)' /\ ~Completed(o)' /\ runs'[o] > 0
      BY <2>1, <3>1, <3>2, <3>5 DEF Failed, Completed
    <3>7. Phase(o)' = "begun"
      BY <3>6, NextPhaseIs
    <3>8. \A q \in Once \union {Commit} : q # o => Phase(q)' = Phase(q)
      <4> SUFFICES ASSUME NEW q \in Once \union {Commit}, q # o PROVE Phase(q)' = Phase(q)
        OBVIOUS
      <4>1. runs[q] > 0 <=> runs'[q] > 0
        BY <2>1, <3>5
      <4> QED  BY <2>1, <4>1, PhaseKept
    <3>9. PICK e \in EffectNo : /\ EffectOp(e) = o /\ Phases[e] = "none"
                               /\ Phases' = [Phases EXCEPT ![e] = "begun"]
      BY <3>3, <3>5, <3>7, <3>8, OnePhase
    <3>10. \A d \in 1..(e - 1) : Phases[d] = "done"
      <4> SUFFICES ASSUME NEW d \in 1..(e - 1) PROVE Phases[d] = "done"
        OBVIOUS
      <4>1. d \in EffectNo /\ d < e
        BY EffectFacts
      <4>2. EffectOp(d) \in Once /\ EffectOp(d) < at[a]
        BY <3>5, <3>9, <4>1, EffectFacts
      <4>3. Phase(EffectOp(d)) = "done"
        BY <1>0, <2>1, <4>2, EarlierDone
      <4> QED  BY <4>1, <4>3 DEF Phases
    <3>11. Verdict = "open" /\ Verdict' = Verdict
      BY <1>0, <2>1 DEF EffectsInv, Underway, Verdict
    <3>12. Promise!Begin(e)
      BY <3>9, <3>10, <3>11 DEF Promise!Begin, Phases, Verdict, EffectNo
    <3> QED  BY <3>12 DEF Step, Promise!PromiseNext, EffectNo
  <2> QED  BY <2>2, <2>3
<1>4. CASE CompleteCheckpoint(a)
  <2>1. /\ UNCHANGED <<runs, status>> /\ wpc[a] = "work"
        /\ at[a] \in Once \union {Commit} => proc[a] # "none"
    BY <1>4, OnceFacts, OpFacts DEF CompleteCheckpoint
  <2>2. \/ cp' = cp
        \/ cp' = [cp EXCEPT ![a][at[a]] = "completed"]
        \/ at[a] \in Gates /\ cp' = [cp EXCEPT ![a][at[a]] = "failed"]
    BY <1>4 DEF CompleteCheckpoint
  <2>3. CASE cp' = cp
    BY <1>k, <2>1, <2>3 DEF Verdict
  <2>4. CASE at[a] \notin Once \union {Commit}
    <3>1. \A b \in Attempt, o \in Once \union {Commit} : cp'[b][o] = cp[b][o]
      BY <2>2, <2>4, OpFacts DEF Once
    <3> QED  BY <1>k, <2>1, <3>1 DEF Verdict
  <2>5. CASE at[a] \in Once \union {Commit} /\ cp' # cp
    <3>1. PICK o \in Once \union {Commit} : o = at[a]
      BY <2>5
    <3>2. PICK r \in {"completed", "failed"} :
            cp' = [cp EXCEPT ![a][o] = r] /\ (r = "failed" => o \in Gates)
      BY <2>2, <2>5, <3>1
    <3>3. /\ Phase(o) \in {"begun", "done"} /\ (o \in Gates => Phase(o) = "begun")
          /\ runs'[o] > 0
      BY <1>0, <2>1, <2>5, <3>1, UnderWay
    <3>4. /\ cp'[a][o] = r
          /\ \A b \in Attempt : b # a => cp'[b][o] = cp[b][o]
          /\ \A q \in Once \union {Commit}, b \in Attempt : q # o => cp'[b][q] = cp[b][q]
      BY <3>2
    <3>5. \A q \in Once \union {Commit} : q # o => Phase(q)' = Phase(q)
      BY <2>1, <3>4, PhaseKept
    <3>6. ~Failed(o)
      BY <1>0, <2>1 DEF EffectsInv, Recorded, Failed
    <3>7. Phase(o)' = IF r = "failed" THEN "failed" ELSE "done"
      <4>1. Failed(o)' <=> r = "failed"
        BY <3>4, <3>6 DEF Failed
      <4>2. r = "completed" => Completed(o)'
        BY <3>4 DEF Completed
      <4> QED  BY <4>1, <4>2, NextPhaseIs
    <3>8. Verdict' = Verdict
      BY <2>1 DEF Verdict
    <3>9. CASE Phase(o) = "begun"
      <4>1. PICK s \in {"done", "failed"} : Phase(o)' = s
        BY <3>7
      <4> QED  BY <3>5, <3>8, <3>9, <4>1, PromiseEnds DEF Step
    <3>10. CASE Phase(o) = "done"
      <4>1. Phase(o)' = Phase(o)
        BY <3>2, <3>3, <3>7, <3>10
      <4> QED  BY <3>5, <3>8, <4>1, PromiseKept DEF Step
    <3> QED  BY <3>3, <3>9, <3>10
  <2> QED  BY <2>3, <2>4, <2>5
<1>5. CASE Materialize(a)
  <2>1. /\ UNCHANGED runs /\ wpc[a] = "work" /\ at[a] = Terminal
        /\ \A b \in Attempt, o \in Once \union {Commit} : cp'[b][o] = cp[b][o]
    BY <1>5 DEF Materialize
  <2>2. CASE status' = status
    BY <1>k, <2>1, <2>2 DEF Verdict
  <2>3. CASE status = "live" /\ status' = "succeeded"
    <3>1. \A o \in Once \union {Commit} : Phase(o)' = Phase(o)
      BY <2>1, PhaseKept
    <3>2. \A o \in Once \union {Commit} : Phase(o) = "done"
      BY <1>0, <2>1, EarlierDone, OnceFacts
    <3>3. Phases' = Phases /\ \A e \in EffectNo : Phases[e] = "done"
      BY <3>1, <3>2, PhasesKept, EffectFacts DEF Phases
    <3>4. Promise!Conclude("succeeded")
      BY <2>3, <3>3 DEF Promise!Conclude, Phases, EffectNo
    <3> QED  BY <3>4 DEF Step, Promise!PromiseNext
  <2> QED  BY <1>5, <2>2, <2>3 DEF Materialize, IsActive
<1>6. CASE WorkerFails(a)
  <2>1. /\ UNCHANGED runs
        /\ \A b \in Attempt, o \in Op : cp'[b][o] = cp[b][o]
                                      \/ (cp[b][o] = "started" /\ cp'[b][o] = "uncertain")
        /\ status' = status \/ (status = "live" /\ status' = "failed")
    BY <1>6 DEF WorkerFails, IsActive
  <2>2. \A b \in Attempt, o \in Once \union {Commit} :
          /\ cp'[b][o] = "failed" <=> cp[b][o] = "failed"
          /\ cp'[b][o] = "completed" <=> cp[b][o] = "completed"
    BY <2>1
  <2>3. CASE status' = status
    BY <1>k, <2>1, <2>2, <2>3 DEF Verdict
  <2>4. CASE status = "live" /\ status' = "failed"
    <3>1. Phases' = Phases
      BY <2>1, <2>2, PhaseKept, PhasesKept
    <3>2. Promise!Conclude("failed")
      BY <2>4, <3>1 DEF Promise!Conclude, Phases, EffectNo
    <3> QED  BY <3>2 DEF Step, Promise!PromiseNext
  <2> QED  BY <2>1, <2>3, <2>4
<1> QED  BY <1>1, <1>2, <1>3, <1>4, <1>5, <1>6 DEF WorkerProgress

LEMMA OthersRefine ==
  ASSUME IInv, EffectsInv, CommitOnce, IInv', EffectsInv', CommitOnce', Next,
         \A a \in Attempt : ~(WorkerProgress(a) \/ WorkerThrows(a) \/ WorkerCrash(a))
  PROVE  Step
<1>t. /\ current \in Attempt /\ cp \in [Attempt -> [Op -> CpStatuses]]
      /\ Once \union {Commit} \subseteq Op
  BY OnceFacts, OpFacts DEF IInv, TypeOK
<1>k. ASSUME Verdict' = Verdict, runs' = runs,
             \A b \in Attempt, o \in Once \union {Commit} :
               /\ cp'[b][o] = "failed" <=> cp[b][o] = "failed"
               /\ cp'[b][o] = "completed" <=> cp[b][o] = "completed"
      PROVE  Step
  BY <1>k, PhaseKept, PromiseKept DEF Step
<1> USE <1>t DEF storeVars, worldVars, workerVars
<1>1. CASE \E a \in Attempt : ProcessProgress(a) \/ PrimeEdits(a) \/ OrphanEnds(a)
  BY <1>k, <1>1 DEF ProcessProgress, AddWorktree, PrimeAnswers, GateEnds, GitAdds, GitCommits,
       PrimeEdits, OrphanEnds, Verdict
<1>2. CASE Edit
  BY <1>k, <1>2 DEF Edit, Verdict
<1>3. CASE Interrupt
  <2>1. \A b \in Attempt, o \in Op : cp'[b][o] = cp[b][o]
                                   \/ (cp[b][o] = "started" /\ cp'[b][o] = "uncertain")
    BY <1>3 DEF Interrupt
  <2>2. UNCHANGED runs /\ Verdict' = Verdict
    BY <1>3 DEF Interrupt, Verdict
  <2> QED  BY <1>k, <2>1, <2>2
<1>4. ASSUME NEW c \in Client,
             \/ PreviewReads(c) \/ Assess(c) \/ Plan(c) \/ Offer(c) \/ Consume(c)
             \/ (\E p \in offers : Confirm(c, p))
      PROVE  Step
  <2>1. UNCHANGED <<cp, runs>> /\ Verdict' = Verdict
    BY <1>4 DEF PreviewReads, Assess, Plan, Offer, Consume, Confirm, Verdict
  <2> QED  BY <1>k, <2>1
<1>5. ASSUME NEW c \in Client, Reconcile(c)
      PROVE  Step
  <2>1. /\ UNCHANGED <<runs, status>>
        /\ client[c].pc = "reconcile" /\ client[c].op \in Reconcilable
        /\ \/ cp' = cp
           \/ /\ cp[current][client[c].op] = "uncertain"
              /\ cp' = [cp EXCEPT ![current][client[c].op] = client[c].to]
        /\ client[c].to \in {"none", "completed", "retryable"}
    BY <1>5 DEF Reconcile, IInv, Clients, TypeOK
  <2>2. CASE cp' = cp
    BY <1>k, <2>1, <2>2 DEF Verdict
  <2>3. CASE client[c].op # Commit \/ client[c].to # "completed"
    <3>1. \A b \in Attempt, o \in Once \union {Commit} :
            cp'[b][o] = cp[b][o]
            \/ (cp[b][o] = "uncertain" /\ cp'[b][o] \in {"none", "retryable"})
      BY <2>1, <2>3, OnceFacts, OpFacts
    <3> QED  BY <1>k, <2>1, <3>1 DEF Verdict
  <2>4. CASE /\ cp[current][Commit] = "uncertain"
             /\ cp' = [cp EXCEPT ![current][Commit] = "completed"] /\ runs[Commit] > 0
    <3>1. /\ cp'[current][Commit] = "completed"
          /\ \A b \in Attempt : cp'[b][Commit] = "failed" <=> cp[b][Commit] = "failed"
          /\ \A b \in Attempt, q \in Once : cp'[b][q] = cp[b][q]
      BY <2>4, OnceFacts
    <3>2. \A q \in Once \union {Commit} : q # Commit => Phase(q)' = Phase(q)
      BY <2>1, <3>1, PhaseKept
    <3>3. ~Failed(Commit) /\ ~Failed(Commit)' /\ Completed(Commit)'
      BY <3>1, OpFacts DEF EffectsInv, Recorded, Failed, Completed
    <3>4. Phase(Commit)' = "done" /\ Phase(Commit) \in {"begun", "done"}
      BY <2>4, <3>3, PhaseIs, NextPhaseIs
    <3>5. Verdict' = Verdict
      BY <2>1 DEF Verdict
    <3>6. CASE Phase(Commit) = "begun"
      BY <3>2, <3>4, <3>5, <3>6, PromiseEnds DEF Step
    <3>7. CASE Phase(Commit) = "done"
      BY <3>2, <3>4, <3>5, <3>7, PromiseKept DEF Step
    <3> QED  BY <3>4, <3>6, <3>7
  <2> QED  BY <2>1, <2>2, <2>3, <2>4 DEF EffectsInv, Tried
<1> QED  BY <1>1, <1>2, <1>3, <1>4, <1>5 DEF Next, PreviewProgress

-----------------------------------------------------------------------------
(* The theorems about effects *)

\* What IInv says of attempts and EffectsInv of their evidence and effects holds in
\* every state, together: the steps of EffectsInv need IInv.
THEOREM EffectsInvariant == Spec => [](IInv /\ EffectsInv)
<1>1. Init => IInv /\ EffectsInv
  BY InitIInv, InitEffects
<1>2. IInv /\ EffectsInv /\ [Next]_vars => (IInv /\ EffectsInv)'
  BY StepIInv, EffectsStep
<1> QED  BY <1>1, <1>2, PTL DEF Spec

\* Prime and each gate are started at most once in the life of a job, whoever edits its
\* worktree (beginCheckpoint, assessSafeResume).
THEOREM NothingRunsTwice == Spec => [](\A o \in {Prime} \union Gates : runs[o] <= 1)
<1>1. EffectsInv => \A o \in {Prime} \union Gates : runs[o] <= 1
  BY DEF EffectsInv, Ran, Once
<1> QED  BY <1>1, EffectsInvariant, PTL

\* A job has at most one commit over its base, whatever an interrupted attempt's commands
\* still do, unless git outlives its worker while others edit the worktree: either
\* assumption will do, for two different reasons.  What nobody edits is committed whole, and
\* git has nothing more to commit (Frozen); and a commit that ends with its worker is made
\* by an attempt that found none (CommitInv).
THEOREM OneCommit ==
  ASSUME ~Editable \/ ~GitSurvives
  PROVE  Spec => []CommitOnce
<1>1. CASE ~Editable
  <2>1. Init => Frozen
    BY InitEffects
  <2>2. IInv /\ EffectsInv /\ Frozen /\ [Next]_vars => Frozen'
    BY <1>1, FrozenStep
  <2>3. Frozen => CommitOnce
    BY DEF Frozen, CommitOnce
  <2> QED  BY <2>1, <2>2, <2>3, EffectsInvariant, PTL DEF Spec
<1>2. CASE ~GitSurvives
  <2>1. IInv /\ EffectsInv /\ CommitInv /\ [Next]_vars => CommitInv'
    BY <1>2, CommitStep
  <2>2. CommitInv => CommitOnce
    BY DEF CommitInv
  <2> QED  BY <2>1, <2>2, InitCommit, EffectsInvariant, PTL DEF Spec
<1> QED  BY <1>1, <1>2

\* Whatever was edited before a resumed worker looked at its worktree, and whatever the git
\* commands and other processes of earlier attempts still do, what it commits are the files
\* its owner confirmed, unless somebody edits while it is at work (resumeConfirmed,
\* assertResumePlanEvidence, finalizeWorktreeCommit).
THEOREM CommitsAsConfirmed == Spec => CommittedUnlessTouched
<1>1. IInv /\ EffectsInv /\ AsConfirmed /\ [Next]_vars => AsConfirmed'
  BY ConfirmedStep
<1>0. Init => AsConfirmed
  BY DEF Init, AsConfirmed
<1>2. ASSUME IInv, AsConfirmed, Next, NEW a \in Attempt,
             CommitsPlan(a), wpc[a] = "work", a \notin touched
      PROVE  committed' = plan[a].snapshot[2]
  <2> USE DEF CommitsPlan
  <2>1. \A b \in Attempt : /\ ~(AddWorktree(b) \/ PrimeAnswers(b) \/ GateEnds(b) \/ GitAdds(b))
                           /\ ~(PrimeEdits(b) \/ OrphanEnds(b))
                           /\ ~(WorkerProgress(b) \/ WorkerThrows(b) \/ WorkerCrash(b))
    BY <1>2 DEF AddWorktree, PrimeAnswers, GateEnds, GitAdds, PrimeEdits, OrphanEnds,
       WorkerProgress, WorkerStarts, BeginCheckpoint, StartProcess, QuiesceAgent,
       CompleteCheckpoint, Materialize, WorkerFails, WorkerThrows, WorkerCrash, worldVars
  <2>2. \A c \in Client : ~(PreviewReads(c) \/ PreviewProgress(c) \/ \E p \in offers : Confirm(c, p))
    BY <1>2 DEF PreviewReads, PreviewProgress, Assess, Reconcile, Plan, Offer, Consume, Confirm,
       worldVars
  <2>3. ~Edit /\ ~Interrupt
    BY <1>2 DEF Edit, Interrupt, worldVars
  <2>4. PICK b \in Attempt : GitCommits(b)
    BY <1>2, <2>1, <2>2, <2>3 DEF Next, ProcessProgress
  <2>5. b = a
    BY <1>2, <2>4 DEF GitCommits, IInv, TypeOK
  <2>6. committed' = index
    BY <1>2, <2>4, <2>5 DEF GitCommits
  <2> QED  BY <1>2, <2>6 DEF AsConfirmed
<1>3. IInv /\ AsConfirmed /\ [Next]_vars
      => [\A a \in Attempt : CommitsPlan(a) /\ wpc[a] = "work" /\ a \notin touched
                             => committed' = plan[a].snapshot[2]]_vars
  BY <1>2
<1> QED  BY <1>0, <1>1, <1>3, EffectsInvariant, PTL DEF Spec, CommittedUnlessTouched

\* Under the assumption of OneCommit, recovery keeps the promise of ADR-0017: effects begin
\* once and in order, and a job succeeds when all of them are done.
THEOREM EffectsPromised ==
  ASSUME ~Editable \/ ~GitSurvives
  PROVE  Spec => EffectsRefined
<1>1. Init => Promise!PromiseInit
  <2> SUFFICES ASSUME Init PROVE Promise!PromiseInit
    OBVIOUS
  <2>1. \A o \in Once \union {Commit} : Phase(o) = "none"
    <3>1. /\ head = 0 /\ \A o \in Op : runs[o] = 0
          /\ \A a \in Attempt, o \in Op : cp[a][o] = "none"
      BY DEF Init
    <3>2. Once \union {Commit} \subseteq Op
      BY OnceFacts, OpFacts
    <3> QED  BY <3>1, <3>2 DEF Phase
  <2>2. \A e \in EffectNo : Phase(EffectOp(e)) = "none"
    BY <2>1, EffectFacts
  <2> QED  BY <2>2 DEF Promise!PromiseInit, Init, EffectNo
<1>2. /\ IInv /\ EffectsInv /\ CommitOnce /\ [Next]_vars
      /\ (IInv /\ EffectsInv)' /\ CommitOnce'
      => [Promise!PromiseNext]_(Promise!promiseVars)
  <2> SUFFICES ASSUME IInv, EffectsInv, CommitOnce, [Next]_vars, IInv', EffectsInv', CommitOnce'
               PROVE  Step
    BY DEF Step, Promise!promiseVars, Phases, Verdict, EffectNo
  <2>1. CASE Next
    BY <2>1, WorkerRefines, OthersRefine
  <2>2. CASE UNCHANGED vars
    BY <2>2 DEF Step, Phases, Verdict, Phase, EffectOp, vars, storeVars, worldVars, workerVars
  <2> QED  BY <2>1, <2>2
<1>3. Spec => []CommitOnce
  BY OneCommit
<1> QED  BY <1>1, <1>2, <1>3, EffectsInvariant, PTL DEF Spec, EffectsRefined, Promise!PromiseSpec
=============================================================================
