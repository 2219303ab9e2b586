--------------------------- MODULE ProcessLockProofs ---------------------------
(***************************************************************************)
(* Proofs about ProcessLock for every set of processes.                    *)
(*                                                                         *)
(* Exclusion rests on a fact about time, that a live process writes its    *)
(* owner file within staleMs of its mkdir (~SlowWriter), and holds until   *)
(* two processes judge the same guard without an owner file (Contended).   *)
(* A process may die at any step, before it named itself in the guard too. *)
(***************************************************************************)
EXTENDS ProcessLock, TLAPS

\* The steps of a process that made the lock or the guard and has not named itself.
Naming == {"own", "spoil"}
NamingGuard == {"own guard", "spoil guard"}

\* The steps of a process inside the guard.
Reclaiming == {"judge lock", "rename lock", "leave guard", "drop guard"}

\* The lock on disk is its maker's until it has an owner, and then its owner's: nobody
\* spoils or reclaims it under a live one (process-lock.ts:59-78).
LockIsKept ==
  /\ \A p \in Proc : pc[p] \in Naming => lock # None /\ lock.owner = None /\ lock.maker = p
  /\ \A p \in Proc : Holds(p) => lock # None /\ lock.owner = p
  /\ Unowned(lock) /\ lock.old => pc[lock.maker] = "dead"

\* The same of the guard: one without an owner that is stale has a dead maker.
GuardIsKept ==
  /\ \A p \in Proc : pc[p] \in NamingGuard => guard # None /\ guard.maker = p
  /\ \A p \in Proc : pc[p] \in NamingGuard => guard.owner = None
  /\ \A p \in Proc : pc[p] \in Reclaiming => guard # None /\ guard.owner = p
  /\ Unowned(guard) /\ guard.old => pc[guard.maker] = "dead"

\* The guard is the one p saw.
StillThere(p) == guard # None /\ IdentityOf(guard) = seen[p]

\* p saw a guard with a dead owner, which is still there or has its tombstone.
SawOwned(p) ==
  /\ seen[p][2] \in Proc
  /\ pc[seen[p][2]] = "dead"
  /\ StillThere(p) \/ (seen[p] \in DOMAIN tomb /\ tomb[seen[p]])

\* p saw one without an owner, which is still there: its tombstone would not keep it.
SawUnowned(p) == seen[p][2] = None /\ StillThere(p) /\ guard.old

\* Who is about to rename the guard saw a stale one, and who is about to rename the
\* lock saw a stale one, which still is (process-lock.ts:97-121, 153-165).
JudgedIsStale ==
  /\ \A p \in Proc : pc[p] = "rename guard" => SawOwned(p) \/ SawUnowned(p)
  /\ \A p \in Proc : pc[p] = "rename lock" => lock # None /\ Stale(lock)

\* Types, and who is about to rename the guard has seen one.
Typed == TypeOK /\ \A p \in Proc : pc[p] = "rename guard" => seen[p] # None

LockInv == Typed /\ LockIsKept /\ GuardIsKept /\ JudgedIsStale

-----------------------------------------------------------------------------
LEMMA NoneIsNothing == None \notin Proc /\ None \notin Dir /\ None \notin Identity
  BY LockAssumption DEF LockAssumption

LEMMA MadeIsDir ==
  ASSUME NEW p \in Proc, NEW n \in Name \union {0}
  PROVE  /\ Made(p, n) \in Dir /\ Made(p, n).maker = p
         /\ Made(p, n).owner = None /\ Made(p, n).old = FALSE
  BY DEF Made, Dir

LEMMA OwnedIsDir ==
  ASSUME NEW p \in Proc, NEW d \in Dir
  PROVE  LET e == [d EXCEPT !.owner = p, !.old = FALSE]
         IN  e \in Dir /\ e.name = d.name /\ e.maker = d.maker /\ e.owner = p /\ e.old = FALSE
  BY DEF Dir

LEMMA AgedIsDir ==
  ASSUME NEW d \in Dir
  PROVE  LET e == [d EXCEPT !.old = TRUE]
         IN  e \in Dir /\ e.name = d.name /\ e.maker = d.maker /\ e.owner = d.owner /\ e.old = TRUE
  BY DEF Dir

\* Type correctness: every operation keeps both directories, the tombstones and the
\* processes well formed.
LEMMA TypeStep == Typed /\ [Next]_vars => Typed'
<1> SUFFICES ASSUME Typed, [Next]_vars PROVE Typed'
  OBVIOUS
<1> USE DEF Goto, Pc
<1>1. CASE AgeLock
  BY <1>1 DEF AgeLock, MayAge, Typed, TypeOK, Dir
<1>2. CASE AgeGuard
  BY <1>2 DEF AgeGuard, MayAge, Typed, TypeOK, Dir
<1>3. ASSUME NEW p \in Proc, Die(p) PROVE Typed'
  BY <1>3 DEF Die, Typed, TypeOK
<1>4. ASSUME NEW p \in Proc, Step(p) PROVE Typed'
  <2>1. CASE MakeLock(p)
    BY <2>1, MadeIsDir DEF MakeLock, Typed, TypeOK
  <2>2. CASE WriteOwner(p)
    BY <2>2, OwnedIsDir DEF WriteOwner, Unowned, Typed, TypeOK
  <2>3. CASE \/ LockExists(p) \/ WriteOwnerFails(p) \/ RemovePath(p)
             \/ Release(p) \/ GuardExists(p)
    BY <2>3 DEF LockExists, WriteOwnerFails, RemovePath, Release, GuardExists, Typed, TypeOK
  <2>4. CASE MakeGuard(p)
    <3>1. PICK n \in Name : guard' = Made(p, n)
      BY <2>4 DEF MakeGuard
    <3> QED  BY <2>4, <3>1, MadeIsDir DEF MakeGuard, Typed, TypeOK
  <2>5. CASE JudgeGuard(p)
    <3>1. guard # None => IdentityOf(guard) \in Identity
      BY DEF Typed, TypeOK, IdentityOf, Identity, Dir
    <3> QED  BY <2>5, <3>1, NoneIsNothing DEF JudgeGuard, Typed, TypeOK
  <2>8. CASE RenameGuard(p)
    <3>1. seen' \in [Proc -> Identity \union {None}] /\ pc' \in [Proc -> Pc]
      BY <2>8 DEF RenameGuard, Typed, TypeOK
    <3>2. guard' \in Dir \union {None} /\ lock' \in Dir \union {None}
      BY <2>8 DEF RenameGuard, Typed, TypeOK
    <3>3. DOMAIN tomb' \subseteq Identity /\ tomb' \in [DOMAIN tomb' -> BOOLEAN]
      <4>1. CASE tomb' = tomb
        BY <4>1 DEF Typed, TypeOK
      <4>2. CASE tomb' # tomb
        <5>1. tomb' = [j \in DOMAIN tomb \union {seen[p]} |->
                         IF j = seen[p] THEN guard.owner # None ELSE tomb[j]]
          BY <2>8, <4>2 DEF RenameGuard
        <5>2. seen[p] \in Identity
          BY <2>8, <4>2 DEF RenameGuard, Typed, TypeOK
        <5> QED  BY <5>1, <5>2 DEF Typed, TypeOK
      <4> QED  BY <4>1, <4>2
    <3>4. \A q \in Proc : pc'[q] = "rename guard" => seen'[q] # None
      BY <2>8 DEF RenameGuard, Typed, TypeOK
    <3> QED  BY <3>1, <3>2, <3>3, <3>4 DEF Typed, TypeOK
  <2>6. CASE WriteGuardOwner(p) \/ WriteGuardOwnerFails(p) \/ RemoveGuard(p)
    BY <1>4, <2>6
    DEF WriteGuardOwner, WriteGuardOwnerFails, RemoveGuard, Unowned, Typed, TypeOK, Dir
  <2>7. CASE JudgeLock(p) \/ RenameLock(p) \/ LeaveGuard(p)
    BY <1>4, <2>7 DEF JudgeLock, RenameLock, LeaveGuard, Typed, TypeOK
  <2> QED  BY <1>4, <2>1, <2>2, <2>3, <2>4, <2>5, <2>6, <2>7, <2>8 DEF Step
<1>5. CASE UNCHANGED vars
  BY <1>5 DEF vars, Typed, TypeOK
<1> QED  BY <1>1, <1>2, <1>3, <1>4, <1>5 DEF Next

-----------------------------------------------------------------------------
(* Exclusion *)

LEMMA DirFacts ==
  ASSUME NEW d \in Dir
  PROVE  d.maker \in Proc /\ d.owner \in Proc \union {None} /\ d.old \in BOOLEAN
  BY DEF Dir

\* A lock that is stale has no living holder, and nobody is about to name itself in it.
LEMMA StaleLock ==
  ASSUME LockInv, lock # None, Stale(lock), NEW p \in Proc
  PROVE  pc[p] \notin Naming /\ ~Holds(p)
<1>1. CASE lock.owner = None
  <2>1. pc[lock.maker] = "dead"
    BY <1>1 DEF LockInv, LockIsKept, Stale, Unowned
  <2> QED  BY <1>1, <2>1, NoneIsNothing DEF LockInv, LockIsKept, Naming, Holds
<1>2. CASE lock.owner # None
  <2>1. pc[lock.owner] = "dead"
    BY <1>2 DEF Stale
  <2> QED  BY <1>2, <2>1 DEF LockInv, LockIsKept, Naming, Holds
<1> QED  BY <1>1, <1>2

\* The dead stay dead.
LEMMA DeadStayDead ==
  ASSUME Typed, Next, NEW q \in Proc, pc[q] = "dead"
  PROVE  pc'[q] = "dead"
<1>1. ASSUME NEW p \in Proc, Die(p) PROVE pc'[q] = "dead"
  BY <1>1 DEF Die, Typed, TypeOK
<1>2. ASSUME NEW p \in Proc, Step(p) PROVE pc'[q] = "dead"
  <2>1. PICK from \in Pc \ {"dead"}, to \in Pc : Goto(p, from, to)
    <3>1. \E from \in Pc \ {"dead"} : pc[p] = from
      BY <1>2
      DEF Step, Goto, Pc, MakeLock, LockExists, WriteOwner, WriteOwnerFails, RemovePath, Release,
          MakeGuard, GuardExists, JudgeGuard, RenameGuard, WriteGuardOwner, WriteGuardOwnerFails,
          RemoveGuard, JudgeLock, RenameLock, LeaveGuard
    <3>2. \E to \in Pc : pc' = [pc EXCEPT ![p] = to]
      BY <1>2
      DEF Step, Goto, Pc, MakeLock, LockExists, WriteOwner, WriteOwnerFails, RemovePath, Release,
          MakeGuard, GuardExists, JudgeGuard, RenameGuard, WriteGuardOwner, WriteGuardOwnerFails,
          RemoveGuard, JudgeLock, RenameLock, LeaveGuard
    <3> QED  BY <3>1, <3>2 DEF Goto
  <2> QED  BY <2>1 DEF Goto, Typed, TypeOK
<1> QED  BY <1>1, <1>2 DEF Next, AgeLock, AgeGuard

\* A step that leaves the lock alone and makes nobody its owner keeps it.
LEMMA LockFrame ==
  ASSUME LockInv, Next, UNCHANGED lock,
         \A q \in Proc : pc'[q] \in Naming => pc[q] \in Naming,
         \A q \in Proc : pc'[q] \in {"held", "drop"} => pc[q] \in {"held", "drop"}
  PROVE  LockIsKept'
<1>1. \A q \in Proc : pc'[q] \in Naming =>
        lock' # None /\ lock'.owner = None /\ lock'.maker = q
  BY DEF LockInv, LockIsKept
<1>2. \A q \in Proc : Holds(q)' => lock' # None /\ lock'.owner = q
  BY DEF LockInv, LockIsKept, Holds
<1>3. Unowned(lock') /\ lock'.old => pc'[lock'.maker] = "dead"
  BY DeadStayDead, DirFacts DEF LockInv, LockIsKept, Typed, TypeOK, Unowned
<1> QED  BY <1>1, <1>2, <1>3 DEF LockIsKept

LEMMA LockIsKeptStep ==
  ASSUME ~SlowWriter, LockInv, Next
  PROVE  LockIsKept'
<1> USE DEF Goto, Naming
<1> pc \in [Proc -> Pc] /\ (lock # None => lock \in Dir)
  BY DEF LockInv, Typed, TypeOK
<1>1. CASE AgeLock
  <2>1. /\ lock' # None /\ lock'.maker = lock.maker
        /\ lock'.owner = lock.owner /\ UNCHANGED pc
    BY <1>1, AgedIsDir, NoneIsNothing DEF AgeLock, MayAge
  <2>2. Unowned(lock') => pc[lock.maker] = "dead"
    BY <1>1, <2>1 DEF AgeLock, MayAge, Unowned
  <2> QED  BY <1>1, <2>1, <2>2 DEF LockInv, LockIsKept, Holds, AgeLock, MayAge
<1>2. CASE AgeGuard
  BY <1>2, LockFrame DEF AgeGuard
<1>3. ASSUME NEW p \in Proc, Die(p) PROVE LockIsKept'
  BY <1>3, LockFrame DEF Die
<1>4. ASSUME NEW p \in Proc, Step(p) PROVE LockIsKept'
  <2>1. CASE MakeLock(p)
    <3>1. /\ lock' # None /\ lock'.owner = None /\ lock'.maker = p /\ lock'.old = FALSE
          /\ pc' = [pc EXCEPT ![p] = "own"]
      <4>1. lock' = Made(p, 0) /\ pc' = [pc EXCEPT ![p] = "own"]
        BY <2>1 DEF MakeLock
      <4>2. /\ Made(p, 0) \in Dir /\ Made(p, 0).maker = p
            /\ Made(p, 0).owner = None /\ Made(p, 0).old = FALSE
        BY MadeIsDir
      <4> QED  BY <4>1, <4>2, NoneIsNothing
    <3>2. \A q \in Proc : pc[q] \notin Naming /\ ~Holds(q)
      BY <2>1 DEF MakeLock, LockInv, LockIsKept
    <3> QED  BY <3>1, <3>2 DEF LockIsKept, Holds, Unowned
  <2>2. CASE WriteOwner(p)
    <3>1. /\ lock' # None /\ lock'.owner = p
          /\ pc' = [pc EXCEPT ![p] = "held"]
      <4>1. lock \in Dir /\ lock' = [lock EXCEPT !.owner = p, !.old = FALSE]
        BY <2>2 DEF WriteOwner, Unowned
      <4>2. lock' \in Dir /\ lock'.owner = p
        BY <4>1, OwnedIsDir
      <4> QED  BY <2>2, <4>2, NoneIsNothing DEF WriteOwner
    <3>2. \A q \in Proc : (pc[q] \in Naming => q = p) /\ ~Holds(q)
      BY <2>2, NoneIsNothing DEF WriteOwner, Unowned, LockInv, LockIsKept
    <3> QED  BY <3>1, <3>2, NoneIsNothing DEF LockIsKept, Holds, Unowned
  <2>3. CASE RemovePath(p)
    <3>1. /\ lock' = None /\ pc[p] \in {"spoil", "drop"}
          /\ pc' = [pc EXCEPT ![p] = "out"]
      BY <2>3 DEF RemovePath
    <3>2. \A q \in Proc \ {p} : pc[q] \notin Naming /\ ~Holds(q)
      BY <3>1, NoneIsNothing DEF LockInv, LockIsKept, Holds
    <3> QED  BY <3>1, <3>2 DEF LockIsKept, Holds, Unowned
  <2>4. CASE RenameLock(p)
    <3>1. lock # None /\ Stale(lock)
      BY <2>4 DEF RenameLock, LockInv, JudgedIsStale
    <3>2. \A q \in Proc : pc[q] \notin Naming /\ ~Holds(q)
      BY <3>1, StaleLock
    <3> QED  BY <2>4, <3>2 DEF RenameLock, LockIsKept, Holds, Unowned
  <2>5. CASE LockExists(p) \/ WriteOwnerFails(p) \/ Release(p)
    BY <2>5, LockFrame DEF LockExists, WriteOwnerFails, Release
  <2>6. CASE MakeGuard(p) \/ GuardExists(p) \/ JudgeGuard(p) \/ RenameGuard(p)
    BY <2>6, LockFrame DEF MakeGuard, GuardExists, JudgeGuard, RenameGuard
  <2>7. CASE WriteGuardOwner(p) \/ WriteGuardOwnerFails(p) \/ RemoveGuard(p)
    BY <2>7, LockFrame DEF WriteGuardOwner, WriteGuardOwnerFails, RemoveGuard
  <2>8. CASE JudgeLock(p) \/ LeaveGuard(p)
    BY <2>8, LockFrame DEF JudgeLock, LeaveGuard
  <2> QED  BY <1>4, <2>1, <2>2, <2>3, <2>4, <2>5, <2>6, <2>7, <2>8 DEF Step
<1> QED  BY <1>1, <1>2, <1>3, <1>4 DEF Next

\* A step that leaves the guard alone and takes nobody into it keeps it.
LEMMA GuardFrame ==
  ASSUME LockInv, Next, UNCHANGED guard,
         \A q \in Proc : pc'[q] \in NamingGuard => pc[q] \in NamingGuard,
         \A q \in Proc : pc'[q] \in Reclaiming => pc[q] \in Reclaiming
  PROVE  GuardIsKept'
<1>1. Unowned(guard') /\ guard'.old => pc'[guard'.maker] = "dead"
  BY DeadStayDead, DirFacts DEF LockInv, Typed, TypeOK, GuardIsKept, Unowned
<1> QED  BY <1>1 DEF LockInv, GuardIsKept

\* A renamed guard is the one its reclaimer judged, and stale: nobody is in it.
LEMMA RenamedGuard ==
  ASSUME LockInv, NEW p \in Proc, pc[p] = "rename guard", guard # None, Renamable(seen[p])
  PROVE  /\ IdentityOf(guard) = seen[p]
         /\ IF guard.owner = None THEN pc[guard.maker] = "dead"
                                 ELSE guard.owner \in Proc /\ pc[guard.owner] = "dead"
<1>1. IdentityOf(guard) = seen[p] /\ IdentityOf(guard)[2] = guard.owner
  BY DEF Renamable, LockInv, JudgedIsStale, SawOwned, SawUnowned, StillThere, IdentityOf
<1>2. CASE SawOwned(p)
  BY <1>1, <1>2, NoneIsNothing DEF SawOwned
<1>3. CASE SawUnowned(p)
  BY <1>1, <1>3 DEF SawUnowned, LockInv, GuardIsKept, Unowned
<1> QED  BY <1>1, <1>2, <1>3 DEF LockInv, JudgedIsStale

LEMMA GuardIsKeptStep ==
  ASSUME ~SlowWriter, LockInv, Next
  PROVE  GuardIsKept'
<1> USE DEF Goto, NamingGuard, Reclaiming
<1> pc \in [Proc -> Pc] /\ (guard # None => guard \in Dir)
  BY DEF LockInv, Typed, TypeOK
<1>1. CASE AgeLock
  BY <1>1, GuardFrame DEF AgeLock
<1>2. CASE AgeGuard
  <2>1. /\ guard' # None /\ guard'.maker = guard.maker
        /\ guard'.owner = guard.owner /\ UNCHANGED pc
    BY <1>2, AgedIsDir, NoneIsNothing DEF AgeGuard, MayAge
  <2>2. Unowned(guard') => pc[guard.maker] = "dead"
    BY <1>2, <2>1 DEF AgeGuard, MayAge, Unowned
  <2> QED  BY <2>1, <2>2 DEF LockInv, GuardIsKept
<1>3. ASSUME NEW p \in Proc, Die(p) PROVE GuardIsKept'
  BY <1>3, GuardFrame DEF Die
<1>4. ASSUME NEW p \in Proc, Step(p) PROVE GuardIsKept'
  <2>1. CASE MakeGuard(p)
    <3>1. PICK n \in Name \union {0} : guard' = Made(p, n)
      BY <2>1 DEF MakeGuard
    <3>2. /\ guard' # None /\ guard'.owner = None /\ guard'.maker = p /\ guard'.old = FALSE
          /\ pc' = [pc EXCEPT ![p] = "own guard"]
      <4>1. /\ guard' \in Dir /\ guard'.owner = None /\ guard'.maker = p
            /\ guard'.old = FALSE
        BY <3>1, MadeIsDir
      <4> QED  BY <2>1, <4>1, NoneIsNothing DEF MakeGuard
    <3>3. \A q \in Proc : pc[q] \notin NamingGuard \union Reclaiming
      BY <2>1 DEF MakeGuard, LockInv, GuardIsKept
    <3> QED  BY <3>2, <3>3 DEF GuardIsKept
  <2>2. CASE WriteGuardOwner(p)
    <3>1. /\ guard' # None /\ guard'.owner = p
          /\ pc' = [pc EXCEPT ![p] = "judge lock"]
      <4>1. guard \in Dir /\ guard' = [guard EXCEPT !.owner = p, !.old = FALSE]
        BY <2>2 DEF WriteGuardOwner, Unowned
      <4>2. guard' \in Dir /\ guard'.owner = p
        BY <4>1, OwnedIsDir
      <4> QED  BY <2>2, <4>2, NoneIsNothing DEF WriteGuardOwner
    <3>2. \A q \in Proc : (pc[q] \in NamingGuard => q = p) /\ pc[q] \notin Reclaiming
      BY <2>2, NoneIsNothing DEF WriteGuardOwner, Unowned, LockInv, GuardIsKept
    <3> QED  BY <3>1, <3>2, NoneIsNothing DEF GuardIsKept, Unowned
  <2>3. CASE RemoveGuard(p)
    <3>1. /\ guard' = None /\ pc[p] \in {"spoil guard", "drop guard"}
          /\ pc' = [pc EXCEPT ![p] = "out"]
      BY <2>3 DEF RemoveGuard
    <3>2. \A q \in Proc \ {p} : pc[q] \notin NamingGuard \union Reclaiming
      BY <3>1, NoneIsNothing DEF LockInv, GuardIsKept
    <3> QED  BY <3>1, <3>2 DEF GuardIsKept, Unowned
  <2>4. CASE RenameGuard(p)
    <3>1. CASE guard' = guard
      BY <2>4, <3>1, GuardFrame DEF RenameGuard
    <3>2. CASE guard' # guard
      <4>1. guard # None /\ Renamable(seen[p]) /\ guard' = None
        BY <2>4, <3>2 DEF RenameGuard
      <4>2. IF guard.owner = None THEN pc[guard.maker] = "dead"
                                 ELSE guard.owner \in Proc /\ pc[guard.owner] = "dead"
        BY <2>4, <4>1, RenamedGuard DEF RenameGuard
      <4>3. \A q \in Proc : pc[q] \notin NamingGuard \union Reclaiming
        BY <4>1, <4>2, NoneIsNothing DEF LockInv, GuardIsKept
      <4> QED  BY <2>4, <4>1, <4>3 DEF RenameGuard, GuardIsKept, Unowned
    <3> QED  BY <3>1, <3>2
  <2>5. CASE MakeLock(p) \/ LockExists(p) \/ WriteOwner(p) \/ WriteOwnerFails(p)
    BY <2>5, GuardFrame DEF MakeLock, LockExists, WriteOwner, WriteOwnerFails
  <2>6. CASE RemovePath(p) \/ Release(p)
    BY <2>6, GuardFrame DEF RemovePath, Release
  <2>7. CASE GuardExists(p) \/ JudgeGuard(p) \/ WriteGuardOwnerFails(p)
    BY <2>7, GuardFrame DEF GuardExists, JudgeGuard, WriteGuardOwnerFails
  <2>8. CASE JudgeLock(p) \/ RenameLock(p) \/ LeaveGuard(p)
    BY <2>8, GuardFrame DEF JudgeLock, RenameLock, LeaveGuard
  <2> QED  BY <1>4, <2>1, <2>2, <2>3, <2>4, <2>5, <2>6, <2>7, <2>8 DEF Step
<1> QED  BY <1>1, <1>2, <1>3, <1>4 DEF Next

\* What is stale stays so while it has its owner and its maker.
LEMMA StaleFrame ==
  ASSUME LockInv, Next, lock # None, Stale(lock), lock' # None, lock'.old = TRUE,
         lock'.owner = lock.owner
  PROVE  Stale(lock)'
  BY DeadStayDead, DirFacts DEF LockInv, Typed, TypeOK, Stale

LEMMA OwnerOfIdentity ==
  ASSUME NEW d PROVE IdentityOf(d)[2] = d.owner
  BY DEF IdentityOf

\* Who saw a guard with a dead owner still did, if no other guard was renamed and no
\* tombstone lost its owner file.
LEMMA OwnedFrame ==
  ASSUME LockInv, Next, NEW q \in Proc, SawOwned(q), seen'[q] = seen[q],
         \/ guard # None /\ guard' # None /\ IdentityOf(guard') = IdentityOf(guard)
         \/ guard # None => IdentityOf(guard) # seen[q]
         \/ seen[q] \in DOMAIN tomb' /\ tomb'[seen[q]],
         \A i \in DOMAIN tomb : tomb[i] => i \in DOMAIN tomb' /\ tomb'[i]
  PROVE  SawOwned(q)'
<1>1. pc'[seen[q][2]] = "dead"
  BY DeadStayDead DEF LockInv, SawOwned
<1> QED  BY <1>1 DEF SawOwned, StillThere

\* Who saw one without an owner has it there while it is neither renamed nor removed.
LEMMA UnownedFrame ==
  ASSUME NEW q \in Proc, SawUnowned(q), seen'[q] = seen[q], guard' # None,
         IdentityOf(guard') = IdentityOf(guard), guard'.old = guard.old
  PROVE  SawUnowned(q)'
  BY DEF SawUnowned, StillThere

LEMMA SeenIsStaleStep ==
  ASSUME LockInv, ~Contended, Next, NEW q \in Proc, pc'[q] = "rename guard"
  PROVE  SawOwned(q)' \/ SawUnowned(q)'
<1> DEFINE Goal == SawOwned(q)' \/ SawUnowned(q)'
<1> USE DEF Goto
<1> /\ pc \in [Proc -> Pc]
    /\ guard # None => guard \in Dir
    /\ seen \in [Proc -> Identity \union {None}]
  BY DEF LockInv, Typed, TypeOK
<1>0. pc[q] = "rename guard" => SawOwned(q) \/ SawUnowned(q)
  BY DEF LockInv, JudgedIsStale
<1>10. SawUnowned(q) => guard # None /\ guard.owner = None /\ pc[guard.maker] = "dead"
  BY OwnerOfIdentity DEF SawUnowned, StillThere, LockInv, GuardIsKept, Unowned
<1>1. CASE UNCHANGED <<guard, tomb, seen>> /\ pc[q] = "rename guard"
  <2>1. CASE SawOwned(q)
    BY <1>1, <2>1, OwnedFrame
  <2>2. CASE SawUnowned(q)
    BY <1>1, <1>10, <2>2, UnownedFrame
  <2> QED  BY <1>0, <1>1, <2>1, <2>2
<1>2. CASE AgeLock
  BY <1>1, <1>2 DEF AgeLock
<1>3. CASE AgeGuard
  <2>1. /\ guard # None /\ guard' # None /\ IdentityOf(guard') = IdentityOf(guard)
        /\ ~guard.old /\ UNCHANGED <<tomb, seen, pc>>
    BY <1>3, AgedIsDir, NoneIsNothing DEF AgeGuard, MayAge, IdentityOf
  <2>2. SawOwned(q)
    BY <1>0, <2>1 DEF SawUnowned
  <2> QED  BY <2>1, <2>2, OwnedFrame
<1>4. ASSUME NEW p \in Proc, Die(p) PROVE Goal
  BY <1>1, <1>4 DEF Die
<1>5. ASSUME NEW p \in Proc, Step(p) PROVE Goal
  <2>1. CASE MakeLock(p) \/ LockExists(p) \/ WriteOwner(p) \/ WriteOwnerFails(p)
    BY <1>1, <2>1 DEF MakeLock, LockExists, WriteOwner, WriteOwnerFails
  <2>2. CASE RemovePath(p) \/ Release(p) \/ GuardExists(p) \/ WriteGuardOwnerFails(p)
    BY <1>1, <2>2 DEF RemovePath, Release, GuardExists, WriteGuardOwnerFails
  <2>3. CASE JudgeLock(p) \/ RenameLock(p) \/ LeaveGuard(p)
    BY <1>1, <2>3 DEF JudgeLock, RenameLock, LeaveGuard
  <2>4. CASE MakeGuard(p)
    <3>1. guard = None /\ UNCHANGED <<tomb, seen>> /\ pc[q] = "rename guard"
      BY <2>4 DEF MakeGuard
    <3>2. SawOwned(q)
      BY <1>0, <1>10, <3>1
    <3> QED  BY <3>1, <3>2, OwnedFrame
  <2>5. CASE WriteGuardOwner(p)
    <3>1. /\ Unowned(guard) /\ UNCHANGED <<tomb, seen>> /\ pc[q] = "rename guard"
          /\ pc[p] = "own guard"
      BY <2>5 DEF WriteGuardOwner
    <3>2. guard.maker = p
      BY <3>1 DEF LockInv, GuardIsKept, NamingGuard
    <3>3. SawOwned(q)
      BY <1>0, <1>10, <3>1, <3>2
    <3>4. IdentityOf(guard) # seen[q]
      BY <3>1, <3>3, NoneIsNothing, OwnerOfIdentity DEF Unowned, SawOwned
    <3> QED  BY <3>1, <3>3, <3>4, OwnedFrame
  <2>6. CASE RemoveGuard(p)
    <3>1. /\ UNCHANGED <<tomb, seen>> /\ pc[q] = "rename guard"
          /\ pc[p] \in {"spoil guard", "drop guard"}
      BY <2>6 DEF RemoveGuard
    <3>2. IF guard.owner = None THEN guard.maker = p ELSE guard.owner = p
      BY <3>1, NoneIsNothing DEF LockInv, GuardIsKept, NamingGuard, Reclaiming
    <3>3. SawOwned(q)
      BY <1>0, <1>10, <3>1, <3>2
    <3>4. guard # None => IdentityOf(guard) # seen[q]
      BY <3>1, <3>2, <3>3, NoneIsNothing, OwnerOfIdentity DEF SawOwned
    <3> QED  BY <3>1, <3>3, <3>4, OwnedFrame
  <2>7. CASE JudgeGuard(p)
    <3>1. CASE p # q
      <4>1. UNCHANGED <<guard, tomb>> /\ seen'[q] = seen[q] /\ pc[q] = "rename guard"
        BY <2>7, <3>1 DEF JudgeGuard
      <4>2. CASE SawOwned(q)
        BY <4>1, <4>2, OwnedFrame
      <4>3. CASE SawUnowned(q)
        BY <1>10, <4>1, <4>3, UnownedFrame
      <4> QED  BY <1>0, <4>1, <4>2, <4>3
    <3>2. CASE p = q
      <4>1. /\ guard # None /\ Stale(guard) /\ UNCHANGED guard
            /\ seen'[q] = IdentityOf(guard)
        BY <2>7, <3>2 DEF JudgeGuard
      <4>2. seen'[q][2] = guard.owner /\ StillThere(q)'
        BY <4>1, OwnerOfIdentity DEF StillThere
      <4>3. CASE guard.owner = None
        BY <4>1, <4>2, <4>3 DEF SawUnowned, Stale
      <4>4. CASE guard.owner # None
        <5>1. guard.owner \in Proc /\ pc[guard.owner] = "dead"
          BY <4>1, <4>4, DirFacts DEF Stale
        <5>2. pc'[guard.owner] = "dead"
          BY <5>1, DeadStayDead DEF LockInv
        <5> QED  BY <4>2, <5>1, <5>2 DEF SawOwned
      <4> QED  BY <4>3, <4>4
    <3> QED  BY <3>1, <3>2
  <2>8. CASE RenameGuard(p)
    <3>1. p # q /\ pc[q] = "rename guard" /\ seen'[q] = seen[q] /\ pc[p] = "rename guard"
      BY <2>8 DEF RenameGuard
    <3>2. CASE guard # None /\ Renamable(seen[p])
      <4>1. IdentityOf(guard) = seen[p]
        BY <3>1, <3>2, RenamedGuard
      <4>2. SawOwned(q)
        <5>1. SawUnowned(q) => seen[p] = seen[q] /\ seen[q][2] = None
          BY <4>1 DEF SawUnowned, StillThere
        <5>2. seen[p] # None /\ seen[q] # None
          BY <3>1 DEF LockInv, Typed
        <5> QED  BY <1>0, <3>1, <5>1, <5>2 DEF Contended
      <4>3. tomb' = [j \in DOMAIN tomb \union {seen[p]} |->
                       IF j = seen[p] THEN guard.owner # None ELSE tomb[j]]
        BY <2>8, <3>2 DEF RenameGuard
      <4>4. \A i \in DOMAIN tomb : tomb[i] => i \in DOMAIN tomb' /\ tomb'[i]
        BY <3>2, <4>3 DEF Renamable
      <4>5. seen[q] = IdentityOf(guard) => seen[q] \in DOMAIN tomb' /\ tomb'[seen[q]]
        <5>1. seen[q] = IdentityOf(guard) => guard.owner # None
          BY <4>2, NoneIsNothing, OwnerOfIdentity DEF SawOwned
        <5> QED  BY <4>1, <4>3, <5>1
      <4> QED  BY <3>1, <4>2, <4>4, <4>5, OwnedFrame
    <3>3. CASE ~(guard # None /\ Renamable(seen[p]))
      <4>1. UNCHANGED <<tomb, guard>>
        BY <2>8, <3>3 DEF RenameGuard
      <4>2. CASE SawOwned(q)
        BY <3>1, <4>1, <4>2, OwnedFrame
      <4>3. CASE SawUnowned(q)
        BY <1>10, <3>1, <4>1, <4>3, UnownedFrame
      <4> QED  BY <1>0, <3>1, <4>2, <4>3
    <3> QED  BY <3>2, <3>3
  <2> QED  BY <1>5, <2>1, <2>2, <2>3, <2>4, <2>5, <2>6, <2>7, <2>8 DEF Step
<1> QED  BY <1>2, <1>3, <1>4, <1>5 DEF Next

LEMMA JudgedLockStep ==
  ASSUME LockInv, Next, NEW q \in Proc, pc'[q] = "rename lock"
  PROVE  lock' # None /\ Stale(lock)'
<1> DEFINE Goal == lock' # None /\ Stale(lock)'
<1> USE DEF Goto
<1> pc \in [Proc -> Pc] /\ (lock # None => lock \in Dir)
  BY DEF LockInv, Typed, TypeOK
<1>0. pc[q] = "rename lock" => lock # None /\ Stale(lock)
  BY DEF LockInv, JudgedIsStale
<1>1. CASE UNCHANGED lock /\ pc[q] = "rename lock"
  BY <1>0, <1>1, StaleFrame DEF Stale
<1>2. CASE AgeLock
  BY <1>0, <1>2 DEF AgeLock, MayAge, Stale
<1>3. CASE AgeGuard
  BY <1>1, <1>3 DEF AgeGuard
<1>4. ASSUME NEW p \in Proc, Die(p) PROVE Goal
  BY <1>1, <1>4 DEF Die
<1>5. ASSUME NEW p \in Proc, Step(p) PROVE Goal
  <2>1. CASE MakeLock(p)
    BY <1>0, <2>1 DEF MakeLock
  <2>2. CASE WriteOwner(p)
    BY <1>0, <2>2, StaleLock DEF WriteOwner, Naming
  <2>3. CASE RemovePath(p)
    BY <1>0, <2>3, StaleLock DEF RemovePath, Naming, Holds
  <2>4. CASE RenameLock(p)
    <3>1. pc[q] = "rename lock" /\ pc[p] = "rename lock" /\ p # q
      BY <2>4 DEF RenameLock
    <3> QED  BY <3>1 DEF LockInv, GuardIsKept, Reclaiming
  <2>5. CASE LockExists(p) \/ WriteOwnerFails(p) \/ Release(p)
    BY <1>1, <2>5 DEF LockExists, WriteOwnerFails, Release
  <2>6. CASE MakeGuard(p) \/ GuardExists(p) \/ JudgeGuard(p) \/ RenameGuard(p)
    BY <1>1, <2>6 DEF MakeGuard, GuardExists, JudgeGuard, RenameGuard
  <2>7. CASE WriteGuardOwner(p) \/ WriteGuardOwnerFails(p) \/ RemoveGuard(p)
    BY <1>1, <2>7 DEF WriteGuardOwner, WriteGuardOwnerFails, RemoveGuard
  <2>8. CASE LeaveGuard(p)
    BY <1>1, <2>8 DEF LeaveGuard
  <2>9. CASE JudgeLock(p)
    <3>1. UNCHANGED lock /\ (p # q => pc[q] = "rename lock")
      BY <2>9 DEF JudgeLock
    <3>2. CASE p = q
      <4>1. lock # None /\ Stale(lock)
        BY <2>9, <3>2 DEF JudgeLock
      <4>2. lock'.old = TRUE
        BY <3>1, <4>1, DirFacts DEF Stale
      <4> QED  BY <3>1, <4>1, <4>2, StaleFrame
    <3> QED  BY <1>1, <3>1, <3>2
  <2> QED  BY <1>5, <2>1, <2>2, <2>3, <2>4, <2>5, <2>6, <2>7, <2>8, <2>9 DEF Step
<1> QED  BY <1>2, <1>3, <1>4, <1>5 DEF Next

LEMMA LockInvInit == Init => LockInv
  BY NoneIsNothing
  DEF Init, LockInv, Typed, TypeOK, LockIsKept, GuardIsKept, JudgedIsStale, Pc, Naming,
      NamingGuard, Reclaiming, Holds, Unowned

LEMMA LockInvStep ==
  ASSUME ~SlowWriter, LockInv, ~Contended, [Next]_vars
  PROVE  LockInv'
<1>1. CASE Next
  <2>1. Typed' /\ LockIsKept' /\ GuardIsKept'
    BY <1>1, TypeStep, LockIsKeptStep, GuardIsKeptStep DEF LockInv
  <2>2. JudgedIsStale'
    BY <1>1, SeenIsStaleStep, JudgedLockStep DEF JudgedIsStale
  <2> QED  BY <2>1, <2>2 DEF LockInv
<1>2. CASE UNCHANGED vars
  BY <1>2
  DEF vars, LockInv, Typed, TypeOK, LockIsKept, GuardIsKept, JudgedIsStale, Holds, Unowned,
      Stale, IdentityOf, SawOwned, SawUnowned, StillThere
<1> QED  BY <1>1, <1>2

\* The two directories, the tombstones and the processes are always well formed, with
\* slow writers and contended guards too (process-lock.ts:59-199).
THEOREM LockTypeCorrect == Spec => []TypeOK
<1>1. Init => Typed
  BY NoneIsNothing DEF Init, Typed, TypeOK, Pc
<1>2. Typed => TypeOK
  BY DEF Typed
<1> QED  BY <1>1, <1>2, TypeStep, PTL DEF Spec

\* Two processes never both hold the lock, however many there are, wherever each of
\* them dies and however reclaims and late renames interleave, if a live process names
\* itself within staleMs and no two judge the same ownerless guard before either has
\* renamed it (process-lock.ts:59-199).
THEOREM LockExclusion ==
  ASSUME ~SlowWriter
  PROVE  Spec => ExclusionUnlessContended
<1>1. LockInv => Exclusion
  BY DEF LockInv, LockIsKept, Exclusion
<1> QED  BY <1>1, LockInvInit, LockInvStep, PTL DEF Spec, ExclusionUnlessContended

=============================================================================
