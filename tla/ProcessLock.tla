------------------------------ MODULE ProcessLock ------------------------------
(***************************************************************************)
(* The directory lock of cleanup and of the OpenClaw lifecycle             *)
(* (process-lock.ts): mkdir, an owner file, and the reclaiming of a stale  *)
(* lock under a guard directory that can go stale itself.                  *)
(*                                                                         *)
(* The steps are the system calls.  "old" says of a directory that it, or  *)
(* its owner file once there is one, is older than staleMs.  A guard has a *)
(* name, which stands for its inode and for the nonce of its owner and is  *)
(* taken again only when nothing refers to the old one.                    *)
(***************************************************************************)
EXTENDS Naturals, FiniteSets

CONSTANTS
  Proc,
  MaxGuards,        \* bound: guards that something refers to at a time
  SlowWriter,       \* may a live process take staleMs from mkdir to its owner file?
  WriteMayFail,     \* may the owner file be impossible to write?
  None

\* The names of guards; the lock has none.
Name == 1..MaxGuards
Dir == [name : Name \union {0}, maker : Proc, owner : Proc \union {None}, old : BOOLEAN]

\* What a reclaimer saw of the guard: the hash of its owner or of its inode.
Identity == (Name \union {0}) \X (Proc \union {None})

ASSUME LockAssumption ==
  /\ None \notin Proc /\ None \notin Dir /\ None \notin Identity
  /\ MaxGuards \in Nat
  /\ {SlowWriter, WriteMayFail} \subseteq BOOLEAN

VARIABLES
  lock, guard,   \* the two directories
  tomb,          \* the abandoned guards, and whether each has an owner file
  pc,            \* where each process is
  seen           \* the identity it computed for the guard it found stale

vars == <<lock, guard, tomb, pc, seen>>

Pc == {"out", "own", "spoil", "held", "drop", "busy", "judge guard", "rename guard",
       "own guard", "spoil guard", "judge lock", "rename lock", "leave guard",
       "drop guard", "dead"}

Init ==
  /\ lock = None
  /\ guard = None
  /\ tomb = [i \in {} |-> TRUE]
  /\ pc = [p \in Proc |-> "out"]
  /\ seen = [p \in Proc |-> None]

-----------------------------------------------------------------------------
Goto(p, from, to) == pc[p] = from /\ pc' = [pc EXCEPT ![p] = to]

Made(p, n) == [name |-> n, maker |-> p, owner |-> None, old |-> FALSE]

Referred ==
  {i[1] : i \in DOMAIN tomb \union {seen[p] : p \in {q \in Proc : seen[q] # None}}}

\* Is the directory there, without an owner file?
Unowned(d) == d # None /\ d.owner = None

\* The identity of an ownerless directory is its inode, else its owner's.
IdentityOf(d) == <<d.name, d.owner>>

\* Mutant of Stale: the owner is not looked for among the living.
StaleByAge(d) == d.old

\* Mutant of Stale: a directory without an owner file is left to its maker.
StaleIfOwned(d) == d.old /\ d.owner # None /\ pc[d.owner] = "dead"

\* ownerIsStale: without an owner the age decides.
Stale(d) == d.old /\ (d.owner # None => pc[d.owner] = "dead")

-----------------------------------------------------------------------------
(* The lock *)

MakeLock(p) ==
  /\ lock = None
  /\ Goto(p, "out", "own")
  /\ lock' = Made(p, 0)
  /\ UNCHANGED <<guard, tomb, seen>>

LockExists(p) ==
  /\ lock # None
  /\ Goto(p, "out", "busy")
  /\ UNCHANGED <<lock, guard, tomb, seen>>

\* writeOwner creates the file in the directory that is there now, which need not be
\* the one this process made.
WriteOwner(p) ==
  /\ Unowned(lock)
  /\ Goto(p, "own", "held")
  /\ lock' = [lock EXCEPT !.owner = p, !.old = FALSE]
  /\ UNCHANGED <<guard, tomb, seen>>

\* It fails where there is no directory or it has an owner, and then removes the path.
WriteOwnerFails(p) ==
  /\ WriteMayFail \/ ~Unowned(lock)
  /\ Goto(p, "own", "spoil")
  /\ UNCHANGED <<lock, guard, tomb, seen>>

RemovePath(p) ==
  /\ Goto(p, "spoil", "out") \/ Goto(p, "drop", "out")
  /\ lock' = None
  /\ UNCHANGED <<guard, tomb, seen>>

\* The release reads the owner and removes the lock only if it is its own.
Release(p) ==
  /\ IF lock # None /\ lock.owner = p THEN Goto(p, "held", "drop") ELSE Goto(p, "held", "out")
  /\ UNCHANGED <<lock, guard, tomb, seen>>

-----------------------------------------------------------------------------
(* Reclaiming it *)

MakeGuard(p) ==
  /\ guard = None
  /\ Goto(p, "busy", "own guard")
  /\ \E n \in Name \ Referred :
       /\ \A m \in Name \ Referred : n <= m
       /\ guard' = Made(p, n)
  /\ UNCHANGED <<lock, tomb, seen>>

GuardExists(p) ==
  /\ guard # None
  /\ Goto(p, "busy", "judge guard")
  /\ UNCHANGED <<lock, guard, tomb, seen>>

\* A guard that is gone is tried again, one that is not stale is left alone.
JudgeGuard(p) ==
  /\ \/ guard = None /\ Goto(p, "judge guard", "busy") /\ UNCHANGED seen
     \/ /\ guard # None
        /\ IF Stale(guard)
           THEN /\ Goto(p, "judge guard", "rename guard")
                /\ seen' = [seen EXCEPT ![p] = IdentityOf(guard)]
           ELSE Goto(p, "judge guard", "out") /\ UNCHANGED seen
  /\ UNCHANGED <<lock, guard, tomb>>

\* rename replaces an empty directory, and fails on one that is not.
Renamable(i) == i \notin DOMAIN tomb \/ ~tomb[i]

\* quarantineStaleGuard renames whatever is the guard by then.
RenameGuard(p) ==
  LET i == seen[p] IN
  /\ seen' = [seen EXCEPT ![p] = None]
  /\ IF guard # None /\ Renamable(i)
     THEN /\ Goto(p, "rename guard", "busy")
          /\ tomb' = [j \in DOMAIN tomb \union {i} |->
                        IF j = i THEN guard.owner # None ELSE tomb[j]]
          /\ guard' = None
     ELSE Goto(p, "rename guard", "out") /\ UNCHANGED <<tomb, guard>>
  /\ UNCHANGED <<lock>>

WriteGuardOwner(p) ==
  /\ Unowned(guard)
  /\ Goto(p, "own guard", "judge lock")
  /\ guard' = [guard EXCEPT !.owner = p, !.old = FALSE]
  /\ UNCHANGED <<lock, tomb, seen>>

WriteGuardOwnerFails(p) ==
  /\ WriteMayFail \/ ~Unowned(guard)
  /\ Goto(p, "own guard", "spoil guard")
  /\ UNCHANGED <<lock, guard, tomb, seen>>

RemoveGuard(p) ==
  /\ Goto(p, "spoil guard", "out") \/ Goto(p, "drop guard", "out")
  /\ guard' = None
  /\ UNCHANGED <<lock, tomb, seen>>

JudgeLock(p) ==
  /\ IF lock # None /\ Stale(lock)
     THEN Goto(p, "judge lock", "rename lock")
     ELSE Goto(p, "judge lock", "leave guard")
  /\ UNCHANGED <<lock, guard, tomb, seen>>

\* The lock goes to a name of its own and is removed there.
RenameLock(p) ==
  /\ Goto(p, "rename lock", "leave guard")
  /\ lock' = None
  /\ UNCHANGED <<guard, tomb, seen>>

LeaveGuard(p) ==
  /\ IF guard # None /\ guard.owner = p THEN Goto(p, "leave guard", "drop guard")
                                        ELSE Goto(p, "leave guard", "out")
  /\ UNCHANGED <<lock, guard, tomb, seen>>

-----------------------------------------------------------------------------
(* Time and death *)

MayAge(d) ==
  /\ d # None
  /\ ~d.old
  /\ SlowWriter \/ d.owner # None \/ pc[d.maker] = "dead"

AgeLock ==
  /\ MayAge(lock)
  /\ lock' = [lock EXCEPT !.old = TRUE]
  /\ UNCHANGED <<guard, tomb, pc, seen>>

AgeGuard ==
  /\ MayAge(guard)
  /\ guard' = [guard EXCEPT !.old = TRUE]
  /\ UNCHANGED <<lock, tomb, pc, seen>>

\* A process dies between any two of its calls; at least one stays alive.
Die(p) ==
  /\ pc[p] \notin {"out", "dead"}
  /\ \E q \in Proc \ {p} : pc[q] # "dead"
  /\ pc' = [pc EXCEPT ![p] = "dead"]
  /\ UNCHANGED <<lock, guard, tomb, seen>>

-----------------------------------------------------------------------------
Step(p) ==
  \/ MakeLock(p) \/ LockExists(p) \/ WriteOwner(p) \/ WriteOwnerFails(p)
  \/ RemovePath(p) \/ Release(p)
  \/ MakeGuard(p) \/ GuardExists(p) \/ JudgeGuard(p) \/ RenameGuard(p)
  \/ WriteGuardOwner(p) \/ WriteGuardOwnerFails(p) \/ RemoveGuard(p)
  \/ JudgeLock(p) \/ RenameLock(p) \/ LeaveGuard(p)

Next == AgeLock \/ AgeGuard \/ \E p \in Proc : Step(p) \/ Die(p)

Spec == Init /\ [][Next]_vars

\* Time passes; a live process goes on, tries again when it was refused, does not hold
\* the lock for ever, and does not fail to write its owner file for ever.
FairSpec ==
  /\ Spec
  /\ WF_vars(AgeLock) /\ WF_vars(AgeGuard)
  /\ \A p \in Proc : WF_vars(Step(p)) /\ SF_vars(WriteGuardOwner(p))

-----------------------------------------------------------------------------
(* Properties *)

\* Type correctness of the two directories, the tombstones and the processes.
TypeOK ==
  /\ lock \in Dir \union {None}
  /\ guard \in Dir \union {None}
  /\ DOMAIN tomb \subseteq Identity /\ tomb \in [DOMAIN tomb -> BOOLEAN]
  /\ pc \in [Proc -> Pc]
  /\ seen \in [Proc -> Identity \union {None}]

Holds(p) == pc[p] \in {"held", "drop"}

\* Two processes never both hold the lock (process-lock.ts:175-199).
Exclusion == \A p, q \in Proc : Holds(p) /\ Holds(q) => p = q

\* Two processes are about to rename the same guard, whose maker died before it wrote
\* an owner file. The tombstone of such a guard is an empty directory, which does not
\* keep the second of them from renaming the next guard (process-lock.ts:109-120).
Contended ==
  \E p, q \in Proc : p # q /\ seen[p] # None /\ seen[p] = seen[q] /\ seen[p][2] = None

\* Two processes never both hold the lock, however reclaims of dead owners, deaths of
\* makers and reclaimers at any step and late renames interleave, as long as two of
\* them do not judge the same ownerless guard before either has renamed it
\* (process-lock.ts:88-172).
ExclusionUnlessContended == ([]~Contended) => []Exclusion

\* A lock whose maker is dead does not stay: as long as one live process keeps
\* trying it is reclaimed, although reclaimers die with the guard
\* (process-lock.ts:77-121).
DeadLockIsReclaimed ==
  (lock # None /\ pc[lock.maker] = "dead") ~> (lock = None \/ pc[lock.maker] # "dead")
=============================================================================
