--------------------------- MODULE InstallLifecycle ---------------------------
(***************************************************************************)
(* The lifecycle of the OpenClaw integration (openclaw-install.ts):        *)
(* install, rollback and uninstall, each a sequence of steps on several    *)
(* files and on the configuration of another program, with the undoing of  *)
(* a failed one, crashes at any point, and what others do to the same      *)
(* files and configuration.                                                *)
(*                                                                         *)
(* A release stands for its content: its id, its digests and the runtime   *)
(* it carries.  The lifecycle lock lets one process at a time run an       *)
(* operation (module ProcessLock); a crashed one leaves its work where it  *)
(* was.  OpenClaw is external: its calls may fail before or after they     *)
(* take effect.  A file is replaced with one rename, and what follows it   *)
(* (the sync of the directory, the chmod) may still fail.                  *)
(* The restart of the gateway after the commit changes nothing here.       *)
(***************************************************************************)
EXTENDS Naturals, Sequences

CONSTANTS
  Release,    \* releases that can be installed
  Legacy,     \* those that an earlier version installed, without a published digest
  Managed,    \* those that carry a Prime runtime
  Policy,     \* host policies an operator may install
  Foreign,    \* a directory the lifecycle did not create
  MaxFaults,  \* bound: steps that fail, crashes and corruptions of a release
  None

ASSUME InstallAssumption ==
  /\ Legacy \subseteq Release
  /\ Managed \subseteq Release
  /\ Foreign \notin Release
  /\ None \notin Release \union {Foreign}
  /\ MaxFaults \in Nat

HostConfig == Policy \X (Managed \union {None})
Link == Release \union {None, Foreign}
Plugin == {"prime-dispatch", "other"}
Manifest == [active : BOOLEAN, current : Release, previous : Release \union {None},
             verified : SUBSET Release]

ASSUME NoManifestAssumption == None \notin Manifest

VARIABLES
  disk,              \* per release, its directory
  host,              \* config/host.json: its policy and the release whose runtime it pins
  current,           \* the link current
  extension,         \* the link extensions/prime-dispatch
  allow, entry,      \* plugins.allow and plugins.entries["prime-dispatch"]
  registry,          \* the source in OpenClaw's plugin registry
  manifest,          \* install.json
  op, rel, source,   \* the operation that runs, its release and its host config
  mode, todo,        \* is it doing or undoing, and its steps to come
  was,               \* what it read at its start
  threw,             \* the step of it that failed, if one did
  switched,          \* the restores it holds
  outcome,           \* how the last operation ended
  faults             \* faults so far

world == <<current, extension, allow, entry, registry>>
files == <<disk, host, manifest>>
opVars == <<op, rel, source, was, threw>>
vars == <<world, files, opVars, mode, todo, switched, outcome, faults>>

NoWas == [current |-> None, extension |-> None, host |-> None, allow |-> {},
          entry |-> "absent", manifest |-> None]

\* Nothing is installed, or what an earlier version left is: a release of its own, or one
\* installed over it, and perhaps a rollback pointer to one without a published digest.
Init ==
  /\ \/ /\ disk = [r \in Release |-> "none"]
        /\ current = None
        /\ extension \in {None, Foreign}
        /\ host = None /\ manifest = None /\ registry = None
        /\ allow = {} /\ entry = "absent"
     \/ \E r \in Release, q \in Legacy \union {None}, h \in HostConfig :
        /\ q # r
        /\ q = None => r \in Legacy
        /\ disk = [x \in Release |-> IF x = r THEN IF r \in Legacy THEN "legacy" ELSE "intact"
                                    ELSE IF x = q THEN "legacy" ELSE "none"]
        /\ current = r /\ extension = r /\ registry = r
        /\ host = h /\ h[2] \in {r, None}
        /\ manifest = [active |-> TRUE, current |-> r, previous |-> q,
                       verified |-> {r} \ Legacy]
        /\ allow = {"prime-dispatch"} /\ entry = "enabled"
  /\ op = "none" /\ rel = None /\ source = None
  /\ mode = "idle" /\ todo = <<>>
  /\ was = NoWas
  /\ threw = "none"
  /\ switched = {}
  /\ outcome = "none"
  /\ faults = 0

Fault == faults < MaxFaults /\ faults' = faults + 1

-----------------------------------------------------------------------------
(* The steps of the operations *)

Steps ==
  [install |-> <<"prepare", "host", "state", "current", "extension", "patch", "validate",
                 "refresh", "manifest">>,
   repair |-> <<"refresh">>,
   rollback |-> <<"current", "activate", "extension", "patch", "validate", "refresh",
                  "manifest">>,
   uninstall |-> <<"patch", "validate", "current", "extension", "refresh", "manifest">>]

\* Mutant of UndoSteps: an install leaves its link.
UndoButCurrent ==
  [install |-> <<"extension", "patch", "refresh", "host">>,
   repair |-> <<>>,
   rollback |-> <<"extension", "current", "patch", "refresh", "host">>,
   uninstall |-> <<"patch", "extension", "current", "refresh", "manifest">>]

\* What the catch block of an operation undoes, in its order.
UndoSteps ==
  [install |-> <<"extension", "current", "patch", "refresh", "host">>,
   repair |-> <<>>,
   rollback |-> <<"extension", "current", "patch", "refresh", "host">>,
   uninstall |-> <<"patch", "extension", "current", "refresh", "manifest">>]

\* The steps before the try; the failure of "state" has a catch block of its own.
Undo(o, step) ==
  CASE o = "install" /\ step \in {"prepare", "host", "current"} -> <<>>
    [] o = "install" /\ step = "state" -> <<"host">>
    [] o = "rollback" /\ step = "current" -> <<>>
    [] OTHER -> UndoSteps[o]

\* Mutant of Resolved: the registry takes whatever the link is.
ResolvedAnything == extension

\* The source the registry gets from the link.
Resolved == IF extension \in Release THEN extension ELSE None

\* releaseMatches: what is published is what was recorded when it was.
ReleaseMatches(r) == disk[r] = "intact"

\* Mutant of AlreadyInstalled: the extension link is not looked at.
AlreadyInstalledHalf(r, s) ==
  /\ manifest # None /\ manifest.active /\ manifest.current = r
  /\ ReleaseMatches(r)
  /\ current = r
  /\ entry = "enabled" /\ "prime-dispatch" \in allow
  /\ host = s
  /\ manifest.previous \in manifest.verified \union {None}

\* Mutant of AlreadyInstalled: a rollback pointer without a digest is not looked at.
AlreadyInstalledStale(r, s) ==
  /\ manifest # None /\ manifest.active /\ manifest.current = r
  /\ ReleaseMatches(r)
  /\ current = r /\ extension = r
  /\ entry = "enabled" /\ "prime-dispatch" \in allow
  /\ host = s

AlreadyInstalled(r, s) ==
  /\ manifest # None
  /\ manifest.active
  /\ manifest.current = r
  /\ ReleaseMatches(r)
  /\ current = r
  /\ extension = r
  /\ entry = "enabled"
  /\ "prime-dispatch" \in allow
  /\ host = s
  /\ manifest.previous \in manifest.verified \union {None}

Begin(o, r, s) ==
  /\ mode = "idle"
  /\ op' = o /\ rel' = r /\ source' = s
  /\ mode' = "do"
  /\ todo' = Steps[o]
  /\ was' = [current |-> current, extension |-> extension, host |-> host,
             allow |-> allow, entry |-> entry, manifest |-> manifest]
  /\ threw' = "none"
  /\ switched' = {}
  /\ outcome' = "none"
  /\ UNCHANGED <<world, files, faults>>

\* The operator's policy pins its own runtime, or the one the release carries.
BeginInstall ==
  \E r \in Release, p \in Policy, m \in Managed \union {None} :
    /\ m \in {r, None}
    /\ Begin(IF AlreadyInstalled(r, <<p, m>>) THEN "repair" ELSE "install", r, <<p, m>>)

\* Mutant of BeginRollback: the content of the release is not verified.
BeginRollbackUnverified ==
  /\ manifest # None
  /\ manifest.previous \in manifest.verified
  /\ Begin("rollback", manifest.previous, None)

BeginRollback ==
  /\ manifest # None
  /\ manifest.previous \in manifest.verified
  /\ ReleaseMatches(manifest.previous)
  /\ Begin("rollback", manifest.previous, None)

BeginUninstall == Begin("uninstall", None, None)

\* The step at the head of todo, in one of the two modes.
At(m, step) == mode = m /\ todo # <<>> /\ Head(todo) = step

\* A step has been taken: of doing it, or of undoing.
Taken ==
  /\ todo' = Tail(todo)
  /\ UNCHANGED faults
  /\ IF Len(todo) > 1
     THEN UNCHANGED <<mode, opVars, outcome>>
     ELSE /\ mode' = "idle"
          /\ outcome' = IF mode = "do" THEN "ok"
                        ELSE IF outcome = "unsure" THEN "unsure" ELSE "failed"
          /\ UNCHANGED opVars

\* What a step refuses: another content under the release's id, a host config that
\* pins a runtime the target has not, and a directory that is no link.
Refused ==
  CASE At("do", "prepare") -> disk[rel] # "none" /\ ~ReleaseMatches(rel)
    [] At("do", "activate") -> host = None \/ (rel \notin Managed /\ host[2] # None)
    [] At("do", "current") -> op = "uninstall" /\ current = Foreign
    [] At("do", "extension") -> op = "uninstall" /\ extension = Foreign
    [] OTHER -> FALSE

\* prepareRelease publishes with one rename.
Prepare ==
  /\ At("do", "prepare")
  /\ ~Refused
  /\ disk' = [disk EXCEPT ![rel] = "intact"]
  /\ Taken
  /\ UNCHANGED <<world, host, manifest, switched>>

\* What installHostConfig writes, or activateManagedPrimeRuntime.
NewHost ==
  IF op = "install" THEN source
  ELSE IF rel \in Managed THEN <<host[1], rel>> ELSE host

WriteHost ==
  /\ At("do", "host") \/ At("do", "activate")
  /\ ~Refused
  /\ host' = NewHost
  /\ switched' = switched \union {"host"}
  /\ Taken
  /\ UNCHANGED <<world, disk, manifest>>

\* switchDirectoryLink, or detachOwnedLink: only a link into the releases is removed.
Switch(step, link) ==
  /\ At("do", step)
  /\ ~Refused
  /\ link' = IF op = "uninstall" THEN None ELSE rel
  /\ switched' = switched \union {step}
  /\ Taken
  /\ UNCHANGED <<allow, entry, registry, files>>

SwitchCurrent == Switch("current", current) /\ UNCHANGED extension
SwitchExtension == Switch("extension", extension) /\ UNCHANGED current

\* The patch replaces plugins.allow by the list that was read, with or without our id.
Patched ==
  IF op = "uninstall"
  THEN /\ allow' = was.allow \ {"prime-dispatch"}
       /\ entry' = IF was.entry = "absent" THEN entry ELSE "disabled"
  ELSE /\ allow' = was.allow \union {"prime-dispatch"}
       /\ entry' = "enabled"

ApplyConfigPatch ==
  /\ At("do", "patch")
  /\ Patched
  /\ Taken
  /\ UNCHANGED <<current, extension, registry, files, switched>>

\* initializeState and validateConfig change nothing of this.
Check ==
  /\ At("do", "state") \/ At("do", "validate")
  /\ Taken
  /\ UNCHANGED <<world, files, switched>>

RefreshPluginRegistry ==
  /\ At("do", "refresh") \/ At("undo", "refresh")
  /\ registry' = Resolved
  /\ Taken
  /\ UNCHANGED <<current, extension, allow, entry, files, switched>>

\* Mutant of RollbackRelease: releases without a published digest are offered too.
RollbackReleaseAny ==
  IF was.manifest = None \/ was.manifest.current = rel THEN None ELSE was.manifest.current

\* selectVerifiedRollbackRelease
RollbackRelease ==
  LET m == was.manifest
      Offered(r) == r # None /\ r # rel /\ r \in m.verified IN
  IF m = None THEN None
  ELSE IF Offered(m.current) THEN m.current
  ELSE IF Offered(m.previous) THEN m.previous
  ELSE None

\* What an operation commits; an uninstall writes only over a manifest that is there.
NewManifest ==
  LET m == was.manifest IN
  CASE op = "install" ->
         [active |-> TRUE, current |-> rel, previous |-> RollbackRelease,
          verified |-> {rel} \union (IF m = None THEN {} ELSE m.verified)]
    [] op = "rollback" ->
         [m EXCEPT !.active = TRUE, !.current = rel, !.previous = m.current]
    [] OTHER -> IF m = None THEN None ELSE [m EXCEPT !.active = FALSE]

\* writeInstallManifest is the commit.
WriteManifest ==
  /\ At("do", "manifest")
  /\ manifest' = NewManifest
  /\ Taken
  /\ UNCHANGED <<world, disk, host, switched>>

-----------------------------------------------------------------------------
(* Failure *)

\* What a step that does not end may leave: OpenClaw's patch and refresh, and the rename
\* of a file, may have taken effect, and a foreign directory may have been moved away.
PartlyDone ==
  LET May(step) == ~Refused /\ Head(todo) = step IN
  /\ \/ May("patch") /\ Patched
     \/ UNCHANGED <<allow, entry>>
  /\ registry' \in {registry} \union (IF May("refresh") THEN {Resolved} ELSE {})
  /\ extension' \in {extension} \union
       (IF May("extension") /\ op # "uninstall" /\ extension = Foreign THEN {None} ELSE {})
  /\ host' \in {host} \union (IF May("host") \/ May("activate") THEN {NewHost} ELSE {})
  /\ manifest' \in {manifest} \union (IF May("manifest") THEN {NewManifest} ELSE {})
  /\ UNCHANGED <<disk, current>>

\* A step throws: no restore is held of what it did.
StepFails ==
  /\ mode = "do"
  /\ IF Refused THEN UNCHANGED faults ELSE Fault
  /\ PartlyDone
  /\ LET undo == Undo(op, Head(todo)) IN
     /\ todo' = undo
     /\ mode' = IF undo = <<>> THEN "idle" ELSE "undo"
     /\ outcome' = IF undo = <<>> THEN "stopped" ELSE "failed"
  /\ threw' = Head(todo)
  /\ UNCHANGED <<op, rel, source, was, switched>>

\* A restored link is the one that was replaced, or, after a detach, comes back only
\* where there is none.
Restored(step, link, old) ==
  IF step \notin switched \/ (op = "uninstall" /\ link # None) THEN link ELSE old

RestoreLinks ==
  /\ \/ /\ At("undo", "current")
        /\ current' = Restored("current", current, was.current)
        /\ UNCHANGED extension
     \/ /\ At("undo", "extension")
        /\ extension' = Restored("extension", extension, was.extension)
        /\ UNCHANGED current
  /\ Taken
  /\ UNCHANGED <<allow, entry, registry, files, switched>>

\* restoreConfigSnapshot: an entry that was absent comes back disabled.
Unpatch ==
  /\ allow' = was.allow
  /\ entry' = IF was.entry = "absent" THEN "disabled" ELSE was.entry

RestoreConfigSnapshot ==
  /\ At("undo", "patch")
  /\ Unpatch
  /\ Taken
  /\ UNCHANGED <<current, extension, registry, files, switched>>

\* The host config comes back where its restore is held; an uninstall's manifest always.
OldHost == IF "host" \in switched THEN was.host ELSE host

RestoreFiles ==
  /\ \/ At("undo", "host") /\ host' = OldHost /\ UNCHANGED manifest
     \/ At("undo", "manifest") /\ manifest' = was.manifest /\ UNCHANGED host
  /\ Taken
  /\ UNCHANGED <<world, disk, switched>>

\* What a restore that does not end may leave: a link is removed before the old one is made.
PartlyUndone ==
  LET Is(step) == Head(todo) = step
      Removed(step) ==
        IF Is(step) /\ step \in switched /\ op # "uninstall" THEN {None} ELSE {} IN
  /\ current' \in {current} \union Removed("current")
  /\ extension' \in {extension} \union Removed("extension")
  /\ \/ Is("patch") /\ Unpatch
     \/ UNCHANGED <<allow, entry>>
  /\ registry' \in {registry} \union (IF Is("refresh") THEN {Resolved} ELSE {})
  /\ host' \in {host} \union (IF Is("host") THEN {OldHost} ELSE {})
  /\ manifest' \in {manifest} \union (IF Is("manifest") THEN {was.manifest} ELSE {})
  /\ UNCHANGED disk

\* A restore that throws is ignored.
RestoreFails ==
  /\ mode = "undo"
  /\ Fault
  /\ PartlyUndone
  /\ todo' = Tail(todo)
  /\ mode' = IF Len(todo) > 1 THEN "undo" ELSE "idle"
  /\ outcome' = "unsure"
  /\ UNCHANGED <<opVars, switched>>

\* The process dies; the next one gets its lock when it is stale.
Crash ==
  /\ mode # "idle"
  /\ Fault
  /\ IF mode = "do" THEN PartlyDone ELSE PartlyUndone
  /\ mode' = "idle"
  /\ todo' = <<>>
  /\ outcome' = "crashed"
  /\ UNCHANGED <<opVars, switched>>

\* Somebody installs another plugin.
OtherAllows ==
  /\ "other" \notin allow
  /\ allow' = allow \union {"other"}
  /\ UNCHANGED <<current, extension, entry, registry, files, opVars, mode, todo, switched,
                 outcome, faults>>

\* Somebody changes a release; not while an operation is running on it.
Corrupt(r) ==
  /\ mode = "idle"
  /\ disk[r] = "intact"
  /\ Fault
  /\ disk' = [disk EXCEPT ![r] = "corrupt"]
  /\ UNCHANGED <<world, host, manifest, opVars, mode, todo, switched, outcome>>

-----------------------------------------------------------------------------
Next ==
  \/ BeginInstall \/ BeginRollback \/ BeginUninstall
  \/ Prepare \/ WriteHost \/ SwitchCurrent \/ SwitchExtension \/ ApplyConfigPatch
  \/ Check \/ RefreshPluginRegistry \/ WriteManifest
  \/ StepFails \/ RestoreLinks \/ RestoreConfigSnapshot \/ RestoreFiles \/ RestoreFails
  \/ Crash \/ OtherAllows \/ \E r \in Release : Corrupt(r)

Spec == Init /\ [][Next]_vars

-----------------------------------------------------------------------------
(* Properties *)

\* Type correctness of the files, of OpenClaw's configuration and of the operation.
TypeOK ==
  /\ disk \in [Release -> {"none", "legacy", "intact", "corrupt"}]
  /\ host \in HostConfig \union {None}
  /\ {current, extension} \subseteq Link
  /\ allow \subseteq Plugin
  /\ entry \in {"absent", "disabled", "enabled"}
  /\ registry \in Release \union {None}
  /\ manifest \in Manifest \union {None}
  /\ op \in {"none", "install", "repair", "rollback", "uninstall"}
  /\ rel \in Release \union {None}
  /\ source \in HostConfig \union {None}
  /\ threw \in {"prepare", "host", "state", "current", "activate", "extension", "patch",
                "validate", "refresh", "manifest", "none"}
  /\ mode \in {"idle", "do", "undo"}
  /\ mode = "idle" <=> todo = <<>>
  /\ switched \subseteq {"current", "extension", "host"}
  /\ faults \in 0..MaxFaults
  /\ outcome \in {"none", "ok", "failed", "stopped", "unsure", "crashed"}

Ended(how) == mode = "idle" /\ outcome = how

Activated(r) ==
  /\ current = r /\ extension = r /\ registry = r
  /\ entry = "enabled" /\ "prime-dispatch" \in allow
  /\ manifest # None /\ manifest.active /\ manifest.current = r

Deactivated ==
  /\ current = None /\ extension = None /\ registry = None
  /\ entry # "enabled" /\ "prime-dispatch" \notin allow
  /\ manifest = None \/ ~manifest.active

\* An operation that reports success has left links, registry, configuration,
\* manifest and, after a rollback, the pinned runtime in agreement, whatever crash or
\* failure it found the files in (openclaw-install.ts:257-293, 326-357, 435-456).
SuccessIsCoherent ==
  Ended("ok") =>
    /\ op # "uninstall" => Activated(rel)
    /\ op = "uninstall" => Deactivated
    /\ op \in {"install", "repair"} => host = source
    /\ op = "rollback" => host[2] = IF rel \in Managed THEN rel ELSE None

\* An operation that throws, and none of whose restores did, leaves links, configuration,
\* manifest and policy as they were, also when they were the remains of a crash, and the
\* registry names what the link names (openclaw-install.ts:357-366, 457-466, 525-535).
\* The exceptions of the code are part of it: install.json keeps the new content when its
\* write failed after the rename, host.json when an activation did so or when an install
\* stopped before its try (lines 302-323, 436, 356, 455); a foreign directory whose
\* replacement failed halfway stays in backups, and what another plugin was allowed
\* meanwhile may be gone.
FailureIsUndone ==
  Ended("failed") \/ Ended("stopped") =>
    /\ current = was.current
    /\ extension = was.extension \/ was.extension = Foreign
    /\ \/ manifest = was.manifest
       \/ op # "uninstall" /\ threw = "manifest" /\ manifest = NewManifest
    /\ \/ host = was.host
       \/ /\ threw = "activate" \/ (op = "install" /\ threw \in {"host", "current"})
          /\ host = NewHost
    /\ allow \ {"other"} = was.allow \ {"other"}
    /\ entry = "enabled" <=> was.entry = "enabled"
    /\ Ended("failed") /\ switched # {"host"} => registry = Resolved

\* Without a published digest a rollback pointer is only ever one an earlier version left,
\* to a release no operation takes for its own; an install, repair or rollback that
\* succeeds has retired it.  One with a digest names another release than the current
\* one, and that release is still there (openclaw-install.ts:272, 1529-1561;
\* docs/openclaw-host-lifecycle.md:167-172).
RollbackTargetIsPublished ==
  /\ manifest # None /\ manifest.previous # None =>
       /\ manifest.previous # manifest.current
       /\ disk[manifest.previous] \in IF manifest.previous \in manifest.verified
                                      THEN {"intact", "corrupt"} ELSE {"legacy"}
  /\ Ended("ok") /\ op # "uninstall" => manifest.previous \in manifest.verified \union {None}

\* Whether its write returns or not, an operation commits an active manifest only for a
\* release whose content it verified and with a rollback target that has a digest or
\* none, and it never loses one that has a digest (openclaw-install.ts:334-356, 448-455).
CommitIsVerified ==
  [][mode = "do" /\ manifest' # manifest /\ manifest' # None =>
       /\ manifest'.active => /\ disk[manifest'.current] = "intact"
                              /\ manifest'.previous \in manifest'.verified \union {None}
       /\ manifest # None /\ manifest.previous \in manifest.verified =>
            manifest'.previous \in manifest'.verified]_vars

=============================================================================
