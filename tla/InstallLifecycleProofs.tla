------------------------ MODULE InstallLifecycleProofs ------------------------
(***************************************************************************)
(* Proofs about InstallLifecycle, for every set of releases and policies   *)
(* and any number of faults: what success and failure of an operation      *)
(* leave behind, and what install.json promises a rollback.                *)
(***************************************************************************)
EXTENDS InstallLifecycle, SequenceTheorems, TLAPS

Operations == {"install", "repair", "rollback", "uninstall"}
StepNames == {"prepare", "host", "state", "current", "activate", "extension", "patch",
              "validate", "refresh", "manifest"}

Suffix(s, k) == SubSeq(s, k, Len(s))

\* An operation is somewhere in its steps, or in its undoing.
Where ==
  /\ mode # "idle" => op \in Operations
  /\ mode = "do" => \E k \in 1..Len(Steps[op]) : todo = Suffix(Steps[op], k)
  /\ mode = "undo" => \E k \in 1..Len(UndoSteps[op]) : todo = Suffix(UndoSteps[op], k)

\* The steps to come.
Ahead == {todo[i] : i \in 1..Len(todo)}

\* What an operation works with has the type it needs.
WorkTyped ==
  /\ was \in [current : Link, extension : Link, host : HostConfig \union {None},
              allow : SUBSET Plugin, entry : {"absent", "disabled", "enabled"},
              manifest : Manifest \union {None}]
  /\ op \in {"install", "repair"} => rel \in Release /\ source \in HostConfig
  /\ op = "rollback" => rel \in Release /\ was.manifest # None

Typed == TypeOK /\ Where /\ WorkTyped

-----------------------------------------------------------------------------
(* What holds while an operation runs *)

\* The link an operation makes: uninstalling removes it.
Target == IF op = "uninstall" THEN None ELSE rel

Configured ==
  IF op = "uninstall" THEN entry # "enabled" /\ "prime-dispatch" \notin allow
                      ELSE entry = "enabled" /\ "prime-dispatch" \in allow

Unpatched == allow \ {"other"} = was.allow \ {"other"} /\ entry = was.entry

\* The effects of the steps that are done.
Effects ==
  mode = "do" =>
    /\ outcome = "none"
    /\ op = "install" /\ "prepare" \notin Ahead => disk[rel] = "intact"
    /\ op = "install" /\ "host" \notin Ahead => host = source
    /\ op = "rollback" /\ "activate" \notin Ahead =>
         host[2] = IF rel \in Managed THEN rel ELSE None
    /\ "current" \notin Ahead => current = Target
    /\ "extension" \notin Ahead => extension = Target
    /\ "patch" \notin Ahead => Configured
    /\ "refresh" \notin Ahead => registry = Resolved

\* What the operation was allowed to begin on.
Begun ==
  mode = "do" =>
    /\ op = "rollback" => /\ rel = was.manifest.previous /\ disk[rel] = "intact"
                          /\ rel \in was.manifest.verified
    /\ op = "repair" =>
         /\ host = source /\ manifest # None /\ manifest.active /\ manifest.current = rel
         /\ manifest.previous \in manifest.verified \union {None}

\* What is not yet changed is what was read at the start.
Untouched ==
  mode = "do" =>
    /\ "current" \in Ahead => "current" \notin switched
    /\ "extension" \in Ahead => "extension" \notin switched
    /\ "extension" \notin switched => extension = was.extension
    /\ op = "install" /\ "host" \in Ahead => "host" \notin switched
    /\ op = "rollback" /\ "activate" \in Ahead => "host" \notin switched
    /\ op = "uninstall" => "host" \notin switched
    /\ op = "repair" => switched = {} /\ Unpatched
    /\ op = "install" /\ "host" \notin Ahead => "host" \in switched
    /\ "patch" \in Ahead => Unpatched

\* The restores an operation holds cover all that it changed, but for a write that failed
\* after its rename.
Restorable ==
  /\ mode # "idle" \/ outcome = "failed" =>
    /\ manifest = was.manifest \/ (threw = "manifest" /\ manifest = NewManifest)
    /\ "host" \notin switched => host = was.host \/ (threw = "activate" /\ host = NewHost)
    /\ "current" \notin switched => current = was.current
    /\ "extension" \notin switched => extension = was.extension \/ was.extension = Foreign
    /\ op = "uninstall" /\ "current" \in switched => current \in {None, was.current}
    /\ op = "uninstall" /\ "extension" \in switched => extension \in {None, was.extension}
  /\ mode = "do" => threw = "none"

Policed == host = was.host \/ (threw = "activate" /\ host = NewHost)

\* Undoing without a failed restore: what is not restored is still to come.
Undone ==
  /\ mode = "undo" => outcome \in {"failed", "unsure"}
  /\ mode # "do" /\ outcome = "failed" =>
       /\ "current" \in Ahead \/ current = was.current
       /\ "extension" \in Ahead \/ extension = was.extension \/ was.extension = Foreign
       /\ "host" \in Ahead \/ Policed
       /\ "manifest" \in Ahead \/ op # "uninstall" \/ manifest = was.manifest
       /\ "patch" \in Ahead \/ /\ allow \ {"other"} = was.allow \ {"other"}
                               /\ entry = "enabled" <=> was.entry = "enabled"
       /\ "refresh" \in Ahead \/ switched = {"host"} \/ registry = Resolved

\* An operation that stops before its try has changed no more than the host config.
Stopped ==
  Ended("stopped") =>
    /\ current = was.current
    /\ extension = was.extension
    /\ manifest = was.manifest
    /\ \/ host = was.host
       \/ op = "install" /\ threw \in {"host", "current"} /\ host = NewHost
    /\ allow \ {"other"} = was.allow \ {"other"} /\ entry = was.entry

\* What a rollback may activate is published, and so is the release it leaves; a pointer
\* without a digest is to a release that no operation touches.
OffersIn(d, m) ==
  m # None =>
    /\ \A r \in m.verified : d[r] \in {"intact", "corrupt"}
    /\ m.previous # m.current
    /\ m.previous \in m.verified => m.current \in m.verified
    /\ m.previous \notin m.verified \union {None} => d[m.previous] = "legacy"

OffersOf(m) == OffersIn(disk, m)

Offers == OffersOf(manifest) /\ (mode # "idle" => OffersOf(was.manifest))

\* A pointer without a digest does not survive a success.
Retired ==
  Ended("ok") /\ op # "uninstall" => manifest.previous \in manifest.verified \union {None}

Coherent == SuccessIsCoherent /\ Retired

Running == Effects /\ Begun /\ Untouched /\ Restorable /\ Undone /\ Stopped
LifecycleInv == Running /\ Offers /\ Coherent

-----------------------------------------------------------------------------
(* The tables of steps *)

LEMMA StepsTyped ==
  \A o \in Operations : Steps[o] \in Seq(StepNames) /\ UndoSteps[o] \in Seq(StepNames)
<1>1. ASSUME NEW o \in Operations
      PROVE  Steps[o] \in Seq(StepNames) /\ UndoSteps[o] \in Seq(StepNames)
  <2>1. CASE o = "install"
    BY <2>1 DEF Steps, UndoSteps, StepNames
  <2>2. CASE o = "repair"
    BY <2>2 DEF Steps, UndoSteps, StepNames
  <2>3. CASE o = "rollback"
    BY <2>3 DEF Steps, UndoSteps, StepNames
  <2>4. CASE o = "uninstall"
    BY <2>4 DEF Steps, UndoSteps, StepNames
  <2> QED  BY <2>1, <2>2, <2>3, <2>4 DEF Operations
<1> QED  BY <1>1

LEMMA StepsOnce ==
  ASSUME NEW o \in Operations
  PROVE  /\ \A i, j \in 1..Len(Steps[o]) : Steps[o][i] = Steps[o][j] => i = j
         /\ \A i, j \in 1..Len(UndoSteps[o]) : UndoSteps[o][i] = UndoSteps[o][j] => i = j
<1>1. CASE o = "install"
  BY <1>1 DEF Steps, UndoSteps
<1>2. CASE o = "repair"
  BY <1>2 DEF Steps, UndoSteps
<1>3. CASE o = "rollback"
  BY <1>3 DEF Steps, UndoSteps
<1>4. CASE o = "uninstall"
  BY <1>4 DEF Steps, UndoSteps
<1> QED  BY <1>1, <1>2, <1>3, <1>4 DEF Operations

\* Where the sequence of an operation stands, and what a suffix of it is.
Plan == IF mode = "do" THEN Steps[op] ELSE UndoSteps[op]

LEMMA SuffixFacts ==
  ASSUME NEW S, NEW s \in Seq(S), NEW k \in 1..Len(s)
  PROVE  /\ Suffix(s, k) # <<>> /\ Head(Suffix(s, k)) = s[k]
         /\ Len(Suffix(s, k)) = Len(s) - k + 1
         /\ Tail(Suffix(s, k)) = Suffix(s, k + 1)
         /\ k = Len(s) => Suffix(s, k + 1) = <<>>
         /\ {Suffix(s, k)[i] : i \in 1..Len(Suffix(s, k))} = {s[i] : i \in k..Len(s)}
<1>1. /\ Len(Suffix(s, k)) = Len(s) - k + 1
      /\ \A i \in 1..(Len(s) - k + 1) : Suffix(s, k)[i] = s[k + i - 1]
  BY SubSeqProperties DEF Suffix
<1>2. Head(Suffix(s, k)) = s[k] /\ Tail(Suffix(s, k)) = Suffix(s, k + 1)
  BY HeadTailOfSubSeq DEF Suffix
<1>3. k = Len(s) => Suffix(s, k + 1) = <<>>
  BY SubSeqEmpty DEF Suffix
<1>4. Suffix(s, k) # <<>>
  BY <1>1
<1>5. ASSUME NEW i \in k..Len(s)
      PROVE  \E j \in 1..(Len(s) - k + 1) : s[i] = Suffix(s, k)[j]
  <2>1. i - k + 1 \in 1..(Len(s) - k + 1) /\ k + (i - k + 1) - 1 = i
    OBVIOUS
  <2> QED  BY <1>1, <2>1
<1>6. ASSUME NEW j \in 1..(Len(s) - k + 1)
      PROVE  \E i \in k..Len(s) : s[i] = Suffix(s, k)[j]
  <2>1. k + j - 1 \in k..Len(s)
    OBVIOUS
  <2> QED  BY <1>1, <2>1
<1>7. {Suffix(s, k)[i] : i \in 1..(Len(s) - k + 1)} = {s[i] : i \in k..Len(s)}
  <2> DEFINE A == {Suffix(s, k)[i] : i \in 1..(Len(s) - k + 1)}
             B == {s[i] : i \in k..Len(s)}
  <2>1. ASSUME NEW x \in A  PROVE x \in B
    BY <2>1, <1>6
  <2>2. ASSUME NEW x \in B  PROVE x \in A
    BY <2>2, <1>5
  <2> QED  BY <2>1, <2>2
<1>8. {Suffix(s, k)[i] : i \in 1..Len(Suffix(s, k))} = {s[i] : i \in k..Len(s)}
  BY <1>1, <1>7
<1> QED  BY <1>1, <1>2, <1>3, <1>4, <1>8

LEMMA Position ==
  ASSUME Where, mode \in {"do", "undo"}
  PROVE  /\ op \in Operations /\ Plan \in Seq(StepNames)
         /\ \A i, j \in 1..Len(Plan) : Plan[i] = Plan[j] => i = j
         /\ \E k \in 1..Len(Plan) :
              /\ todo = Suffix(Plan, k) /\ todo # <<>> /\ Head(todo) = Plan[k]
              /\ Len(todo) = Len(Plan) - k + 1
              /\ Tail(todo) = Suffix(Plan, k + 1)
              /\ k = Len(Plan) => Tail(todo) = <<>>
              /\ Ahead = {Plan[i] : i \in k..Len(Plan)}
<1>1. op \in Operations
  BY DEF Where
<1>2. Plan \in Seq(StepNames)
  BY <1>1, StepsTyped DEF Plan
<1>3. \A i, j \in 1..Len(Plan) : Plan[i] = Plan[j] => i = j
  BY <1>1, StepsOnce DEF Plan
<1>4. PICK k \in 1..Len(Plan) : todo = Suffix(Plan, k)
  BY DEF Where, Plan
<1>5. Ahead = {Plan[i] : i \in k..Len(Plan)}
  <2>1. {Suffix(Plan, k)[i] : i \in 1..Len(Suffix(Plan, k))} = {Plan[i] : i \in k..Len(Plan)}
    BY <1>2, SuffixFacts
  <2> QED  BY <1>4, <2>1 DEF Ahead
<1>6. /\ todo # <<>> /\ Head(todo) = Plan[k] /\ Len(todo) = Len(Plan) - k + 1
      /\ Tail(todo) = Suffix(Plan, k + 1)
      /\ k = Len(Plan) => Tail(todo) = <<>>
  <2>1. /\ Suffix(Plan, k) # <<>> /\ Head(Suffix(Plan, k)) = Plan[k]
        /\ Len(Suffix(Plan, k)) = Len(Plan) - k + 1
        /\ Tail(Suffix(Plan, k)) = Suffix(Plan, k + 1)
        /\ k = Len(Plan) => Suffix(Plan, k + 1) = <<>>
    BY <1>2, SuffixFacts
  <2> QED  BY <1>4, <2>1
<1> QED  BY <1>1, <1>2, <1>3, <1>4, <1>5, <1>6

\* A step that is over, or a restore that failed, leaves the others to come.
LEMMA Advance ==
  ASSUME Where, mode \in {"do", "undo"}, op' = op, todo' = Tail(todo),
         mode' = IF Len(todo) > 1 THEN mode ELSE "idle"
  PROVE  /\ Where'
         /\ mode' = "idle" <=> todo' = <<>>
         /\ Ahead' = Ahead \ {Head(todo)}
         /\ Len(todo) = 1 => Ahead = {Head(todo)}
         /\ Head(todo) \in Ahead
<1>1. PICK k \in 1..Len(Plan) :
        /\ todo = Suffix(Plan, k) /\ todo # <<>> /\ Head(todo) = Plan[k]
        /\ Len(todo) = Len(Plan) - k + 1
        /\ Tail(todo) = Suffix(Plan, k + 1)
        /\ k = Len(Plan) => Tail(todo) = <<>>
        /\ Ahead = {Plan[i] : i \in k..Len(Plan)}
  BY Position
<1>2. /\ op \in Operations /\ Plan \in Seq(StepNames)
      /\ \A i, j \in 1..Len(Plan) : Plan[i] = Plan[j] => i = j
  BY Position
<1>3. Head(todo) \in Ahead
  BY <1>1
<1>4. CASE k = Len(Plan)
  <2>1. mode' = "idle" /\ todo' = <<>>
    BY <1>1, <1>4
  <2>2. Ahead' = {}
    BY <2>1 DEF Ahead
  <2>3. Ahead = {Head(todo)}
    BY <1>1, <1>2, <1>4
  <2>4. Where'
    BY <2>1 DEF Where
  <2> QED  BY <1>1, <1>3, <1>4, <2>1, <2>2, <2>3, <2>4
<1>5. CASE k < Len(Plan)
  <2>1. k + 1 \in 1..Len(Plan) /\ Len(todo) > 1 /\ mode' = mode
    BY <1>1, <1>5
  <2>2. Plan' = Plan /\ todo' = Suffix(Plan, k + 1)
    BY <1>1, <2>1 DEF Plan
  <2>3. Where'
    BY <1>2, <2>1, <2>2 DEF Where, Plan
  <2>4. Ahead' = {Plan[i] : i \in (k + 1)..Len(Plan)}
    <3>1. {Suffix(Plan, k + 1)[i] : i \in 1..Len(Suffix(Plan, k + 1))}
            = {Plan[i] : i \in (k + 1)..Len(Plan)}
      BY <1>2, <2>1, SuffixFacts
    <3> QED  BY <2>2, <3>1 DEF Ahead
  <2>5. Ahead' = Ahead \ {Head(todo)}
    BY <1>1, <1>2, <2>4
  <2>6. todo' # <<>> /\ mode' # "idle"
    BY <1>2, <2>1, <2>2, SuffixFacts
  <2> QED  BY <1>1, <1>3, <2>1, <2>3, <2>5, <2>6
<1> QED  BY <1>4, <1>5

\* Who takes a step, and what is still to come then.
LEMMA DoOrder ==
  ASSUME Where, mode = "do"
  PROVE  LET step == Head(todo) IN
         /\ todo # <<>> /\ step \in StepNames /\ op \in Operations
         /\ step \in {"prepare", "host", "state"} => op = "install"
         /\ step = "activate" => op = "rollback"
         /\ op # "repair" => (Len(todo) = 1 <=> step = "manifest")
         /\ op = "repair" => Len(todo) = 1 /\ step = "refresh"
         /\ step = "extension" => "refresh" \in Ahead
         /\ step = "prepare" => "host" \in Ahead
         /\ op = "install" /\ step \in {"prepare", "host", "state", "current"} =>
              {"current", "extension", "patch"} \subseteq Ahead
         /\ op = "install" /\ step \in {"state", "current"} => "host" \notin Ahead
         /\ op = "rollback" /\ step = "current" =>
              {"current", "activate", "extension", "patch"} \subseteq Ahead
<1> DEFINE s == Steps[op]
<1>1. PICK k \in 1..Len(s) :
        /\ todo # <<>> /\ Head(todo) = s[k] /\ Len(todo) = Len(s) - k + 1
        /\ Ahead = {s[i] : i \in k..Len(s)}
  BY Position DEF Plan
<1>2. op \in Operations /\ s \in Seq(StepNames)
  BY Position DEF Plan
<1>3. Head(todo) \in StepNames
  BY <1>1, <1>2
<1>4. \A i, j \in 1..Len(s) : s[i] = s[j] => i = j
  BY Position DEF Plan
<1>5. CASE op = "install"
  <2>1. /\ Len(s) = 9 /\ s[1] = "prepare" /\ s[2] = "host" /\ s[3] = "state"
        /\ s[4] = "current" /\ s[5] = "extension" /\ s[6] = "patch" /\ s[7] = "validate"
        /\ s[8] = "refresh" /\ s[9] = "manifest"
    BY <1>5 DEF Steps
  <2>2. s[k] = "manifest" <=> k = 9
    BY <1>4, <2>1
  <2>3. s[k] = "extension" => k = 5
    BY <1>4, <2>1
  <2>4. /\ s[k] = "prepare" => k = 1
        /\ s[k] \in {"prepare", "host", "state", "current"} => k <= 4
        /\ s[k] \in {"state", "current"} => k \in {3, 4}
    BY <1>4, <2>1
  <2>5. s[k] # "activate"
    BY <2>1
  <2>6. k = 5 => "refresh" \in Ahead
    BY <1>1, <2>1
  <2>7. /\ k <= 4 => {"current", "extension", "patch"} \subseteq Ahead
        /\ k = 1 => "host" \in Ahead
    BY <1>1, <2>1
  <2>8. k \in {3, 4} => "host" \notin Ahead
    BY <1>1, <1>4, <2>1
  <2>9. Len(todo) = 1 <=> k = 9
    BY <1>1, <2>1
  <2> HIDE DEF s
  <2> QED  BY <1>1, <1>2, <1>3, <1>5, <2>2, <2>3, <2>4, <2>5, <2>6, <2>7, <2>8, <2>9
<1>6. CASE op = "repair"
  <2>1. Len(s) = 1 /\ s[1] = "refresh"
    BY <1>6 DEF Steps
  <2> QED  BY <1>1, <1>2, <1>3, <1>6, <2>1
<1>7. CASE op = "rollback"
  <2>1. /\ Len(s) = 7 /\ s[1] = "current" /\ s[2] = "activate" /\ s[3] = "extension"
        /\ s[4] = "patch" /\ s[5] = "validate" /\ s[6] = "refresh" /\ s[7] = "manifest"
    BY <1>7 DEF Steps
  <2>2. s[k] = "manifest" <=> k = 7
    BY <1>4, <2>1
  <2>3. s[k] = "extension" => k = 3
    BY <1>4, <2>1
  <2>4. s[k] \notin {"prepare", "host", "state"}
    BY <2>1
  <2>5. k = 3 => "refresh" \in Ahead
    BY <1>1, <2>1
  <2>6. s[k] = "current" => k = 1
    BY <1>4, <2>1
  <2>7. k = 1 => {"current", "activate", "extension", "patch"} \subseteq Ahead
    BY <1>1, <2>1
  <2>8. Len(todo) = 1 <=> k = 7
    BY <1>1, <2>1
  <2> HIDE DEF s
  <2> QED  BY <1>1, <1>2, <1>3, <1>7, <2>2, <2>3, <2>4, <2>5, <2>6, <2>7, <2>8
<1>8. CASE op = "uninstall"
  <2>1. /\ Len(s) = 6 /\ s[1] = "patch" /\ s[2] = "validate" /\ s[3] = "current"
        /\ s[4] = "extension" /\ s[5] = "refresh" /\ s[6] = "manifest"
    BY <1>8 DEF Steps
  <2>2. s[k] = "manifest" <=> k = 6
    BY <1>4, <2>1
  <2>3. s[k] = "extension" => k = 4
    BY <1>4, <2>1
  <2>4. s[k] \notin {"prepare", "host", "state", "activate"}
    BY <2>1
  <2>5. k = 4 => "refresh" \in Ahead
    BY <1>1, <2>1
  <2> QED  BY <1>1, <1>2, <1>3, <1>8, <2>1, <2>2, <2>3, <2>4, <2>5
<1> QED  BY <1>2, <1>5, <1>6, <1>7, <1>8 DEF Operations

LEMMA UndoOrder ==
  ASSUME Where, mode = "undo"
  PROVE  LET step == Head(todo) IN
         /\ todo # <<>> /\ op \in Operations
         /\ step \in {"extension", "current", "patch", "refresh", "host", "manifest"}
         /\ step \in {"extension", "current"} => "refresh" \in Ahead
<1> DEFINE s == UndoSteps[op]
<1>1. PICK k \in 1..Len(s) :
        /\ todo # <<>> /\ Head(todo) = s[k]
        /\ Ahead = {s[i] : i \in k..Len(s)}
  BY Position DEF Plan
<1>2. op \in Operations
  BY Position
<1>3. \A i, j \in 1..Len(s) : s[i] = s[j] => i = j
  BY Position DEF Plan
<1>4. CASE op \in {"install", "rollback"}
  <2>1. /\ Len(s) = 5 /\ s[1] = "extension" /\ s[2] = "current" /\ s[3] = "patch"
        /\ s[4] = "refresh" /\ s[5] = "host"
    BY <1>4 DEF UndoSteps
  <2>2. s[k] \in {"extension", "current"} => k <= 4
    BY <2>1
  <2>3. k <= 4 => "refresh" \in Ahead
    BY <1>1, <2>1
  <2> QED  BY <1>1, <1>2, <2>1, <2>2, <2>3
<1>5. CASE op = "repair"
  <2>1. Len(s) = 0
    BY <1>5 DEF UndoSteps
  <2> QED  BY <1>1, <2>1
<1>6. CASE op = "uninstall"
  <2>1. /\ Len(s) = 5 /\ s[1] = "patch" /\ s[2] = "extension" /\ s[3] = "current"
        /\ s[4] = "refresh" /\ s[5] = "manifest"
    BY <1>6 DEF UndoSteps
  <2>2. s[k] \in {"extension", "current"} => k <= 4
    BY <2>1
  <2>3. k <= 4 => "refresh" \in Ahead
    BY <1>1, <2>1
  <2> QED  BY <1>1, <1>2, <2>1, <2>2, <2>3
<1> QED  BY <1>2, <1>4, <1>5, <1>6 DEF Operations

\* The undoing that a failed step begins: all of it, or only the host config.
LEMMA UndoStarts ==
  ASSUME NEW o \in Operations, NEW step, Undo(o, step) # <<>>,
         op' = o, mode' = "undo", todo' = Undo(o, step)
  PROVE  /\ Where'
         /\ \/ /\ {"current", "extension", "patch", "refresh"} \subseteq Ahead'
               /\ IF o = "uninstall" THEN "manifest" \in Ahead' ELSE "host" \in Ahead'
            \/ o = "install" /\ step = "state" /\ "host" \in Ahead'
<1>1. CASE o = "install" /\ step = "state"
  <2>1. todo' = <<"host">>
    BY <1>1 DEF Undo
  <2>2. Len(UndoSteps["install"]) = 5 /\ UndoSteps["install"][5] = "host"
    BY DEF UndoSteps
  <2>3. Suffix(UndoSteps["install"], 5) = <<"host">>
    <3>1. /\ Len(Suffix(UndoSteps["install"], 5)) = 1
          /\ Suffix(UndoSteps["install"], 5)[1] = "host"
          /\ Suffix(UndoSteps["install"], 5) \in Seq(StepNames)
      BY <2>2, StepsTyped, SubSeqProperties DEF Suffix, Operations
    <3> QED  BY <3>1
  <2>4. Where'
    BY <1>1, <2>1, <2>2, <2>3 DEF Where, Operations
  <2>5. "host" \in Ahead'
    BY <2>1 DEF Ahead
  <2> QED  BY <1>1, <2>4, <2>5
<1>2. CASE todo' = UndoSteps[o] /\ o # "repair"
  <2> DEFINE s == UndoSteps[o]
  <2>1. s \in Seq(StepNames) /\ Len(s) = 5
    <3>1. s \in Seq(StepNames)
      BY StepsTyped
    <3>2. CASE o \in {"install", "rollback"}
      BY <3>1, <3>2 DEF UndoSteps
    <3>3. CASE o = "uninstall"
      BY <3>1, <3>3 DEF UndoSteps
    <3> QED  BY <1>2, <3>1, <3>2, <3>3 DEF Operations
  <2>2. todo' = Suffix(s, 1)
    BY <1>2, <2>1, SubSeqFull DEF Suffix
  <2>3. Where'
    BY <2>1, <2>2 DEF Where
  <2>4. Ahead' = {s[i] : i \in 1..5}
    BY <1>2, <2>1 DEF Ahead
  <2>5. CASE o \in {"install", "rollback"}
    <3>1. /\ s[1] = "extension" /\ s[2] = "current" /\ s[3] = "patch"
          /\ s[4] = "refresh" /\ s[5] = "host"
      BY <2>5 DEF UndoSteps
    <3> QED  BY <2>3, <2>4, <2>5, <3>1
  <2>6. CASE o = "uninstall"
    <3>1. /\ s[1] = "patch" /\ s[2] = "extension" /\ s[3] = "current" /\ s[4] = "refresh"
          /\ s[5] = "manifest"
      BY <2>6 DEF UndoSteps
    <3> QED  BY <2>3, <2>4, <2>6, <3>1
  <2> QED  BY <1>2, <2>5, <2>6 DEF Operations
<1>3. o # "repair"
  BY DEF Undo, UndoSteps
<1> QED  BY <1>1, <1>2, <1>3 DEF Undo

-----------------------------------------------------------------------------
(* Type correctness *)

LEMMA TakenFacts ==
  ASSUME Where, mode \in {"do", "undo"}, Taken
  PROVE  /\ Where' /\ UNCHANGED <<opVars, faults>>
         /\ mode' = "idle" <=> todo' = <<>>
         /\ Ahead' = Ahead \ {Head(todo)} /\ Head(todo) \in Ahead
         /\ \/ /\ Len(todo) # 1 /\ mode' = mode /\ outcome' = outcome
            \/ /\ Len(todo) = 1 /\ mode' = "idle" /\ Ahead = {Head(todo)} /\ Ahead' = {}
               /\ outcome' = IF mode = "do" THEN "ok"
                             ELSE IF outcome = "unsure" THEN "unsure" ELSE "failed"
<1>1. Len(todo) \in Nat \ {0}
  BY Position
<1>2. mode' = (IF Len(todo) > 1 THEN mode ELSE "idle") /\ op' = op /\ todo' = Tail(todo)
  BY <1>1 DEF Taken, opVars
<1>3. /\ Where' /\ (mode' = "idle" <=> todo' = <<>>)
      /\ Ahead' = Ahead \ {Head(todo)} /\ Head(todo) \in Ahead
      /\ Len(todo) = 1 => Ahead = {Head(todo)}
  BY <1>2, Advance
<1>4. CASE Len(todo) = 1
  BY <1>3, <1>4 DEF Taken
<1>5. CASE Len(todo) # 1
  <2>1. Len(todo) > 1
    BY <1>1, <1>5
  <2>2. UNCHANGED <<mode, opVars, outcome, faults>>
    BY <2>1 DEF Taken
  <2> QED  BY <1>3, <1>5, <2>2
<1> QED  BY <1>4, <1>5

LEMMA Opening ==
  ASSUME TypeOK, NEW o \in Operations, NEW r, NEW h, Begin(o, r, h)
  PROVE  /\ Where' /\ mode' = "do" /\ todo' # <<>>
         /\ Ahead' = {Steps[o][i] : i \in 1..Len(Steps[o])}
<1>1. Steps[o] \in Seq(StepNames) /\ Len(Steps[o]) >= 1
  <2>1. Steps[o] \in Seq(StepNames)
    BY StepsTyped
  <2>2. CASE o = "install"
    BY <2>1, <2>2 DEF Steps
  <2>3. CASE o = "repair"
    BY <2>1, <2>3 DEF Steps
  <2>4. CASE o = "rollback"
    BY <2>1, <2>4 DEF Steps
  <2>5. CASE o = "uninstall"
    BY <2>1, <2>5 DEF Steps
  <2> QED  BY <2>1, <2>2, <2>3, <2>4, <2>5 DEF Operations
<1>2. /\ mode' = "do" /\ op' = o /\ todo' = Steps[o]
  BY DEF Begin
<1>3. todo' = Suffix(Steps[o], 1)
  BY <1>1, <1>2, SubSeqFull DEF Suffix
<1> QED  BY <1>1, <1>2, <1>3 DEF Where, Ahead

LEMMA BeginTyped ==
  ASSUME Typed, NEW o \in Operations, NEW r \in Release \union {None},
         NEW h \in HostConfig \union {None},
         o \in {"install", "repair"} => r \in Release /\ h \in HostConfig,
         o = "rollback" => r \in Release /\ manifest # None,
         Begin(o, r, h)
  PROVE  Typed'
<1>1. Where' /\ mode' = "do" /\ todo' # <<>>
  BY Opening DEF Typed
<1>2. /\ op' = o /\ rel' = r /\ source' = h /\ switched' = {} /\ outcome' = "none"
      /\ threw' = "none"
      /\ was' = [current |-> current, extension |-> extension, host |-> host,
                 allow |-> allow, entry |-> entry, manifest |-> manifest]
      /\ UNCHANGED <<world, files, faults>>
  BY DEF Begin
<1>3. TypeOK'
  BY <1>1, <1>2 DEF Typed, TypeOK, world, files, Operations
<1>4. WorkTyped'
  BY <1>2 DEF Typed, TypeOK, WorkTyped
<1> QED  BY <1>1, <1>3, <1>4 DEF Typed

LEMMA NewTyped ==
  ASSUME Typed, mode = "do"
  PROVE  /\ Head(todo) \in {"host", "activate"} /\ ~Refused => NewHost \in HostConfig \union {None}
         /\ Head(todo) = "manifest" => NewManifest \in Manifest \union {None}
<1> USE DEF Typed
<1>1. CASE Head(todo) = "host"
  <2>1. op = "install"
    BY <1>1, DoOrder
  <2> QED  BY <1>1, <2>1 DEF NewHost, WorkTyped
<1>2. CASE Head(todo) = "activate" /\ ~Refused
  <2>1. todo # <<>> /\ op = "rollback"
    BY <1>2, DoOrder
  <2>2. host # None
    BY <1>2, <2>1 DEF Refused, At
  <2> QED  BY <1>2, <2>1, <2>2 DEF NewHost, TypeOK, HostConfig, WorkTyped
<1>3. CASE Head(todo) = "manifest"
  <2>1. was.manifest \in Manifest \union {None}
    BY DEF WorkTyped
  <2>2. CASE op = "install"
    <3>1. rel \in Release
      BY <2>2 DEF WorkTyped
    <3>2. RollbackRelease \in Release \union {None}
      BY <2>1 DEF RollbackRelease, Manifest
    <3>3. {rel} \union (IF was.manifest = None THEN {} ELSE was.manifest.verified)
            \in SUBSET Release
      BY <2>1, <3>1 DEF Manifest
    <3> QED  BY <1>3, <2>2, <3>1, <3>2, <3>3 DEF NewManifest, Manifest
  <2>3. CASE op = "rollback"
    <3>1. rel \in Release /\ was.manifest # None
      BY <2>3 DEF WorkTyped
    <3> QED  BY <1>3, <2>1, <2>3, <3>1 DEF NewManifest, Manifest
  <2>4. CASE op \notin {"install", "rollback"}
    BY <1>3, <2>1, <2>4 DEF NewManifest, Manifest
  <2> QED  BY <2>2, <2>3, <2>4
<1> QED  BY <1>1, <1>2, <1>3

LEMMA PatchTyped ==
  ASSUME Typed, Patched \/ Unpatch
  PROVE  allow' \subseteq Plugin /\ entry' \in {"absent", "disabled", "enabled"}
BY DEF Typed, Patched, Unpatch, WorkTyped, TypeOK, Plugin

FilesTyped ==
  /\ disk \in [Release -> {"none", "legacy", "intact", "corrupt"}]
  /\ host \in HostConfig \union {None}
  /\ {current, extension} \subseteq Link
  /\ allow \subseteq Plugin
  /\ entry \in {"absent", "disabled", "enabled"}
  /\ registry \in Release \union {None}
  /\ manifest \in Manifest \union {None}

LEMMA PartlyDoneTyped ==
  ASSUME Typed, mode = "do", PartlyDone
  PROVE  FilesTyped'
<1>1. host' \in HostConfig \union {None} /\ manifest' \in Manifest \union {None}
  BY NewTyped DEF PartlyDone, Typed, TypeOK
<1>2. allow' \subseteq Plugin /\ entry' \in {"absent", "disabled", "enabled"}
  BY PatchTyped DEF PartlyDone, Typed, TypeOK
<1>3. registry' \in Release \union {None}
  BY DEF PartlyDone, Resolved, Typed, TypeOK
<1>4. {current', extension'} \subseteq Link /\ disk' = disk
  BY DEF PartlyDone, Typed, TypeOK, Link
<1> QED  BY <1>1, <1>2, <1>3, <1>4 DEF FilesTyped, Typed, TypeOK

LEMMA PartlyUndoneTyped ==
  ASSUME Typed, PartlyUndone
  PROVE  FilesTyped'
<1>1. /\ was.host \in HostConfig \union {None} /\ was.manifest \in Manifest \union {None}
      /\ {was.current, was.extension} \subseteq Link
  BY DEF Typed, WorkTyped
<1>2. host' \in HostConfig \union {None} /\ manifest' \in Manifest \union {None}
  BY <1>1 DEF PartlyUndone, OldHost, Typed, TypeOK
<1>3. allow' \subseteq Plugin /\ entry' \in {"absent", "disabled", "enabled"}
  BY PatchTyped DEF PartlyUndone, Typed, TypeOK
<1>4. registry' \in Release \union {None}
  BY DEF PartlyUndone, Resolved, Typed, TypeOK
<1>5. {current', extension'} \subseteq Link /\ disk' = disk
  BY DEF PartlyUndone, Typed, TypeOK, Link
<1> QED  BY <1>2, <1>3, <1>4, <1>5 DEF FilesTyped, Typed, TypeOK

LEMMA TypeStep ==
  ASSUME Typed, [Next]_vars
  PROVE  Typed'
<1> USE DEF Typed
<1>1. TypeOK /\ Where /\ WorkTyped
  OBVIOUS
<1>2. None \notin Release /\ Foreign \notin Release
  BY InstallAssumption
<1>3. CASE BeginInstall
  <2>1. PICK r \in Release, p \in Policy, m \in Managed \union {None} :
          Begin(IF AlreadyInstalled(r, <<p, m>>) THEN "repair" ELSE "install", r, <<p, m>>)
    BY <1>3 DEF BeginInstall
  <2>2. <<p, m>> \in HostConfig
    BY DEF HostConfig
  <2> QED  BY <2>1, <2>2, BeginTyped DEF Operations
<1>4. CASE BeginRollback
  <2>1. manifest.previous \in Release
    BY <1>4 DEF BeginRollback, TypeOK, Manifest
  <2> QED  BY <1>4, <2>1, BeginTyped DEF BeginRollback, Operations
<1>5. CASE BeginUninstall
  BY <1>5, BeginTyped DEF BeginUninstall, Operations
<1>6. ASSUME mode \in {"do", "undo"}, Taken,
             disk' \in [Release -> {"none", "legacy", "intact", "corrupt"}],
             host' \in HostConfig \union {None}, {current', extension'} \subseteq Link,
             allow' \subseteq Plugin, entry' \in {"absent", "disabled", "enabled"},
             registry' \in Release \union {None}, manifest' \in Manifest \union {None},
             switched' \subseteq {"current", "extension", "host"}
      PROVE  Typed'
  <2>1. Where' /\ UNCHANGED <<opVars, faults>> /\ (mode' = "idle" <=> todo' = <<>>)
        /\ mode' \in {"idle", mode} /\ outcome' \in {outcome, "ok", "failed", "unsure"}
    BY <1>6, TakenFacts
  <2>2. TypeOK'
    BY <1>6, <2>1 DEF TypeOK, opVars
  <2>3. WorkTyped'
    BY <2>1 DEF WorkTyped, opVars
  <2> QED  BY <2>1, <2>2, <2>3
<1>7. CASE Prepare
  BY <1>6, <1>7 DEF Prepare, At, TypeOK, world
<1>8. CASE WriteHost
  <2>1. host' \in HostConfig \union {None}
    BY <1>8, NewTyped DEF WriteHost, At
  <2> QED  BY <1>6, <1>8, <2>1 DEF WriteHost, At, TypeOK, world
<1>9. CASE SwitchCurrent \/ SwitchExtension
  <2>1. PICK step \in {"current", "extension"} : At("do", step)
    BY <1>9 DEF SwitchCurrent, SwitchExtension, Switch
  <2>2. op \in {"install", "rollback", "uninstall"}
    BY <2>1, DoOrder DEF At, Operations
  <2>3. Target \in Link
    BY <2>2 DEF Target, Link, WorkTyped
  <2>4. /\ Taken /\ UNCHANGED <<allow, entry, registry, files>>
        /\ switched' \subseteq {"current", "extension", "host"}
        /\ {current', extension'} \subseteq {current, extension, Target}
    BY <1>9 DEF SwitchCurrent, SwitchExtension, Switch, Target, TypeOK
  <2>5. {current', extension'} \subseteq Link
    BY <2>3, <2>4 DEF TypeOK
  <2> QED  BY <1>6, <2>1, <2>4, <2>5 DEF At, TypeOK, files
<1>11. CASE ApplyConfigPatch
  BY <1>6, <1>11, PatchTyped DEF ApplyConfigPatch, At, TypeOK, files
<1>12. CASE Check
  BY <1>6, <1>12 DEF Check, At, TypeOK, world, files
<1>13. Resolved \in Release \union {None}
  BY DEF Resolved
<1>14. CASE RefreshPluginRegistry
  BY <1>6, <1>13, <1>14 DEF RefreshPluginRegistry, At, TypeOK, files
<1>15. CASE WriteManifest
  <2>1. manifest' \in Manifest \union {None}
    BY <1>15, NewTyped DEF WriteManifest, At
  <2> QED  BY <1>6, <1>15, <2>1 DEF WriteManifest, At, TypeOK, world
<1>16. CASE StepFails
  <2>1. /\ mode = "do" /\ op \in Operations /\ UNCHANGED <<op, rel, source, was, switched>>
        /\ todo' = Undo(op, Head(todo))
        /\ mode' = (IF Undo(op, Head(todo)) = <<>> THEN "idle" ELSE "undo")
        /\ outcome' \in {"stopped", "failed"} /\ threw' = Head(todo)
        /\ faults' \in {faults, faults + 1} /\ faults' <= MaxFaults
    BY <1>16, InstallAssumption DEF StepFails, Fault, Where, TypeOK
  <2>2. Where' /\ (mode' = "idle" <=> todo' = <<>>)
    <3>1. CASE Undo(op, Head(todo)) = <<>>
      BY <2>1, <3>1 DEF Where
    <3>2. CASE Undo(op, Head(todo)) # <<>>
      BY <2>1, <3>2, UndoStarts
    <3> QED  BY <3>1, <3>2
  <2>3. FilesTyped'
    BY <1>16, <2>1, PartlyDoneTyped DEF StepFails
  <2>4. Head(todo) \in StepNames
    BY <2>1, DoOrder
  <2>5. TypeOK'
    BY <2>1, <2>2, <2>3, <2>4, InstallAssumption DEF TypeOK, FilesTyped, StepNames
  <2> QED  BY <2>1, <2>2, <2>5 DEF WorkTyped
<1>17. CASE RestoreLinks
  <2>1. {was.current, was.extension} \subseteq Link
    BY DEF WorkTyped
  <2>2. {current', extension'} \subseteq {current, extension, was.current, was.extension}
    BY <1>17 DEF RestoreLinks, Restored
  <2> QED  BY <1>6, <1>17, <2>1, <2>2 DEF RestoreLinks, At, TypeOK, files
<1>18. CASE RestoreConfigSnapshot
  BY <1>6, <1>18, PatchTyped DEF RestoreConfigSnapshot, At, TypeOK, files
<1>19. CASE RestoreFiles
  <2>1. was.host \in HostConfig \union {None} /\ was.manifest \in Manifest \union {None}
    BY DEF WorkTyped
  <2> QED  BY <1>6, <1>19, <2>1 DEF RestoreFiles, OldHost, At, TypeOK, world
<1>20. CASE RestoreFails
  <2>1. /\ mode = "undo" /\ todo' = Tail(todo) /\ op' = op /\ outcome' = "unsure"
        /\ mode' = (IF Len(todo) > 1 THEN mode ELSE "idle")
        /\ UNCHANGED <<opVars, switched>>
        /\ faults' \in 0..MaxFaults
    BY <1>20, InstallAssumption DEF RestoreFails, Fault, opVars, TypeOK
  <2>2. Where' /\ (mode' = "idle" <=> todo' = <<>>)
    BY <2>1, Advance
  <2>3. FilesTyped'
    BY <1>20, PartlyUndoneTyped DEF RestoreFails
  <2> QED  BY <2>1, <2>2, <2>3 DEF TypeOK, FilesTyped, WorkTyped, opVars
<1>21. CASE Crash
  <2>1. FilesTyped'
    BY <1>21, PartlyDoneTyped, PartlyUndoneTyped DEF Crash, TypeOK
  <2> QED
    BY <1>21, <2>1, InstallAssumption
    DEF Crash, Fault, TypeOK, FilesTyped, Where, WorkTyped, opVars
<1>22. CASE OtherAllows
  BY <1>22 DEF OtherAllows, TypeOK, Where, WorkTyped, files, opVars, Plugin
<1>23. ASSUME NEW r \in Release, Corrupt(r)  PROVE Typed'
  BY <1>23, InstallAssumption
  DEF Corrupt, Fault, TypeOK, Where, WorkTyped, world, opVars
<1>24. CASE UNCHANGED vars
  BY <1>24 DEF vars, TypeOK, Where, WorkTyped, world, files, opVars
<1> QED
  BY <1>3, <1>4, <1>5, <1>7, <1>8, <1>9, <1>11, <1>12, <1>14, <1>15, <1>16, <1>17, <1>18,
     <1>19, <1>20, <1>21, <1>22, <1>23, <1>24 DEF Next

-----------------------------------------------------------------------------
(* Doing and undoing *)

Parts == <<disk, host, current, extension, allow, entry, registry, manifest>>

\* When the last step is taken nothing has to be shown of Running.
LEMMA RunEnds ==
  ASSUME Typed, mode = "do", Taken, mode' = "idle"
  PROVE  Running'
<1>1. outcome' = "ok"
  BY TakenFacts DEF Typed
<1> QED  BY <1>1 DEF Running, Effects, Begun, Untouched, Restorable, Undone, Stopped, Ended

LEMMA BeginRuns ==
  ASSUME Typed, NEW o \in Operations, NEW r \in Release \union {None},
         NEW h \in HostConfig \union {None}, Begin(o, r, h),
         o = "rollback" => /\ r = manifest.previous /\ r \in manifest.verified
                           /\ disk[r] = "intact",
         o = "repair" => AlreadyInstalled(r, h)
  PROVE  Running'
<1>1. /\ mode' = "do" /\ Ahead' = {Steps[o][i] : i \in 1..Len(Steps[o])}
      /\ o # "repair" => {"current", "extension", "patch", "refresh"} \subseteq Ahead'
      /\ o = "repair" => Ahead' = {"refresh"}
      /\ o = "install" => {"prepare", "host"} \subseteq Ahead'
      /\ o = "rollback" => "activate" \in Ahead'
  <2>1. mode' = "do" /\ Ahead' = {Steps[o][i] : i \in 1..Len(Steps[o])}
    BY Opening DEF Typed
  <2>2. CASE o = "install"
    <3>1. /\ Len(Steps[o]) = 9 /\ Steps[o][1] = "prepare" /\ Steps[o][2] = "host"
          /\ Steps[o][4] = "current" /\ Steps[o][5] = "extension" /\ Steps[o][6] = "patch"
          /\ Steps[o][8] = "refresh"
      BY <2>2 DEF Steps
    <3> QED  BY <2>1, <2>2, <3>1
  <2>3. CASE o = "repair"
    <3>1. Len(Steps[o]) = 1 /\ Steps[o][1] = "refresh"
      BY <2>3 DEF Steps
    <3> QED  BY <2>1, <2>3, <3>1
  <2>4. CASE o = "rollback"
    <3>1. /\ Len(Steps[o]) = 7 /\ Steps[o][1] = "current" /\ Steps[o][2] = "activate"
          /\ Steps[o][3] = "extension" /\ Steps[o][4] = "patch" /\ Steps[o][6] = "refresh"
      BY <2>4 DEF Steps
    <3> QED  BY <2>1, <2>4, <3>1
  <2>5. CASE o = "uninstall"
    <3>1. /\ Len(Steps[o]) = 6 /\ Steps[o][1] = "patch" /\ Steps[o][3] = "current"
          /\ Steps[o][4] = "extension" /\ Steps[o][5] = "refresh"
      BY <2>5 DEF Steps
    <3> QED  BY <2>1, <2>5, <3>1
  <2> QED  BY <2>1, <2>2, <2>3, <2>4, <2>5 DEF Operations
<1>2. /\ op' = o /\ rel' = r /\ source' = h /\ switched' = {} /\ outcome' = "none"
      /\ threw' = "none"
      /\ was' = [current |-> current, extension |-> extension, host |-> host,
                 allow |-> allow, entry |-> entry, manifest |-> manifest]
      /\ UNCHANGED Parts
  BY DEF Begin, world, files, Parts
<1>3. Effects'
  BY <1>1, <1>2 DEF Effects, AlreadyInstalled, Target, Configured, Parts, Operations
<1>4. Begun'
  BY <1>2 DEF Begun, AlreadyInstalled, Parts
<1>5. Untouched'
  BY <1>1, <1>2 DEF Untouched, Unpatched, Parts
<1>6. Restorable'
  BY <1>2 DEF Restorable, Parts
<1>7. Undone' /\ Stopped'
  BY <1>1 DEF Undone, Stopped, Ended
<1> QED  BY <1>3, <1>4, <1>5, <1>6, <1>7 DEF Running

LEMMA DoRuns ==
  ASSUME Typed, Running, mode = "do",
         \/ Prepare \/ WriteHost \/ SwitchCurrent \/ SwitchExtension \/ ApplyConfigPatch
         \/ Check \/ RefreshPluginRegistry
  PROVE  Running'
<1> DEFINE step == Head(todo)
<1>1. Taken
  BY DEF Prepare, WriteHost, SwitchCurrent, SwitchExtension, Switch, ApplyConfigPatch, Check,
         RefreshPluginRegistry
<1>2. CASE mode' = "idle"
  BY <1>1, <1>2, RunEnds
<1>3. CASE mode' # "idle"
  <2>1. /\ mode' = "do" /\ outcome' = outcome /\ Ahead' = Ahead \ {step} /\ step \in Ahead
        /\ UNCHANGED <<op, rel, source, was, threw>>
    BY <1>1, <1>3, TakenFacts DEF Typed, opVars
  <2>2. /\ op \in Operations
        /\ step \in {"prepare", "host", "state"} => op = "install"
        /\ step = "activate" => op = "rollback"
        /\ step \in {"current", "extension", "patch"} => op # "repair"
        /\ step = "extension" => "refresh" \in Ahead
    BY DoOrder DEF Typed
  <2>3. rel \in Release \/ op = "uninstall"
    BY <2>2 DEF Typed, WorkTyped, Operations
  <2>4. /\ Effects /\ Begun /\ Untouched /\ Restorable /\ threw = "none"
    BY DEF Running, Restorable
  <2>5. Undone' /\ Stopped'
    BY <2>1 DEF Undone, Stopped, Ended
  <2>6. CASE Prepare
    <3>1. /\ step = "prepare" /\ disk' = [disk EXCEPT ![rel] = "intact"]
          /\ UNCHANGED <<host, current, extension, allow, entry, registry, manifest, switched>>
      BY <2>6 DEF Prepare, At, world
    <3>2. disk'[rel] = "intact"
      BY <2>2, <3>1 DEF Typed, TypeOK, WorkTyped
    <3>3. Effects' /\ Begun'
      BY <2>1, <2>2, <2>4, <3>1, <3>2 DEF Effects, Begun, Target, Configured, Resolved
    <3>4. Untouched' /\ Restorable'
      BY <2>1, <2>4, <3>1 DEF Untouched, Restorable, Unpatched
    <3> QED  BY <2>5, <3>3, <3>4 DEF Running
  <2>7. CASE WriteHost
    <3>1. /\ step \in {"host", "activate"} /\ switched' = switched \union {"host"}
          /\ step = "host" => host' = source
          /\ step = "activate" => host # None /\ (rel \in Managed \/ host[2] = None)
                                 /\ host' = IF rel \in Managed THEN <<host[1], rel>> ELSE host
          /\ UNCHANGED <<disk, current, extension, allow, entry, registry, manifest>>
      BY <2>2, <2>7 DEF WriteHost, NewHost, At, world, Refused
    <3>2. step = "activate" => host'[2] = IF rel \in Managed THEN rel ELSE None
      BY <3>1
    <3>3. Effects' /\ Begun'
      BY <2>1, <2>2, <2>4, <3>1, <3>2 DEF Effects, Begun, Target, Configured, Resolved
    <3>4. Untouched' /\ Restorable'
      BY <2>1, <2>2, <2>4, <3>1 DEF Untouched, Restorable, Unpatched
    <3> QED  BY <2>5, <3>3, <3>4 DEF Running
  <2>8. CASE SwitchCurrent
    <3>1. /\ step = "current" /\ current' = Target /\ switched' = switched \union {"current"}
          /\ UNCHANGED <<disk, host, extension, allow, entry, registry, manifest>>
      BY <2>8 DEF SwitchCurrent, Switch, At, files, Target
    <3>2. Effects' /\ Begun'
      BY <2>1, <2>2, <2>4, <3>1 DEF Effects, Begun, Target, Configured, Resolved
    <3>3. Untouched' /\ Restorable'
      BY <2>1, <2>2, <2>4, <3>1 DEF Untouched, Restorable, Unpatched, Target
    <3> QED  BY <2>5, <3>2, <3>3 DEF Running
  <2>9. CASE SwitchExtension
    <3>1. /\ step = "extension" /\ extension' = Target
          /\ switched' = switched \union {"extension"}
          /\ UNCHANGED <<disk, host, current, allow, entry, registry, manifest>>
      BY <2>9 DEF SwitchExtension, Switch, At, files, Target
    <3>2. Effects' /\ Begun'
      BY <2>1, <2>2, <2>4, <3>1 DEF Effects, Begun, Target, Configured
    <3>3. Untouched' /\ Restorable'
      BY <2>1, <2>2, <2>4, <3>1 DEF Untouched, Restorable, Unpatched, Target
    <3> QED  BY <2>5, <3>2, <3>3 DEF Running
  <2>10. CASE ApplyConfigPatch
    <3>1. /\ step = "patch" /\ Patched
          /\ UNCHANGED <<disk, host, current, extension, registry, manifest, switched>>
      BY <2>10 DEF ApplyConfigPatch, At, files
    <3>2. Configured'
      BY <2>1, <2>4, <3>1 DEF Configured, Patched, Untouched, Unpatched
    <3>3. Effects' /\ Begun'
      BY <2>1, <2>2, <2>4, <3>1, <3>2 DEF Effects, Begun, Target, Resolved
    <3>4. Untouched' /\ Restorable'
      BY <2>1, <2>2, <2>4, <3>1 DEF Untouched, Restorable
    <3> QED  BY <2>5, <3>3, <3>4 DEF Running
  <2>11. CASE Check \/ RefreshPluginRegistry
    <3>1. /\ step \in {"state", "validate", "refresh"}
          /\ registry' = IF step = "refresh" THEN Resolved ELSE registry
          /\ UNCHANGED <<disk, host, current, extension, allow, entry, manifest, switched>>
      BY <2>11 DEF Check, RefreshPluginRegistry, At, files, world
    <3>2. Effects' /\ Begun'
      BY <2>1, <2>2, <2>4, <3>1 DEF Effects, Begun, Target, Configured, Resolved
    <3>3. Untouched' /\ Restorable'
      BY <2>1, <2>4, <3>1 DEF Untouched, Restorable, Unpatched
    <3> QED  BY <2>5, <3>2, <3>3 DEF Running
  <2> QED  BY <2>6, <2>7, <2>8, <2>9, <2>10, <2>11
<1> QED  BY <1>2, <1>3

LEMMA FailRuns ==
  ASSUME Typed, Running, StepFails
  PROVE  Running'
<1> DEFINE step == Head(todo)
           undo == Undo(op, step)
<1>1. /\ mode = "do" /\ todo' = undo
      /\ mode' = (IF undo = <<>> THEN "idle" ELSE "undo")
      /\ outcome' = (IF undo = <<>> THEN "stopped" ELSE "failed")
      /\ threw' = step
      /\ UNCHANGED <<disk, op, rel, source, was, switched, current>>
      /\ step # "patch" => UNCHANGED <<allow, entry>>
      /\ step # "refresh" => registry' = registry
      /\ extension' # extension => step = "extension" /\ op # "uninstall" /\ extension = Foreign
      /\ manifest' # manifest => step = "manifest" /\ manifest' = NewManifest
      /\ host' # host => step \in {"host", "activate"} /\ ~Refused /\ host' = NewHost
  BY DEF StepFails, PartlyDone
<1>2. Effects /\ Untouched /\ Restorable /\ threw = "none" /\ manifest = was.manifest
  BY <1>1 DEF Running, Restorable
<1>3. /\ op \in Operations /\ step \in Ahead /\ step \in StepNames /\ todo # <<>>
      /\ step \in {"prepare", "host", "state"} => op = "install"
      /\ step = "activate" => op = "rollback"
      /\ op = "install" /\ step \in {"prepare", "host", "state", "current"} =>
           {"current", "extension", "patch"} \subseteq Ahead
      /\ op = "rollback" /\ step = "current" =>
           {"current", "activate", "extension", "patch"} \subseteq Ahead
  BY <1>1, DoOrder, Position DEF Typed, Plan
<1>4. NewHost' = NewHost /\ NewManifest' = NewManifest
  <2>1. RollbackRelease' = RollbackRelease
    BY <1>1 DEF RollbackRelease
  <2>2. NewManifest' = NewManifest
    BY <1>1, <2>1 DEF NewManifest
  <2>3. host' # host /\ op # "install" => host # None /\ host'[1] = host[1]
    <3> SUFFICES ASSUME host' # host, op # "install"  PROVE host # None /\ host'[1] = host[1]
      OBVIOUS
    <3>1. step = "activate" /\ host # None
      BY <1>1, <1>3 DEF Refused, At
    <3> QED  BY <1>1, <3>1 DEF NewHost
  <2> QED  BY <1>1, <2>2, <2>3 DEF NewHost
<1>5. "host" \notin switched =>
        host' = was.host \/ (step \in {"host", "activate"} /\ host' = NewHost)
  BY <1>1, <1>2 DEF Restorable
<1>6. CASE undo = <<>>
  <2>1. \/ op = "install" /\ step \in {"prepare", "host", "current"}
        \/ op = "rollback" /\ step = "current"
        \/ op = "repair"
    <3>1. op = "install" => UndoSteps[op] # <<>>
      BY DEF UndoSteps
    <3>2. op = "rollback" => UndoSteps[op] # <<>>
      BY DEF UndoSteps
    <3>3. op = "uninstall" => UndoSteps[op] # <<>>
      BY DEF UndoSteps
    <3>4. <<"host">> # <<>>
      OBVIOUS
    <3> QED  BY <1>3, <1>6, <3>1, <3>2, <3>3, <3>4 DEF Undo, Operations
  <2>2. mode' = "idle" /\ outcome' = "stopped"
    BY <1>1, <1>6
  <2>3. step \notin {"patch", "extension", "manifest"} \/ op = "repair"
    BY <2>1
  <2>4. op = "repair" => step = "refresh"
    BY <1>1, DoOrder DEF Typed
  <2>5. /\ current' = was.current /\ extension' = was.extension /\ Unpatched
        /\ UNCHANGED <<allow, entry, manifest>>
    BY <1>1, <1>2, <1>3, <2>1, <2>3, <2>4 DEF Untouched, Restorable
  <2>6. CASE op = "install" /\ step = "current"
    <3>1. host' = NewHost
      BY <1>1, <1>2, <2>6, DoOrder DEF Effects, NewHost, Typed
    <3> QED
      BY <1>1, <1>2, <1>4, <2>2, <2>5, <2>6, <3>1
      DEF Running, Effects, Begun, Untouched, Restorable, Undone, Stopped, Ended, Unpatched
  <2>7. CASE ~(op = "install" /\ step = "current")
    <3>1. "host" \notin switched
      BY <1>1, <1>2, <1>3, <2>1, <2>7, DoOrder DEF Untouched, Typed
    <3>2. host' = was.host \/ (op = "install" /\ step = "host" /\ host' = NewHost)
      BY <1>3, <1>5, <2>1, <2>4, <2>7, <3>1
    <3> QED
      BY <1>1, <1>2, <1>4, <2>2, <2>5, <3>2
      DEF Running, Effects, Begun, Untouched, Restorable, Undone, Stopped, Ended, Unpatched
  <2> QED  BY <2>6, <2>7
<1>7. CASE undo # <<>>
  <2>1. mode' = "undo" /\ outcome' = "failed"
    BY <1>1, <1>7
  <2>2. step # "host"
    BY <1>3, <1>7 DEF Undo
  <2>3. \/ /\ {"current", "extension", "patch", "refresh"} \subseteq Ahead'
           /\ IF op = "uninstall" THEN "manifest" \in Ahead' ELSE "host" \in Ahead'
        \/ op = "install" /\ step = "state" /\ "host" \in Ahead'
    BY <1>1, <1>3, <1>7, <2>1, UndoStarts
  <2>4. /\ manifest' = was.manifest \/ (threw' = "manifest" /\ manifest' = NewManifest')
        /\ "host" \notin switched => host' = was.host \/ (threw' = "activate" /\ host' = NewHost')
    BY <1>1, <1>2, <1>4, <1>5, <2>2
  <2>5. Restorable'
    BY <1>1, <1>2, <2>1, <2>4 DEF Restorable, Untouched
  <2>6. Undone'
    <3>1. op = "uninstall" => host' = was.host
      BY <1>1, <1>2, <1>3, <2>2, <2>4 DEF Untouched
    <3>2. CASE /\ {"current", "extension", "patch", "refresh"} \subseteq Ahead'
               /\ IF op = "uninstall" THEN "manifest" \in Ahead' ELSE "host" \in Ahead'
      <4>1. Policed' \/ "host" \in Ahead'
        BY <1>1, <3>1, <3>2 DEF Policed
      <4>2. /\ "current" \in Ahead' /\ "extension" \in Ahead' /\ "patch" \in Ahead'
            /\ "refresh" \in Ahead' /\ ("manifest" \in Ahead' \/ op' # "uninstall")
        BY <1>1, <3>2
      <4> QED  BY <2>1, <4>1, <4>2 DEF Undone
    <3>3. CASE op = "install" /\ step = "state" /\ "host" \in Ahead'
      <4>1. /\ current' = was.current /\ extension' = was.extension /\ Unpatched
            /\ switched = {"host"} /\ UNCHANGED <<allow, entry, manifest>>
        BY <1>1, <1>2, <1>3, <3>3, DoOrder DEF Untouched, Restorable, Typed, TypeOK
      <4> QED  BY <1>1, <1>2, <2>1, <3>3, <4>1 DEF Undone, Unpatched
    <3> QED  BY <2>3, <3>2, <3>3
  <2> QED  BY <1>1, <2>1, <2>5, <2>6 DEF Running, Effects, Begun, Untouched, Stopped, Ended
<1> QED  BY <1>6, <1>7

LEMMA UndoRuns ==
  ASSUME Typed, Running, mode = "undo",
         RestoreLinks \/ RestoreConfigSnapshot \/ RestoreFiles \/ RefreshPluginRegistry
  PROVE  Running'
<1> DEFINE step == Head(todo)
<1>1. Taken
  BY DEF RestoreLinks, RestoreConfigSnapshot, RestoreFiles, RefreshPluginRegistry
<1>2. /\ Ahead' = Ahead \ {step} /\ step \in Ahead
      /\ UNCHANGED <<op, rel, source, was, threw>> /\ mode' \in {"undo", "idle"}
      /\ outcome' # "stopped"
      /\ outcome' = "failed" => outcome = "failed" \/ outcome \notin {"failed", "unsure"}
  BY <1>1, TakenFacts DEF Typed, opVars, Running, Undone
<1>3. step \in {"extension", "current"} => "refresh" \in Ahead
  BY UndoOrder DEF Typed
<1>4. Restorable /\ Undone
  BY DEF Running
<1>5. /\ outcome' = "failed" => outcome = "failed"
      /\ mode' = "undo" => outcome' \in {"failed", "unsure"}
  BY <1>1, <1>4, TakenFacts DEF Typed, Undone
<1>5a. NewManifest' = NewManifest /\ (host' = host => NewHost' = NewHost)
  BY <1>2 DEF NewManifest, RollbackRelease, NewHost
<1>6. CASE RestoreLinks /\ step = "current"
  <2>1. /\ current' = Restored("current", current, was.current)
        /\ UNCHANGED <<disk, host, extension, allow, entry, registry, manifest, switched>>
    BY <1>6 DEF RestoreLinks, At, files
  <2>2. current' = was.current
    BY <1>4, <2>1 DEF Restored, Restorable
  <2>3. Restorable'
    BY <1>2, <1>4, <1>5, <1>5a, <2>1, <2>2 DEF Restorable
  <2>4. Undone'
    BY <1>2, <1>3, <1>4, <1>5, <1>5a, <1>6, <2>1, <2>2 DEF Undone, Policed, Resolved
  <2> QED  BY <1>2, <2>3, <2>4 DEF Running, Effects, Begun, Untouched, Stopped, Ended
<1>7. CASE RestoreLinks /\ step = "extension"
  <2>1. /\ extension' = Restored("extension", extension, was.extension)
        /\ UNCHANGED <<disk, host, current, allow, entry, registry, manifest, switched>>
    BY <1>7 DEF RestoreLinks, At, files
  <2>2. extension' = was.extension \/ (extension' = extension /\ was.extension = Foreign)
    BY <1>4, <2>1 DEF Restored, Restorable
  <2>3. Restorable'
    BY <1>2, <1>4, <1>5, <1>5a, <2>1, <2>2 DEF Restorable
  <2>4. Undone'
    BY <1>2, <1>3, <1>4, <1>5, <1>5a, <1>7, <2>1, <2>2 DEF Undone, Policed
  <2> QED  BY <1>2, <2>3, <2>4 DEF Running, Effects, Begun, Untouched, Stopped, Ended
<1>8. CASE RestoreConfigSnapshot
  <2>1. /\ step = "patch" /\ allow' = was.allow
        /\ entry' = IF was.entry = "absent" THEN "disabled" ELSE was.entry
        /\ UNCHANGED <<disk, host, current, extension, registry, manifest, switched>>
    BY <1>8 DEF RestoreConfigSnapshot, Unpatch, At, files
  <2>2. Restorable'
    BY <1>2, <1>4, <1>5, <1>5a, <2>1 DEF Restorable
  <2>3. Undone'
    BY <1>2, <1>4, <1>5, <1>5a, <2>1 DEF Undone, Policed, Resolved
  <2> QED  BY <1>2, <2>2, <2>3 DEF Running, Effects, Begun, Untouched, Stopped, Ended
<1>9. CASE RestoreFiles
  <2>1. /\ step \in {"host", "manifest"}
        /\ step = "host" => host' = IF "host" \in switched THEN was.host ELSE host
        /\ step = "host" => manifest' = manifest
        /\ step = "manifest" => host' = host /\ manifest' = was.manifest
        /\ UNCHANGED <<disk, current, extension, allow, entry, registry, switched>>
    BY <1>9 DEF RestoreFiles, OldHost, At, world
  <2>2. Restorable'
    BY <1>2, <1>4, <1>5, <1>5a, <2>1 DEF Restorable
  <2>3. Undone'
    BY <1>2, <1>4, <1>5, <1>5a, <2>1 DEF Undone, Policed, Restorable, Resolved
  <2> QED  BY <1>2, <2>2, <2>3 DEF Running, Effects, Begun, Untouched, Stopped, Ended
<1>10. CASE RefreshPluginRegistry
  <2>1. /\ step = "refresh" /\ registry' = Resolved
        /\ UNCHANGED <<disk, host, current, extension, allow, entry, manifest, switched>>
    BY <1>10 DEF RefreshPluginRegistry, At, files
  <2>2. Restorable'
    BY <1>2, <1>4, <1>5, <1>5a, <2>1 DEF Restorable
  <2>3. Undone'
    BY <1>2, <1>4, <1>5, <1>5a, <2>1 DEF Undone, Policed, Resolved
  <2> QED  BY <1>2, <2>2, <2>3 DEF Running, Effects, Begun, Untouched, Stopped, Ended
<1> QED  BY <1>6, <1>7, <1>8, <1>9, <1>10 DEF RestoreLinks, At

LEMMA PartlyUndoneKeeps ==
  ASSUME Typed, Restorable, mode = "undo", mode' \in {"undo", "idle"}, PartlyUndone,
         UNCHANGED <<opVars, switched>>
  PROVE  Restorable'
<1>1. UNCHANGED <<op, rel, source, was, threw, switched>>
  BY DEF opVars
<1>2. NewManifest' = NewManifest /\ (host' = host => NewHost' = NewHost)
  BY <1>1 DEF NewManifest, RollbackRelease, NewHost
<1>3. /\ manifest' \in {manifest, was.manifest}
      /\ host' = host \/ ("host" \in switched /\ host' = was.host)
      /\ current' = current \/ ("current" \in switched /\ op # "uninstall")
      /\ extension' = extension \/ ("extension" \in switched /\ op # "uninstall")
  BY DEF PartlyUndone, OldHost
<1> QED  BY <1>1, <1>2, <1>3 DEF Restorable

LEMMA RunningStep ==
  ASSUME Typed, Running, [Next]_vars
  PROVE  Running'
<1> USE DEF Typed
<1>1. CASE BeginInstall
  <2>1. PICK r \in Release, p \in Policy, m \in Managed \union {None} :
          Begin(IF AlreadyInstalled(r, <<p, m>>) THEN "repair" ELSE "install", r, <<p, m>>)
    BY <1>1 DEF BeginInstall
  <2>2. <<p, m>> \in HostConfig
    BY DEF HostConfig
  <2> QED  BY <2>1, <2>2, BeginRuns DEF Operations
<1>2. CASE BeginRollback
  <2>1. manifest.previous \in Release \union {None} /\ disk[manifest.previous] = "intact"
    BY <1>2 DEF BeginRollback, ReleaseMatches, TypeOK, Manifest
  <2> QED  BY <1>2, <2>1, BeginRuns DEF BeginRollback, Operations
<1>3. CASE BeginUninstall
  BY <1>3, BeginRuns DEF BeginUninstall, Operations
<1>4. CASE \/ Prepare \/ WriteHost \/ SwitchCurrent \/ SwitchExtension \/ ApplyConfigPatch
           \/ Check
  <2>1. mode = "do"
    BY <1>4 DEF Prepare, WriteHost, SwitchCurrent, SwitchExtension, Switch, ApplyConfigPatch,
                Check, At
  <2> QED  BY <1>4, <2>1, DoRuns
<1>5. CASE RefreshPluginRegistry
  <2>1. mode \in {"do", "undo"}
    BY <1>5 DEF RefreshPluginRegistry, At
  <2> QED  BY <1>5, <2>1, DoRuns, UndoRuns
<1>6. CASE WriteManifest
  <2>1. mode = "do" /\ Taken /\ Head(todo) = "manifest" /\ op # "repair"
    BY <1>6, DoOrder DEF WriteManifest, At
  <2>2. mode' = "idle"
    BY <2>1, DoOrder, TakenFacts
  <2> QED  BY <2>1, <2>2, RunEnds
<1>7. CASE StepFails
  BY <1>7, FailRuns
<1>8. CASE RestoreLinks \/ RestoreConfigSnapshot \/ RestoreFiles
  <2>1. mode = "undo"
    BY <1>8 DEF RestoreLinks, RestoreConfigSnapshot, RestoreFiles, At
  <2> QED  BY <1>8, <2>1, UndoRuns
<1>9. CASE RestoreFails
  <2>1. /\ mode = "undo" /\ mode' \in {"undo", "idle"} /\ outcome' = "unsure"
        /\ UNCHANGED <<opVars, switched>>
    BY <1>9 DEF RestoreFails
  <2>2. Restorable'
    BY <1>9, <2>1, PartlyUndoneKeeps DEF RestoreFails, Running
  <2> QED
    BY <2>1, <2>2 DEF Running, Effects, Begun, Untouched, Undone, Stopped, Ended, opVars
<1>10. CASE Crash
  BY <1>10 DEF Crash, Running, Effects, Begun, Untouched, Restorable, Undone, Stopped, Ended
<1>11. CASE OtherAllows
  <2>1. /\ allow' = allow \union {"other"} /\ Ahead' = Ahead
        /\ UNCHANGED <<disk, host, manifest, current, extension, entry, registry, op, rel, source,
                       was, threw, mode, switched, outcome>>
    BY <1>11 DEF OtherAllows, files, opVars, Ahead
  <2>2. /\ allow' \ {"other"} = allow \ {"other"}
        /\ "prime-dispatch" \in allow' <=> "prime-dispatch" \in allow
    BY <2>1
  <2> HIDE DEF Typed
  <2>3. Effects' /\ Begun'
    BY <2>1, <2>2 DEF Running, Effects, Begun, Configured, Target, Resolved
  <2>4. Untouched' /\ Restorable' /\ Undone' /\ Stopped'
    BY <2>1, <2>2 DEF Running, Untouched, Unpatched, Restorable, Undone, Policed, Stopped,
                          Ended, NewHost, NewManifest, RollbackRelease, Resolved
  <2> QED  BY <2>3, <2>4 DEF Running
<1>12. ASSUME NEW r \in Release, Corrupt(r)  PROVE Running'
  <2>1. /\ mode = "idle" /\ Ahead' = Ahead
        /\ UNCHANGED <<host, manifest, current, extension, allow, entry, registry, op, rel,
                       source, was, threw, mode, switched, outcome>>
    BY <1>12 DEF Corrupt, world, opVars, Ahead
  <2> HIDE DEF Typed
  <2> QED
    BY <2>1 DEF Running, Effects, Begun, Untouched, Restorable, Undone, Policed, Stopped,
                Ended, NewHost, NewManifest, RollbackRelease, Resolved
<1>13. CASE UNCHANGED vars
  <2>1. /\ Ahead' = Ahead
        /\ UNCHANGED <<disk, host, manifest, current, extension, allow, entry, registry, op, rel,
                       source, was, threw, mode, switched, outcome>>
    BY <1>13 DEF vars, world, files, opVars, Ahead
  <2> HIDE DEF Typed
  <2> QED
    BY <2>1 DEF Running, Effects, Begun, Untouched, Restorable, Undone, Policed, Stopped,
                Ended, NewHost, NewManifest, RollbackRelease, Resolved, Unpatched,
                Configured, Target
<1> QED
  BY <1>1, <1>2, <1>3, <1>4, <1>5, <1>6, <1>7, <1>8, <1>9, <1>10, <1>11, <1>12, <1>13 DEF Next

-----------------------------------------------------------------------------
(* What success leaves, and what install.json offers *)

\* What is committed was verified, and keeps a rollback target that has a digest.
LEMMA Committed ==
  ASSUME Typed, Running, Offers, mode = "do", Head(todo) = "manifest"
  PROVE  LET n == NewManifest IN
         /\ op \in {"install", "rollback", "uninstall"} /\ Len(todo) = 1
         /\ Ahead = {"manifest"} /\ was.manifest = manifest
         /\ OffersOf(n)
         /\ op # "uninstall" => /\ n # None /\ n.active
                               /\ n.current = rel /\ disk[rel] = "intact"
                               /\ n.previous \in n.verified \union {None}
         /\ op = "uninstall" => n = None \/ ~n.active
         /\ manifest # None /\ manifest.previous \in manifest.verified
              => n.previous \in n.verified
<1> DEFINE m == was.manifest
           n == NewManifest
<1>1. /\ op \in {"install", "rollback", "uninstall"} /\ Len(todo) = 1
      /\ Ahead = {"manifest"}
  <2>1. op \in {"install", "rollback", "uninstall"} /\ Len(todo) = 1
    BY DoOrder DEF Typed, Operations
  <2>2. PICK k \in 1..Len(Plan) :
          /\ Head(todo) = Plan[k] /\ Len(todo) = Len(Plan) - k + 1
          /\ Ahead = {Plan[i] : i \in k..Len(Plan)}
    BY Position DEF Typed
  <2>3. Plan \in Seq(StepNames)
    BY Position DEF Typed
  <2>4. k = Len(Plan)
    BY <2>1, <2>2, <2>3
  <2> QED  BY <2>1, <2>2, <2>3, <2>4
<1>2. m = manifest /\ (m # None => m \in Manifest)
  BY DEF Running, Restorable, Typed, WorkTyped
<1>3. CASE op = "install"
  <2>1. n = [active |-> TRUE, current |-> rel, previous |-> RollbackRelease,
             verified |-> {rel} \union (IF m = None THEN {} ELSE m.verified)]
    BY <1>3 DEF NewManifest
  <2>2. rel \in Release /\ disk[rel] = "intact"
    BY <1>1, <1>3 DEF Typed, WorkTyped, Running, Effects
  <2>3. n # None
    <3>1. RollbackRelease \in Release \union {None}
      BY <1>2 DEF RollbackRelease, Manifest
    <3>2. n \in Manifest
      BY <1>2, <2>1, <2>2, <3>1 DEF Manifest
    <3> QED  BY <3>2, NoManifestAssumption
  <2>4. /\ n.active = TRUE /\ n.current = rel
        /\ n.previous = RollbackRelease
        /\ n.verified = {rel} \union (IF m = None THEN {} ELSE m.verified)
    BY <2>1
  <2>5. RollbackRelease # None => /\ m # None /\ RollbackRelease \in m.verified
                                  /\ RollbackRelease # rel
    BY DEF RollbackRelease
  <2>6. m # None /\ m.previous \in m.verified => RollbackRelease # None
    BY <1>2, InstallAssumption DEF RollbackRelease, Offers, OffersOf, OffersIn, Manifest
  <2>7. None \notin n.verified /\ rel # None
    BY <1>2, <2>2, <2>4, InstallAssumption DEF Manifest
  <2>8. OffersOf(n)
    BY <1>2, <2>2, <2>4, <2>5, <2>7 DEF Offers, OffersOf, OffersIn
  <2> QED  BY <1>1, <1>2, <1>3, <2>2, <2>3, <2>4, <2>5, <2>6, <2>8
<1>4. CASE op = "rollback"
  <2>1. m # None /\ m \in Manifest
    BY <1>2, <1>4 DEF Typed, WorkTyped
  <2>2. n = [m EXCEPT !.active = TRUE, !.current = rel, !.previous = m.current]
    BY <1>4 DEF NewManifest
  <2>3. /\ n.active = TRUE /\ n.current = rel
        /\ n.previous = m.current /\ n.verified = m.verified
        /\ n \in Manifest
    BY <2>1, <2>2, <1>4 DEF Manifest, Typed, WorkTyped
  <2>4. /\ rel = m.previous /\ rel \in m.verified /\ disk[rel] = "intact" /\ rel \in Release
    BY <1>1, <1>4 DEF Running, Begun, Typed, WorkTyped
  <2>5. rel # None /\ m.current # None
    BY <2>1, <2>4, InstallAssumption DEF Manifest
  <2>6. m.current \in m.verified /\ m.current # rel
    BY <1>2, <2>1, <2>4 DEF Offers, OffersOf, OffersIn
  <2>7. OffersOf(n)
    BY <1>2, <2>1, <2>3, <2>4, <2>5, <2>6 DEF Offers, OffersOf, OffersIn
  <2>8. n # None
    BY <2>3, NoManifestAssumption
  <2> QED  BY <1>1, <1>2, <1>4, <2>3, <2>4, <2>6, <2>7, <2>8
<1>5. CASE op = "uninstall"
  <2>1. n = IF m = None THEN None ELSE [m EXCEPT !.active = FALSE]
    BY <1>5 DEF NewManifest
  <2>2. m # None => /\ n.active = FALSE /\ n.current = m.current
                    /\ n.previous = m.previous /\ n.verified = m.verified
    BY <1>2, <2>1 DEF Manifest
  <2>3. OffersOf(n)
    BY <1>2, <2>1, <2>2 DEF Offers, OffersOf, OffersIn
  <2> QED  BY <1>1, <1>2, <1>5, <2>1, <2>2, <2>3
<1> QED  BY <1>1, <1>3, <1>4, <1>5

\* A manifest is committed, or put back as it was, and no release loses what it is.
LEMMA OffersStep ==
  ASSUME Typed, Running, Offers, [Next]_vars
  PROVE  /\ Offers'
         /\ mode = "do" /\ manifest' # manifest =>
              Head(todo) = "manifest" /\ manifest' = NewManifest /\ disk' = disk
<1> DEFINE Kept == \A r \in Release :
                     /\ disk[r] \in {"intact", "corrupt"} => disk'[r] \in {"intact", "corrupt"}
                     /\ disk[r] = "legacy" => disk'[r] = "legacy"
<1>1. ASSUME Kept, NEW m \in Manifest \union {None}, OffersIn(disk, m)
      PROVE  OffersIn(disk', m)
  BY <1>1 DEF OffersIn, Manifest
<1>2. /\ manifest \in Manifest \union {None} /\ was.manifest \in Manifest \union {None}
      /\ was'.manifest \in Manifest \union {None}
  BY TypeStep DEF Typed, TypeOK, WorkTyped
<1>3. ASSUME UNCHANGED manifest, Kept, mode' = "idle" \/ (mode # "idle" /\ was' = was)
      PROVE  Offers'
  <2>1. OffersOf(manifest)'
    BY <1>1, <1>2, <1>3 DEF Offers, OffersOf
  <2>2. mode' # "idle" => OffersOf(was.manifest)'
    BY <1>1, <1>2, <1>3 DEF Offers, OffersOf
  <2> QED  BY <2>1, <2>2 DEF Offers, OffersOf
<1>4. disk' = disk => Kept
  OBVIOUS
<1>5. CASE BeginInstall \/ BeginRollback \/ BeginUninstall
  <2>1. PICK o, r, h : Begin(o, r, h)
    BY <1>5 DEF BeginInstall, BeginRollback, BeginUninstall
  <2>2. UNCHANGED <<disk, manifest>> /\ was'.manifest = manifest /\ mode = "idle"
    BY <2>1 DEF Begin, files
  <2> QED  BY <1>1, <1>2, <1>4, <2>2 DEF Offers, OffersOf
<1>6. ASSUME Taken, mode \in {"do", "undo"}
      PROVE  mode' = "idle" \/ (mode # "idle" /\ was' = was)
  BY <1>6, TakenFacts DEF Typed, opVars
<1>7. CASE Prepare
  <2>1. /\ UNCHANGED manifest /\ disk' = [disk EXCEPT ![rel] = "intact"]
        /\ mode = "do" /\ Taken /\ disk[rel] \in {"none", "intact"}
    BY <1>7 DEF Prepare, Refused, At, ReleaseMatches
  <2>2. Kept
    BY <2>1 DEF Typed, TypeOK
  <2> QED  BY <1>3, <1>6, <2>1, <2>2
<1>8. CASE WriteHost \/ SwitchCurrent \/ SwitchExtension \/ ApplyConfigPatch \/ Check
           \/ RefreshPluginRegistry \/ RestoreLinks \/ RestoreConfigSnapshot
  <2>1. UNCHANGED <<disk, manifest>> /\ mode \in {"do", "undo"} /\ Taken
    BY <1>8 DEF WriteHost, SwitchCurrent, SwitchExtension, Switch, ApplyConfigPatch, Check,
                RefreshPluginRegistry, RestoreLinks, RestoreConfigSnapshot, At, files
  <2> QED  BY <1>3, <1>4, <1>6, <2>1
<1>9. ASSUME disk' = disk, manifest' \in {manifest, was.manifest}, mode = "undo",
             mode' = "idle" \/ (mode # "idle" /\ was' = was)
      PROVE  Offers'
  <2>1. OffersOf(manifest)'
    BY <1>1, <1>2, <1>4, <1>9 DEF Offers, OffersOf
  <2>2. mode' # "idle" => OffersOf(was.manifest)'
    BY <1>1, <1>2, <1>4, <1>9 DEF Offers, OffersOf
  <2> QED  BY <2>1, <2>2 DEF Offers, OffersOf
<1>10. CASE RestoreFiles
  <2>1. /\ disk' = disk /\ manifest' \in {manifest, was.manifest} /\ mode = "undo" /\ Taken
    BY <1>10 DEF RestoreFiles, At
  <2> QED  BY <1>6, <1>9, <2>1
<1>11. CASE RestoreFails \/ (Crash /\ mode = "undo")
  <2>1. /\ disk' = disk /\ manifest' \in {manifest, was.manifest} /\ mode = "undo"
        /\ was' = was
    BY <1>11 DEF RestoreFails, Crash, PartlyUndone, opVars
  <2> QED  BY <1>9, <2>1
<1>12. CASE WriteManifest \/ StepFails \/ (Crash /\ mode = "do")
  <2>1. /\ mode = "do" /\ disk' = disk
        /\ manifest' # manifest => Head(todo) = "manifest" /\ manifest' = NewManifest
        /\ mode' = "idle" \/ (mode # "idle" /\ was' = was)
    BY <1>6, <1>12 DEF WriteManifest, StepFails, Crash, PartlyDone, At, opVars
  <2>2. CASE manifest' = manifest
    BY <1>3, <1>4, <2>1, <2>2
  <2>3. CASE manifest' # manifest
    <3>1. OffersOf(NewManifest) /\ NewManifest \in Manifest \union {None}
      BY <2>1, <2>3, Committed, NewTyped
    <3>2. OffersOf(manifest)'
      BY <1>4, <2>1, <2>3, <3>1 DEF OffersOf
    <3>3. mode' # "idle" => OffersOf(was.manifest)'
      BY <1>1, <1>2, <1>4, <2>1 DEF Offers, OffersOf
    <3> QED  BY <2>1, <2>3, <3>2, <3>3 DEF Offers, OffersOf
  <2> QED  BY <2>1, <2>2, <2>3
<1>13. ASSUME NEW r \in Release, Corrupt(r)  PROVE Offers' /\ mode # "do"
  <2>1. /\ UNCHANGED manifest /\ disk' = [disk EXCEPT ![r] = "corrupt"] /\ disk[r] = "intact"
        /\ mode = "idle" /\ mode' = "idle"
    BY <1>13 DEF Corrupt
  <2>2. Kept
    BY <2>1 DEF Typed, TypeOK
  <2> QED  BY <1>3, <2>1, <2>2
<1>14. CASE UNCHANGED vars \/ OtherAllows
  <2>1. UNCHANGED <<disk, manifest, mode, was>>
    BY <1>14 DEF vars, files, opVars, OtherAllows
  <2> QED  BY <1>3, <1>4, <2>1
<1>15. CASE Crash
  <2>1. mode \in {"do", "undo"}
    BY <1>15 DEF Crash, Typed, TypeOK
  <2> QED  BY <1>11, <1>12, <1>15, <2>1
<1> QED
  BY <1>5, <1>7, <1>8, <1>10, <1>11, <1>12, <1>13, <1>14, <1>15 DEF Next

LEMMA CoherentStep ==
  ASSUME Typed, Running, Offers, Coherent, [Next]_vars
  PROVE  Coherent'
<1> DEFINE Left == Ended("ok") /\ UNCHANGED <<host, current, extension, registry, entry,
                                               manifest, op, rel, source>>
                  /\ ("prime-dispatch" \in allow' <=> "prime-dispatch" \in allow)
<1>1. CASE Left
  BY <1>1 DEF Coherent, Retired, SuccessIsCoherent, Ended, Activated, Deactivated
<1>2. CASE ~Ended("ok")'
  BY <1>2 DEF Coherent, Retired, SuccessIsCoherent, Ended
<1>3. CASE WriteManifest
  <2>1. /\ mode = "do" /\ Head(todo) = "manifest" /\ manifest' = NewManifest
        /\ Ahead = {"manifest"} /\ op \in {"install", "rollback", "uninstall"}
        /\ UNCHANGED <<host, current, extension, registry, entry, allow, op, rel, source>>
    <3>1. /\ mode = "do" /\ Head(todo) = "manifest" /\ Taken /\ UNCHANGED <<world, host>>
          /\ manifest' = NewManifest
      BY <1>3 DEF WriteManifest, At
    <3> QED  BY <3>1, Committed, TakenFacts DEF Typed, world, opVars
  <2>2. /\ current = Target /\ extension = Target /\ Configured /\ registry = Resolved
        /\ op = "install" => host = source
        /\ op = "rollback" => host[2] = IF rel \in Managed THEN rel ELSE None
    BY <2>1 DEF Running, Effects
  <2>3. CASE op = "uninstall"
    <3>1. registry = None
      BY <2>2, <2>3, InstallAssumption DEF Resolved, Target
    <3>2. manifest' = None \/ ~manifest'.active
      BY <2>1, <2>3, Committed
    <3>3. Deactivated'
      BY <2>1, <2>2, <2>3, <3>1, <3>2 DEF Deactivated, Target, Configured
    <3> QED  BY <2>1, <2>3, <3>3 DEF Coherent, Retired, SuccessIsCoherent
  <2>4. CASE op # "uninstall"
    <3>1. registry = rel
      BY <2>1, <2>2, <2>4 DEF Resolved, Target, Typed, WorkTyped
    <3>2. /\ manifest' # None /\ manifest'.active /\ manifest'.current = rel
          /\ manifest'.previous \in manifest'.verified \union {None}
      BY <2>1, <2>4, Committed
    <3>3. Activated(rel)'
      BY <2>1, <2>2, <2>4, <3>1, <3>2 DEF Activated, Target, Configured
    <3> QED  BY <2>1, <2>2, <2>4, <3>2, <3>3 DEF Coherent, Retired, SuccessIsCoherent
  <2> QED  BY <2>3, <2>4
<1>4. CASE RefreshPluginRegistry /\ Ended("ok")'
  <2>1. /\ mode = "do" /\ Ahead = {"refresh"} /\ op = "repair" /\ registry' = Resolved
        /\ UNCHANGED <<host, current, extension, entry, allow, manifest, op, rel, source>>
    <3>1. /\ mode \in {"do", "undo"} /\ Head(todo) = "refresh" /\ Taken /\ registry' = Resolved
          /\ UNCHANGED <<current, extension, allow, entry, files>>
      BY <1>4 DEF RefreshPluginRegistry, At
    <3>2. mode = "do" /\ Len(todo) = 1 /\ Ahead = {Head(todo)}
      BY <1>4, <3>1, TakenFacts DEF Typed, Ended, Running, Undone
    <3>3. op = "repair"
      BY <3>1, <3>2, DoOrder DEF Typed
    <3> QED  BY <3>1, <3>2, <3>3, TakenFacts DEF Typed, files, opVars
  <2>2. /\ current = rel /\ extension = rel /\ Configured /\ host = source
        /\ manifest # None /\ manifest.active /\ manifest.current = rel
        /\ manifest.previous \in manifest.verified \union {None}
    BY <2>1 DEF Running, Effects, Begun, Target
  <2>3. registry' = rel
    BY <2>1, <2>2 DEF Resolved, Typed, WorkTyped
  <2>4. Activated(rel)'
    BY <2>1, <2>2, <2>3 DEF Activated, Configured
  <2> QED  BY <2>1, <2>2, <2>4 DEF Coherent, Retired, SuccessIsCoherent
<1>5. ASSUME mode \in {"do", "undo"}, Taken,
             Head(todo) \notin {"manifest", "refresh"} \/ mode = "undo"
      PROVE  ~Ended("ok")'
  <2>1. CASE mode = "undo"
    BY <1>5, <2>1, TakenFacts DEF Typed, Ended, Running, Undone
  <2>2. CASE mode = "do"
    <3>1. Len(todo) # 1
      BY <1>5, <2>2, DoOrder DEF Typed
    <3> QED  BY <1>5, <2>2, <3>1, TakenFacts DEF Typed, Ended
  <2> QED  BY <1>5, <2>1, <2>2
<1>6. CASE Prepare \/ WriteHost \/ SwitchCurrent \/ SwitchExtension \/ ApplyConfigPatch
           \/ Check \/ RestoreLinks \/ RestoreConfigSnapshot \/ RestoreFiles
  BY <1>2, <1>5, <1>6
  DEF Prepare, WriteHost, SwitchCurrent, SwitchExtension, Switch, ApplyConfigPatch, Check,
      RestoreLinks, RestoreConfigSnapshot, RestoreFiles, At
<1>7. CASE BeginInstall \/ BeginRollback \/ BeginUninstall
  BY <1>2, <1>7 DEF BeginInstall, BeginRollback, BeginUninstall, Begin, Ended
<1>8. CASE StepFails \/ RestoreFails \/ Crash
  <2>1. outcome' # "ok"
    BY <1>8 DEF StepFails, RestoreFails, Crash
  <2> QED  BY <1>2, <2>1 DEF Ended
<1>9. CASE OtherAllows /\ Ended("ok")
  BY <1>1, <1>9 DEF OtherAllows, files, opVars
<1>10. ASSUME NEW r \in Release, Corrupt(r), Ended("ok")  PROVE Coherent'
  BY <1>1, <1>10 DEF Corrupt, world, opVars
<1>11. CASE UNCHANGED vars /\ Ended("ok")
  BY <1>1, <1>11 DEF vars, world, files, opVars
<1>12. CASE (OtherAllows \/ UNCHANGED vars \/ \E r \in Release : Corrupt(r)) /\ ~Ended("ok")
  BY <1>2, <1>12 DEF OtherAllows, vars, Corrupt, Ended
<1>13. CASE RefreshPluginRegistry
  BY <1>2, <1>4, <1>13
<1> QED  BY <1>3, <1>6, <1>7, <1>8, <1>9, <1>10, <1>11, <1>12, <1>13 DEF Next

-----------------------------------------------------------------------------
LEMMA InvInit == Init => Typed /\ LifecycleInv
<1> SUFFICES ASSUME Init PROVE Typed /\ LifecycleInv
  OBVIOUS
<1>1. Running /\ Coherent
  BY DEF Init, Running, Effects, Begun, Untouched, Restorable, Undone, Stopped, Coherent, Retired,
         SuccessIsCoherent, Ended
<1>2. TypeOK /\ Offers
  <2>1. ASSUME disk = [r \in Release |-> "none"], current = None, extension \in {None, Foreign},
               host = None, manifest = None, registry = None, allow = {}, entry = "absent"
        PROVE  TypeOK /\ Offers
    BY <2>1, InstallAssumption DEF Init, TypeOK, Offers, OffersOf, OffersIn, Link
  <2>2. ASSUME NEW r \in Release, NEW q \in Legacy \union {None}, NEW h \in HostConfig,
               q # r,
               disk = [x \in Release |-> IF x = r THEN IF r \in Legacy THEN "legacy" ELSE "intact"
                                        ELSE IF x = q THEN "legacy" ELSE "none"],
               current = r, extension = r, registry = r, host = h,
               manifest = [active |-> TRUE, current |-> r, previous |-> q,
                           verified |-> {r} \ Legacy],
               allow = {"prime-dispatch"}, entry = "enabled"
        PROVE  TypeOK /\ Offers
    <3>1. manifest \in Manifest
      BY <2>2, InstallAssumption DEF Manifest
    <3>2. /\ manifest.previous = q /\ manifest.current = r /\ manifest.verified = {r} \ Legacy
      BY <2>2
    <3>3. Offers
      BY <2>2, <3>2, InstallAssumption DEF Init, Offers, OffersOf, OffersIn
    <3>4. disk \in [Release -> {"none", "legacy", "intact", "corrupt"}]
      BY <2>2
    <3>5. TypeOK
      BY <2>2, <3>1, <3>4, InstallAssumption DEF Init, TypeOK, Link, Plugin
    <3> QED  BY <3>3, <3>5
  <2> QED  BY <2>1, <2>2 DEF Init
<1>3. Where /\ WorkTyped
  BY DEF Init, Where, WorkTyped, NoWas, Link
<1> QED  BY <1>1, <1>2, <1>3 DEF Typed, LifecycleInv

LEMMA LifecycleInvariant == Spec => [](Typed /\ LifecycleInv)
<1>1. Typed /\ LifecycleInv /\ [Next]_vars => (Typed /\ LifecycleInv)'
  BY TypeStep, RunningStep, OffersStep, CoherentStep DEF LifecycleInv
<1> QED  BY <1>1, InvInit, PTL DEF Spec

\* Type correctness, for any releases, policies and number of faults.
THEOREM InstallTypeCorrect == Spec => []TypeOK
BY LifecycleInvariant, PTL DEF Typed

\* Whatever crash or failure it started from, an operation that reports success has left
\* links, registry, configuration, manifest and pinned runtime in agreement.
THEOREM SuccessIsWhole == Spec => []SuccessIsCoherent
BY LifecycleInvariant, PTL DEF LifecycleInv, Coherent

\* An operation that throws at any step, before or after the step took effect, has left
\* everything as it was but install.json and host.json where FailureIsUndone says so.
THEOREM FailureLeavesNothing == Spec => []FailureIsUndone
<1>1. Typed /\ LifecycleInv => FailureIsUndone
  <2>1. ASSUME Typed, LifecycleInv, Ended("failed")  PROVE FailureIsUndone
    <3>1. mode = "idle" /\ outcome = "failed" /\ Ahead = {}
      BY <2>1 DEF Ended, Typed, TypeOK, Ahead
    <3> QED
      BY <2>1, <3>1
      DEF LifecycleInv, Running, Restorable, Undone, Policed, FailureIsUndone
  <2>2. ASSUME Typed, LifecycleInv, Ended("stopped")  PROVE FailureIsUndone
    BY <2>2 DEF LifecycleInv, Running, Stopped, Ended, FailureIsUndone
  <2> QED  BY <2>1, <2>2 DEF FailureIsUndone
<1> QED  BY <1>1, LifecycleInvariant, PTL

\* A rollback pointer with a digest is to another published release, one without is a
\* remnant of an earlier version, and no success leaves it there.
THEOREM RollbackIsPossible == Spec => []RollbackTargetIsPublished
<1>1. Typed /\ LifecycleInv => RollbackTargetIsPublished
  <2> SUFFICES ASSUME Typed, LifecycleInv  PROVE RollbackTargetIsPublished
    OBVIOUS
  <2>1. manifest # None => manifest \in Manifest
    BY DEF Typed, TypeOK
  <2> QED
    BY <2>1 DEF LifecycleInv, Offers, OffersOf, OffersIn, Coherent, Retired,
                RollbackTargetIsPublished
<1> QED  BY <1>1, LifecycleInvariant, PTL

\* A commit, returned or not, is of content that was verified, and keeps a way back that
\* has a digest.
THEOREM CommitIsOfVerified == Spec => CommitIsVerified
<1>1. Typed /\ LifecycleInv /\ [Next]_vars =>
        [mode = "do" /\ manifest' # manifest /\ manifest' # None =>
           /\ manifest'.active => /\ disk[manifest'.current] = "intact"
                                  /\ manifest'.previous \in manifest'.verified \union {None}
           /\ manifest # None /\ manifest.previous \in manifest.verified =>
                manifest'.previous \in manifest'.verified]_vars
  <2> SUFFICES ASSUME Typed, Running, Offers, [Next]_vars, mode = "do", manifest' # manifest,
                      manifest' # None
               PROVE  /\ manifest'.active =>
                           /\ disk[manifest'.current] = "intact"
                           /\ manifest'.previous \in manifest'.verified \union {None}
                      /\ manifest # None /\ manifest.previous \in manifest.verified =>
                           manifest'.previous \in manifest'.verified
    BY DEF LifecycleInv
  <2>1. Head(todo) = "manifest" /\ manifest' = NewManifest
    BY OffersStep
  <2> QED  BY <2>1, Committed
<1> QED  BY <1>1, LifecycleInvariant, PTL DEF Spec, CommitIsVerified

=============================================================================
