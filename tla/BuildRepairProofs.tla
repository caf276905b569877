-------------------------- MODULE BuildRepairProofs --------------------------
(***************************************************************************)
(* Theorems about BuildRepair, for every workspace, mode and number of     *)
(* repairs, and about MatrixRun, which runs it once for each target, for   *)
(* every number of targets and workers.                                    *)
(***************************************************************************)
EXTENDS BuildRepair, MatrixRun, TLAPS

-----------------------------------------------------------------------------
\* Trees and patches.

LEMMA ApplyIsTree ==
    ASSUME NEW t \in Patches, NEW tree \in Trees
    PROVE  Apply(t, tree) \in Trees
BY DEF Apply, Patches, Trees

LEMMA EditedIsTree ==
    ASSUME work \in Trees, Edited
    PROVE  work' \in Trees /\ fresh' \in BOOLEAN
<1>1. PICK edit \in Edits : /\ work' = Apply(edit, work)
                            /\ fresh' = (edit[Object] # Same \/ (fresh /\ edit[Source] = Same))
  BY DEF Edited
<1> QED
  BY <1>1, ApplyIsTree, TreeAssumption

LEMMA DiffIsPatch ==
    ASSUME NEW from \in Trees, NEW to \in Trees
    PROVE  Diff(from, to) \in Patches
BY DEF Diff, Patches, Trees

LEMMA RestoredIsTree ==
    ASSUME NEW paths, NEW from \in Trees, NEW to \in Trees
    PROVE  Restored(paths, from, to) \in Trees
BY DEF Restored, Trees

LEMMA ResetIsTree ==
    ASSUME NEW ref \in Trees, NEW tree \in Trees
    PROVE  ResetTo(ref, tree) \in Trees
BY DEF ResetTo, Trees

LEMMA EmptyIsPatch == Empty \in Patches
BY DEF Empty, Patches

LEMMA CleanedIsTree ==
    ASSUME NEW s, NEW tree \in Trees
    PROVE  Cleaned(s, tree) \in Trees
BY DEF Cleaned, Trees

LEMMA DetectedIsSystem ==
    ASSUME NEW tree
    PROVE  Detected(tree) \in Systems \cup {"unknown"}
BY DEF Detected, Systems

\* What Make or CMake compile is an object, and compiling adds it to the tree.
LEMMA CompiledIsObject ==
    ASSUME TypeOK, Buildable
    PROVE  Compiled \in Contents
BY RolesAssumption DEF Compiled, Buildable, TypeOK

LEMMA CompileKeepsTree ==
    ASSUME TypeOK, Compile
    PROVE  work' \in Trees /\ fresh' \in BOOLEAN
<1>1. Compiled \in Contents
  BY CompiledIsObject DEF Compile
<1>2. CASE system = "make"
  <2>1. work' = [work EXCEPT ![Object] = Compiled]
    BY <1>2 DEF Compile
  <2>2. fresh' = TRUE
    BY <1>2 DEF Compile
  <2> QED
    BY <1>1, <2>1, <2>2, RolesAssumption, PathsAssumption DEF Trees, TypeOK
<1>3. CASE system # "make"
  BY <1>3 DEF Compile, TypeOK
<1> QED
  BY <1>2, <1>3

-----------------------------------------------------------------------------
Entries == [status : Statuses \cup {"error"}, blocking : BOOLEAN,
            error : Errors, patch : Patches]

LEMMA EntryIsEntry ==
    ASSUME NEW status \in Statuses \cup {"none"}, NEW failure \in Errors,
           failure = "none" => status # "none", turn.blocking \in BOOLEAN, patch \in Patches
    PROVE  Entry(status, failure) \in Entries
BY DEF Entry, Entries

\* While an attempt is under way there is one left to come.
Counted ==
    pc \in {"checkpoint", "codex", "judge", "restore", "record", "prepare"}
    => attempt < MaxRepairs

\* Only a refused turn is recorded without an answer.
Spoken ==
    /\ pc = "restore" => error # "none"
    /\ pc = "record" /\ error = "none" => turn.status \in Statuses

LEMMA InitType == Init => TypeOK /\ Counted /\ Spoken
<1> SUFFICES ASSUME Init PROVE TypeOK /\ Counted /\ Spoken
  OBVIOUS
<1>1. system \in Systems \cup {"unknown"}
  BY DetectedIsSystem DEF Init
<1>2. work \in Trees /\ head \in Trees /\ base \in Trees
  BY TreeAssumption DEF Init
<1>3. turn \in Turns
  BY DEF Init, Turns
<1>4. repairs \in Seq(Entries)
  BY DEF Init
<1>5. attempt \in 0..MaxRepairs
  BY ConfigAssumption DEF Init
<1> QED
  BY <1>1, <1>2, <1>3, <1>4, <1>5, EmptyIsPatch DEF Init, TypeOK, Counted, Spoken, Errors, Entries

LEMMA StepType ==
    ASSUME TypeOK, Counted, Spoken, [Next]_vars
    PROVE  TypeOK'
<1> USE DEF TypeOK
<1>1. CASE Link
  <2>1. work' \in Trees /\ fresh' \in BOOLEAN
    BY <1>1, CompileKeepsTree DEF Link
  <2>2. product' \in Contents
    BY <1>1, CompiledIsObject DEF Link, Compile
  <2>3. pc' \in {"published", "checkpoint", "failed"}
    BY <1>1 DEF Link, Retry
  <2> QED
    BY <1>1, <2>1, <2>2, <2>3 DEF Link
<1>2. CASE LinkFails
  <2>1. work' \in Trees /\ fresh' \in BOOLEAN
    BY <1>2, CompileKeepsTree DEF LinkFails
  <2> QED
    BY <1>2, <2>1 DEF LinkFails, Retry
<1>3. CASE CompileFails
  BY <1>3 DEF CompileFails, Retry
<1>4. CASE Checkpoint
  BY <1>4 DEF Checkpoint
<1>5. CASE CheckpointFails
  BY <1>5 DEF CheckpointFails
<1>6. CASE Codex
  <2>1. work' \in Trees /\ fresh' \in BOOLEAN
    BY <1>6, EditedIsTree DEF Codex
  <2>3. turn' \in Turns
    BY <1>6 DEF Codex, Turns
  <2> QED
    BY <1>6, <2>1, <2>3, EmptyIsPatch DEF Codex, Errors
<1>7. CASE Refuse
  BY <1>7 DEF Refuse, Errors
<1>8. CASE CaptureFails
  BY <1>8, RestoredIsTree DEF CaptureFails, Errors
<1>9. CASE Capture
  <2>1. PICK paths \in Discards(head, work) :
            /\ work' = Restored(paths, head, work)
            /\ fresh' = (fresh \/ Object \in paths)
            /\ Commit(Restored(paths, head, work))
    BY <1>9 DEF Capture
  <2>2. work' \in Trees
    BY <2>1, RestoredIsTree
  <2>3. fresh' \in BOOLEAN
    BY <2>1
  <2>4. head' \in Trees /\ patch' \in Patches
    BY <2>1, <2>2, DiffIsPatch DEF Commit
  <2>5. pc' \in {"record", "restore"} /\ error' \in Errors
    BY <2>1 DEF Commit, Errors
  <2> QED
    BY <1>9, <2>2, <2>3, <2>4, <2>5 DEF Capture
<1>10. CASE Restore
  BY <1>10, ResetIsTree DEF Restore, Reset
<1>11. CASE Record
  <2>1. Entry(turn.status, error) \in Entries
    BY <1>11, EntryIsEntry DEF Turns, Record, Spoken, Statuses
  <2>2. repairs' \in Seq(Entries)
    BY <1>11, <2>1 DEF Record, Entries
  <2> QED
    BY <1>11, <2>2 DEF Record, Entries
<1>12. CASE ResultFails
  <2>1. error' \in Errors /\ work' \in Trees /\ head' \in Trees
    BY <1>12, ResetIsTree DEF ResultFails, Reset, Errors
  <2>2. error' # "none"
    BY <1>12 DEF ResultFails
  <2>5. Entry(turn.status, error') \in Entries
    BY <2>1, <2>2, EntryIsEntry DEF Turns
  <2>3. repairs' = Append(repairs, Entry(turn.status, error'))
    BY <1>12 DEF ResultFails
  <2>4. repairs' \in Seq(Entries)
    BY <2>3, <2>5 DEF Entries
  <2> QED
    BY <1>12, <2>1, <2>4 DEF ResultFails, Entries
<1>13. CASE Prepare
  <2>1. system' \in Systems \cup {"unknown"}
    BY <1>13, DetectedIsSystem DEF Prepare, Redetected
  <2>2. work' \in Trees
    BY <1>13, CleanedIsTree DEF Prepare
  <2>3. attempt' \in 0..MaxRepairs
    BY <1>13, ConfigAssumption DEF Prepare, Counted
  <2> QED
    BY <1>13, <2>1, <2>2, <2>3 DEF Prepare
<1>14. CASE PrepareFails
  BY <1>14 DEF PrepareFails
<1>15. CASE LateEdit
  BY <1>15, EditedIsTree DEF LateEdit
<1>16. CASE UNCHANGED vars
  BY <1>16 DEF vars
<1> QED
  BY <1>1, <1>2, <1>3, <1>4, <1>5, <1>6, <1>7, <1>8, <1>9, <1>10, <1>11, <1>12, <1>13,
     <1>14, <1>15, <1>16 DEF Next, Step, Finished

LEMMA StepCounted ==
    ASSUME TypeOK, Counted, [Next]_vars
    PROVE  Counted'
<1>1. attempt \in Nat /\ MaxRepairs \in Nat
  BY ConfigAssumption DEF TypeOK
<1>2. CASE Link \/ LinkFails \/ CompileFails
  BY <1>1, <1>2 DEF Counted, Link, LinkFails, CompileFails, Retry
<1>3. CASE Checkpoint \/ CheckpointFails \/ Codex
  BY <1>1, <1>3 DEF Counted, Checkpoint, CheckpointFails, Codex
<1>4. CASE Refuse \/ CaptureFails \/ Restore
  BY <1>1, <1>4 DEF Counted, Refuse, CaptureFails, Restore
<1>5. CASE Capture
  BY <1>1, <1>5 DEF Counted, Capture
<1>6. CASE Record \/ ResultFails \/ PrepareFails \/ Prepare
  BY <1>1, <1>6 DEF Counted, Record, ResultFails, PrepareFails, Prepare
<1>7. CASE LateEdit
  BY <1>7 DEF Counted, LateEdit
<1>8. CASE UNCHANGED vars
  BY <1>8 DEF Counted, vars
<1> QED
  BY <1>2, <1>3, <1>4, <1>5, <1>6, <1>7, <1>8 DEF Next, Step, Finished

LEMMA StepSpoken ==
    ASSUME TypeOK, Spoken, [Next]_vars
    PROVE  Spoken'
<1>1. CASE Link \/ LinkFails \/ CompileFails
  BY <1>1 DEF Spoken, Link, LinkFails, CompileFails, Retry
<1>2. CASE Checkpoint \/ CheckpointFails \/ Codex
  BY <1>2 DEF Spoken, Checkpoint, CheckpointFails, Codex
<1>3. CASE Refuse \/ CaptureFails
  BY <1>3 DEF Spoken, Refuse, CaptureFails
<1>4. CASE Restore
  BY <1>4 DEF Spoken, Restore
<1>5. CASE Capture
  <2>1. turn'.status \in Statuses
    BY <1>5 DEF Capture, Acceptable, Continuation, Statuses
  <2>2. pc' = "restore" => error' # "none"
    BY <1>5 DEF Capture, Commit
  <2> QED
    BY <2>1, <2>2 DEF Spoken
<1>6. CASE Record \/ ResultFails \/ Prepare \/ PrepareFails
  BY <1>6 DEF Spoken, Record, ResultFails, Prepare, PrepareFails
<1>7. CASE LateEdit
  BY <1>7 DEF Spoken, LateEdit
<1>8. CASE UNCHANGED vars
  BY <1>8 DEF Spoken, vars
<1> QED
  BY <1>1, <1>2, <1>3, <1>4, <1>5, <1>6, <1>7, <1>8 DEF Next, Step, Finished

\* Every variable keeps its type, so the loop makes no more attempts than it may
\* and records nothing but accepted and refused turns.
THEOREM TypeCorrect == Spec => []TypeOK
<1>1. Init => TypeOK /\ Counted /\ Spoken
  BY InitType
<1>2. TypeOK /\ Counted /\ Spoken /\ [Next]_vars => (TypeOK /\ Counted /\ Spoken)'
  BY StepType, StepCounted, StepSpoken
<1> QED
  BY <1>1, <1>2, PTL DEF Spec

-----------------------------------------------------------------------------
\* What the loop knows when it builds again.

\* What is recorded before the loop ends was accepted with a status.
Answered ==
    pc # "failed" => \A k \in 1..Len(repairs) :
        repairs[k].error = "none" /\ repairs[k].status \in Statuses

\* The next build uses the system its tree has, if it has one.
SystemFits ==
    pc = "build" /\ Detected(work) # "unknown" => system = Detected(work)

Loop == TypeOK /\ Counted /\ Spoken /\ Answered /\ SystemFits
        /\ BuiltWithDetected /\ IncompleteIsNotPublished

LEMMA LoopInit == Init => Loop
<1> SUFFICES ASSUME Init PROVE Loop
  OBVIOUS
<1>1. TypeOK /\ Counted /\ Spoken
  BY InitType
<1>2. Answered /\ BuiltWithDetected /\ IncompleteIsNotPublished
  BY DEF Init, Answered, BuiltWithDetected, IncompleteIsNotPublished
<1>3. SystemFits
  BY DEF Init, SystemFits
<1> QED
  BY <1>1, <1>2, <1>3 DEF Loop

LEMMA RecordedIsSeq == ASSUME TypeOK PROVE repairs \in Seq(Entries)
BY DEF TypeOK, Entries

\* Appending an accepted entry keeps the record as Answered has it.
LEMMA AppendAccepted ==
    ASSUME NEW seq \in Seq(Entries), NEW e \in Entries,
           e.error = "none", e.status \in Statuses,
           \A k \in 1..Len(seq) : seq[k].error = "none" /\ seq[k].status \in Statuses
    PROVE  \A k \in 1..Len(Append(seq, e)) :
              /\ Append(seq, e)[k].error = "none"
              /\ Append(seq, e)[k].status \in Statuses
<1> TAKE k \in 1..Len(Append(seq, e))
<1>1. CASE k = Len(seq) + 1
  BY <1>1
<1>2. CASE k \in 1..Len(seq)
  BY <1>2
<1> QED
  BY <1>1, <1>2

LEMMA StepAnswered ==
    ASSUME TypeOK, Spoken, Answered, [Next]_vars
    PROVE  Answered'
<1>1. CASE Link \/ LinkFails \/ CompileFails
  BY <1>1 DEF Answered, Link, LinkFails, CompileFails, Retry
<1>2. CASE Checkpoint \/ CheckpointFails
  BY <1>2 DEF Answered, Checkpoint, CheckpointFails
<1>3. CASE Codex
  BY <1>3 DEF Answered, Codex
<1>4. CASE Refuse \/ CaptureFails \/ Restore
  BY <1>4 DEF Answered, Refuse, CaptureFails, Restore
<1>5. CASE Capture
  <2>1. pc' \in {"record", "restore"}
    BY <1>5 DEF Capture, Commit
  <2> QED
    BY <1>5, <2>1 DEF Answered, Capture
<1>6. CASE Record
  <2>1. CASE error # "none"
    BY <1>6, <2>1 DEF Answered, Record
  <2>2. CASE error = "none"
    <3>1. Entry(turn.status, error) \in Entries
      BY <1>6, EntryIsEntry DEF TypeOK, Turns, Record, Spoken, Statuses
    <3>2. Entry(turn.status, error).error = "none"
      BY <2>2 DEF Entry
    <3>3. Entry(turn.status, error).status = turn.status
      BY <2>2 DEF Entry
    <3>4. turn.status \in Statuses
      BY <1>6, <2>2 DEF Spoken, Record
    <3>5. \A k \in 1..Len(repairs) :
              repairs[k].error = "none" /\ repairs[k].status \in Statuses
      BY <1>6 DEF Answered, Record
    <3>6. repairs' = Append(repairs, Entry(turn.status, error)) /\ pc' = "prepare"
      BY <1>6, <2>2 DEF Record
    <3>7. \A k \in 1..Len(repairs') :
              repairs'[k].error = "none" /\ repairs'[k].status \in Statuses
      BY <3>1, <3>2, <3>3, <3>4, <3>5, <3>6, AppendAccepted, RecordedIsSeq
    <3> QED
      BY <3>6, <3>7 DEF Answered
  <2> QED
    BY <2>1, <2>2
<1>7. CASE ResultFails \/ PrepareFails \/ Prepare
  BY <1>7 DEF Answered, ResultFails, PrepareFails, Prepare
<1>8. CASE LateEdit
  BY <1>8 DEF Answered, LateEdit
<1>9. CASE UNCHANGED vars
  BY <1>9 DEF Answered, vars
<1> QED
  BY <1>1, <1>2, <1>3, <1>4, <1>5, <1>6, <1>7, <1>8, <1>9 DEF Next, Step, Finished

\* The object is no build file: making or removing it changes no build system.
LEMMA ObjectIsNoBuildFile ==
    ASSUME NEW tree \in Trees, NEW content
    PROVE  Detected([tree EXCEPT ![Object] = content]) = Detected(tree)
<1>1. BuildFiles["cmake"] \in Paths \ Generated /\ BuildFiles["make"] \in Paths \ Generated
  BY RolesAssumption DEF Systems
<1>2. Object # BuildFiles["cmake"] /\ Object # BuildFiles["make"]
  BY <1>1, RolesAssumption
<1> QED
  BY <1>1, <1>2 DEF Detected, Trees

LEMMA CompileKeepsSystem ==
    ASSUME TypeOK, Compile
    PROVE  Detected(work') = Detected(work)
<1>1. CASE system = "make"
  <2>1. work' = [work EXCEPT ![Object] = Compiled]
    BY <1>1 DEF Compile
  <2> QED
    BY <2>1, ObjectIsNoBuildFile DEF TypeOK
<1>2. CASE system # "make"
  BY <1>2 DEF Compile
<1> QED
  BY <1>1, <1>2

LEMMA StepSystem ==
    ASSUME TypeOK, SystemFits, BuiltWithDetected, [Next]_vars
    PROVE  SystemFits' /\ BuiltWithDetected'
<1>1. CASE Link
  <2>1. Detected(work') = Detected(work)
    BY <1>1, CompileKeepsSystem DEF Link
  <2>2. Detected(work) # "unknown"
    BY <1>1 DEF Link, Compile, Buildable, Detected, Systems
  <2>3. system' = system /\ system = Detected(work)
    BY <1>1, <2>2 DEF Link, SystemFits
  <2>4. pc' # "build"
    BY <1>1 DEF Link, Retry
  <2> QED
    BY <2>1, <2>3, <2>4 DEF SystemFits, BuiltWithDetected
<1>2. CASE LinkFails \/ CompileFails
  BY <1>2 DEF SystemFits, BuiltWithDetected, LinkFails, CompileFails, Retry
<1>3. CASE Checkpoint \/ CheckpointFails \/ Codex \/ Refuse \/ CaptureFails \/ Restore
  BY <1>3 DEF SystemFits, BuiltWithDetected, Checkpoint, CheckpointFails, Codex, Refuse,
     CaptureFails, Restore
<1>4. CASE Capture
  BY <1>4 DEF SystemFits, BuiltWithDetected, Capture, Commit
<1>5. CASE Record \/ ResultFails \/ PrepareFails
  BY <1>5 DEF SystemFits, BuiltWithDetected, Record, ResultFails, PrepareFails
<1>6. CASE Prepare
  <2>1. Detected(Cleaned(Redetected(work), work)) = Detected(work)
    BY ObjectIsNoBuildFile DEF Cleaned, TypeOK
  <2> QED
    BY <1>6, <2>1 DEF Prepare, Redetected, SystemFits, BuiltWithDetected
<1>7. CASE LateEdit
  BY <1>7 DEF SystemFits, BuiltWithDetected, LateEdit
<1>8. CASE UNCHANGED vars
  BY <1>8 DEF SystemFits, BuiltWithDetected, vars
<1> QED
  BY <1>1, <1>2, <1>3, <1>4, <1>5, <1>6, <1>7, <1>8 DEF Next, Step, Finished

LEMMA StepComplete ==
    ASSUME TypeOK, Answered, IncompleteIsNotPublished, [Next]_vars
    PROVE  IncompleteIsNotPublished'
<1>1. CASE Link
  <2> SUFFICES ASSUME pc' = "published", Porting, repairs # <<>>
               PROVE  /\ repairs[Len(repairs)].status \in {"repaired", "ported", "progress"}
                      /\ ~repairs[Len(repairs)].blocking
    BY <1>1 DEF Link, IncompleteIsNotPublished, Porting
  <2>1. PICK reuses \in BOOLEAN : Faithful(reuses)
    BY <1>1 DEF Link, Retry
  <2>2. /\ repairs[Len(repairs)].status \notin {"blocked", "no-change"}
        /\ ~repairs[Len(repairs)].blocking
    BY <2>1 DEF Faithful
  <2>3. Len(repairs) \in 1..Len(repairs)
    BY RecordedIsSeq
  <2>4. repairs[Len(repairs)].status \in Statuses
    BY <1>1, <2>3 DEF Answered, Link
  <2> QED
    BY <2>2, <2>4 DEF Statuses
<1>2. CASE LinkFails \/ CompileFails
  BY <1>2 DEF IncompleteIsNotPublished, LinkFails, CompileFails, Retry
<1>3. CASE Checkpoint \/ CheckpointFails \/ Codex \/ Refuse \/ CaptureFails \/ Restore
  BY <1>3 DEF IncompleteIsNotPublished, Checkpoint, CheckpointFails, Codex, Refuse,
     CaptureFails, Restore
<1>4. CASE Capture
  BY <1>4 DEF IncompleteIsNotPublished, Capture, Commit
<1>5. CASE Record \/ ResultFails \/ PrepareFails \/ Prepare
  BY <1>5 DEF IncompleteIsNotPublished, Record, ResultFails, PrepareFails, Prepare
<1>6. CASE LateEdit
  BY <1>6 DEF IncompleteIsNotPublished, LateEdit
<1>7. CASE UNCHANGED vars
  BY <1>7 DEF IncompleteIsNotPublished, vars
<1> QED
  BY <1>1, <1>2, <1>3, <1>4, <1>5, <1>6, <1>7 DEF Next, Step, Finished

LEMMA LoopStep ==
    ASSUME Loop, [Next]_vars
    PROVE  Loop'
<1>1. TypeOK' /\ Counted' /\ Spoken'
  BY StepType, StepCounted, StepSpoken DEF Loop
<1>2. Answered' /\ IncompleteIsNotPublished'
  BY StepAnswered, StepComplete DEF Loop
<1>3. SystemFits' /\ BuiltWithDetected'
  BY StepSystem DEF Loop
<1> QED
  BY <1>1, <1>2, <1>3 DEF Loop

LEMMA LoopAlways == Spec => []Loop
BY LoopInit, LoopStep, PTL DEF Spec

\* What is published was built with the build system of its own sources, whatever
\* build files the turns have made and removed.
THEOREM SystemIsDetected == Spec => []BuiltWithDetected
BY LoopAlways, PTL DEF Loop

\* In port mode no artifact is published after a turn that calls the port blocked,
\* unchanged or lacking something.
THEOREM OnlyCompletePorts == Spec => []IncompleteIsNotPublished
BY LoopAlways, PTL DEF Loop

-----------------------------------------------------------------------------
\* No object survives to the next build that Make would keep; the first one builds
\* what was copied.
NothingKept ==
    /\ CleanRule /\ pc = "build" /\ system = "make"
       /\ work[BuildFiles["make"]] # Absent /\ fresh /\ attempt # 0
       => work[Object] \notin Contents
    /\ pc = "build" /\ attempt = 0 => work = Original

Current == NothingKept /\ ProductIsCurrent

LEMMA CurrentInit == Init => Current
BY DEF Init, Current, NothingKept, ProductIsCurrent

LEMMA StepCurrent ==
    ASSUME TypeOK, Current, [Next]_vars
    PROVE  Current'
<1> USE DEF Current, NothingKept, ProductIsCurrent
<1>1. CASE Link
  <2> SUFFICES ASSUME pc' = "published", CleanRule
               PROVE  \/ product' = ObjectOf[work'[Source]]
                      \/ attempt' = 0 /\ product' = Original[Object]
    BY <1>1 DEF Link, Retry
  <2>1. work'[Source] = work[Source]
    <3>1. Source # Object
      BY RolesAssumption
    <3> QED
      BY <1>1, <3>1, RolesAssumption DEF Link, Compile, TypeOK, Trees
  <2>2. CASE system = "make" /\ fresh /\ work[Object] \in Contents
    <3>1. attempt = 0 /\ work = Original
      BY <1>1, <2>2 DEF Link, Compile, Buildable
    <3> QED
      BY <1>1, <2>2, <3>1 DEF Link, Compiled
  <2>3. CASE ~(system = "make" /\ fresh /\ work[Object] \in Contents)
    <3>1. product' = ObjectOf[work[Source]]
      BY <1>1, <2>3 DEF Link, Compiled
    <3> QED
      BY <2>1, <3>1
  <2> QED
    BY <2>2, <2>3
<1>2. CASE LinkFails \/ CompileFails
  BY <1>2 DEF LinkFails, CompileFails, Retry
<1>3. CASE Checkpoint \/ CheckpointFails \/ Codex \/ Refuse \/ CaptureFails \/ Restore
  BY <1>3 DEF Checkpoint, CheckpointFails, Codex, Refuse, CaptureFails, Restore
<1>4. CASE Capture
  BY <1>4 DEF Capture, Commit
<1>5. CASE Record \/ ResultFails \/ PrepareFails
  BY <1>5 DEF Record, ResultFails, PrepareFails
<1>6. CASE Prepare
  <2>0. attempt' # 0
    BY <1>6, ConfigAssumption DEF Prepare, TypeOK
  <2> SUFFICES ASSUME CleanRule, system' = "make", work'[BuildFiles["make"]] # Absent
               PROVE  work'[Object] \notin Contents
    BY <1>6, <2>0 DEF Prepare
  <2>1. work' = Cleaned("make", work)
    BY <1>6 DEF Prepare
  <2>2. Object \in Paths
    BY RolesAssumption, PathsAssumption
  <2>3. work[BuildFiles["make"]] # Absent
    BY <2>1 DEF Cleaned
  <2>4. work'[Object] = Absent
    BY <2>1, <2>2, <2>3 DEF Cleaned, TypeOK, Trees
  <2> QED
    BY <2>4, ContentsAssumption
<1>7. CASE LateEdit
  BY <1>7 DEF LateEdit
<1>8. CASE UNCHANGED vars
  BY <1>8 DEF vars
<1> QED
  BY <1>1, <1>2, <1>3, <1>4, <1>5, <1>6, <1>7, <1>8 DEF Next, Step, Finished

\* Where make clean removes objects, no published artifact was linked from an
\* object of an earlier attempt or of Codex, whatever Git has done to file times,
\* and after a repair not from one shipped with the project either.
THEOREM ProductsAreCurrent == Spec => []ProductIsCurrent
<1>1. Loop /\ Current /\ [Next]_vars => Current'
  BY StepCurrent DEF Loop
<1> QED
  BY CurrentInit, LoopAlways, <1>1, PTL DEF Spec, Current

-----------------------------------------------------------------------------
\* The workspace after a refused turn.

IsUndone == \A p \in Paths : work[p] \in {base[p], Nested}

Undone ==
    "reset" \notin MayFail =>
        /\ pc = "record" /\ error # "none" /\ ~Abandoned => IsUndone
        /\ RefusedIsUndone

LEMMA ResetUndoes ==
    ASSUME Reset, "reset" \notin MayFail, base' = base
    PROVE  IsUndone'
BY DEF Reset, ResetTo, IsUndone

LEMMA UndoneInit == Init => Undone
BY DEF Init, Undone, RefusedIsUndone

\* A loop that ends for another reason has refused no turn.
LEMMA NoneRefused ==
    ASSUME TypeOK, Answered, pc # "failed", repairs # <<>>
    PROVE  repairs[Len(repairs)].error = "none"
<1>1. Len(repairs) \in 1..Len(repairs)
  BY RecordedIsSeq
<1> QED
  BY <1>1 DEF Answered

LEMMA StepUndone ==
    ASSUME TypeOK, Answered, Undone, [Next]_vars
    PROVE  Undone'
<1> SUFFICES ASSUME "reset" \notin MayFail
             PROVE  /\ pc' = "record" /\ error' # "none" /\ ~Abandoned' => IsUndone'
                    /\ RefusedIsUndone'
  BY DEF Undone
<1>0. CASE LateEdit
  BY <1>0 DEF LateEdit, Abandoned, RefusedIsUndone
<1>1. CASE UNCHANGED repairs /\ pc # "failed" /\ pc # "restore" /\ pc # "judge" /\ pc # "record"
  <2>1. RefusedIsUndone'
    BY <1>1, NoneRefused DEF RefusedIsUndone
  <2>2. pc' # "record"
    BY <1>1 DEF Next, Step, Finished, vars, Link, LinkFails, CompileFails, Retry, Checkpoint,
       LateEdit, CheckpointFails, Codex, Refuse, CaptureFails, Capture, Restore, Record, ResultFails,
       Prepare, PrepareFails
  <2> QED
    BY <2>1, <2>2
<1>2. CASE Refuse \/ CaptureFails
  BY <1>2 DEF Refuse, CaptureFails, RefusedIsUndone
<1>3. CASE Capture
  BY <1>3 DEF Capture, Commit, RefusedIsUndone
<1>4. CASE Restore
  <2>1. IsUndone'
    BY <1>4, ResetUndoes DEF Restore
  <2> QED
    BY <1>4, <2>1 DEF Restore, RefusedIsUndone
<1>5. CASE Record
  <2>1. repairs' = Append(repairs, Entry(turn.status, error))
    BY <1>5 DEF Record
  <2>2. repairs'[Len(repairs')].error = error
    <3>1. Entry(turn.status, error).error = error
      BY DEF Entry
    <3> QED
      BY <2>1, <3>1, RecordedIsSeq
  <2>3. error # "none" /\ ~Abandoned => IsUndone
    BY <1>5 DEF Record, Undone
  <2>4. IsUndone => IsUndone'
    BY <1>5 DEF Record, IsUndone
  <2>5. pc' # "record" /\ turn' = turn
    BY <1>5 DEF Record
  <2> QED
    BY <2>2, <2>3, <2>4, <2>5 DEF RefusedIsUndone, IsUndone, Abandoned
<1>6. CASE ResultFails
  <2>1. ~Abandoned' => IsUndone'
    <3>1. CASE error = "none"
      BY <1>6, <3>1, ResetUndoes DEF ResultFails
    <3>2. CASE error # "none"
      BY <1>6, <3>2 DEF ResultFails, Undone, IsUndone, Abandoned
    <3> QED
      BY <3>1, <3>2
  <2> QED
    BY <1>6, <2>1 DEF ResultFails, RefusedIsUndone, IsUndone
<1>7. CASE UNCHANGED vars
  BY <1>7 DEF vars, Undone, IsUndone, RefusedIsUndone, Abandoned
<1>8. CASE Link \/ LinkFails \/ CompileFails \/ Checkpoint \/ CheckpointFails
           \/ Codex \/ Prepare \/ PrepareFails
  BY <1>8, <1>1 DEF Link, LinkFails, CompileFails, Checkpoint, CheckpointFails, Codex,
     Prepare, PrepareFails
<1> QED
  BY <1>0, <1>2, <1>3, <1>4, <1>5, <1>6, <1>7, <1>8 DEF Next, Step, Finished

\* After any refused turn, and any failure after one, the workspace is that of the
\* checkpoint again, the repositories the turn has made aside, unless the turn was
\* given up and goes on.
THEOREM RefusedTurnsAreUndone == Spec => []RefusedIsUndone
<1>1. "reset" \in MayFail => RefusedIsUndone
  BY DEF RefusedIsUndone
<1>2. Undone => RefusedIsUndone
  BY <1>1 DEF Undone
<1>3. Loop /\ Undone /\ [Next]_vars => Undone'
  BY StepUndone DEF Loop
<1> QED
  BY UndoneInit, LoopAlways, <1>2, <1>3, PTL DEF Spec
-----------------------------------------------------------------------------
\* The record, replayed.

Sources == Paths \ Generated

\* Wherever a build starts or a turn can be adopted, the sources are what the record
\* replays to; an adopted turn that is not yet recorded has its patch in addition.
Tracked ==
    /\ pc \in {"build", "checkpoint", "prepare", "published"} =>
           \A p \in Sources : Replays(p, work[p])
    /\ pc = "codex" => head = base
    /\ pc = "judge" => head = base /\ patch = Empty
    /\ pc \in {"codex", "judge", "restore", "record"} =>
           \A p \in Sources : Replays(p, base[p])
    /\ pc = "record" /\ error = "none" =>
           \A p \in Sources : IF patch[p] = Same THEN Replays(p, work[p])
                                                 ELSE work[p] = patch[p]
    /\ pc = "failed" /\ ~Abandoned /\ "reset" \notin MayFail =>
           \A p \in Sources : work[p] = Nested \/ Replays(p, work[p])

LEMMA TrackedReproduces == ASSUME Tracked PROVE PatchesReproduceSource
BY DEF Tracked, PatchesReproduceSource, Sources

\* An entry that was refused, or leaves a path alone, changes nothing at it.
LEMMA AppendKeeps ==
    ASSUME NEW e \in Entries, NEW p \in Paths, NEW content, repairs \in Seq(Entries),
           repairs' = Append(repairs, e), e.error # "none" \/ e.patch[p] = Same,
           Replays(p, content)
    PROVE  Replays(p, content)'
<1> DEFINE Touching(seq) == {k \in 1..Len(seq) : seq[k].error = "none" /\ seq[k].patch[p] # Same}
<1>1. Touching(Append(repairs, e)) = Touching(repairs)
  OBVIOUS
<1>2. \A k \in Touching(repairs) : Append(repairs, e)[k] = repairs[k]
  OBVIOUS
<1> QED
  BY <1>1, <1>2 DEF Replays

\* An adopted entry that touches a path decides its content.
LEMMA AppendDecides ==
    ASSUME NEW e \in Entries, NEW p \in Paths, NEW content, repairs \in Seq(Entries),
           repairs' = Append(repairs, e), e.error = "none", e.patch[p] # Same,
           content = e.patch[p]
    PROVE  Replays(p, content)'
<1> DEFINE last == Len(repairs) + 1
<1>1. last \in 1..Len(repairs') /\ repairs'[last] = e
  OBVIOUS
<1>2. \A k \in 1..Len(repairs') : k <= last
  OBVIOUS
<1> QED
  BY <1>1, <1>2 DEF Replays

\* Without a new entry the record replays to the same.
LEMMA KeepsReplays ==
    ASSUME NEW p, NEW content, repairs' = repairs, Replays(p, content)
    PROVE  Replays(p, content)'
BY DEF Replays

LEMMA SourcesStay ==
    ASSUME repairs' = repairs, \A p \in Sources : work'[p] = work[p],
           \A p \in Sources : Replays(p, work[p])
    PROVE  \A p \in Sources : Replays(p, work[p])'
<1> TAKE p \in Sources
<1>1. PICK c : c = work[p]
  OBVIOUS
<1>2. Replays(p, c)'
  BY <1>1, KeepsReplays
<1> QED
  BY <1>1, <1>2 DEF Replays

LEMMA BaseStays ==
    ASSUME repairs' = repairs, base' = base, \A p \in Sources : Replays(p, base[p])
    PROVE  \A p \in Sources : Replays(p, base[p])'
<1> TAKE p \in Sources
<1>1. PICK c : c = base[p]
  OBVIOUS
<1>2. Replays(p, c)'
  BY <1>1, KeepsReplays
<1> QED
  BY <1>1, <1>2 DEF Replays

\* Builds and cleaning change no source.
LEMMA CompileKeepsSources ==
    ASSUME TypeOK, Compile
    PROVE  \A p \in Sources : work'[p] = work[p]
BY RolesAssumption DEF Compile, TypeOK, Trees, Sources

LEMMA CleanedKeepsSources ==
    ASSUME NEW s, NEW tree \in Trees
    PROVE  \A p \in Sources : Cleaned(s, tree)[p] = tree[p]
BY RolesAssumption DEF Cleaned, Trees, Sources

LEMMA TrackedInit == Init => Tracked
<1> SUFFICES ASSUME Init PROVE Tracked
  OBVIOUS
<1>1. \A p \in Sources : Replays(p, work[p])
  BY DEF Init, Replays
<1> QED
  BY <1>1 DEF Init, Tracked

LEMMA StepTracked ==
    ASSUME TypeOK, Spoken, Answered, Undone, Undone', Tracked, [Next]_vars
    PROVE  Tracked'
<1>1. CASE Link \/ LinkFails \/ CompileFails
  <2>1. \A p \in Sources : work'[p] = work[p]
    BY <1>1, CompileKeepsSources DEF Link, LinkFails, CompileFails
  <2>2. \A p \in Sources : Replays(p, work[p])'
    BY <1>1, <2>1, SourcesStay DEF Link, LinkFails, CompileFails, Tracked
  <2>3. pc' \in {"published", "checkpoint", "failed"}
    BY <1>1 DEF Link, LinkFails, CompileFails, Retry
  <2> QED
    BY <2>2, <2>3 DEF Tracked
<1>2. CASE Checkpoint
  <2>1. \A p \in Sources : Replays(p, work[p])'
    BY <1>2, SourcesStay DEF Checkpoint, Tracked
  <2>2. \A p \in Sources : Replays(p, base[p])'
    BY <1>2, <2>1 DEF Checkpoint, Replays
  <2>3. pc' = "codex" /\ head' = base'
    BY <1>2 DEF Checkpoint
  <2> QED
    BY <2>2, <2>3 DEF Tracked
<1>3. CASE CheckpointFails \/ PrepareFails
  <2>1. \A p \in Sources : Replays(p, work[p])'
    BY <1>3, SourcesStay DEF CheckpointFails, PrepareFails, Tracked
  <2>2. pc' = "failed"
    BY <1>3 DEF CheckpointFails, PrepareFails
  <2> QED
    BY <2>1, <2>2 DEF Tracked
<1>4. CASE Codex
  <2>1. \A p \in Sources : Replays(p, base[p])'
    BY <1>4, BaseStays DEF Codex, Tracked
  <2>2. pc' = "judge" /\ head' = base' /\ patch' = Empty'
    BY <1>4 DEF Codex, Tracked, Empty
  <2> QED
    BY <2>1, <2>2 DEF Tracked
<1>5. CASE Refuse \/ CaptureFails
  <2>1. \A p \in Sources : Replays(p, base[p])'
    BY <1>5, BaseStays DEF Refuse, CaptureFails, Tracked
  <2>2. pc' = "restore"
    BY <1>5 DEF Refuse, CaptureFails
  <2> QED
    BY <2>1, <2>2 DEF Tracked
<1>6. CASE Capture
  <2>1. \A p \in Sources : Replays(p, base[p])'
    BY <1>6, BaseStays DEF Capture, Tracked
  <2>2. PICK kept \in Trees : work' = kept /\ Commit(kept)
    BY <1>6, RestoredIsTree DEF Capture, TypeOK
  <2>3. pc' \in {"record", "restore"}
    BY <2>2 DEF Commit
  <2>4. ASSUME pc' = "record", error' = "none", NEW p \in Sources
        PROVE  (IF patch[p] = Same THEN Replays(p, work[p]) ELSE work[p] = patch[p])'
    <3>1. head = base /\ patch = Empty
      BY <1>6 DEF Capture, Tracked
    <3>2. p \in Paths
      BY DEF Sources
    <3>3. CASE kept = head
      <4>1. patch'[p] = Same /\ work'[p] = base'[p]
        BY <1>6, <2>2, <3>1, <3>2, <3>3 DEF Commit, Capture, Empty
      <4> QED
        BY <2>1, <4>1 DEF Replays
    <3>4. CASE kept # head /\ head[p] = kept[p]
      <4>1. patch'[p] = Same /\ work'[p] = base'[p]
        BY <1>6, <2>2, <3>1, <3>2, <3>4 DEF Commit, Capture, Diff
      <4> QED
        BY <2>1, <4>1 DEF Replays
    <3>5. CASE head[p] # kept[p]
      <4>1. patch'[p] = kept[p] /\ work'[p] = kept[p]
        BY <2>2, <3>2, <3>5 DEF Commit, Diff
      <4>2. kept[p] # Same
        BY <3>2, ContentsAssumption DEF Trees
      <4> QED
        BY <4>1, <4>2
    <3> QED
      BY <3>3, <3>4, <3>5
  <2> QED
    BY <2>1, <2>3, <2>4 DEF Tracked
<1>7. CASE Restore
  <2>1. \A p \in Sources : Replays(p, base[p])'
    BY <1>7, BaseStays DEF Restore, Tracked
  <2>2. pc' = "record" /\ error' # "none"
    BY <1>7 DEF Restore, Spoken
  <2> QED
    BY <2>1, <2>2 DEF Tracked
<1>8. CASE Record
  <2>1. PICK e : e = Entry(turn.status, error)
    OBVIOUS
  <2>2. e \in Entries /\ repairs \in Seq(Entries) /\ repairs' = Append(repairs, e)
    BY <1>8, <2>1, EntryIsEntry, RecordedIsSeq DEF TypeOK, Turns, Record, Spoken, Statuses
  <2>3. e.error = error /\ e.patch = patch
    BY <2>1 DEF Entry
  <2>4. CASE error = "none"
    <3>1. ASSUME NEW p \in Sources PROVE Replays(p, work[p])'
      <4>1. p \in Paths /\ work' = work
        BY <1>8 DEF Sources, Record
      <4>2. PICK c : c = work[p]
        OBVIOUS
      <4>3. CASE patch[p] = Same
        <5>1. Replays(p, c)
          BY <1>8, <2>4, <4>2, <4>3 DEF Tracked, Record
        <5>2. Replays(p, c)'
          BY <2>2, <2>3, <4>1, <4>3, <5>1, AppendKeeps
        <5> QED
          BY <4>1, <4>2, <5>2 DEF Replays
      <4>4. CASE patch[p] # Same
        <5>1. c = e.patch[p]
          BY <1>8, <2>3, <2>4, <4>2, <4>4 DEF Tracked, Record
        <5>2. Replays(p, c)'
          BY <2>2, <2>3, <2>4, <4>1, <4>4, <5>1, AppendDecides
        <5> QED
          BY <4>1, <4>2, <5>2 DEF Replays
      <4> QED
        BY <4>3, <4>4
    <3>2. pc' = "prepare"
      BY <1>8, <2>4 DEF Record
    <3> QED
      BY <3>1, <3>2 DEF Tracked
  <2>5. CASE error # "none"
    <3> SUFFICES ASSUME ~Abandoned', "reset" \notin MayFail, NEW p \in Sources
                 PROVE  (work[p] = Nested \/ Replays(p, work[p]))'
      BY <1>8, <2>5 DEF Record, Tracked
    <3>1. work[p] \in {base[p], Nested} /\ work' = work /\ p \in Paths
      BY <1>8, <2>5 DEF Record, Undone, IsUndone, Abandoned, Sources
    <3>2. PICK c : c = base[p]
      OBVIOUS
    <3>3. Replays(p, c)
      BY <1>8, <3>2 DEF Record, Tracked
    <3>4. Replays(p, c)'
      BY <2>2, <2>3, <2>5, <3>1, <3>3, AppendKeeps
    <3> QED
      BY <3>1, <3>2, <3>4 DEF Replays
  <2> QED
    BY <2>4, <2>5
<1>9. CASE ResultFails
  <2> SUFFICES ASSUME ~Abandoned', "reset" \notin MayFail, NEW p \in Sources
               PROVE  (work[p] = Nested \/ Replays(p, work[p]))'
    BY <1>9 DEF ResultFails, Tracked
  <2>0. error' # "none" /\ error' \in Errors
    BY <1>9 DEF ResultFails, Errors, TypeOK
  <2>1. PICK e : e = Entry(turn.status, error')
    OBVIOUS
  <2>2. e \in Entries /\ repairs \in Seq(Entries) /\ repairs' = Append(repairs, e)
    BY <1>9, <2>0, <2>1, EntryIsEntry, RecordedIsSeq DEF TypeOK, Turns, ResultFails
  <2>3. e.error # "none"
    BY <2>0, <2>1 DEF Entry
  <2>4. work'[p] \in {base[p], Nested} /\ p \in Paths
    <3>1. RefusedIsUndone' /\ pc' = "failed" /\ base' = base
      BY <1>9 DEF Undone, ResultFails
    <3>2. repairs' # <<>> /\ repairs'[Len(repairs')].error # "none"
      BY <2>2, <2>3
    <3> QED
      BY <3>1, <3>2 DEF RefusedIsUndone, Sources
  <2>5. PICK c : c = base[p]
    OBVIOUS
  <2>6. Replays(p, c)
    BY <1>9, <2>5 DEF ResultFails, Tracked
  <2>7. Replays(p, c)'
    BY <2>2, <2>3, <2>4, <2>6, AppendKeeps
  <2> QED
    BY <2>4, <2>5, <2>7 DEF Replays
<1>10. CASE Prepare
  <2>1. \A p \in Sources : work'[p] = work[p]
    BY <1>10, CleanedKeepsSources DEF Prepare, TypeOK
  <2>2. \A p \in Sources : Replays(p, work[p])'
    BY <1>10, <2>1, SourcesStay DEF Prepare, Tracked
  <2>3. pc' = "build"
    BY <1>10 DEF Prepare
  <2> QED
    BY <2>2, <2>3 DEF Tracked
<1>11. CASE LateEdit
  <2>1. Abandoned' /\ error' # "none"
    BY <1>11 DEF LateEdit, Abandoned
  <2>2. pc' \in {"restore", "record", "failed"} /\ pc' = pc
    BY <1>11 DEF LateEdit
  <2>3. pc' # "failed" => \A p \in Sources : Replays(p, base[p])'
    BY <1>11, <2>2, BaseStays DEF LateEdit, Tracked
  <2> QED
    BY <2>1, <2>2, <2>3 DEF Tracked
<1>12. CASE UNCHANGED vars
  BY <1>12 DEF vars, Tracked, Replays, Abandoned, Empty
<1> QED
  BY <1>1, <1>2, <1>3, <1>4, <1>5, <1>6, <1>7, <1>8, <1>9, <1>10, <1>11, <1>12
  DEF Next, Step, Finished

\* The sources that were built and are shipped are the original ones with the
\* recorded patches that were not refused, in any order of builds, refusals and
\* failures: a third party can reproduce them from the manifest.
THEOREM PatchesGiveSources == Spec => []PatchesReproduceSource
<1>1. Loop /\ Undone /\ [Next]_vars => Undone'
  BY StepUndone DEF Loop
<1>2. Loop /\ Undone /\ Undone' /\ Tracked /\ [Next]_vars => Tracked'
  BY StepTracked DEF Loop
<1> QED
  BY UndoneInit, TrackedInit, LoopAlways, <1>1, <1>2, TrackedReproduces, PTL DEF Spec
-----------------------------------------------------------------------------
\* What a commit after a turn holds.

\* Turns delete nothing the filter would have to bring back.  Where one does, Git may
\* pair the deletion with an addition, and the listing the filter works on lacks it.
DeletesOnlySources ==
    \A edit \in Edits : \A p \in Paths :
        edit[p] = Absent => p \in SourceNamed \ Generated

\* The turn starts from its checkpoint, and is judged by what it alone has done.
Turned ==
    /\ pc = "codex" => head = work
    /\ pc = "judge" => \E edit \in Edits : work = Apply(edit, head)

LEMMA StepTurned ==
    ASSUME Turned, [Next]_vars
    PROVE  Turned'
<1>1. CASE Checkpoint
  BY <1>1 DEF Checkpoint, Turned
<1>2. CASE Codex
  <2>1. PICK edit \in Edits : work' = Apply(edit, work)
    BY <1>2 DEF Codex, Edited
  <2>2. head' = head /\ head = work /\ pc' = "judge"
    BY <1>2 DEF Codex, Turned
  <2> QED
    BY <2>1, <2>2 DEF Turned, Apply
<1>3. CASE Link \/ LinkFails \/ CompileFails
  BY <1>3 DEF Turned, Link, LinkFails, CompileFails, Retry
<1>4. CASE CheckpointFails \/ Refuse \/ CaptureFails \/ Restore
  BY <1>4 DEF Turned, CheckpointFails, Refuse, CaptureFails, Restore
<1>5. CASE Capture
  BY <1>5 DEF Turned, Capture, Commit
<1>6. CASE Record \/ ResultFails \/ Prepare \/ PrepareFails
  BY <1>6 DEF Turned, Record, ResultFails, Prepare, PrepareFails
<1>7. CASE LateEdit
  BY <1>7 DEF Turned, LateEdit
<1>8. CASE UNCHANGED vars
  BY <1>8 DEF Turned, vars, Apply
<1> QED
  BY <1>1, <1>2, <1>3, <1>4, <1>5, <1>6, <1>7, <1>8 DEF Next, Step, Finished

\* Of a listing only deletions are hidden.
LEMMA HiddenAreDeleted ==
    ASSUME NEW from, NEW to, NEW hidden \in Hidden(from, to), NEW p \in hidden
    PROVE  to[p] = Absent /\ from[p] # Absent
<1>1. PICK c \in Contents : p \in Deleted(from, to, c)
  BY DEF Hidden
<1> QED
  BY <1>1, ContentsAssumption DEF Deleted

LEMMA CommitIsSource ==
    ASSUME TypeOK, Turned, DeletesOnlySources, pc = "judge",
           NEW paths \in Discards(head, work), NEW p \in Paths,
           Restored(paths, head, work)[p] # head[p]
    PROVE  Keep(p, Restored(paths, head, work)[p])
<1>1. PICK hidden \in Hidden(head, work) :
          paths = {q \in Changed(head, work) \ hidden : ~Keep(q, work[q])}
  BY DEF Discards
<1>2. p \notin paths /\ Restored(paths, head, work)[p] = work[p] /\ p \in Changed(head, work)
  BY DEF Restored, Changed
<1>3. CASE p \notin hidden
  BY <1>1, <1>2, <1>3
<1>4. CASE p \in hidden
  <2>1. work[p] = Absent /\ head[p] # Absent
    BY <1>4, HiddenAreDeleted
  <2>2. PICK edit \in Edits : work = Apply(edit, head)
    BY DEF Turned
  <2>3. edit[p] = Absent
    BY <2>1, <2>2 DEF Apply
  <2> QED
    BY <1>2, <2>1, <2>3 DEF Keep, DeletesOnlySources
<1> QED
  BY <1>3, <1>4

LEMMA JudgedIsSource ==
    ASSUME TypeOK, Turned, DeletesOnlySources, [Next]_vars
    PROVE  [pc = "judge" => \A p \in Changed(head, head') : Keep(p, head'[p])]_vars
<1> SUFFICES ASSUME pc = "judge", NEW p \in Changed(head, head')
             PROVE  Keep(p, head'[p])
  OBVIOUS
<1>1. head' # head
  BY DEF Changed
<1>2. Capture
  BY <1>1 DEF Next, Step, Finished, vars, Link, LinkFails, CompileFails, Checkpoint,
     CheckpointFails, Codex, Refuse, CaptureFails, Restore, Record, ResultFails, Prepare,
     PrepareFails, LateEdit
<1>3. PICK paths \in Discards(head, work) : Commit(Restored(paths, head, work))
  BY <1>2 DEF Capture
<1>4. head' = Restored(paths, head, work)
  BY <1>1, <1>3 DEF Commit
<1> QED
  BY <1>4, CommitIsSource DEF Changed

\* While no turn deletes what is no source, a commit after a turn holds only what the
\* filter keeps, whatever else the turn moves, adds and changes: the deletion that Git
\* shows as half of a rename is the only way past the filter.
THEOREM CommitsHoldSources == DeletesOnlySources => (Spec => PatchIsSourceOnly)
<1> SUFFICES ASSUME DeletesOnlySources PROVE Spec => PatchIsSourceOnly
  OBVIOUS
<1>1. Init => Turned
  BY DEF Init, Turned
<1>2. Turned /\ [Next]_vars => Turned'
  BY StepTurned
<1>3. Loop /\ Turned /\ [Next]_vars
      => [pc = "judge" => \A p \in Changed(head, head') : Keep(p, head'[p])]_vars
  BY JudgedIsSource DEF Loop
<1> QED
  BY <1>1, <1>2, <1>3, LoopAlways, PTL DEF Spec, PatchIsSourceOnly

-----------------------------------------------------------------------------
\* The targets of a matrix.  The inductive invariant (Core) says where each index
\* is: not sent yet, in exactly one worker's hands, or answered.

Taken(w) == at[w] \in {"check", "run"}

\* Not sent: no result.  Sent without a result: a worker has it.
Where ==
    /\ \A w \in Workers : Taken(w) => task[w] < next /\ result[task[w]] = "none"
    /\ \A i \in Indexes : i >= next => result[i] = "none"
    /\ \A i \in Indexes : i < next /\ result[i] = "none" =>
           \E w \in Workers : Taken(w) /\ task[w] = i
    /\ sender # "send" => next = N + 1
    /\ sender = "returned" => \A w \in Workers : at[w] = "done"

Causes ==
    /\ context = "live" => \A i \in Indexes : result[i] # "canceled"
    /\ context = "failfast" => FailFast /\ \E i \in Indexes : result[i] \in Bad
    /\ context = "live" => unstarted = {}

Core == RunTypeOK /\ OneWorkerPerTarget /\ Where /\ Causes /\ UnstartedAreCanceled

-----------------------------------------------------------------------------
LEMMA CancelFromType ==
    ASSUME RunTypeOK, NEW first, CancelFrom(first)
    PROVE  /\ result' \in [Indexes -> TargetStatuses \cup {"none", "canceled"}]
           /\ \A i \in Indexes : result[i] # "none" => result'[i] = result[i]
           /\ \A i \in Indexes : result'[i] = result[i] \/ result'[i] = "canceled"
BY DEF CancelFrom, RunTypeOK

LEMMA InitCore == RunInit => Core
BY SizeAssumption
   DEF RunInit, Core, RunTypeOK, OneWorkerPerTarget, Where, Causes, UnstartedAreCanceled,
       Taken, TargetStatuses, Indexes

LEMMA NextType ==
    ASSUME Core, [RunNext]_runVars
    PROVE  RunTypeOK'
<1> USE SizeAssumption, FlagsAssumption DEF Core, RunTypeOK, Goto, Indexes
<1>1. ASSUME NEW w \in Workers, Send(w) PROVE RunTypeOK'
  BY <1>1 DEF Send
<1>2. CASE GiveUp BY <1>2, CancelFromType DEF GiveUp
<1>3. CASE Close BY <1>3 DEF Close
<1>4. CASE Report BY <1>4, CancelFromType DEF Report
<1>5. ASSUME NEW w \in Workers, Skip(w) PROVE RunTypeOK'
  BY <1>5 DEF Skip
<1>6. ASSUME NEW w \in Workers, Start(w) PROVE RunTypeOK'
  <2>1. PICK s \in Own[task[w]] : fate' = [fate EXCEPT ![w] = s]
    BY <1>6 DEF Start
  <2>2. s \in TargetStatuses
    BY <2>1, OwnAssumption
  <2> QED BY <1>6, <2>1, <2>2 DEF Start
<1>7. ASSUME NEW w \in Workers, Finish(w) PROVE RunTypeOK'
  <2>1. Outcome(w) \subseteq TargetStatuses
    BY DEF Outcome, TargetStatuses
  <2>2. PICK s \in Outcome(w) : /\ result' = [result EXCEPT ![task[w]] = s]
    BY <1>7 DEF Finish
  <2>3. s \in TargetStatuses
    BY <2>1, <2>2
  <2>4. result' \in [Indexes -> TargetStatuses \cup {"none", "canceled"}]
    BY <2>2, <2>3
  <2>5. context' \in {"live", "failfast", "interrupted"} /\ unstarted' \in SUBSET Indexes
    BY <1>7 DEF Finish, Cancel
  <2> QED BY <1>7, <2>4, <2>5 DEF Finish
<1>8. ASSUME NEW w \in Workers, Exit(w) PROVE RunTypeOK'
  BY <1>8 DEF Exit
<1>9. CASE Interrupt BY <1>9 DEF Interrupt, Cancel
<1>10. CASE UNCHANGED runVars BY <1>10 DEF runVars
<1> QED BY <1>1, <1>2, <1>3, <1>4, <1>5, <1>6, <1>7, <1>8, <1>9, <1>10
        DEF RunNext, Sender, Work, RunFinished

\* A result once given stays.
LEMMA StepFinal ==
    ASSUME Core, [RunNext]_runVars, NEW i \in Indexes, result[i] # "none"
    PROVE  result'[i] = result[i]
<1> USE DEF Core, RunTypeOK, Where, Taken
<1>1. ASSUME NEW w \in Workers, Send(w) \/ Start(w) \/ Exit(w) PROVE result' = result
  BY <1>1 DEF Send, Start, Exit
<1>2. CASE GiveUp \/ Report BY <1>2, CancelFromType DEF GiveUp, Report
<1>3. CASE Close \/ Interrupt \/ UNCHANGED runVars
  BY <1>3 DEF Close, Interrupt, runVars
<1>4. ASSUME NEW w \in Workers, Skip(w) PROVE result'[i] = result[i]
  BY <1>4 DEF Skip
<1>5. ASSUME NEW w \in Workers, Finish(w) PROVE result'[i] = result[i]
  <2>1. result[task[w]] = "none"
    BY <1>5 DEF Finish
  <2> QED BY <1>5, <2>1 DEF Finish
<1> QED BY <1>1, <1>2, <1>3, <1>4, <1>5 DEF RunNext, Sender, Work, RunFinished

LEMMA NextOneWorker ==
    ASSUME Core, [RunNext]_runVars
    PROVE  OneWorkerPerTarget'
<1> USE DEF Core, RunTypeOK, OneWorkerPerTarget, Where, Taken, Goto
<1>1. ASSUME NEW w \in Workers, Send(w) PROVE OneWorkerPerTarget'
  <2>1. ASSUME NEW v \in Workers, v # w, at'[v] \in {"check", "run"}
        PROVE  task'[v] = task[v] /\ task[v] < next /\ at[v] = at'[v]
    BY <1>1, <2>1 DEF Send
  <2>2. task'[w] = next /\ next \in Nat
    BY <1>1 DEF Send
  <2>3. \A v \in Workers : v # w /\ at'[v] \in {"check", "run"} => task'[v] # task'[w]
    BY <2>1, <2>2 DEF Indexes
  <2> QED BY <2>1, <2>3
<1>2. ASSUME NEW w \in Workers, Skip(w) \/ Start(w) \/ Finish(w) \/ Exit(w)
      PROVE  OneWorkerPerTarget'
  BY <1>2 DEF Skip, Start, Finish, Exit
<1>3. CASE GiveUp \/ Close \/ Report \/ Interrupt \/ UNCHANGED runVars
  BY <1>3 DEF GiveUp, Close, Report, Interrupt, runVars
<1> QED BY <1>1, <1>2, <1>3 DEF RunNext, Sender, Work, RunFinished

LEMMA NextWhere ==
    ASSUME Core, [RunNext]_runVars
    PROVE  Where'
<1>0. /\ RunTypeOK /\ Where /\ OneWorkerPerTarget /\ RunTypeOK'
      /\ N \in Nat /\ next \in 1..(N + 1) /\ Indexes = 1..N
  BY NextType, SizeAssumption DEF Core, RunTypeOK, Indexes
<1>1. ASSUME NEW w \in Workers, Send(w) PROVE Where'
  <2>0. /\ next <= N /\ at[w] = "idle" /\ sender = "send"
        /\ task' = [task EXCEPT ![w] = next] /\ next' = next + 1
        /\ at' = [at EXCEPT ![w] = "check"] /\ result' = result
        /\ sender' = sender /\ next \in Indexes
    BY <1>0, <1>1 DEF Send, Goto
  <2>1. \A v \in Workers : Taken(v)' => task'[v] < next' /\ result'[task'[v]] = "none"
    BY <1>0, <2>0 DEF RunTypeOK, Where, Taken
  <2>2. \A i \in Indexes : i >= next' => result'[i] = "none"
    BY <1>0, <2>0 DEF RunTypeOK, Where
  <2>3. ASSUME NEW i \in Indexes, i < next', result'[i] = "none"
        PROVE  \E v \in Workers : Taken(v)' /\ task'[v] = i
    <3>1. CASE i = next
      BY <1>0, <2>0, <3>1 DEF RunTypeOK, Taken
    <3>2. CASE i # next
      <4>1. i < next
        BY <1>0, <2>0, <2>3, <3>2
      <4>2. PICK v \in Workers : Taken(v) /\ task[v] = i
        BY <1>0, <2>0, <2>3, <4>1 DEF Where
      <4>3. v # w
        BY <2>0, <4>2 DEF Taken
      <4> QED BY <1>0, <2>0, <4>2, <4>3 DEF RunTypeOK, Taken
    <3> QED BY <3>1, <3>2
  <2> QED BY <2>0, <2>1, <2>2, <2>3 DEF Where
<1>2. CASE GiveUp
  <2>1. /\ next' = N + 1 /\ UNCHANGED <<at, task, sender>> /\ sender = "send"
        /\ \A i \in Indexes : result'[i] = IF i >= next /\ result[i] = "none"
                                           THEN "canceled" ELSE result[i]
    BY <1>2 DEF GiveUp, CancelFrom
  <2>2. \A w \in Workers : Taken(w)' => task'[w] < next' /\ result'[task'[w]] = "none"
    BY <1>0, <2>1 DEF RunTypeOK, Where, Taken
  <2>3. \A i \in Indexes : ~(i >= next')
    BY <1>0, <2>1
  <2>4. ASSUME NEW i \in Indexes, result'[i] = "none"
        PROVE  \E w \in Workers : Taken(w)' /\ task'[w] = i
    BY <1>0, <2>1, <2>4 DEF Where, Taken
  <2> QED BY <1>0, <2>1, <2>2, <2>3, <2>4 DEF Where
<1>3. CASE Close
  BY <1>0, <1>3 DEF Close, Where, Taken
<1>4. CASE Report
  <2>1. /\ UNCHANGED <<at, task, next>> /\ sender = "wait" /\ sender' = "returned"
        /\ \A w \in Workers : at[w] = "done"
    BY <1>4 DEF Report
  <2>2. next = N + 1 /\ \A i \in Indexes : i < next
    BY <1>0, <2>1 DEF Where
  <2>3. \A i \in Indexes : result[i] # "none"
    BY <1>0, <2>1, <2>2 DEF Where, Taken
  <2>4. \A i \in Indexes : result'[i] # "none"
    BY <1>0, <1>4, <2>3, CancelFromType DEF Report
  <2> QED BY <1>0, <2>1, <2>2, <2>4 DEF Where, Taken
<1>5. ASSUME NEW w \in Workers, Start(w) PROVE Where'
  <2>1. /\ UNCHANGED <<next, sender, task, result>>
        /\ at' = [at EXCEPT ![w] = "run"] /\ at[w] = "check"
    BY <1>5 DEF Start, Goto
  <2>2. \A v \in Workers : Taken(v)' <=> Taken(v)
    BY <1>0, <2>1 DEF RunTypeOK, Taken
  <2>3. sender # "returned"
    BY <1>0, <2>1 DEF Where
  <2> QED BY <1>0, <2>1, <2>2, <2>3 DEF Where
<1>6. ASSUME NEW w \in Workers, Skip(w) \/ Finish(w) PROVE Where'
  <2>1. /\ UNCHANGED <<next, sender, task>>
        /\ at' = [at EXCEPT ![w] = "idle"] /\ Taken(w) /\ task[w] \in Indexes
    BY <1>0, <1>6 DEF Skip, Finish, Goto, Taken, RunTypeOK
  <2>2. task[w] < next /\ result[task[w]] = "none"
    BY <1>0, <2>1 DEF Where
  <2>3. \E s \in TargetStatuses \cup {"canceled"} : result' = [result EXCEPT ![task[w]] = s]
    <3>1. CASE Skip(w) BY <1>0, <2>1, <2>2, <3>1 DEF Skip, RunTypeOK
    <3>2. CASE Finish(w)
      BY <1>0, <3>2 DEF Finish, Outcome, TargetStatuses, RunTypeOK
    <3> QED BY <1>6, <3>1, <3>2
  <2>4. /\ result'[task[w]] # "none"
        /\ \A i \in Indexes : i # task[w] => result'[i] = result[i]
    BY <1>0, <2>1, <2>3 DEF RunTypeOK, TargetStatuses
  <2>5. \A v \in Workers : Taken(v)' <=> Taken(v) /\ v # w
    BY <1>0, <2>1 DEF RunTypeOK, Taken
  <2>6. ASSUME NEW v \in Workers, Taken(v)'
        PROVE  task'[v] < next' /\ result'[task'[v]] = "none"
    <3>1. task[v] # task[w] /\ task[v] \in Indexes
      BY <1>0, <2>1, <2>5, <2>6 DEF OneWorkerPerTarget, Taken, RunTypeOK
    <3> QED BY <1>0, <2>1, <2>4, <2>5, <2>6, <3>1 DEF Where
  <2>7. ASSUME NEW i \in Indexes, i >= next' PROVE result'[i] = "none"
    BY <1>0, <2>1, <2>2, <2>4, <2>7 DEF Where
  <2>8. ASSUME NEW i \in Indexes, i < next', result'[i] = "none"
        PROVE  \E v \in Workers : Taken(v)' /\ task'[v] = i
    <3>1. i # task[w] /\ result[i] = "none"
      BY <2>4, <2>8
    <3>2. PICK v \in Workers : Taken(v) /\ task[v] = i
      BY <1>0, <2>1, <2>8, <3>1 DEF Where
    <3> QED BY <2>1, <2>5, <3>1, <3>2
  <2>9. sender # "returned" /\ (sender # "send" => next = N + 1)
    BY <1>0, <2>1 DEF Where, Taken
  <2> QED BY <2>1, <2>6, <2>7, <2>8, <2>9 DEF Where
<1>7. ASSUME NEW w \in Workers, Exit(w) PROVE Where'
  <2>1. /\ UNCHANGED <<next, sender, task, result>>
        /\ at' = [at EXCEPT ![w] = "done"] /\ at[w] = "idle"
    BY <1>7 DEF Exit, Goto
  <2>2. \A v \in Workers : Taken(v)' <=> Taken(v)
    BY <1>0, <2>1 DEF RunTypeOK, Taken
  <2>3. sender # "returned"
    BY <1>0, <2>1 DEF Where
  <2> QED BY <1>0, <2>1, <2>2, <2>3 DEF Where
<1>8. CASE Interrupt \/ UNCHANGED runVars
  BY <1>0, <1>8 DEF Interrupt, runVars, Where, Taken
<1> QED BY <1>1, <1>2, <1>3, <1>4, <1>5, <1>6, <1>7, <1>8
        DEF RunNext, Sender, Work, RunFinished

\* Only the caller or, under FailFast, a bad result cancels, and what was not
\* started by then is never started.
LEMMA NextCauses ==
    ASSUME Core, [RunNext]_runVars
    PROVE  Causes' /\ UnstartedAreCanceled'
<1>0. /\ RunTypeOK /\ Where /\ Causes /\ UnstartedAreCanceled /\ OneWorkerPerTarget
      /\ unstarted \subseteq Indexes
  BY DEF Core, RunTypeOK
<1>f. \A i \in Indexes : result[i] # "none" => result'[i] = result[i]
  BY StepFinal
<1>1. CASE UNCHANGED <<result, context, unstarted, task>>
           /\ \A w \in Workers : at'[w] = "run" => at[w] = "run"
  BY <1>0, <1>1 DEF Causes, UnstartedAreCanceled
<1>2. ASSUME NEW w \in Workers, Send(w) PROVE Causes' /\ UnstartedAreCanceled'
  <2>1. /\ UNCHANGED <<result, context, unstarted>>
        /\ \A v \in Workers : at'[v] = "run" => at[v] = "run" /\ task'[v] = task[v]
    BY <1>0, <1>2 DEF Send, Goto, RunTypeOK
  <2> QED BY <1>0, <2>1 DEF Causes, UnstartedAreCanceled
<1>3. CASE GiveUp
  <2>1. /\ context # "live" /\ UNCHANGED <<context, unstarted, at, task>>
        /\ \A i \in Indexes : result'[i] = result[i] \/ result'[i] = "canceled"
    BY <1>0, <1>3, CancelFromType DEF GiveUp, cancelled
  <2>2. UnstartedAreCanceled'
    BY <1>0, <2>1 DEF UnstartedAreCanceled
  <2>3. \A i \in Indexes : result[i] \in Bad => result'[i] \in Bad
    BY <1>f DEF Bad
  <2> QED BY <1>0, <2>1, <2>2, <2>3 DEF Causes
<1>4. CASE Report
  <2>1. /\ UNCHANGED <<context, unstarted, at, task>>
        /\ sender = "wait" /\ \A w \in Workers : at[w] = "done"
    BY <1>4 DEF Report
  <2>2. \A i \in Indexes : i < next
    BY <1>0, <2>1, SizeAssumption DEF Where, Indexes
  <2>3. \A i \in Indexes : result[i] # "none"
    BY <1>0, <2>1, <2>2 DEF Where, Taken
  <2>4. \A i \in Indexes : result'[i] = result[i]
    BY <1>f, <2>3
  <2> QED BY <1>0, <2>1, <2>4 DEF Causes, UnstartedAreCanceled, RunTypeOK
<1>5. ASSUME NEW w \in Workers, Skip(w) PROVE Causes' /\ UnstartedAreCanceled'
  <2>1. /\ context # "live" /\ UNCHANGED <<context, unstarted, task>>
        /\ at' = [at EXCEPT ![w] = "idle"] /\ task[w] \in Indexes
        /\ \A i \in Indexes : result'[i] = result[i] \/ result'[i] = "canceled"
    BY <1>0, <1>5 DEF Skip, Goto, cancelled, RunTypeOK
  <2>2. \A v \in Workers : at'[v] = "run" => at[v] = "run"
    BY <1>0, <2>1 DEF RunTypeOK
  <2>3. UnstartedAreCanceled'
    BY <1>0, <2>1, <2>2 DEF UnstartedAreCanceled
  <2>4. \A i \in Indexes : result[i] \in Bad => result'[i] \in Bad
    BY <1>f DEF Bad
  <2> QED BY <1>0, <2>1, <2>3, <2>4 DEF Causes
<1>6. ASSUME NEW w \in Workers, Start(w) PROVE Causes' /\ UnstartedAreCanceled'
  <2>1. context = "live" /\ UNCHANGED <<result, context, unstarted>>
    BY <1>6 DEF Start, cancelled
  <2> QED BY <1>0, <2>1 DEF Causes, UnstartedAreCanceled
<1>7. ASSUME NEW w \in Workers, Finish(w) PROVE Causes' /\ UnstartedAreCanceled'
  <2>1. PICK s \in Outcome(w) :
           /\ result' = [result EXCEPT ![task[w]] = s]
           /\ IF FailFast /\ s \in Bad THEN Cancel("failfast")
              ELSE UNCHANGED <<context, unstarted>>
    BY <1>7 DEF Finish
  <2>2. s \in TargetStatuses /\ s # "canceled"
    BY <1>0, <2>1 DEF Outcome, TargetStatuses, RunTypeOK
  <2>3. /\ at[w] = "run" /\ task[w] \in Indexes /\ task' = task
        /\ at' = [at EXCEPT ![w] = "idle"]
    BY <1>0, <1>7 DEF Finish, Goto, RunTypeOK
  <2>4. /\ result'[task[w]] = s
        /\ \A i \in Indexes : i # task[w] => result'[i] = result[i]
    BY <1>0, <2>1, <2>3 DEF RunTypeOK
  <2>5. \A v \in Workers : at'[v] = "run" => at[v] = "run" /\ v # w
    BY <1>0, <2>3 DEF RunTypeOK
  <2>6. CASE UNCHANGED <<context, unstarted>>
    <3>1. UnstartedAreCanceled'
      BY <1>0, <2>3, <2>4, <2>5, <2>6 DEF UnstartedAreCanceled, RunTypeOK
    <3>2. result[task[w]] = "none"
      BY <1>0, <2>3 DEF Where, Taken
    <3>3. \A i \in Indexes : result[i] \in Bad => result'[i] \in Bad
      BY <1>f DEF Bad
    <3>4. \A i \in Indexes : result'[i] = "canceled" => result[i] = "canceled"
      BY <2>2, <2>4
    <3> QED BY <1>0, <2>6, <3>1, <3>3, <3>4 DEF Causes
  <2>7. CASE /\ FailFast /\ s \in Bad /\ context = "live" /\ context' = "failfast"
             /\ unstarted' = {i \in Indexes : ~Started(i)}
    <3>1. Causes'
      BY <1>0, <2>3, <2>4, <2>7 DEF Causes
    <3>2. ASSUME NEW i \in unstarted'
          PROVE  /\ result'[i] \in {"none", "canceled"}
                 /\ \A v \in Workers : ~(at'[v] = "run" /\ task'[v] = i)
      <4>1. i \in Indexes /\ result[i] = "none"
            /\ \A v \in Workers : ~(at[v] = "run" /\ task[v] = i)
        BY <2>7, <3>2 DEF Started
      <4>2. i # task[w]
        BY <2>3, <4>1
      <4> QED BY <2>3, <2>4, <2>5, <4>1, <4>2
    <3> QED BY <3>1, <3>2 DEF UnstartedAreCanceled
  <2> QED BY <2>1, <2>6, <2>7 DEF Cancel, cancelled
<1>8. ASSUME NEW w \in Workers, Exit(w) PROVE Causes' /\ UnstartedAreCanceled'
  <2>1. /\ UNCHANGED <<result, context, unstarted, task>>
        /\ \A v \in Workers : at'[v] = "run" => at[v] = "run"
    BY <1>0, <1>8 DEF Exit, Goto, RunTypeOK
  <2> QED BY <1>1, <2>1
<1>9. CASE Interrupt
  <2>1. /\ context' = "interrupted" /\ unstarted' = {i \in Indexes : ~Started(i)}
        /\ UNCHANGED <<result, at, task>>
    BY <1>9 DEF Interrupt, Cancel
  <2> QED BY <2>1 DEF Causes, UnstartedAreCanceled, Started
<1>10. CASE Close \/ UNCHANGED runVars
  BY <1>1, <1>10 DEF Close, runVars
<1> QED BY <1>2, <1>3, <1>4, <1>5, <1>6, <1>7, <1>8, <1>9, <1>10
        DEF RunNext, Sender, Work, RunFinished

LEMMA CoreAlways == RunSpec => []Core
<1>1. Core /\ [RunNext]_runVars => Core'
  BY NextType, NextOneWorker, NextWhere, NextCauses DEF Core
<1> QED BY InitCore, <1>1, PTL DEF RunSpec

\* The variables of Run, its channel and its workers keep their types.
THEOREM RunTypeCorrect == RunSpec => []RunTypeOK
BY CoreAlways, PTL DEF Core

\* No two workers ever build the same target.
THEOREM OneWorker == RunSpec => []OneWorkerPerTarget
BY CoreAlways, PTL DEF Core

\* Every target is accounted for once the workers are done: Run's last pass over
\* report.Results finds nothing to fill in.
THEOREM EveryTargetAccounted == RunSpec => []AllAccounted
<1>1. Core => AllAccounted
  <2> SUFFICES ASSUME Core, sender # "send", \A w \in Workers : at[w] = "done",
                      NEW i \in Indexes
               PROVE  result[i] # "none"
    BY DEF AllAccounted
  <2>1. i < next
    BY SizeAssumption DEF Core, Where, Indexes
  <2> QED BY <2>1 DEF Core, Where, Taken
<1> QED BY CoreAlways, <1>1, PTL

\* No write of a worker, of the sender or of Run overwrites a result.
THEOREM ResultsStay == RunSpec => ResultsAreFinal
<1>1. Core /\ [RunNext]_runVars =>
          [\A i \in Indexes : result[i] # "none" => result'[i] = result[i]]_runVars
  BY StepFinal
<1> QED BY CoreAlways, <1>1, PTL DEF RunSpec, ResultsAreFinal

\* A canceled target has a cause in the report or the caller's interrupt.
THEOREM CancellationsHaveCauses == RunSpec => []CanceledHasCause
<1>1. Core => CanceledHasCause
  BY DEF Core, Causes, CanceledHasCause, RunTypeOK
<1> QED BY CoreAlways, <1>1, PTL

\* What was not started when the context was cancelled is never started.
THEOREM UnstartedStayUnstarted == RunSpec => []UnstartedAreCanceled
BY CoreAlways, PTL DEF Core

=============================================================================
