----------------------------- MODULE BuildRepair -----------------------------
(***************************************************************************)
(* internal/builder/builder.go, Build: the loop of build attempts and      *)
(* Codex repairs over one target's copy of the sources.  A failed build is *)
(* checkpointed, Codex edits the workspace, what its turn may keep is      *)
(* committed, and the next attempt builds that; a turn that is refused is  *)
(* undone and ends the loop.                                               *)
(* One source file, its object and the build files stand for the project;  *)
(* Make builds among the sources, CMake (for it, Meson and a build of      *)
(* Autotools) in a directory of its own that starts empty.                 *)
(***************************************************************************)
EXTENDS RepairWorkspace, Sequences

CONSTANTS
    Original,       \* the copied sources
    Edits,          \* the patches a Codex turn may make to the workspace
    Source, Object, \* a source file, and what Make compiles it to
    BuildFiles,     \* BuildFiles[s]: the file that makes a tree one of system s
    ObjectOf,       \* ObjectOf[c]: the object of a source with content c
    Mode,           \* config.CodexMode
    MaxRepairs,     \* config.MaxRepairs
    CleanRule,      \* whether make clean removes the object
    MayFail         \* the operations that may fail

\* "interrupt" stands for a turn of the app-server that is given up, at its deadline
\* or at a broken message: nothing tells the server to stop it.
Operations == {"checkpoint", "capture", "patch", "result", "reset", "analyze", "interrupt"}
Statuses == {"repaired", "ported", "progress", "blocked", "no-change"}
Systems == {"cmake", "make"}

ASSUME TreeAssumption == Original \in Trees /\ Edits \subseteq Patches
ASSUME RolesAssumption ==
    /\ Source \in Paths \ Generated /\ Object \in Generated
    /\ BuildFiles \in [Systems -> Paths \ Generated]
    /\ ObjectOf \in [Contents -> Contents]
ASSUME ConfigAssumption ==
    /\ Mode \in {"repair", "auto", "port"}
    /\ MaxRepairs \in Nat
    /\ CleanRule \in BOOLEAN
    /\ MayFail \subseteq Operations

VARIABLES
    pc,
    attempt,        \* the loop's counter
    system,         \* bc.buildSystem
    work,           \* sourceDir
    head, base,     \* HEAD, and repairBase
    fresh,          \* whether the object is newer than the source
    linked,         \* linkedBuildBeforeCodex
    turn,           \* what codex.Repair has returned
    error,          \* repairErr, "none" for nil
    patch,          \* repair.patch
    repairs,        \* bc.codexRepairs
    product         \* what the last build has linked

vars == <<pc, attempt, system, work, head, base, fresh, linked, turn, error, patch,
          repairs, product>>

Empty == [p \in Paths |-> Same]
Errors == {"none", "refused", "capture", "empty", "patch", "result"}
Turns == [status : Statuses \cup {"none"}, blocking : BOOLEAN, ok : BOOLEAN]

TypeOK ==
    /\ pc \in {"build", "checkpoint", "codex", "judge", "restore", "record",
               "prepare", "published", "failed"}
    /\ attempt \in 0..MaxRepairs
    /\ system \in Systems \cup {"unknown"}
    /\ work \in Trees /\ head \in Trees /\ base \in Trees
    /\ fresh \in BOOLEAN /\ linked \in BOOLEAN
    /\ turn \in Turns
    /\ error \in Errors
    /\ patch \in Patches
    /\ repairs \in Seq([status : Statuses \cup {"error"}, blocking : BOOLEAN,
                        error : Errors, patch : Patches])
    /\ product \in Contents \cup {Absent}

Porting == Mode \in {"auto", "port"}

\* chooseBuildSystem over what analyze finds: CMake before Make.
Detected(tree) ==
    IF tree[BuildFiles["cmake"]] # Absent THEN "cmake"
    ELSE IF tree[BuildFiles["make"]] # Absent THEN "make"
    ELSE "unknown"

\* A project without a build system is taken on in port mode only.  The copy gives
\* every file a new time, so that an object shipped with the project may be the newer.
Init ==
    /\ pc = "build" /\ attempt = 0
    /\ system = Detected(Original)
    /\ system = "unknown" => Porting /\ MaxRepairs > 0
    /\ work = Original /\ head = Original /\ base = Original
    /\ fresh \in BOOLEAN /\ (fresh => Original[Object] # Absent)
    /\ linked = FALSE
    /\ turn = [status |-> "none", blocking |-> FALSE, ok |-> FALSE]
    /\ error = "none" /\ patch = Empty
    /\ repairs = <<>>
    /\ product = Absent

-----------------------------------------------------------------------------
\* runBuild and what follows it.

\* A failed attempt goes to Codex while repairs are left.
Retry == pc' = IF attempt < MaxRepairs THEN "checkpoint" ELSE "failed"

Buildable ==
    /\ system \in Systems
    /\ work[BuildFiles[system]] # Absent
    /\ work[Source] \in Contents

\* Make keeps an object that is newer than its source.
Compiled ==
    IF system = "make" /\ fresh /\ work[Object] \in Contents THEN work[Object]
    ELSE ObjectOf[work[Source]]

Compile ==
    /\ Buildable
    /\ work' = IF system = "make" THEN [work EXCEPT ![Object] = Compiled] ELSE work
    /\ fresh' = (system = "make" \/ fresh)

\* Mutant: the gate looks at the first repair, not the latest.
FaithfulOnce(reuses) ==
    \/ ~Porting \/ repairs = <<>>
    \/ /\ repairs[1].status \notin {"blocked", "no-change"}
       /\ ~repairs[1].blocking
       /\ system = "cmake" => reuses

\* validatePortFidelityAfterBuild; reuses is whether enough of the original
\* sources are in the compile database, which only CMake and Meson write.
Faithful(reuses) ==
    \/ ~Porting \/ repairs = <<>>
    \/ LET latest == repairs[Len(repairs)]
       IN  /\ latest.status \notin {"blocked", "no-change"}
           /\ ~latest.blocking
           /\ system = "cmake" => reuses

Link ==
    /\ pc = "build"
    /\ Compile
    /\ product' = Compiled
    /\ linked' = TRUE
    /\ \E reuses \in BOOLEAN : IF Faithful(reuses) THEN pc' = "published" ELSE Retry
    /\ UNCHANGED <<attempt, system, head, base, turn, error, patch, repairs>>

\* The linker, or an earlier command after the source's, fails.
LinkFails ==
    /\ pc = "build"
    /\ Compile
    /\ linked' = FALSE
    /\ Retry
    /\ UNCHANGED <<attempt, system, head, base, turn, error, patch, repairs, product>>

\* The build fails before it has compiled the source: an error in it, no build
\* system, a missing tool, a timeout, a cancelled context.
CompileFails ==
    /\ pc = "build"
    /\ linked' = FALSE
    /\ Retry
    /\ UNCHANGED <<attempt, system, work, head, base, fresh, turn, error, patch, repairs,
                   product>>

-----------------------------------------------------------------------------
\* One Codex attempt.

\* What the failed build has left in the workspace is committed, unfiltered.
Checkpoint ==
    /\ pc = "checkpoint"
    /\ head' = work /\ base' = work
    /\ pc' = "codex"
    /\ UNCHANGED <<attempt, system, work, fresh, linked, turn, error, patch, repairs, product>>

\* Git fails, or the instructions file cannot be read after the commit.
CheckpointFails ==
    /\ pc = "checkpoint" /\ "checkpoint" \in MayFail
    /\ head' \in {head, work}
    /\ pc' = "failed"
    /\ UNCHANGED <<attempt, system, work, base, fresh, linked, turn, error, patch, repairs,
                   product>>

\* A turn that builds does so after its edits.
Edited ==
    \E edit \in Edits :
        /\ work' = Apply(edit, work)
        /\ fresh' = (edit[Object] # Same \/ (fresh /\ edit[Source] = Same))

\* codex.Repair.  A turn is not ok
\* that failed, be it without an answer, ran forbidden commands or left a link out of
\* the workspace.
Codex ==
    /\ pc = "codex"
    /\ Edited
    /\ \E status \in Statuses \cup {"none"}, blocking, ok \in BOOLEAN :
          /\ ok => status # "none"
          /\ turn' = [status |-> status, blocking |-> blocking, ok |-> ok]
    /\ error' = "none" /\ patch' = Empty
    /\ pc' = "judge"
    /\ UNCHANGED <<attempt, system, head, base, linked, repairs, product>>

\* portContinuationStatus.
Continuation == Porting /\ turn.status \in {"progress", "blocked", "no-change"}

Acceptable == turn.ok /\ (turn.status \in {"repaired", "ported"} \/ Continuation)

\* completionReassessment.
Reassessed == linked /\ Porting /\ turn.status \in {"ported", "repaired"}

Refuse ==
    /\ pc = "judge" /\ ~Acceptable
    /\ error' = "refused"
    /\ pc' = "restore"
    /\ UNCHANGED <<attempt, system, work, head, base, fresh, linked, turn, patch, repairs,
                   product>>

\* Git fails, before or after the discards.
CaptureFails ==
    /\ pc = "judge" /\ Acceptable /\ "capture" \in MayFail
    /\ \E paths \in Discards(head, work) : work' \in {work, Restored(paths, head, work)}
    /\ error' = "capture"
    /\ pc' = "restore"
    /\ UNCHANGED <<attempt, system, head, base, fresh, linked, turn, patch, repairs, product>>

\* Mutant: a continuation that changes nothing is asked again at once.
CommitAsksAgain(kept) ==
    IF kept = head
    THEN /\ IF Continuation THEN error' = "none" /\ pc' = "codex"
            ELSE IF Reassessed THEN error' = "none" /\ pc' = "record"
            ELSE error' = "empty" /\ pc' = "restore"
         /\ UNCHANGED <<head, patch>>
    ELSE head' = kept /\ patch' = Diff(head, kept) /\ error' = "none" /\ pc' = "record"

\* Whether anything is left to commit, and whether it must be.
Commit(kept) ==
    IF kept = head
    THEN /\ IF Continuation \/ Reassessed THEN error' = "none" /\ pc' = "record"
                                          ELSE error' = "empty" /\ pc' = "restore"
         /\ UNCHANGED <<head, patch>>
    ELSE /\ head' = kept
         /\ patch' = Diff(head, kept)
         /\ \/ error' = "none" /\ pc' = "record"
            \/ "patch" \in MayFail /\ error' = "patch" /\ pc' = "restore"

\* Mutant: discarded changes are kept out of the commit but left in the workspace.
CaptureInIndexOnly ==
    /\ pc = "judge" /\ Acceptable
    /\ \E paths \in Discards(head, work) : Commit(Restored(paths, head, work))
    /\ UNCHANGED <<work, fresh>>
    /\ UNCHANGED <<attempt, system, base, linked, turn, repairs, product>>

\* CaptureAndCommitWithOptions, with its discards.  A discarded object is written
\* anew from HEAD, later than the source.
Capture ==
    /\ pc = "judge" /\ Acceptable
    /\ \E paths \in Discards(head, work) :
          /\ work' = Restored(paths, head, work)
          /\ fresh' = (fresh \/ Object \in paths)
          /\ Commit(Restored(paths, head, work))
    /\ UNCHANGED <<attempt, system, base, linked, turn, repairs, product>>

\* The workspace goes back to the checkpoint, or Git fails to do it.
Reset ==
    \/ work' = ResetTo(base, work) /\ head' = base
    \/ "reset" \in MayFail /\ UNCHANGED <<work, head>>

Restore ==
    /\ pc = "restore"
    /\ Reset
    /\ pc' = "record"
    /\ UNCHANGED <<attempt, system, base, fresh, linked, turn, error, patch, repairs, product>>

\* The attempt as the manifest has it.
Entry(status, failure) ==
    [status |-> IF failure # "none" /\ status \in {"none", "repaired"} THEN "error" ELSE status,
     blocking |-> turn.blocking, error |-> failure, patch |-> patch]

\* result.json is written and the attempt recorded.
Record ==
    /\ pc = "record"
    /\ repairs' = Append(repairs, Entry(turn.status, error))
    /\ pc' = IF error = "none" THEN "prepare" ELSE "failed"
    /\ UNCHANGED <<attempt, system, work, head, base, fresh, linked, turn, error, patch, product>>

\* result.json cannot be written: an attempt that was accepted is undone.
ResultFails ==
    /\ pc = "record" /\ "result" \in MayFail
    /\ IF error = "none" THEN error' = "result" /\ Reset
                         ELSE UNCHANGED <<error, work, head>>
    /\ repairs' = Append(repairs, Entry(turn.status, error'))
    /\ pc' = "failed"
    /\ UNCHANGED <<attempt, system, base, fresh, linked, turn, patch, product>>

\* resetAfterRepair: the build directory is removed, and Make's objects if the
\* project's Makefile can do that.
Cleaned(s, tree) ==
    IF s = "make" /\ CleanRule /\ tree[BuildFiles["make"]] # Absent
    THEN [tree EXCEPT ![Object] = Absent] ELSE tree

Redetected(tree) == IF Detected(tree) = "unknown" THEN system ELSE Detected(tree)

\* Mutant: the old objects stay.
PrepareKeepsObjects ==
    /\ pc = "prepare"
    /\ system' = Redetected(work)
    /\ attempt' = attempt + 1
    /\ pc' = "build"
    /\ UNCHANGED <<work, head, base, fresh, linked, turn, error, patch, repairs, product>>

\* The build system is detected anew and the build state reset.
Prepare ==
    /\ pc = "prepare"
    /\ system' = Redetected(work)
    /\ work' = Cleaned(Redetected(work), work)
    /\ attempt' = attempt + 1
    /\ pc' = "build"
    /\ UNCHANGED <<head, base, fresh, linked, turn, error, patch, repairs, product>>

PrepareFails ==
    /\ pc = "prepare" /\ "analyze" \in MayFail
    /\ pc' = "failed"
    /\ UNCHANGED <<attempt, system, work, head, base, fresh, linked, turn, error, patch,
                   repairs, product>>

\* The last turn may have been given up, and go on.
Abandoned == "interrupt" \in MayFail /\ turn.status = "none"

\* A turn that was given up goes on in the app-server, which the deferred Close
\* stops only when Build returns.
LateEdit ==
    /\ Abandoned /\ Porting
    /\ pc \in {"restore", "record", "failed"}
    /\ error = "refused"
    /\ Edited
    /\ UNCHANGED <<pc, attempt, system, head, base, linked, turn, error, patch, repairs,
                   product>>

Finished == pc \in {"published", "failed"} /\ UNCHANGED vars

Step ==
    \/ Link \/ LinkFails \/ CompileFails
    \/ Checkpoint \/ CheckpointFails \/ Codex
    \/ Refuse \/ CaptureFails \/ Capture \/ Restore
    \/ Record \/ ResultFails \/ Prepare \/ PrepareFails

Next == Step \/ LateEdit \/ Finished

Spec == Init /\ [][Next]_vars

\* A command may be waited for without end: Git has no deadline, and the wait for
\* any command lasts, beyond its deadline, until the last process that holds its
\* output has ended.
RunsCommand ==
    \/ pc \in {"build", "checkpoint", "codex", "restore"}
    \/ pc = "judge" /\ Acceptable
    \/ pc = "record" /\ error = "none" /\ "result" \in MayFail
    \/ pc = "prepare" /\ Redetected(work) = "make"

\* One goroutine runs the loop; what is no command ends.
FairSpec == Spec /\ WF_vars(Step /\ ~RunsCommand)

-----------------------------------------------------------------------------
\* Properties.

\* Whatever a turn changes, a commit after it holds only what the filter keeps:
\* no binary is changed, added or deleted (docs/adr/0004: "accepts textual source
\* and build-script changes").
PatchIsSourceOnly ==
    [][pc = "judge" => \A p \in Changed(head, head') : Keep(p, head'[p])]_vars

\* The patches of the recorded attempts that were not refused, applied in order to
\* the original, give p this content: the last one that touches it decides.
Replays(p, content) ==
    LET touching == {k \in 1..Len(repairs) :
                        repairs[k].error = "none" /\ repairs[k].patch[p] # Same}
    IN  IF touching = {} THEN content = Original[p]
        ELSE \E last \in touching : /\ \A k \in touching : k <= last
                                    /\ content = repairs[last].patch[p]

\* Of a published target, or a failed one, the original sources and the patches
\* of the recorded attempts that were not refused are the sources that were built
\* and are shipped as ported-source, but for generated files and for repositories that
\* a refused turn has left.  A target that failed with a turn that was given up is
\* excepted, since that turn may go on, and one whose reset failed.
PatchesReproduceSource ==
    pc = "published" \/ (pc = "failed" /\ ~Abandoned /\ "reset" \notin MayFail) =>
        \A p \in Paths \ Generated : work[p] = Nested \/ Replays(p, work[p])

\* After a refused attempt the workspace, shipped as ported-source, is what it was
\* before the attempt, but for the repositories the turn has put into it, which
\* git clean leaves, and unless the reset itself fails or the turn was given up and
\* goes on.
RefusedIsUndone ==
    pc = "failed" /\ repairs # <<>> /\ repairs[Len(repairs)].error # "none"
    /\ "reset" \notin MayFail /\ ~Abandoned
    => \A p \in Paths : work[p] \in {base[p], Nested}

\* Where Make's objects can be cleaned, what is published was compiled from the
\* source as it is now, never from the object of an earlier attempt or of Codex's
\* own builds.  The first attempt, which nothing cleans before, may link an object
\* that was shipped with the project; after a repair none is linked.
ProductIsCurrent ==
    pc = "published" /\ CleanRule =>
        \/ product = ObjectOf[work[Source]]
        \/ attempt = 0 /\ product = Original[Object]

\* In port mode nothing is published on the word of a turn that says the port is
\* incomplete, however well it links.
IncompleteIsNotPublished ==
    pc = "published" /\ Porting /\ repairs # <<>> =>
        /\ repairs[Len(repairs)].status \in {"repaired", "ported", "progress"}
        /\ ~repairs[Len(repairs)].blocking

\* What is published was built, and is collected, with the build system its
\* sources have after the last repair.
BuiltWithDetected == pc = "published" => system = Detected(work)

\* The loop ends, whatever Codex answers, or waits for one command for ever: it never
\* goes round without coming closer to its end.
Ends ==
    \/ <>(pc \in {"published", "failed"})
    \/ \E label \in {"build", "checkpoint", "codex", "judge", "restore", "record", "prepare"} :
          <>[](pc = label /\ RunsCommand)
=============================================================================
