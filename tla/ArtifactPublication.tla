------------------------ MODULE ArtifactPublication ------------------------
(***************************************************************************)
(* The life of one target's artifact set, dist/<target>: builds of the     *)
(* same project and target (internal/builder/builder.go, Build) fingerprint *)
(* the source, may reuse the published set, otherwise stage a new one,     *)
(* verify it and put it in place of the old one with two renames.  Builds  *)
(* are processes without a common lock; they share the source tree, the    *)
(* work directory, which each of them empties, fills, reads and empties    *)
(* again file by file, and dist.                                           *)
(***************************************************************************)
EXTENDS Integers

CONSTANTS
    Builders,   \* miruri processes building this target
    Versions,   \* contents the source tree may have
    Parts,      \* the files of the source tree, with what is made from each
    Calls,      \* the calls builders make: [reuse, dry : BOOLEAN]
    Budget,     \* how often each kind of event may happen (model bound)
    Absent      \* no artifact set; no file, or one that is cut short

Kinds == {"call", "overlap", "edit", "race", "crash", "damage", "io"}

ASSUME VersionsAssumption == Versions # {} /\ Absent \notin Versions
ASSUME PartsAssumption == Parts # {}
ASSUME CallsAssumption == Calls \subseteq [reuse : BOOLEAN, dry : BOOLEAN] /\ Calls # {}
ASSUME BudgetAssumption == Budget \in [Kinds -> Nat]

VARIABLES
    source,     \* the source tree's content
    work,       \* work/<project>/<target>: what each file was copied from
    final,      \* dist/<target>
    orphans,    \* dist/<target>.previous-* directories nobody will touch again
    pc, call,   \* each builder's next operation and its options
    digest,     \* the project digest it computed
    todo,       \* the files it has not come to yet in the work directory
    staged,     \* its directory under .miruri-staging
    loaded,     \* the manifest it read for reuse
    backup,     \* the previous set it moved aside
    outcome,    \* how its last build ended
    promised,   \* ghost: the set that was last put in place
    budget      \* events left of each kind

vars == <<source, work, final, orphans, pc, call, digest, todo, staged, loaded,
          backup, outcome, promised, budget>>

-----------------------------------------------------------------------------
Optional(S) == S \cup {Absent}

\* What became of each file of the source: in the work directory, or in a build.
Trees == [Parts -> Optional(Versions)]
Whole(v) == [x \in Parts |-> v]

\* An artifact set by what its readers look at: the digests in its manifest,
\* what it was really built from, its build status and whether it still passes
\* strict verification.
Sets == [digest : Versions, dry : BOOLEAN, content : Trees,
         status : {"open", "good"}, intact : BOOLEAN]

ASSUME AbsentAssumption == Absent \notin Sets

Labels == {"idle", "load", "verify", "stage", "empty", "copy", "compile", "seal",
           "inspect", "preserve", "promote", "restore", "drop", "clean"}

Outcomes == {"none", "published", "reused", "failed"}

TypeOK ==
    /\ source \in Versions
    /\ work \in Trees
    /\ final \in Optional(Sets)
    /\ orphans \in SUBSET Sets
    /\ pc \in [Builders -> Labels]
    /\ call \in [Builders -> Calls]
    /\ digest \in [Builders -> Versions]
    /\ todo \in [Builders -> SUBSET Parts]
    /\ staged \in [Builders -> Optional(Sets)]
    /\ loaded \in [Builders -> Optional(Sets)]
    /\ backup \in [Builders -> Optional(Sets)]
    /\ outcome \in [Builders -> Outcomes]
    /\ promised \in Optional(Sets)
    /\ budget \in [Kinds -> Nat]

\* The options of a builder that is idle.
AnyCall == CHOOSE c \in Calls : TRUE

Init ==
    /\ source \in Versions
    /\ work = Whole(Absent)
    /\ final = Absent
    /\ orphans = {}
    /\ pc = [p \in Builders |-> "idle"]
    /\ call = [p \in Builders |-> AnyCall]
    /\ digest = [p \in Builders |-> source]
    /\ todo = [p \in Builders |-> {}]
    /\ staged = [p \in Builders |-> Absent]
    /\ loaded = [p \in Builders |-> Absent]
    /\ backup = [p \in Builders |-> Absent]
    /\ outcome = [p \in Builders |-> "none"]
    /\ promised = Absent
    /\ budget = Budget

-----------------------------------------------------------------------------
At(p, label) == pc[p] = label
Goto(p, label) == pc' = [pc EXCEPT ![p] = label]
Idle == \A p \in Builders : At(p, "idle")

Spend(kinds) ==
    /\ \A k \in kinds : budget[k] > 0
    /\ budget' = [k \in Kinds |-> IF k \in kinds THEN budget[k] - 1 ELSE budget[k]]

\* What a build knows of its own: its options, its way through the work directory,
\* its staged set and what it read for reuse.
own == <<call, outcome, todo, staged, loaded>>

Continue(p, label) == Goto(p, label) /\ UNCHANGED own

\* The build is over, and what it knew is gone with it.
Return(p, result) ==
    /\ Goto(p, "idle")
    /\ outcome' = [outcome EXCEPT ![p] = result]
    /\ call' = [call EXCEPT ![p] = AnyCall]
    /\ todo' = [todo EXCEPT ![p] = {}]
    /\ staged' = [staged EXCEPT ![p] = Absent]
    /\ loaded' = [loaded EXCEPT ![p] = Absent]

Fail(p) == Return(p, "failed")

\* Mutant: the digest of the builder's first build is kept.
BeginStaleDigest(p, c) ==
    /\ At(p, "idle")
    /\ Spend(IF Idle THEN {"call"} ELSE {"call", "overlap"})
    /\ call' = [call EXCEPT ![p] = c]
    /\ outcome' = [outcome EXCEPT ![p] = "none"]
    /\ Goto(p, IF c.reuse THEN "load" ELSE "stage")
    /\ UNCHANGED <<source, work, final, orphans, digest, backup, promised, todo, staged, loaded>>

\* The build starts by fingerprinting the project.
Begin(p, c) ==
    /\ At(p, "idle")
    /\ Spend(IF Idle THEN {"call"} ELSE {"call", "overlap"})
    /\ call' = [call EXCEPT ![p] = c]
    /\ digest' = [digest EXCEPT ![p] = source]
    /\ outcome' = [outcome EXCEPT ![p] = "none"]
    /\ Goto(p, IF c.reuse THEN "load" ELSE "stage")
    /\ UNCHANGED <<source, work, final, orphans, backup, promised, todo, staged, loaded>>

\* reuseArtifactSet reads the manifest ...
Matches(p) ==
    /\ final # Absent
    /\ final.status = "good"
    /\ final.digest = digest[p] /\ final.dry = call[p].dry

Load(p) ==
    /\ At(p, "load")
    /\ \/ /\ Matches(p)
          /\ loaded' = [loaded EXCEPT ![p] = final]
          /\ Goto(p, "verify")
          /\ UNCHANGED <<call, outcome, todo, staged>>
       \/ /\ ~Matches(p)
          /\ Continue(p, "stage")
    /\ UNCHANGED <<source, work, final, orphans, digest, backup, promised, budget>>

\* Mutant: the manifest alone decides.
VerifyNothing(p) ==
    /\ At(p, "verify")
    /\ Return(p, "reused")
    /\ UNCHANGED <<source, work, final, orphans, digest, backup, promised, budget>>

\* ... and then verifies the directory.
Verified == final # Absent /\ final.intact

Verify(p) ==
    /\ At(p, "verify")
    /\ \/ /\ Verified
          /\ Return(p, "reused")
       \/ /\ ~Verified
          /\ Continue(p, "stage")
    /\ UNCHANGED <<source, work, final, orphans, digest, backup, promised, budget>>

\* The staging directory is created.
Stage(p) ==
    /\ At(p, "stage")
    /\ staged' = [staged EXCEPT ![p] =
                     [digest |-> digest[p], dry |-> call[p].dry,
                      content |-> Whole(Absent), status |-> "open", intact |-> TRUE]]
    /\ todo' = [todo EXCEPT ![p] = Parts]
    /\ Goto(p, "empty")
    /\ UNCHANGED <<call, outcome, loaded>>
    /\ UNCHANGED <<source, work, final, orphans, digest, backup, promised, budget>>

-----------------------------------------------------------------------------
\* The work directory is one directory for all builds of the project and the
\* target, and nobody locks it.

\* p comes to a file of the work directory and makes v of it.
Turns(p, x, v) ==
    /\ x \in todo[p]
    /\ work' = [work EXCEPT ![x] = v]
    /\ todo' = [todo EXCEPT ![p] = @ \ {x}]
    /\ UNCHANGED <<pc, call, outcome, loaded>>

\* p is through, and will go over the files again.
Through(p, label) ==
    /\ todo[p] = {}
    /\ todo' = [todo EXCEPT ![p] = Parts]
    /\ Goto(p, label)
    /\ UNCHANGED <<call, outcome, loaded, work, staged>>

\* os.RemoveAll: it fails when a file has come back behind it.
Empty(p) ==
    /\ At(p, "empty")
    /\ \/ \E x \in Parts : Turns(p, x, Absent) /\ UNCHANGED staged
       \/ /\ work = Whole(Absent)
          /\ Through(p, IF call[p].dry THEN "seal" ELSE "copy")
       \/ /\ todo[p] = {} /\ work # Whole(Absent)
          /\ Fail(p)
          /\ UNCHANGED work
    /\ UNCHANGED <<source, final, orphans, digest, backup, promised, budget>>

\* CopyTree makes the overlay: a file that another build has copied is cut short
\* first. The tools may be missing, and a directory may go under the copy.
Copy(p) ==
    /\ At(p, "copy")
    /\ \/ \E x \in Parts : work[x] = Absent /\ Turns(p, x, source) /\ UNCHANGED staged
       \/ \E x \in todo[p] :
             /\ work[x] # Absent
             /\ work' = [work EXCEPT ![x] = Absent]
             /\ UNCHANGED <<pc, own>>
       \/ Through(p, "compile")
       \/ Fail(p) /\ UNCHANGED work
    /\ UNCHANGED <<source, final, orphans, digest, backup, promised, budget>>

\* Build, repairs and packaging, from whatever each file is when it is read: one
\* that is not there may go unnoticed, a build that made nothing fails.
Compile(p) ==
    /\ At(p, "compile")
    /\ \/ \E x \in Parts :
             /\ Turns(p, x, work[x])
             /\ staged' = [staged EXCEPT ![p].content[x] = work[x]]
       \/ /\ staged[p].content # Whole(Absent)
          /\ Through(p, "seal")
       \/ Fail(p) /\ UNCHANGED work
    /\ UNCHANGED <<source, final, orphans, digest, backup, promised, budget>>

\* Mutant: a failed build is published with its diagnostics.
SealAnyway(p) ==
    /\ At(p, "seal")
    /\ \/ staged' = [staged EXCEPT ![p].status = "good"]
       \/ UNCHANGED staged
    /\ Goto(p, "inspect")
    /\ UNCHANGED <<call, outcome, todo, loaded>>
    /\ UNCHANGED <<source, work, final, orphans, digest, backup, promised, budget>>

\* finalizeManifest writes the evidence, the manifest and the integrity index
\* and verifies the staged set; any of it may fail.
Seal(p) ==
    /\ At(p, "seal")
    /\ \/ /\ staged' = [staged EXCEPT ![p].status = "good"]
          /\ Goto(p, "inspect")
          /\ UNCHANGED <<call, outcome, todo, loaded>>
       \/ Fail(p)
    /\ UNCHANGED <<source, work, final, orphans, digest, backup, promised, budget>>

-----------------------------------------------------------------------------
\* publishArtifactSet, one file-system operation per step.

Inspect(p) ==
    /\ At(p, "inspect")
    /\ \/ /\ Continue(p, IF final # Absent THEN "preserve" ELSE "promote")
          /\ UNCHANGED budget
       \/ /\ Spend({"io"})
          /\ Fail(p)
    /\ UNCHANGED <<source, work, final, orphans, digest, backup, promised>>

\* The previous set is renamed away; it may have gone since Inspect.
Preserve(p) ==
    /\ At(p, "preserve")
    /\ \/ /\ final # Absent
          /\ backup' = [backup EXCEPT ![p] = final]
          /\ final' = Absent
          /\ Continue(p, "promote")
          /\ UNCHANGED budget
       \/ /\ final = Absent
          /\ Fail(p)
          /\ UNCHANGED <<final, backup, budget>>
       \/ /\ Spend({"io"})
          /\ Fail(p)
          /\ UNCHANGED <<final, backup>>
    /\ UNCHANGED <<source, work, orphans, digest, promised>>

\* A rename onto an existing directory fails, and any rename may.
Refused == (final # Absent /\ UNCHANGED budget) \/ Spend({"io"})

\* Mutant: a failed rename returns at once.
PromoteNoRestore(p) ==
    /\ At(p, "promote")
    /\ \/ /\ final = Absent
          /\ final' = staged[p]
          /\ promised' = staged[p]
          /\ Continue(p, "drop")
          /\ UNCHANGED <<orphans, backup, budget>>
       \/ /\ Refused
          /\ Fail(p)
          /\ orphans' = orphans \cup ({backup[p]} \ {Absent})
          /\ backup' = [backup EXCEPT ![p] = Absent]
          /\ UNCHANGED <<final, promised>>
    /\ UNCHANGED <<source, work, digest>>

\* Mutant: the rename replaces the set that is in place.
PromoteOver(p) ==
    /\ At(p, "promote")
    /\ \/ /\ final' = staged[p]
          /\ promised' = staged[p]
          /\ Continue(p, "drop")
          /\ UNCHANGED budget
       \/ /\ Spend({"io"})
          /\ IF backup[p] # Absent THEN Continue(p, "restore") ELSE Fail(p)
          /\ UNCHANGED <<final, promised>>
    /\ UNCHANGED <<source, work, orphans, digest, backup>>

\* The staged set is renamed into place.
Promote(p) ==
    /\ At(p, "promote")
    /\ \/ /\ final = Absent
          /\ final' = staged[p]
          /\ promised' = staged[p]
          /\ Continue(p, "drop")
          /\ UNCHANGED budget
       \/ /\ Refused
          /\ IF backup[p] # Absent THEN Continue(p, "restore") ELSE Fail(p)
          /\ UNCHANGED <<final, promised>>
    /\ UNCHANGED <<source, work, orphans, digest, backup>>

\* Mutant: the backup is deleted when it cannot be put back.
RestoreOrDelete(p) ==
    /\ At(p, "restore")
    /\ \/ final = Absent /\ final' = backup[p] /\ UNCHANGED budget
       \/ Refused /\ UNCHANGED final
    /\ backup' = [backup EXCEPT ![p] = Absent]
    /\ Fail(p)
    /\ UNCHANGED <<source, work, orphans, digest, promised>>

\* The previous set is renamed back; an error is ignored and leaves it aside.
Restore(p) ==
    /\ At(p, "restore")
    /\ \/ /\ final = Absent
          /\ final' = backup[p]
          /\ UNCHANGED <<orphans, budget>>
       \/ /\ Refused
          /\ orphans' = orphans \cup {backup[p]}
          /\ UNCHANGED final
    /\ backup' = [backup EXCEPT ![p] = Absent]
    /\ Fail(p)
    /\ UNCHANGED <<source, work, digest, promised>>

\* The backup, if any, is deleted.
Drop(p) ==
    /\ At(p, "drop")
    /\ backup' = [backup EXCEPT ![p] = Absent]
    /\ Continue(p, "clean")
    /\ UNCHANGED <<source, work, final, orphans, digest, promised, budget>>

\* A real build without --keep-work empties the work directory, as far as it can.
Clean(p) ==
    /\ At(p, "clean")
    /\ \/ ~call[p].dry /\ UNCHANGED staged /\ \E x \in Parts : Turns(p, x, Absent)
       \/ Return(p, "published") /\ UNCHANGED work
    /\ UNCHANGED <<source, final, orphans, digest, backup, promised, budget>>

-----------------------------------------------------------------------------
\* A killed builder leaves its directories where they are.
Crash(p) ==
    /\ ~At(p, "idle")
    /\ Spend({"crash"})
    /\ Return(p, "none")
    /\ orphans' = orphans \cup ({backup[p]} \ {Absent})
    /\ backup' = [backup EXCEPT ![p] = Absent]
    /\ UNCHANGED <<source, work, final, digest, promised>>

\* The user edits the source: a race when a build is under way.
Edit ==
    /\ Spend({IF Idle THEN "edit" ELSE "race"})
    /\ source' \in Versions \ {source}
    /\ UNCHANGED <<todo, work, final, orphans, pc, call, digest, staged, loaded,
                   backup, outcome, promised>>

\* A file of the published set is changed or lost.
Damage ==
    /\ final # Absent /\ final.intact
    /\ Spend({"damage"})
    /\ final' = [final EXCEPT !.intact = FALSE]
    /\ UNCHANGED <<todo, source, work, orphans, pc, call, digest, staged, loaded,
                   backup, outcome, promised>>

Step(p) ==
    \/ \E c \in Calls : Begin(p, c)
    \/ Load(p) \/ Verify(p) \/ Stage(p) \/ Empty(p) \/ Copy(p) \/ Compile(p) \/ Seal(p)
    \/ Inspect(p) \/ Preserve(p) \/ Promote(p) \/ Restore(p) \/ Drop(p)
    \/ Clean(p)

Next == (\E p \in Builders : Step(p) \/ Crash(p)) \/ Edit \/ Damage

Spec == Init /\ [][Next]_vars

-----------------------------------------------------------------------------
\* Properties.

\* An event of this kind has not happened.
Never(kind) == budget[kind] = Budget[kind]

\* The sets that builders moved aside and have not replaced yet.
Held == {backup[p] : p \in {q \in Builders : pc[q] \in {"promote", "restore"}}}

\* A set up to damage done to it after it was published.
AsBuilt(set) == [set EXCEPT !.intact = TRUE]

\* What is at dist/<target>, or was moved from there, is a set whose status is
\* "succeeded" or "dry-run" and that passed verification: no interleaving, failed
\* rename or crash exposes an open or failed set ("no time when an incomplete
\* set looks like a normal one").
OnlyVerifiedVisible ==
    \A set \in ({final} \cup {backup[p] : p \in Builders} \cup orphans) \ {Absent} :
        set.status = "good"

\* The set that was published last is never lost, whatever concurrent
\* publishers, failed renames and crashes do: it is in place, held by a builder
\* that will replace it or put it back, or in a leftover .previous directory.
LatestSurvives ==
    promised # Absent =>
        \E set \in ({final} \cup Held \cup orphans) \ {Absent} :
            AsBuilt(set) = promised

\* A build that fails, be it in the publication with one failed rename,
\* leaves the last published set in place, when builders do not overlap and
\* none is killed.
FailureKeepsPrevious ==
    /\ Never("overlap") /\ Never("crash") /\ Budget["io"] - budget["io"] <= 1
    /\ Idle /\ promised # Absent
    => final # Absent /\ AsBuilt(final) = promised

\* While nobody edits the source during a build, nothing in a published real
\* build is from another source than its digest names, whatever builds that share
\* the work directory, or died in it, have left or do there; and a build that no
\* other overlaps has all of it.
DigestIsHonest ==
    /\ Never("race")
    /\ final # Absent /\ ~final.dry
    => \A x \in Parts :
          \/ final.content[x] = final.digest
          \/ final.content[x] = Absent /\ ~Never("overlap")

\* When a build ends by reusing the published set, that set is intact, has the
\* requested mode and was made from the source as it is now, unless the source
\* was edited during a build or builders overlapped.
ReuseIsCurrent ==
    [][\A p \in Builders :
          /\ outcome[p] # "reused" /\ outcome'[p] = "reused"
          /\ Never("race") /\ Never("overlap")
          => /\ final.intact /\ final = loaded[p]
             /\ final.dry = call[p].dry
             /\ final.content = Whole(IF call[p].dry THEN Absent ELSE source)]_vars

\* Whatever overlapping builders, failed renames, crashes and damage do, who
\* looks at dist/<target> sees what module PublishedSets allows: a verified set
\* appears only where nothing is, goes aside before another comes, and the last
\* one published is never deleted (publishArtifactSet).
Shelf == INSTANCE PublishedSets WITH
    Complete <- {set \in Sets : set.status = "good" /\ set.intact},
    Nothing <- Absent,
    visible <- final,
    aside <- ({backup[p] : p \in Builders} \cup orphans) \ {Absent},
    latest <- promised

ImplementsShelf == Shelf!Spec
=============================================================================
