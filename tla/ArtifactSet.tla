---------------------------- MODULE ArtifactSet ----------------------------
(***************************************************************************)
(* What is inside an artifact set, and what strict verification makes of   *)
(* it later.  A build (internal/builder/builder.go, Build) writes the set   *)
(* file by file into its staging directory, describes it (licenses, SBOM,   *)
(* manifest), indexes it and verifies it; the user edits the project        *)
(* meanwhile.  The sealed set is then spoilt, mixed with another set or     *)
(* indexed anew, and internal/verify says whether it is still one.          *)
(***************************************************************************)
EXTENDS Integers, FiniteSets

CONSTANTS
    Versions,       \* contents of a source file, of a license
    MaxEdits,       \* edits of the project (model bound)
    MaxHarm         \* changes to the sealed set (model bound)

ASSUME BoundsAssumption == MaxEdits \in Nat /\ MaxHarm \in Nat

\* A project: a source file, a license file and maybe a symlink between them.
\* Its digest covers all three, so the project stands for its digest.
Projects == [code : Versions, license : Versions, link : BOOLEAN]

\* A build by what its files say of it: the project digest, the target, and the time,
\* which tells this build from the others.  Two builds of one request have the same
\* build ID.
This(d) == [project |-> d, target |-> "own", earlier |-> FALSE]

\* Earlier builds of the project, of any version of its code and for any target.
Others(d) ==
    [project : {q \in Projects : q.license = d.license /\ q.link = d.link},
     target : {"own", "other"}, earlier : {TRUE}]

\* The files of a set.  "app" is the artifact, "ported" and "alias" the file and
\* the link of ported-source, "copy" a file the build has not written.
Texts == {"analysis", "plan", "log", "licenses", "sbom", "manifest"}
Paths == Texts \cup {"index", "app", "ported", "alias", "copy"}

VARIABLES
    project,        \* the user's source tree
    pc,             \* next step of the build
    status,         \* the manifest's build_status
    repaired,       \* len(bc.codexRepairs) > 0
    digest,         \* bc.analysis.ProjectDigest
    work,           \* bc.sourceDir
    disk,           \* the artifact set: an object for every path
    sealed,         \* ghost: the set as it was when the build verified it
    edits, harm     \* edits and changes so far

vars == <<project, pc, status, repaired, digest, work, disk, sealed, edits, harm>>

-----------------------------------------------------------------------------
\* Objects and their contents.  A content is tagged with the format it has, and
\* equal contents have equal SHA-256.
Absent == [kind |-> "absent"]
File(content) == [kind |-> "file", content |-> content]
Link(path) == [kind |-> "link", to |-> path]

Spoilt == [format |-> "spoilt"]
Analysis(b) == [format |-> "analysis", build |-> b]
Plan(b) == [format |-> "plan", build |-> b]
Log(lines) == [format |-> "log", lines |-> lines]
Binary(code) == [format |-> "binary", code |-> code]
Source(tree) == [format |-> "source", code |-> tree.code, license |-> tree.license]

Has(set, path) == set[path].kind # "absent"
IsFile(set, path) == set[path].kind = "file"

\* os.Open, os.Stat and os.ReadFile follow a link.
Resolved(set, path) == IF set[path].kind = "link" THEN set[path].to ELSE path
Readable(set, path) == IsFile(set, Resolved(set, path))
Content(set, path) == set[Resolved(set, path)].content

Parses(set, path, format) == Readable(set, path) /\ Content(set, path).format = format

\* The artifacts a manifest lists, with their checksums.
Listed(set) == [path \in {p \in {"app"} : Has(set, p)} |-> Content(set, path)]

\* Mutant: the licenses of the workspace, where Codex may have edited them.
LicensesOfWorkspace(b) ==
    [format |-> "licenses", build |-> b, evidence |-> work.license]

\* licenses.ScanWithOptions over the project as it is now.
Licenses(b) == [format |-> "licenses", build |-> b, evidence |-> project.license]

Sbom(b, artifacts) == [format |-> "sbom", build |-> b, files |-> artifacts]

Manifest(b, result, artifacts, ported) ==
    [format |-> "manifest", build |-> b, status |-> result,
     artifacts |-> artifacts, ported |-> ported, index |-> TRUE]

-----------------------------------------------------------------------------
\* internal/artifactset: the integrity index.

Indexed(set) == {p \in Paths \ {"index"} : IsFile(set, p)}

\* calculateIntegrityEntries.
Entries(set) == [p \in Indexed(set) |-> set[p].content]

Index(set) == [format |-> "index", entries |-> Entries(set)]

Links(set) == {p \in Paths : set[p].kind = "link"}

-----------------------------------------------------------------------------
\* internal/verify: the strict verification of a set.

ManifestOf(set) == Content(set, "manifest")

\* checkMetadata, checkAnalysisAndPlan, checkLicenseReport and checkSPDX: analysis and
\* license report must have the manifest's project digest, the plan its target, the
\* SBOM both.
DescribesBuild(set) ==
    LET manifest == ManifestOf(set)
    IN  /\ Readable(set, "log")
        /\ Parses(set, "analysis", "analysis")
        /\ Content(set, "analysis").build.project = manifest.build.project
        /\ Parses(set, "plan", "plan")
        /\ Content(set, "plan").build.target = manifest.build.target
        /\ Parses(set, "licenses", "licenses")
        /\ Content(set, "licenses").build.project = manifest.build.project
        /\ Parses(set, "sbom", "sbom")
        /\ Content(set, "sbom").build.project = manifest.build.project
        /\ Content(set, "sbom").build.target = manifest.build.target
        /\ \A p \in DOMAIN manifest.artifacts :
              /\ p \in DOMAIN Content(set, "sbom").files
              /\ Content(set, "sbom").files[p] = manifest.artifacts[p]

\* checkArtifactFiles: the checksum, and the format the file has by inspection.
HoldsArtifacts(set) ==
    \A p \in DOMAIN ManifestOf(set).artifacts :
        /\ Parses(set, p, "binary")
        /\ Content(set, p) = ManifestOf(set).artifacts[p]

\* checkPortedSource.
HoldsPort(set) ==
    ManifestOf(set).ported => Has(set, "ported") \/ Has(set, "alias")

\* Mutant: a file that is not in the index is a warning, as without Strict.
MatchesEntries(set) ==
    /\ ManifestOf(set).index
    /\ Parses(set, "index", "index")
    /\ LET entries == Content(set, "index").entries
       IN  \A p \in DOMAIN entries : Readable(set, p) /\ Content(set, p) = entries[p]

\* checkIntegrity.
MatchesIndex(set) ==
    /\ ManifestOf(set).index
    /\ Parses(set, "index", "index")
    /\ LET entries == Content(set, "index").entries
       IN  /\ \A p \in DOMAIN entries : Readable(set, p) /\ Content(set, p) = entries[p]
           /\ Indexed(set) \subseteq DOMAIN entries

\* ArtifactSet: no finding of severity error.
Valid(set) ==
    /\ Parses(set, "manifest", "manifest")
    /\ DescribesBuild(set)
    /\ HoldsArtifacts(set)
    /\ HoldsPort(set)
    /\ Links(set) = {}
    /\ MatchesIndex(set)

-----------------------------------------------------------------------------
TypeOK ==
    /\ project \in Projects /\ digest \in Projects
    /\ work \in Projects \cup {Absent}
    /\ pc \in {"stage", "copy", "repair", "collect", "preserve", "describe", "index",
               "verify", "sealed", "error"}
    /\ status \in {"succeeded", "failed", "dry-run"}
    /\ repaired \in BOOLEAN
    /\ DOMAIN disk = Paths /\ DOMAIN sealed = Paths
    /\ \A p \in Paths : disk[p].kind \in {"absent", "file", "link"}
    /\ edits \in 0..MaxEdits /\ harm \in 0..MaxHarm

Init ==
    /\ project \in Projects
    /\ pc = "stage"
    /\ status = "succeeded"
    /\ repaired = FALSE
    /\ digest = project /\ work = project
    /\ disk = [p \in Paths |-> Absent]
    /\ sealed = disk
    /\ edits = 0 /\ harm = 0

Goto(label) == pc' = label
Write(path, content) == disk' = [disk EXCEPT ![path] = File(content)]

\* The project is fingerprinted, and analysis and plan are written; a dry run
\* goes on to its manifest.
Stage ==
    /\ pc = "stage"
    /\ digest' = project
    /\ \E dry \in BOOLEAN :
          /\ disk' = [disk EXCEPT !["analysis"] = File(Analysis(This(project))),
                                  !["plan"] = File(Plan(This(project))),
                                  !["log"] = IF dry THEN File(Log(1)) ELSE Absent]
          /\ status' = IF dry THEN "dry-run" ELSE status
          /\ Goto(IF dry THEN "describe" ELSE "copy")
    /\ UNCHANGED <<project, repaired, work, sealed, edits, harm>>

\* CopyTreeWithOptions: links are copied as links.
Copy ==
    /\ pc = "copy"
    /\ work' = project
    /\ Goto("repair")
    /\ UNCHANGED <<project, status, repaired, digest, disk, sealed, edits, harm>>

\* The loop of module BuildRepair: the turns that were adopted may have changed
\* every file, and the build has succeeded or not.  The log is written.
Repair ==
    /\ pc = "repair"
    /\ \/ UNCHANGED <<work, repaired>>
       \/ work' \in Projects /\ repaired' = TRUE
    /\ Write("log", Log(1))
    /\ \/ status' = "succeeded" /\ Goto("collect")
       \/ status' = "failed" /\ Goto("preserve")
    /\ UNCHANGED <<project, digest, sealed, edits, harm>>

\* CollectAndPackage.
Collect ==
    /\ pc = "collect"
    /\ Write("app", Binary(work.code))
    /\ Goto("preserve")
    /\ UNCHANGED <<project, status, repaired, digest, work, sealed, edits, harm>>

\* preservePortedSource, which adds a line to the log, and the log once more.
Preserve ==
    /\ pc = "preserve"
    /\ disk' = IF ~repaired THEN disk
               ELSE [disk EXCEPT !["ported"] = File(Source(work)),
                                 !["alias"] = IF work.link THEN Link("ported") ELSE Absent,
                                 !["log"] = File(Log(2))]
    /\ Goto("describe")
    /\ UNCHANGED <<project, status, repaired, digest, work, sealed, edits, harm>>

\* The snapshot fails half-way; a failed build goes on without it.
PreserveFails ==
    /\ pc = "preserve" /\ repaired
    /\ \E copied \in BOOLEAN :
          IF copied THEN Write("ported", Source(work)) ELSE UNCHANGED disk
    /\ Goto(IF status = "failed" THEN "describe" ELSE "error")
    /\ UNCHANGED <<project, status, repaired, digest, work, sealed, edits, harm>>

\* The snapshot is in the manifest when it was completed.
Ported == disk["log"] = File(Log(2))

\* Mutant: the set is indexed before it is described.
DescribeIndexed ==
    /\ pc = "describe"
    /\ LET artifacts == Listed(disk)
       IN  disk' = [disk EXCEPT
               !["index"] = File(Index(disk)),
               !["licenses"] = File(Licenses(This(digest))),
               !["sbom"] = File(Sbom(This(digest), artifacts)),
               !["manifest"] = File(Manifest(This(digest), status, artifacts, Ported))]
    /\ Goto("verify")
    /\ UNCHANGED <<project, status, repaired, digest, work, sealed, edits, harm>>

\* The first half of finalizeManifest: licenses, SBOM, manifest.
Describe ==
    /\ pc = "describe"
    /\ LET artifacts == Listed(disk)
       IN  disk' = [disk EXCEPT
               !["licenses"] = File(Licenses(This(digest))),
               !["sbom"] = File(Sbom(This(digest), artifacts)),
               !["manifest"] = File(Manifest(This(digest), status, artifacts, Ported))]
    /\ Goto("index")
    /\ UNCHANGED <<project, status, repaired, digest, work, sealed, edits, harm>>

\* WriteIntegrity refuses every link.
WriteIntegrity ==
    /\ pc = "index"
    /\ IF Links(disk) # {} THEN Goto("error") /\ UNCHANGED disk
                           ELSE Goto("verify") /\ Write("index", Index(disk))
    /\ UNCHANGED <<project, status, repaired, digest, work, sealed, edits, harm>>

\* The strict verification of the staged set, after which the build needs its work
\* directory no more.
Verify ==
    /\ pc = "verify"
    /\ IF Valid(disk) THEN Goto("sealed") /\ sealed' = disk /\ work' = Absent
                      ELSE Goto("error") /\ UNCHANGED <<sealed, work>>
    /\ UNCHANGED <<project, status, repaired, digest, disk, edits, harm>>

\* The operating system refuses a step.
Fails ==
    /\ pc \notin {"sealed", "error"}
    /\ Goto("error")
    /\ UNCHANGED <<project, status, repaired, digest, work, disk, sealed, edits, harm>>

Build ==
    \/ Stage \/ Copy \/ Repair \/ Collect \/ Preserve \/ PreserveFails
    \/ Describe \/ WriteIntegrity \/ Verify \/ Fails

-----------------------------------------------------------------------------
\* The user edits the project, a file at a time, while the build is under way.
Edit ==
    /\ edits < MaxEdits /\ pc \notin {"sealed", "error"}
    /\ edits' = edits + 1
    /\ \/ \E v \in Versions \ {project.code} : project' = [project EXCEPT !.code = v]
       \/ \E v \in Versions \ {project.license} : project' = [project EXCEPT !.license = v]
       \/ project' = [project EXCEPT !.link = ~project.link]
    /\ UNCHANGED <<pc, status, repaired, digest, work, disk, sealed, harm>>

\* What the set of build b has at this path; no check compares the other files.
Foreign(b, path) ==
    LET app == [p \in {"app"} |-> Binary(b.project.code)]
    IN  CASE path = "analysis" -> Analysis(b)
          [] path = "plan"     -> Plan(b)
          [] path = "licenses" -> [format |-> "licenses", build |-> b,
                                   evidence |-> b.project.license]
          [] path = "sbom"     -> Sbom(b, app)
          [] path = "manifest" -> Manifest(b, "succeeded", app, FALSE)
          [] path = "app"      -> Binary(b.project.code)
          [] OTHER             -> Spoilt

\* One change to a sealed set: a file is spoilt, lost, comes from another set, is
\* moved and replaced by a link to where it went, or is new.
Change(p) ==
    \/ disk' = [disk EXCEPT ![p] = Absent] /\ Has(disk, p)
    \/ Write(p, Spoilt)
    \/ \E b \in Others(digest) : Write(p, Foreign(b, p))
    \/ /\ IsFile(disk, p) /\ ~Has(disk, "copy")
       /\ disk' = [disk EXCEPT !["copy"] = disk[p], ![p] = Link("copy")]

\* The index names the changed files now.
Reindex == Write("index", Index(disk))

Harm ==
    /\ pc = "sealed"
    /\ \/ harm < MaxHarm /\ harm' = harm + 1 /\ \E p \in Paths : Change(p)
       \/ harm > 0 /\ Reindex /\ UNCHANGED harm
    /\ UNCHANGED <<project, pc, status, repaired, digest, work, sealed, edits>>

Stopped == pc \in {"sealed", "error"} /\ UNCHANGED vars

Next == Build \/ Edit \/ Harm \/ Stopped

Spec == Init /\ [][Next]_vars

-----------------------------------------------------------------------------
\* Properties.

\* What a build has written passes its own verification, whatever its outcome
\* and however far a snapshot came: no file is written after it is hashed, and
\* none is left out of the index (builder.go:1826, verify staged artifact set).
HonestSetsPass == pc = "verify" => Valid(disk)

\* The file that build b has at this path: this build's is the sealed one.
FileOf(b, p) == IF b.earlier THEN File(Foreign(b, p)) ELSE sealed[p]

\* The builds whose file verification cannot tell from b's at this path: they are
\* compared by the project digest, the plan by the target only, the SBOM by both.
Alike(b, p) ==
    {c \in {This(digest)} \cup Others(digest) :
        /\ p # "plan" => c.project = b.project
        /\ p \in {"plan", "sbom"} => c.target = b.target}

\* Strict verification accepts, of all the sets that losses, spoilt files, moves
\* and files of other sets make of a sealed one, only the sealed one, as long as
\* its index is the one the build has written.  Whatever index it has, manifest and
\* artifacts are one build's; analysis, license report and SBOM are of the same
\* version of the project, plan and SBOM of the same target, but a plan may be
\* another version's (docs/adr/0006-verifiable-artifact-sets.md).
AcceptedIsSealed ==
    pc = "sealed" /\ Valid(disk) =>
        /\ disk["index"] = sealed["index"] => disk = sealed
        /\ \E b \in {This(digest)} \cup Others(digest) :
              /\ \A p \in {"manifest"} \cup DOMAIN ManifestOf(disk).artifacts :
                    disk[p] = FileOf(b, p)
              /\ \A p \in {"analysis", "plan", "licenses", "sbom"} :
                    \E c \in Alike(b, p) : disk[p] = FileOf(c, p)

\* The license evidence of a sealed set is that of the project its digest names,
\* not that of the workspace, where Codex may have changed it, unless the project
\* was edited during the build.
EvidenceIsOriginal ==
    pc = "sealed" /\ edits = 0 =>
        sealed["licenses"].content.evidence = ManifestOf(sealed).build.project.license
=============================================================================
