------------------------- MODULE ArtifactSetProofs -------------------------
(***************************************************************************)
(* Theorems about ArtifactSet for any versions of the files and any number *)
(* of edits and changes.  The first invariant (Inv) says what the build    *)
(* knows of the project its digest names, and what it has described of it. *)
(* The second one (Made) says what the build has written at each of its    *)
(* steps, and which objects the paths of a sealed set may hold afterwards; *)
(* strict verification is then a matter of that set alone (SoundIsValid,   *)
(* AcceptedByIndex, AcceptedIsAlike).                                      *)
(***************************************************************************)
EXTENDS ArtifactSet, TLAPS

\* Until the first edit the digest is that of the project.
Same == edits = 0 => digest = project

\* The set speaks of the project as it was found.
Describes(set) ==
    /\ IsFile(set, "licenses") /\ IsFile(set, "manifest")
    /\ edits = 0 => set["licenses"].content.evidence = set["manifest"].content.build.project.license

Inv ==
    /\ TypeOK
    /\ Same
    /\ pc \in {"index", "verify"} => Describes(disk)
    /\ pc = "sealed" => Describes(sealed)

-----------------------------------------------------------------------------
LEMMA Bounds == MaxEdits \in Nat /\ MaxHarm \in Nat
BY BoundsAssumption

\* A set that gets files stays a set.
LEMMA WriteTyped ==
    ASSUME NEW set, DOMAIN set = Paths, \A p \in Paths : set[p].kind \in {"absent", "file", "link"},
           NEW path \in Paths, NEW object, object.kind \in {"absent", "file", "link"}
    PROVE  LET s == [set EXCEPT ![path] = object]
           IN  DOMAIN s = Paths /\ \A p \in Paths : s[p].kind \in {"absent", "file", "link"}
OBVIOUS

LEMMA Kinds ==
    /\ Absent.kind = "absent"
    /\ \A content : File(content).kind = "file"
    /\ \A path : Link(path).kind = "link"
BY DEF Absent, File, Link

LEMMA InitInv == Init => Inv
<1> SUFFICES ASSUME Init PROVE Inv
  OBVIOUS
<1>1. 0 \in 0..MaxEdits /\ 0 \in 0..MaxHarm
  BY Bounds
<1>2. DOMAIN disk = Paths /\ \A p \in Paths : disk[p].kind \in {"absent", "file", "link"}
  BY Kinds DEF Init
<1>3. TypeOK
  BY <1>1, <1>2 DEF Init, TypeOK
<1> QED BY <1>3 DEF Init, Inv, Same

\* Every step of the build keeps the types, and describes what it has found.
LEMMA BuildInv ==
    ASSUME Inv, Build
    PROVE  Inv'
<1> USE Bounds, Kinds DEF Goto, Write, Inv, TypeOK, Same, Paths, Texts
<1>1. CASE Stage
  BY <1>1 DEF Stage
<1>2. CASE Copy
  BY <1>2 DEF Copy
<1>3. CASE Repair
  BY <1>3 DEF Repair
<1>4. CASE Collect
  BY <1>4 DEF Collect
<1>5. CASE Preserve
  BY <1>5 DEF Preserve
<1>6. CASE PreserveFails
  BY <1>6 DEF PreserveFails
<1>7. CASE Describe
  <2> DEFINE licenses == File(Licenses(This(digest)))
             sbom     == File(Sbom(This(digest), Listed(disk)))
             manifest == File(Manifest(This(digest), status, Listed(disk), Ported))
  <2>1. /\ disk' = [disk EXCEPT !["licenses"] = licenses, !["sbom"] = sbom,
                                !["manifest"] = manifest]
        /\ pc' = "index"
        /\ UNCHANGED <<project, status, repaired, digest, work, sealed, edits, harm>>
    BY <1>7 DEF Describe
  <2>2. /\ licenses.kind = "file" /\ sbom.kind = "file" /\ manifest.kind = "file"
        /\ licenses.content.evidence = project.license
        /\ manifest.content.build.project = digest
    BY DEF File, Licenses, Manifest, This
  <2> HIDE DEF licenses, sbom, manifest
  <2>3. Describes(disk)'
    BY <2>1, <2>2 DEF Describes, IsFile
  <2> QED BY <2>1, <2>2, <2>3
<1>8. CASE WriteIntegrity
  BY <1>8 DEF WriteIntegrity, Describes, IsFile
<1>9. CASE Verify
  BY <1>9 DEF Verify, Describes, IsFile
<1>10. CASE Fails
  BY <1>10 DEF Fails
<1> QED BY <1>1, <1>2, <1>3, <1>4, <1>5, <1>6, <1>7, <1>8, <1>9, <1>10 DEF Build

\* An edit ends what is promised of an unedited project; a change to a sealed set
\* does not reach back to what was sealed.
LEMMA OutsideInv ==
    ASSUME Inv, Edit \/ Harm
    PROVE  Inv'
<1> USE Bounds, Kinds DEF Inv, TypeOK, Same
<1>1. CASE Edit
  <2>1. project' \in Projects
    BY <1>1 DEF Edit, Projects
  <2>2. edits' \in 0..MaxEdits /\ edits' # 0
    BY <1>1 DEF Edit
  <2> QED BY <1>1, <2>1, <2>2 DEF Edit, Describes
<1>2. CASE Harm
  <2>1. harm' \in 0..MaxHarm
    BY <1>2 DEF Harm
  <2>2. DOMAIN disk' = Paths /\ \A p \in Paths : disk'[p].kind \in {"absent", "file", "link"}
    <3>1. ASSUME NEW p \in Paths, Change(p)
          PROVE  DOMAIN disk' = Paths /\ \A q \in Paths : disk'[q].kind \in {"absent", "file", "link"}
      <4>1. ASSUME NEW content, Write(p, content)
            PROVE  DOMAIN disk' = Paths /\ \A q \in Paths : disk'[q].kind \in {"absent", "file", "link"}
        BY <3>1, <4>1 DEF Write
      <4>2. CASE disk' = [disk EXCEPT ![p] = Absent]
        BY <3>1, <4>2
      <4>3. CASE disk' = [disk EXCEPT !["copy"] = disk[p], ![p] = Link("copy")]
        BY <3>1, <4>3 DEF Paths
      <4> QED BY <3>1, <4>1, <4>2, <4>3 DEF Change
    <3>2. CASE Reindex
      BY <3>2 DEF Reindex, Write, Paths
    <3> QED BY <1>2, <3>1, <3>2 DEF Harm
  <2> QED BY <1>2, <2>1, <2>2 DEF Harm, Describes
<1> QED BY <1>1, <1>2

LEMMA NextInv == Inv /\ [Next]_vars => Inv'
<1> SUFFICES ASSUME Inv, [Next]_vars PROVE Inv'
  OBVIOUS
<1>1. CASE Build \/ Edit \/ Harm
  BY <1>1, BuildInv, OutsideInv
<1>2. CASE UNCHANGED vars
  BY <1>2 DEF vars, Inv, TypeOK, Same, Describes, IsFile
<1> QED BY <1>1, <1>2 DEF Next, Stopped

\* The build and the changes to a sealed set keep every object a file, a link or
\* nothing, and stay within their bounds.
THEOREM TypeCorrect == Spec => []TypeOK
<1>1. Inv => TypeOK
  BY DEF Inv
<1> QED BY InitInv, NextInv, <1>1, PTL DEF Spec

\* The evidence in the license report of a sealed set is the license of the
\* project the manifest's digest names, whatever repairs have made of the
\* workspace (finalizeManifest scans the project, not the overlay).
THEOREM EvidenceOfProject == Spec => []EvidenceIsOriginal
<1>1. Inv => EvidenceIsOriginal
  BY DEF Inv, Describes, EvidenceIsOriginal, ManifestOf, Content, Resolved, IsFile
<1> QED BY InitInv, NextInv, <1>1, PTL DEF Spec

-----------------------------------------------------------------------------
\* The second invariant: what the build has written so far, and what has become
\* of a sealed set.

Object(o) ==
    \/ o = Absent
    \/ o.kind = "file" /\ o = File(o.content)
    \/ o.kind = "link" /\ o = Link(o.to)

Formed(set) == set = [p \in Paths |-> set[p]] /\ \A p \in Paths : Object(set[p])

Analysed(set) ==
    set["analysis"] = File(Analysis(This(digest))) /\ set["plan"] = File(Plan(This(digest)))

Logged(set) ==
    /\ set["log"] \in {File(Log(1)), File(Log(2))}
    /\ set["log"] = File(Log(2)) => IsFile(set, "ported")

Packed(set) ==
    set["app"] = Absent \/ (IsFile(set, "app") /\ set["app"].content.format = "binary")

\* Licenses, SBOM and manifest speak of this build and of the artifact.
Told(set) ==
    LET licenses == set["licenses"].content
        sbom == set["sbom"].content
        manifest == set["manifest"].content
    IN  /\ IsFile(set, "licenses") /\ IsFile(set, "sbom") /\ IsFile(set, "manifest")
        /\ licenses.format = "licenses" /\ licenses.build = This(digest)
        /\ sbom.format = "sbom" /\ sbom.build = This(digest)
        /\ sbom.files = Listed(set)
        /\ manifest.format = "manifest" /\ manifest.build = This(digest)
        /\ manifest.artifacts = Listed(set)
        /\ manifest.ported => IsFile(set, "ported")
        /\ manifest.index

Whole(set) == Links(set) = {} /\ set["index"] = File(Index(set))

Sound(set) == Analysed(set) /\ Logged(set) /\ Packed(set) /\ Told(set) /\ Whole(set)

\* What a path of a sealed set may hold after any changes.
Remnants(p) ==
    {sealed[p], Absent, File(Spoilt), Link("copy")}
    \cup {File(Foreign(b, p)) : b \in Others(digest)}

Made ==
    /\ Formed(disk) /\ Formed(sealed)
    /\ pc \notin {"stage", "sealed", "error"} => Analysed(disk)
    /\ pc \in {"collect", "preserve", "describe", "index", "verify"} => Logged(disk)
    /\ pc \notin {"sealed", "error"} => Packed(disk)
    /\ pc \in {"index", "verify"} => Told(disk)
    /\ pc = "verify" => Whole(disk)
    /\ pc = "sealed" => Sound(sealed)
    /\ pc = "sealed" => \A p \in Paths \ {"index", "copy"} : disk[p] \in Remnants(p)

-----------------------------------------------------------------------------
\* Objects, and sets that are written to.
LEMMA Objects ==
    /\ Object(Absent)
    /\ \A content : Object(File(content)) /\ File(content).content = content
    /\ \A path : Object(Link(path))
    /\ \A path : Link(path) # Absent
BY DEF Object, File, Link, Absent

LEMMA NotLinked ==
    ASSUME NEW set, NEW path, set[path].kind # "link"
    PROVE  /\ Content(set, path) = set[path].content
           /\ Readable(set, path) <=> IsFile(set, path)
BY DEF Content, Readable, Resolved

LEMMA Logs == File(Log(1)) # File(Log(2))
BY DEF File, Log

\* The artifacts of a set are a matter of "app" alone.
LEMMA ListedIs ==
    ASSUME NEW set, Packed(set)
    PROVE  /\ DOMAIN Listed(set) = IF set["app"] = Absent THEN {} ELSE {"app"}
           /\ set["app"] # Absent => Listed(set)["app"] = set["app"].content
           /\ Listed(set) = [path \in DOMAIN Listed(set) |-> set["app"].content]
<1>1. Has(set, "app") <=> set["app"] # Absent
  BY Kinds DEF Packed, Has, IsFile
<1>2. Content(set, "app") = set["app"].content
  BY NotLinked, Kinds DEF Packed, IsFile
<1> QED BY <1>1, <1>2 DEF Listed

LEMMA ListedSame ==
    ASSUME NEW set, NEW other, Packed(set), other["app"] = set["app"]
    PROVE  Packed(other) /\ Listed(other) = Listed(set)
<1>1. Packed(other)
  BY DEF Packed, IsFile
<1>2. DOMAIN Listed(other) = DOMAIN Listed(set)
  BY <1>1, ListedIs
<1> QED BY <1>1, <1>2, ListedIs

\* A set the build has completed passes the strict verification.
LEMMA SoundIsValid ==
    ASSUME NEW set, Formed(set), Sound(set)
    PROVE  Valid(set)
<1>1. \A p \in Paths : set[p].kind # "link"
  BY DEF Sound, Whole, Links
<1>2. \A p \in Paths : /\ Content(set, p) = set[p].content
                       /\ Readable(set, p) <=> IsFile(set, p)
  BY <1>1, NotLinked
<1>3. /\ IsFile(set, "analysis") /\ set["analysis"].content = Analysis(This(digest))
      /\ IsFile(set, "plan") /\ set["plan"].content = Plan(This(digest))
      /\ IsFile(set, "log")
      /\ IsFile(set, "index") /\ set["index"].content = Index(set)
  BY Kinds, Objects DEF Sound, Analysed, Logged, Whole, IsFile
<1>4. Told(set) /\ Packed(set) /\ Links(set) = {}
  BY DEF Sound, Whole
<1>5. ManifestOf(set) = set["manifest"].content
  BY <1>2 DEF ManifestOf, Paths, Texts
<1>6. Parses(set, "manifest", "manifest")
  BY <1>2, <1>4 DEF Told, Parses, Paths, Texts
<1>7. DescribesBuild(set)
  <2>1. Readable(set, "log")
    BY <1>2, <1>3 DEF Paths, Texts
  <2>2. /\ Parses(set, "analysis", "analysis")
        /\ Content(set, "analysis").build.project = ManifestOf(set).build.project
    BY <1>2, <1>3, <1>4, <1>5 DEF Told, Parses, Analysis, Paths, Texts
  <2>3. /\ Parses(set, "plan", "plan")
        /\ Content(set, "plan").build.target = ManifestOf(set).build.target
    BY <1>2, <1>3, <1>4, <1>5 DEF Told, Parses, Plan, Paths, Texts
  <2>4. /\ Parses(set, "licenses", "licenses")
        /\ Content(set, "licenses").build.project = ManifestOf(set).build.project
    BY <1>2, <1>4, <1>5 DEF Told, Parses, Paths, Texts
  <2>5. /\ Parses(set, "sbom", "sbom")
        /\ Content(set, "sbom").build.project = ManifestOf(set).build.project
        /\ Content(set, "sbom").build.target = ManifestOf(set).build.target
        /\ Content(set, "sbom").files = ManifestOf(set).artifacts
    BY <1>2, <1>4, <1>5 DEF Told, Parses, Paths, Texts
  <2> QED BY <2>1, <2>2, <2>3, <2>4, <2>5 DEF DescribesBuild
<1>8. HoldsArtifacts(set)
  <2> SUFFICES ASSUME NEW p \in DOMAIN ManifestOf(set).artifacts
               PROVE  /\ Parses(set, p, "binary")
                      /\ Content(set, p) = ManifestOf(set).artifacts[p]
    BY DEF HoldsArtifacts
  <2>1. ManifestOf(set).artifacts = Listed(set)
    BY <1>4, <1>5 DEF Told
  <2>2. p = "app" /\ set["app"] # Absent
    BY <1>4, <2>1, ListedIs
  <2> QED BY <1>2, <1>4, <2>1, <2>2, ListedIs DEF Packed, Parses, Paths, Texts
<1>9. HoldsPort(set)
  BY <1>4, <1>5 DEF HoldsPort, Told, Has, IsFile
<1>10. MatchesIndex(set)
  <2>1. Parses(set, "index", "index") /\ Content(set, "index").entries = Entries(set)
    BY <1>2, <1>3 DEF Parses, Index, Paths, Texts
  <2>2. ManifestOf(set).index
    BY <1>4, <1>5 DEF Told
  <2>3. DOMAIN Entries(set) = Indexed(set)
        /\ \A p \in Indexed(set) : Entries(set)[p] = set[p].content
    BY DEF Entries
  <2>4. \A p \in Indexed(set) : p \in Paths /\ IsFile(set, p)
    BY DEF Indexed
  <2> QED BY <1>2, <2>1, <2>2, <2>3, <2>4 DEF MatchesIndex
<1> QED BY <1>4, <1>6, <1>7, <1>8, <1>9, <1>10 DEF Valid

-----------------------------------------------------------------------------
\* Every step of the build writes what it says it writes.
LEMMA BuildMade ==
    ASSUME TypeOK, Made, Build
    PROVE  Made'
<1> USE DEF Goto, Write
<1>1. CASE Stage
  <2>1. PICK dry \in BOOLEAN :
            /\ disk' = [disk EXCEPT !["analysis"] = File(Analysis(This(project))),
                                    !["plan"] = File(Plan(This(project))),
                                    !["log"] = IF dry THEN File(Log(1)) ELSE Absent]
            /\ pc' = IF dry THEN "describe" ELSE "copy"
    BY <1>1 DEF Stage
  <2>2. digest' = project /\ sealed' = sealed /\ Formed(disk) /\ Packed(disk)
    BY <1>1 DEF Stage, Made
  <2>3. Formed(disk')
    BY <2>1, <2>2, Objects DEF Formed
  <2>4. /\ disk'["analysis"] = File(Analysis(This(project))) /\ disk'["plan"] = File(Plan(This(project)))
        /\ disk'["app"] = disk["app"]
        /\ dry => disk'["log"] = File(Log(1))
    BY <2>1, <2>2 DEF Formed, Paths, Texts
  <2>5. Analysed(disk)' /\ Packed(disk')
    BY <2>2, <2>4, ListedSame DEF Analysed
  <2>6. dry => Logged(disk')
    BY <2>4, Logs DEF Logged
  <2> QED BY <2>1, <2>2, <2>3, <2>5, <2>6 DEF Made, Packed, Logged, IsFile, Formed
<1>2. CASE Copy
  BY <1>2 DEF Copy, Made, Formed, Analysed, Packed, IsFile
<1>3. CASE Repair
  <2>1. /\ disk' = [disk EXCEPT !["log"] = File(Log(1))]
        /\ pc = "repair" /\ pc' \in {"collect", "preserve"}
        /\ UNCHANGED <<digest, sealed>>
    BY <1>3 DEF Repair
  <2>2. Formed(disk) /\ Packed(disk) /\ Analysed(disk) /\ Formed(sealed)
    BY <2>1 DEF Made
  <2>3. /\ Formed(disk') /\ disk'["log"] = File(Log(1))
        /\ \A p \in Paths \ {"log"} : disk'[p] = disk[p]
    BY <2>1, <2>2, Objects DEF Formed, Paths, Texts
  <2>4. Packed(disk') /\ Analysed(disk)' /\ Logged(disk')
    BY <2>1, <2>2, <2>3, ListedSame, Logs DEF Analysed, Logged, Paths, Texts
  <2> QED BY <2>1, <2>2, <2>3, <2>4 DEF Made, Packed, Logged, IsFile, Formed
<1>4. CASE Collect
  <2>1. /\ disk' = [disk EXCEPT !["app"] = File(Binary(work.code))]
        /\ pc = "collect" /\ pc' = "preserve"
        /\ UNCHANGED <<digest, sealed>>
    BY <1>4 DEF Collect
  <2>2. Formed(disk) /\ Logged(disk) /\ Analysed(disk) /\ Formed(sealed)
    BY <2>1 DEF Made
  <2>3. /\ Formed(disk') /\ disk'["app"] = File(Binary(work.code))
        /\ \A p \in Paths \ {"app"} : disk'[p] = disk[p]
    BY <2>1, <2>2, Objects DEF Formed, Paths
  <2>4. Packed(disk')
    BY <2>3, Kinds, Objects DEF Packed, IsFile, Binary
  <2>5. Analysed(disk)' /\ Logged(disk')
    BY <2>1, <2>2, <2>3 DEF Analysed, Logged, IsFile, Paths, Texts
  <2> QED BY <2>1, <2>2, <2>3, <2>4, <2>5 DEF Made, Packed, Logged, IsFile, Formed
<1>5. CASE Preserve \/ PreserveFails
  <2>1. /\ pc = "preserve" /\ pc' \in {"describe", "error"}
        /\ UNCHANGED <<digest, sealed>>
    BY <1>5 DEF Preserve, PreserveFails
  <2>2. Formed(disk) /\ Packed(disk) /\ Logged(disk) /\ Analysed(disk) /\ Formed(sealed)
    BY <2>1 DEF Made
  <2>3. /\ Formed(disk') /\ Logged(disk')
        /\ \A p \in Paths \ {"ported", "alias", "log"} : disk'[p] = disk[p]
    <3>1. CASE UNCHANGED disk
      BY <2>2, <3>1
    <3>2. CASE disk' = [disk EXCEPT !["ported"] = File(Source(work))]
      <4>1. /\ Formed(disk') /\ disk'["ported"] = File(Source(work))
            /\ \A p \in Paths \ {"ported"} : disk'[p] = disk[p]
        BY <2>2, <3>2, Objects DEF Formed, Paths
      <4>2. Logged(disk')
        BY <2>2, <4>1, Kinds DEF Logged, IsFile, Paths, Texts
      <4> QED BY <4>1, <4>2
    <3>3. CASE disk' = [disk EXCEPT
                     !["ported"] = File(Source(work)),
                     !["alias"] = IF work.link THEN Link("ported") ELSE Absent,
                     !["log"] = File(Log(2))]
      <4>1. Formed(disk')
        BY <2>2, <3>3, Objects DEF Formed
      <4>2. /\ disk'["ported"] = File(Source(work)) /\ disk'["log"] = File(Log(2))
            /\ \A p \in Paths \ {"ported", "alias", "log"} : disk'[p] = disk[p]
        BY <2>2, <3>3 DEF Formed, Paths, Texts
      <4> QED BY <4>1, <4>2, Kinds DEF Logged, IsFile
    <3> QED BY <1>5, <3>1, <3>2, <3>3 DEF Preserve, PreserveFails
  <2>4. Packed(disk') /\ Analysed(disk)'
    BY <2>1, <2>2, <2>3, ListedSame DEF Analysed, Paths, Texts
  <2> QED BY <2>1, <2>2, <2>3, <2>4 DEF Made, Packed, Logged, IsFile, Formed
<1>6. CASE Describe
  <2> DEFINE artifacts == Listed(disk)
  <2>1. PICK licenses, sbom, manifest :
            /\ disk' = [disk EXCEPT !["licenses"] = File(licenses),
                                    !["sbom"] = File(sbom),
                                    !["manifest"] = File(manifest)]
            /\ licenses = Licenses(This(digest)) /\ sbom = Sbom(This(digest), artifacts)
            /\ manifest = Manifest(This(digest), status, artifacts, Ported)
    BY <1>6 DEF Describe
  <2>2. /\ pc = "describe" /\ pc' = "index" /\ UNCHANGED <<digest, sealed>>
    BY <1>6 DEF Describe
  <2>3. Formed(disk) /\ Packed(disk) /\ Logged(disk) /\ Analysed(disk) /\ Formed(sealed)
    BY <2>2 DEF Made
  <2>4. licenses.format = "licenses" /\ licenses.build = This(digest)
    BY <2>1 DEF Licenses
  <2>5. /\ sbom.format = "sbom" /\ sbom.build = This(digest)
        /\ sbom.files = artifacts
    BY <2>1 DEF Sbom
  <2>6. /\ manifest.format = "manifest" /\ manifest.build = This(digest)
        /\ manifest.artifacts = artifacts
        /\ manifest.index
    BY <2>1 DEF Manifest
  <2>7. manifest.ported => IsFile(disk, "ported")
    <3>1. manifest.ported <=> Ported
      BY <2>1 DEF Manifest, Ported
    <3> QED BY <2>3, <3>1 DEF Logged, Ported
  <2>8. Formed(disk')
    BY <2>1, <2>3, Objects DEF Formed
  <2>9. /\ disk'["licenses"] = File(licenses) /\ disk'["sbom"] = File(sbom)
        /\ disk'["manifest"] = File(manifest)
        /\ \A p \in Paths \ {"licenses", "sbom", "manifest"} : disk'[p] = disk[p]
    BY <2>1, <2>3 DEF Formed, Paths, Texts
  <2>10. Packed(disk') /\ Listed(disk') = artifacts
    BY <2>3, <2>9, ListedSame DEF Paths, Texts
  <2>11. Analysed(disk)' /\ Logged(disk') /\ (IsFile(disk, "ported") => IsFile(disk', "ported"))
    BY <2>2, <2>3, <2>9 DEF Analysed, Logged, IsFile, Paths, Texts
  <2> HIDE DEF artifacts
  <2>12. Told(disk)'
    <3>1. /\ IsFile(disk', "licenses") /\ disk'["licenses"].content = licenses
          /\ IsFile(disk', "sbom") /\ disk'["sbom"].content = sbom
          /\ IsFile(disk', "manifest") /\ disk'["manifest"].content = manifest
      BY <2>9, Kinds, Objects DEF IsFile
    <3> QED
      BY <2>2, <2>4, <2>5, <2>6, <2>7, <2>10, <2>11, <3>1 DEF Told, IsFile, Listed, Has, Content, Resolved
  <2> QED BY <2>2, <2>3, <2>8, <2>10, <2>11, <2>12 DEF Made, Packed, Logged, IsFile, Formed
<1>7. CASE WriteIntegrity
  <2>1. pc = "index" /\ UNCHANGED <<digest, sealed>>
    BY <1>7 DEF WriteIntegrity
  <2>2. /\ Formed(disk) /\ Packed(disk) /\ Logged(disk) /\ Analysed(disk) /\ Told(disk)
        /\ Formed(sealed)
    BY <2>1 DEF Made
  <2>3. CASE pc' = "error" /\ UNCHANGED disk
    BY <2>1, <2>2, <2>3 DEF Made, Formed
  <2>4. CASE /\ Links(disk) = {} /\ pc' = "verify"
             /\ disk' = [disk EXCEPT !["index"] = File(Index(disk))]
    <3>1. /\ Formed(disk') /\ disk'["index"] = File(Index(disk))
          /\ \A p \in Paths \ {"index"} : disk'[p] = disk[p]
      BY <2>2, <2>4, Objects DEF Formed, Paths
    <3>2. Index(disk') = Index(disk)
      <4>1. Indexed(disk') = Indexed(disk)
        BY <3>1 DEF Indexed, IsFile
      <4> QED BY <3>1, <4>1 DEF Index, Entries, Indexed
    <3>3. Links(disk') = {}
      BY <2>4, <3>1, Kinds DEF Links
    <3>4. Packed(disk') /\ Listed(disk') = Listed(disk)
      BY <2>2, <3>1, ListedSame DEF Paths
    <3>5. Analysed(disk)' /\ Logged(disk')
      BY <2>1, <2>2, <3>1 DEF Analysed, Logged, IsFile, Paths, Texts
    <3>6. Told(disk)'
      BY <2>1, <2>2, <3>1, <3>4 DEF Told, IsFile, Paths, Texts, Listed, Has, Content, Resolved
    <3>7. Whole(disk')
      BY <3>1, <3>2, <3>3 DEF Whole
    <3> QED BY <2>1, <2>2, <2>4, <3>1, <3>4, <3>5, <3>6, <3>7
            DEF Made, Packed, Logged, IsFile, Formed, Whole, Links, Index, Entries, Indexed
  <2> QED BY <1>7, <2>3, <2>4 DEF WriteIntegrity
<1>8. CASE Verify
  <2>1. pc = "verify" /\ UNCHANGED <<digest, disk>>
    BY <1>8 DEF Verify
  <2>2. /\ Formed(disk) /\ Formed(sealed) /\ Sound(disk)
    BY <2>1 DEF Made, Sound
  <2>3. CASE pc' = "sealed" /\ sealed' = disk
    <3>1. Sound(sealed)'
      BY <2>1, <2>2, <2>3 DEF Sound, Analysed, Logged, Packed, Told, Whole, Links,
            Index, Entries, Indexed, IsFile, Listed, Has, Content, Resolved
    <3> QED BY <2>1, <2>2, <2>3, <3>1 DEF Made, Formed, Remnants
  <2>4. CASE pc' = "error" /\ UNCHANGED sealed
    BY <2>1, <2>2, <2>4 DEF Made, Formed
  <2> QED BY <1>8, <2>3, <2>4 DEF Verify
<1>9. CASE Fails
  BY <1>9 DEF Fails, Made, Formed
<1> QED BY <1>1, <1>2, <1>3, <1>4, <1>5, <1>6, <1>7, <1>8, <1>9 DEF Build

\* Changes to a sealed set leave the set as it was sealed alone, and put at every
\* path what Change names.
LEMMA OutsideMade ==
    ASSUME TypeOK, Made, Edit \/ Harm \/ UNCHANGED vars
    PROVE  Made'
<1>1. CASE Edit \/ UNCHANGED vars
  <2>1. UNCHANGED <<pc, digest, disk, sealed>>
    BY <1>1 DEF Edit, vars
  <2>2. \A p : Remnants(p)' = Remnants(p)
    BY <2>1 DEF Remnants, Foreign
  <2>3. /\ Formed(disk') /\ Formed(sealed')
        /\ Analysed(disk)' <=> Analysed(disk)
        /\ Logged(disk)' <=> Logged(disk)
        /\ Packed(disk)' <=> Packed(disk)
        /\ Whole(disk)' <=> Whole(disk)
    BY <2>1 DEF Made, Formed, Analysed, Logged, Packed, Whole, Links, Index, Entries,
       Indexed, IsFile
  <2>4. Told(disk)' <=> Told(disk)
    BY <2>1 DEF Told, IsFile, Listed, Has, Content, Resolved
  <2>5. Sound(sealed)' <=> Sound(sealed)
    BY <2>1 DEF Sound, Analysed, Logged, Packed, Told, Whole, Links, Index, Entries,
       Indexed, IsFile, Listed, Has, Content, Resolved
  <2> QED BY <2>1, <2>2, <2>3, <2>4, <2>5 DEF Made, Formed
<1>2. CASE Harm
  <2>1. pc = "sealed" /\ UNCHANGED <<pc, digest, sealed>>
    BY <1>2 DEF Harm
  <2>2. /\ Formed(disk) /\ Formed(sealed) /\ Sound(sealed)
        /\ \A q \in Paths \ {"index", "copy"} : disk[q] \in Remnants(q)
    BY <2>1 DEF Made
  <2>3. Sound(sealed)' /\ \A q : Remnants(q)' = Remnants(q)
    BY <2>1, <2>2 DEF Sound, Analysed, Logged, Packed, Told, Whole, Links, Index,
       Entries, Indexed, IsFile, Listed, Has, Content, Resolved, Remnants, Foreign
  <2>4. /\ Formed(disk')
        /\ \A q \in Paths \ {"index", "copy"} : disk'[q] = disk[q] \/ disk'[q] \in Remnants(q)
    <3>1. ASSUME NEW p \in Paths, Change(p)
          PROVE  /\ Formed(disk')
                 /\ \A q \in Paths \ {"index", "copy"} :
                        disk'[q] = disk[q] \/ disk'[q] \in Remnants(q)
      <4>1. CASE disk' = [disk EXCEPT ![p] = Absent]
        BY <2>2, <4>1, Objects DEF Formed, Remnants
      <4>2. CASE Write(p, Spoilt)
        BY <2>2, <4>2, Objects DEF Write, Formed, Remnants
      <4>3. ASSUME NEW b \in Others(digest), Write(p, Foreign(b, p))
            PROVE  /\ Formed(disk')
                   /\ \A q \in Paths \ {"index", "copy"} :
                          disk'[q] = disk[q] \/ disk'[q] \in Remnants(q)
        <5>1. disk' = [disk EXCEPT ![p] = File(Foreign(b, p))]
          BY <4>3 DEF Write
        <5>2. File(Foreign(b, p)) \in Remnants(p)
          BY <4>3 DEF Remnants
        <5> QED BY <2>2, <5>1, <5>2, Objects DEF Formed
      <4>4. CASE disk' = [disk EXCEPT !["copy"] = disk[p], ![p] = Link("copy")]
        BY <2>2, <4>4, Objects DEF Formed, Remnants
      <4> QED BY <3>1, <4>1, <4>2, <4>3, <4>4 DEF Change
    <3>2. CASE Reindex
      BY <2>2, <3>2, Objects DEF Reindex, Write, Formed
    <3> QED BY <1>2, <3>1, <3>2 DEF Harm
  <2>5. \A q \in Paths \ {"index", "copy"} : disk'[q] \in Remnants(q)'
    BY <2>2, <2>3, <2>4
  <2>6. Formed(sealed')
    BY <2>1, <2>2
  <2> QED BY <2>1, <2>3, <2>4, <2>5, <2>6 DEF Made, Formed
<1> QED BY <1>1, <1>2

LEMMA MadeAlways == Spec => [](Inv /\ Made)
<1>1. Init => Made
  <2> SUFFICES ASSUME Init PROVE Made
    OBVIOUS
  <2>1. Formed(disk) /\ Formed(sealed)
    BY Objects DEF Init, Formed
  <2>2. Packed(disk)
    BY DEF Init, Packed, Paths
  <2> QED BY <2>1, <2>2 DEF Init, Made
<1>2. Inv /\ Made /\ [Next]_vars => Made'
  BY BuildMade, OutsideMade DEF Inv, Next, Stopped
<1> QED BY InitInv, NextInv, <1>1, <1>2, PTL DEF Spec

\* finalizeManifest never seals a set it does not accept, and never fails on one of
\* its own: the files are described, then indexed, then verified, in that order.
THEOREM HonestSetsAccepted == Spec => []HonestSetsPass
<1>1. Made => HonestSetsPass
  BY SoundIsValid DEF Made, Sound, HonestSetsPass
<1> QED BY MadeAlways, <1>1, PTL

-----------------------------------------------------------------------------
\* What the files of other sets say.
LEMMA ForeignIs ==
    ASSUME NEW b \in Others(digest)
    PROVE  /\ b.earlier /\ \A p \in {"analysis", "plan", "licenses", "sbom", "manifest"} :
                               Foreign(b, p).build = b
           /\ Foreign(b, "manifest").artifacts = [p \in {"app"} |-> Foreign(b, "app")]
BY DEF Foreign, Analysis, Plan, Sbom, Manifest, Others

LEMMA ThisIs ==
    This(digest).project = digest /\ This(digest).target = "own" /\ ~This(digest).earlier
BY DEF This

Described == {"analysis", "plan", "licenses", "sbom", "manifest"}

Origins == {This(digest)} \cup Others(digest)

\* An accepted set holds no link, and files of a sealed or of a foreign set at the
\* paths that describe it.
LEMMA AcceptedFiles ==
    ASSUME TypeOK, Made, pc = "sealed", Valid(disk)
    PROVE  /\ \A p \in Paths : /\ disk[p].kind # "link" /\ sealed[p].kind # "link"
                               /\ Content(disk, p) = disk[p].content
                               /\ Content(sealed, p) = sealed[p].content
                               /\ Readable(disk, p) <=> IsFile(disk, p)
           /\ \A p \in Described : \E b \in Origins : disk[p] = FileOf(b, p)
<1>1. \A p \in Paths : disk[p].kind # "link" /\ sealed[p].kind # "link"
  BY DEF Valid, Made, Sound, Whole, Links
<1>2. \A p \in Paths : /\ Content(disk, p) = disk[p].content
                       /\ Content(sealed, p) = sealed[p].content
                       /\ Readable(disk, p) <=> IsFile(disk, p)
  BY <1>1, NotLinked
<1>3. ASSUME NEW p \in Described PROVE \E b \in Origins : disk[p] = FileOf(b, p)
  <2>1. p \in Paths \ {"index", "copy"}
    BY DEF Described, Paths, Texts
  <2>2. disk[p] \in Remnants(p)
    BY <2>1 DEF Made
  <2>3. Parses(disk, p, p)
    BY DEF Described, Valid, DescribesBuild
  <2>4. disk[p].kind = "file" /\ disk[p].content.format = p
    BY <1>2, <2>1, <2>3 DEF Parses, IsFile
  <2>5. disk[p] # Absent /\ disk[p] # Link("copy")
    BY <2>4, Kinds
  <2>6. disk[p] # File(Spoilt)
    BY <2>4, Objects DEF Spoilt, Described
  <2>7. CASE disk[p] = sealed[p]
    BY <2>7, ThisIs DEF Origins, FileOf
  <2>8. ASSUME NEW b \in Others(digest), disk[p] = File(Foreign(b, p))
        PROVE  \E c \in Origins : disk[p] = FileOf(c, p)
    BY <2>8, ForeignIs DEF Origins, FileOf
  <2> QED BY <2>2, <2>5, <2>6, <2>7, <2>8 DEF Remnants
<1> QED BY <1>1, <1>2, <1>3

\* With the index the build has written, every file is the one it wrote.
LEMMA AcceptedByIndex ==
    ASSUME TypeOK, Made, pc = "sealed", Valid(disk), disk["index"] = sealed["index"]
    PROVE  disk = sealed
<1>1. /\ Formed(disk) /\ Formed(sealed)
      /\ sealed["index"] = File(Index(sealed))
  BY DEF Made, Sound, Whole
<1>2. \A p \in Paths : /\ disk[p].kind # "link" /\ sealed[p].kind # "link"
                       /\ Content(disk, p) = disk[p].content
                       /\ Readable(disk, p) <=> IsFile(disk, p)
  BY AcceptedFiles
<1>3. Content(disk, "index").entries = Entries(sealed)
  BY <1>1, <1>2, Objects DEF Index, Paths, Texts
<1>4. /\ DOMAIN Entries(sealed) = Indexed(sealed)
      /\ \A p \in Indexed(sealed) : Entries(sealed)[p] = sealed[p].content
  BY DEF Entries
<1>5. /\ \A p \in Indexed(sealed) : Readable(disk, p) /\ Content(disk, p) = sealed[p].content
      /\ Indexed(disk) \subseteq Indexed(sealed)
  BY <1>3, <1>4 DEF Valid, MatchesIndex
<1>6. ASSUME NEW p \in Paths PROVE disk[p] = sealed[p]
  <2>1. CASE p = "index"
    BY <2>1
  <2>2. CASE p \in Indexed(sealed)
    <3>1. disk[p].kind = "file" /\ sealed[p].kind = "file" /\ disk[p].content = sealed[p].content
      BY <1>2, <1>5, <2>2 DEF Indexed, IsFile
    <3>2. disk[p] = File(disk[p].content) /\ sealed[p] = File(sealed[p].content)
      BY <1>1, <3>1, Kinds DEF Formed, Object
    <3> QED BY <3>1, <3>2
  <2>3. CASE p # "index" /\ p \notin Indexed(sealed)
    <3>1. sealed[p].kind # "file" /\ disk[p].kind # "file"
      BY <1>5, <2>3 DEF Indexed, IsFile
    <3>2. sealed[p] = Absent /\ disk[p] = Absent
      BY <1>1, <1>2, <3>1 DEF Formed, Object
    <3> QED BY <3>2
  <2> QED BY <2>1, <2>2, <2>3
<1> QED BY <1>1, <1>6 DEF Formed

\* A described file says which build it is of.
LEMMA SpeaksOfBuild ==
    ASSUME Made, pc = "sealed", NEW p \in Described, NEW b \in Origins,
           disk[p] = FileOf(b, p)
    PROVE  disk[p].content.build = b
<1>1. CASE b = This(digest)
  <2>1. disk[p] = sealed[p]
    BY <1>1, ThisIs DEF FileOf
  <2>2. Analysed(sealed) /\ Told(sealed)
    BY DEF Made, Sound
  <2> QED BY <1>1, <2>1, <2>2, Objects DEF Described, Analysed, Told, Analysis, Plan
<1>2. CASE b \in Others(digest)
  BY <1>2, ForeignIs, Objects DEF FileOf, Described
<1> QED BY <1>1, <1>2 DEF Origins

\* Whatever index it has, the artifacts are those of the manifest's build, and what
\* describes them is of a build that is alike.
LEMMA AcceptedIsAlike ==
    ASSUME TypeOK, Made, pc = "sealed", Valid(disk)
    PROVE  \E b \in Origins :
              /\ \A p \in {"manifest"} \cup DOMAIN ManifestOf(disk).artifacts :
                    disk[p] = FileOf(b, p)
              /\ \A p \in {"analysis", "plan", "licenses", "sbom"} :
                    \E c \in Alike(b, p) : disk[p] = FileOf(c, p)
<1>1. \A p \in Paths : /\ Content(disk, p) = disk[p].content
                       /\ Content(sealed, p) = sealed[p].content
                       /\ Readable(disk, p) <=> IsFile(disk, p)
  BY AcceptedFiles
<1>2. \A p \in Described : \E b \in Origins :
        disk[p] = FileOf(b, p) /\ disk[p].content.build = b
  BY AcceptedFiles, SpeaksOfBuild
<1>3. PICK b \in Origins : disk["manifest"] = FileOf(b, "manifest")
                          /\ disk["manifest"].content.build = b
  BY <1>2 DEF Described
<1>4. ManifestOf(disk) = disk["manifest"].content
  BY <1>1 DEF ManifestOf, Paths, Texts
<1>5. /\ disk["analysis"].content.build.project = b.project
      /\ disk["plan"].content.build.target = b.target
      /\ disk["licenses"].content.build.project = b.project
      /\ disk["sbom"].content.build.project = b.project
      /\ disk["sbom"].content.build.target = b.target
  BY <1>1, <1>3, <1>4 DEF Valid, DescribesBuild, Paths, Texts
<1>6. ASSUME NEW p \in {"analysis", "plan", "licenses", "sbom"}
      PROVE  \E c \in Alike(b, p) : disk[p] = FileOf(c, p)
  <2>1. PICK c \in Origins : disk[p] = FileOf(c, p) /\ disk[p].content.build = c
    BY <1>2 DEF Described
  <2>2. c \in Alike(b, p)
    BY <1>5, <2>1 DEF Alike, Origins
  <2> QED BY <2>1, <2>2
<1>7. ASSUME NEW p \in DOMAIN ManifestOf(disk).artifacts
      PROVE  disk[p] = FileOf(b, p)
  <2>1. Analysed(sealed) /\ Packed(sealed) /\ Told(sealed) /\ Formed(disk) /\ Formed(sealed)
    BY DEF Made, Sound
  <2>2. Parses(disk, p, "binary") /\ Content(disk, p) = ManifestOf(disk).artifacts[p]
    BY DEF Valid, HoldsArtifacts
  <2>3. CASE b = This(digest)
    <3>1. disk["manifest"] = sealed["manifest"]
      BY <1>3, <2>3, ThisIs DEF FileOf
    <3>2. ManifestOf(disk).artifacts = Listed(sealed)
      BY <1>4, <2>1, <3>1 DEF Told
    <3>3. p = "app" /\ sealed["app"] # Absent /\ Listed(sealed)["app"] = sealed["app"].content
      BY <2>1, <3>2, ListedIs
    <3>4. disk["app"].kind = "file" /\ disk["app"].content = sealed["app"].content
      BY <1>1, <2>2, <3>2, <3>3 DEF Parses, IsFile, Paths
    <3>5. disk["app"] = File(disk["app"].content) /\ sealed["app"] = File(sealed["app"].content)
      BY <2>1, <3>3, <3>4, Kinds DEF Packed, IsFile, Formed, Object, Paths
    <3> QED BY <2>3, <3>3, <3>4, <3>5, ThisIs DEF FileOf
  <2>4. CASE b \in Others(digest)
    <3>1. disk["manifest"] = File(Foreign(b, "manifest"))
      BY <1>3, <2>4, ForeignIs DEF FileOf
    <3>0. ManifestOf(disk) = Foreign(b, "manifest")
      BY <1>4, <3>1, Objects
    <3>2. ManifestOf(disk).artifacts = [q \in {"app"} |-> Foreign(b, "app")]
      BY <2>4, <3>0, ForeignIs
    <3>3. p = "app" /\ disk["app"].kind = "file" /\ disk["app"].content = Foreign(b, "app")
      BY <1>1, <2>2, <3>2 DEF Parses, IsFile, Paths
    <3>4. disk["app"] = File(Foreign(b, "app"))
      BY <2>1, <3>3, Kinds DEF Formed, Object, Paths
    <3> QED BY <2>4, <3>3, <3>4, ForeignIs DEF FileOf
  <2> QED BY <2>3, <2>4 DEF Origins
<1> QED BY <1>3, <1>6, <1>7

\* Strict verification (internal/verify) tells a sealed set from all that losses,
\* spoilt files, moves and files of other sets make of it, by the index the build has
\* written; under any other index it keeps manifest and artifacts together, and beside
\* them what has the same digest or target.
THEOREM AcceptedOnlySealed == Spec => []AcceptedIsSealed
<1>1. Inv /\ Made => AcceptedIsSealed
  <2> SUFFICES ASSUME Inv, Made, pc = "sealed", Valid(disk) PROVE AcceptedIsSealed
    BY DEF AcceptedIsSealed
  <2>1. TypeOK
    BY DEF Inv
  <2>2. disk["index"] = sealed["index"] => disk = sealed
    BY <2>1, AcceptedByIndex
  <2> QED BY <2>1, <2>2, AcceptedIsAlike DEF AcceptedIsSealed, Origins
<1> QED BY MadeAlways, <1>1, PTL
=============================================================================
