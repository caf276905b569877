# Miruri: a TLA+ verification project

Miruri (`src/`) analyses a C/C++ project, builds it for a target in an isolated
overlay, optionally lets Codex repair or port it, inspects the artifacts without
running them, and publishes a verified *artifact set*. This directory holds the
TLA+ models of its stateful parts, the TLC runs that check them on small
instances, and the theorems TLAPS proves about them for every instance.

Paths below are relative to `src/`; `manager.go` is
`internal/sysroot/manager.go`, `builder.go` is `internal/builder/builder.go`,
and so on.

To check everything by hand:

    tlc -config SysrootShare.cfg MCSysrootCache      # any run of PROJECT.json
    tlapm SysrootCacheProofs.tla                     # any *Proofs module

## 1. Inventory

### 1.1 Components

| Component | Source | State | Operations | Hard behaviours |
|---|---|---|---|---|
| Managed sysroot cache | `internal/sysroot/manager.go` | target refs, digest stores (rootfs, lock file, `.complete`), lock files | `Lookup`, `Ensure`, `Remove`, `List` | processes share the cache; crash between steps; stale locks; `Remove` takes no lock; a moving provider tag |
| OCI blob cache | `internal/sysroot/manager.go` `fetchBlob` | `blobs/sha256/<digest>` | verify, download, rename | two downloaders of one bad blob |
| File lock | `manager.go` `acquireFileLock`, `meson_tool.go` `acquireManagedToolLock` | lock file and its mtime | acquire, wait, steal, release | age-based stealing, release by path, crash of a holder |
| OCI layer extraction | `internal/sysroot/extract.go` | rootfs tree, `created`, deferred hard links | `applyLayer`, whiteouts | entry order, opaque whiteouts, links |
| OCI registry client | `internal/sysroot/registry.go` | bearer tokens | `Resolve`, `Blob`, `do` | expired token, digest mismatch |
| Artifact publication | `internal/builder/builder.go` `publishArtifactSet`, `reuseArtifactSet`, `finalizeManifest` | staging directory, `dist/<target>`, backups, work directory | stage, verify, publish, reuse | concurrent publishers, crash between two renames, edits during a build |
| Build and repair loop | `internal/builder/builder.go` `Build`, `port_fidelity.go` | attempt, build system, records, status | build, checkpoint, Codex turn, capture, reset, gate | one operation of several failing, status against workspace |
| Repair workspace | `internal/repairworkspace/workspace.go`, `internal/builder/repair_filter.go` | Git HEAD, index, work tree | capture with filter, commit, reset | what two `git diff`s list, ignored and nested files |
| Codex transport | `internal/codex/appserver.go`, `codex.go` | JSON-RPC ids, thread, turn, process | start, turn, close, fall back to `codex exec` | interleaved notifications, server requests, deadlines |
| Target matrix | `internal/matrix/matrix.go` | channel, workers, results, context | send, run, cancel, report | a worker pool against fail-fast and interrupts |
| Progress stream | `internal/matrix/matrix.go` `prefixWriter` | destination, `lineStart` per target | write | partial lines of several targets |
| Managed Meson runtime | `internal/builder/meson_tool.go` | wheel, site directory, lock | `ensureManagedMeson` | a check without the lock, stealing by age, a site replaced while it is used |
| Artifact set: verifier, integrity index, licenses, SBOM, inspection | `internal/verify`, `artifactset`, `licenses`, `sbom`, `inspect` | the files of a set | `ArtifactSet`, `WriteIntegrity`, `ScanWithOptions`, `Generate`, `CollectAndPackage` | the order in which files describe and hash one another; edits during a build; sets mixed or spoilt later |
| Project identity | `internal/fingerprint`, `internal/fsutil` | none (pure) | `Project`, `CopyTree` | source edited between the two |
| Analysis, planner, targets, comparison, diagnostics, doctor, CLI, data model | `internal/analyze`, `planner`, `target`, `compare`, `diagnostics`, `doctor`, `cli`, `model` | none (pure or printing) | one function each | none that a state machine would show |

### 1.2 How they interact

    cli ── build/port ──> builder.Build ── Lookup/Ensure ──> sysroot cache ──> registry, blobs, layers
     │                        │  ├── fingerprint, CopyTree (project -> work directory)
     │                        │  ├── repair loop ── capture/reset ──> repair workspace (Git)
     │                        │  │        └── turn ──> codex app-server or codex exec
     │                        │  ├── CMake, Make, Meson (managed runtime), clang
     │                        │  └── finalizeManifest ──> licenses, SBOM, integrity, verify
     │                        └── publishArtifactSet ──> dist/<target>
     └── matrix ──> matrix.Run: sender and workers, one builder.Build per target

Everything is a function call within one process, except: several processes (and
the goroutines of a matrix) share the cache directory, the work directory of a
project and target, and `dist`; the app-server is another process on a
WebSocket; the matrix hands targets over an unbuffered channel and cancels
through a context.

### 1.3 What makes each stateful part correct

- **Sysroot cache.** Calls that provision exclude one another per target and per
  digest; a ref never names a rootfs that is not complete; a target stays on its
  digest until a refresh or a removal; a repair never deletes what another
  process uses; nothing is left behind by a call that returns, as far as it can be removed;
  offline calls write nothing; every call returns.
- **Artifact publication.** What is visible in `dist` passed verification; a
  failure keeps the previous set and a crash does not lose it; a set says
  truthfully which source it was made from, though builds share a work directory;
  reuse is what a build would give.
- **Repair loop and workspace.** A refused turn leaves no trace; a patch contains
  source changes only; the recorded patches are the difference between the
  original and what was built; what is published was compiled from the sources
  as they are, with the build system they have; no incomplete port is published;
  the loop does not go round for ever.
- **Matrix.** One worker and one result per target, every target accounted for;
  nothing starts after a cancellation; a cancellation has a cause; `Run` returns.
- **Codex transport.** An answer belongs to the turn that was asked; a turn fails
  only for a cause of its own time and ends by its deadline; the workspace is
  edited on behalf of one turn at a time; no process outlives its use.
- **Layers.** A layer yields the tree the OCI specification defines, with
  directories open or closed as it lists them (one without any permission is opened);
  a well-formed one is never refused.
- **Blobs and registry.** The image is one the tag named during the call; what
  is extracted is what its manifest lists, also while others download, remove and
  spoil the same blobs; calls fail only for a reason, and return.
- **Managed Meson.** One build installs at a time; what a build runs is whole;
  a spoilt runtime is repaired; builds that wait return.
- **Artifact sets.** What a build writes passes strict verification; of the sets
  that accidents and earlier builds make of it, strict verification accepts only the
  sealed one; under another index, only documents that agree where it compares them.

## 2. Plan

| # | Module | Composes | Abstract specification | State |
|---|---|---|---|---|
| 1 | `SysrootCache` | file locks, refs, stores | `SysrootPins` | done, 7 theorems |
| 2 | `ArtifactPublication` | builders, `dist`, work directory | `PublishedSets` | done, 7 theorems |
| 3 | `MatrixRun` | sender, workers, context | – | done, 6 theorems |
| 4 | `BuildRepair` over `RepairWorkspace` | loop, Git, Codex turns, Make objects | – | done, 7 theorems |
| 5 | `AppServerSession` | loop, client, WebSocket, app-server, `codex exec` | `CodexTurns` | done, 4 theorems |
| 6 | `LayerExtract` | the archive, the file system | the image specification, as operators of the module | done, 4 theorems |
| 7 | `ImageFetch` | registry client, blob cache, layers | – | done, 4 theorems |
| 8 | `ManagedMeson` | checks, lock, installation, use | – | done, 5 theorems |
| 9 | `ArtifactSet` | build, index, verifier, accidents | – | done, 4 theorems |
| 10 | more theorems, in the modules there are: every safety and action property that a passing run checks, and the three refinements | | | done |
| 11 | what is left: an abstract specification of the managed Meson, with a refinement like those of 1, 2 and 5 | | | open |

The order follows the damage a flaw would do: a wrong shared cache or a wrong
published set spoils every later build, the loop decides what is published, the
matrix what is reported. The modules meet where one abstracts the other to a step:
`SysrootCache` takes from `ImageFetch` and `LayerExtract` that `Extract` succeeds or
fails, `BuildRepair` from `AppServerSession` that a turn answers or fails and may edit
late, `ArtifactPublication` from `ArtifactSet` whether a set verifies, and `ArtifactSet`
from `BuildRepair` that any source may come out of the turns.

Conventions: constants carry named assumptions; one action per operation or
per access to something shared; `Budget` constants bound the events of the
environment; a definition introduced by "Mutant:" is a plausible bug that the
run of a property must detect and is used nowhere else. No module uses a
recursive operator.

## 3. The modules

### 3.1 `SysrootCache` (with `SysrootPins`)

`Procs` are the processes and matrix goroutines that use one cache directory.
Each runs one call at a time (`job`); `pc` is the next access to a shared path,
so others interleave where the operating system lets them.

| Code | Model |
|---|---|
| `refs/<target>.json` | `ref[t]`: `None`, a digest, or `Corrupt` for what `readRef` rejects |
| `store/sha256/<digest>` | `store[d]`, by what `lookupStore` can tell apart: absent, without `.complete`, without lock, broken, lacking files nobody checks (`hollow`), complete |
| `locks/...` | `lockFile[l]`: absent, fresh, or older than two hours |
| `Lookup` | `ReadRef`, `CheckStore` |
| `Ensure` | the lookup; `Discard` of the ref; `Acquire`, `Contend`, `Steal`, `Retry`, `LockTimeout` for each lock; the second lookup; `Resolve`, `Probe`, `Wipe`, `Prepare` (the partial directory, then a rootfs in it), `Extract`, `Commit`, `WriteRef`; the deferred calls as `Cleanup` and `Release` |
| error returns | `IOFailure`, and the outcomes of the other actions |
| `Remove` | `RemoveRead`, `RemoveRef`, `RemoveCheck`, `RemoveStore` |
| `os.RemoveAll` | any number of `RemoveSome`, then `RemoveRest`: a crash in between leaves any remainder |
| `os.Remove` of a lock file | `Unlink`, whose error nobody looks at |
| outside the code | `MoveTag`, `Crash`, `Expire`, `Damage`; `Jam`, after which a lock file cannot be removed |

A release removes a lock file by path, whoever has made it; that is in the model.
`partial` says of the partial directory of a call whether its removal is deferred
(`guarded`) or nobody will remove it (`left`): `Prepare` may fail before the removal is
deferred, and `Cleanup` may fail. A call that has found an old lock file tries again
without a look at its context, whether the file went or not (`Steal`); `Spins` is the state of one
that does so for ever.
Downloads and layers are the choice between success and failure of `Extract`;
the store is renamed into place by `Commit`, which fails on any directory that
is in the way.

`SysrootPins` is what the callers rely on: a map of targets to usable digests
that changes by pinning a free target, moving one where refreshes are allowed,
and unpinning. `ImplementsPins` maps `pin` to `ref` and `usable` to the digests
whose store is complete.

### 3.2 `ArtifactPublication` (with `PublishedSets`)

`Builders` build one target of one project. A set is a record of what its
readers look at (the digest in its manifest, whether it is a dry run, its status, whether it
still verifies) and of what each of its files was made from (`content`), which no reader
sees. The builders share one work directory (`work`), which says of each of the files
(`Parts`) which source it was copied from; `todo` are the files a builder has not come
to yet. Nothing locks it: any builder may empty, copy or compile a file between two
steps of another.

| Code | Model |
|---|---|
| `Build` up to the fingerprint | `Begin` |
| `reuseArtifactSet` | `Load` (manifest), `Verify` (directory) |
| staging directory | `Stage` |
| `os.RemoveAll` of the work directory | `Empty`, file by file; it fails when a file has come back behind it |
| `CopyTreeWithOptions` | `Copy`, file by file; a file that is there is cut short before it is written |
| the build | `Compile`, file by file, from whatever the file is when it is read; a build fails, or goes on without a file that is missing |
| `finalizeManifest` | `Seal` |
| `publishArtifactSet` | `Inspect`, `Preserve` (first rename), `Promote` (second), `Restore`, `Drop` |
| removal of the work directory | `Clean`, file by file, its errors ignored |
| outside the code | `Edit`, `Damage`, `Crash`; `Refused` for renames that fail |

`promised` is a ghost: the set last put in place.

`PublishedSets` is what a reader of `dist/<target>` and a user after a crash may rely
on: the place is empty or holds one set that came there whole; a set is never replaced
where it is, the old one goes aside first; what is put back was there before; and the
set published last is never thrown away. Its only step that is no builder's is damage.
`ImplementsShelf` maps `visible` to what is in place, `aside` to the backups of builders
and what dead ones have left, and `latest` to `promised`.

### 3.3 `MatrixRun`

Its specification is called `RunSpec` and its variables and steps carry names of their
own, because its proofs share a module with those of `BuildRepair`. The sender's loop with its `select` (`Send` is the rendezvous with an idle
worker, `GiveUp` the cancelled case), `Close`, `Report`; each worker's `Skip`
(the context check), `Start`, `Finish`, `Exit`; `Interrupt` by the caller. A
target ends as `Own` allows, or failed when the context is cancelled under it.
`fate` records how it would have ended, `unstarted` which targets had not
started at the cancellation.

### 3.4 `BuildRepair` over `RepairWorkspace`

`RepairWorkspace` has no state. A tree maps paths to contents; its operators are
what the code makes Git do: `Discards` is what the filter throws away of a turn,
computed on a listing in which Git pairs a deleted file with an added one of the same
content and names only the latter (`Hidden`: which one, where several fit, is
Git's choice); `ResetTo` is `git reset --hard` and `git clean -fdxq`, which
spares directories with a repository of their own.

`BuildRepair` is the loop of `Build`. One source file, its object, and one build
file per build system stand for the project; further paths are images and a
cloned dependency.

| Code | Model |
|---|---|
| `runBuild` | `Link`, `CompileFails`, `LinkFails`; Make keeps an object that is newer than its source (`Compiled`) |
| `validatePortFidelityAfterBuild` | `Faithful`, in `Link` and `LinkFails` |
| checkpoint | `Checkpoint`, `CheckpointFails` |
| `codex.Repair` | `Codex`: any edit of `Edits`, any status of the response schema, or an error; `LateEdit` for a turn that was given up but goes on |
| acceptance, continuation and blocked turns | `Acceptable`, `Continuation`, `Reassessed` |
| `CaptureAndCommitWithOptions` | `Capture`, `CaptureFails` |
| reset after a refusal | `Refuse`, `Restore` |
| attempt record and `result.json` | `Record`, `ResultFails` |
| new analysis, `resetAfterRepair` | `Prepare`, `PrepareFails` |

`MayFail` names the operations that may fail in an instance. The copy of the sources
gives every file a new time, so an object that is shipped with the project may be newer
than its source or older when the first build starts (`Init`). `RunsCommand` are the states
in which the next step waits for Git, a tool or Codex.

### 3.5 `AppServerSession` (with `CodexTurns`)

One build's Codex turns, from the loop's side down to frames. `call` is where the
caller is, `turn` what `RunTurn` has read so far, `toServer` and `toClient` the
frames under way. The app-server and `codex exec` are external: they answer requests in
order and run one turn at a time, but may answer with errors, late, or not at all,
ask, send notices, or die.

| Code | Model |
|---|---|
| `StartAppServerSession` | `StartSession`, `StartFails`, `ReadListener`, `Dial`, `Initialized`, `ThreadStarted`; `StartupFails` for every error return, each of which closes |
| `request` | `Send`; `Skip` for frames with another id |
| `RunTurn` | `Ask`, then one action per kind of frame: `ReadResponse`, `ReadRefusal`, `ReadText`, `ReadForeign`, `ReadCompleted`; `TurnBreaks` for the deadline and the end of the connection |
| `repairViaAppServer` | `Settle`, `SettleFails` |
| `Repair` by `codex exec` | `StartExec`, `ExecEnds`, `ExecReturns` (after both pipes have ended) |
| the deferred `Close` | `Close` |
| the loop's break after a failed turn | `Asks` |
| outside the code | `Announce`, `Accept`, `Respond`, `Speak`, `Complete`, `Request`, `Aside`, `Edit`, `Die`, `OrphanEnds` |

Frames carry an id and a method or neither, because `responseID` looks at the id
only: a request of the server under the id that is waited for is taken for the
response, under another id for a notice. `editor` is the turn for which the
workspace was edited last, `causes` what has gone wrong around the current turn.

`CodexTurns` is what the loop may rely on: asked, the turn replies with the text
written for it or is given up; edits belong to the turn that is open or was given up, and
end with the close.

### 3.6 `LayerExtract`

`applyLayer` over a tree that maps paths to directories, files and symbolic links.
An archive is read entry by entry, and any entry may come next. `created`, `links`
and `modes` are the variables of the same purpose in the code; `LowerPart` is
`removeLowerPathPreservingCreated`, with the paths as the archive spells them.
Directories may be closed for writing, which `os.RemoveAll` and creation notice. An
entry lists permissions that let its owner write, that do not, or none; `Opens` is what
`safeMode` and `directoryPermission` make of them: mode 0 becomes 0755.
`Real` resolves symbolic links above a path, at most two, since an instance's links lead to directories.

The end of the archive is a series of steps: `EndOfArchive`, then `MakeLink` for each
hard link that waits, in the order of the archive, then `ApplyMode` for each directory
mode, and `Finish`. The code sorts the modes by depth with a sort that is not stable
(`extract.go:167`), so `ApplyMode` takes any of the deepest. A failure at this point is
`unfinished`, one at an entry `failed`; `Unread` lets an archive go on after it, so that
whether it was well-formed is asked of all of it.

The reference is written from the image specification, not from the code, and says at
once what a whole archive means: `Visible` is what its whiteouts leave of the lower
root, wherever they stand; `Placed` what an entry puts at its path; `Layered` the tree,
path by path, where a later entry above a path that is no directory replaces what is
there (`Replaced`). `Once`, `Grounded`, `Parented` and `Hiding` say what a well-formed
archive is; `through` remembers that an entry, or a hard link that waited, went
through a link. `Names` bounds nothing: paths are sequences of names of any length,
and `LowersAssumption` and `EntriesAssumption` only say that a lower root is a file
system and that an entry other than an opaque whiteout has a path.

### 3.7 `ImageFetch`

`Callers` are calls of `Ensure` of one cache, from the parse of the reference to
the extraction of the last layer. Objects of the registry are their own digests.

| Code | Model |
|---|---|
| `do`, `fetchToken` | `Ask`; `Denied` (401), `FetchToken`, the one retry; `RequestFails` |
| `Resolve` | `GetTag`, `GetManifest` (selected by `Selected`), `GetConfig` |
| the digest lock of `Ensure` | `Lock` |
| `fetchBlob` | `Stat`, `Verify`, `Remove`, `MakeTemp`, `Download`, `Rename`, `RenameFails`: one action per access to the shared path |
| `applyLayer` opening the blob | `Extract` |
| outside the code | `MoveTag`, `Expire`, `Spoil`, `Lose`, wrong bodies in `Answers` |

The lock is that of the image, so calls for two images that share a layer do meet
in the blob cache. `named` records what the tag has named during a call and
`harmed` the faults that have met it.

### 3.8 `ManagedMeson`

`Builds` need the managed runtime. Its check is three reads (`Check`: wheel, module,
marker), once without the lock, once with it, once after the installation; `stage`
says which. `Acquire`, `FindOld`, `Steal` and `GiveUp` are `acquireManagedToolLock`,
`Release` its release function, by path; both remove the file with `Unlink`, whose error
is ignored, and after `Jam` it can no longer be removed. As in the sysroot cache, `Steal` goes back to
`Acquire` without a look at the context (`Spins`). The installation is `Rewheel`, `Download`,
`Unsite` and `UnsiteRest` (`os.RemoveAll` in two parts, or an error that is ignored),
`Extract` and `Publish`. `using` lasts until `Finish`: the build runs the
module from the shared site directory. `torn` says that the site may lack modules nobody
checks, `stolen` that a live build lost its lock file.

### 3.9 `ArtifactSet`

A build writes the files of one set: analysis, plan and log, the artifact, the port,
licenses, SBOM, manifest, index. Every file is an object whose content names what it
describes; equal contents have equal digests. `Licenses`, `Sbom` and `Manifest` are what the
generators read; `Valid` is `verify.ArtifactSet` under `Strict`, one operator per
check. `Stage` to `Verify` are the steps of `Build` that write; `Edit` is the user's
edit of the project meanwhile. Afterwards `Harm` spoils, removes, moves, adds or
replaces files by those of earlier builds (`Foreign`), and may write a new index. An earlier
build (`Others`) is one of any version of the project's code, for the same target or another; a
build ID is a digest of the request, so that two builds of one request differ in their
times only (`earlier`). `Alike` says which builds' files the verifier cannot tell apart at
a path.

## 4. The runs

| Run | Instance | Shows |
|---|---|---|
| `sysroot_share` | 2 processes, 2 targets, 2 digests, a tag of `t1` that moves once and may name the digest of `t2`; 3 calls | `MutualExclusion`, `LockedMeansUsable`, `DigestStaysLocked`, `ImplementsPins` with all lock and tag races |
| `sysroot_faults` | 2 processes, 1 target, 1 digest; 3 calls of `Ensure`, `Lookup` and purge; 1 crash, 1 outlived lock, 1 damage, 1 failure to remove a file or to make a rootfs, any two of these in one behaviour (`FewFaults`); fair to one process | `NothingLeaks`, `WipesOnlyInvalid`, `OneReturns` |
| `sysroot_rebuild` | 1 process, purges, 1 crash | finding: see section 6 |
| `publish` | 2 builders, 3 builds of every kind, in turn or overlapping; a source of 2 files in 2 versions, 1 edit between builds, 1 damage, 1 crash, 2 failed operations | `FailureKeepsPrevious`, `DigestIsHonest`, `OnlyVerifiedVisible`, `LatestSurvives`, `ReuseIsCurrent`, `ImplementsShelf` |
| `matrix_fail_fast` | 4 targets, 3 workers, fail-fast and an interrupt, fair | `AllAccounted`, `UnstartedAreCanceled`, `Returns` |
| `repair` | port mode, a Make project shipped with an object that is not its source's, newer or older, 2 repairs, turns that change up to two of source, object, image, build files and clone; all operations but the reset may fail; fair | `PatchesReproduceSource`, `RefusedIsUndone`, `ProductIsCurrent`, `IncompleteIsNotPublished`, `PatchIsSourceOnly`, `Ends` |
| `repair_rename` | a turn that moves an image | finding |
| `codex_session` | 2 turns of a mode with a session, one fault of each of six kinds; fair | `NothingRuns`, `NoSpuriousFailure`, `ImplementsTurns`, `Returns` |
| `layers` | all archives of up to 3 of 26 entries over 7 paths, 6 lower roots | `FollowsImageSpec`, `WellFormedExtracts`, `ModesAsListed` |
| `fetch` | 2 calls for 2 platforms, a tag that moves between 2 indexes and an object of no known kind, 4 images, 2 layers, one fault of each of seven kinds; fair | `ResolvesWhatTagNames`, `ExtractsVerified`, `FailsForAReason`, `Completes` |
| `meson` | 3 builds, one offline, 2 faults of any kind; fair | `InstallsAlone`, `RunsWholeMeson`, `RepairsRuntime`, `Returns` |
| `artifact_set` | 2 contents, 1 edit, 2 changes to the sealed set | `HonestSetsPass`, `AcceptedIsSealed`, `EvidenceIsOriginal` |

### Why these bounds are enough

- *Cache.* All conflicts over one lock are between a holder and a contender, so
  two processes show them, and the theorems cover more; two targets with a
  common digest are the smallest case in which the two levels of locks matter;
  three calls let a call meet the results of two others. One event of each fault kind is
  allowed because the properties are about single faults racing with calls, and two of them
  meet in one behaviour (a call that dies and a lock file that cannot be removed, say);
  the theorems are for any budget.
- *Publication.* Two builders show every interleaving of one publisher's renames with
  another's, and a builder may build again; two versions tell a stale set from a
  current one, and two files let a build be half copied, half emptied or mixed. The
  theorems are for any number of builders and files.
- *Matrix.* With four targets and three workers, one target is always unsent while
  others run, finish and fail; statuses beyond these do not change the control flow.
- *Repair.* Two repairs give a first turn, a second that builds on the first's
  commit, and the last attempt; a patch changes at most two paths (three where an
  image is moved), which covers every pair of kinds of change the filter and Make
  distinguish.
- *Session.* A second turn is needed for frames of the first to be left over; a
  failed turn ends the loop, so a third adds nothing. One fault of each kind lets any
  two or more kinds meet. The theorems are for any number of either.
- *Layers.* Three entries are the least in which a whiteout stands between two
  entries of its own layer, or a hard link waits while its path is used. The theorems
  are for archives of every length over every lower root.
- *Fetch.* Conflicts over a blob are between two calls; the two images share
  both layers in opposite order, and one of them lists a wrong size for the layer the other has right. The
  third object the tag may name is neither index nor manifest, which `Resolve` refuses
  (`registry.go:116`).
- *Meson.* One build installs, one waits, one checks without the lock; two faults
  allow a death and an outlived lock, or a spoilt wheel and a failed removal.
- *Sets.* Two contents tell the version of the build from an earlier one, two targets
  its own from another; two changes allow the loss of one file
  and the replacement of another; a new index is allowed after each.

Instances of the cache, publication, layers, fetch and Meson stop when their calls are over, so
these configurations switch deadlock checking off. The matrix, the loop, the session and
the sets end in an explicit final state and are checked for deadlock.
Symmetry is used over processes in `sysroot_share`, over builders, files and versions in
`publish` and over contents in `artifact_set`, whose constants treat them alike; no liveness is checked there.
`OneReturns` states the return of one process, since the two are interchangeable.

### Fairness

- `SysrootCache` (`FairTo`): weak fairness of the steps of the process whose return is
  stated, since a running process keeps executing, and none of the other's, which may stop
  wherever it is; strong fairness of `LockTimeout`, since every `Ensure` runs
  under a context with a deadline (`--sysroot-timeout`, `cli.go:225`,
  `builder.go:174`) and the wait loop looks at it in every round that has found a file
  less than two hours old. In a round that has found an old one it does not: `OneReturns` excepts
  the call that cannot get past such a file.
  Nothing is assumed of the environment: lock files need not grow old.
- `MatrixRun` (`RunFairSpec`): weak fairness of the sender and of each worker: Go runs runnable
  goroutines. That a build ends (`Finish`) is assumed here: `Returns` is about the pool,
  and a build may wait for one command for ever (next item). Not of `Interrupt`.
- `BuildRepair`: weak fairness of the one goroutine in its steps that run no command, and of no
  others (`RunsCommand`): Git has no deadline (`workspace.go:190`), and `Wait` lasts,
  deadline or not, until the last process that holds a command's output has ended
  (`builder.go:1428`, `codex.go:359`). `Ends` therefore says that the loop ends or waits for
  one command for ever. None of `LateEdit`, which is the app-server's.
- `AppServerSession`: weak fairness of the caller, whose reads end at the deadline of the
  turn (`TurnBreaks`) or of the start (`StartupFails`), and of `ExecEnds`, since
  `exec.CommandContext` kills `codex exec` at its deadline. None of the app-server's
  actions and none of `OrphanEnds`: `Returns` names that exception.
- `ImageFetch`, `ManagedMeson`: weak fairness of each call's steps. Requests run
  under the deadline of the call (`builder.go:174`), so they are answered or fail; a build
  that waits for a lock looks at its context in every round that has found a file which is
  not old (`GiveUp`), and `Returns` excepts one that cannot get past an old file (`Spins`). How long
  the build then uses Meson does not matter to `Returns`. None of faults, and none of the
  ageing of a lock.

## 5. The theorems

All constants are arbitrary, subject to the named assumptions beside them.

**`SysrootCacheProofs`.** `TypeCorrect`, `Exclusion`, `RepairIsSafe`,
`LocksAreUsable`, `StaysLocked`, `CacheImplementsPins`, `CallsCleanUp`. None of the properties is
inductive: that two processes do not hold one lock depends on what a lock file
means, and that on where each process is. The invariant has layers. `Control`
ties each label to the locks and data its process has (a process that probes,
extracts or commits has both locks; one that removes has none). `Locking` adds,
while nobody has died and no lock was outlived (`Quiet`), that a held lock has a
fresh file and a file has an owner; `MutualExclusion` is its first conjunct. `PinInv`
adds, without purges and damage, that stores are absent or complete and that
what a process is about to write into a ref is complete. `PinnedBody` says that
between the second lookup and the write the target stays free; with it each step
maps to a step of `SysrootPins` or a stutter. `LockedMeansUsable` needs no
`Quiet`: it holds through crashes and stolen locks. So does `CallsCleanUp`, but for
crashes: `Leakless` gives every lock file that can be removed a running owner and every
partial directory that stays a failure, and `Control` says that an idle process has no
lock and no partial directory that is yet to be removed.

**`ArtifactPublicationProofs`.** `TypeCorrect`, `OnlyVerified`, `NothingLost`,
`DigestsAreHonest`, `PreviousKept`, `ReusedIsCurrent`,
`PublicationImplementsShelf`. The base invariant is the type, the bounds of the budget and
`Pipeline`, what a builder's staged set and backup are at each label. `NothingLost`
follows the promised set through the renames; `DigestsAreHonest` shows that
without an edit during a build all running builders have one digest, so that every file of
the work directory, once the first of them has emptied it, is that digest's or missing
(`Pure`), whoever copies, cuts short or removes it and whenever; what a builder reads of it
is no other. That nothing is missing is only true of a builder that no other overlaps
(`FilledInv`). The second invariant, `Quiet`, is for
builders in turn: while none has overlapped, at most one is not idle (`Alone`), and the
set whose manifest it has read is still the visible one or a damaged one (`Reading`), so
that the verification of the directory speaks of what was read; only dry runs make dry
sets (`Dry`); what it has copied is still there when it compiles (`FilledInv`); the promised set is in place or in the backup of the one builder that
moves it, and a builder that is about to put it back has met the one failed rename
already (`Kept`). `PublicationImplementsShelf` follows from the base invariant and
`NothingLost`, whose invariant (`LatestThere`) is what lets a backup be deleted.

**`BuildRepairProofs`, the matrix.** `RunTypeCorrect`, `OneWorker`, `EveryTargetAccounted`,
`ResultsStay`, `CancellationsHaveCauses`, `UnstartedStayUnstarted`. The core of the
invariant, `Where`, says of every index on which side of the sender it is and
who has it: below `next` it has a result or one worker, above it neither.

**`BuildRepairProofs`, the loop.** `TypeCorrect`, `SystemIsDetected`, `OnlyCompletePorts`,
`ProductsAreCurrent`, `RefusedTurnsAreUndone`, `PatchesGiveSources`,
`CommitsHoldSources`. The invariant says what the loop
knows between two steps: while an attempt is under way the budget is not used up
(`Counted`), only a refused turn is recorded without an answer (`Spoken`), what
is recorded before the loop ends was accepted (`Answered`), at every build the system is the one
detected in the work tree (`SystemFits`); for objects, that none which Make would keep survives to a
build after a repair, and that the first builds what was copied (`NothingKept`), so that
only the first may link an object it has not made; for refusals, that the checkpoint
is HEAD and the base (`Undone`); for patches, that wherever a build starts or a turn may
be adopted the sources are what the record replays to, with the adopted patch that is
not yet recorded in addition (`Tracked`). `Replays` says of one path what a replay gives
it, by the last adopted patch that touches it, without a fold. `CommitsHoldSources`
gives `PatchIsSourceOnly` the hypothesis it needs (`DeletesOnlySources`): that the
unlisted half of a rename, the finding of section 6, is the only way past the filter.

`RefusedIsUndone` is stated of turns that stop when they are given up; `Abandoned` is
the state after one that did not.

**`AppServerSessionProofs`.** `TypeCorrect`, `NoProcessStays`, `TurnsImplemented`,
`FailuresHaveCauses`. The first invariant, `Processes`, adds to `NothingRuns` that turns of
the app-server are only asked of a session that stands; nothing is assumed of what the
app-server sends. The refinement needs `Fitting`, which says of every frame under way
and every text read so far to which turn it may belong, by where the caller is: while the
session starts none names a turn (`Starts`), between two turns none does unless one was
given up (`Between`), during a turn all are of that turn, and the request is on its way,
being served, or served (`Open`). So no frame left over can complete a later turn.
`FailuresHaveCauses` has a second invariant, `Blameless`: as long as nothing has gone
wrong, the one response under way is to the request that is waited for (`Outstanding`),
and the final text has been read, or is under way before the completion (`Telling`).

**`LayerExtractProofs`.** `TypeCorrect`, `LayersFollowImageSpec`, `ModesAreGiven`,
`WellFormedLayersExtract`. The reference speaks of a whole archive, the code reads one
entry at a time, so the proof needs what the tree means after each of them. `Layering`
is that, for an archive that lists each path once and goes through no link: what
nothing later replaces is there (`PlainThere`, `MadeThere`, `LowerThere`, `HardThere`), and
nothing else is (`Accounted`). A hard link is what the source of its target makes it:
an earlier file, a lower one, or a later one, for which it waits (`FromEarlier`,
`FromLower`, `FromLater`). The delicate case is an entry that is put where a waiting
link is to be made, or above it: then the tree is not what the archive says, but the
link can never be made (`Doomed`, `Stumps`), and no such layer is finished. `Put` and `Hide` say
of the tree before and after what an entry and a whiteout do, and each conjunct of
`Layering` has a lemma that they preserve it; at the end `Layering` with no link left
waiting determines the tree (`LayeredIs`). `ModeInv` follows the modes of listed
directories, as `Opens` converts them, to the end. For `WellFormedExtracts`, `OpenInv` keeps every directory open
until the modes are applied, `Sound` is well-formedness told of the entries read so
far (each hard link has a source then, `GroundedSourced`), and for a sound archive
parents are there when an entry comes (`ParentsThere`), a hard link reaches its target
or free space (`HardlinkReaches`), a whiteout its directory (`HidingReaches`), and
nothing takes the path of a link that waits (`UnmadeInv`); `FailInv` says that every failure
has one of the causes the property names.

**`ImageFetchProofs`.** `TypeCorrect`, `VerifiedExtracted`, `NamedResolved`,
`FailuresHaveReasons`. `Shaped` says of a single call
which layers it has extracted at each step and that a download under way has the
right body once it was hashed; `Ready` that a blob that was verified is still the right one,
or gone, until it is extracted, because other calls only put right contents in its
place, unless a fault has met the call. The second invariant, `Tracing`, follows a call from
the tag to the image (`Led`) and keeps that a blob it has found is there, and one it has
verified is right, unless it is harmed (`Traced`); every failure then has a cause (`Blamed`).
The proof showed that `FailsForAReason`, as first stated, was too narrow: it had
no place for an object of a media type the code does not know. Both the property and
the instance now have one.

**`ManagedMesonProofs`.** `TypeCorrect`, `OneInstalls`, `NothingStays`, `WholeMesonRuns`,
`RuntimeRepaired`. `Owned` says that a lock file belongs to a build that is inside or dead
and, as long as none was stolen from a live build, that every build inside has made the
lock file there is; one that cannot be removed may stay when its build has returned.
The second invariant, `Tracks`, is what makes the unlocked check
good enough: a site that is not torn has all of its unchecked parts as soon as it has any; a
build removes only a site nobody outside can come to use, or one whose wheel it has replaced
(`Sound`); what a build outside has read of the site is still there (`Relies`), and the one
inside finds it as its last step left it (`Unharmed`).

**`ArtifactSetProofs`.** `TypeCorrect`, `EvidenceOfProject`, `HonestSetsAccepted`,
`AcceptedOnlySealed`. Until the first edit the digest is that of the project (`Same`), so that
the licenses found at the end belong to it (`Describes`). `Made` says which files are as the
verifier wants them after each step of the build (`Analysed`, `Logged`, `Packed`,
`Told`, `Whole`), that a sealed set is `Sound`, and that after any changes a path holds
one of its `Remnants`. `SoundIsValid` and `AcceptedByIndex` are the two directions: what
is as the build leaves it passes, and what passes under the index of the build is the set
itself, because every digest in the index was taken of one of its files. `AcceptedIsAlike` is
about any index: each describing file of an accepted set is this build's or an earlier one's
(`AcceptedFiles`), and the verifier's comparisons tie them to the build of the manifest as
far as `Alike` says.

Model-checked only: `OneReturns`, `Returns`, `Ends`, `Completes`: liveness under fairness is
beyond the prover. Proved only, without a run:
`BuiltWithDetected`, `OneWorkerPerTarget`, `ResultsAreFinal`, `CanceledHasCause`,
`LeavesNothing`, and the types of all modules.

## 6. Findings and known limits

Two runs end in a counterexample to a sentence of the repository.

1. `sysroot_rebuild` (`manager.go:289`): a store whose removal was interrupted
   after `.complete` went counts as absent, so nothing removes it, and the rename
   onto it fails in every later call. ADR 0005 says it is rebuilt.
2. `repair_rename` (`workspace.go:89`): when a turn moves an image, the filter
   sees the new path only; the deletion of the old one is committed. ADR 0004
   excludes binary changes.

Further behaviour of the code that the properties are careful about; the
models contain it, and the hypothesis that excludes it is in the property:

- A normal `Ensure` over a locked but incomplete rootfs discards the ref and resolves the
  tag again (`manager.go:213`); if the tag has moved, so does the target, though
  `README.md:195` and `docs/architecture.ja.md:128` promise the same digest
  (`DigestStaysLocked` is stated without damage).
- `Remove` takes no lock: a purge between another call's check of a store
  and its write of the ref leaves a ref without a store (`manager.go:350`;
  `NoPurge` in `LockedMeansUsable`).
- After a holder's death two waiters may both take its old lock file for
  abandoned, and the second removes the lock of the first (`manager.go:713`;
  `Quiet` in `MutualExclusion`). `LockedMeansUsable` holds all the same.
- An old lock file that cannot be removed, for its owner or the permissions of its
  directory, is tried again and again, without a pause and without a look at the context:
  the call outlives `--sysroot-timeout` (`manager.go:714`; `Spins` in `OneReturns`).
- A partial directory stays in the store when the rootfs cannot be made in it, since
  its removal is deferred only afterwards (`manager.go:246`), and when its deferred removal
  fails, for instance at directories a layer has left without write permission
  (`manager.go:252`; `"left"` in `NothingLeaks`).
- A store that has lost files nobody checks is accepted, offline too
  (`extract.go:388`; state `hollow`).
- Between the two renames of a publication `dist/<target>` does not exist, and a
  crash there leaves the last set in a `.previous` directory (`builder.go:1655`;
  `LatestSurvives` says that it is not lost).
- An edit of the source during a build can publish a set under the digest of
  another source (`builder.go:322`; `Never("race")`). A matrix takes the
  digest of one analysis for all its targets, so its window is longer.
- Overlapping builds of one project and target share the work directory without a lock
  (`builder.go:233`, `322`, `693`): each may fail the other, or compile what the other has cut short
  or is removing and publish a set that lacks what was missing (`Never("overlap")` in
  `DigestIsHonest`). From another source it can be only after an edit.
- The first build cleans nothing, and the copy does not keep times (`fsutil.go:158`,
  `builder.go:356`): Make may link an object that was shipped with the project though it is not
  its source's (second disjunct of `ProductIsCurrent`).
- `git clean` leaves repositories a refused turn has cloned (`workspace.go:171`; `Nested`).
- Where `make clean` has no effect, old objects can be linked
  (`builder.go:1389`; `CleanRule`).
- A turn of the app-server that is given up at its deadline is not interrupted; the
  server may edit the workspace after the reset and while it is copied to
  `ported-source` (`appserver.go:313`, `builder.go:480`; action `LateEdit`, and
  `"interrupt"` in `RefusedIsUndone` and `PatchesReproduceSource`).
- An attempt whose result file cannot be written is undone, though its record
  names a patch (`builder.go:490`; `PatchesReproduceSource` counts adopted ones).
- Fail-fast also cancels targets that are being built (`matrix.go:192`), which are then
  reported failed; the flag's description (`cli.go:760`) speaks of those that have not started.
- A request of the app-server (a method and an id) is taken for a notice and never
  answered, although the comment at `appserver.go:330` expects it to fail the turn: the turn
  waits until its deadline. Under the id that is waited for it is taken for the response,
  and names no turn (`Request`, `ReadResponse`).
- The completion of a turn that comes before the response to `turn/start` is accepted,
  and the late response fails the next turn (`appserver.go:322`; `"late"` in
  `NoSpuriousFailure`).
- `codex exec` is waited for until both its pipes end, so a command that outlives it
  keeps the build beyond the deadline (`codex.go:359`; `orphan` in `Returns`). The same holds of
  the commands of the build (`builder.go:1428`: no `WaitDelay`), and Git runs without a
  context at all (`workspace.go:190`; `RunsCommand` in `Ends`). The stderr
  of the app-server is no longer read after a line of more than 2 MB, and a Close frame has no
  deadline (`appserver.go:100`, `584`); not modelled.
- Two calls that find the same bad blob may remove the good one that either has
  fetched (`manager.go:459`): the other fails (`"removed"` in `FailsForAReason`). After a
  rename that failed a blob is used without verification (`manager.go:497`), and a
  verified blob is opened again by its path (`"rename"`, `"damage"` in `ExtractsVerified`).
- Entries through symbolic links of directories escape `created`, so whiteouts of
  the same layer may remove them; so do opaque whiteouts of linked directories
  (`extract.go:228`; `through`). Lower directories without write permission make
  a layer over them fail, unless miruri runs as root. A path listed twice keeps the order of the
  archive, but for hard links that wait, which may then be refused (`extract.go:147`; `Once`).
- A hard link that waits is made, and the mode of a directory is set, at the end: if an entry
  has put a link above or at the path meanwhile, they go through it (`extract.go:161`,
  `170`; `through`, and `Buried` in `ModesAsListed`).
- A hard link whose target is below what is still a lower file is refused, though the
  layer lists a directory and the target later (`extract.go:143`; `Clean` in `Grounded`).
- A build that has found the managed Meson valid without the lock may lose the site to
  another that has just replaced a bad wheel (`meson_tool.go:157`; `Misled`). An old lock
  file that cannot be removed keeps every build that needs the lock beyond its deadline
  (`meson_tool.go:340`; `Spins`). A removal
  that was cut short may leave a site that looks valid (`torn`), and an installation
  of more than fifteen minutes loses its lock (`stolen`).
- The port of a project that holds a symbolic link can never be sealed: the snapshot
  keeps the link, and `WriteIntegrity` refuses it (`builder.go:717`, `artifactset.go:134`).
  The build then fails after it has succeeded.
- Once the index was written anew, verification does not notice the plan of another version
  of the project for the same target, nor the analysis or the license report of another
  build of the same project digest, because it compares no more of them (`verify.go:340`,
  `365`; `Alike` in `AcceptedIsSealed`). A file whose loss the index was rewritten for
  is not missed if nothing in the manifest names it. File names with leading or trailing
  blanks or line breaks do not survive the line format of the index; not modelled.
- Licenses are scanned at the end, in the project as it is then (`builder.go:1808`; `edits`
  in `EvidenceIsOriginal`).
- Pieces of lines of two matrix targets may mix in the log (`matrix.go:384`); not modelled.

## 7. What is not modelled, and why

- *Pure functions of text or bytes*, where a unit test says what a model could:
  analysis and capability packs, planner, target profiles, the parsing of
  binaries, comparison, diagnostics, the recognition of licenses, the format of the SBOM,
  the lists of directories that fingerprint and copy leave out.
- *Process invocation and formatting*: command lines of compilers and build systems, collection of
  their products, macOS bundles, prompts and
  arguments of Codex, the progress stream, the CLI, the doctor, schemas, scripts.
- *Abstractions inside the models*: digests are injective (SHA-256 does not
  collide); renames and exclusive creates are atomic, as POSIX has it; file times are
  reduced to fresh and stale, newer and older; reading a manifest is one step;
  `keep-work` and the numbers of the report are left out. Compression, media types and the
  syntax of references and challenges do not appear; archives hold only paths
  inside their root, and the rejection of others is left to the tests. The verifier is
  modelled under `Strict`, without the sysroot lock and without warnings.
