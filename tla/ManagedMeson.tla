---------------------------- MODULE ManagedMeson ----------------------------
(***************************************************************************)
(* The Meson that miruri provides itself: ensureManagedMeson of            *)
(* internal/builder/meson_tool.go and the configure and compile steps that *)
(* run what it returns.  Builds of several processes, or of the targets of *)
(* one matrix, share the wheel, the site directory and the lock file.      *)
(***************************************************************************)
EXTENDS Integers

CONSTANTS
    Builds,         \* builds that need the managed Meson
    Offline,        \* those that may not download
    Budget          \* how many faults may happen (model bound)

ASSUME BuildsAssumption == "none" \notin Builds /\ Offline \subseteq Builds
ASSUME BudgetAssumption == Budget \in Nat

\* What a site directory holds: the directory itself, the module that
\* starts Meson, the marker, and the modules nobody checks.
Parts == {"dir", "main", "marker", "rest"}

VARIABLES
    wheel,          \* the cached wheel: "none", "good" or "bad"
    site,           \* the parts of the site directory that exist
    lock,           \* the build that made the lock file, or "none"
    old,            \* the lock file is older than fifteen minutes
    stuck,          \* it can no longer be removed
    run,            \* the builds
    left,           \* faults that may still happen
    \* What the properties need to know:
    stolen,         \* a build lost its lock file while it was at work
    torn            \* the site may lack modules that nobody checks

vars == <<wheel, site, lock, old, stuck, run, left, stolen, torn>>
ghosts == <<stolen, torn>>

Fresh == [
    pc |-> "wheel",         \* the next access
    stage |-> "first",      \* of the three validity checks
    partial |-> {},         \* the parts of the partial directory
    fetched |-> FALSE,      \* it has replaced the wheel
    harmed |-> FALSE]       \* a fault has met this build

Over       == {"failed", "dead", "done"}
Checking   == {"wheel", "main", "marker"}
Installing == {"rewheel", "download", "unsite", "unsiting", "extract", "publish"}

Runs == [
    pc : Over \cup Checking \cup Installing
            \cup {"acquire", "steal", "release", "abort", "using"},
    stage : {"first", "second", "third"},
    partial : SUBSET Parts,
    fetched : BOOLEAN,
    harmed : BOOLEAN]

\* p is between its lock and the release of it.
Inside(p) == run[p].pc \in Installing \cup {"release", "abort"}
             \/ (run[p].pc \in Checking /\ run[p].stage # "first")

Init ==
    /\ wheel = "none" /\ site = {}
    /\ lock = "none" /\ old = FALSE /\ stuck = FALSE
    /\ run = [p \in Builds |-> Fresh]
    /\ left = Budget
    /\ stolen = FALSE /\ torn = FALSE

\* One of the faults happens.
Suffers == left > 0 /\ left' = left - 1

Goes(p, pc) == run' = [run EXCEPT ![p].pc = pc]

-----------------------------------------------------------------------------
(* managedMesonCacheValid: three reads, without the lock the first time.   *)

\* The runtime is not there, or not valid.
Invalid(p) ==
    \/ run[p].stage = "first"  /\ Goes(p, IF p \in Offline THEN "failed" ELSE "acquire")
    \/ run[p].stage = "second" /\ Goes(p, "rewheel")
    \/ run[p].stage = "third"  /\ Goes(p, "abort")

Valid(p) == Goes(p, IF run[p].stage = "first" THEN "using" ELSE "release")

Check(p) ==
    /\ \/ /\ run[p].pc = "wheel"
          /\ IF wheel = "good" THEN Goes(p, "main") ELSE Invalid(p)
       \/ /\ run[p].pc = "main"
          /\ IF "main" \in site THEN Goes(p, "marker") ELSE Invalid(p)
       \/ /\ run[p].pc = "marker"
          /\ IF "marker" \in site THEN Valid(p) ELSE Invalid(p)
    /\ UNCHANGED <<wheel, site, lock, old, stuck, left, ghosts>>

-----------------------------------------------------------------------------
(* acquireManagedToolLock.                                                 *)

\* Mutant: the builds that waited install, too.
AcquireWithoutCheck(p) ==
    /\ run[p].pc = "acquire" /\ lock = "none"
    /\ lock' = p /\ old' = FALSE
    /\ run' = [run EXCEPT ![p].pc = "rewheel", ![p].stage = "second"]
    /\ UNCHANGED <<wheel, site, stuck, left, ghosts>>

\* Mutant: another build's lock file is no obstacle.
AcquireAnyway(p) ==
    /\ run[p].pc = "acquire"
    /\ lock' = p /\ old' = FALSE
    /\ run' = [run EXCEPT ![p].pc = "wheel", ![p].stage = "second"]
    /\ UNCHANGED <<wheel, site, stuck, left, ghosts>>

Acquire(p) ==
    /\ run[p].pc = "acquire" /\ lock = "none"
    /\ lock' = p /\ old' = FALSE
    /\ run' = [run EXCEPT ![p].pc = "wheel", ![p].stage = "second"]
    /\ UNCHANGED <<wheel, site, stuck, left, ghosts>>

\* A lock file that looks abandoned is removed, by its path, after a look at it.
FindOld(p) ==
    /\ run[p].pc = "acquire" /\ lock # "none" /\ old
    /\ Goes(p, "steal")
    /\ UNCHANGED <<wheel, site, lock, old, stuck, left, ghosts>>

\* os.Remove of the lock file, its error ignored.
Unlink ==
    IF stuck THEN UNCHANGED <<lock, old>> ELSE lock' = "none" /\ old' = FALSE

\* Removed or not, the loop goes on without a look at the context.
Steal(p) ==
    /\ run[p].pc = "steal"
    /\ Unlink
    /\ stolen' = (stolen \/ (~stuck /\ lock # "none" /\ run[lock].pc # "dead"))
    /\ Goes(p, "acquire")
    /\ UNCHANGED <<wheel, site, stuck, left, torn>>

\* Mutant: the wait for a lock outlives the build.
WaitsOn(p) ==
    /\ run[p].pc = "acquire" /\ lock # "none" /\ ~old
    /\ UNCHANGED vars

\* The context of the build ends while it waits, for a file that is not old.
GiveUp(p) ==
    /\ run[p].pc = "acquire" /\ lock # "none" /\ ~old
    /\ run' = [run EXCEPT ![p].pc = "failed", ![p].harmed = TRUE]
    /\ UNCHANGED <<wheel, site, lock, old, stuck, left, ghosts>>

\* The deferred calls: the partial directory goes, and the lock file by its
\* path, whosever it is by now.
Release(p) ==
    /\ run[p].pc \in {"release", "abort"}
    /\ Unlink
    /\ run' = [run EXCEPT ![p].pc = IF @ = "release" THEN "using" ELSE "failed",
                          ![p].partial = {}, ![p].fetched = FALSE]
    /\ UNCHANGED <<wheel, site, stuck, left, ghosts>>

-----------------------------------------------------------------------------
(* The installation.                                                       *)

\* Mutant: a wheel that is there is not hashed again.
Wheeled(p) ==
    /\ run[p].pc = "rewheel"
    /\ Goes(p, IF wheel = "none" THEN "download" ELSE "unsite")
    /\ UNCHANGED <<wheel, site, lock, old, stuck, left, ghosts>>

Rewheel(p) ==
    /\ run[p].pc = "rewheel"
    /\ wheel' = IF wheel = "good" THEN wheel ELSE "none"
    /\ Goes(p, IF wheel = "good" THEN "unsite" ELSE "download")
    /\ UNCHANGED <<site, lock, old, stuck, left, ghosts>>

\* downloadVerifiedFile: only what has the right hash comes to its place.
Download(p) ==
    /\ run[p].pc = "download"
    /\ wheel' = "good"
    /\ run' = [run EXCEPT ![p].pc = "unsite", ![p].fetched = TRUE]
    /\ UNCHANGED <<site, lock, old, stuck, left, ghosts>>

DownloadFails(p) ==
    /\ run[p].pc = "download" /\ Suffers
    /\ run' = [run EXCEPT ![p].pc = "abort", ![p].harmed = TRUE]
    /\ UNCHANGED <<wheel, site, lock, old, stuck, ghosts>>

\* With a new wheel a site passes the first check until it is gone.
Misled(p) == {q \in Builds : /\ run[p].fetched
                             /\ \/ run[q].pc = "using"
                                \/ run[q].pc \in {"main", "marker"} /\ run[q].stage = "first"}
Removing(p, pc) ==
    run' = [q \in Builds |->
              IF q = p THEN [run[p] EXCEPT !.pc = pc]
              ELSE IF q \in Misled(p) THEN [run[q] EXCEPT !.harmed = TRUE]
              ELSE run[q]]

\* os.RemoveAll of the site: nothing to do, a first part, or an error that is
\* ignored.
Unsite(p) ==
    /\ run[p].pc = "unsite"
    /\ \/ site = {} /\ Goes(p, "extract") /\ UNCHANGED <<site, left, torn>>
       \/ /\ site # {}
          /\ \E some \in SUBSET (site \ {"dir"}) : site' = {"dir"} \cup some
          /\ torn' = TRUE
          /\ Removing(p, "unsiting")
          /\ UNCHANGED left
       \/ /\ site # {} /\ Suffers
          /\ run' = [run EXCEPT ![p].pc = "extract", ![p].harmed = TRUE]
          /\ UNCHANGED <<site, torn>>
    /\ UNCHANGED <<wheel, lock, old, stuck, stolen>>

UnsiteRest(p) ==
    /\ run[p].pc = "unsiting"
    /\ site' = {} /\ torn' = FALSE
    /\ Removing(p, "extract")
    /\ UNCHANGED <<wheel, lock, old, stuck, left, stolen>>

\* The wheel is opened by its path and unpacked next to the site.
Extract(p) ==
    /\ run[p].pc = "extract"
    /\ run' = [run EXCEPT ![p].partial = IF wheel = "good" THEN Parts ELSE {"dir"},
                          ![p].pc = IF wheel = "good" THEN "publish" ELSE "abort"]
    /\ UNCHANGED <<wheel, site, lock, old, stuck, left, ghosts>>

\* os.Rename does not replace a directory.
Publish(p) ==
    /\ run[p].pc = "publish"
    /\ IF site = {}
         THEN /\ site' = run[p].partial
              /\ run' = [run EXCEPT ![p].partial = {}, ![p].pc = "wheel",
                                    ![p].stage = "third"]
         ELSE Goes(p, "abort") /\ UNCHANGED site
    /\ UNCHANGED <<wheel, lock, old, stuck, left, ghosts>>

-----------------------------------------------------------------------------
(* The use of the runtime, and what may happen to it.                      *)

\* The build has run Meson for the last time.
Finish(p) ==
    /\ run[p].pc = "using"
    /\ Goes(p, "done")
    /\ UNCHANGED <<wheel, site, lock, old, stuck, left, ghosts>>

Crash(p) ==
    /\ Suffers
    /\ run[p].pc \notin Over
    /\ Goes(p, "dead")
    /\ UNCHANGED <<wheel, site, lock, old, stuck, ghosts>>

Age ==
    /\ Suffers
    /\ lock # "none" /\ ~old /\ old' = TRUE
    /\ UNCHANGED <<wheel, site, lock, stuck, run, ghosts>>

\* The lock file can no longer be removed, because of its owner or the
\* permissions of its directory.
Jam ==
    /\ Suffers
    /\ lock # "none" /\ ~stuck /\ stuck' = TRUE
    /\ UNCHANGED <<wheel, site, lock, old, run, ghosts>>

\* The cache is spoilt outside miruri, under the builds that run.
Harmed ==
    run' = [q \in Builds |-> IF run[q] = Fresh \/ run[q].pc \in Over THEN run[q]
                             ELSE [run[q] EXCEPT !.harmed = TRUE]]

SpoilWheel ==
    /\ Suffers
    /\ wheel = "good" /\ wheel' \in {"none", "bad"}
    /\ Harmed
    /\ UNCHANGED <<site, lock, old, stuck, ghosts>>

SpoilSite ==
    /\ Suffers
    /\ \E part \in site \ {"dir"} :
         /\ site' = site \ {part}
         /\ torn' = (torn \/ part = "rest")
    /\ Harmed
    /\ UNCHANGED <<wheel, lock, old, stuck, stolen>>

Step(p) ==
    \/ Check(p) \/ Acquire(p) \/ FindOld(p) \/ Steal(p) \/ GiveUp(p) \/ Release(p)
    \/ Rewheel(p) \/ Download(p) \/ Unsite(p) \/ UnsiteRest(p) \/ Extract(p)
    \/ Publish(p) \/ Finish(p)

Next ==
    \/ \E p \in Builds : Step(p) \/ DownloadFails(p) \/ Crash(p)
    \/ Age \/ Jam \/ SpoilWheel \/ SpoilSite

Spec     == Init /\ [][Next]_vars
FairSpec == Spec /\ \A p \in Builds : WF_vars(Step(p))

-----------------------------------------------------------------------------
(* Properties.                                                             *)

\* Partial directories belong to installations, the parts of a site to a
\* directory, and an age to a lock file.
TypeOK ==
    /\ wheel \in {"none", "good", "bad"}
    /\ site \subseteq Parts /\ (site # {} => "dir" \in site)
    /\ lock \in Builds \cup {"none"} /\ old \in BOOLEAN /\ (lock = "none" => ~old /\ ~stuck)
    /\ stuck \in BOOLEAN
    /\ run \in [Builds -> Runs]
    /\ \A p \in Builds : run[p].partial # {} => run[p].pc \in {"publish", "abort", "dead"}
    /\ left \in Nat
    /\ stolen \in BOOLEAN /\ torn \in BOOLEAN

\* One build at a time installs, unless the lock file of a live one was taken
\* for abandoned (acquireManagedToolLock).
InstallsAlone ==
    ~stolen => \A p, q \in Builds : Inside(p) /\ Inside(q) => p = q

\* A build that runs the managed Meson has all of it, also while others check,
\* wait and install, unless the site is spoilt under the build or replaced
\* because its wheel was, or has lost parts that managedMesonCacheValid does
\* not look at.
RunsWholeMeson ==
    \A p \in Builds :
        run[p].pc = "using" /\ ~run[p].harmed /\ ~stolen /\ ~torn => site = Parts

\* A build that may download fails only for a failed download, removal or
\* wait, or for what happens to the cache while it runs: a runtime that is
\* spoilt, or an installation cut short, is repaired by the next build.
RepairsRuntime ==
    \A p \in Builds \ Offline :
        run[p].pc = "failed" => run[p].harmed \/ stolen

\* No build that has returned leaves its partial directory, or a lock file that
\* can be removed.
LeavesNothing ==
    \A p \in Builds : run[p].pc \in {"using", "failed", "done"} =>
        (lock = p => stuck) /\ run[p].partial = {}

\* A build goes round and round at a lock file that is old and cannot be
\* removed, whatever becomes of its context.
Spins(p) == run[p].pc \in {"acquire", "steal"} /\ lock # "none" /\ old /\ stuck

\* Every build gets its runtime or an error, also when the build that made the
\* lock file is dead, unless that file is old and cannot be removed.
Returns == \A p \in Builds : <>(run[p].pc \in Over \cup {"using"} \/ Spins(p))
=============================================================================
