---------------------------- MODULE SysrootCache ----------------------------
(***************************************************************************)
(* The managed sysroot cache of internal/sysroot/manager.go: one directory *)
(* shared by every miruri process of the user.  A target is locked to a    *)
(* digest by a ref file, a digest's root file system lives in a store      *)
(* directory that becomes visible with one rename, and two levels of lock  *)
(* files order the processes that provision.                               *)
(*                                                                         *)
(* A process runs one call at a time: Ensure, Lookup or Remove.  pc names  *)
(* the next file-system operation of the call; everything between two      *)
(* labels touches one shared path, so other processes interleave exactly   *)
(* where the operating system lets them.                                   *)
(***************************************************************************)
EXTENDS Integers, FiniteSets

CONSTANTS
    Procs,      \* processes (and goroutines of a matrix run) using the cache
    Targets,    \* targets with a provider
    Digests,    \* immutable manifest digests
    Offers,     \* Offers[t]: the digests the provider tag of t may resolve to
    Calls,      \* the calls processes may make, a subset of Jobs
    Budget,     \* how often each kind of event may happen (model bound)
    None,       \* no ref, no digest
    Corrupt     \* a ref file that readRef rejects

Kinds == {"call", "move", "crash", "expire", "damage", "stuck"}

Jobs == [kind : {"ensure", "lookup", "remove"}, target : Targets,
         refresh : BOOLEAN, offline : BOOLEAN, purge : BOOLEAN]

ASSUME NamesAssumption ==
    /\ Targets \cap Digests = {}
    /\ None \notin Targets \cup Digests
    /\ Corrupt \notin Targets \cup Digests \cup {None}

ASSUME OffersAssumption ==
    /\ Offers \in [Targets -> SUBSET Digests]
    /\ \A t \in Targets : Offers[t] # {}

ASSUME CallsAssumption == Calls \subseteq Jobs /\ Calls # {}

ASSUME BudgetAssumption == Budget \in [Kinds -> Nat]

VARIABLES
    ref,        \* refs/<target>.json: None, Corrupt or a digest
    store,      \* store/sha256/<digest>: what is left of the directory
    tag,        \* external: the digest the provider tag resolves to now
    lockFile,   \* locks/<target>.lock and locks/digests/<digest>.lock
    jammed,     \* the lock files that can no longer be removed
    pc,         \* next operation of each process
    job,        \* the call each process executes
    seen,       \* the last ref content the process has read in its call
    img,        \* the digest the process works on or returned
    held,       \* the lock files the process believes it owns
    partial,    \* the <digest>.partial-* directory of the process's call
    outcome,    \* result of the last call
    budget      \* events left of each kind

vars == <<ref, store, tag, lockFile, jammed, pc, job, seen, img, held, partial,
          outcome, budget>>

-----------------------------------------------------------------------------
LockNames == Targets \cup Digests

\* A store directory, by what is left in it: nothing; a directory without
\* .complete; .complete without sysroot.lock.json; an unusable lock or a rootfs
\* that misses one of the four files validateManagedRootfs looks for; a rootfs
\* that misses only other files; everything.
StoreStates == {"absent", "debris", "nolock", "broken", "hollow", "complete"}

\* What an interrupted os.RemoveAll may leave of a directory: it unlinks the
\* entries in the order the file system lists them.
Remains ==
    [absent   |-> {},
     debris   |-> {},
     nolock   |-> {"debris"},
     broken   |-> {"nolock", "debris"},
     hollow   |-> {"broken", "nolock", "debris"},
     complete |-> {"hollow", "broken", "nolock", "debris"}]

\* What lookupStore says of a directory.
Verdict(s) == IF s \in {"absent", "debris"} THEN "missing"
              ELSE IF s \in {"nolock", "broken"} THEN "error" ELSE "found"

\* What Lookup makes of it: an os.ErrNotExist of any origin is "not found".
LookupVerdict(s) == IF s = "nolock" THEN "missing" ELSE Verdict(s)

Labels == {"idle", "readRef", "checkStore", "discard", "lock", "wait", "steal",
           "resolve", "probe", "wipe", "prepare", "extract", "commit", "writeRef",
           "cleanup", "release", "rmRef", "rmCheck", "rmStore"}

\* No directory; one whose removal is deferred; one that stays on disk.
Partials == {"none", "guarded", "left"}

Outcomes == {"none", "ok", "notFound", "offline", "invalid", "network",
             "timeout", "commitFailed", "io", "removed"}

Target(p) == job[p].target
Running(p) == pc[p] # "idle"

\* Ensure has taken the target lock: the second lookup and the provisioning.
Locked(p) == Target(p) \in held[p]

\* The lock acquireFileLock is asked for: first the target's, then the digest's.
Wanted(p) == IF Locked(p) THEN img[p] ELSE Target(p)

TypeOK ==
    /\ ref \in [Targets -> Digests \cup {None, Corrupt}]
    /\ store \in [Digests -> StoreStates]
    /\ tag \in [Targets -> Digests]
    /\ lockFile \in [LockNames -> {"none", "fresh", "stale"}]
    /\ pc \in [Procs -> Labels]
    /\ job \in [Procs -> Jobs]
    /\ seen \in [Procs -> Digests \cup {None, Corrupt}]
    /\ img \in [Procs -> Digests \cup {None}]
    /\ held \in [Procs -> SUBSET LockNames]
    /\ jammed \subseteq LockNames
    /\ partial \in [Procs -> Partials]
    /\ outcome \in [Procs -> Outcomes]
    /\ budget \in [Kinds -> Nat]

Init ==
    /\ ref = [t \in Targets |-> None]
    /\ store = [d \in Digests |-> "absent"]
    /\ tag \in [Targets -> Digests]
    /\ \A t \in Targets : tag[t] \in Offers[t]
    /\ lockFile = [l \in LockNames |-> "none"]
    /\ pc = [p \in Procs |-> "idle"]
    /\ job = [p \in Procs |-> CHOOSE c \in Calls : TRUE]
    /\ seen = [p \in Procs |-> None]
    /\ img = [p \in Procs |-> None]
    /\ held = [p \in Procs |-> {}]
    /\ jammed = {}
    /\ partial = [p \in Procs |-> "none"]
    /\ outcome = [p \in Procs |-> "none"]
    /\ budget = Budget

-----------------------------------------------------------------------------
\* Control flow.

Spend(k) == budget[k] > 0 /\ budget' = [budget EXCEPT ![k] = @ - 1]

At(p, label) == pc[p] = label
Goto(p, label) == pc' = [pc EXCEPT ![p] = label]

\* Leave the call with a result: what is left to do is what the deferred
\* functions do, partial directory first, then the locks.
Return(p, result) ==
    /\ outcome' = [outcome EXCEPT ![p] = result]
    /\ Goto(p, IF partial[p] = "guarded" THEN "cleanup"
               ELSE IF held[p] # {} THEN "release" ELSE "idle")

Continue(p, label) == Goto(p, label) /\ UNCHANGED outcome

\* A process starts one of the calls.  Ensure with Refresh skips the lookup;
\* with Offline too it fails before touching anything.
Start(p, call) ==
    /\ At(p, "idle")
    /\ Spend("call")
    /\ job' = [job EXCEPT ![p] = call]
    /\ seen' = [seen EXCEPT ![p] = None]
    /\ img' = [img EXCEPT ![p] = None]
    /\ IF call.kind = "ensure" /\ call.refresh
       THEN IF call.offline
            THEN /\ outcome' = [outcome EXCEPT ![p] = "offline"]
                 /\ UNCHANGED pc
            ELSE /\ outcome' = [outcome EXCEPT ![p] = "none"]
                 /\ Goto(p, "lock")
       ELSE /\ outcome' = [outcome EXCEPT ![p] = "none"]
            /\ Goto(p, "readRef")
    /\ partial' = [partial EXCEPT ![p] = "none"]
    /\ UNCHANGED <<ref, store, tag, lockFile, jammed, held>>

\* A failed lookup: Lookup reports it; Ensure gives up offline, drops the ref it
\* could not use, and otherwise provisions, with the target lock in hand or not.
LookupFailed(p, verdict) ==
    \/ /\ job[p].kind = "lookup"
       /\ Return(p, IF verdict = "error" THEN "invalid" ELSE "notFound")
    \/ /\ job[p].kind = "ensure" /\ job[p].offline
       /\ Return(p, IF verdict = "error" THEN "invalid" ELSE "offline")
    \/ /\ job[p].kind = "ensure" /\ ~job[p].offline /\ verdict = "error"
       /\ Continue(p, "discard")
    \/ /\ job[p].kind = "ensure" /\ ~job[p].offline /\ verdict = "missing"
       /\ Continue(p, IF Locked(p) THEN "resolve" ELSE "lock")

\* readRef, for a lookup; a missing ref leaves nothing to remember.
ReadRef(p) ==
    /\ At(p, "readRef")
    /\ job[p].kind # "remove"
    /\ seen' = [seen EXCEPT ![p] = IF ref[Target(p)] = None
                                   THEN @ ELSE ref[Target(p)]]
    /\ \/ ref[Target(p)] = None /\ LookupFailed(p, "missing")
       \/ ref[Target(p)] = Corrupt /\ LookupFailed(p, "error")
       \/ ref[Target(p)] \in Digests /\ Continue(p, "checkStore")
    /\ UNCHANGED <<ref, store, tag, lockFile, jammed, job, img, held, partial,
                   budget>>

\* resolutionFromRef: the store of the digest that was read.
CheckStore(p) ==
    /\ At(p, "checkStore")
    /\ LET verdict == LookupVerdict(store[seen[p]]) IN
       IF verdict = "found"
       THEN Return(p, "ok") /\ img' = [img EXCEPT ![p] = seen[p]]
       ELSE LookupFailed(p, verdict) /\ UNCHANGED img
    /\ UNCHANGED <<ref, store, tag, lockFile, jammed, job, seen, held, partial,
                   budget>>

\* discardRef: whatever the ref holds by now is removed.
Discard(p) ==
    /\ At(p, "discard")
    /\ ref' = [ref EXCEPT ![Target(p)] = None]
    /\ Continue(p, IF Locked(p) THEN "resolve" ELSE "lock")
    /\ UNCHANGED <<store, tag, lockFile, jammed, job, seen, img, held, partial,
                   budget>>

-----------------------------------------------------------------------------
\* acquireFileLock, one system call per step.

\* Mutant: the lookup is not repeated under the lock.
AcquireWithoutLookup(p) ==
    /\ At(p, "lock")
    /\ lockFile[Wanted(p)] = "none"
    /\ lockFile' = [lockFile EXCEPT ![Wanted(p)] = "fresh"]
    /\ held' = [held EXCEPT ![p] = @ \cup {Wanted(p)}]
    /\ Continue(p, IF Locked(p) THEN "probe" ELSE "resolve")
    /\ UNCHANGED <<ref, store, tag, jammed, job, seen, img, partial, budget>>

\* open(O_CREATE|O_EXCL) succeeds.
Acquire(p) ==
    /\ At(p, "lock")
    /\ lockFile[Wanted(p)] = "none"
    /\ lockFile' = [lockFile EXCEPT ![Wanted(p)] = "fresh"]
    /\ held' = [held EXCEPT ![p] = @ \cup {Wanted(p)}]
    /\ Continue(p, IF Locked(p) THEN "probe"
                   ELSE IF job[p].refresh THEN "resolve" ELSE "readRef")
    /\ UNCHANGED <<ref, store, tag, jammed, job, seen, img, partial, budget>>

\* Mutant: the age of the file is not looked at.
ContendSteals(p) ==
    /\ At(p, "lock")
    /\ lockFile[Wanted(p)] # "none"
    /\ Continue(p, "steal")
    /\ UNCHANGED <<ref, store, tag, lockFile, jammed, job, seen, img, held,
                   partial, budget>>

\* It fails; stat tells whether the file is older than two hours.
Contend(p) ==
    /\ At(p, "lock")
    /\ lockFile[Wanted(p)] # "none"
    /\ Continue(p, IF lockFile[Wanted(p)] = "stale" THEN "steal" ELSE "wait")
    /\ UNCHANGED <<ref, store, tag, lockFile, jammed, job, seen, img, held,
                   partial, budget>>

\* os.Remove of a lock file, its error ignored.
Unlink(l) ==
    lockFile' = IF l \in jammed THEN lockFile ELSE [lockFile EXCEPT ![l] = "none"]

\* The old file is removed: by its path, whoever owns the file there by now.
\* Removed or not, the loop goes on without a look at the context.
Steal(p) ==
    /\ At(p, "steal")
    /\ Unlink(Wanted(p))
    /\ Continue(p, "lock")
    /\ UNCHANGED <<ref, store, tag, jammed, job, seen, img, held, partial, budget>>

Retry(p) ==
    /\ At(p, "wait")
    /\ Continue(p, "lock")
    /\ UNCHANGED <<ref, store, tag, lockFile, jammed, job, seen, img, held,
                   partial, budget>>

\* Mutant: the wait does not look at the context.
WaitIgnoresContext(p) ==
    /\ At(p, "wait")
    /\ Continue(p, "lock")
    /\ UNCHANGED <<ref, store, tag, lockFile, jammed, job, seen, img, held,
                   partial, budget>>

LockTimeout(p) ==
    /\ At(p, "wait")
    /\ Return(p, "timeout")
    /\ UNCHANGED <<ref, store, tag, lockFile, jammed, job, seen, img, held,
                   partial, budget>>

\* The deferred release functions, the digest's lock before the target's: the
\* file is removed by its path.
Release(p) ==
    /\ At(p, "release")
    /\ LET l == IF held[p] \cap Digests = {} THEN Target(p) ELSE img[p] IN
       /\ Unlink(l)
       /\ held' = [held EXCEPT ![p] = @ \ {l}]
       /\ Goto(p, IF held[p] \ {l} = {} THEN "idle" ELSE "release")
    /\ UNCHANGED <<ref, store, tag, jammed, job, seen, img, partial, outcome,
                   budget>>

-----------------------------------------------------------------------------
\* Provisioning, with both locks.

\* registry.Resolve: the tag's digest, or a registry error.
Resolve(p) ==
    /\ At(p, "resolve")
    /\ \/ /\ img' = [img EXCEPT ![p] = tag[Target(p)]]
          /\ Continue(p, "lock")
       \/ Return(p, "network") /\ UNCHANGED img
    /\ UNCHANGED <<ref, store, tag, lockFile, jammed, job, seen, held, partial,
                   budget>>

\* Mutant: a missing store is taken for one that needs no work.
ProbeTrustsDigest(p) ==
    /\ At(p, "probe")
    /\ Continue(p, "writeRef")
    /\ UNCHANGED <<ref, store, tag, lockFile, jammed, job, seen, img, held,
                   partial, budget>>

\* Mutant: a store that no ref names is not trusted but rebuilt from scratch.
ProbeRebuilds(p) ==
    /\ At(p, "probe")
    /\ Continue(p, IF Verdict(store[img[p]]) = "missing" THEN "prepare" ELSE "wipe")
    /\ UNCHANGED <<ref, store, tag, lockFile, jammed, job, seen, img, held, partial,
                   budget>>

\* lookupStore on the resolved digest.
Probe(p) ==
    /\ At(p, "probe")
    /\ LET verdict == Verdict(store[img[p]]) IN
       Continue(p, IF verdict = "found" THEN "writeRef"
                   ELSE IF verdict = "error" THEN "wipe" ELSE "prepare")
    /\ UNCHANGED <<ref, store, tag, lockFile, jammed, job, seen, img, held, partial,
                   budget>>

\* One unlink, or the last ones, of os.RemoveAll(store/<d>).
RemoveSome(d) == \E left \in Remains[store[d]] :
                     store' = [store EXCEPT ![d] = left]
RemoveRest(d) == store' = [store EXCEPT ![d] = "absent"]

Wipe(p) ==
    /\ At(p, "wipe")
    /\ \/ RemoveSome(img[p]) /\ Continue(p, "wipe")
       \/ RemoveRest(img[p]) /\ Continue(p, "prepare")
    /\ UNCHANGED <<ref, tag, lockFile, jammed, job, seen, img, held, partial, budget>>

\* The partial directory is made, then a rootfs in it.  Its removal is deferred
\* only after both: without a rootfs the directory stays behind.
Prepare(p) ==
    /\ At(p, "prepare")
    /\ \/ /\ partial' = [partial EXCEPT ![p] = "guarded"]
          /\ Continue(p, "extract")
          /\ UNCHANGED budget
       \/ /\ Spend("stuck")
          /\ partial' = [partial EXCEPT ![p] = "left"]
          /\ outcome' = [outcome EXCEPT ![p] = "io"]
          /\ Goto(p, "release")
    /\ UNCHANGED <<ref, store, tag, lockFile, jammed, job, seen, img, held>>

\* Mutant: the ref is written before the store is in place.
ExtractSkipsCommit(p) ==
    /\ At(p, "extract")
    /\ Continue(p, "writeRef") \/ Return(p, "network")
    /\ UNCHANGED <<ref, store, tag, lockFile, jammed, job, seen, img, held,
                   partial, budget>>

\* Fetch, verify and apply every layer, validate the rootfs, write the lock and
\* .complete, all inside the partial directory; any of it may fail.
Extract(p) ==
    /\ At(p, "extract")
    /\ Continue(p, "commit") \/ Return(p, "network")
    /\ UNCHANGED <<ref, store, tag, lockFile, jammed, job, seen, img, held,
                   partial, budget>>

\* os.Rename(partialDir, storeDir) fails when the directory exists.
Commit(p) ==
    /\ At(p, "commit")
    /\ IF store[img[p]] = "absent"
       THEN /\ store' = [store EXCEPT ![img[p]] = "complete"]
            /\ partial' = [partial EXCEPT ![p] = "none"]
            /\ Continue(p, "writeRef")
       ELSE Return(p, "commitFailed") /\ UNCHANGED <<store, partial>>
    /\ UNCHANGED <<ref, tag, lockFile, jammed, job, seen, img, held, budget>>

\* writeJSONAtomic replaces the ref with one rename.
WriteRef(p) ==
    /\ At(p, "writeRef")
    /\ ref' = [ref EXCEPT ![Target(p)] = img[p]]
    /\ Return(p, "ok")
    /\ UNCHANGED <<store, tag, lockFile, jammed, job, seen, img, held, partial,
                   budget>>

\* The deferred removal of the partial directory; its error is ignored, and
\* directories that a layer left without write permission may cause one.
Cleanup(p) ==
    /\ At(p, "cleanup")
    /\ \/ partial' = [partial EXCEPT ![p] = "none"] /\ UNCHANGED budget
       \/ partial' = [partial EXCEPT ![p] = "left"] /\ Spend("stuck")
    /\ Goto(p, IF held[p] # {} THEN "release" ELSE "idle")
    /\ UNCHANGED <<ref, store, tag, lockFile, jammed, job, seen, img, held, outcome>>

\* Mutant: a failing call returns without its deferred functions.
IOFailureSkipsDefer(p) ==
    /\ pc[p] \in {"lock", "discard", "wipe", "prepare", "writeRef", "rmRef", "rmStore"}
    /\ outcome' = [outcome EXCEPT ![p] = "io"]
    /\ Goto(p, "idle")
    /\ UNCHANGED <<ref, store, tag, lockFile, jammed, job, seen, img, held,
                   partial, budget>>

\* A file-system operation of a call fails and the call returns its error.
IOFailure(p) ==
    /\ pc[p] \in {"lock", "discard", "wipe", "prepare", "writeRef", "rmRef", "rmStore"}
    /\ Return(p, "io")
    /\ UNCHANGED <<ref, store, tag, lockFile, jammed, job, seen, img, held,
                   partial, budget>>

-----------------------------------------------------------------------------
\* Remove takes no lock.

RemoveRead(p) ==
    /\ At(p, "readRef")
    /\ job[p].kind = "remove"
    /\ seen' = [seen EXCEPT ![p] = ref[Target(p)]]
    /\ IF ref[Target(p)] = Corrupt THEN Return(p, "invalid")
                                   ELSE Continue(p, "rmRef")
    /\ UNCHANGED <<ref, store, tag, lockFile, jammed, job, img, held, partial,
                   budget>>

RemoveRef(p) ==
    /\ At(p, "rmRef")
    /\ ref' = [ref EXCEPT ![Target(p)] = None]
    /\ IF job[p].purge /\ seen[p] # None THEN Continue(p, "rmCheck")
                                         ELSE Return(p, "removed")
    /\ UNCHANGED <<store, tag, lockFile, jammed, job, seen, img, held, partial,
                   budget>>

\* digestReferenced: unreadable refs do not count.
RemoveCheck(p) ==
    /\ At(p, "rmCheck")
    /\ IF \E t \in Targets : ref[t] = seen[p]
       THEN Return(p, "removed") ELSE Continue(p, "rmStore")
    /\ UNCHANGED <<ref, store, tag, lockFile, jammed, job, seen, img, held,
                   partial, budget>>

RemoveStore(p) ==
    /\ At(p, "rmStore")
    /\ \/ RemoveSome(seen[p]) /\ Continue(p, "rmStore")
       \/ RemoveRest(seen[p]) /\ Return(p, "removed")
    /\ UNCHANGED <<ref, tag, lockFile, jammed, job, seen, img, held, partial,
                   budget>>

-----------------------------------------------------------------------------
\* The environment.

\* The provider publishes another image under its tag.
MoveTag(t) ==
    /\ Spend("move")
    /\ \E d \in Offers[t] : d # tag[t] /\ tag' = [tag EXCEPT ![t] = d]
    /\ UNCHANGED <<ref, store, lockFile, jammed, pc, job, seen, img, held,
                   partial, outcome>>

\* The process dies: its lock files and its partial directory stay behind.
Crash(p) ==
    /\ Running(p)
    /\ Spend("crash")
    /\ Goto(p, "idle")
    /\ held' = [held EXCEPT ![p] = {}]
    /\ partial' = [partial EXCEPT ![p] = IF @ = "none" THEN @ ELSE "left"]
    /\ outcome' = [outcome EXCEPT ![p] = "none"]
    /\ UNCHANGED <<ref, store, tag, lockFile, jammed, job, seen, img>>

Owned(l) == \E p \in Procs : l \in held[p]

\* Two hours pass over a lock file.  That a call takes so long is an event of
\* the budget; that a dead process's file grows old is only time.
Expire(l) ==
    /\ lockFile[l] = "fresh"
    /\ IF Owned(l) THEN Spend("expire") ELSE UNCHANGED budget
    /\ lockFile' = [lockFile EXCEPT ![l] = "stale"]
    /\ UNCHANGED <<ref, store, tag, jammed, pc, job, seen, img, held, partial,
                   outcome>>

\* A lock file can no longer be removed, because of its owner or the permissions
\* of its directory.
Jam(l) ==
    /\ lockFile[l] # "none" /\ l \notin jammed
    /\ Spend("stuck")
    /\ jammed' = jammed \cup {l}
    /\ UNCHANGED <<ref, store, tag, lockFile, pc, job, seen, img, held, partial,
                   outcome>>

\* Something outside miruri loses files of a store or spoils a ref.
Damage ==
    /\ Spend("damage")
    /\ \/ /\ \E d \in Digests : RemoveSome(d)
          /\ UNCHANGED ref
       \/ /\ \E t \in Targets : ref[t] \in Digests /\ ref' = [ref EXCEPT ![t] = Corrupt]
          /\ UNCHANGED store
    /\ UNCHANGED <<tag, lockFile, jammed, pc, job, seen, img, held, partial,
                   outcome>>

-----------------------------------------------------------------------------
Step(p) ==
    \/ ReadRef(p) \/ CheckStore(p) \/ Discard(p)
    \/ Acquire(p) \/ Contend(p) \/ Steal(p) \/ Retry(p) \/ LockTimeout(p)
    \/ Resolve(p) \/ Probe(p) \/ Wipe(p) \/ Prepare(p) \/ Extract(p) \/ Commit(p)
    \/ WriteRef(p) \/ Cleanup(p) \/ Release(p) \/ IOFailure(p)
    \/ RemoveRead(p) \/ RemoveRef(p) \/ RemoveCheck(p) \/ RemoveStore(p)

Environment ==
    \/ \E t \in Targets : MoveTag(t)
    \/ \E p \in Procs : Crash(p)
    \/ \E l \in LockNames : Expire(l) \/ Jam(l)
    \/ Damage

Next ==
    \/ \E p \in Procs : (\E call \in Calls : Start(p, call)) \/ Step(p)
    \/ Environment

Spec == Init /\ [][Next]_vars

\* A running call keeps executing, and the context every Ensure gets has a
\* deadline (--sysroot-timeout), so that a process whose wait looks at it again and
\* again finds it over.
FairTo(p) == WF_vars(Step(p)) /\ SF_vars(LockTimeout(p))

-----------------------------------------------------------------------------
\* Hypotheses about a behaviour, read off its budget and its calls.

Never(k) == budget[k] = Budget[k]
Quiet == Never("crash") /\ Never("expire")
NoPurge == \A c \in Calls : ~(c.kind = "remove" /\ c.purge)

\* Two processes are never both inside the section a lock file guards, as long
\* as no process dies and no call outlives the two hours of a lock file.
MutualExclusion ==
    Quiet => \A p, q \in Procs : p # q => held[p] \cap held[q] = {}

\* Unless a process dies, a lock file on disk belongs to a running call, stolen
\* or not, or can no longer be removed; and a call that returns has given back its
\* locks on every path, the failing ones included.  It leaves its partial
\* directory only if no rootfs could be made in it or its removal failed.
NothingLeaks ==
    Never("crash") =>
        /\ \A l \in LockNames : lockFile[l] # "none" => Owned(l) \/ l \in jammed
        /\ \A p \in Procs : At(p, "idle") =>
               /\ held[p] = {}
               /\ partial[p] # "none" => partial[p] = "left" /\ ~Never("stuck")

\* Whatever processes die, are slow or race, a target is only ever locked to a
\* digest whose root file system is all there, and a call only ever returns
\* such a digest, when nothing but miruri touches the cache and nobody purges.
LockedMeansUsable ==
    Never("damage") /\ NoPurge =>
        /\ \A t \in Targets : ref[t] # None =>
               ref[t] \in Digests /\ store[ref[t]] = "complete"
        /\ \A p \in Procs : outcome[p] = "ok" => store[img[p]] = "complete"

\* A locked target moves to another digest only when a refresh says so, or after
\* a Remove, however the processes and the provider's tag interleave.
LockedStep ==
    (Quiet /\ Never("damage"))' /\ NoPurge =>
        \A t \in Targets : ref[t] # None /\ ref'[t] # ref[t] =>
            \E p \in Procs :
                /\ Target(p) = t
                /\ \/ At(p, "writeRef") /\ job[p].refresh
                   \/ At(p, "rmRef")
DigestStaysLocked == [][LockedStep]_vars

\* The cache implements the pins of module SysrootPins, in any behaviour without
\* purges, crashes, damage and outlived locks: all processes together behave as
\* one map from targets to usable digests.
Pins == INSTANCE SysrootPins WITH
    Free <- None,
    Refreshes <- {c.target : c \in {k \in Calls : k.refresh}},
    Removes <- {c.target : c \in {k \in Calls : k.kind = "remove"}},
    pin <- ref,
    usable <- {d \in Digests : store[d] = "complete"}
ImplementsPins == Pins!Spec

\* Ensure repairs a store by deleting it; what it deletes is never usable, not
\* even when the store became complete after Ensure looked at it.
WipesOnlyInvalid ==
    Quiet => \A p \in Procs : At(p, "wipe") =>
                 store[img[p]] \notin {"complete", "hollow"}

\* A process goes round and round at a lock file that is old and cannot be
\* removed, past the deadline of its context.
Spins(p) ==
    /\ pc[p] \in {"lock", "steal"}
    /\ Wanted(p) \in jammed /\ lockFile[Wanted(p)] = "stale"

-----------------------------------------------------------------------------
\* What the documents promise without such hypotheses.

\* docs/adr/0005-managed-oci-sysroots.md: an incomplete extracted store is
\* "rebuilt from verified blobs during an online operation".
IncompleteRebuiltOnline == \A p \in Procs : ~(outcome[p] = "commitFailed")
=============================================================================
