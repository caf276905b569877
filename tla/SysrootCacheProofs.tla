------------------------- MODULE SysrootCacheProofs -------------------------
(***************************************************************************)
(* Theorems about SysrootCache for every set of processes, targets,        *)
(* digests and calls and for every budget.  The inductive invariant has    *)
(* three layers: Control ties each label to the locks and the data its     *)
(* process has; Locking is what the lock files mean while no process dies  *)
(* and no call outlives a lock file; the properties follow from the two.   *)
(***************************************************************************)
EXTENDS SysrootCache, TLAPS

ControlOf(p) ==
    /\ held[p] \subseteq {Target(p), img[p]}
    /\ pc[p] \in {"idle", "rmRef", "rmCheck", "rmStore"} => held[p] = {}
    /\ pc[p] \in {"readRef", "checkStore", "discard", "resolve", "lock",
                  "wait", "steal"} => held[p] \cap Digests = {}
    /\ pc[p] \in {"lock", "wait", "steal"} /\ Locked(p) => img[p] \in Digests
    /\ pc[p] = "release" => held[p] # {}
    /\ pc[p] = "resolve" => Locked(p)
    /\ pc[p] \in {"probe", "wipe", "prepare", "extract", "commit", "writeRef"} =>
           Locked(p) /\ img[p] \in Digests /\ img[p] \in held[p]
    /\ pc[p] \in {"checkStore", "rmCheck", "rmStore"} => seen[p] \in Digests
    /\ pc[p] = "rmRef" => seen[p] # Corrupt
    /\ pc[p] \in {"rmRef", "rmCheck", "rmStore"} => job[p].kind = "remove"
    /\ pc[p] \in {"rmCheck", "rmStore"} => job[p].purge
    /\ job[p].kind = "remove" =>
           pc[p] \in {"idle", "readRef", "rmRef", "rmCheck", "rmStore"}
    /\ job[p].kind = "remove" => held[p] = {}
    /\ partial[p] = "guarded" => pc[p] \in {"extract", "commit", "cleanup"}
    /\ partial[p] = "left" => pc[p] \in {"release", "idle"}
    /\ pc[p] # "idle" => job[p] \in Calls
    /\ outcome[p] = "ok" => img[p] \in Digests
    /\ pc[p] \notin {"idle", "cleanup", "release"} => outcome[p] = "none"

Control == \A p \in Procs : ControlOf(p)

BudgetInv == \A k \in Kinds : budget[k] <= Budget[k]

Locking ==
    Quiet =>
        /\ \A p, q \in Procs : p # q => held[p] \cap held[q] = {}
        /\ \A p \in Procs : \A l \in held[p] : lockFile[l] = "fresh"
        /\ \A l \in LockNames : lockFile[l] # "none" =>
               (lockFile[l] = "fresh" /\ Owned(l)) \/ l \in jammed
        /\ \A p \in Procs : pc[p] = "steal" => Wanted(p) \in jammed

\* No store is ever less than complete, so no repair ever starts.
PinBody ==
    /\ \A d \in Digests : store[d] \in {"absent", "complete"}
    /\ \A t \in Targets : ref[t] # None =>
           ref[t] \in Digests /\ store[ref[t]] = "complete"
    /\ \A p \in Procs :
           /\ pc[p] \notin {"wipe", "rmCheck", "rmStore", "discard"}
           /\ pc[p] = "writeRef" => store[img[p]] = "complete"
           /\ pc[p] = "checkStore" => store[seen[p]] = "complete"
           /\ outcome[p] = "ok" => store[img[p]] = "complete"
PinInv == Never("damage") /\ NoPurge => PinBody

\* From the second lookup to the write, a target that was free stays free.
PinnedBody ==
    \A p \in Procs :
        /\ pc[p] \in {"lock", "wait", "steal", "resolve", "probe", "prepare",
                     "extract", "commit", "writeRef"}
        /\ Locked(p)
        => job[p].refresh \/ ref[Target(p)] = None
PinnedInv == Quiet /\ Never("damage") /\ NoPurge => PinnedBody

-----------------------------------------------------------------------------
\* The local state of a process, and that no other process's step changes it.
Same(q) ==
    /\ pc'[q] = pc[q] /\ job'[q] = job[q] /\ seen'[q] = seen[q]
    /\ img'[q] = img[q] /\ held'[q] = held[q] /\ partial'[q] = partial[q]
    /\ outcome'[q] = outcome[q]

\* Control says nothing of shared state, so it survives a step of another.
LEMMA SameControl ==
    ASSUME NEW q \in Procs, ControlOf(q), Same(q)
    PROVE  ControlOf(q)'
BY DEF ControlOf, Same, Locked, Target

LEMMA StepSame ==
    ASSUME TypeOK, NEW p \in Procs, Step(p), NEW q \in Procs, q # p
    PROVE  Same(q)
<1> USE DEF TypeOK, Same, Continue, Return, Goto
<1>1. CASE ReadRef(p) BY <1>1 DEF ReadRef, LookupFailed
<1>2. CASE CheckStore(p) BY <1>2 DEF CheckStore, LookupFailed
<1>3. CASE Discard(p) BY <1>3 DEF Discard
<1>4. CASE Acquire(p) \/ Contend(p) \/ Steal(p) \/ Retry(p) \/ LockTimeout(p)
  BY <1>4 DEF Acquire, Contend, Steal, Retry, LockTimeout
<1>5. CASE Resolve(p) \/ Probe(p) \/ Prepare(p) \/ Extract(p)
  BY <1>5 DEF Resolve, Probe, Prepare, Extract
<1>6. CASE Wipe(p) \/ Commit(p) BY <1>6 DEF Wipe, Commit
<1>7. CASE WriteRef(p) \/ Cleanup(p) \/ IOFailure(p)
  BY <1>7 DEF WriteRef, Cleanup, IOFailure
<1>8. CASE Release(p) BY <1>8 DEF Release
<1>9. CASE RemoveRead(p) \/ RemoveRef(p) \/ RemoveCheck(p) \/ RemoveStore(p)
  BY <1>9 DEF RemoveRead, RemoveRef, RemoveCheck, RemoveStore
<1> QED BY <1>1, <1>2, <1>3, <1>4, <1>5, <1>6, <1>7, <1>8, <1>9 DEF Step

-----------------------------------------------------------------------------
\* What is left of a store is one of its states, and never more than there was.
LEMMA RemainsType ==
    /\ \A s \in StoreStates : Remains[s] \subseteq StoreStates \ {"complete"}
    /\ \A s \in StoreStates \ {"complete"} : "hollow" \notin Remains[s]
BY DEF Remains, StoreStates

LEMMA RemoveType ==
    ASSUME TypeOK, NEW d \in Digests, RemoveSome(d) \/ RemoveRest(d)
    PROVE  store' \in [Digests -> StoreStates]
<1>1. CASE RemoveSome(d)
  <2>1. PICK left \in Remains[store[d]] : store' = [store EXCEPT ![d] = left]
    BY <1>1 DEF RemoveSome
  <2>2. left \in StoreStates
    BY <2>1, RemainsType DEF TypeOK
  <2> QED BY <2>1, <2>2 DEF TypeOK
<1>2. CASE RemoveRest(d)
  BY <1>2 DEF RemoveRest, TypeOK, StoreStates
<1> QED BY <1>1, <1>2

LEMMA JobType ==
    ASSUME TypeOK, NEW p \in Procs
    PROVE  /\ Target(p) \in Targets
           /\ job[p].refresh \in BOOLEAN /\ job[p].offline \in BOOLEAN
           /\ job[p].purge \in BOOLEAN
BY DEF TypeOK, Target, Jobs

\* Every operation of a process keeps the types ...
LEMMA StepType ==
    ASSUME TypeOK, Control, NEW p \in Procs, Step(p)
    PROVE  TypeOK'
<1>0. ControlOf(p) /\ Target(p) \in Targets
  BY JobType DEF Control
<1> USE NamesAssumption, OffersAssumption
        DEF TypeOK, Continue, Return, Goto, At, Labels, Outcomes, LockNames,
            Partials
<1>1. CASE ReadRef(p)
  BY <1>0, <1>1 DEF ControlOf, ReadRef, LookupFailed
<1>2. CASE CheckStore(p)
  BY <1>0, <1>2 DEF ControlOf, CheckStore, LookupFailed
<1>3. CASE Discard(p)
  BY <1>0, <1>3 DEF ControlOf, Discard
<1>4. CASE Acquire(p)
  <2>1. Wanted(p) \in LockNames
    BY <1>0, <1>4 DEF Wanted, ControlOf, Acquire
  <2> QED BY <2>1, <1>4 DEF Acquire
<1>5. CASE Contend(p)
  BY <1>0, <1>5 DEF ControlOf, Contend
<1>6. CASE Steal(p)
  BY <1>6 DEF Steal, Unlink
<1>7. CASE Retry(p)
  BY <1>0, <1>7 DEF ControlOf, Retry
<1>8. CASE LockTimeout(p)
  BY <1>0, <1>8 DEF ControlOf, LockTimeout
<1>9. CASE Resolve(p)
  BY <1>0, <1>9 DEF ControlOf, Resolve
<1>10. CASE Probe(p)
  BY <1>0, <1>10 DEF ControlOf, Probe
<1>11. CASE Wipe(p)
  <2>1. store' \in [Digests -> StoreStates]
    BY <1>0, <1>11, RemoveType DEF ControlOf, Wipe
  <2> QED BY <2>1, <1>11 DEF Wipe
<1>12. CASE Extract(p)
  BY SMTT(30), <1>0, <1>12 DEF ControlOf, Extract
<1>13. CASE Commit(p)
  <2>1. CASE store[img[p]] = "absent"
    <3>1. store' \in [Digests -> StoreStates]
      BY <1>13, <2>1 DEF Commit, StoreStates
    <3>2. pc' \in [Procs -> Labels]
      BY <1>13, <2>1 DEF Commit
    <3>3. partial' = [partial EXCEPT ![p] = "none"]
      BY <1>13, <2>1 DEF Commit
    <3> QED BY <1>13, <2>1, <3>1, <3>2, <3>3 DEF Commit
  <2>2. CASE store[img[p]] # "absent"
    BY <1>13, <2>2 DEF Commit
  <2> QED BY <2>1, <2>2
<1>14. CASE WriteRef(p)
  BY <1>0, <1>14 DEF ControlOf, WriteRef
<1>15. CASE Cleanup(p)
  BY <1>0, <1>15 DEF ControlOf, Cleanup, Spend, Kinds
<1>16. CASE Release(p)
  BY <1>0, <1>16 DEF ControlOf, Release, Unlink
<1>17. CASE IOFailure(p)
  BY <1>0, <1>17 DEF ControlOf, IOFailure
<1>18. CASE RemoveRead(p)
  BY <1>0, <1>18 DEF ControlOf, RemoveRead
<1>19. CASE RemoveRef(p)
  BY <1>0, <1>19 DEF ControlOf, RemoveRef
<1>20. CASE RemoveCheck(p)
  <2>1. UNCHANGED <<ref, store, tag, lockFile, jammed, job, seen, img, held,
                    partial, budget>>
    BY <1>20 DEF RemoveCheck
  <2>2. pc' \in [Procs -> Labels] /\ outcome' \in [Procs -> Outcomes]
    BY <1>0, <1>20 DEF ControlOf, RemoveCheck
  <2> QED BY <2>1, <2>2
<1>21. CASE RemoveStore(p)
  <2>1. store' \in [Digests -> StoreStates]
    BY <1>0, <1>21, RemoveType DEF ControlOf, RemoveStore
  <2> QED BY <2>1, <1>21 DEF RemoveStore
<1>22. CASE Prepare(p)
  BY <1>0, <1>22 DEF ControlOf, Prepare, Spend, Kinds
<1> QED BY <1>1, <1>2, <1>3, <1>4, <1>5, <1>6, <1>7, <1>8, <1>9, <1>10, <1>11, <1>12, <1>13, <1>14, <1>15, <1>16, <1>17, <1>18, <1>19, <1>20, <1>21, <1>22 DEF Step

\* ... and what its label says of its locks and its data.
LEMMA StepControl ==
    ASSUME TypeOK, Control, NEW p \in Procs, Step(p)
    PROVE  Control'
<1> USE NamesAssumption, OffersAssumption
        DEF TypeOK, Continue, Return, Goto, At, Labels, LockNames, Target,
            Wanted, Locked, Jobs
<1>0. ControlOf(p)
  BY DEF Control
<1> SUFFICES ControlOf(p)'
  BY SameControl, StepSame DEF Control
<1>1. CASE ReadRef(p)
  BY <1>0, <1>1 DEF ControlOf, ReadRef, LookupFailed
<1>2. CASE CheckStore(p)
  BY <1>0, <1>2 DEF ControlOf, CheckStore, LookupFailed
<1>3. CASE Discard(p)
  BY <1>0, <1>3 DEF ControlOf, Discard
<1>4. CASE Acquire(p)
  BY <1>0, <1>4 DEF ControlOf, Acquire
<1>5. CASE Contend(p)
  BY <1>0, <1>5 DEF ControlOf, Contend
<1>6. CASE Steal(p)
  BY <1>0, <1>6 DEF ControlOf, Steal
<1>7. CASE Retry(p)
  BY <1>0, <1>7 DEF ControlOf, Retry
<1>8. CASE LockTimeout(p)
  BY <1>0, <1>8 DEF ControlOf, LockTimeout
<1>9. CASE Resolve(p)
  BY <1>0, <1>9 DEF ControlOf, Resolve
<1>10. CASE Probe(p)
  BY <1>0, <1>10 DEF ControlOf, Probe
<1>11. CASE Wipe(p)
  BY <1>0, <1>11 DEF ControlOf, Wipe, RemoveSome, RemoveRest, Remains
<1>12. CASE Extract(p)
  BY <1>0, <1>12 DEF ControlOf, Extract
<1>13. CASE Commit(p)
  BY <1>0, <1>13 DEF ControlOf, Commit
<1>14. CASE WriteRef(p)
  BY <1>0, <1>14 DEF ControlOf, WriteRef
<1>15. CASE Cleanup(p)
  BY <1>0, <1>15 DEF ControlOf, Cleanup, Spend, Kinds
<1>16. CASE Release(p)
  BY <1>0, <1>16 DEF ControlOf, Release, Unlink
<1>17. CASE IOFailure(p)
  BY <1>0, <1>17 DEF ControlOf, IOFailure
<1>18. CASE RemoveRead(p)
  BY <1>0, <1>18 DEF ControlOf, RemoveRead
<1>19. CASE RemoveRef(p)
  BY <1>0, <1>19 DEF ControlOf, RemoveRef
<1>20. CASE RemoveCheck(p)
  BY <1>0, <1>20 DEF ControlOf, RemoveCheck
<1>21. CASE RemoveStore(p)
  BY <1>0, <1>21 DEF ControlOf, RemoveStore, RemoveSome, RemoveRest, Remains
<1>22. CASE Prepare(p)
  BY <1>0, <1>22 DEF ControlOf, Prepare, Spend, Kinds
<1> QED BY <1>1, <1>2, <1>3, <1>4, <1>5, <1>6, <1>7, <1>8, <1>9, <1>10, <1>11, <1>12, <1>13, <1>14, <1>15, <1>16, <1>17, <1>18, <1>19, <1>20, <1>21, <1>22 DEF Step

\* The other steps of Next: a call starts, or the environment acts.
LEMMA StartSafe ==
    ASSUME TypeOK, Control, NEW p \in Procs, NEW call \in Calls, Start(p, call)
    PROVE  TypeOK' /\ Control'
<1>1. call \in Jobs /\ call.kind \in {"ensure", "lookup", "remove"}
  BY CallsAssumption DEF Jobs
<1>2. TypeOK'
  BY <1>1 DEF TypeOK, Start, Spend, Goto, At, Labels, Outcomes, Kinds, Partials
<1>3. ControlOf(p)'
  BY <1>1, NamesAssumption
  DEF Control, ControlOf, TypeOK, Start, Goto, At, Locked, Target
<1>4. \A q \in Procs : q # p => Same(q)
  BY DEF TypeOK, Start, Goto, Same
<1> QED BY <1>2, <1>3, <1>4, SameControl DEF Control

LEMMA EnvironmentSafe ==
    ASSUME TypeOK, Control, Environment
    PROVE  TypeOK' /\ Control'
<1>1. CASE \E t \in Targets : MoveTag(t)
  <2>2. PICK t \in Targets : MoveTag(t)
    BY <1>1
  <2>3. PICK d \in Offers[t] : tag' = [tag EXCEPT ![t] = d]
    BY <2>2 DEF MoveTag
  <2>4. d \in Digests
    BY <2>3, OffersAssumption
  <2>1. TypeOK'
    BY <2>2, <2>3, <2>4 DEF TypeOK, MoveTag, Spend, Kinds
  <2> QED BY <1>1, <2>1, SameControl DEF MoveTag, Same, Control
<1>2. CASE \E p \in Procs : Crash(p)
  <2>1. PICK p \in Procs : Crash(p)
    BY <1>2
  <2>2. TypeOK'
    BY <2>1 DEF TypeOK, Crash, Spend, Goto, Labels, Outcomes, Kinds, Partials
  <2>3. ControlOf(p)'
    BY <2>1 DEF Control, ControlOf, TypeOK, Crash, Goto, Locked, Target
  <2>4. \A q \in Procs : q # p => Same(q)
    BY <2>1 DEF TypeOK, Crash, Goto, Same
  <2> QED BY <2>2, <2>3, <2>4, SameControl DEF Control
<1>3. CASE \E l \in LockNames : Expire(l) \/ Jam(l)
  <2>1. TypeOK'
    BY <1>3 DEF TypeOK, Expire, Jam, Spend, Kinds
  <2> QED BY <1>3, <2>1, SameControl DEF Expire, Jam, Same, Control
<1>4. CASE Damage
  <2>1. ref' \in [Targets -> Digests \cup {None, Corrupt}]
    BY <1>4 DEF Damage, TypeOK
  <2>2. store' \in [Digests -> StoreStates]
    BY <1>4, RemoveType DEF Damage, TypeOK
  <2>3. TypeOK'
    BY <1>4, <2>1, <2>2 DEF TypeOK, Damage, Spend, Kinds
  <2> QED BY <1>4, <2>3, SameControl DEF Damage, Same, Control
<1> QED BY <1>1, <1>2, <1>3, <1>4 DEF Environment

\* The budget only ever shrinks, so what has not happened yet never had.
LEMMA BudgetShrinks ==
    ASSUME TypeOK, BudgetInv, [Next]_vars
    PROVE  /\ BudgetInv'
           /\ \A k \in Kinds : Never(k)' => Never(k) /\ budget'[k] = budget[k]
<1> USE BudgetAssumption DEF TypeOK, BudgetInv, Never, Kinds
<1>1. CASE \E p \in Procs, call \in Calls : Start(p, call)
  BY <1>1 DEF Start, Spend
<1>2. CASE \E p \in Procs : Step(p)
  BY <1>2 DEF Step, ReadRef, CheckStore, Discard, Acquire, Contend, Steal,
     Retry, LockTimeout, Resolve, Probe, Wipe, Prepare, Extract, Commit, WriteRef,
     Cleanup, Release, IOFailure, RemoveRead, RemoveRef, RemoveCheck,
     RemoveStore, Spend
<1>3. CASE Environment
  BY <1>3 DEF Environment, MoveTag, Crash, Expire, Jam, Damage, Spend
<1>4. CASE UNCHANGED vars
  BY <1>4 DEF vars
<1> QED BY <1>1, <1>2, <1>3, <1>4 DEF Next

\* Types, control and budget are an inductive invariant by themselves.
Base == TypeOK /\ Control /\ BudgetInv

LEMMA InitBase == Init => Base
<1> SUFFICES ASSUME Init PROVE Base
  OBVIOUS
<1>1. (CHOOSE c \in Calls : TRUE) \in Calls
  BY CallsAssumption
<1>2. (CHOOSE c \in Calls : TRUE) \in Jobs
  BY <1>1, CallsAssumption
<1>3. TypeOK
  BY <1>2, BudgetAssumption
  DEF Init, TypeOK, StoreStates, Labels, Outcomes, LockNames, Partials
<1>4. Control
  BY DEF Init, Control, ControlOf, Locked
<1>5. BudgetInv
  BY BudgetAssumption DEF Init, BudgetInv
<1> QED BY <1>3, <1>4, <1>5 DEF Base

LEMMA NextBase == Base /\ [Next]_vars => Base'
<1> SUFFICES ASSUME Base, [Next]_vars PROVE Base'
  OBVIOUS
<1>1. BudgetInv'
  BY BudgetShrinks DEF Base
<1>2. CASE Next
  BY <1>1, <1>2, StartSafe, StepType, StepControl, EnvironmentSafe DEF Next, Base
<1>3. CASE UNCHANGED vars
  BY <1>1, <1>3
  DEF vars, Base, TypeOK, Control, ControlOf, Locked, Target, LockNames
<1> QED BY <1>2, <1>3

THEOREM BaseInvariant == Spec => []Base
BY InitBase, NextBase, PTL DEF Spec

\* Every variable keeps its type: no operation looks up a digest, a lock or a
\* label that does not exist.
THEOREM TypeCorrect == Spec => []TypeOK
BY BaseInvariant, PTL DEF Base

-----------------------------------------------------------------------------
\* What a step may do to the locks, the stores and the refs, whoever takes it.
LEMMA QuietPrime ==
    ASSUME Base, [Next]_vars, Quiet'
    PROVE  Quiet /\ budget'["crash"] = budget["crash"]
                 /\ budget'["expire"] = budget["expire"]
BY BudgetShrinks DEF Base, Quiet, Kinds

LEMMA NextLocking ==
    ASSUME Base, Locking, [Next]_vars
    PROVE  Locking'
<1> SUFFICES ASSUME Quiet'
             PROVE  /\ \A p, q \in Procs : p # q => held'[p] \cap held'[q] = {}
                    /\ \A p \in Procs : \A l \in held'[p] : lockFile'[l] = "fresh"
                    /\ \A l \in LockNames : lockFile'[l] # "none" =>
                           (lockFile'[l] = "fresh" /\ Owned(l)') \/ l \in jammed'
                    /\ \A p \in Procs : pc'[p] = "steal" => Wanted(p)' \in jammed'
  BY DEF Locking
<1>1. Quiet /\ budget'["crash"] = budget["crash"]
            /\ budget'["expire"] = budget["expire"]
  BY QuietPrime
<1>2. TypeOK /\ Control /\ TypeOK'
  BY NextBase DEF Base
<1> DEFINE Locks == /\ \A p, q \in Procs : p # q => held[p] \cap held[q] = {}
                    /\ \A p \in Procs : \A l \in held[p] : lockFile[l] = "fresh"
                    /\ \A l \in LockNames : lockFile[l] # "none" =>
                           (lockFile[l] = "fresh" /\ Owned(l)) \/ l \in jammed
           Thief(p) == pc[p] = "steal" => Wanted(p) \in jammed
<1> SUFFICES Locks' /\ \A p \in Procs : Thief(p)'
  OBVIOUS
<1>3. Locks /\ \A p \in Procs : Thief(p)
  BY <1>1 DEF Locking
<1>4. ASSUME UNCHANGED <<held, lockFile>>, jammed \subseteq jammed' PROVE Locks'
  BY <1>3, <1>4 DEF Owned, LockNames
<1>5. ASSUME NEW p \in Procs, Same(p), jammed \subseteq jammed' PROVE Thief(p)'
  BY <1>3, <1>5 DEF Same, Wanted, Locked, Target
<1>6. ASSUME NEW p \in Procs, Step(p), pc'[p] # "steal" \/ Wanted(p)' \in jammed
      PROVE  \A q \in Procs : Thief(q)'
  <2>1. jammed' = jammed
    BY <1>6 DEF Step, ReadRef, CheckStore, Discard, Acquire, Contend, Steal, Retry,
       LockTimeout, Resolve, Probe, Wipe, Prepare, Extract, Commit, WriteRef,
       Cleanup, Release, IOFailure, RemoveRead, RemoveRef, RemoveCheck, RemoveStore
  <2> QED BY <1>2, <1>5, <1>6, <2>1, StepSame
<1>7. ASSUME NEW p \in Procs, NEW call \in Calls, Start(p, call)
      PROVE  Locks' /\ \A q \in Procs : Thief(q)'
  <2>1. pc'[p] # "steal" /\ \A q \in Procs : q # p => Same(q)
    BY <1>2, <1>7 DEF Start, Goto, At, TypeOK, Same
  <2> QED BY <1>4, <1>5, <1>7, <2>1 DEF Start
<1>8. ASSUME NEW p \in Procs, Acquire(p)
      PROVE  Locks' /\ \A q \in Procs : Thief(q)'
  <2> DEFINE l == Wanted(p)
  <2>1. l \in LockNames /\ lockFile[l] = "none"
    BY <1>2, <1>8, JobType DEF Control, ControlOf, Acquire, At, Wanted, LockNames
  <2>2. \A q \in Procs : l \notin held[q]
    BY <1>3, <2>1
  <2>3. /\ lockFile' = [lockFile EXCEPT ![l] = "fresh"]
        /\ held' = [held EXCEPT ![p] = @ \cup {l}]
        /\ jammed' = jammed
    BY <1>8 DEF Acquire
  <2>4. pc'[p] # "steal"
    BY <1>2, <1>8 DEF Acquire, Continue, Goto, TypeOK
  <2> HIDE DEF l
  <2>5. Locks'
    BY <1>2, <1>3, <2>1, <2>2, <2>3 DEF TypeOK, Owned, LockNames
  <2> QED BY <1>6, <1>8, <2>4, <2>5 DEF Step
<1>9. ASSUME NEW p \in Procs, Release(p)
      PROVE  Locks' /\ \A q \in Procs : Thief(q)'
  <2> DEFINE l == IF held[p] \cap Digests = {} THEN Target(p) ELSE img[p]
  <2>1. Unlink(l) /\ held' = [held EXCEPT ![p] = @ \ {l}] /\ jammed' = jammed
    BY <1>9 DEF Release
  <2>2. pc'[p] # "steal"
    BY <1>2, <1>9 DEF Release, Goto, TypeOK
  <2>3. l \in held[p]
    <3>1. /\ held[p] # {} /\ held[p] \subseteq {Target(p), img[p]}
          /\ held[p] \subseteq LockNames
      BY <1>2, <1>9 DEF Control, ControlOf, Release, At, TypeOK
    <3>2. Target(p) \in Targets /\ img[p] \in Digests \cup {None}
      BY <1>2, JobType DEF TypeOK
    <3> QED BY <3>1, <3>2, NamesAssumption DEF LockNames
  <2>4. l \in LockNames /\ \A q \in Procs : q # p => l \notin held[q]
    BY <1>2, <1>3, <2>3 DEF TypeOK
  <2> HIDE DEF l
  <2>5. Locks'
    BY <1>2, <1>3, <2>1, <2>4 DEF Unlink, TypeOK, Owned, LockNames
  <2> QED BY <1>6, <1>9, <2>2, <2>5 DEF Step
<1>10. ASSUME NEW p \in Procs, Contend(p)
       PROVE  Locks' /\ \A q \in Procs : Thief(q)'
  <2>1. Wanted(p) \in LockNames
    BY <1>2, <1>10, JobType
    DEF Control, ControlOf, Contend, At, Wanted, LockNames
  <2>2. lockFile[Wanted(p)] = "stale" => Wanted(p) \in jammed
    BY <1>3, <2>1
  <2>3. pc'[p] # "steal" \/ Wanted(p)' \in jammed
    BY <1>2, <1>10, <2>2 DEF Contend, Continue, Goto, TypeOK, Wanted, Locked, Target
  <2> QED BY <1>4, <1>6, <1>10, <2>3 DEF Step, Contend
<1>11. ASSUME NEW p \in Procs, Steal(p)
       PROVE  Locks' /\ \A q \in Procs : Thief(q)'
  <2>1. UNCHANGED <<held, lockFile, jammed>>
    BY <1>3, <1>11 DEF Steal, Unlink, At
  <2>2. pc'[p] # "steal"
    BY <1>2, <1>11 DEF Steal, Continue, Goto, TypeOK
  <2> QED BY <1>4, <1>6, <1>11, <2>1, <2>2 DEF Step
<1>12. ASSUME NEW p \in Procs, Step(p),
              ~(Acquire(p) \/ Release(p) \/ Contend(p) \/ Steal(p))
       PROVE  Locks' /\ \A q \in Procs : Thief(q)'
  <2>1. UNCHANGED <<held, lockFile, jammed>>
    BY <1>12 DEF Step, ReadRef, CheckStore, Discard, Retry, LockTimeout, Resolve,
       Probe, Wipe, Prepare, Extract, Commit, WriteRef, Cleanup, IOFailure,
       RemoveRead, RemoveRef, RemoveCheck, RemoveStore
  <2>2. pc'[p] # "steal"
    BY <1>2, <1>12 DEF Step, ReadRef, CheckStore, LookupFailed, Discard, Retry,
       LockTimeout, Resolve, Probe, Wipe, Prepare, Extract, Commit, WriteRef,
       Cleanup, IOFailure, RemoveRead, RemoveRef, RemoveCheck, RemoveStore,
       Continue, Return, Goto, TypeOK
  <2> QED BY <1>4, <1>6, <1>12, <2>1, <2>2
<1>13. ASSUME Environment
       PROVE  Locks' /\ \A q \in Procs : Thief(q)'
  <2>1. \A p \in Procs : ~Crash(p)
    BY <1>1, <1>2 DEF Crash, Spend, TypeOK, Kinds
  <2>2. jammed \subseteq jammed' /\ \A q \in Procs : Same(q)
    BY <1>13, <2>1 DEF Environment, MoveTag, Expire, Jam, Damage, Same
  <2>3. CASE \E l \in LockNames : Expire(l)
    <3>1. PICK l \in LockNames : Expire(l)
      BY <2>3
    <3>2. ~Owned(l) /\ lockFile[l] # "none"
      BY <1>1, <1>2, <3>1 DEF Expire, Spend, TypeOK, Kinds
    <3>3. l \in jammed /\ \A q \in Procs : l \notin held[q]
      BY <1>3, <3>2 DEF Owned
    <3>4. lockFile' = [lockFile EXCEPT ![l] = "stale"] /\ UNCHANGED <<held, jammed>>
      BY <3>1 DEF Expire
    <3> QED BY <1>2, <1>3, <1>5, <2>2, <3>3, <3>4 DEF TypeOK, Owned, LockNames
  <2>4. CASE ~\E l \in LockNames : Expire(l)
    <3>1. UNCHANGED <<held, lockFile>>
      BY <1>13, <2>1, <2>4 DEF Environment, MoveTag, Jam, Damage
    <3> QED BY <1>4, <1>5, <2>2, <3>1
  <2> QED BY <2>3, <2>4
<1>14. ASSUME UNCHANGED vars PROVE Locks' /\ \A q \in Procs : Thief(q)'
  BY <1>4, <1>5, <1>14 DEF vars, Same
<1> QED
  BY <1>7, <1>8, <1>9, <1>10, <1>11, <1>12, <1>13, <1>14 DEF Next

\* MutualExclusion: an old holder never meets a new one while nobody dies and no
\* lock file is outlived.  This is what the wait loop of acquireFileLock gives;
\* stealing is outside it.
THEOREM Exclusion == Spec => []MutualExclusion
<1>1. Init => Locking
  BY DEF Init, Locking
<1>2. Base /\ Locking /\ [Next]_vars => Locking'
  BY NextLocking
<1>3. Locking => MutualExclusion
  BY DEF Locking, MutualExclusion
<1> QED BY <1>1, <1>2, <1>3, BaseInvariant, PTL DEF Spec

-----------------------------------------------------------------------------
\* While no process dies, every lock file on disk is one that a running call
\* believes to be its own, or one that cannot be removed.  Stealing does not
\* change that: it removes a file.
Leakless ==
    Never("crash") =>
        /\ \A l \in LockNames : lockFile[l] # "none" => Owned(l) \/ l \in jammed
        /\ Never("stuck") => \A p \in Procs : partial[p] # "left"

LEMMA NextLeakless ==
    ASSUME Base, Leakless, [Next]_vars
    PROVE  Leakless'
<1> DEFINE Clean == \A l \in LockNames : lockFile[l] # "none" => Owned(l) \/ l \in jammed
           Swept == Never("stuck") => \A p \in Procs : partial[p] # "left"
<1> SUFFICES ASSUME Never("crash")' PROVE Clean' /\ Swept'
  BY DEF Leakless
<1>1. Clean /\ Swept /\ budget'["crash"] = budget["crash"]
  BY BudgetShrinks DEF Base, Leakless, Kinds
<1>2. TypeOK /\ Control
  BY DEF Base
<1>3. ASSUME NEW p \in Procs PROVE ~Crash(p)
  BY <1>1, <1>2 DEF Crash, Spend, TypeOK, Kinds
<1>4. Swept'
  <2> SUFFICES ASSUME Never("stuck")', NEW q \in Procs PROVE partial'[q] # "left"
    OBVIOUS
  <2>1. partial[q] # "left" /\ budget'["stuck"] = budget["stuck"]
    BY <1>1, BudgetShrinks DEF Base, Kinds
  <2>2. ASSUME NEW p \in Procs, NEW call \in Calls, Start(p, call)
        PROVE  partial'[q] # "left"
    BY <1>2, <2>1, <2>2 DEF Start, TypeOK
  <2>3. ASSUME NEW p \in Procs, Prepare(p) \/ Cleanup(p)
        PROVE  partial'[q] # "left"
    BY <1>2, <2>1, <2>3 DEF Prepare, Cleanup, Spend, TypeOK, Kinds
  <2>4. ASSUME NEW p \in Procs, Commit(p) PROVE partial'[q] # "left"
    BY <1>2, <2>1, <2>4 DEF Commit, TypeOK
  <2>5. ASSUME NEW p \in Procs, Step(p), ~(Prepare(p) \/ Cleanup(p) \/ Commit(p))
        PROVE  partial' = partial
    BY <2>5 DEF Step, ReadRef, CheckStore, Discard, Acquire, Contend, Steal, Retry,
       LockTimeout, Resolve, Probe, Wipe, Extract, WriteRef, Release, IOFailure,
       RemoveRead, RemoveRef, RemoveCheck, RemoveStore
  <2>6. Environment => partial' = partial
    BY <1>3 DEF Environment, MoveTag, Expire, Jam, Damage
  <2> QED BY <2>1, <2>2, <2>3, <2>4, <2>5, <2>6 DEF Next, vars
<1>5. ASSUME UNCHANGED <<held, lockFile>>, jammed \subseteq jammed' PROVE Clean'
  BY <1>1, <1>5 DEF Owned
<1>6. ASSUME NEW p \in Procs, Acquire(p) PROVE Clean'
  <2>1. PICK l : /\ lockFile' = [lockFile EXCEPT ![l] = "fresh"]
                 /\ held' = [held EXCEPT ![p] = @ \cup {l}]
                 /\ jammed' = jammed
    BY <1>6 DEF Acquire
  <2>2. (\A q \in Procs : held[q] \subseteq held'[q]) /\ l \in held'[p]
    BY <1>2, <2>1 DEF TypeOK
  <2>3. ASSUME NEW k \in LockNames, lockFile'[k] # "none"
        PROVE  Owned(k)' \/ k \in jammed'
    <3>1. CASE k = l
      BY <2>2, <3>1 DEF Owned
    <3>2. CASE k # l
      BY <1>1, <1>2, <2>1, <2>2, <2>3, <3>2 DEF Owned, TypeOK
    <3> QED BY <3>1, <3>2
  <2> QED BY <2>3
<1>7. ASSUME NEW p \in Procs, Release(p) PROVE Clean'
  <2>1. PICK l : Unlink(l) /\ held' = [held EXCEPT ![p] = @ \ {l}] /\ jammed' = jammed
    BY <1>7 DEF Release
  <2>2. \A q \in Procs : held[q] \ {l} \subseteq held'[q]
    BY <1>2, <2>1 DEF TypeOK
  <2>3. ASSUME NEW k \in LockNames, lockFile'[k] # "none"
        PROVE  Owned(k)' \/ k \in jammed'
    <3>1. lockFile[k] # "none" /\ (k # l \/ k \in jammed)
      BY <1>2, <2>1, <2>3 DEF TypeOK, Unlink
    <3> QED BY <1>1, <2>1, <2>2, <3>1 DEF Owned
  <2> QED BY <2>3
<1>8. ASSUME NEW p \in Procs, Steal(p) PROVE Clean'
  BY <1>1, <1>2, <1>8 DEF Steal, Unlink, TypeOK, Owned
<1>9. ASSUME NEW l \in LockNames, Expire(l) PROVE Clean'
  BY <1>1, <1>2, <1>9 DEF Expire, TypeOK, Owned
<1>10. ASSUME NEW p \in Procs, Step(p), ~(Acquire(p) \/ Release(p) \/ Steal(p))
       PROVE  UNCHANGED <<held, lockFile, jammed>>
  BY <1>10 DEF Step, ReadRef, CheckStore, Discard, Contend, Retry, LockTimeout,
     Resolve, Probe, Wipe, Prepare, Extract, Commit, WriteRef, Cleanup, IOFailure,
     RemoveRead, RemoveRef, RemoveCheck, RemoveStore
<1>11. ASSUME Environment PROVE Clean'
  <2>1. CASE \E t \in Targets : MoveTag(t)
    BY <1>5, <2>1 DEF MoveTag
  <2>2. CASE \E l \in LockNames : Jam(l)
    BY <1>5, <2>2 DEF Jam
  <2>3. CASE Damage
    BY <1>5, <2>3 DEF Damage
  <2> QED BY <1>3, <1>9, <1>11, <2>1, <2>2, <2>3 DEF Environment
<1>12. ASSUME UNCHANGED vars \/ \E p \in Procs, call \in Calls : Start(p, call)
       PROVE  Clean'
  BY <1>5, <1>12 DEF vars, Start
<1>13. Clean'
  BY <1>5, <1>6, <1>7, <1>8, <1>10, <1>11, <1>12 DEF Next
<1> QED BY <1>4, <1>13

\* Every return of Ensure and Remove, with an error or without one, goes through
\* the deferred functions: a call that is over holds no lock, a lock file without
\* a running owner means that a process died or that the file cannot be removed,
\* and a partial directory stays only when a step on it failed: the one before its
\* removal is deferred, or the removal.
THEOREM CallsCleanUp == Spec => []NothingLeaks
<1>1. Init => Leakless
  BY DEF Init, Leakless
<1>2. Base /\ Leakless => NothingLeaks
  <2> SUFFICES ASSUME Base, Leakless, Never("crash") PROVE NothingLeaks
    BY DEF NothingLeaks
  <2>1. \A l \in LockNames : lockFile[l] # "none" => Owned(l) \/ l \in jammed
    BY DEF Leakless
  <2>2. ASSUME NEW p \in Procs, At(p, "idle")
        PROVE  held[p] = {} /\ (partial[p] # "none" => partial[p] = "left")
    BY <2>2 DEF Base, TypeOK, Partials, Control, ControlOf, At
  <2>3. ASSUME NEW p \in Procs, partial[p] = "left" PROVE ~Never("stuck")
    BY <2>3 DEF Leakless
  <2> QED BY <2>1, <2>2, <2>3 DEF NothingLeaks
<1> QED BY <1>1, <1>2, NextLeakless, BaseInvariant, PTL DEF Spec

-----------------------------------------------------------------------------
\* Removing files never makes an unusable store usable.
Unusable(d) == store[d] \notin {"complete", "hollow"}

LEMMA RemoveUnusable ==
    ASSUME TypeOK, NEW d \in Digests, RemoveSome(d) \/ RemoveRest(d),
           NEW e \in Digests, Unusable(e)
    PROVE  Unusable(e)'
<1>1. CASE RemoveSome(d)
  <2>1. PICK left \in Remains[store[d]] : store' = [store EXCEPT ![d] = left]
    BY <1>1 DEF RemoveSome
  <2>2. CASE e = d
    <3>1. left \notin {"complete", "hollow"}
      BY <2>1, <2>2, RemainsType DEF TypeOK, Unusable
    <3> QED BY <2>1, <2>2, <3>1 DEF TypeOK, Unusable
  <2>3. CASE e # d
    BY <2>1, <2>3 DEF TypeOK, Unusable
  <2> QED BY <2>2, <2>3
<1>2. CASE RemoveRest(d)
  BY <1>2 DEF RemoveRest, TypeOK, Unusable
<1> QED BY <1>1, <1>2

\* Only a commit makes a store usable, and its process holds the digest's lock.
LEMMA StepUnusable ==
    ASSUME TypeOK, Control, NEW p \in Procs, Step(p), NEW e \in Digests,
           Unusable(e), ~(Commit(p) /\ img[p] = e)
    PROVE  Unusable(e)'
<1>1. CASE Wipe(p)
  BY <1>1, RemoveUnusable DEF Wipe, Control, ControlOf, At
<1>2. CASE RemoveStore(p)
  BY <1>2, RemoveUnusable DEF RemoveStore, Control, ControlOf, At
<1>3. CASE Commit(p)
  BY <1>3 DEF Commit, TypeOK, Unusable
<1>4. CASE ~(Wipe(p) \/ RemoveStore(p) \/ Commit(p))
  BY <1>4 DEF Unusable, Step, ReadRef, CheckStore, Discard, Acquire, Contend,
     Steal, Retry, LockTimeout, Resolve, Probe, Prepare, Extract, WriteRef, Cleanup,
     Release, IOFailure, RemoveRead, RemoveRef, RemoveCheck
<1> QED BY <1>1, <1>2, <1>3, <1>4

LEMMA NextWipes ==
    ASSUME Base, Locking, WipesOnlyInvalid, [Next]_vars
    PROVE  WipesOnlyInvalid'
<1> SUFFICES ASSUME Quiet', NEW q \in Procs, pc'[q] = "wipe"
             PROVE  store'[img'[q]] \notin {"complete", "hollow"}
  BY DEF WipesOnlyInvalid, At
<1>1. Quiet
  BY QuietPrime
<1>2. TypeOK /\ Control /\ ControlOf(q)
  BY DEF Base, Control
<1>3. pc[q] = "wipe" => Unusable(img[q]) /\ img[q] \in Digests /\ img[q] \in held[q]
  BY <1>1, <1>2 DEF WipesOnlyInvalid, At, Unusable, ControlOf
<1>4. ASSUME NEW p \in Procs, NEW call \in Calls, Start(p, call)
      PROVE  store'[img'[q]] \notin {"complete", "hollow"}
  <2>1. p # q
    BY <1>2, <1>4 DEF Start, Goto, At, TypeOK
  <2> QED BY <1>2, <1>3, <1>4, <2>1 DEF Start, Goto, TypeOK, Unusable
<1>5. ASSUME Step(q)
      PROVE  store'[img'[q]] \notin {"complete", "hollow"}
  <2>1. CASE Probe(q)
    BY <1>2, <2>1 DEF Probe, Verdict, TypeOK, Continue, Goto
  <2>2. CASE Wipe(q)
    <3>1. Unusable(img[q])'
      BY <1>2, <1>3, <2>2, RemoveUnusable DEF Wipe, At
    <3> QED BY <2>2, <3>1 DEF Wipe, Unusable
  <2>3. CASE ~(Probe(q) \/ Wipe(q))
    BY <1>2, <1>5, <2>3 DEF Step, ReadRef, CheckStore, LookupFailed, Discard,
       Acquire, Contend, Steal, Retry, LockTimeout, Resolve, Prepare, Extract, Commit,
       WriteRef, Cleanup, Release, IOFailure, RemoveRead, RemoveRef,
       RemoveCheck, RemoveStore, Continue, Return, Goto, TypeOK
  <2> QED BY <2>1, <2>2, <2>3
<1>6. ASSUME NEW p \in Procs, Step(p), p # q
      PROVE  store'[img'[q]] \notin {"complete", "hollow"}
  <2>1. pc[q] = "wipe" /\ img'[q] = img[q]
    BY <1>2, <1>6, StepSame DEF Same
  <2>2. ~(Commit(p) /\ img[p] = img[q])
    BY <1>1, <1>2, <1>3, <1>6, <2>1
    DEF Commit, At, Control, ControlOf, Locking
  <2> QED BY <1>2, <1>3, <1>6, <2>1, <2>2, StepUnusable DEF Unusable
<1>7. ASSUME Environment
      PROVE  store'[img'[q]] \notin {"complete", "hollow"}
  <2>1. CASE \E p \in Procs : Crash(p)
    BY <1>2, <1>3, <2>1 DEF Crash, Goto, TypeOK, Unusable
  <2>2. CASE Damage
    BY <1>2, <1>3, <2>2, RemoveUnusable DEF Damage, Unusable
  <2>3. CASE \/ \E t \in Targets : MoveTag(t)
             \/ \E l \in LockNames : Expire(l) \/ Jam(l)
    BY <1>3, <2>3 DEF MoveTag, Expire, Jam, Unusable
  <2> QED BY <1>7, <2>1, <2>2, <2>3 DEF Environment
<1>8. ASSUME UNCHANGED vars
      PROVE  store'[img'[q]] \notin {"complete", "hollow"}
  BY <1>3, <1>8 DEF vars, Unusable
<1> QED BY <1>4, <1>5, <1>6, <1>7, <1>8 DEF Next

\* The repair of Ensure never deletes a usable root file system: the verdict that
\* led to the deletion still stands when the files go, because whoever could
\* complete the store needs the digest's lock.
THEOREM RepairIsSafe == Spec => []WipesOnlyInvalid
<1>1. Init => Locking /\ WipesOnlyInvalid
  BY DEF Init, Locking, WipesOnlyInvalid, At
<1>2. Base /\ Locking /\ WipesOnlyInvalid /\ [Next]_vars
      => Locking' /\ WipesOnlyInvalid'
  BY NextLocking, NextWipes
<1> QED BY <1>1, <1>2, BaseInvariant, PTL DEF Spec

-----------------------------------------------------------------------------
LEMMA NextPin ==
    ASSUME Base, PinInv, [Next]_vars
    PROVE  PinInv'
<1> SUFFICES ASSUME Never("damage")', NoPurge PROVE PinBody'
  BY DEF PinInv
<1>1. PinBody /\ budget'["damage"] = budget["damage"]
  BY BudgetShrinks DEF Base, PinInv, Kinds
<1>2. TypeOK /\ Control
  BY DEF Base
<1> USE NamesAssumption DEF PinBody, TypeOK
<1>3. ASSUME NEW p \in Procs, NEW call \in Calls, Start(p, call) PROVE PinBody'
  BY <1>1, <1>2, <1>3 DEF Start, Goto, At
<1>4. ASSUME NEW p \in Procs, Commit(p) PROVE PinBody'
  BY <1>1, <1>2, <1>4 DEF Commit, Continue, Return, Goto, At, Control, ControlOf
<1>5. ASSUME NEW p \in Procs, WriteRef(p) PROVE PinBody'
  <2>1. img[p] \in Digests /\ store[img[p]] = "complete"
    BY <1>1, <1>2, <1>5 DEF WriteRef, At, Control, ControlOf
  <2>2. \A t \in Targets : ref'[t] # None =>
            ref'[t] \in Digests /\ store'[ref'[t]] = "complete"
    BY <1>1, <1>2, <1>5, <2>1 DEF WriteRef
  <2> QED BY <1>1, <1>2, <1>5, <2>1, <2>2 DEF WriteRef, Return, Goto, At
<1>6. ASSUME NEW p \in Procs, CheckStore(p) PROVE PinBody'
  <2>1. store[seen[p]] = "complete" /\ seen[p] \in Digests
    BY <1>1, <1>2, <1>6 DEF CheckStore, At, Control, ControlOf
  <2>2. LookupVerdict(store[seen[p]]) = "found"
    BY <2>1 DEF LookupVerdict, Verdict
  <2> QED BY <1>1, <1>2, <1>6, <2>1, <2>2 DEF CheckStore, Return, Goto, At
<1>7. ASSUME NEW p \in Procs, ReadRef(p) PROVE PinBody'
  <2>1. ref[Target(p)] # Corrupt
    BY <1>1, <1>2, JobType
  <2> QED BY <1>1, <1>2, <1>7, <2>1, JobType
      DEF ReadRef, LookupFailed, Continue, Return, Goto, At
<1>8. ASSUME NEW p \in Procs, Probe(p) PROVE PinBody'
  <2>1. img[p] \in Digests /\ store[img[p]] \in {"absent", "complete"}
    BY <1>1, <1>2, <1>8 DEF Probe, At, Control, ControlOf
  <2> QED BY <1>1, <1>2, <1>8, <2>1 DEF Probe, Verdict, Continue, Goto, At
<1>9. ASSUME NEW p \in Procs, Resolve(p) PROVE PinBody'
  BY <1>1, <1>2, <1>9
  DEF Resolve, Continue, Return, Goto, At, Control, ControlOf
<1>10. ASSUME NEW p \in Procs, RemoveRef(p) PROVE PinBody'
  <2>1. ~job[p].purge
    BY <1>2, <1>10 DEF RemoveRef, At, Control, ControlOf, NoPurge
  <2> QED BY <1>1, <1>2, <1>10, <2>1 DEF RemoveRef, Return, Goto, At
<1>11. ASSUME NEW p \in Procs,
              \/ Acquire(p) \/ Contend(p) \/ Steal(p) \/ Retry(p)
              \/ LockTimeout(p) \/ Prepare(p) \/ Extract(p) \/ Cleanup(p) \/ Release(p)
              \/ IOFailure(p) \/ RemoveRead(p)
       PROVE PinBody'
  BY <1>1, <1>2, <1>11
  DEF Acquire, Contend, Steal, Retry, LockTimeout, Prepare, Extract, Cleanup,
      Release, IOFailure, RemoveRead, Continue, Return, Goto, At
<1>12. ASSUME NEW p \in Procs,
              \/ Discard(p) \/ Wipe(p) \/ RemoveCheck(p) \/ RemoveStore(p)
       PROVE FALSE
  BY <1>1, <1>12 DEF Discard, Wipe, RemoveCheck, RemoveStore, At
<1>13. ASSUME Environment PROVE PinBody'
  <2>1. ~Damage
    BY <1>1, <1>2 DEF Damage, Spend, Kinds
  <2>2. CASE \E p \in Procs : Crash(p)
    BY <1>1, <1>2, <2>2 DEF Crash, Goto
  <2>3. CASE \/ \E t \in Targets : MoveTag(t)
             \/ \E l \in LockNames : Expire(l) \/ Jam(l)
    BY <1>1, <2>3 DEF MoveTag, Expire, Jam
  <2> QED BY <1>13, <2>1, <2>2, <2>3 DEF Environment
<1>14. ASSUME UNCHANGED vars PROVE PinBody'
  BY <1>1, <1>14 DEF vars
<1> QED
  BY <1>3, <1>4, <1>5, <1>6, <1>7, <1>8, <1>9, <1>10, <1>11, <1>12, <1>13, <1>14
  DEF Next, Step

\* Without purges and outside damage, a locked target and a successful call always
\* have a complete root file system, crashes and stolen locks included: stores
\* only appear whole, and a ref is written after its store.
THEOREM LocksAreUsable == Spec => []LockedMeansUsable
<1>1. Init => PinInv
  BY DEF Init, PinInv, PinBody
<1>2. Base /\ PinInv /\ [Next]_vars => PinInv'
  BY NextPin
<1>3. PinInv => LockedMeansUsable
  BY DEF PinInv, PinBody, LockedMeansUsable
<1> QED BY <1>1, <1>2, <1>3, BaseInvariant, PTL DEF Spec

-----------------------------------------------------------------------------
LEMMA NextPinned ==
    ASSUME Base, Locking, PinInv, PinnedInv, [Next]_vars
    PROVE  PinnedInv'
<1> SUFFICES ASSUME Quiet', Never("damage")', NoPurge PROVE PinnedBody'
  BY DEF PinnedInv
<1>1. PinBody /\ PinnedBody /\ Quiet
  BY QuietPrime, BudgetShrinks DEF Base, PinInv, PinnedInv, Kinds
<1>2. TypeOK /\ Control /\ \A p \in Procs : ControlOf(p) /\ Target(p) \in Targets
  BY JobType DEF Base, Control
<1>3. \A p, q \in Procs : p # q => held[p] \cap held[q] = {}
  BY <1>1 DEF Locking
<1> DEFINE Busy(q) == /\ pc[q] \in {"lock", "wait", "steal", "resolve", "probe",
                                     "prepare", "extract", "commit", "writeRef"}
                      /\ Locked(q)
           Free(q) == job[q].refresh \/ ref[Target(q)] = None
<1> SUFFICES ASSUME NEW q \in Procs, Busy(q)' PROVE Free(q)'
  BY DEF PinnedBody
<1>4. Busy(q) => Free(q)
  BY <1>1 DEF PinnedBody
<1>5. ASSUME NEW p \in Procs, NEW call \in Calls, Start(p, call) PROVE Free(q)'
  <2>1. p # q
    BY <1>2, <1>5, CallsAssumption
    DEF ControlOf, Start, Goto, At, Locked, Target, TypeOK
  <2> QED BY <1>2, <1>4, <1>5, <2>1 DEF Start, Goto, Locked, Target, TypeOK
<1>6. ASSUME Step(q) PROVE Free(q)'
  <2> USE <1>2, <1>4 DEF TypeOK, Continue, Return, Goto, At, Locked, Target
  <2>1. CASE ReadRef(q)
    BY <2>1 DEF ReadRef, LookupFailed
  <2>2. CASE CheckStore(q)
    <3>1. LookupVerdict(store[seen[q]]) = "found"
      BY <1>1, <2>2 DEF PinBody, CheckStore, LookupVerdict, Verdict
    <3> QED BY <2>2, <3>1 DEF CheckStore
  <2>3. CASE Acquire(q)
    BY <2>3 DEF Acquire
  <2>4. CASE \/ Contend(q) \/ Steal(q) \/ Retry(q) \/ LockTimeout(q) \/ Resolve(q)
             \/ Probe(q) \/ Prepare(q) \/ Extract(q) \/ Commit(q) \/ IOFailure(q)
    BY <2>4 DEF Contend, Steal, Retry, LockTimeout, Resolve, Probe, Prepare, Extract, Commit,
       IOFailure
  <2>5. CASE WriteRef(q) \/ Cleanup(q) \/ Release(q)
    BY <2>5 DEF WriteRef, Cleanup, Release
  <2>6. CASE RemoveRead(q) \/ RemoveRef(q)
    BY <2>6 DEF RemoveRead, RemoveRef
  <2>7. CASE \/ Discard(q) \/ Wipe(q) \/ RemoveCheck(q) \/ RemoveStore(q)
    BY <1>1, <2>7 DEF PinBody, Discard, Wipe, RemoveCheck, RemoveStore
  <2> QED BY <1>6, <2>1, <2>2, <2>3, <2>4, <2>5, <2>6, <2>7 DEF Step
<1>7. ASSUME NEW p \in Procs, Step(p), p # q PROVE Free(q)'
  <2>1. Busy(q) /\ job'[q] = job[q] /\ Target(q)' = Target(q)
    BY <1>2, <1>7, StepSame DEF Same, Locked, Target
  <2>2. CASE WriteRef(p)
    <3>1. Target(p) # Target(q)
      BY <1>2, <1>3, <1>7, <2>1, <2>2 DEF ControlOf, WriteRef, At, Locked
    <3> QED BY <1>2, <1>4, <2>1, <2>2, <3>1 DEF WriteRef, TypeOK
  <2>3. CASE RemoveRef(p) \/ Discard(p)
    BY <1>2, <1>4, <2>1, <2>3 DEF RemoveRef, Discard, TypeOK
  <2>4. CASE ~(WriteRef(p) \/ RemoveRef(p) \/ Discard(p))
    <3>1. ref' = ref
      BY <1>7, <2>4 DEF Step, ReadRef, CheckStore, Acquire, Contend, Steal,
         Retry, LockTimeout, Resolve, Probe, Wipe, Prepare, Extract, Commit, Cleanup,
         Release, IOFailure, RemoveRead, RemoveCheck, RemoveStore
    <3> QED BY <1>4, <2>1, <3>1
  <2> QED BY <2>2, <2>3, <2>4
<1>8. ASSUME Environment PROVE Free(q)'
  <2>1. ~Damage /\ \A p \in Procs : ~Crash(p)
    BY <1>2, QuietPrime, BudgetShrinks
    DEF Base, Crash, Damage, Spend, TypeOK, Kinds
  <2> QED BY <1>4, <1>8, <2>1
      DEF Environment, MoveTag, Expire, Jam, Locked, Target
<1>9. ASSUME UNCHANGED vars PROVE Free(q)'
  BY <1>4, <1>9 DEF vars, Locked, Target
<1> QED BY <1>5, <1>6, <1>7, <1>8, <1>9 DEF Next

\* What each step does to the refs.
LEMMA RefStep ==
    ASSUME Base, PinInv, PinnedInv, [Next]_vars,
           Quiet, Never("damage"), Never("damage")', NoPurge
    PROVE  \/ ref' = ref
           \/ \E p \in Procs :
                  /\ At(p, "writeRef") /\ img[p] \in Digests
                  /\ store[img[p]] = "complete" /\ store' = store
                  /\ job[p] \in Calls
                  /\ job[p].refresh \/ ref[Target(p)] = None
                  /\ ref' = [ref EXCEPT ![Target(p)] = img[p]]
           \/ \E p \in Procs :
                  /\ At(p, "rmRef") /\ store' = store
                  /\ job[p] \in Calls /\ job[p].kind = "remove"
                  /\ ref' = [ref EXCEPT ![Target(p)] = None]
<1>1. PinBody /\ PinnedBody /\ Control
  BY DEF PinInv, PinnedInv, Base
<1>2. CASE \E p \in Procs : WriteRef(p)
  <2>1. PICK p \in Procs : WriteRef(p)
    BY <1>2
  <2>2. /\ At(p, "writeRef") /\ img[p] \in Digests /\ store[img[p]] = "complete"
        /\ job[p] \in Calls /\ (job[p].refresh \/ ref[Target(p)] = None)
    BY <1>1, <2>1
    DEF WriteRef, At, PinBody, PinnedBody, Control, ControlOf
  <2> QED BY <2>1, <2>2 DEF WriteRef
<1>3. CASE \E p \in Procs : RemoveRef(p)
  <2>1. PICK p \in Procs : RemoveRef(p)
    BY <1>3
  <2>2. At(p, "rmRef") /\ job[p] \in Calls /\ job[p].kind = "remove"
    BY <1>1, <2>1 DEF RemoveRef, At, Control, ControlOf
  <2> QED BY <2>1, <2>2 DEF RemoveRef
<1>4. ASSUME NEW p \in Procs, Step(p), ~WriteRef(p), ~RemoveRef(p)
      PROVE  ref' = ref
  <2>1. ~Discard(p)
    BY <1>1 DEF Discard, At, PinBody
  <2> QED BY <1>4, <2>1
      DEF Step, ReadRef, CheckStore, Acquire, Contend, Steal, Retry,
          LockTimeout, Resolve, Probe, Wipe, Prepare, Extract, Commit, Cleanup, Release,
          IOFailure, RemoveRead, RemoveCheck, RemoveStore
<1>5. ASSUME NEW p \in Procs, NEW call \in Calls, Start(p, call)
      PROVE  ref' = ref
  BY <1>5 DEF Start
<1>6. ASSUME Environment PROVE ref' = ref
  <2>1. ~Damage
    BY DEF Damage, Spend, Never, Base, TypeOK, Kinds
  <2> QED BY <1>6, <2>1 DEF Environment, MoveTag, Crash, Expire, Jam
<1>7. ASSUME UNCHANGED vars PROVE ref' = ref
  BY <1>7 DEF vars
<1> QED BY <1>2, <1>3, <1>4, <1>5, <1>6, <1>7 DEF Next

\* And to the stores: at most one more becomes complete.
LEMMA StoreStep ==
    ASSUME Base, PinInv, [Next]_vars, Never("damage"), Never("damage")', NoPurge
    PROVE  \/ store' = store
           \/ \E d \in Digests : /\ store' = [store EXCEPT ![d] = "complete"]
                                /\ ref' = ref
<1>1. PinBody /\ Control
  BY DEF PinInv, Base
<1>2. ASSUME NEW p \in Procs, Commit(p)
      PROVE  \/ store' = store
             \/ \E d \in Digests : /\ store' = [store EXCEPT ![d] = "complete"]
                                  /\ ref' = ref
  BY <1>1, <1>2 DEF Commit, At, Control, ControlOf
<1>3. ASSUME NEW p \in Procs, Step(p), ~Commit(p)
      PROVE  store' = store
  <2>1. ~Wipe(p) /\ ~RemoveStore(p)
    BY <1>1 DEF Wipe, RemoveStore, At, PinBody
  <2> QED BY <1>3, <2>1
      DEF Step, ReadRef, CheckStore, Discard, Acquire, Contend, Steal, Retry,
          LockTimeout, Resolve, Probe, Prepare, Extract, WriteRef, Cleanup, Release,
          IOFailure, RemoveRead, RemoveRef, RemoveCheck
<1>4. ASSUME NEW p \in Procs, NEW call \in Calls, Start(p, call)
      PROVE  store' = store
  BY <1>4 DEF Start
<1>5. ASSUME Environment PROVE store' = store
  <2>1. ~Damage
    BY DEF Damage, Spend, Never, Base, TypeOK, Kinds
  <2> QED BY <1>5, <2>1 DEF Environment, MoveTag, Crash, Expire, Jam
<1>6. ASSUME UNCHANGED vars PROVE store' = store
  BY <1>6 DEF vars
<1> QED BY <1>2, <1>3, <1>4, <1>5, <1>6 DEF Next

\* The whole inductive invariant.
LEMMA FullInvariant == Spec => [](Base /\ Locking /\ PinInv /\ PinnedInv)
<1>1. Init => Locking /\ PinInv /\ PinnedInv
  BY DEF Init, Locking, PinInv, PinBody, PinnedInv, PinnedBody
<1>2. Base /\ Locking /\ PinInv /\ PinnedInv /\ [Next]_vars
      => Locking' /\ PinInv' /\ PinnedInv'
  BY NextLocking, NextPin, NextPinned
<1> QED BY <1>1, <1>2, BaseInvariant, PTL DEF Spec

\* Only a refresh, or a write after a Remove, moves a target to another digest.
THEOREM StaysLocked == Spec => DigestStaysLocked
<1>1. Base /\ Locking /\ PinInv /\ PinnedInv /\ [Next]_vars => [LockedStep]_vars
  <2> SUFFICES ASSUME Base, PinInv, PinnedInv, [Next]_vars, NoPurge,
                      Quiet', Never("damage")',
                      NEW t \in Targets, ref[t] # None, ref'[t] # ref[t]
               PROVE  \E p \in Procs :
                          /\ Target(p) = t
                          /\ \/ At(p, "writeRef") /\ job[p].refresh
                             \/ At(p, "rmRef")
    BY DEF LockedStep
  <2>1. Quiet /\ Never("damage") /\ TypeOK
    BY QuietPrime, BudgetShrinks DEF Base, Kinds
  <2> QED BY <2>1, RefStep, JobType DEF TypeOK
<1> QED BY <1>1, FullInvariant, PTL DEF Spec, DigestStaysLocked

\* Without purges, damage, crashes and outlived locks the cache implements
\* SysrootPins: commits provide, ref writes pin, Remove unpins, the rest stutters.
THEOREM CacheImplementsPins ==
    ASSUME NoPurge, Budget["damage"] = 0, Budget["crash"] = 0,
           Budget["expire"] = 0
    PROVE  Spec => ImplementsPins
<1>1. Init => Pins!Init
  BY DEF Init, Pins!Init
<1>2. Base => Quiet /\ Never("damage")
  BY DEF Base, TypeOK, BudgetInv, Quiet, Never, Kinds
<1>3. ASSUME Base, PinInv, PinnedInv, Quiet, Never("damage"), Never("damage")',
             [Next]_vars
      PROVE  [Pins!Next]_(Pins!pins)
  <2>0. TypeOK
    BY <1>3 DEF Base
  <2>1. CASE ref' = ref /\ store' = store
    BY <2>1 DEF Pins!pins
  <2>2. CASE \E d \in Digests : /\ store' = [store EXCEPT ![d] = "complete"]
                               /\ ref' = ref
    <3>1. PICK d \in Digests : /\ store' = [store EXCEPT ![d] = "complete"]
                              /\ ref' = ref
      BY <2>2
    <3>2. {e \in Digests : store'[e] = "complete"}
             = {e \in Digests : store[e] = "complete"} \cup {d}
      BY <2>0, <3>1 DEF TypeOK
    <3> QED BY <3>1, <3>2 DEF Pins!Next, Pins!Provide
  <2>3. ASSUME NEW p \in Procs, img[p] \in Digests, job[p] \in Calls,
               store[img[p]] = "complete", store' = store,
               job[p].refresh \/ ref[Target(p)] = None,
               ref' = [ref EXCEPT ![Target(p)] = img[p]]
        PROVE  Pins!Next
    <3>1. Pins!Pin(Target(p), img[p])
      BY <2>3 DEF Pins!Pin, Target
    <3> QED BY <2>0, <2>3, <3>1, JobType DEF Pins!Next
  <2>4. ASSUME NEW p \in Procs, job[p] \in Calls, job[p].kind = "remove",
               store' = store, ref' = [ref EXCEPT ![Target(p)] = None]
        PROVE  Pins!Next
    <3>1. Pins!Unpin(Target(p))
      BY <2>4 DEF Pins!Unpin, Target
    <3> QED BY <2>0, <3>1, JobType DEF Pins!Next
  <2> QED BY <1>3, <2>1, <2>2, <2>3, <2>4, RefStep, StoreStep
<1> QED BY <1>1, <1>2, <1>3, FullInvariant, PTL DEF Spec, ImplementsPins, Pins!Spec
=============================================================================
