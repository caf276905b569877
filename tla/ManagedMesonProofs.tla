------------------------- MODULE ManagedMesonProofs -------------------------
(***************************************************************************)
(* Theorems about ManagedMeson for any builds and any number of faults.    *)
(* The first invariant (Owned) says what a lock file means: it belongs to  *)
(* a build that is inside or dead, if it can be removed at all, and, as    *)
(* long as no live build has lost its lock file, every build that is       *)
(* inside has made the one there is.                                       *)
(* The second (Tracks) says what a build may rely on between two of its    *)
(* accesses to the wheel and the site, none of which is under a lock for   *)
(* the builds that only look.                                              *)
(***************************************************************************)
EXTENDS ManagedMeson, TLAPS

Owned ==
    /\ \A p \in Builds : lock = p => Inside(p) \/ run[p].pc = "dead" \/ stuck
    /\ ~stolen => \A p \in Builds : Inside(p) => lock = p

Inv == TypeOK /\ Owned

-----------------------------------------------------------------------------
(* The types.                                                              *)

LEMMA InitTyped == Init => TypeOK
<1> SUFFICES ASSUME Init PROVE TypeOK
  OBVIOUS
<1>1. Fresh \in Runs /\ Fresh.partial = {}
  BY DEF Fresh, Runs, Checking
<1>2. run \in [Builds -> Runs] /\ \A p \in Builds : run[p].partial = {}
  BY <1>1 DEF Init
<1>3. left \in Nat
  BY BudgetAssumption DEF Init
<1> QED BY <1>2, <1>3 DEF Init, TypeOK

\* The steps that only move a build on.
LEMMA GoesTyped ==
    ASSUME TypeOK, NEW p \in Builds, NEW pc, Goes(p, pc),
           pc \in Over \cup Checking \cup Installing
                    \cup {"acquire", "steal", "release", "abort", "using"},
           run[p].partial = {} \/ pc \in {"abort", "dead"}
    PROVE  /\ run' \in [Builds -> Runs]
           /\ \A q \in Builds : run'[q].partial # {} =>
                  run'[q].pc \in {"publish", "abort", "dead"}
<1> USE DEF TypeOK, Goes
<1>1. run' = [run EXCEPT ![p].pc = pc]
  OBVIOUS
<1>2. run[p] \in Runs
  OBVIOUS
<1>3. run'[p] \in Runs /\ run'[p].pc = pc /\ run'[p].partial = run[p].partial
  BY <1>1, <1>2 DEF Runs
<1>4. \A q \in Builds \ {p} : run'[q] = run[q]
  BY <1>1
<1>5. run' \in [Builds -> Runs]
  BY <1>1, <1>3, <1>4
<1> QED BY <1>3, <1>4, <1>5

LEMMA CheckTyped ==
    ASSUME TypeOK, NEW p \in Builds, Check(p)
    PROVE  TypeOK'
<1> USE DEF TypeOK
<1>1. run[p] \in Runs /\ run[p].partial = {} /\ UNCHANGED <<wheel, site, lock, old, stuck, left, ghosts>>
  BY DEF Check, Checking
<1>2. PICK pc \in {"main", "marker", "using", "release", "failed", "acquire", "rewheel", "abort"} :
          Goes(p, pc)
  BY DEF Check, Valid, Invalid
<1>3. pc \in Over \cup Checking \cup Installing \cup {"acquire", "steal", "release", "abort", "using"}
  BY <1>2 DEF Over, Checking, Installing
<1>4. /\ run' \in [Builds -> Runs]
      /\ \A q \in Builds : run'[q].partial # {} => run'[q].pc \in {"publish", "abort", "dead"}
  BY <1>1, <1>2, <1>3, GoesTyped
<1> QED BY <1>1, <1>4 DEF ghosts

LEMMA LockTyped ==
    ASSUME TypeOK, NEW p \in Builds,
           Acquire(p) \/ FindOld(p) \/ Steal(p) \/ GiveUp(p) \/ Release(p)
    PROVE  TypeOK'
<1> USE DEF TypeOK, ghosts
<1>0. run[p] \in Runs
  OBVIOUS
<1>1. CASE Acquire(p)
  BY <1>0, <1>1, BuildsAssumption DEF Acquire, Runs, Checking
<1>2. CASE FindOld(p)
  BY <1>0, <1>2 DEF FindOld, Goes, Runs
<1>3. CASE Steal(p)
  BY <1>0, <1>3 DEF Steal, Unlink, Goes, Runs
<1>4. CASE GiveUp(p)
  BY <1>0, <1>4 DEF GiveUp, Runs, Over
<1>5. CASE Release(p)
  BY <1>0, <1>5 DEF Release, Unlink, Runs, Over
<1> QED BY <1>1, <1>2, <1>3, <1>4, <1>5

LEMMA InstallTyped ==
    ASSUME TypeOK, NEW p \in Builds,
           Rewheel(p) \/ Download(p) \/ DownloadFails(p) \/ Extract(p) \/ Publish(p)
    PROVE  TypeOK'
<1> USE DEF TypeOK, ghosts
<1>0. run[p] \in Runs
  OBVIOUS
<1>1. CASE Rewheel(p)
  BY <1>0, <1>1 DEF Rewheel, Goes, Runs, Installing
<1>2. CASE Download(p)
  BY <1>0, <1>2 DEF Download, Runs, Installing
<1>3. CASE DownloadFails(p)
  <2>1. left' \in Nat
    BY <1>3 DEF DownloadFails, Suffers
  <2>2. run' = [run EXCEPT ![p].pc = "abort", ![p].harmed = TRUE]
    BY <1>3 DEF DownloadFails
  <2>3. run' \in [Builds -> Runs]
    BY <1>0, <2>2 DEF Runs
  <2> QED BY <1>0, <1>3, <2>1, <2>2, <2>3 DEF DownloadFails, Runs
<1>4. CASE Extract(p)
  BY <1>0, <1>4 DEF Extract, Runs, Installing, Parts
<1>5. CASE Publish(p)
  <2>1. CASE site = {}
    <3>1. run' = [run EXCEPT ![p].partial = {}, ![p].pc = "wheel", ![p].stage = "third"]
      BY <1>5, <2>1 DEF Publish
    <3>2. run' \in [Builds -> Runs]
      BY <1>0, <3>1 DEF Runs, Checking
    <3> QED BY <1>0, <1>5, <2>1, <3>1, <3>2 DEF Publish, Runs
  <2>2. CASE site # {}
    BY <1>0, <1>5, <2>2 DEF Publish, Goes, Runs
  <2> QED BY <2>1, <2>2
<1> QED BY <1>1, <1>2, <1>3, <1>4, <1>5

\* Harm touches nothing else of a build.
LEMMA HarmTyped ==
    ASSUME NEW r \in Runs
    PROVE  LET h == [r EXCEPT !.harmed = TRUE]
           IN  /\ h \in Runs
               /\ h.pc = r.pc /\ h.stage = r.stage /\ h.partial = r.partial
BY DEF Runs

\* The removal of a site moves one build on and touches no other but for harm.
LEMMA RemovingTyped ==
    ASSUME TypeOK, NEW p \in Builds, NEW pc \in {"unsiting", "extract"},
           Removing(p, pc), run[p].partial = {}
    PROVE  /\ run' \in [Builds -> Runs]
           /\ \A q \in Builds : run'[q].partial # {} =>
                  run'[q].pc \in {"publish", "abort", "dead"}
<1>1. \A q \in Builds : run[q] \in Runs
  BY DEF TypeOK
<1>2. run'[p] = [run[p] EXCEPT !.pc = pc]
  BY DEF Removing
<1>3. \A q \in Builds \ {p} : run'[q] \in {run[q], [run[q] EXCEPT !.harmed = TRUE]}
  BY DEF Removing
<1>4. run'[p] \in Runs /\ run'[p].partial = {}
  BY <1>1, <1>2 DEF Runs, Installing
<1>5. \A q \in Builds \ {p} : /\ run'[q] \in Runs
                              /\ run'[q].pc = run[q].pc /\ run'[q].partial = run[q].partial
  BY <1>1, <1>3, HarmTyped
<1>6. run' = [q \in Builds |-> run'[q]]
  BY DEF Removing
<1> QED BY <1>4, <1>5, <1>6 DEF TypeOK

LEMMA UnsiteTyped ==
    ASSUME TypeOK, NEW p \in Builds, Unsite(p) \/ UnsiteRest(p)
    PROVE  TypeOK'
<1> USE DEF TypeOK, ghosts
<1>0. run[p] \in Runs /\ run[p].partial = {}
  BY DEF Unsite, UnsiteRest
<1>1. CASE Unsite(p) /\ UNCHANGED <<site, left, torn>> /\ Goes(p, "extract")
  BY <1>0, <1>1 DEF Unsite, Goes, Runs, Installing
<1>2. CASE Unsite(p) /\ torn' = TRUE /\ Removing(p, "unsiting") /\ UNCHANGED left
           /\ \E some \in SUBSET (site \ {"dir"}) : site' = {"dir"} \cup some
  <2>1. PICK some \in SUBSET (site \ {"dir"}) : site' = {"dir"} \cup some
    BY <1>2
  <2>2. site' \subseteq Parts /\ "dir" \in site'
    BY <2>1 DEF Parts
  <2> QED BY <1>0, <1>2, <2>2, RemovingTyped DEF Unsite
<1>3. CASE Unsite(p) /\ Suffers /\ UNCHANGED <<site, torn>>
           /\ run' = [run EXCEPT ![p].pc = "extract", ![p].harmed = TRUE]
  <2>1. left' \in Nat
    BY <1>3 DEF Suffers
  <2>2. run' \in [Builds -> Runs]
    BY <1>0, <1>3 DEF Runs, Installing
  <2> QED BY <1>0, <1>3, <2>1, <2>2 DEF Unsite, Runs
<1>4. CASE UnsiteRest(p)
  <2>1. Removing(p, "extract") /\ site' = {} /\ torn' = FALSE
        /\ UNCHANGED <<wheel, lock, old, stuck, left, stolen>>
    BY <1>4 DEF UnsiteRest
  <2> QED BY <1>0, <2>1, RemovingTyped
<1> QED BY <1>1, <1>2, <1>3, <1>4 DEF Unsite

\* What happens outside miruri: every build may be harmed.
LEMMA HarmedTyped ==
    ASSUME TypeOK, Harmed
    PROVE  /\ run' \in [Builds -> Runs]
           /\ \A q \in Builds : /\ run'[q].partial = run[q].partial
                                /\ run'[q].pc = run[q].pc
                                /\ run'[q].stage = run[q].stage
<1>1. \A q \in Builds : run[q] \in Runs
  BY DEF TypeOK
<1>2. \A q \in Builds : run'[q] \in {run[q], [run[q] EXCEPT !.harmed = TRUE]}
  BY DEF Harmed
<1>3. \A q \in Builds : /\ run'[q] \in Runs
                        /\ run'[q].pc = run[q].pc /\ run'[q].partial = run[q].partial
                        /\ run'[q].stage = run[q].stage
  BY <1>1, <1>2, HarmTyped
<1>4. run' = [q \in Builds |-> run'[q]]
  BY DEF Harmed
<1> QED BY <1>3, <1>4

LEMMA FaultTyped ==
    ASSUME TypeOK, Age \/ Jam \/ SpoilWheel \/ SpoilSite \/ \E p \in Builds : Crash(p) \/ Finish(p)
    PROVE  TypeOK'
<1> USE DEF TypeOK, ghosts, Suffers
<1>1. CASE Age
  BY <1>1 DEF Age
<1>6. CASE Jam
  BY <1>6 DEF Jam
<1>2. CASE SpoilWheel
  BY <1>2, HarmedTyped DEF SpoilWheel
<1>3. CASE SpoilSite
  <2>1. PICK part \in site \ {"dir"} : site' = site \ {part} /\ torn' = (torn \/ part = "rest")
    BY <1>3 DEF SpoilSite
  <2>2. Harmed /\ UNCHANGED <<wheel, lock, old, stuck, stolen>> /\ left' \in Nat
    BY <1>3 DEF SpoilSite
  <2>3. site' \subseteq Parts /\ (site' # {} => "dir" \in site') /\ torn' \in BOOLEAN
    BY <2>1
  <2> QED BY <2>2, <2>3, HarmedTyped
<1>4. ASSUME NEW p \in Builds, Crash(p) PROVE TypeOK'
  <2>1. run[p] \in Runs
    OBVIOUS
  <2> QED BY <1>4, <2>1 DEF Crash, Goes, Runs, Over
<1>5. ASSUME NEW p \in Builds, Finish(p) PROVE TypeOK'
  <2>1. run[p] \in Runs
    OBVIOUS
  <2> QED BY <1>5, <2>1 DEF Finish, Goes, Runs, Over
<1> QED BY <1>1, <1>2, <1>3, <1>4, <1>5, <1>6

LEMMA NextTyped == TypeOK /\ [Next]_vars => TypeOK'
<1> SUFFICES ASSUME TypeOK, [Next]_vars PROVE TypeOK'
  OBVIOUS
<1>1. CASE UNCHANGED vars
  BY <1>1 DEF TypeOK, vars
<1>2. CASE Age \/ Jam \/ SpoilWheel \/ SpoilSite
  BY <1>2, FaultTyped
<1>3. ASSUME NEW p \in Builds, Step(p) \/ DownloadFails(p) \/ Crash(p) PROVE TypeOK'
  BY <1>3, CheckTyped, LockTyped, InstallTyped, UnsiteTyped, FaultTyped DEF Step
<1> QED BY <1>1, <1>2, <1>3 DEF Next

\* Every variable of the model keeps its type: partial directories belong to
\* installations, parts of a site to a directory (meson_tool.go 118-192).
THEOREM TypeCorrect == Spec => []TypeOK
BY InitTyped, NextTyped, PTL DEF Spec

-----------------------------------------------------------------------------
(* The lock file.                                                          *)

\* A step of p that keeps the lock file, moves no other build and brings p
\* neither in nor out.
LEMMA StayOwned ==
    ASSUME Inv, NEW p \in Builds, UNCHANGED <<lock, stuck, stolen>>,
           \A q \in Builds \ {p} : run'[q].pc = run[q].pc /\ run'[q].stage = run[q].stage,
           Inside(p)' <=> Inside(p),
           run[p].pc # "dead"
    PROVE  Owned'
<1>1. \A q \in Builds \ {p} : Inside(q)' <=> Inside(q)
  BY DEF Inside
<1> QED BY <1>1 DEF Inv, Owned

LEMMA InsideOwned ==
    ASSUME Inv, NEW p \in Builds,
           \/ Rewheel(p) \/ Download(p) \/ DownloadFails(p) \/ Extract(p)
           \/ Publish(p) \/ Unsite(p) \/ UnsiteRest(p)
    PROVE  Owned'
<1>0. run \in [Builds -> Runs] /\ run[p] \in Runs /\ \A q \in Builds : run[q] \in Runs
  BY DEF Inv, TypeOK
<1>1. UNCHANGED <<lock, stuck, stolen>>
  BY DEF Rewheel, Download, DownloadFails, Extract, Publish, Unsite, UnsiteRest, ghosts
<1>2. run[p].pc \in Installing
  BY DEF Rewheel, Download, DownloadFails, Extract, Publish, Unsite, UnsiteRest, Installing
<1>3. /\ \/ run'[p].pc \in Installing \cup {"abort"}
         \/ run'[p].pc \in Checking /\ run'[p].stage # "first"
      /\ \A q \in Builds \ {p} : run'[q].pc = run[q].pc /\ run'[q].stage = run[q].stage
  <2>1. CASE Rewheel(p)
    BY <1>0, <2>1 DEF Rewheel, Goes, Runs, Installing
  <2>2. CASE Download(p)
    BY <1>0, <2>2 DEF Download, Runs, Installing
  <2>3. CASE DownloadFails(p)
    BY <1>0, <2>3 DEF DownloadFails, Runs
  <2>4. CASE Extract(p)
    BY <1>0, <2>4 DEF Extract, Runs, Installing
  <2>5. CASE Publish(p)
    BY <1>0, <2>5 DEF Publish, Goes, Runs, Checking
  <2>6. ASSUME NEW pc \in {"unsiting", "extract"}, Removing(p, pc)
        PROVE  /\ run'[p].pc \in Installing
               /\ \A q \in Builds \ {p} : run'[q].pc = run[q].pc /\ run'[q].stage = run[q].stage
    <3>1. run'[p] = [run[p] EXCEPT !.pc = pc]
      BY <2>6 DEF Removing
    <3>2. \A q \in Builds \ {p} : run'[q] \in {run[q], [run[q] EXCEPT !.harmed = TRUE]}
      BY <2>6 DEF Removing
    <3>3. \A q \in Builds \ {p} : run'[q].pc = run[q].pc /\ run'[q].stage = run[q].stage
      BY <1>0, <3>2, HarmTyped
    <3> QED BY <1>0, <3>1, <3>3 DEF Runs, Installing
  <2>7. CASE UnsiteRest(p)
    BY <2>6, <2>7 DEF UnsiteRest
  <2>8. CASE Unsite(p)
    <3>1. CASE Removing(p, "unsiting")
      BY <2>6, <3>1
    <3>2. CASE Goes(p, "extract")
      BY <1>0, <3>2 DEF Goes, Runs, Installing
    <3>3. CASE run' = [run EXCEPT ![p].pc = "extract", ![p].harmed = TRUE]
      BY <1>0, <3>3 DEF Runs, Installing
    <3> QED BY <2>8, <3>1, <3>2, <3>3 DEF Unsite
  <2> QED BY <2>1, <2>2, <2>3, <2>4, <2>5, <2>7, <2>8
<1>4. Inside(p) /\ Inside(p)' /\ run[p].pc # "dead"
  BY <1>2, <1>3 DEF Inside, Installing
<1> QED BY <1>1, <1>3, <1>4, StayOwned

\* The checks of a build that has not got the lock, and those of one that has.
LEMMA CheckOwned ==
    ASSUME Inv, NEW p \in Builds, Check(p)
    PROVE  Owned'
<1>0. run \in [Builds -> Runs] /\ run[p] \in Runs
  BY DEF Inv, TypeOK
<1>1. UNCHANGED <<lock, stuck, stolen>> /\ run[p].pc \in Checking
  BY DEF Check, ghosts, Checking
<1>2. \E pc \in {"main", "marker", "using", "release", "failed", "acquire", "rewheel", "abort"} :
        /\ Goes(p, pc)
        /\ pc \in {"using", "failed", "acquire"} => run[p].stage = "first"
        /\ pc \in {"release", "rewheel", "abort"} => run[p].stage # "first"
  BY <1>0 DEF Check, Valid, Invalid, Runs
<1>3. PICK pc \in {"main", "marker", "using", "release", "failed", "acquire", "rewheel", "abort"} :
        /\ Goes(p, pc)
        /\ pc \in {"using", "failed", "acquire"} => run[p].stage = "first"
        /\ pc \in {"release", "rewheel", "abort"} => run[p].stage # "first"
  BY <1>2
<1>4. /\ run'[p].pc = pc /\ run'[p].stage = run[p].stage
      /\ \A q \in Builds \ {p} : run'[q] = run[q]
  BY <1>0, <1>3 DEF Goes, Runs
<1>5. Inside(p)' <=> Inside(p)
  BY <1>1, <1>3, <1>4 DEF Inside, Checking, Installing
<1>6. run[p].pc # "dead"
  BY <1>1 DEF Checking
<1> QED BY <1>1, <1>4, <1>5, <1>6, StayOwned

LEMMA LockOwned ==
    ASSUME Inv, NEW p \in Builds,
           Acquire(p) \/ FindOld(p) \/ Steal(p) \/ GiveUp(p) \/ Release(p)
    PROVE  Owned'
<1> USE DEF Inv, Owned
<1>0. run \in [Builds -> Runs] /\ run[p] \in Runs /\ "none" \notin Builds
  BY BuildsAssumption DEF TypeOK
<1>1. \A q \in Builds \ {p} : run'[q] = run[q] /\ (Inside(q)' <=> Inside(q))
  BY <1>0 DEF Acquire, FindOld, Steal, GiveUp, Release, Goes, Inside
<1>2. CASE Acquire(p)
  <2>1. Inside(p)' /\ lock' = p /\ lock = "none" /\ UNCHANGED stolen
    BY <1>0, <1>2 DEF Acquire, Inside, Checking, Runs, ghosts
  <2> QED BY <1>0, <1>1, <2>1
<1>3. CASE FindOld(p)
  <2>1. /\ ~Inside(p) /\ ~Inside(p)' /\ run[p].pc # "dead"
        /\ UNCHANGED <<lock, stuck, stolen>>
    BY <1>0, <1>3 DEF FindOld, Goes, Inside, Checking, Installing, Runs, ghosts
  <2> QED BY <1>1, <2>1, StayOwned
<1>4. CASE Steal(p)
  <2>1. /\ ~Inside(p) /\ ~Inside(p)' /\ run[p].pc # "dead" /\ stuck' = stuck
        /\ stolen' = (stolen \/ (~stuck /\ lock # "none" /\ run[lock].pc # "dead"))
    BY <1>0, <1>4 DEF Steal, Goes, Inside, Checking, Installing, Runs
  <2>2. CASE stuck
    <3>1. UNCHANGED <<lock, stuck, stolen>>
      BY <1>4, <2>1, <2>2 DEF Steal, Unlink, TypeOK
    <3> QED BY <1>1, <2>1, <3>1, StayOwned
  <2>3. CASE ~stuck
    <3>1. lock' = "none"
      BY <1>4, <2>3 DEF Steal, Unlink
    <3>2. ~stolen' => \A q \in Builds \ {p} : ~Inside(q)
      <4>1. SUFFICES ASSUME ~stolen', NEW q \in Builds \ {p}, Inside(q) PROVE FALSE
        OBVIOUS
      <4>2. lock = q /\ ~(lock # "none" /\ run[lock].pc # "dead")
        BY <2>1, <2>3, <4>1
      <4>3. run[q].pc = "dead"
        BY <1>0, <4>2
      <4> QED BY <4>1, <4>3 DEF Inside, Checking, Installing
    <3> QED BY <1>0, <1>1, <2>1, <3>1, <3>2
  <2> QED BY <2>2, <2>3
<1>5. CASE GiveUp(p)
  <2>1. /\ ~Inside(p) /\ ~Inside(p)' /\ run[p].pc # "dead"
        /\ UNCHANGED <<lock, stuck, stolen>>
    BY <1>0, <1>5 DEF GiveUp, Inside, Checking, Installing, Runs, ghosts
  <2> QED BY <1>1, <2>1, StayOwned
<1>6. CASE Release(p)
  <2>1. /\ Inside(p) /\ ~Inside(p)' /\ UNCHANGED <<stuck, stolen>>
        /\ IF stuck THEN lock' = lock ELSE lock' = "none"
    BY <1>0, <1>6 DEF Release, Unlink, Inside, Checking, Installing, Runs, ghosts
  <2> QED BY <1>0, <1>1, <2>1
<1> QED BY <1>2, <1>3, <1>4, <1>5, <1>6

LEMMA OutsideOwned ==
    ASSUME Inv, Age \/ Jam \/ SpoilWheel \/ SpoilSite \/ \E p \in Builds : Crash(p) \/ Finish(p)
    PROVE  Owned'
<1> USE DEF Inv
<1>0. run \in [Builds -> Runs] /\ TypeOK /\ UNCHANGED <<lock, stolen>>
      /\ (stuck => stuck') /\ (~Jam => stuck' = stuck)
  BY DEF TypeOK, Age, Jam, SpoilWheel, SpoilSite, Crash, Finish, ghosts
<1>1. CASE Age
  BY <1>0, <1>1 DEF Age, Owned, Inside
<1>5. CASE Jam
  BY <1>0, <1>5 DEF Jam, Owned, Inside
<1>2. CASE SpoilWheel \/ SpoilSite
  <2>1. \A q \in Builds : run'[q].pc = run[q].pc /\ run'[q].stage = run[q].stage
    BY <1>0, <1>2, HarmedTyped DEF SpoilWheel, SpoilSite
  <2> QED BY <1>0, <2>1 DEF Owned, Inside
<1>3. ASSUME NEW p \in Builds, Crash(p) PROVE Owned'
  <2>1. /\ run'[p].pc = "dead" /\ \A q \in Builds \ {p} : run'[q] = run[q]
    BY <1>0, <1>3 DEF Crash, Goes, Runs
  <2>2. /\ ~Inside(p)' /\ \A q \in Builds \ {p} : Inside(q)' <=> Inside(q)
    BY <2>1 DEF Inside, Checking, Installing
  <2> QED BY <1>0, <2>1, <2>2 DEF Owned
<1>4. ASSUME NEW p \in Builds, Finish(p) PROVE Owned'
  <2>1. /\ run[p].pc = "using" /\ run'[p].pc = "done"
        /\ \A q \in Builds \ {p} : run'[q] = run[q]
    BY <1>0, <1>4 DEF Finish, Goes, Runs
  <2>2. (Inside(p)' <=> Inside(p)) /\ run[p].pc # "dead"
    BY <2>1 DEF Inside, Checking, Installing
  <2>3. stuck' = stuck
    BY <1>4 DEF Finish
  <2> QED BY <1>0, <2>1, <2>2, <2>3, StayOwned
<1> QED BY <1>1, <1>2, <1>3, <1>4, <1>5

LEMMA InitInv == Init => Inv
<1> SUFFICES ASSUME Init PROVE Inv
  OBVIOUS
<1>1. \A p \in Builds : run[p].pc = "wheel" /\ run[p].stage = "first"
  BY DEF Init, Fresh
<1>2. \A p \in Builds : ~Inside(p) /\ lock # p
  BY <1>1, BuildsAssumption DEF Init, Inside, Installing
<1> QED BY <1>2, InitTyped DEF Inv, Owned

LEMMA NextInv == Inv /\ [Next]_vars => Inv'
<1> SUFFICES ASSUME Inv, [Next]_vars PROVE Inv'
  OBVIOUS
<1>0. TypeOK'
  BY NextTyped DEF Inv
<1>1. CASE UNCHANGED vars
  BY <1>0, <1>1 DEF Inv, Owned, Inside, vars
<1>2. CASE Age \/ Jam \/ SpoilWheel \/ SpoilSite
  BY <1>0, <1>2, OutsideOwned DEF Inv
<1>3. ASSUME NEW p \in Builds, Step(p) \/ DownloadFails(p) \/ Crash(p) PROVE Inv'
  <2>1. Owned'
    BY <1>3, CheckOwned, LockOwned, InsideOwned, OutsideOwned DEF Step
  <2> QED BY <1>0, <2>1 DEF Inv
<1> QED BY <1>1, <1>2, <1>3 DEF Next

LEMMA InvAlways == Spec => []Inv
BY InitInv, NextInv, PTL DEF Spec

\* Whatever builds wait, give up, fail or die, one at a time installs the managed
\* Meson, until a live one loses its lock file to age (acquireManagedToolLock).
THEOREM OneInstalls == Spec => []InstallsAlone
<1>1. Inv => InstallsAlone
  BY DEF Inv, Owned, InstallsAlone
<1> QED BY <1>1, InvAlways, PTL

\* A build that has its runtime, or has failed, leaves no partial directory
\* on any path, and no lock file but one that cannot be removed, stolen locks
\* included (the deferred calls of ensureManagedMeson).
THEOREM NothingStays == Spec => []LeavesNothing
<1>1. Inv => LeavesNothing
  BY DEF Inv, Owned, TypeOK, LeavesNothing, Inside, Checking, Installing
<1> QED BY <1>1, InvAlways, PTL
-----------------------------------------------------------------------------
(* What the builds know of the runtime.  Sound is what each of them may    *)
(* rely on between two of its accesses, as long as no live build has lost  *)
(* its lock file.                                                          *)

Lacking(s) == ~({"main", "marker"} \subseteq s)

\* What a build outside the lock has read and relies on.
Relies(r, s) ==
    /\ r.pc = "marker" => ("marker" \in s => "main" \in s)
    /\ r.pc = "using" => ~Lacking(s)

\* What a build that no fault has met relies on.
Unharmed(p, r, w, s) ==
    /\ Relies(r, s)
    /\ r.pc = "release" => ~Lacking(s)
    /\ r.pc \in {"unsite", "unsiting", "extract", "publish"} => w = "good"
    /\ r.pc \in {"extract", "publish"} => s = {}
    /\ r.pc \in Checking /\ r.stage = "third" => w = "good" /\ s = Parts
    /\ r.pc # "abort"
    /\ r.pc = "failed" => p \in Offline

\* A build only removes a site that no build outside can come to use, or one
\* whose wheel it has replaced.
Sound(p, r, w, s) ==
    /\ r.pc = "rewheel" => w # "good" \/ Lacking(s)
    /\ r.pc \in {"unsite", "unsiting"} => r.fetched \/ Lacking(s)
    /\ ~r.harmed => Unharmed(p, r, w, s)

Tracks ==
    /\ ~torn /\ site # {} => "rest" \in site
    /\ \A p \in Builds : run[p].pc = "publish" => run[p].partial = Parts
    /\ ~stolen => \A p \in Builds : Sound(p, run[p], wheel, site)

\* A build that is outside and has not failed needs no more than what it has
\* read.
LEMMA OutsideSound ==
    ASSUME NEW p, NEW r \in Runs, NEW w, NEW s,
           r.pc \notin Installing \cup {"release", "abort"},
           r.pc \in Checking => r.stage = "first",
           ~r.harmed => Relies(r, s) /\ (r.pc = "failed" => p \in Offline)
    PROVE  Sound(p, r, w, s)
BY DEF Sound, Unharmed, Installing

\* A step of p that leaves the runtime and the other builds alone.
LEMMA AloneTracks ==
    ASSUME Inv, Tracks, NEW p \in Builds, UNCHANGED <<wheel, site, torn>>,
           stolen => stolen',
           \A q \in Builds \ {p} : run'[q] = run[q],
           run'[p].pc = "publish" => run'[p].partial = Parts,
           ~stolen => Sound(p, run'[p], wheel, site)
    PROVE  Tracks'
BY DEF Tracks

\* A step of p under the lock: the others are outside, and may be harmed.
LEMMA LockedTracks ==
    ASSUME Inv, Tracks, NEW p \in Builds, Inside(p), UNCHANGED stolen,
           \A q \in Builds \ {p} : run'[q] \in {run[q], [run[q] EXCEPT !.harmed = TRUE]},
           ~torn' /\ site' # {} => "rest" \in site',
           run'[p].pc = "publish" => run'[p].partial = Parts,
           ~stolen => Sound(p, run'[p], wheel', site'),
           ~stolen => \A q \in Builds \ {p} : ~run'[q].harmed => Relies(run'[q], site')
    PROVE  Tracks'
<1>1. \A q \in Builds : run[q] \in Runs
  BY DEF Inv, TypeOK
<1>2. \A q \in Builds \ {p} : /\ run'[q] \in Runs
                              /\ run'[q].pc = run[q].pc /\ run'[q].stage = run[q].stage
                              /\ run'[q].partial = run[q].partial
                              /\ ~run'[q].harmed => run'[q] = run[q]
  BY <1>1, HarmTyped DEF Runs
<1>3. \A q \in Builds : run'[q].pc = "publish" => run'[q].partial = Parts
  BY <1>2 DEF Tracks
<1>4. ASSUME ~stolen, NEW q \in Builds \ {p} PROVE Sound(q, run'[q], wheel', site')
  <2>1. ~Inside(q)
    BY <1>4 DEF Inv, Owned
  <2>2. /\ run[q].pc \notin Installing \cup {"release", "abort"}
        /\ run[q].pc \in Checking => run[q].stage = "first"
    BY <1>1, <2>1 DEF Inside, Runs
  <2>3. ~run'[q].harmed /\ run'[q].pc = "failed" => q \in Offline
    BY <1>2, <1>4 DEF Tracks, Sound, Unharmed
  <2>4. ~run'[q].harmed => Relies(run'[q], site')
    BY <1>4
  <2>5. /\ run'[q] \in Runs
        /\ run'[q].pc \notin Installing \cup {"release", "abort"}
        /\ run'[q].pc \in Checking => run'[q].stage = "first"
    BY <1>2, <2>2
  <2> QED BY <2>3, <2>4, <2>5, OutsideSound
<1>5. ~stolen' => \A q \in Builds : Sound(q, run'[q], wheel', site')
  BY <1>4
<1> QED BY <1>3, <1>5 DEF Tracks

LEMMA CheckTracks ==
    ASSUME Inv, Tracks, NEW p \in Builds, Check(p)
    PROVE  Tracks'
<1>0. run \in [Builds -> Runs] /\ run[p] \in Runs
  BY DEF Inv, TypeOK
<1>1. UNCHANGED <<wheel, site, torn, stolen>>
  BY DEF Check, ghosts
<1>2. PICK pc \in {"main", "marker", "using", "release", "failed", "acquire", "rewheel", "abort"} :
        /\ Goes(p, pc)
        /\ pc = "main" => wheel = "good"
        /\ pc = "marker" => "main" \in site
        /\ pc \in {"using", "release"} => run[p].pc = "marker" /\ "marker" \in site
        /\ pc = "failed" => p \in Offline
        /\ pc \in {"rewheel", "abort"} =>
             \/ run[p].pc = "wheel"  /\ wheel # "good"
             \/ run[p].pc = "main"   /\ "main" \notin site
             \/ run[p].pc = "marker" /\ "marker" \notin site
        /\ pc \in {"rewheel", "using"} => run[p].stage # "third"
        /\ pc = "abort" => run[p].stage = "third"
  BY <1>0 DEF Check, Valid, Invalid, Runs
<1>3. /\ run'[p] = [run[p] EXCEPT !.pc = pc]
      /\ \A q \in Builds \ {p} : run'[q] = run[q]
  BY <1>0, <1>2 DEF Goes
<1>4. /\ run'[p].pc = pc /\ run'[p].stage = run[p].stage
      /\ run'[p].harmed = run[p].harmed /\ run[p].pc \in Checking
  BY <1>0, <1>3 DEF Runs, Check, Checking
<1>5. ASSUME ~stolen PROVE Sound(p, run'[p], wheel, site)
  <2>1. Sound(p, run[p], wheel, site)
    BY <1>5 DEF Tracks
  <2>2. pc = "rewheel" => wheel # "good" \/ Lacking(site)
    BY <1>2 DEF Lacking
  <2>3. ASSUME ~run[p].harmed PROVE Unharmed(p, run'[p], wheel, site)
    <3>1. Unharmed(p, run[p], wheel, site)
      BY <2>1, <2>3 DEF Sound
    <3>2. pc \in {"using", "release"} => ~Lacking(site)
      BY <1>2, <3>1 DEF Unharmed, Relies, Lacking
    <3>3. run[p].stage = "third" => wheel = "good" /\ site = Parts
      BY <1>4, <3>1 DEF Unharmed
    <3>4. pc # "abort"
      BY <1>2, <3>3 DEF Parts
    <3> QED BY <1>2, <1>4, <3>2, <3>3, <3>4 DEF Unharmed, Relies
  <2> QED BY <1>2, <1>4, <2>2, <2>3 DEF Sound
<1> QED BY <1>1, <1>2, <1>3, <1>4, <1>5, AloneTracks

LEMMA LockTracks ==
    ASSUME Inv, Tracks, NEW p \in Builds,
           Acquire(p) \/ FindOld(p) \/ Steal(p) \/ GiveUp(p) \/ Release(p) \/ Finish(p)
               \/ Crash(p) \/ DownloadFails(p)
    PROVE  Tracks'
<1>0. run \in [Builds -> Runs] /\ run[p] \in Runs
  BY DEF Inv, TypeOK
<1>1. /\ UNCHANGED <<wheel, site, torn>> /\ (stolen => stolen')
      /\ \A q \in Builds \ {p} : run'[q] = run[q]
  <2>1. CASE Acquire(p) \/ FindOld(p) \/ Finish(p) \/ Crash(p)
    BY <1>0, <2>1 DEF Acquire, FindOld, Finish, Crash, Goes, ghosts
  <2>2. CASE GiveUp(p) \/ DownloadFails(p) \/ Release(p)
    BY <1>0, <2>2 DEF GiveUp, DownloadFails, Release, ghosts
  <2>3. CASE Steal(p)
    BY <1>0, <2>3 DEF Steal, Goes
  <2> QED BY <2>1, <2>2, <2>3
<1>2. /\ run'[p].harmed \in BOOLEAN
      /\ \/ run'[p].pc = "wheel" /\ run'[p].stage = "second"
         \/ run'[p].pc \in {"steal", "acquire", "done", "dead"}
         \/ run'[p].pc \in {"failed", "abort"} /\ run'[p].harmed
         \/ run[p].pc = "release" /\ run'[p].pc = "using" /\ run'[p].harmed = run[p].harmed
         \/ run[p].pc = "abort" /\ run'[p].pc = "failed" /\ run'[p].harmed = run[p].harmed
  <2>1. CASE Acquire(p) \/ FindOld(p) \/ Steal(p) \/ Finish(p) \/ Crash(p)
    BY <1>0, <2>1 DEF Acquire, FindOld, Steal, Finish, Crash, Goes, Runs
  <2>2. CASE GiveUp(p) \/ DownloadFails(p)
    BY <1>0, <2>2 DEF GiveUp, DownloadFails, Runs
  <2>3. CASE Release(p)
    BY <1>0, <2>3 DEF Release, Runs
  <2> QED BY <2>1, <2>2, <2>3
<1>3. ASSUME ~stolen PROVE Sound(p, run'[p], wheel, site)
  <2>1. Sound(p, run[p], wheel, site)
    BY <1>3 DEF Tracks
  <2> QED BY <1>2, <2>1 DEF Sound, Unharmed, Relies, Checking
<1> QED BY <1>1, <1>2, <1>3, AloneTracks


LEMMA InstallTracks ==
    ASSUME Inv, Tracks, NEW p \in Builds,
           Rewheel(p) \/ Download(p) \/ Extract(p) \/ Publish(p)
    PROVE  Tracks'
<1>0. run \in [Builds -> Runs] /\ run[p] \in Runs
  BY DEF Inv, TypeOK
<1>1. Inside(p) /\ UNCHANGED <<stolen, torn>> /\ \A q \in Builds \ {p} : run'[q] = run[q]
  BY <1>0 DEF Rewheel, Download, Extract, Publish, Goes, Inside, Installing, ghosts
<1>2. ~stolen => Sound(p, run[p], wheel, site)
  BY DEF Tracks
<1>3. ~stolen => \A q \in Builds \ {p} : ~run'[q].harmed => Relies(run[q], site)
  BY <1>1 DEF Tracks, Sound, Unharmed
<1>4. CASE Rewheel(p)
  <2>1. /\ site' = site
        /\ run'[p] = [run[p] EXCEPT !.pc = IF wheel = "good" THEN "unsite" ELSE "download"]
        /\ run[p].pc = "rewheel" /\ (wheel = "good" => wheel' = "good")
    BY <1>0, <1>4 DEF Rewheel, Goes
  <2>2. ~stolen => Sound(p, run'[p], wheel', site')
    BY <1>0, <1>2, <2>1 DEF Sound, Unharmed, Relies, Runs, Checking
  <2> QED BY <1>0, <1>1, <1>3, <2>1, <2>2, LockedTracks DEF Tracks, Runs
<1>5. CASE Download(p)
  <2>1. /\ site' = site /\ wheel' = "good"
        /\ run'[p] = [run[p] EXCEPT !.pc = "unsite", !.fetched = TRUE]
    BY <1>0, <1>5 DEF Download
  <2>2. ~stolen => Sound(p, run'[p], wheel', site')
    BY <1>0, <2>1 DEF Sound, Unharmed, Relies, Runs, Checking
  <2> QED BY <1>0, <1>1, <1>3, <2>1, <2>2, LockedTracks DEF Tracks, Runs
<1>6. CASE Extract(p)
  <2>1. /\ site' = site /\ wheel' = wheel /\ run[p].pc = "extract"
        /\ run'[p] = [run[p] EXCEPT !.partial = IF wheel = "good" THEN Parts ELSE {"dir"},
                                   !.pc = IF wheel = "good" THEN "publish" ELSE "abort"]
    BY <1>0, <1>6 DEF Extract
  <2>2. ~stolen => Sound(p, run'[p], wheel', site')
    BY <1>0, <1>2, <2>1 DEF Sound, Unharmed, Relies, Runs, Checking
  <2> QED BY <1>0, <1>1, <1>3, <2>1, <2>2, LockedTracks DEF Tracks, Runs
<1>7. CASE Publish(p) /\ site = {}
  <2>1. /\ site' = Parts /\ wheel' = wheel /\ run[p].pc = "publish"
        /\ run'[p] = [run[p] EXCEPT !.partial = {}, !.pc = "wheel", !.stage = "third"]
    BY <1>0, <1>7 DEF Publish, Tracks
  <2>2. ~stolen => Sound(p, run'[p], wheel', site')
    BY <1>0, <1>2, <2>1 DEF Sound, Unharmed, Relies, Runs
  <2>3. \A q \in Builds : Relies(run'[q], site')
    BY <2>1 DEF Relies, Lacking, Parts
  <2> QED BY <1>0, <1>1, <2>1, <2>2, <2>3, LockedTracks DEF Parts, Runs
<1>8. CASE Publish(p) /\ site # {}
  <2>1. /\ site' = site /\ wheel' = wheel /\ run[p].pc = "publish"
        /\ run'[p] = [run[p] EXCEPT !.pc = "abort"]
    BY <1>0, <1>8 DEF Publish, Goes
  <2>2. ~stolen => Sound(p, run'[p], wheel', site')
    BY <1>0, <1>2, <2>1, <1>8 DEF Sound, Unharmed, Relies, Runs
  <2> QED BY <1>0, <1>1, <1>3, <2>1, <2>2, LockedTracks DEF Tracks, Runs
<1> QED BY <1>4, <1>5, <1>6, <1>7, <1>8

\* A site goes: what those outside have read of it they find no more, or they
\* are misled.
LEMMA RemovalTracks ==
    ASSUME Inv, Tracks, NEW p \in Builds, NEW pc \in {"unsiting", "extract"},
           run[p].pc \in {"unsite", "unsiting"}, Removing(p, pc),
           UNCHANGED <<wheel, stolen>>, site' \subseteq site,
           ~torn' => site' = {},
           pc = "extract" => site' = {}
    PROVE  Tracks'
<1>0. /\ \A q \in Builds : run[q] \in Runs
      /\ Inside(p)
  BY DEF Inv, TypeOK, Inside, Installing
<1>1. /\ run'[p] = [run[p] EXCEPT !.pc = pc]
      /\ \A q \in Builds \ {p} : run'[q] = IF q \in Misled(p) THEN [run[q] EXCEPT !.harmed = TRUE]
                                                           ELSE run[q]
  BY DEF Removing
<1>2. ~stolen => Sound(p, run'[p], wheel', site')
  <2>1. /\ run'[p].pc = pc /\ run'[p].fetched = run[p].fetched
        /\ run'[p].harmed = run[p].harmed /\ run'[p].pc # "publish"
    BY <1>0, <1>1 DEF Runs
  <2>2. Lacking(site) => Lacking(site')
    BY DEF Lacking
  <2> QED BY <2>1, <2>2 DEF Tracks, Sound, Unharmed, Relies, Checking
<1>3. ASSUME ~stolen, NEW q \in Builds \ {p}, ~run'[q].harmed
      PROVE  Relies(run'[q], site')
  <2>1. run'[q] = run[q] /\ q \notin Misled(p)
    BY <1>0, <1>1, <1>3 DEF Runs
  <2>2. ~Inside(q)
    BY <1>0, <1>3 DEF Inv, Owned
  <2>3. Relies(run[q], site)
    BY <1>3, <2>1 DEF Tracks, Sound, Unharmed
  <2>4. run[p].fetched \/ Lacking(site)
    BY <1>3 DEF Tracks, Sound
  <2>5. CASE run[p].fetched
    BY <1>0, <2>1, <2>2, <2>5 DEF Misled, Relies, Inside, Checking, Runs
  <2>6. CASE Lacking(site)
    BY <2>1, <2>3, <2>6 DEF Relies, Lacking
  <2> QED BY <2>4, <2>5, <2>6
<1>4. run'[p].pc # "publish"
  BY <1>0, <1>1 DEF Runs
<1> QED BY <1>0, <1>1, <1>2, <1>3, <1>4, LockedTracks

LEMMA UnsiteTracks ==
    ASSUME Inv, Tracks, NEW p \in Builds, Unsite(p) \/ UnsiteRest(p)
    PROVE  Tracks'
<1>0. run \in [Builds -> Runs] /\ run[p] \in Runs /\ (site # {} => "dir" \in site)
  BY DEF Inv, TypeOK
<1>1. CASE UnsiteRest(p)
  BY <1>1, RemovalTracks DEF UnsiteRest
<1>2. CASE Unsite(p) /\ torn' = TRUE /\ Removing(p, "unsiting") /\ site # {}
           /\ \E some \in SUBSET (site \ {"dir"}) : site' = {"dir"} \cup some
  <2>1. /\ site' \subseteq site /\ run[p].pc = "unsite"
        /\ UNCHANGED <<wheel, stolen>>
    BY <1>0, <1>2 DEF Unsite
  <2> QED BY <1>2, <2>1, RemovalTracks
<1>3. CASE Unsite(p) /\ UNCHANGED <<site, torn>>
           /\ \/ site = {} /\ Goes(p, "extract")
              \/ run' = [run EXCEPT ![p].pc = "extract", ![p].harmed = TRUE]
  <2>1. /\ run[p].pc = "unsite" /\ UNCHANGED <<wheel, site, torn, stolen>>
        /\ \A q \in Builds \ {p} : run'[q] = run[q]
        /\ run'[p].pc = "extract"
        /\ run'[p].harmed \/ (site = {} /\ run'[p].harmed = run[p].harmed)
    BY <1>0, <1>3 DEF Unsite, Goes, Runs
  <2>2. ~stolen => Sound(p, run'[p], wheel, site)
    BY <2>1 DEF Tracks, Sound, Unharmed, Relies, Checking
  <2> QED BY <2>1, <2>2, AloneTracks
<1> QED BY <1>1, <1>2, <1>3 DEF Unsite

\* A fault of the disk meets every build that relies on anything.
LEMMA SpoilTracks ==
    ASSUME Inv, Tracks, SpoilWheel \/ SpoilSite
    PROVE  Tracks'
<1>0. \A q \in Builds : run[q] \in Runs
  BY DEF Inv, TypeOK
<1>1. /\ Harmed /\ stolen' = stolen /\ site' \subseteq site
      /\ (wheel' = wheel \/ wheel' # "good")
      /\ ~torn' => ~torn /\ ("rest" \in site => "rest" \in site')
  <2>1. CASE SpoilWheel
    BY <2>1 DEF SpoilWheel, ghosts
  <2>2. CASE SpoilSite
    <3>1. PICK part \in site \ {"dir"} : site' = site \ {part} /\ torn' = (torn \/ part = "rest")
      BY <2>2 DEF SpoilSite
    <3>2. Harmed /\ UNCHANGED <<wheel, stolen>>
      BY <2>2 DEF SpoilSite
    <3> QED BY <3>1, <3>2
  <2> QED BY <2>1, <2>2
<1>2. \A q \in Builds :
        /\ run'[q].pc = run[q].pc /\ run'[q].stage = run[q].stage
        /\ run'[q].partial = run[q].partial /\ run'[q].fetched = run[q].fetched
        /\ ~run'[q].harmed => (run[q] = Fresh \/ run[q].pc \in Over) /\ run'[q] = run[q]
  BY <1>0, <1>1 DEF Harmed, Runs
<1>3. ASSUME ~stolen, NEW q \in Builds PROVE Sound(q, run'[q], wheel', site')
  <2>1. Sound(q, run[q], wheel, site) /\ (Lacking(site) => Lacking(site'))
    BY <1>1, <1>3 DEF Tracks, Lacking
  <2>2. ~run'[q].harmed => Unharmed(q, run'[q], wheel', site')
    BY <1>2, <2>1 DEF Sound, Unharmed, Relies, Fresh, Over, Checking
  <2> QED BY <1>1, <1>2, <2>1, <2>2 DEF Sound
<1> QED BY <1>1, <1>2, <1>3 DEF Tracks

LEMMA InitTracks == Init => Tracks
<1> SUFFICES ASSUME Init PROVE Tracks
  OBVIOUS
<1>1. \A p \in Builds : /\ run[p].pc = "wheel" /\ run[p].stage = "first"
  BY DEF Init, Fresh
<1> QED BY <1>1 DEF Init, Tracks, Sound, Unharmed, Relies

LEMMA NextTracks == Inv /\ Tracks /\ [Next]_vars => Tracks'
<1> SUFFICES ASSUME Inv, Tracks, [Next]_vars PROVE Tracks'
  OBVIOUS
<1>1. CASE UNCHANGED vars
  BY <1>1 DEF Tracks, vars
<1>2. CASE Age \/ Jam
  BY <1>2 DEF Age, Jam, Tracks, ghosts
<1>3. CASE SpoilWheel \/ SpoilSite
  BY <1>3, SpoilTracks
<1>4. ASSUME NEW p \in Builds, Step(p) \/ DownloadFails(p) \/ Crash(p) PROVE Tracks'
  BY <1>4, CheckTracks, LockTracks, InstallTracks, UnsiteTracks DEF Step
<1> QED BY <1>1, <1>2, <1>3, <1>4 DEF Next

LEMMA TracksAlways == Spec => []Tracks
BY InitTracks, NextTracks, InvAlways, PTL DEF Spec

\* A build that runs Meson has the whole of it, however many builds check,
\* install, repair and remove next to it, unless the disk, a lock file that is
\* taken for abandoned or a new wheel comes between (ensureManagedMeson,
\* managedMesonCacheValid).
THEOREM WholeMesonRuns == Spec => []RunsWholeMeson
<1>1. Inv /\ Tracks => RunsWholeMeson
  BY DEF Inv, TypeOK, Tracks, Sound, Unharmed, Relies, Lacking, Parts, RunsWholeMeson
<1> QED BY <1>1, InvAlways, TracksAlways, PTL

\* Whatever another build or a crash has left behind, an installation under the
\* lock ends in a runtime that passes its last check (ensureManagedMeson).
THEOREM RuntimeRepaired == Spec => []RepairsRuntime
<1>1. Tracks => RepairsRuntime
  BY DEF Tracks, Sound, Unharmed, RepairsRuntime
<1> QED BY <1>1, TracksAlways, PTL
=============================================================================
