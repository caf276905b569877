--------------------- MODULE ArtifactPublicationProofs ---------------------
(***************************************************************************)
(* Theorems about ArtifactPublication for every set of builders, versions  *)
(* and calls and for every budget.  A first inductive invariant ties each  *)
(* label to the staged set and the backup its builder has (Pipeline), and  *)
(* then follows the sets through the renames (OnlyVerifiedVisible, Latest) *)
(* and, while no edit races a build, the source through the work directory *)
(* of all builders, file by file (Honest).  A second one is about builders *)
(* that do not overlap: a work directory is filled before it is read       *)
(* (Filled), what reuse has read is still in place when it verifies        *)
(* (Reading), and the place is empty only between the two renames (Kept).  *)
(* The base invariant also gives the refinement of PublishedSets.          *)
(***************************************************************************)
EXTENDS ArtifactPublication, TLAPS

Ready == {"inspect", "preserve", "promote"}

PipelineOf(p) ==
    /\ pc[p] \in {"empty", "copy", "compile", "seal"} \cup Ready =>
           /\ staged[p] # Absent
           /\ staged[p].digest = digest[p] /\ staged[p].intact
    /\ pc[p] \in {"empty", "copy"} =>
           staged[p].content = Whole(Absent) /\ staged[p].dry = call[p].dry
    /\ pc[p] \in Ready => staged[p].status = "good"
    /\ backup[p] # Absent => pc[p] \in {"promote", "restore", "drop"}
    /\ pc[p] = "restore" => backup[p] # Absent

Pipeline == \A p \in Builders : PipelineOf(p)

BudgetInv == \A k \in Kinds : budget[k] <= Budget[k]

\* The last published set, where it is: in place, held or left over.
Has(set) == set # Absent /\ AsBuilt(set) = promised

Latest ==
    promised # Absent =>
        \/ Has(final)
        \/ \E p \in Builders : pc[p] \in {"promote", "restore"} /\ Has(backup[p])
        \/ \E set \in orphans : Has(set)

\* v or nothing, in every file.
Pure(tree, v) == \A x \in Parts : tree[x] \in {v, Absent}

HonestSet(set) == set # Absent /\ ~set.dry => Pure(set.content, set.digest)

HonestBuilder(p) ==
    /\ pc[p] # "idle" => digest[p] = source
    /\ pc[p] = "empty" => \A x \in Parts \ todo[p] : work[x] \in {source, Absent}
    /\ pc[p] \in {"copy", "compile"} => Pure(work, source)
    /\ pc[p] \in {"compile", "seal"} \cup Ready => Pure(staged[p].content, source)
    /\ HonestSet(backup[p])

HonestBody == HonestSet(final) /\ \A p \in Builders : HonestBuilder(p)

HonestInv == Never("race") => HonestBody

-----------------------------------------------------------------------------
\* Spending keeps the budget a budget, and an event once spent stays spent.
LEMMA SpendBudget ==
    ASSUME TypeOK, BudgetInv, NEW kinds \in SUBSET Kinds, Spend(kinds)
    PROVE  /\ budget' \in [Kinds -> Nat]
           /\ BudgetInv'
           /\ \A k \in Kinds : Never(k)' => Never(k) /\ k \notin kinds
<1>1. \A k \in Kinds : budget[k] \in Nat /\ Budget[k] \in Nat
  BY BudgetAssumption DEF TypeOK
<1>2. \A k \in Kinds : budget'[k] = IF k \in kinds THEN budget[k] - 1 ELSE budget[k]
  BY DEF Spend
<1>3. \A k \in kinds : budget[k] > 0
  BY DEF Spend
<1>4. \A k \in Kinds : budget'[k] \in Nat /\ budget'[k] <= Budget[k]
  BY <1>1, <1>2, <1>3 DEF BudgetInv
<1>5. budget' \in [Kinds -> Nat]
  BY <1>4 DEF Spend
<1>6. \A k \in Kinds : Never(k)' => Never(k) /\ k \notin kinds
  BY <1>1, <1>2, <1>3 DEF Never, BudgetInv
<1> QED BY <1>4, <1>5, <1>6 DEF BudgetInv

LEMMA KindsSpent ==
    /\ \A x : (IF x THEN {"call"} ELSE {"call", "overlap"}) \in SUBSET Kinds
    /\ \A x : {IF x THEN "edit" ELSE "race"} \in SUBSET Kinds
    /\ {"io"} \in SUBSET Kinds /\ {"crash"} \in SUBSET Kinds
    /\ {"damage"} \in SUBSET Kinds
BY DEF Kinds

\* A step spends some events of the budget, or none.
LEMMA NextSpends ==
    ASSUME [Next]_vars
    PROVE  UNCHANGED budget \/ \E kinds \in SUBSET Kinds : Spend(kinds)
<1>1. ASSUME NEW p \in Builders, NEW c \in Calls, Begin(p, c)
      PROVE  \E kinds \in SUBSET Kinds : Spend(kinds)
  BY <1>1, KindsSpent DEF Begin, Kinds
<1>2. ASSUME NEW p \in Builders,
             Load(p) \/ Verify(p) \/ Stage(p) \/ Empty(p) \/ Copy(p) \/ Compile(p)
             \/ Seal(p) \/ Drop(p) \/ Clean(p)
      PROVE  UNCHANGED budget
  BY <1>2 DEF Load, Verify, Stage, Empty, Copy, Compile, Seal, Drop, Clean
<1>3. ASSUME NEW p \in Builders, Inspect(p) \/ Preserve(p) \/ Promote(p) \/ Restore(p)
      PROVE  UNCHANGED budget \/ Spend({"io"})
  BY <1>3 DEF Inspect, Preserve, Promote, Restore, Refused
<1>4. ASSUME NEW p \in Builders, Crash(p)
      PROVE  Spend({"crash"})
  BY <1>4 DEF Crash
<1>5. /\ Damage => Spend({"damage"})
      /\ Edit => \E kinds \in SUBSET Kinds : Spend(kinds)
  BY KindsSpent DEF Damage, Edit
<1>6. UNCHANGED vars => UNCHANGED budget
  BY DEF vars
<1> QED BY <1>1, <1>2, <1>3, <1>4, <1>5, <1>6, KindsSpent DEF Next, Step

\* Every step keeps the budget a budget; only an edit during a build is a race.
LEMMA NextBudget ==
    ASSUME TypeOK, BudgetInv, [Next]_vars
    PROVE  /\ budget' \in [Kinds -> Nat]
           /\ BudgetInv'
           /\ \A k \in Kinds : Never(k)' => Never(k)
           /\ Never("race")' /\ Edit => Idle
<1>1. CASE UNCHANGED budget /\ ~Edit
  BY <1>1 DEF BudgetInv, Never, TypeOK
<1>2. ASSUME NEW kinds \in SUBSET Kinds, Spend(kinds), ~Edit
      PROVE  /\ budget' \in [Kinds -> Nat]
             /\ BudgetInv'
             /\ \A k \in Kinds : Never(k)' => Never(k)
  BY <1>2, SpendBudget
<1>3. CASE Edit
  <2>1. PICK kind \in {"edit", "race"} :
            Spend({kind}) /\ (kind = "edit" => Idle)
    BY <1>3 DEF Edit
  <2>2. {kind} \in SUBSET Kinds /\ "race" \in Kinds
    BY DEF Kinds
  <2> QED BY <2>1, <2>2, SpendBudget
<1>4. CASE ~Edit /\ [Next]_vars
  <2>1. UNCHANGED budget \/ \E kinds \in SUBSET Kinds : Spend(kinds)
    BY <1>4, NextSpends
  <2> QED BY <2>1, <1>1, <1>2, <1>4
<1> QED BY <1>3, <1>4

-----------------------------------------------------------------------------
\* Records: what an EXCEPT on a set leaves and changes.
LEMMA SetFields ==
    ASSUME NEW set \in Sets
    PROVE  /\ set # Absent
           /\ set.digest \in Versions /\ set.dry \in BOOLEAN
           /\ set.content \in Trees
           /\ set.intact \in BOOLEAN
BY AbsentAssumption DEF Sets

LEMMA SetSealed ==
    ASSUME NEW set \in Sets
    PROVE  LET new == [set EXCEPT !.status = "good"]
           IN  /\ new \in Sets /\ new.status = "good"
               /\ new.digest = set.digest /\ new.dry = set.dry
               /\ new.content = set.content /\ new.intact = set.intact
BY DEF Sets

LEMMA SetCompiled ==
    ASSUME NEW set \in Sets, NEW x \in Parts, NEW v \in Optional(Versions)
    PROVE  LET new == [set EXCEPT !.content[x] = v]
           IN  /\ new \in Sets /\ new.status = set.status
               /\ new.digest = set.digest /\ new.dry = set.dry
               /\ new.content = [set.content EXCEPT ![x] = v] /\ new.intact = set.intact
BY DEF Sets, Trees

LEMMA SetDamaged ==
    ASSUME NEW set \in Sets
    PROVE  LET new == [set EXCEPT !.intact = FALSE]
           IN  /\ new \in Sets /\ new.status = set.status
               /\ new.digest = set.digest /\ new.dry = set.dry
               /\ new.content = set.content /\ AsBuilt(new) = AsBuilt(set)
BY DEF Sets, AsBuilt

LEMMA SetAsBuilt ==
    ASSUME NEW set \in Sets, set.intact
    PROVE  AsBuilt(set) = set
BY DEF Sets, AsBuilt

-----------------------------------------------------------------------------
\* What a builder's own variables are, and that only its own steps change them.
Same(q) ==
    /\ pc'[q] = pc[q] /\ call'[q] = call[q] /\ digest'[q] = digest[q]
    /\ staged'[q] = staged[q] /\ backup'[q] = backup[q] /\ todo'[q] = todo[q]

LEMMA StepSame ==
    ASSUME TypeOK, NEW p \in Builders, Step(p) \/ Crash(p),
           NEW q \in Builders, q # p
    PROVE  Same(q)
<1> USE DEF TypeOK, Same, own, Continue, Turns, Through, Return, Fail, Goto
<1>1. ASSUME NEW c \in Calls, Begin(p, c) PROVE Same(q)
  BY <1>1 DEF Begin
<1>2. CASE Load(p) \/ Verify(p) BY <1>2 DEF Load, Verify
<1>3. CASE Stage(p) \/ Empty(p) \/ Copy(p) BY <1>3 DEF Stage, Empty, Copy
<1>4. CASE Compile(p) BY <1>4 DEF Compile
<1>5. CASE Seal(p) \/ Inspect(p) BY <1>5 DEF Seal, Inspect
<1>6. CASE Preserve(p) \/ Promote(p) BY <1>6 DEF Preserve, Promote
<1>7. CASE Restore(p) \/ Drop(p) \/ Clean(p) BY <1>7 DEF Restore, Drop, Clean
<1>8. CASE Crash(p) BY <1>8 DEF Crash
<1> QED BY <1>1, <1>2, <1>3, <1>4, <1>5, <1>6, <1>7, <1>8 DEF Step

LEMMA EnvironmentSame ==
    ASSUME Edit \/ Damage \/ UNCHANGED vars, NEW q \in Builders
    PROVE  Same(q)
BY DEF Edit, Damage, vars, Same

\* What a build knows of its own keeps its type through each of its moves.
OwnType ==
    /\ pc \in [Builders -> Labels] /\ call \in [Builders -> Calls]
    /\ outcome \in [Builders -> Outcomes] /\ todo \in [Builders -> SUBSET Parts]
    /\ staged \in [Builders -> Optional(Sets)] /\ loaded \in [Builders -> Optional(Sets)]

LEMMA IdleCall == AnyCall \in Calls
BY CallsAssumption DEF AnyCall

LEMMA OwnTyped ==
    ASSUME TypeOK, NEW p \in Builders
    PROVE  /\ \A result \in Outcomes : Return(p, result) => OwnType'
           /\ \A label \in Labels : Continue(p, label) => OwnType'
           /\ \A label \in Labels : Through(p, label) /\ UNCHANGED call => OwnType'
BY IdleCall DEF TypeOK, OwnType, Return, Continue, Through, own, Goto, Labels, Optional

\* What every file of the work directory may become.
LEMMA TreeTyped ==
    ASSUME NEW tree \in Trees, NEW x \in Parts, NEW v \in Optional(Versions)
    PROVE  /\ [tree EXCEPT ![x] = v] \in Trees
           /\ [tree EXCEPT ![x] = v][x] = v
           /\ \A y \in Parts \ {x} : [tree EXCEPT ![x] = v][y] = tree[y]
BY DEF Trees

LEMMA WholeTyped == \A v \in Optional(Versions) : Whole(v) \in Trees
BY DEF Whole, Trees

LEMMA EmptySet ==
    ASSUME TypeOK, NEW p \in Builders
    PROVE  LET set == [digest |-> digest[p], dry |-> call[p].dry,
                       content |-> Whole(Absent), status |-> "open", intact |-> TRUE]
           IN  set \in Sets /\ set # Absent
<1>1. call[p].dry \in BOOLEAN
  BY CallsAssumption DEF TypeOK
<1>2. Whole(Absent) \in Trees /\ digest[p] \in Versions
  BY WholeTyped DEF Optional, TypeOK
<1>3. [digest |-> digest[p], dry |-> call[p].dry, content |-> Whole(Absent),
       status |-> "open", intact |-> TRUE] \in Sets
  BY <1>1, <1>2 DEF Sets
<1> QED BY <1>3, AbsentAssumption

\* A builder's own invariants, its staged set and backup being sets.
LEMMA StepType ==
    ASSUME TypeOK, BudgetInv, Pipeline, NEW p \in Builders, Step(p) \/ Crash(p)
    PROVE  TypeOK'
<1>0. /\ [Next]_vars /\ PipelineOf(p)
      /\ staged[p] \in Optional(Sets) /\ backup[p] \in Optional(Sets)
      /\ work \in Trees /\ source \in Optional(Versions) /\ Absent \in Optional(Versions)
      /\ {"published", "reused", "failed", "none"} \subseteq Outcomes
  BY DEF Next, Pipeline, TypeOK, Optional, Outcomes
<1>1. budget' \in [Kinds -> Nat]
  BY <1>0, NextBudget
<1>t. /\ \A result \in Outcomes : Return(p, result) => OwnType'
      /\ \A label \in Labels : Continue(p, label) => OwnType'
      /\ \A label \in Labels : Through(p, label) /\ UNCHANGED call => OwnType'
  BY OwnTyped
<1>u. ASSUME NEW x \in Parts, NEW v \in Optional(Versions), Turns(p, x, v)
      PROVE  /\ work' \in Trees /\ todo' \in [Builders -> SUBSET Parts]
             /\ UNCHANGED <<pc, call, outcome, loaded>>
  BY <1>0, <1>u, TreeTyped DEF Turns, TypeOK
<1>o. OwnType /\ digest \in [Builders -> Versions] /\ orphans \in SUBSET Sets
      /\ final \in Optional(Sets) /\ backup \in [Builders -> Optional(Sets)]
      /\ promised \in Optional(Sets) /\ source \in Versions
  BY DEF TypeOK, OwnType
<1> SUFFICES /\ source' \in Versions /\ work' \in Trees /\ final' \in Optional(Sets)
             /\ orphans' \in SUBSET Sets /\ digest' \in [Builders -> Versions]
             /\ backup' \in [Builders -> Optional(Sets)] /\ promised' \in Optional(Sets)
             /\ OwnType'
  BY <1>1 DEF TypeOK, OwnType
<1>2. ASSUME NEW c \in Calls, Begin(p, c) PROVE TypeOK'
  <2>1. outcome' \in [Builders -> Outcomes] /\ pc' \in [Builders -> Labels]
    BY <1>2, <1>o DEF Begin, OwnType, Outcomes, Labels, Goto
  <2>2. call' \in [Builders -> Calls] /\ digest' \in [Builders -> Versions]
    BY <1>2, <1>o DEF Begin, OwnType
  <2> QED BY <1>0, <1>1, <1>2, <1>o, <2>1, <2>2 DEF Begin, TypeOK, OwnType
<1> USE DEF Fail, Labels
<1>3. CASE Load(p)
  <2>1. CASE loaded' = [loaded EXCEPT ![p] = final] /\ Goto(p, "verify")
             /\ UNCHANGED <<call, outcome, todo, staged>>
    BY <1>0, <1>3, <1>o, <2>1 DEF Load, OwnType, Goto
  <2>2. CASE Continue(p, "stage") BY <1>0, <1>3, <1>o, <1>t, <2>2 DEF Load
  <2> QED BY <1>3, <2>1, <2>2 DEF Load
<1>4. CASE Verify(p) BY <1>0, <1>t, <1>o, <1>4 DEF Verify
<1>5. CASE Stage(p)
  <2>1. staged' \in [Builders -> Optional(Sets)]
    BY <1>5, <1>o, EmptySet DEF Stage, OwnType, Optional
  <2>2. pc' \in [Builders -> Labels] /\ todo' \in [Builders -> SUBSET Parts]
    BY <1>5, <1>o DEF Stage, OwnType, Goto
  <2> QED BY <1>0, <1>5, <1>o, <2>1, <2>2 DEF Stage, OwnType
<1>6. CASE Empty(p)
  <2>1. UNCHANGED <<source, final, orphans, digest, backup, promised, budget>>
    BY <1>6 DEF Empty
  <2>2. ASSUME NEW x \in Parts, Turns(p, x, Absent), UNCHANGED staged
        PROVE  work' \in Trees /\ OwnType'
    BY <1>0, <1>u, <1>o, <2>2 DEF OwnType
  <2>3. ASSUME Fail(p), UNCHANGED work PROVE work' \in Trees /\ OwnType'
    BY <1>0, <1>t, <2>3
  <2>4. ASSUME NEW label \in {"seal", "copy"}, Through(p, label) PROVE work' \in Trees /\ OwnType'
    BY <1>0, <1>t, <2>4 DEF Through
  <2>5. work' \in Trees /\ OwnType'
    BY <1>6, <2>2, <2>3, <2>4 DEF Empty
  <2> QED BY <1>o, <2>1, <2>5
<1>7. CASE Copy(p)
  <2>1. UNCHANGED <<source, final, orphans, digest, backup, promised, budget>>
    BY <1>7 DEF Copy
  <2>2. ASSUME NEW x \in Parts, Turns(p, x, source), UNCHANGED staged
        PROVE  work' \in Trees /\ OwnType'
    BY <1>0, <1>u, <1>o, <2>2 DEF OwnType
  <2>3. ASSUME NEW x \in todo[p], work' = [work EXCEPT ![x] = Absent], UNCHANGED <<pc, own>>
        PROVE  work' \in Trees /\ OwnType'
    <3>1. x \in Parts
      BY <1>o DEF OwnType
    <3>2. work' \in Trees
      BY <1>0, <2>3, <3>1, TreeTyped
    <3> QED BY <1>o, <2>3, <3>2 DEF OwnType, own
  <2>4. ASSUME Fail(p), UNCHANGED work PROVE work' \in Trees /\ OwnType'
    BY <1>0, <1>t, <2>4
  <2>5. ASSUME Through(p, "compile") PROVE work' \in Trees /\ OwnType'
    BY <1>0, <1>t, <2>5 DEF Through
  <2>6. work' \in Trees /\ OwnType'
    BY <1>7, <2>2, <2>3, <2>4, <2>5 DEF Copy
  <2> QED BY <1>o, <2>1, <2>6
<1>8. CASE Compile(p)
  <2>1. UNCHANGED <<source, final, orphans, digest, backup, promised, budget>>
    BY <1>8 DEF Compile
  <2>2. ASSUME NEW x \in Parts, Turns(p, x, work[x]),
               staged' = [staged EXCEPT ![p].content[x] = work[x]]
        PROVE  work' \in Trees /\ OwnType'
    <3>1. staged[p] \in Sets /\ work[x] \in Optional(Versions)
      BY <1>0, <1>8 DEF Compile, At, PipelineOf, Optional, Trees
    <3>2. [staged[p] EXCEPT !.content[x] = work[x]] \in Sets
      BY <3>1, SetCompiled
    <3>3. staged' \in [Builders -> Optional(Sets)]
      BY <1>o, <2>2, <3>2 DEF OwnType, Optional
    <3> QED BY <1>u, <1>o, <2>2, <3>1, <3>3 DEF OwnType
  <2>3. ASSUME Fail(p), UNCHANGED work PROVE work' \in Trees /\ OwnType'
    BY <1>0, <1>t, <2>3
  <2>4. ASSUME Through(p, "seal") PROVE work' \in Trees /\ OwnType'
    BY <1>0, <1>t, <2>4 DEF Through
  <2>5. work' \in Trees /\ OwnType'
    BY <1>8, <2>2, <2>3, <2>4 DEF Compile
  <2> QED BY <1>o, <2>1, <2>5
<1>9. CASE Seal(p)
  <2>1. staged[p] \in Sets
    BY <1>0, <1>9 DEF Seal, At, PipelineOf, Optional
  <2>2. CASE staged' = [staged EXCEPT ![p].status = "good"] /\ Goto(p, "inspect")
             /\ UNCHANGED <<call, outcome, todo, loaded>>
    <3>1. [staged[p] EXCEPT !.status = "good"] \in Sets
      BY <2>1, SetSealed
    <3>2. staged' \in [Builders -> Optional(Sets)]
      BY <1>o, <2>2, <3>1 DEF OwnType, Optional
    <3>3. pc' \in [Builders -> Labels]
      BY <1>o, <2>2 DEF OwnType, Goto
    <3> QED BY <1>0, <1>9, <1>o, <2>2, <3>2, <3>3 DEF Seal, OwnType
  <2>3. CASE Fail(p) BY <1>0, <1>t, <1>o, <1>9, <2>3 DEF Seal
  <2> QED BY <2>2, <2>3, <1>9 DEF Seal
<1>10. CASE Inspect(p) BY <1>0, <1>t, <1>o, <1>10 DEF Inspect
<1>11. CASE Preserve(p)
  <2>1. OwnType'
    BY <1>0, <1>t, <1>11 DEF Preserve
  <2>2. backup' \in [Builders -> Optional(Sets)] /\ final' \in Optional(Sets)
    BY <1>o, <1>11 DEF Preserve, Optional
  <2> QED BY <1>0, <1>o, <1>11, <2>1, <2>2 DEF Preserve
<1>12. CASE Promote(p)
  <2>1. OwnType'
    BY <1>0, <1>t, <1>12 DEF Promote
  <2> QED BY <1>0, <1>o, <1>12, <2>1 DEF Promote, Optional
<1>13. CASE Restore(p)
  <2>1. backup[p] \in Sets
    BY <1>0, <1>13 DEF Restore, At, PipelineOf, Optional
  <2>2. OwnType'
    BY <1>0, <1>t, <1>13 DEF Restore
  <2> QED BY <1>0, <1>o, <1>13, <2>1, <2>2 DEF Restore, Optional
<1>14. CASE Drop(p) BY <1>0, <1>t, <1>o, <1>14 DEF Drop, Optional
<1>15. CASE Clean(p)
  <2>1. ASSUME NEW x \in Parts, Turns(p, x, Absent), UNCHANGED staged
        PROVE  work' \in Trees /\ OwnType'
    BY <1>0, <1>u, <1>o, <2>1 DEF OwnType
  <2>2. ASSUME Return(p, "published"), UNCHANGED work PROVE work' \in Trees /\ OwnType'
    BY <1>0, <1>t, <2>2
  <2>3. work' \in Trees /\ OwnType'
    BY <1>15, <2>1, <2>2 DEF Clean
  <2> QED BY <1>o, <1>15, <2>3 DEF Clean
<1>16. CASE Crash(p)
  <2>1. OwnType'
    BY <1>0, <1>t, <1>16 DEF Crash
  <2> QED BY <1>0, <1>o, <1>16, <2>1 DEF Crash, Optional
<1>17. ASSUME NEW c \in Calls, Begin(p, c) PROVE OwnType'
  BY <1>2, <1>17 DEF TypeOK, OwnType
<1> QED BY <1>2, <1>3, <1>4, <1>5, <1>6, <1>7, <1>8, <1>9, <1>10, <1>11,
           <1>12, <1>13, <1>14, <1>15, <1>16, <1>17 DEF Step, TypeOK, OwnType

LEMMA NextType ==
    ASSUME TypeOK, BudgetInv, Pipeline, [Next]_vars
    PROVE  TypeOK' /\ BudgetInv'
<1>1. budget' \in [Kinds -> Nat] /\ BudgetInv'
  BY NextBudget
<1>2. CASE Edit BY <1>1, <1>2 DEF Edit, TypeOK
<1>3. CASE Damage
  <2>1. [final EXCEPT !.intact = FALSE] \in Sets
    BY <1>3, SetDamaged DEF Damage, TypeOK, Optional
  <2> QED BY <1>1, <1>3, <2>1 DEF Damage, TypeOK, Optional
<1>4. CASE UNCHANGED vars BY <1>1, <1>4 DEF vars, TypeOK
<1>5. ASSUME NEW p \in Builders, Step(p) \/ Crash(p) PROVE TypeOK'
  BY <1>5, StepType
<1> QED BY <1>1, <1>2, <1>3, <1>4, <1>5 DEF Next

\* How the builder moves on in its work directory: to the next file, the next
\* label, or out.
LEMMA WorkMoves ==
    ASSUME TypeOK, NEW p \in Builders,
           Empty(p) \/ Copy(p) \/ Compile(p) \/ Clean(p)
    PROVE  /\ UNCHANGED <<source, final, orphans, digest, backup, promised, budget>>
           /\ \/ pc'[p] = "idle"
              \/ /\ pc'[p] = pc[p]
                 /\ call' = call
              \/ /\ todo[p] = {} /\ call' = call /\ staged' = staged /\ work' = work
                 /\ \/ pc[p] = "empty" /\ pc'[p] = "copy" /\ ~call[p].dry /\ work = Whole(Absent)
                    \/ pc[p] = "empty" /\ pc'[p] = "seal" /\ call[p].dry /\ work = Whole(Absent)
                    \/ pc[p] = "copy" /\ pc'[p] = "compile"
                    \/ pc[p] = "compile" /\ pc'[p] = "seal"
<1> USE DEF TypeOK, own, Turns, Through, Return, Fail, Goto, At
<1>1. CASE Empty(p) BY <1>1 DEF Empty
<1>2. CASE Copy(p) BY <1>2 DEF Copy
<1>3. CASE Compile(p) BY <1>3 DEF Compile
<1>4. CASE Clean(p) BY <1>4 DEF Clean
<1> QED BY <1>1, <1>2, <1>3, <1>4

\* Only the compilation changes what is staged while the builder stays at a label.
LEMMA WorkStaged ==
    ASSUME TypeOK, Pipeline, NEW p \in Builders, pc'[p] # "idle",
           Empty(p) \/ Copy(p) \/ Compile(p) \/ Clean(p)
    PROVE  \/ staged'[p] = staged[p]
           \/ /\ pc[p] = "compile" /\ pc'[p] = "compile" /\ work' = work
              /\ staged[p] \in Sets /\ staged'[p] \in Sets
              /\ staged'[p].digest = staged[p].digest /\ staged'[p].dry = staged[p].dry
              /\ staged'[p].intact = staged[p].intact
              /\ \E x \in Parts :
                    /\ x \in todo[p] /\ todo'[p] = todo[p] \ {x}
                    /\ work[x] \in Optional(Versions)
                    /\ staged'[p].content = [staged[p].content EXCEPT ![x] = work[x]]
<1> USE DEF TypeOK, own, Turns, Through, Return, Fail, Goto, At
<1>1. CASE Empty(p) BY <1>1 DEF Empty
<1>2. CASE Copy(p) BY <1>2 DEF Copy
<1>3. CASE Compile(p)
  <2>1. staged[p] \in Sets
    BY <1>3 DEF Compile, Pipeline, PipelineOf, Optional
  <2>2. ASSUME NEW x \in Parts, Turns(p, x, work[x]),
               staged' = [staged EXCEPT ![p].content[x] = work[x]]
        PROVE  /\ pc[p] = "compile" /\ pc'[p] = "compile" /\ work' = work
               /\ staged'[p] \in Sets
               /\ staged'[p].digest = staged[p].digest /\ staged'[p].dry = staged[p].dry
               /\ staged'[p].intact = staged[p].intact
               /\ x \in todo[p] /\ todo'[p] = todo[p] \ {x}
               /\ work[x] \in Optional(Versions)
               /\ staged'[p].content = [staged[p].content EXCEPT ![x] = work[x]]
    <3>1. staged'[p] = [staged[p] EXCEPT !.content[x] = work[x]]
      BY <2>2
    <3>2. work \in Trees /\ work[x] \in Optional(Versions)
      BY DEF Trees
    <3>3. work' = work
      BY <2>2, <3>2 DEF Trees
    <3>4. pc[p] = "compile" /\ pc'[p] = "compile" /\ x \in todo[p] /\ todo'[p] = todo[p] \ {x}
      BY <1>3, <2>2 DEF Compile
    <3> QED BY <2>1, <3>1, <3>2, <3>3, <3>4, SetCompiled
  <2>3. CASE Through(p, "seal") BY <2>3
  <2>4. CASE Fail(p) BY <2>4
  <2> QED BY <1>3, <2>1, <2>2, <2>3, <2>4 DEF Compile
<1>4. CASE Clean(p) BY <1>4 DEF Clean
<1> QED BY <1>1, <1>2, <1>3, <1>4

\* finalizeManifest changes the status of what is staged, or ends the build.
LEMMA SealMoves ==
    ASSUME TypeOK, Pipeline, NEW p \in Builders, Seal(p)
    PROVE  /\ UNCHANGED <<source, work, final, orphans, digest, backup, promised, budget>>
           /\ pc[p] = "seal"
           /\ \/ pc'[p] = "idle"
              \/ /\ pc'[p] = "inspect" /\ call' = call /\ todo' = todo
                 /\ staged[p] \in Sets /\ staged'[p] \in Sets /\ staged'[p].status = "good"
                 /\ staged'[p].digest = staged[p].digest /\ staged'[p].dry = staged[p].dry
                 /\ staged'[p].content = staged[p].content
                 /\ staged'[p].intact = staged[p].intact
<1> USE DEF TypeOK, Return, Fail, Goto, At
<1>1. staged[p] \in Sets
  BY DEF Seal, Pipeline, PipelineOf, Optional
<1>2. CASE staged' = [staged EXCEPT ![p].status = "good"] /\ Goto(p, "inspect")
           /\ UNCHANGED <<call, outcome, todo, loaded>>
  <2>1. staged'[p] = [staged[p] EXCEPT !.status = "good"]
    BY <1>2
  <2>2. pc'[p] = "inspect"
    BY <1>2
  <2> QED BY <1>1, <1>2, <2>1, <2>2, SetSealed DEF Seal
<1>3. CASE Fail(p) BY <1>3 DEF Seal
<1> QED BY <1>2, <1>3 DEF Seal

\* A builder that will publish has a verified staged set, and one that moved
\* the previous set aside knows it until it deletes it or puts it back.
LEMMA NextPipeline ==
    ASSUME TypeOK, Pipeline, [Next]_vars
    PROVE  Pipeline'
<1>1. ASSUME NEW q \in Builders, Same(q)
      PROVE  PipelineOf(q)'
  BY <1>1 DEF Pipeline, PipelineOf, Same
<1>2. ASSUME NEW p \in Builders, Step(p) \/ Crash(p)
      PROVE  PipelineOf(p)'
  <2>0. /\ PipelineOf(p)
        /\ staged[p] \in Optional(Sets) /\ backup[p] \in Optional(Sets)
    BY DEF Pipeline, TypeOK
  <2>1. ASSUME NEW c \in Calls, Begin(p, c) PROVE PipelineOf(p)'
    BY <2>0, <2>1 DEF Begin, TypeOK, Goto, At, PipelineOf, Ready
  <2>3. CASE Stage(p)
    <3>1. /\ staged'[p] # Absent /\ staged'[p].digest = digest'[p] /\ staged'[p].intact
          /\ staged'[p].content = Whole(Absent) /\ staged'[p].dry = call'[p].dry
      BY <2>3, EmptySet DEF Stage, TypeOK
    <3>2. pc'[p] = "empty" /\ pc[p] = "stage" /\ backup' = backup
      BY <2>3 DEF Stage, TypeOK, Goto, At
    <3> QED BY <2>0, <3>1, <3>2 DEF PipelineOf, Ready
  <2>4. CASE Empty(p) \/ Copy(p) \/ Compile(p) \/ Clean(p)
    <3>1. CASE pc'[p] = "idle"
      BY <2>0, <2>4, <3>1, WorkMoves DEF PipelineOf, Ready, Empty, Copy, Compile, Clean, At
    <3>2. CASE pc'[p] # "idle"
      <4>1. pc[p] \in {"empty", "copy", "compile", "clean"} /\ UNCHANGED <<digest, backup>>
            /\ call' = call
        BY <2>4, <3>2, WorkMoves DEF Empty, Copy, Compile, Clean, At
      <4>2. CASE staged'[p] = staged[p]
        BY <2>0, <2>4, <3>2, <4>1, <4>2, WorkMoves DEF PipelineOf, Ready
      <4>3. CASE pc[p] = "compile" /\ pc'[p] = "compile" /\ staged'[p] \in Sets
                 /\ staged'[p].digest = staged[p].digest /\ staged'[p].intact = staged[p].intact
        BY <2>0, <4>1, <4>3, AbsentAssumption DEF PipelineOf, Ready
      <4> QED BY <2>4, <3>2, <4>2, <4>3, WorkStaged
    <3> QED BY <3>1, <3>2
  <2>6. CASE Seal(p)
    BY <2>0, <2>6, SealMoves, AbsentAssumption DEF PipelineOf, Ready
  <2> USE <2>0 DEF TypeOK, own, Continue, Return, Fail, Goto, At, PipelineOf, Ready
  <2>2. CASE Load(p) \/ Verify(p) BY <2>2 DEF Load, Verify
  <2>7. CASE Inspect(p) BY <2>7 DEF Inspect
  <2>8. CASE Preserve(p) BY <2>8 DEF Preserve
  <2>9. CASE Promote(p) BY <2>9 DEF Promote
  <2>10. CASE Restore(p) BY <2>10 DEF Restore
  <2>11. CASE Drop(p) BY <2>11 DEF Drop
  <2>12. CASE Crash(p) BY <2>12 DEF Crash
  <2> QED BY <1>2, <2>1, <2>2, <2>3, <2>4, <2>6, <2>7, <2>8, <2>9,
             <2>10, <2>11, <2>12 DEF Step
<1>3. ASSUME NEW q \in Builders PROVE PipelineOf(q)'
  BY <1>1, <1>2, StepSame, EnvironmentSame DEF Next
<1> QED BY <1>3 DEF Pipeline

-----------------------------------------------------------------------------
\* Only verified sets are anywhere a reader or a later rename finds them.
LEMMA NextVerified ==
    ASSUME TypeOK, Pipeline, OnlyVerifiedVisible, [Next]_vars
    PROVE  OnlyVerifiedVisible'
<1> DEFINE Good(set) == set # Absent => set.status = "good"
<1>0. /\ Good(final) /\ \A q \in Builders : Good(backup[q])
      /\ \A set \in orphans : Good(set)
  BY DEF OnlyVerifiedVisible
<1> SUFFICES /\ Good(final') /\ \A q \in Builders : Good(backup'[q])
             /\ \A set \in orphans' : Good(set)
  BY DEF OnlyVerifiedVisible
<1>1. ASSUME NEW p \in Builders, Step(p) \/ Crash(p)
      PROVE  /\ Good(final') /\ Good(backup'[p])
             /\ \A set \in orphans' : Good(set)
  <2> USE <1>0 DEF TypeOK
  <2>1. CASE Preserve(p)
    BY <2>1 DEF Preserve
  <2>2. CASE Promote(p)
    <3>1. staged[p].status = "good"
      BY <2>2 DEF Promote, At, Pipeline, PipelineOf, Ready
    <3> QED BY <2>2, <3>1 DEF Promote
  <2>3. CASE Restore(p)
    BY <2>3 DEF Restore
  <2>4. CASE Drop(p)
    BY <2>4 DEF Drop
  <2>5. CASE Crash(p)
    BY <2>5 DEF Crash
  <2>6. CASE Load(p) \/ Verify(p) \/ Stage(p) \/ Empty(p) \/ Copy(p)
    BY <2>6 DEF Load, Verify, Stage, Empty, Copy
  <2>7. CASE Compile(p) \/ Seal(p) \/ Inspect(p) \/ Clean(p)
    <3>1. UNCHANGED <<final, orphans, backup>>
      BY <2>7 DEF Compile, Seal, Inspect, Clean
    <3> QED BY <3>1
  <2>8. ASSUME NEW c \in Calls, Begin(p, c)
        PROVE  UNCHANGED <<final, orphans, backup>>
    BY <2>8 DEF Begin
  <2> QED BY <1>1, <2>1, <2>2, <2>3, <2>4, <2>5, <2>6, <2>7, <2>8 DEF Step
<1>2. CASE Damage
  <2>1. final \in Sets /\ final' = [final EXCEPT !.intact = FALSE]
    BY <1>2 DEF Damage, TypeOK, Optional
  <2>2. final'.status = final.status /\ final # Absent
    BY <2>1, SetDamaged, AbsentAssumption
  <2>3. UNCHANGED <<orphans, backup>>
    BY <1>2 DEF Damage
  <2> QED BY <1>0, <2>2, <2>3
<1>3. CASE Edit \/ UNCHANGED vars
  BY <1>0, <1>3 DEF Edit, vars
<1>4. ASSUME NEW p \in Builders, Step(p) \/ Crash(p), NEW q \in Builders
      PROVE  Good(backup'[q])
  BY <1>0, <1>1, <1>4, StepSame DEF Same
<1> QED BY <1>1, <1>2, <1>3, <1>4 DEF Next

\* The last published set is followed through every rename.
LEMMA NextLatest ==
    ASSUME TypeOK, Pipeline, Latest, [Next]_vars
    PROVE  Latest'
<1> USE DEF Has
<1>1. ASSUME NEW p \in Builders, Step(p) \/ Crash(p)
      PROVE  Latest'
  <2>1. ASSUME NEW q \in Builders, q # p
        PROVE  pc'[q] = pc[q] /\ backup'[q] = backup[q]
    BY <1>1, <2>1, StepSame DEF Same
  <2> SUFFICES ASSUME promised' # Absent
               PROVE  \/ Has(final)'
                      \/ \E q \in Builders : /\ pc'[q] \in {"promote", "restore"}
                                             /\ Has(backup[q])'
                      \/ \E set \in orphans' : Has(set)'
    BY DEF Latest
  <2> USE DEF TypeOK, Goto, own, Continue, Turns, Through, Return, Fail, At
  <2>2. CASE Promote(p)
    <3>1. CASE promised' = promised /\ final' = final
      <4>1. /\ orphans' = orphans /\ backup' = backup
            /\ pc[p] = "promote"
            /\ pc'[p] \in {"restore", "idle", "drop"}
            /\ (backup[p] # Absent => pc'[p] = "restore") \/ final' # Absent
        BY <2>2, <3>1 DEF Promote
      <4>2. CASE Has(final) BY <3>1, <4>2 DEF AsBuilt
      <4>3. CASE ~Has(final)
        <5>1. staged[p] # Absent /\ staged[p] \in Sets /\ staged[p].intact
          BY <4>1 DEF Pipeline, PipelineOf, Ready, Optional
        <5>2. AsBuilt(staged[p]) = staged[p]
          BY <5>1, SetAsBuilt
        <5>3. final' # staged[p] \/ ~(promised' = staged[p])
          BY <3>1, <4>3, <5>1, <5>2
        <5>4. backup[p] # Absent => pc'[p] = "restore"
          BY <2>2, <3>1, <5>3 DEF Promote
        <5> QED BY <2>1, <3>1, <4>1, <4>3, <5>4 DEF Latest
      <4> QED BY <4>2, <4>3
    <3>2. CASE promised' = staged[p] /\ final' = staged[p]
      <4>1. staged[p] # Absent /\ staged[p] \in Sets /\ staged[p].intact
        BY <2>2 DEF Promote, Pipeline, PipelineOf, Ready, Optional
      <4> QED BY <3>2, <4>1, SetAsBuilt
    <3> QED BY <2>2, <3>1, <3>2 DEF Promote
  <2>3. CASE Preserve(p)
    <3>1. /\ pc[p] = "preserve" /\ backup[p] = Absent
          /\ promised' = promised /\ orphans' = orphans
      BY <2>3 DEF Preserve, Pipeline, PipelineOf
    <3>2. CASE final' = final /\ backup' = backup
      BY <2>1, <3>1, <3>2 DEF Latest
    <3>3. CASE backup' = [backup EXCEPT ![p] = final] /\ pc'[p] = "promote"
      <4>1. backup'[p] = final
        BY <3>3
      <4> QED BY <2>1, <3>1, <3>3, <4>1 DEF Latest
    <3> QED BY <2>3, <3>2, <3>3 DEF Preserve
  <2>4. CASE Restore(p)
    <3>1. backup[p] # Absent /\ promised' = promised
      BY <2>4 DEF Restore, Pipeline, PipelineOf
    <3>2. CASE final = Absent /\ final' = backup[p] /\ orphans' = orphans
      BY <2>1, <3>1, <3>2 DEF Latest
    <3>3. CASE final' = final /\ orphans' = orphans \cup {backup[p]}
      BY <2>1, <3>1, <3>3 DEF Latest
    <3> QED BY <2>4, <3>2, <3>3 DEF Restore
  <2>5. CASE Crash(p)
    <3>1. /\ promised' = promised /\ final' = final
          /\ orphans' = orphans \cup ({backup[p]} \ {Absent})
      BY <2>5 DEF Crash
    <3> QED BY <2>1, <3>1 DEF Latest
  <2>6. CASE \/ (\E c \in Calls : Begin(p, c)) \/ Load(p) \/ Verify(p)
             \/ Stage(p) \/ Empty(p) \/ Copy(p) \/ Compile(p) \/ Seal(p) \/ Inspect(p)
             \/ Drop(p) \/ Clean(p)
    <3>1. /\ promised' = promised /\ final' = final /\ orphans' = orphans
          /\ pc[p] \notin {"promote", "restore"}
      BY <2>6 DEF Begin, Load, Verify, Stage, Empty, Copy, Compile, Seal, Inspect,
                  Drop, Clean
    <3> QED BY <2>1, <3>1 DEF Latest
  <2> QED BY <1>1, <2>2, <2>3, <2>4, <2>5, <2>6 DEF Step
<1>2. CASE Damage
  <2>1. final \in Sets /\ final' = [final EXCEPT !.intact = FALSE]
    BY <1>2 DEF Damage, TypeOK, Optional
  <2>2. final' \in Sets /\ AsBuilt(final') = AsBuilt(final)
    BY <2>1, SetDamaged
  <2>3. Has(final) => Has(final)'
    BY <1>2, <2>2, AbsentAssumption DEF Damage
  <2>4. UNCHANGED <<orphans, backup, pc, promised>>
    BY <1>2 DEF Damage
  <2> QED BY <2>3, <2>4 DEF Latest
<1>3. CASE Edit \/ UNCHANGED vars
  BY <1>3 DEF Edit, vars, Latest
<1> QED BY <1>1, <1>2, <1>3 DEF Next

-----------------------------------------------------------------------------
\* A step leaves a file of the work directory alone, removes it, cuts it short or
\* copies it from the source.
LEMMA WorkChanges ==
    ASSUME TypeOK, NEW p \in Builders, Step(p) \/ Crash(p)
    PROVE  \A x \in Parts : work'[x] \in {work[x], source, Absent}
<1>0. work \in Trees
  BY DEF TypeOK
<1>1. ASSUME NEW x \in Parts, NEW v, Turns(p, x, v)
      PROVE  \A y \in Parts : work'[y] \in {work[y], v}
  BY <1>0, <1>1 DEF Turns, Trees
<1>2. CASE Empty(p)
  BY <1>1, <1>2 DEF Empty, Through
<1>3. CASE Copy(p)
  <2>1. ASSUME NEW x \in todo[p], work' = [work EXCEPT ![x] = Absent]
        PROVE  \A y \in Parts : work'[y] \in {work[y], Absent}
    BY <1>0, <2>1 DEF Trees
  <2> QED BY <1>1, <1>3, <2>1 DEF Copy, Through
<1>4. CASE Compile(p)
  <2>1. ASSUME NEW x \in Parts, Turns(p, x, work[x])
        PROVE  \A y \in Parts : work'[y] = work[y]
    BY <1>0, <2>1 DEF Turns, Trees
  <2> QED BY <1>4, <2>1 DEF Compile, Through
<1>5. CASE Clean(p)
  BY <1>1, <1>5 DEF Clean
<1>6. CASE ~(Empty(p) \/ Copy(p) \/ Compile(p) \/ Clean(p))
  <2>1. work' = work
    BY <1>6 DEF Step, Begin, Load, Verify, Stage, Seal, Inspect, Preserve, Promote,
                Restore, Drop, Crash
  <2> QED BY <2>1
<1> QED BY <1>2, <1>3, <1>4, <1>5, <1>6

\* What p has emptied stays empty or comes back from the same source; what it
\* has copied and read is of that source or missing.
LEMMA WorkHonest ==
    ASSUME TypeOK, Pipeline, NEW p \in Builders, HonestSet(final), HonestBuilder(p),
           source' = source, \A x \in Parts : work'[x] \in {work[x], source, Absent},
           Empty(p) \/ Copy(p) \/ Compile(p) \/ Clean(p)
    PROVE  HonestSet(final)' /\ HonestBuilder(p)'
<1>1. /\ UNCHANGED <<final, digest, backup>> /\ todo[p] \subseteq Parts /\ work \in Trees
      /\ pc[p] \in {"empty", "copy", "compile", "clean"}
  BY WorkMoves DEF TypeOK, Empty, Copy, Compile, Clean, At
<1>2. CASE pc'[p] = "idle"
  BY <1>1, <1>2 DEF HonestBuilder, HonestSet, Pure, Ready
<1>3. CASE pc'[p] = pc[p] /\ pc[p] # "idle"
  <2>1. pc[p] = "empty" => \A x \in Parts \ todo'[p] : work'[x] \in {source, Absent}
    <3>1. SUFFICES ASSUME pc[p] = "empty", NEW x \in Parts, Turns(p, x, Absent)
                   PROVE  \A y \in Parts \ todo'[p] : work'[y] \in {source, Absent}
      BY <1>3 DEF Empty, Copy, Compile, Clean, At, Through, Fail, Return, Goto, TypeOK
    <3>2. todo'[p] = todo[p] \ {x} /\ work'[x] = Absent
      BY <1>1, <3>1 DEF Turns, TypeOK, Trees
    <3> QED BY <3>1, <3>2 DEF HonestBuilder
  <2>2. pc[p] \in {"copy", "compile"} => Pure(work, source)'
    BY DEF HonestBuilder, Pure
  <2>3. pc[p] = "compile" => Pure(staged'[p].content, source)
    <3>1. CASE staged'[p] = staged[p]
      BY <3>1 DEF HonestBuilder
    <3>2. ASSUME pc[p] = "compile", staged[p] \in Sets, NEW x \in Parts,
                 staged'[p].content = [staged[p].content EXCEPT ![x] = work[x]]
          PROVE  Pure(staged'[p].content, source)
      BY <3>2 DEF HonestBuilder, Pure, Sets, Trees
    <3> QED BY <1>3, <3>1, <3>2, WorkStaged
  <2> QED BY <1>1, <1>3, <2>1, <2>2, <2>3 DEF HonestBuilder, HonestSet, Pure, Ready
<1>4. CASE pc'[p] # pc[p] /\ pc'[p] # "idle"
  <2>1. /\ todo[p] = {} /\ staged' = staged /\ work' = work
        /\ \/ pc[p] = "empty" /\ pc'[p] \in {"copy", "seal"} /\ work = Whole(Absent)
           \/ pc[p] = "copy" /\ pc'[p] = "compile"
           \/ pc[p] = "compile" /\ pc'[p] = "seal"
    BY <1>4, WorkMoves
  <2>2. pc[p] \in {"empty", "copy"} => staged[p].content = Whole(Absent)
    BY DEF Pipeline, PipelineOf
  <2> QED BY <1>1, <2>1, <2>2 DEF HonestBuilder, HonestSet, Pure, Whole, Ready
<1> QED BY <1>2, <1>3, <1>4

\* While no edit races a build, the work directory of a builder that has emptied
\* it holds the fingerprinted source, as far as it holds anything, and so does
\* every set made from it.
LEMMA StepHonest ==
    ASSUME TypeOK, Pipeline, HonestBody, NEW p \in Builders, Step(p) \/ Crash(p)
    PROVE  HonestBody'
<1>0. /\ HonestSet(final) /\ HonestBuilder(p) /\ PipelineOf(p)
      /\ work \in Trees /\ todo[p] \subseteq Parts
  BY DEF HonestBody, TypeOK, Pipeline
<1>1. source' = source
  BY DEF Step, Begin, Load, Verify, Stage, Empty, Copy, Compile, Seal, Inspect,
         Preserve, Promote, Restore, Drop, Clean, Crash
<1>2. \A x \in Parts : work'[x] \in {work[x], source, Absent}
  BY <1>0, WorkChanges
<1>3. ASSUME NEW q \in Builders, q # p PROVE HonestBuilder(q)'
  <2>1. HonestBuilder(q) /\ Same(q)
    BY <1>3, StepSame DEF HonestBody
  <2>2. \A x \in Parts : work[x] \in {source, Absent} => work'[x] \in {source, Absent}
    BY <1>2
  <2> QED BY <1>1, <2>1, <2>2 DEF HonestBuilder, HonestSet, Pure, Same
<1>4. HonestSet(final)' /\ HonestBuilder(p)'
  <2>1. ASSUME NEW c \in Calls, Begin(p, c) PROVE HonestSet(final)' /\ HonestBuilder(p)'
    BY <1>0, <2>1 DEF Begin, HonestBuilder, HonestSet, Pure, TypeOK, Goto, At, Ready
  <2>3. CASE Stage(p)
    <3>1. /\ UNCHANGED <<final, digest, backup, work>> /\ pc'[p] = "empty"
          /\ pc[p] = "stage" /\ todo'[p] = Parts
      BY <2>3 DEF Stage, TypeOK, Goto, At
    <3> QED BY <1>0, <1>1, <3>1 DEF HonestBuilder, HonestSet, Pure, Ready
  <2>4. CASE Empty(p) \/ Copy(p) \/ Compile(p) \/ Clean(p)
    BY <1>0, <1>1, <1>2, <2>4, WorkHonest
  <2>6. CASE Seal(p)
    BY <1>0, <1>1, <2>6, SealMoves DEF HonestBuilder, HonestSet, Pure, Ready
  <2> USE <1>0, <1>1
          DEF HonestBuilder, HonestSet, Pure, TypeOK, own, Continue, Return, Fail, Goto, At, Ready
  <2>2. CASE Load(p) \/ Verify(p)
    BY <2>2 DEF Load, Verify
  <2>7. CASE Inspect(p) BY <2>7 DEF Inspect
  <2>8. CASE Preserve(p) BY <2>8 DEF Preserve
  <2>9. CASE Promote(p) BY <2>9 DEF Promote, PipelineOf
  <2>10. CASE Restore(p) BY <2>10 DEF Restore
  <2>11. CASE Drop(p) BY <2>11 DEF Drop
  <2>12. CASE Crash(p) BY <2>12 DEF Crash
  <2> QED BY <2>1, <2>2, <2>3, <2>4, <2>6, <2>7, <2>8, <2>9, <2>10,
             <2>11, <2>12 DEF Step
<1> QED BY <1>3, <1>4 DEF HonestBody

LEMMA NextHonest ==
    ASSUME TypeOK, BudgetInv, Pipeline, HonestInv, [Next]_vars
    PROVE  HonestInv'
<1>1. "race" \in Kinds
  BY DEF Kinds
<1> SUFFICES ASSUME Never("race")' PROVE HonestBody'
  BY DEF HonestInv
<1>2. Never("race") /\ HonestBody /\ (Edit => Idle)
  BY <1>1, NextBudget DEF HonestInv
<1>3. ASSUME NEW p \in Builders, Step(p) \/ Crash(p) PROVE HonestBody'
  BY <1>2, <1>3, StepHonest
<1>4. CASE Edit
  BY <1>2, <1>4 DEF Edit, Idle, At, HonestBody, HonestBuilder, HonestSet, Ready
<1>5. CASE Damage
  <2>1. final \in Sets /\ final' = [final EXCEPT !.intact = FALSE]
    BY <1>5 DEF Damage, TypeOK, Optional
  <2>2. /\ final'.dry = final.dry /\ final'.content = final.content
        /\ final'.digest = final.digest /\ final # Absent
    BY <2>1, SetDamaged, AbsentAssumption
  <2>3. UNCHANGED <<source, work, pc, digest, todo, staged, backup>>
    BY <1>5 DEF Damage
  <2> QED BY <1>2, <2>2, <2>3 DEF HonestBody, HonestBuilder, HonestSet, Pure
<1>6. CASE UNCHANGED vars
  BY <1>2, <1>6 DEF vars, HonestBody, HonestBuilder, HonestSet
<1> QED BY <1>3, <1>4, <1>5, <1>6 DEF Next

-----------------------------------------------------------------------------
Base == TypeOK /\ BudgetInv /\ Pipeline /\ OnlyVerifiedVisible /\ Latest
        /\ HonestInv

LEMMA InitBase == Init => Base
<1> SUFFICES ASSUME Init PROVE Base
  OBVIOUS
<1>1. TypeOK
  BY IdleCall, WholeTyped, BudgetAssumption
     DEF Init, TypeOK, Optional, Labels, Outcomes
<1>2. BudgetInv
  BY BudgetAssumption DEF Init, BudgetInv
<1>3. Pipeline
  BY DEF Init, Pipeline, PipelineOf, Ready
<1>4. OnlyVerifiedVisible /\ Latest
  BY DEF Init, OnlyVerifiedVisible, Latest
<1>5. HonestInv
  BY DEF Init, HonestInv, HonestBody, HonestBuilder, HonestSet, Ready
<1> QED BY <1>1, <1>2, <1>3, <1>4, <1>5 DEF Base

LEMMA BaseAlways == Spec => []Base
<1>1. Base /\ [Next]_vars => Base'
  BY NextType, NextPipeline, NextVerified, NextLatest, NextHonest DEF Base
<1> QED BY InitBase, <1>1, PTL DEF Spec

\* The variables keep their types: builder.go's sets, labels and outcomes.
THEOREM TypeCorrect == Spec => []TypeOK
BY BaseAlways, PTL DEF Base

\* Whatever builders, failed renames and crashes do, dist/<target> and what is
\* moved from it only ever hold sets that finalizeManifest verified.
THEOREM OnlyVerified == Spec => []OnlyVerifiedVisible
BY BaseAlways, PTL DEF Base

\* publishArtifactSet never loses the set published last: it is in place, in
\* the hands of a publisher that will replace it or put it back, or left over.
THEOREM NothingLost == Spec => []LatestSurvives
<1>1. Latest => LatestSurvives
  <2> SUFFICES ASSUME Latest, promised # Absent
               PROVE  LatestSurvives
    BY DEF LatestSurvives
  <2>1. CASE Has(final) BY <2>1 DEF LatestSurvives, Has
  <2>2. ASSUME NEW p \in Builders, pc[p] \in {"promote", "restore"}, Has(backup[p])
        PROVE  LatestSurvives
    <3>1. backup[p] \in Held
      BY <2>2 DEF Held
    <3> QED BY <2>2, <3>1 DEF LatestSurvives, Has
  <2>3. ASSUME NEW set \in orphans, Has(set) PROVE LatestSurvives
    BY <2>3 DEF LatestSurvives, Has
  <2> QED BY <2>1, <2>2, <2>3 DEF Latest
<1>2. Base => LatestSurvives
  BY <1>1 DEF Base
<1> QED BY BaseAlways, <1>2, PTL

-----------------------------------------------------------------------------
(* Builders that do not overlap.                                           *)

\* What has been spent stays spent.
LEMMA BudgetFalls ==
    ASSUME TypeOK, [Next]_vars, NEW k \in Kinds
    PROVE  budget[k] \in Nat /\ budget'[k] \in Nat /\ budget'[k] <= budget[k]
<1>1. budget[k] \in Nat
  BY DEF TypeOK
<1>2. ASSUME NEW kinds \in SUBSET Kinds, Spend(kinds)
      PROVE  budget'[k] \in Nat /\ budget'[k] <= budget[k]
  <2>1. /\ budget'[k] = IF k \in kinds THEN budget[k] - 1 ELSE budget[k]
        /\ k \in kinds => budget[k] > 0
    BY <1>2 DEF Spend
  <2> QED BY <1>1, <2>1
<1> QED BY <1>1, <1>2, NextSpends

\* One builder at a time is at work.
Alone == \A p, q \in Builders : pc[p] # "idle" /\ pc[q] # "idle" => p = q

\* What reuseArtifactSet has read is still there when it verifies, or damaged.
Read(p) == pc[p] = "verify" =>
    /\ loaded[p] # Absent
    /\ loaded[p].dry = call[p].dry /\ loaded[p].digest = digest[p]
    /\ final = loaded[p] \/ (final # Absent /\ ~final.intact)

Reading == \A p \in Builders : Read(p)

SoloInv == Never("overlap") => Alone /\ Reading

\* As long as builders do not overlap, the others are idle before and after a step.
LEMMA OthersIdle ==
    ASSUME TypeOK, BudgetInv, Alone, Never("overlap")', NEW p \in Builders, Step(p) \/ Crash(p)
    PROVE  \A q \in Builders \ {p} : pc[q] = "idle" /\ pc'[q] = "idle"
<1>0. "overlap" \in Kinds
  BY DEF Kinds
<1>1. pc[p] = "idle" => Idle
  <2>1. SUFFICES ASSUME pc[p] = "idle", NEW c \in Calls, Begin(p, c) PROVE Idle
    BY DEF Step, Load, Verify, Stage, Empty, Copy, Compile, Seal, Inspect, Preserve,
           Promote, Restore, Drop, Clean, Crash, At
  <2>2. CASE ~Idle
    <3>1. Spend({"call", "overlap"}) /\ {"call", "overlap"} \in SUBSET Kinds
      BY <2>1, <2>2 DEF Begin, Kinds
    <3> QED BY <1>0, <3>1, SpendBudget
  <2> QED BY <2>2
<1>2. \A q \in Builders \ {p} : pc[q] = "idle"
  BY <1>1 DEF Alone, Idle, At
<1> QED BY <1>2, StepSame DEF Same

\* The steps of p, by what they do to the others and to what p has read.
LEMMA NextSolo ==
    ASSUME TypeOK, BudgetInv, SoloInv, [Next]_vars
    PROVE  SoloInv'
<1>1. "overlap" \in Kinds
  BY DEF Kinds
<1> SUFFICES ASSUME Never("overlap")' PROVE (Alone /\ Reading)'
  BY DEF SoloInv
<1>2. Alone /\ Reading /\ Never("overlap")
  BY <1>1, NextBudget DEF SoloInv
<1>3. ASSUME NEW p \in Builders, Step(p) \/ Crash(p)
      PROVE  \A q \in Builders \ {p} : pc[q] = "idle" /\ pc'[q] = "idle"
  BY <1>2, <1>3, OthersIdle
<1>4. Alone'
  <2>1. CASE Edit \/ Damage \/ UNCHANGED vars
    BY <1>2, <2>1 DEF Edit, Damage, vars, Alone
  <2>2. ASSUME NEW p \in Builders, Step(p) \/ Crash(p) PROVE Alone'
    BY <1>3, <2>2 DEF Alone
  <2> QED BY <2>1, <2>2 DEF Next
<1>5. Reading'
  <2>1. CASE Edit \/ UNCHANGED vars
    BY <1>2, <2>1 DEF Edit, vars, Reading, Read
  <2>2. CASE Damage
    <3>1. final \in Sets /\ final' = [final EXCEPT !.intact = FALSE]
      BY <2>2 DEF Damage, TypeOK, Optional
    <3>2. final' # Absent /\ ~final'.intact
      BY <3>1, SetDamaged, SetFields, AbsentAssumption DEF Sets
    <3>3. UNCHANGED <<pc, call, digest, loaded>>
      BY <2>2 DEF Damage
    <3> QED BY <1>2, <3>2, <3>3 DEF Reading, Read
  <2>3. ASSUME NEW p \in Builders, Step(p) \/ Crash(p) PROVE Reading'
    <3>1. \A q \in Builders \ {p} : Read(q)'
      BY <1>3, <2>3 DEF Read
    <3>2. Read(p)'
      <4> USE DEF TypeOK, own, Continue, Turns, Through, Return, Fail, Goto, At
      <4>1. CASE Load(p)
        <5>1. CASE Matches(p) /\ loaded' = [loaded EXCEPT ![p] = final]
          <6>1. loaded'[p] = final /\ UNCHANGED <<final, call, digest>>
            BY <4>1, <5>1 DEF Load
          <6> QED BY <5>1, <6>1 DEF Read, Matches
        <5>2. CASE pc' = [pc EXCEPT ![p] = "stage"]
          BY <5>2 DEF Read
        <5> QED BY <4>1, <5>1, <5>2 DEF Load
      <4>2. CASE ~Load(p)
        <5>1. pc'[p] # "verify"
          <6>1. ASSUME NEW c \in Calls, Begin(p, c) PROVE pc'[p] # "verify"
            BY <6>1 DEF Begin
          <6>2. CASE Verify(p) \/ Stage(p) \/ Empty(p) \/ Copy(p) \/ Compile(p) \/ Seal(p)
            BY <6>2 DEF Verify, Stage, Empty, Copy, Compile, Seal
          <6>3. CASE Inspect(p) \/ Preserve(p) \/ Promote(p) \/ Restore(p)
            BY <6>3 DEF Inspect, Preserve, Promote, Restore
          <6>4. CASE Drop(p) \/ Clean(p) \/ Crash(p)
            BY <6>4 DEF Drop, Clean, Crash
          <6> QED BY <2>3, <4>2, <6>1, <6>2, <6>3, <6>4 DEF Step
        <5> QED BY <5>1 DEF Read
      <4> QED BY <4>1, <4>2
    <3> QED BY <3>1, <3>2 DEF Reading
  <2> QED BY <2>1, <2>2, <2>3 DEF Next
<1> QED BY <1>4, <1>5

-----------------------------------------------------------------------------
\* A set marked dry holds nothing that was built, wherever it is.
DrySet(set) == set # Absent /\ set.dry => set.content = Whole(Absent)

DryBuilder(p) ==
    /\ DrySet(staged[p]) /\ DrySet(backup[p])
    /\ pc[p] \in {"copy", "compile"} => ~staged[p].dry

Dry == DrySet(final) /\ \A p \in Builders : DryBuilder(p)

LEMMA StepDry ==
    ASSUME TypeOK, Pipeline, Dry, NEW p \in Builders, Step(p) \/ Crash(p)
    PROVE  Dry'
<1>0. /\ DrySet(final) /\ DryBuilder(p) /\ call[p].dry \in BOOLEAN
  BY CallsAssumption DEF Dry, TypeOK
<1>1. ASSUME NEW q \in Builders, q # p PROVE DryBuilder(q)'
  <2>1. DryBuilder(q) /\ Same(q)
    BY <1>1, StepSame DEF Dry
  <2> QED BY <2>1 DEF DryBuilder, DrySet, Same
<1>2. DrySet(final)' /\ DryBuilder(p)'
  <2>1. ASSUME NEW c \in Calls, Begin(p, c) PROVE DrySet(final)' /\ DryBuilder(p)'
    BY <1>0, <2>1 DEF Begin, DryBuilder, DrySet, TypeOK, Goto
  <2>3. CASE Stage(p)
    <3>1. /\ staged'[p].content = Whole(Absent) /\ pc'[p] = "empty"
          /\ UNCHANGED <<final, backup>>
      BY <2>3 DEF Stage, TypeOK, Goto
    <3> QED BY <1>0, <3>1 DEF DryBuilder, DrySet
  <2>4. CASE Empty(p) \/ Copy(p) \/ Compile(p) \/ Clean(p)
    <3>1. UNCHANGED <<final, backup>> /\ PipelineOf(p)
      BY <2>4, WorkMoves DEF Pipeline
    <3>2. CASE pc'[p] = "idle"
      <4>1. staged'[p] \in {staged[p], Absent}
        BY <2>4, <3>2 DEF Empty, Copy, Compile, Clean, Turns, Through, own, Return, Fail,
                          Goto, At, TypeOK
      <4> QED BY <1>0, <3>1, <3>2, <4>1 DEF DryBuilder, DrySet
    <3>3. CASE pc'[p] # "idle"
      <4>1. pc'[p] \in {"copy", "compile"} =>
              \/ pc[p] \in {"copy", "compile"}
              \/ pc[p] = "empty" /\ ~call[p].dry /\ staged'[p] = staged[p]
        BY <2>4, <3>3, WorkMoves
      <4>2. staged'[p].dry = staged[p].dry
        BY <2>4, <3>3, WorkStaged
      <4>3. DrySet(staged[p])'
        BY <1>0, <2>4, <3>3, WorkStaged DEF DryBuilder, DrySet
      <4> QED BY <1>0, <3>1, <4>1, <4>2, <4>3 DEF DryBuilder, DrySet, PipelineOf
    <3> QED BY <3>2, <3>3
  <2>6. CASE Seal(p)
    <3>1. CASE pc'[p] = "idle"
      <4>1. staged'[p] = Absent
        BY <2>6, <3>1 DEF Seal, Return, Fail, Goto, At, TypeOK
      <4> QED BY <1>0, <2>6, <3>1, <4>1, SealMoves DEF DryBuilder, DrySet
    <3>2. CASE pc'[p] # "idle"
      BY <1>0, <2>6, <3>2, SealMoves, AbsentAssumption DEF DryBuilder, DrySet
    <3> QED BY <3>1, <3>2
  <2> USE <1>0 DEF DryBuilder, DrySet, TypeOK, own, Continue, Return, Fail, Goto, At
  <2>2. CASE Load(p) \/ Verify(p)
    BY <2>2 DEF Load, Verify
  <2>7. CASE Inspect(p) BY <2>7 DEF Inspect
  <2>8. CASE Preserve(p) BY <2>8 DEF Preserve
  <2>9. CASE Promote(p) BY <2>9 DEF Promote
  <2>10. CASE Restore(p) BY <2>10 DEF Restore
  <2>11. CASE Drop(p) BY <2>11 DEF Drop
  <2>12. CASE Crash(p) BY <2>12 DEF Crash
  <2> QED BY <2>1, <2>2, <2>3, <2>4, <2>6, <2>7, <2>8, <2>9, <2>10,
             <2>11, <2>12 DEF Step
<1> QED BY <1>1, <1>2 DEF Dry

LEMMA NextDry ==
    ASSUME TypeOK, Pipeline, Dry, [Next]_vars
    PROVE  Dry'
<1>1. ASSUME NEW p \in Builders, Step(p) \/ Crash(p) PROVE Dry'
  BY <1>1, StepDry
<1>2. CASE Damage
  <2>1. final \in Sets /\ final' = [final EXCEPT !.intact = FALSE]
    BY <1>2 DEF Damage, TypeOK, Optional
  <2>2. final'.dry = final.dry /\ final'.content = final.content /\ final # Absent
    BY <2>1, SetDamaged, AbsentAssumption
  <2>3. UNCHANGED <<pc, staged, backup>>
    BY <1>2 DEF Damage
  <2> QED BY <2>2, <2>3 DEF Dry, DryBuilder, DrySet
<1>3. CASE Edit \/ UNCHANGED vars
  BY <1>3 DEF Edit, vars, Dry, DryBuilder, DrySet
<1> QED BY <1>1, <1>2, <1>3 DEF Next

-----------------------------------------------------------------------------
\* A builder that is alone finds in the work directory what it has put there.
WholeSet(set) == set # Absent /\ ~set.dry => set.content = Whole(set.digest)

FilledBuilder(p) ==
    /\ pc[p] = "copy" => \A x \in Parts \ todo[p] : work[x] = source
    /\ pc[p] = "compile" =>
           /\ \A x \in Parts : work[x] = source
           /\ \A x \in Parts \ todo[p] : staged[p].content[x] = source
    /\ pc[p] \in {"seal"} \cup Ready => WholeSet(staged[p])
    /\ WholeSet(backup[p])

FilledBody == WholeSet(final) /\ \A p \in Builders : FilledBuilder(p)

FilledInv == Never("race") /\ Never("overlap") => FilledBody

\* The steps in the work directory.
LEMMA WorkFilled ==
    ASSUME TypeOK, Pipeline, NEW p \in Builders, FilledBuilder(p), WholeSet(final),
           digest[p] = source, source' = source,
           Empty(p) \/ Copy(p) \/ Compile(p) \/ Clean(p)
    PROVE  WholeSet(final)' /\ FilledBuilder(p)'
<1>1. /\ UNCHANGED <<final, digest, backup>> /\ todo[p] \subseteq Parts /\ work \in Trees
      /\ todo \in [Builders -> SUBSET Parts]
      /\ pc[p] \in {"empty", "copy", "compile", "clean"}
  BY WorkMoves DEF TypeOK, Empty, Copy, Compile, Clean, At
<1>2. CASE pc'[p] = "idle"
  BY <1>1, <1>2 DEF FilledBuilder, WholeSet, Ready
<1>3. CASE pc'[p] = pc[p] /\ pc[p] # "idle"
  <2>1. pc[p] = "copy" => \A x \in Parts \ todo'[p] : work'[x] = source
    <3>1. ASSUME pc[p] = "copy", NEW x \in Parts, Turns(p, x, source)
          PROVE  \A y \in Parts \ todo'[p] : work'[y] = source
      BY <1>1, <3>1 DEF Turns, FilledBuilder, Trees
    <3>2. ASSUME pc[p] = "copy", NEW x \in todo[p], work' = [work EXCEPT ![x] = Absent],
                 todo' = todo
          PROVE  \A y \in Parts \ todo'[p] : work'[y] = source
      BY <1>1, <3>2 DEF FilledBuilder, Trees
    <3>3. pc[p] = "copy" => Copy(p)
      BY DEF Empty, Compile, Clean, At
    <3>4. \/ ~Through(p, "compile") /\ ~Fail(p)
          \/ pc[p] # "copy"
      BY <1>3 DEF Through, Fail, Return, Goto, TypeOK
    <3> QED BY <3>1, <3>2, <3>3, <3>4 DEF Copy, own
  <2>2. CASE pc[p] = "compile" /\ staged'[p] = staged[p]
    <3>1. Compile(p)
      BY <2>2 DEF Empty, Copy, Clean, At
    <3>2. ~Through(p, "seal") /\ ~Fail(p)
      BY <1>3, <2>2 DEF Through, Fail, Return, Goto, TypeOK
    <3>3. PICK x \in Parts : Turns(p, x, work[x]) /\ staged' = [staged EXCEPT ![p].content[x] = work[x]]
      BY <3>1, <3>2 DEF Compile
    <3>4. work' = work /\ todo'[p] = todo[p] \ {x} /\ staged[p] \in Sets
      BY <1>1, <2>2, <3>3, AbsentAssumption DEF Turns, Trees, Pipeline, PipelineOf, TypeOK, Optional
    <3>5. staged'[p].content = [staged[p].content EXCEPT ![x] = work[x]]
      <4>1. staged'[p] = [staged[p] EXCEPT !.content[x] = work[x]]
        BY <3>3 DEF TypeOK
      <4>2. work[x] \in Optional(Versions)
        BY <1>1 DEF Trees
      <4> QED BY <3>4, <4>1, <4>2, SetCompiled
    <3> QED BY <1>1, <1>3, <2>2, <3>4, <3>5 DEF FilledBuilder, WholeSet, Ready, Sets, Trees
  <2>3. CASE pc[p] = "compile" /\ staged'[p] # staged[p]
    <3>1. PICK x \in Parts :
            /\ work' = work /\ staged[p] \in Sets
            /\ todo'[p] = todo[p] \ {x}
            /\ staged'[p].content = [staged[p].content EXCEPT ![x] = work[x]]
      BY <1>3, <2>3, WorkStaged
    <3> QED BY <1>1, <1>3, <2>3, <3>1 DEF FilledBuilder, WholeSet, Ready, Sets, Trees
  <2> QED BY <1>1, <1>3, <2>1, <2>2, <2>3 DEF FilledBuilder, WholeSet, Ready
<1>4. CASE pc'[p] # pc[p] /\ pc'[p] # "idle"
  <2>1. /\ todo[p] = {} /\ staged' = staged /\ work' = work
        /\ \/ pc[p] = "empty" /\ pc'[p] = "copy"
           \/ pc[p] = "empty" /\ pc'[p] = "seal" /\ call[p].dry
           \/ pc[p] = "copy" /\ pc'[p] = "compile"
           \/ pc[p] = "compile" /\ pc'[p] = "seal"
    BY <1>4, WorkMoves
  <2>2. todo'[p] = Parts
    BY <1>1, <1>4 DEF Empty, Copy, Compile, Clean, At, Turns, Through, own, Fail, Return,
                      Goto, TypeOK
  <2>3. pc[p] = "empty" => staged[p].dry = call[p].dry
    BY DEF Pipeline, PipelineOf
  <2>4. CASE pc[p] = "compile"
    <3>1. staged[p] \in Sets /\ staged[p].digest = source
      BY <2>4 DEF Pipeline, PipelineOf, TypeOK, Optional
    <3>2. \A x \in Parts : staged[p].content[x] = source
      BY <2>1, <2>4 DEF FilledBuilder
    <3>3. staged[p].content = Whole(source)
      BY <3>1, <3>2 DEF Sets, Trees, Whole
    <3> QED BY <1>1, <2>1, <2>4, <3>1, <3>3 DEF FilledBuilder, WholeSet, Ready
  <2> QED BY <1>1, <2>1, <2>2, <2>3, <2>4 DEF FilledBuilder, WholeSet, Ready
<1> QED BY <1>2, <1>3, <1>4

LEMMA StepFilled ==
    ASSUME TypeOK, Pipeline, HonestBody, FilledBody, NEW p \in Builders, Step(p) \/ Crash(p),
           \A q \in Builders \ {p} : pc[q] = "idle" /\ pc'[q] = "idle"
    PROVE  FilledBody'
<1>0. /\ WholeSet(final) /\ FilledBuilder(p) /\ PipelineOf(p)
      /\ pc[p] # "idle" => digest[p] = source
  BY DEF FilledBody, HonestBody, HonestBuilder, Pipeline
<1>1. source' = source
  BY DEF Step, Begin, Load, Verify, Stage, Empty, Copy, Compile, Seal, Inspect,
         Preserve, Promote, Restore, Drop, Clean, Crash
<1>2. ASSUME NEW q \in Builders \ {p} PROVE FilledBuilder(q)'
  BY <1>2, StepSame DEF FilledBody, FilledBuilder, WholeSet, Same, Ready
<1>3. WholeSet(final)' /\ FilledBuilder(p)'
  <2>1. ASSUME NEW c \in Calls, Begin(p, c) PROVE WholeSet(final)' /\ FilledBuilder(p)'
    BY <1>0, <2>1 DEF Begin, FilledBuilder, WholeSet, TypeOK, Goto, Ready
  <2>3. CASE Stage(p)
    <3>1. UNCHANGED <<final, backup>> /\ pc'[p] = "empty"
      BY <2>3 DEF Stage, TypeOK, Goto
    <3> QED BY <1>0, <3>1 DEF FilledBuilder, WholeSet, Ready
  <2>4. CASE Empty(p) \/ Copy(p) \/ Compile(p) \/ Clean(p)
    BY <1>0, <1>1, <2>4, WorkFilled DEF Empty, Copy, Compile, Clean, At
  <2>6. CASE Seal(p)
    <3>0. /\ UNCHANGED <<final, backup>>
          /\ WholeSet(final) /\ WholeSet(backup[p]) /\ WholeSet(staged[p])
      BY <1>0, <2>6, SealMoves DEF FilledBuilder
    <3>1. WholeSet(final)' /\ WholeSet(backup[p])'
      BY <3>0 DEF WholeSet
    <3>2. pc'[p] \in {"idle", "inspect"}
      BY <2>6, SealMoves
    <3>3. pc'[p] = "inspect" => WholeSet(staged[p])'
      BY <2>6, <3>0, SealMoves, AbsentAssumption DEF WholeSet
    <3> QED BY <3>1, <3>2, <3>3 DEF FilledBuilder, Ready
  <2> USE <1>0, <1>1
          DEF FilledBuilder, WholeSet, TypeOK, own, Continue, Return, Fail, Goto, At, Ready
  <2>2. CASE Load(p) \/ Verify(p)
    BY <2>2 DEF Load, Verify
  <2>7. CASE Inspect(p) BY <2>7 DEF Inspect
  <2>8. CASE Preserve(p) BY <2>8 DEF Preserve
  <2>9. CASE Promote(p) BY <2>9 DEF Promote
  <2>10. CASE Restore(p) BY <2>10 DEF Restore
  <2>11. CASE Drop(p) BY <2>11 DEF Drop
  <2>12. CASE Crash(p) BY <2>12 DEF Crash
  <2> QED BY <2>1, <2>2, <2>3, <2>4, <2>6, <2>7, <2>8, <2>9, <2>10,
             <2>11, <2>12 DEF Step
<1> QED BY <1>2, <1>3 DEF FilledBody

LEMMA NextFilled ==
    ASSUME TypeOK, BudgetInv, Pipeline, HonestInv, SoloInv, FilledInv, [Next]_vars
    PROVE  FilledInv'
<1>1. "overlap" \in Kinds /\ "race" \in Kinds
  BY DEF Kinds
<1> SUFFICES ASSUME Never("race")', Never("overlap")' PROVE FilledBody'
  BY DEF FilledInv
<1>2. /\ HonestBody /\ FilledBody /\ Alone /\ Never("overlap") /\ (Edit => Idle)
  BY <1>1, NextBudget DEF HonestInv, FilledInv, SoloInv
<1>3. ASSUME NEW p \in Builders, Step(p) \/ Crash(p) PROVE FilledBody'
  BY <1>2, <1>3, OthersIdle, StepFilled
<1>4. CASE Edit
  BY <1>2, <1>4 DEF Edit, Idle, At, FilledBody, FilledBuilder, WholeSet, Ready
<1>5. CASE Damage
  <2>1. final \in Sets /\ final' = [final EXCEPT !.intact = FALSE]
    BY <1>5 DEF Damage, TypeOK, Optional
  <2>2. /\ final'.dry = final.dry /\ final'.content = final.content
        /\ final'.digest = final.digest /\ final # Absent
    BY <2>1, SetDamaged, AbsentAssumption
  <2>3. UNCHANGED <<source, work, pc, todo, staged, backup>>
    BY <1>5 DEF Damage
  <2> QED BY <1>2, <2>2, <2>3 DEF FilledBody, FilledBuilder, WholeSet
<1>6. CASE UNCHANGED vars
  BY <1>2, <1>6 DEF vars, FilledBody, FilledBuilder, WholeSet
<1> QED BY <1>3, <1>4, <1>5, <1>6 DEF Next

-----------------------------------------------------------------------------
\* Between two renames of a publication the place is empty and the previous set
\* is held; at any other time the set published last is in place.
Moving(p) == pc[p] \in {"promote", "restore"}

KeptBy(p) ==
    /\ Moving(p) => final = Absent /\ (promised # Absent => Has(backup[p]))
    /\ pc[p] = "restore" => budget["io"] < Budget["io"]

Kept ==
    /\ \A p \in Builders : KeptBy(p)
    /\ (\A p \in Builders : ~Moving(p)) /\ promised # Absent => Has(final)

Calm == /\ Never("overlap") /\ Never("crash")
        /\ Budget["io"] - budget["io"] <= 1

KeptInv == Calm => Kept

\* One builder's step with all others idle.
LEMMA StepKept ==
    ASSUME TypeOK, BudgetInv, Pipeline, Kept, Calm', NEW p \in Builders, Step(p),
           \A q \in Builders \ {p} : pc[q] = "idle" /\ pc'[q] = "idle",
           budget'["io"] <= budget["io"], budget["io"] \in Nat, budget'["io"] \in Nat
    PROVE  Kept'
<1>0. /\ KeptBy(p)
      /\ ~Moving(p) /\ promised # Absent => Has(final)
  BY DEF Kept, Moving
<1> SUFFICES /\ KeptBy(p)'
             /\ ~Moving(p)' /\ promised' # Absent => Has(final)'
  BY DEF Kept, KeptBy, Moving
<1>1. /\ Budget["io"] \in Nat /\ Budget["io"] - budget'["io"] <= 1
      /\ budget["io"] <= Budget["io"]
  BY BudgetAssumption DEF Calm, BudgetInv, Kinds
<1> USE <1>0 DEF TypeOK, own, Continue, Turns, Through, Return, Fail, Goto, At, KeptBy, Moving, Has
<1>2. CASE Promote(p)
  <2>1. final = Absent /\ pc[p] = "promote"
    BY <1>2 DEF Promote
  <2>2. CASE final' = staged[p] /\ promised' = staged[p] /\ pc' = [pc EXCEPT ![p] = "drop"]
    <3>1. staged[p] \in Sets /\ staged[p].intact
      BY <2>1, AbsentAssumption DEF Pipeline, PipelineOf, Ready, Optional
    <3>2. AsBuilt(staged[p]) = staged[p] /\ staged[p] # Absent
      BY <3>1, SetAsBuilt, AbsentAssumption
    <3> QED BY <2>2, <3>2
  <2>3. CASE Refused /\ (IF backup[p] # Absent THEN Continue(p, "restore") ELSE Fail(p))
             /\ UNCHANGED <<final, promised>>
    <3>1. Spend({"io"})
      BY <2>1, <2>3 DEF Refused
    <3>2. budget'["io"] = budget["io"] - 1
      BY <3>1 DEF Spend, Kinds
    <3>3. budget'["io"] < Budget["io"]
      BY <1>1, <3>2
    <3>4. UNCHANGED backup
      BY <1>2 DEF Promote
    <3>5. CASE backup[p] # Absent
      <4>1. pc'[p] = "restore"
        BY <2>3, <3>5
      <4> QED BY <2>1, <2>3, <3>3, <3>4, <4>1 DEF AsBuilt
    <3>6. CASE backup[p] = Absent
      <4>1. promised = Absent /\ pc'[p] = "idle"
        BY <2>1, <2>3, <3>6
      <4> QED BY <2>3, <4>1
    <3> QED BY <3>5, <3>6
  <2> QED BY <1>2, <2>2, <2>3 DEF Promote
<1>3. CASE Restore(p)
  <2>1. final = Absent /\ pc[p] = "restore" /\ pc'[p] = "idle" /\ promised' = promised
    BY <1>3 DEF Restore
  <2>2. ~Spend({"io"})
    <3>1. SUFFICES ASSUME Spend({"io"}) PROVE FALSE
      OBVIOUS
    <3>2. budget'["io"] = budget["io"] - 1 /\ budget["io"] < Budget["io"]
      BY <2>1, <3>1 DEF Spend, Kinds
    <3> QED BY <1>1, <3>2
  <2>3. final' = backup[p]
    BY <1>3, <2>1, <2>2 DEF Restore, Refused
  <2> QED BY <2>1, <2>3 DEF AsBuilt
<1>4. CASE Preserve(p)
  <2>1. pc[p] = "preserve" /\ promised' = promised
    BY <1>4 DEF Preserve
  <2>2. CASE backup' = [backup EXCEPT ![p] = final] /\ final' = Absent
             /\ pc' = [pc EXCEPT ![p] = "promote"]
    <3>1. backup'[p] = final /\ pc'[p] = "promote"
      BY <2>2
    <3> QED BY <2>1, <2>2, <3>1 DEF AsBuilt
  <2>3. CASE UNCHANGED final /\ pc'[p] = "idle"
    BY <2>1, <2>3 DEF AsBuilt
  <2> QED BY <1>4, <2>2, <2>3 DEF Preserve
<1>5. CASE Inspect(p)
  <2>1. /\ pc[p] = "inspect" /\ UNCHANGED <<promised, final, backup>>
        /\ pc'[p] \in {"preserve", "promote", "idle"}
        /\ pc'[p] = "promote" => final = Absent
    BY <1>5 DEF Inspect
  <2>2. pc'[p] = "promote" => promised = Absent
    BY <2>1
  <2> QED BY <2>1, <2>2 DEF AsBuilt
<1>6. CASE \/ (\E c \in Calls : Begin(p, c)) \/ Load(p) \/ Verify(p)
           \/ Stage(p) \/ Empty(p) \/ Copy(p) \/ Compile(p) \/ Seal(p) \/ Drop(p) \/ Clean(p)
  <2>1. /\ UNCHANGED <<promised, final>>
        /\ pc[p] \notin {"promote", "restore"} /\ pc'[p] \notin {"promote", "restore"}
    BY <1>6 DEF Begin, Load, Verify, Stage, Empty, Copy, Compile, Seal, Drop, Clean
  <2> QED BY <2>1 DEF AsBuilt
<1> QED BY <1>2, <1>3, <1>4, <1>5, <1>6 DEF Step

LEMMA NextKept ==
    ASSUME TypeOK, BudgetInv, Pipeline, SoloInv, KeptInv, [Next]_vars
    PROVE  KeptInv'
<1> SUFFICES ASSUME Calm' PROVE Kept'
  BY DEF KeptInv
<1>1. /\ "io" \in Kinds /\ "overlap" \in Kinds /\ "crash" \in Kinds
      /\ Budget["io"] \in Nat
  BY BudgetAssumption DEF Kinds
<1>2. budget["io"] \in Nat /\ budget'["io"] \in Nat /\ budget'["io"] <= budget["io"]
  BY <1>1, BudgetFalls
<1>3. Calm /\ Never("overlap")' /\ Never("crash")'
  BY <1>1, <1>2, NextBudget DEF Calm
<1>4. Kept /\ Alone
  BY <1>3 DEF KeptInv, SoloInv, Calm
<1>5. ASSUME NEW p \in Builders, Crash(p) PROVE FALSE
  <2>1. Spend({"crash"}) /\ {"crash"} \in SUBSET Kinds
    BY <1>1, <1>5 DEF Crash
  <2> QED BY <1>1, <1>3, <2>1, SpendBudget
<1>6. ASSUME NEW p \in Builders, Step(p) PROVE Kept'
  <2>1. \A q \in Builders \ {p} : pc[q] = "idle" /\ pc'[q] = "idle"
    BY <1>3, <1>4, <1>6, OthersIdle
  <2> QED BY <1>2, <1>4, <1>6, <2>1, StepKept
<1>7. CASE Damage
  <2>1. final \in Sets /\ final' = [final EXCEPT !.intact = FALSE]
    BY <1>7 DEF Damage, TypeOK, Optional
  <2>2. final # Absent /\ final' # Absent /\ AsBuilt(final') = AsBuilt(final)
    BY <2>1, SetDamaged, AbsentAssumption
  <2>3. UNCHANGED <<pc, backup, promised>>
    BY <1>7 DEF Damage
  <2> QED BY <1>4, <2>2, <2>3 DEF Kept, KeptBy, Moving, Has
<1>8. CASE Edit
  <2>1. UNCHANGED <<final, pc, backup, promised>> /\ budget'["io"] <= budget["io"]
    BY <1>2, <1>8 DEF Edit
  <2>2. \A p \in Builders : KeptBy(p)'
    BY <1>1, <1>2, <1>4, <2>1 DEF Kept, KeptBy, Moving, Has, AsBuilt
  <2> QED BY <1>4, <2>1, <2>2 DEF Kept, Moving, Has, AsBuilt
<1>9. CASE UNCHANGED vars
  BY <1>4, <1>9 DEF vars, Kept, KeptBy, Moving, Has, AsBuilt
<1> QED BY <1>5, <1>6, <1>7, <1>8, <1>9 DEF Next

-----------------------------------------------------------------------------
Quiet == SoloInv /\ Dry /\ FilledInv /\ KeptInv

LEMMA QuietAlways == Spec => [](Base /\ Quiet)
<1>1. Init => Quiet
  <2> SUFFICES ASSUME Init PROVE Quiet
    OBVIOUS
  <2>1. SoloInv
    BY DEF Init, SoloInv, Alone, Reading, Read
  <2>2. Dry
    BY DEF Init, Dry, DryBuilder, DrySet
  <2>3. KeptInv
    BY DEF Init, KeptInv, Kept, KeptBy, Moving
  <2>4. FilledInv
    BY DEF Init, FilledInv, FilledBody, FilledBuilder, WholeSet, Ready
  <2> QED BY <2>1, <2>2, <2>3, <2>4 DEF Quiet
<1>2. Base /\ Quiet /\ [Next]_vars => Quiet'
  BY NextSolo, NextDry, NextFilled, NextKept DEF Base, Quiet
<1> QED BY BaseAlways, <1>1, <1>2, PTL DEF Spec

\* A build that fails leaves the set published last in place: publishArtifactSet
\* renames it back, and one failed rename cannot fail both the promotion and the
\* restoration.
THEOREM PreviousKept == Spec => []FailureKeepsPrevious
<1>1. Quiet => FailureKeepsPrevious
  BY DEF Quiet, KeptInv, Calm, Kept, Moving, Has, FailureKeepsPrevious, Idle, At
<1> QED BY QuietAlways, <1>1, PTL

\* While no edit races a build, nothing in a published real build is from another
\* source than its digest names, although every builder empties, fills and reads
\* one work directory file by file; and a build that none overlaps has the whole
\* of it (RemoveAll, CopyTree and runBuild in Build).
THEOREM DigestsAreHonest == Spec => []DigestIsHonest
<1>1. ASSUME Base, Quiet PROVE DigestIsHonest
  <2> SUFFICES ASSUME Never("race"), final # Absent, ~final.dry, NEW x \in Parts
               PROVE  \/ final.content[x] = final.digest
                      \/ final.content[x] = Absent /\ ~Never("overlap")
    BY DEF DigestIsHonest
  <2>1. final.content[x] \in {final.digest, Absent}
    BY <1>1 DEF Base, HonestInv, HonestBody, HonestSet, Pure
  <2>2. Never("overlap") => final.content[x] = final.digest
    BY <1>1 DEF Quiet, FilledInv, FilledBody, WholeSet, Whole
  <2> QED BY <2>1, <2>2
<1> QED BY QuietAlways, <1>1, PTL

\* reuseArtifactSet returns the set whose manifest it read, intact, of the
\* requested mode and made from the source as it is, although it reads and
\* verifies in two steps.
THEOREM ReusedIsCurrent == Spec => ReuseIsCurrent
<1> DEFINE Current(p) ==
        /\ outcome[p] # "reused" /\ outcome'[p] = "reused"
        /\ Never("race") /\ Never("overlap")
        => /\ final.intact /\ final = loaded[p]
           /\ final.dry = call[p].dry
           /\ final.content = Whole(IF call[p].dry THEN Absent ELSE source)
<1>1. ASSUME Base, Quiet, Next, NEW p \in Builders PROVE Current(p)
  <2> SUFFICES ASSUME outcome[p] # "reused", outcome'[p] = "reused",
                      Never("race"), Never("overlap")
               PROVE  /\ final.intact /\ final = loaded[p]
                      /\ final.dry = call[p].dry
                      /\ final.content = Whole(IF call[p].dry THEN Absent ELSE source)
    OBVIOUS
  <2>0. TypeOK
    BY <1>1 DEF Base
  <2>1. Verify(p) /\ Verified
    <3> USE <2>0 DEF TypeOK, own, Continue, Turns, Through, Return, Fail, Goto, At
    <3>1. ASSUME NEW q \in Builders, Step(q) \/ Crash(q)
          PROVE  Verify(p) /\ Verified
      <4>1. ASSUME NEW c \in Calls, Begin(q, c) PROVE FALSE
        BY <4>1 DEF Begin
      <4>2. CASE Load(q) \/ Stage(q) \/ Empty(q) \/ Copy(q) \/ Compile(q) \/ Seal(q)
        BY <4>2 DEF Load, Stage, Empty, Copy, Compile, Seal
      <4>3. CASE Inspect(q) \/ Preserve(q) \/ Promote(q) \/ Restore(q)
        BY <4>3 DEF Inspect, Preserve, Promote, Restore
      <4>4. CASE Drop(q) \/ Clean(q) \/ Crash(q)
        BY <4>4 DEF Drop, Clean, Crash
      <4>5. CASE Verify(q)
        <5>1. CASE Verified /\ outcome' = [outcome EXCEPT ![q] = "reused"]
          <6>1. q = p
            BY <5>1
          <6> QED BY <4>5, <5>1, <6>1
        <5>2. CASE UNCHANGED outcome
          BY <5>2
        <5> QED BY <4>5, <5>1, <5>2 DEF Verify
      <4> QED BY <3>1, <4>1, <4>2, <4>3, <4>4, <4>5 DEF Step
    <3>2. CASE Edit \/ Damage
      BY <3>2 DEF Edit, Damage
    <3> QED BY <1>1, <3>1, <3>2 DEF Next
  <2>2. pc[p] = "verify" /\ final # Absent /\ final.intact
    BY <2>1 DEF Verify, Verified, At
  <2>3. Read(p)
    BY <1>1 DEF Quiet, SoloInv, Reading
  <2>4. /\ final = loaded[p]
        /\ final.dry = call[p].dry /\ final.digest = digest[p]
    BY <2>2, <2>3 DEF Read
  <2>5. WholeSet(final) /\ digest[p] = source
    BY <1>1, <2>2 DEF Base, HonestInv, HonestBody, HonestBuilder, Quiet, FilledInv, FilledBody
  <2>6. DrySet(final)
    BY <1>1 DEF Quiet, Dry
  <2>7. call[p].dry \in BOOLEAN
    BY <2>0, CallsAssumption DEF TypeOK
  <2>8. final.content = Whole(IF call[p].dry THEN Absent ELSE source)
    BY <2>2, <2>4, <2>5, <2>6, <2>7 DEF WholeSet, DrySet
  <2> QED BY <2>2, <2>4, <2>8
<1>2. Base /\ Quiet /\ [Next]_vars => [\A p \in Builders : Current(p)]_vars
  BY <1>1
<1>3. Spec => [][\A p \in Builders : Current(p)]_vars
  BY QuietAlways, <1>2, PTL DEF Spec
<1> QED BY <1>3 DEF ReuseIsCurrent
-----------------------------------------------------------------------------
\* The refinement.  What is aside is what a builder holds or left over.
Aside == ({backup[p] : p \in Builders} \cup orphans) \ {Absent}

\* Latest, in the terms of the abstract specification.
LatestThere ==
    promised # Absent =>
        \E set \in ({final} \cup Aside) \ {Absent} : AsBuilt(set) = promised

LEMMA LatestIsThere ==
    ASSUME Latest
    PROVE  LatestThere
<1> SUFFICES ASSUME promised # Absent
             PROVE  \E set \in ({final} \cup Aside) \ {Absent} : AsBuilt(set) = promised
  BY DEF LatestThere
<1>1. CASE Has(final) BY <1>1 DEF Has
<1>2. ASSUME NEW p \in Builders, Has(backup[p])
      PROVE  \E set \in ({final} \cup Aside) \ {Absent} : AsBuilt(set) = promised
  <2>1. backup[p] \in Aside BY <1>2 DEF Has, Aside
  <2> QED BY <1>2, <2>1 DEF Has
<1>3. ASSUME NEW set \in orphans, Has(set)
      PROVE  \E x \in ({final} \cup Aside) \ {Absent} : AsBuilt(x) = promised
  <2>1. set \in Aside BY <1>3 DEF Has, Aside
  <2> QED BY <1>3, <2>1 DEF Has
<1> QED BY <1>1, <1>2, <1>3 DEF Latest

\* Each step of a builder is one operation on the shelf or none.
LEMMA StepShelf ==
    ASSUME TypeOK, Pipeline, LatestThere', NEW p \in Builders,
           Step(p) \/ Crash(p)
    PROVE  [Shelf!Next]_(Shelf!shelf)
<1>0. \A q \in Builders : q # p => backup'[q] = backup[q]
  BY StepSame DEF Same
<1> USE DEF TypeOK
<1>1. CASE final' = final /\ orphans' = orphans /\ backup' = backup /\ promised' = promised
  BY <1>1 DEF Shelf!shelf
<1>2. CASE Preserve(p)
  <2>1. backup[p] = Absent
    BY <1>2 DEF Preserve, At, Pipeline, PipelineOf
  <2>2. CASE UNCHANGED <<final, backup>>
    BY <1>1, <1>2, <2>2 DEF Preserve
  <2>3. CASE final # Absent /\ backup' = [backup EXCEPT ![p] = final] /\ final' = Absent
    <3>1. backup'[p] = final
      BY <2>3
    <3>2. orphans' = orphans /\ promised' = promised
      BY <1>2 DEF Preserve
    <3>3. Aside' = Aside \cup {final}
      BY <1>0, <2>1, <2>3, <3>1, <3>2 DEF Aside
    <3>4. Shelf!Hide
      BY <2>3, <3>2, <3>3 DEF Shelf!Hide, Aside
    <3> QED BY <3>4 DEF Shelf!Next
  <2> QED BY <1>2, <2>2, <2>3 DEF Preserve
<1>3. CASE Promote(p)
  <2>1. CASE UNCHANGED <<final, promised>>
    BY <1>1, <1>3, <2>1 DEF Promote
  <2>2. CASE final = Absent /\ final' = staged[p] /\ promised' = staged[p]
    <3>1. /\ staged[p] # Absent /\ staged[p] \in Sets /\ staged[p].intact
          /\ staged[p].status = "good"
      BY <1>3 DEF Promote, At, Pipeline, PipelineOf, Ready, Optional
    <3>2. orphans' = orphans /\ backup' = backup
      BY <1>3 DEF Promote
    <3>3. Shelf!Publish(staged[p])
      BY <2>2, <3>2 DEF Shelf!Publish
    <3> QED BY <3>1, <3>3 DEF Shelf!Next
  <2> QED BY <1>3, <2>1, <2>2 DEF Promote
<1>4. CASE Restore(p)
  <2>1. backup[p] # Absent /\ backup[p] \in Aside /\ promised' = promised
    BY <1>4 DEF Restore, At, Pipeline, PipelineOf, Aside
  <2>2. backup'[p] = Absent
    BY <1>4 DEF Restore
  <2>3. CASE final = Absent /\ final' = backup[p] /\ orphans' = orphans
    <3>0. PICK old : old = backup[p]
      OBVIOUS
    <3>1. Aside' \in {Aside, Aside \ {old}}
      BY <1>0, <2>2, <2>3, <3>0 DEF Aside
    <3>2. Shelf!PutBack(old)
      BY <2>1, <2>3, <3>0, <3>1 DEF Shelf!PutBack, Aside
    <3>3. \E set \in Aside : Shelf!PutBack(set)
      BY <2>1, <3>0, <3>2
    <3> QED BY <3>3 DEF Shelf!Next, Aside
  <2>4. CASE final' = final /\ orphans' = orphans \cup {backup[p]}
    <3>1. Aside' = Aside
      BY <1>0, <2>2, <2>1, <2>4 DEF Aside
    <3> QED BY <2>1, <2>4, <3>1 DEF Shelf!shelf, Aside
  <2> QED BY <1>4, <2>3, <2>4 DEF Restore
<1>5. CASE Drop(p)
  <2>1. final' = final /\ orphans' = orphans /\ promised' = promised
    BY <1>5 DEF Drop
  <2>2. backup'[p] = Absent
    BY <1>5 DEF Drop
  <2>3. Aside' \in {Aside, Aside \ {backup[p]}}
    BY <1>0, <2>1, <2>2 DEF Aside
  <2>4. CASE Aside' = Aside
    BY <2>1, <2>4 DEF Shelf!shelf, Aside
  <2>5. CASE Aside' # Aside
    <3>1. backup[p] \in Aside /\ Aside' = Aside \ {backup[p]}
      BY <2>3, <2>5
    <3>0. PICK old : old = backup[p]
      OBVIOUS
    <3>2. Shelf!Discard(old)
      BY <2>1, <3>0, <3>1 DEF Shelf!Discard, Shelf!Kept, Shelf!Pristine, Aside,
                        LatestThere, AsBuilt
    <3>3. \E set \in Aside : Shelf!Discard(set)
      BY <3>0, <3>1, <3>2
    <3> QED BY <3>3 DEF Shelf!Next, Aside
  <2> QED BY <2>4, <2>5
<1>6. CASE Crash(p)
  <2>1. /\ final' = final /\ promised' = promised /\ backup'[p] = Absent
        /\ orphans' = orphans \cup ({backup[p]} \ {Absent})
    BY <1>6 DEF Crash
  <2>2. Aside' = Aside
    BY <1>0, <2>1 DEF Aside
  <2> QED BY <2>1, <2>2 DEF Shelf!shelf, Aside
<1>7. CASE Load(p) \/ Verify(p) \/ Stage(p) \/ Empty(p) \/ Copy(p) \/ Compile(p)
           \/ Seal(p) \/ Inspect(p) \/ Clean(p)
  <2>1. UNCHANGED <<final, orphans, backup, promised>>
    BY <1>7 DEF Load, Verify, Stage, Empty, Copy, Compile, Seal, Inspect, Clean
  <2> QED BY <1>1, <2>1
<1>8. ASSUME NEW c \in Calls, Begin(p, c)
      PROVE  UNCHANGED <<final, orphans, backup, promised>>
  BY <1>8 DEF Begin
<1> QED BY <1>1, <1>2, <1>3, <1>4, <1>5, <1>6, <1>7, <1>8 DEF Step

\* The publication implements PublishedSets, for any number of overlapping
\* builders, failed renames, crashes and damaged sets: the renames of Promote,
\* Preserve and Restore publish, hide and put back, the removal of a backup
\* discards, and no other step shows.
THEOREM PublicationImplementsShelf == Spec => ImplementsShelf
<1>1. Init => Shelf!Init
  BY DEF Init, Shelf!Init
<1>2. Base => LatestThere
  BY LatestIsThere DEF Base
<1>3. ASSUME Base, LatestThere', [Next]_vars
      PROVE  [Shelf!Next]_(Shelf!shelf)
  <2>0. TypeOK /\ Pipeline
    BY <1>3 DEF Base
  <2>1. ASSUME NEW p \in Builders, Step(p) \/ Crash(p)
        PROVE  [Shelf!Next]_(Shelf!shelf)
    BY <1>3, <2>0, <2>1, StepShelf
  <2>2. CASE Damage
    <3>1. Shelf!Spoil
      BY <2>2 DEF Damage, Shelf!Spoil, Shelf!Spoiled
    <3> QED BY <3>1 DEF Shelf!Next
  <2>3. CASE Edit \/ UNCHANGED vars
    BY <2>3 DEF Edit, vars, Shelf!shelf
  <2> QED BY <1>3, <2>1, <2>2, <2>3 DEF Next
<1> QED BY <1>1, <1>2, <1>3, BaseAlways, PTL DEF Spec, ImplementsShelf, Shelf!Spec
=============================================================================
